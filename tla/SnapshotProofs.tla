------------------------------ MODULE SnapshotProofs ------------------------------
(***************************************************************************)
(* RowVersions implements SnapshotIsolation.                               *)
(*                                                                         *)
(* The rows of transactions that are undecided, from their start to the    *)
(* end of their commit or of their roll-back, are what can go wrong.  The  *)
(* invariant (SnapshotInv) has their marks, the values they have written   *)
(* and the UpdateInfos they have linked: what is deleted has the mark of   *)
(* one transaction; of the UpdateInfos that have a row that of who is      *)
(* undecided comes first, and the base has his value; those in front of it *)
(* he does not see.  It holds together with the invariants of              *)
(* RowVersionsProofs.                                                      *)
(*                                                                         *)
(* A reader is then given by the timestamps it sees, and a step leaves it  *)
(* what it reads if it sees nothing of who acts (Apart): so do the others  *)
(* that run, and who reads the committed table.  It remains to show what a *)
(* step makes of the transaction that acts, and, for the end of a commit,  *)
(* of the committed table, one action after the other.                     *)
(***************************************************************************)
EXTENDS RowVersionsProofs

-----------------------------------------------------------------------------
(* The mapping, and what has to be shown of a step                         *)

\* What stands for each variable of SnapshotIsolation.
Db == CommittedTable(Now)
Phases == [t \in Txns |-> Phase(t)]
Views == [t \in Txns |-> View(t)]
Deleteds == [t \in Txns |-> DeletedBy(t)]
Updateds == [t \in Txns |-> UpdatedBy(t)]
Inserteds == [t \in Txns |-> IF Phase(t) \in {"running", "ending"} THEN local[t] ELSE 0]

\* A step of the abstract specification, told by what stands for its variables.
LEMMA MapsStutter ==
  ASSUME UNCHANGED <<Db, Phases, Views, Deleteds, Updateds, Inserteds>>
  PROVE  UNCHANGED Snapshots!vars
BY DEF Snapshots!vars, Db, Phases, Views, Deleteds, Updateds, Inserteds

\* A transaction starts: it sees what is committed.
LEMMA MapsStart ==
  ASSUME NEW t \in Txns, Phases[t] = "new", Phases' = [Phases EXCEPT ![t] = "running"],
         Views' = [Views EXCEPT ![t] = Db], UNCHANGED <<Db, Deleteds, Updateds, Inserteds>>
  PROVE  Snapshots!Next
BY DEF Snapshots!Next, Snapshots!Start, Db, Phases, Views, Deleteds, Updateds, Inserteds

\* It adds a row.
LEMMA MapsInsert ==
  ASSUME NEW t \in Txns, Phases[t] = "running", Inserteds' = [Inserteds EXCEPT ![t] = @ + 1],
         UNCHANGED <<Db, Phases, Views, Deleteds, Updateds>>
  PROVE  Snapshots!Next
BY DEF Snapshots!Next, Snapshots!Insert, Db, Phases, Views, Deleteds, Updateds, Inserteds

\* It deletes rows.
LEMMA MapsDelete ==
  ASSUME NEW t \in Txns, NEW S \in SUBSET Rows, S # {}, Phases[t] = "running",
         Deleteds' = [Deleteds EXCEPT ![t] = @ \union S],
         \A r \in S : Views[t][r] # Absent /\ Db[r] # Absent,
         \A u \in Txns \ {t} : Deleteds[u] \cap S = {},
         Views' = [Views EXCEPT ![t] = [r \in Rows |-> IF r \in S THEN Absent ELSE @[r]]],
         UNCHANGED <<Db, Phases, Updateds, Inserteds>>
  PROVE  Snapshots!Next
BY DEF Snapshots!Next, Snapshots!Delete, Db, Phases, Views, Deleteds, Updateds, Inserteds

\* It updates rows.
LEMMA MapsUpdate ==
  ASSUME NEW t \in Txns, NEW S \in SUBSET Rows, S # {}, Phases[t] = "running",
         Updateds' = [Updateds EXCEPT ![t] = @ \union S],
         \A r \in S : Views[t][r] # Absent /\ (r \notin Updateds[t] => Db[r] \in {Views[t][r], Absent}),
         \A u \in Txns \ {t} : Updateds[u] \cap S = {},
         Views' = [Views EXCEPT ![t] = [r \in Rows |-> IF r \in S THEN t ELSE @[r]]],
         UNCHANGED <<Db, Phases, Deleteds, Inserteds>>
  PROVE  Snapshots!Next
BY DEF Snapshots!Next, Snapshots!Update, Db, Phases, Views, Deleteds, Updateds, Inserteds

\* It is about to commit, or to abort.
LEMMA MapsEnd ==
  ASSUME NEW t \in Txns, Phases[t] = "running",
         \/ Phases' = [Phases EXCEPT ![t] = "ending"] /\ UNCHANGED Inserteds
         \/ Phases' = [Phases EXCEPT ![t] = "aborting"] /\ Inserteds' = [Inserteds EXCEPT ![t] = 0],
         Views' = [Views EXCEPT ![t] = [r \in Rows |-> Absent]],
         UNCHANGED <<Db, Deleteds, Updateds>>
  PROVE  Snapshots!Next
BY DEF Snapshots!Next, Snapshots!End, Snapshots!Nothing, Db, Phases, Views, Deleteds, Updateds, Inserteds

\* The instance has its own name for the size of a set.
LEMMA SameCardinality == \A S : Snapshots!Cardinality(S) = Cardinality(S)
BY DEF Snapshots!Cardinality, Cardinality

\* It commits.
LEMMA MapsCommit ==
  ASSUME NEW t \in Txns, Phases[t] = "ending", Phases' = [Phases EXCEPT ![t] = "done"],
         NEW A \in SUBSET Rows, \A r \in A : Db[r] = Absent, Cardinality(A) = Inserteds[t],
         Db' = [r \in Rows |->
                  CASE r \in A                                -> t
                    [] r \in Deleteds[t] /\ r \notin A        -> Absent
                    [] r \notin Deleteds[t] \union A
                         /\ r \in Updateds[t] /\ Db[r] # Absent -> t
                    [] OTHER                                  -> Db[r]],
         Deleteds' = [Deleteds EXCEPT ![t] = {}], Updateds' = [Updateds EXCEPT ![t] = {}],
         Inserteds' = [Inserteds EXCEPT ![t] = 0], UNCHANGED Views
  PROVE  Snapshots!Next
<1>1. \E B \in SUBSET {r \in Rows : Db[r] = Absent} :
        /\ Cardinality(B) = Inserteds[t]
        /\ Db' = [r \in Rows |->
                    CASE r \in B                                -> t
                      [] r \in Deleteds[t] /\ r \notin B        -> Absent
                      [] r \notin Deleteds[t] \union B
                           /\ r \in Updateds[t] /\ Db[r] # Absent -> t
                      [] OTHER                                  -> Db[r]]
  <2> WITNESS A \in SUBSET {r \in Rows : Db[r] = Absent}
  <2> QED OBVIOUS
<1>2. Snapshots!Commit(t)
  BY <1>1, SameCardinality DEF Snapshots!Commit, Db, Phases, Views, Deleteds, Updateds, Inserteds
<1> QED BY <1>2 DEF Snapshots!Next

\* It gives up rows it has changed, or is over.
LEMMA MapsGiveUp ==
  ASSUME NEW t \in Txns, Phases[t] = "aborting", NEW p \in {"aborting", "done"},
         Phases' = [Phases EXCEPT ![t] = p],
         NEW D \in SUBSET Deleteds[t], Deleteds' = [Deleteds EXCEPT ![t] = D],
         NEW U \in SUBSET Updateds[t], Updateds' = [Updateds EXCEPT ![t] = U],
         p = "done" => D = {} /\ U = {},
         UNCHANGED <<Db, Views, Inserteds>>
  PROVE  Snapshots!Next
<1>1. Phases[t]' = p /\ Deleteds[t]' = D /\ Updateds[t]' = U  BY DEF Phases, Deleteds, Updateds
<1>2. Snapshots!GiveUp(t)
  BY <1>1 DEF Snapshots!GiveUp, Db, Phases, Views, Deleteds, Updateds, Inserteds
<1> QED BY <1>2 DEF Snapshots!Next

-----------------------------------------------------------------------------
(* The invariant: the marks, values and versions that are not decided yet  *)

\* From its start to the end of its commit, or of its roll-back.
Undecided == Live \ {"remove"}
\* A row of a commit that is over.
Old(r) == r <= count /\ inserted[r] <= last_commit

\* Who is no transaction of the setup does nothing.
AbsentInv ==
  \A t \in Txns \ DOMAIN setup.changes :
    pc[t] = "done" /\ commit_id[t] = 0 /\ undo[t] = <<>> /\ local[t] = 0
\* The local storage is appended before the timestamp of the commit is taken.
LocalInv == \A t \in Txns : pc[t] \in {"written", "commit"} /\ local[t] > 0 => Appends(t) # {}
AgeInv == \A t \in Txns : pc[t] \in Live => start_time[t] > 0
\* What is deleted is old, and the mark that of a commit that is over or of somebody undecided.
MarkInv ==
  \A r \in Rows : deleted[r] # NOT_DELETED_ID =>
    /\ Old(r)
    /\ \/ deleted[r] <= last_commit
       \/ \E t \in Txns : \E i \in Deletes(t) : Marking(t, i) /\ r \in undo[t][i].rows
\* Marks of a commit get its timestamp one entry after the other,
StampedMarksInv ==
  \A t \in Txns : pc[t] = "commit" => \A i \in Deletes(t) : i <= done[t] =>
    \A r \in undo[t][i].rows : deleted[r] = commit_id[t]
\* and so do its UpdateInfos.
OwnVersionInv ==
  \A v \in Rows : \A i \in DOMAIN chain[v] : LET u == chain[v][i].owner IN
    pc[u] \in Undecided => \/ chain[v][i].version = transaction_id[u]
                           \/ pc[u] = "commit" /\ chain[v][i].version = commit_id[u]
\* Rows that are appended but not committed have the value of who appends them.
PendingValueInv ==
  \A t \in Txns : pc[t] \in {"written", "commit"} =>
    \A i \in Appends(t) : \A r \in undo[t][i].rows : current[r] = t
\* Only old rows are updated, in the vector they are in.
OldRowsInv ==
  \A v \in Rows : \A i \in DOMAIN chain[v] : \A r \in DOMAIN chain[v][i].old : Old(r) /\ Vec(r) = v
\* In front of the UpdateInfo of somebody undecided is what he does not see;
FrontInv ==
  \A v \in Rows : \A i, j \in DOMAIN chain[v] : LET u == chain[v][j].owner IN
    i < j /\ pc[u] \in Undecided => chain[v][i].version > start_time[u]
\* of the UpdateInfos that have a row his is the first, and the row has his value.
RowOrderInv ==
  \A v \in Rows : \A i, j \in DOMAIN chain[v] :
    i < j /\ pc[chain[v][j].owner] \in Undecided =>
      DOMAIN chain[v][i].old \cap DOMAIN chain[v][j].old = {}
NewestInv ==
  \A v \in Rows : \A i \in DOMAIN chain[v] : LET u == chain[v][i].owner IN
    pc[u] \in Undecided => \A r \in DOMAIN chain[v][i].old : current[r] = u
ChainInv == OwnVersionInv /\ OldRowsInv /\ FrontInv /\ RowOrderInv /\ NewestInv
\* What is cleaned up everybody sees.
ReadBy(w) ==
  \A u \in ToSet(w.txns) : Committed(u) /\ (HasUpdates(u) \/ commit_id[u] <= w.lowest) =>
    \A a \in active : commit_id[u] < start_time[a]
ReadersInv == (\A i \in DOMAIN cleanup_queue : ReadBy(cleanup_queue[i])) /\ ReadBy(work)

SnapshotInv ==
  /\ AbsentInv /\ LocalInv /\ AgeInv /\ MarkInv /\ StampedMarksInv /\ PendingValueInv
  /\ ChainInv /\ ReadersInv

\* Initially nothing is changed.
LEMMA InitSnapshotInv == Init => SnapshotInv
<1> SUFFICES ASSUME Init PROVE SnapshotInv
  OBVIOUS
<1>1. /\ \A t \in Txns : /\ pc[t] \in {"new", "done"} /\ commit_id[t] = 0 /\ undo[t] = <<>>
                         /\ local[t] = 0
                         /\ t \notin DOMAIN setup.changes => pc[t] = "done"
      /\ \A r \in Rows : deleted[r] = NOT_DELETED_ID
      /\ \A v \in Rows : chain[v] = <<>>
      /\ cleanup_queue = <<>> /\ ToSet(work.txns) = {}
  <2>1. work.txns = <<>>  BY DEF Init, NoWork
  <2>2. ToSet(work.txns) = {}  BY <2>1 DEF ToSet
  <2> QED BY <2>2 DEF Init
<1>2. AbsentInv /\ LocalInv /\ AgeInv /\ StampedMarksInv /\ PendingValueInv
  <2>1. AbsentInv  BY <1>1 DEF AbsentInv
  <2>2. LocalInv  BY <1>1 DEF LocalInv
  <2>3. AgeInv  BY <1>1 DEF AgeInv, Live
  <2>4. StampedMarksInv  BY <1>1 DEF StampedMarksInv
  <2>5. PendingValueInv  BY <1>1 DEF PendingValueInv
  <2> QED BY <2>1, <2>2, <2>3, <2>4, <2>5
<1>3. MarkInv  BY <1>1 DEF MarkInv
<1>4. ChainInv  BY <1>1 DEF ChainInv, OwnVersionInv, OldRowsInv, FrontInv, RowOrderInv, NewestInv
<1>5. ReadersInv  BY <1>1 DEF ReadersInv, ReadBy
<1> QED BY <1>2, <1>3, <1>4, <1>5 DEF SnapshotInv

\* Nothing has been deleted twice, nor is there an id or timestamp in the future.
LEMMA NowIs ==
  ASSUME IInv, CleanInv, SoundInv
  PROVE  /\ Now \in Nat /\ 0 < Now /\ last_commit \in Nat /\ clock \in Nat
         /\ last_commit < Now /\ Now <= clock /\ clock <= TRANSACTION_ID_START
         /\ \A t \in Txns : pc[t] = "commit" => Now = commit_id[t]
         /\ (\A t \in Txns : pc[t] # "commit") => Now = clock
         /\ \A t \in Txns : pc[t] \in Live => start_time[t] < clock
         /\ \A t \in Txns : pc[t] \in Undecided \ {"commit"} => start_time[t] < Now
<1>0. IdsInv /\ TimesInv  BY DEF SoundInv
<1>1. /\ last_commit \in Nat /\ clock \in Nat /\ last_commit < clock
      /\ clock <= TRANSACTION_ID_START
      /\ \A u \in Txns : commit_id[u] \in Nat /\ commit_id[u] < clock
  BY <1>0, IdsAre
<1>2. \A t, u \in Txns : pc[t] = "commit" /\ pc[u] = "commit" => t = u
  BY DEF IInv, Locked, LockPcs
<1>3. \A t \in Txns : pc[t] \in Live => start_time[t] < clock  BY <1>0 DEF TimesInv
<1>4. CASE Committing = {}
  <2>1. Now = clock  BY <1>4 DEF Now
  <2> QED BY <1>1, <1>3, <1>4, <2>1 DEF Committing, Undecided
<1>5. ASSUME NEW t \in Txns, pc[t] = "commit" PROVE Now = commit_id[t]
  <2>1. Committing = {t}  BY <1>2, <1>5 DEF Committing
  <2>2. (CHOOSE u \in Committing : TRUE) = t  BY <2>1
  <2> QED BY <2>1, <2>2 DEF Now
<1>6. ASSUME NEW t \in Txns, pc[t] = "commit"
      PROVE  /\ last_commit < commit_id[t] /\ commit_id[t] <= clock
             /\ \A u \in Txns : pc[u] \in Undecided \ {"commit"} => start_time[u] < commit_id[t]
  <2>1. \A u \in Txns : pc[u] \in Undecided \ {"commit"} => u \in active \ {t}
    BY <1>6 DEF CleanInv, ActiveInv, Undecided
  <2> QED BY <1>0, <1>1, <1>6, <2>1 DEF TimesInv, StampedPcs
<1>7. CASE Committing # {}
  <2>1. PICK t \in Txns : pc[t] = "commit"  BY <1>7 DEF Committing
  <2> QED BY <1>1, <1>3, <1>5, <1>6, <2>1
<1> QED BY <1>4, <1>7

\* The ids of rows, of marks and of UpdateInfos: below now, or those of somebody undecided.
LEMMA InsertIdIs ==
  ASSUME IInv, CleanInv, SoundInv, NEW r \in Rows, r <= count
  PROVE  /\ inserted[r] \in Nat
         /\ \/ inserted[r] <= last_commit
            \/ \E t \in Txns : /\ pc[t] \in {"written", "commit"}
                               /\ \E i \in Appends(t) : r \in undo[t][i].rows
                               /\ \/ inserted[r] = transaction_id[t]
                                  \/ pc[t] = "commit" /\ inserted[r] = commit_id[t]
<1>1. r \in 1 .. count /\ inserted[r] \in Nat
  BY DEF CleanInv, DataTyped, Rows
<1>2. inserted[r] <= last_commit \/ PendingRow(r)  BY <1>1 DEF SoundInv, RowInv
<1>3. CASE PendingRow(r)
  <2>1. PICK t \in Txns : pc[t] \in {"written", "commit"} /\ \E i \in Appends(t) : r \in undo[t][i].rows
    BY <1>3 DEF PendingRow
  <2>2. PICK i \in Appends(t) : r \in undo[t][i].rows  BY <2>1
  <2>3. inserted[r] = transaction_id[t] \/ (pc[t] = "commit" /\ inserted[r] = commit_id[t])
    BY <2>1, <2>2 DEF SoundInv, PendingInv
  <2> QED BY <1>1, <2>1, <2>3
<1> QED BY <1>1, <1>2, <1>3

\* and so has a delete id: nobody has deleted the row, a commit that is over has,
\* or somebody who is undecided.
LEMMA DeleteIdIs ==
  ASSUME IInv, CleanInv, SoundInv, SnapshotInv, NEW r \in Rows
  PROVE  /\ deleted[r] \in Nat
         /\ \/ deleted[r] = NOT_DELETED_ID
            \/ Old(r) /\ deleted[r] <= last_commit
            \/ /\ Old(r)
               /\ \E t \in Txns : \E i \in Deletes(t) :
                    /\ Marking(t, i) /\ r \in undo[t][i].rows /\ pc[t] \in Undecided
                    /\ \/ deleted[r] = transaction_id[t]
                       \/ pc[t] = "commit" /\ deleted[r] = commit_id[t]
<1>1. deleted[r] \in Nat  BY DEF CleanInv, DataTyped
<1>2. ASSUME NEW t \in Txns, NEW i \in Deletes(t), Marking(t, i), r \in undo[t][i].rows
      PROVE  /\ pc[t] \in Undecided
             /\ deleted[r] = transaction_id[t] \/ (pc[t] = "commit" /\ deleted[r] = commit_id[t])
  BY <1>2 DEF SoundInv, DeleteInv, Marking, Undecided
<1>3. CASE deleted[r] = NOT_DELETED_ID  BY <1>1, <1>3
<1>4. CASE deleted[r] # NOT_DELETED_ID
  <2>1. Old(r) /\ (\/ deleted[r] <= last_commit
                   \/ \E t \in Txns : \E i \in Deletes(t) : Marking(t, i) /\ r \in undo[t][i].rows)
    BY <1>4 DEF SnapshotInv, MarkInv
  <2> QED BY <1>1, <1>2, <2>1
<1> QED BY <1>3, <1>4

\* The version of an UpdateInfo is that of its owner, decided or not.
LEMMA VersionIs ==
  ASSUME IInv, CleanInv, SoundInv, SnapshotInv, NEW v \in Rows, NEW i \in DOMAIN chain[v]
  PROVE  /\ i \in Nat /\ chain[v][i].owner \in Txns /\ chain[v][i].version \in Nat
         /\ HasUpdates(chain[v][i].owner)
         /\ LET u == chain[v][i].owner  n == chain[v][i].version
            IN  \/ pc[u] \in Undecided /\ n = transaction_id[u]
                \/ pc[u] = "commit" /\ n = commit_id[u]
                \/ pc[u] \in {"remove"} \union EndedPcs /\ Committed(u) /\ n = commit_id[u] /\ n <= last_commit
<1> DEFINE u == chain[v][i].owner  n == chain[v][i].version
<1>1. i \in Nat /\ u \in Txns /\ n \in Nat  BY InfoTypes DEF CleanInv
<1>2. Linked(u, v, n)  BY DEF CleanInv, LinkInv
<1>3. PICK j \in DOMAIN undo[u] :
        /\ undo[u][j] = [kind |-> "update", at |-> v, rows |-> {}]
        /\ pc[u] \in EndedPcs => Committed(u)
        /\ pc[u] \in {"remove"} \union EndedPcs => n = commit_id[u]
        /\ pc[u] = "new" => FALSE
  <2>1. pc[u] # "new"
    <3>1. pc[u] = "new" => undo[u] = <<>>  BY <1>1, NewIsEmpty DEF CleanInv
    <3>2. \E j \in DOMAIN undo[u] : TRUE  BY <1>2 DEF Linked
    <3> QED BY <3>1, <3>2
  <2> QED BY <1>2, <2>1 DEF Linked, StampedPcs, EndedPcs
<1>4. HasUpdates(u)  BY <1>3 DEF HasUpdates
<1>5. pc[u] \in Pcs  BY <1>1 DEF IInv, Typed
<1>6. pc[u] \in Undecided \/ pc[u] \in {"remove"} \union EndedPcs
  BY <1>3, <1>5 DEF Pcs, Undecided, Live, EndedPcs
<1>7. CASE pc[u] \in Undecided
  BY <1>1, <1>4, <1>7 DEF SnapshotInv, ChainInv, OwnVersionInv
<1>8. CASE pc[u] \in {"remove"} \union EndedPcs
  <2>1. n = commit_id[u]  BY <1>3, <1>8
  <2>2. Committed(u)  BY <1>1, <1>3, <1>8 DEF CleanInv, StampInv, StampedPcs, Committed
  <2>3. commit_id[u] <= last_commit
    <3>1. last_commit \in Nat  BY DEF CleanInv, ManagerTyped
    <3> QED BY <1>1, <1>8, <3>1 DEF SoundInv, TimesInv
  <2> QED BY <1>1, <1>4, <1>8, <2>1, <2>2, <2>3
<1> QED BY <1>6, <1>7, <1>8

-----------------------------------------------------------------------------
(* What a reader makes of a chain                                          *)

\* An UpdateInfo has the value to read, so far.
Applies(info, n, id, r) == r \in DOMAIN info.old /\ AppliesToTransaction(n, id, info)
Reading(infos, value, n, id, r) ==
  LET older == {i \in DOMAIN infos : Applies(infos[i], n, id, r)}
  IN  IF older = {} THEN value ELSE infos[Max(older)].old[r]

\* A read of a row is that of the chain of its vector (UpdateSegment).
LEMMA ReadingValue ==
  \A n, id, r : ValueOf(n, id, r) = Reading(chain[Vec(r)], current[r], n, id, r)
BY DEF ValueOf, Reading, Applies

\* The last one that applies is read, or else the value of the base.
LEMMA ReadingIs ==
  ASSUME NEW infos \in Seq(Infos), NEW value, NEW n, NEW id, NEW r
  PROVE  \/ /\ \A i \in DOMAIN infos : ~Applies(infos[i], n, id, r)
            /\ Reading(infos, value, n, id, r) = value
         \/ \E i \in DOMAIN infos :
              /\ Applies(infos[i], n, id, r)
              /\ \A k \in DOMAIN infos : Applies(infos[k], n, id, r) => k <= i
              /\ Reading(infos, value, n, id, r) = infos[i].old[r]
<1> DEFINE older == {i \in DOMAIN infos : Applies(infos[i], n, id, r)}
<1>1. CASE older = {}  BY <1>1 DEF Reading
<1>2. CASE older # {}
  <2>1. older \subseteq Nat /\ Len(infos) \in Nat /\ \A i \in older : i <= Len(infos)  OBVIOUS
  <2> HIDE DEF older
  <2>2. Max(older) \in older /\ \A k \in older : k <= Max(older)  BY <1>2, <2>1, GreatestExists
  <2>3. Reading(infos, value, n, id, r) = infos[Max(older)].old[r]  BY <1>2 DEF Reading, older
  <2> QED BY <2>2, <2>3 DEF older
<1> QED BY <1>1, <1>2

\* One that applies, with none after it that does, is read,
LEMMA ReadingLast ==
  ASSUME NEW infos \in Seq(Infos), NEW value, NEW n, NEW id, NEW r, NEW i \in DOMAIN infos,
         Applies(infos[i], n, id, r), \A k \in DOMAIN infos : Applies(infos[k], n, id, r) => k <= i
  PROVE  Reading(infos, value, n, id, r) = infos[i].old[r]
<1>1. PICK j \in DOMAIN infos :
        /\ Applies(infos[j], n, id, r)
        /\ \A k \in DOMAIN infos : Applies(infos[k], n, id, r) => k <= j
        /\ Reading(infos, value, n, id, r) = infos[j].old[r]
  BY ReadingIs
<1>2. i \in Nat /\ j \in Nat /\ i <= j /\ j <= i  BY <1>1
<1>3. i = j  BY <1>2
<1> QED BY <1>1, <1>3

\* and where none applies the base is.
LEMMA ReadingBase ==
  ASSUME NEW infos \in Seq(Infos), NEW value, NEW n, NEW id, NEW r,
         \A k \in DOMAIN infos : ~Applies(infos[k], n, id, r)
  PROVE  Reading(infos, value, n, id, r) = value
BY ReadingIs

\* UpdateInfos that do not apply may come and go between the others.
Carries(f, I, infos, infos2, n, id, r) ==
  /\ I \subseteq DOMAIN infos
  /\ \A i \in DOMAIN infos : Applies(infos[i], n, id, r) => i \in I
  /\ \A i \in I : /\ f[i] \in DOMAIN infos2
                  /\ Applies(infos2[f[i]], n, id, r) <=> Applies(infos[i], n, id, r)
                  /\ Applies(infos[i], n, id, r) => infos2[f[i]].old[r] = infos[i].old[r]
  /\ \A i, j \in I : i < j => f[i] < f[j]
  /\ \A k \in DOMAIN infos2 : Applies(infos2[k], n, id, r) => \E i \in I : k = f[i]

\* so that the same is read as long as those that apply keep their order.
LEMMA ReadingMoves ==
  ASSUME NEW infos \in Seq(Infos), NEW infos2 \in Seq(Infos), NEW value, NEW value2,
         NEW n, NEW id, NEW r, NEW f, NEW I, Carries(f, I, infos, infos2, n, id, r),
         value2 = value \/ \E i \in DOMAIN infos : Applies(infos[i], n, id, r)
  PROVE  Reading(infos2, value2, n, id, r) = Reading(infos, value, n, id, r)
<1>a. /\ \A i \in DOMAIN infos : Applies(infos[i], n, id, r) => i \in I
      /\ \A i \in I : /\ i \in DOMAIN infos /\ f[i] \in DOMAIN infos2
                      /\ Applies(infos2[f[i]], n, id, r) <=> Applies(infos[i], n, id, r)
                      /\ Applies(infos[i], n, id, r) => infos2[f[i]].old[r] = infos[i].old[r]
  BY DEF Carries
<1>b. \A i, j \in I : i < j => f[i] < f[j]  BY DEF Carries
<1>c. \A k \in DOMAIN infos2 : Applies(infos2[k], n, id, r) => \E i \in I : k = f[i]  BY DEF Carries
<1>1. CASE \A i \in DOMAIN infos : ~Applies(infos[i], n, id, r)
  <2>1. \A k \in DOMAIN infos2 : ~Applies(infos2[k], n, id, r)  BY <1>1, <1>a, <1>c
  <2>2. Reading(infos2, value2, n, id, r) = value2  BY <2>1, ReadingBase
  <2>3. Reading(infos, value, n, id, r) = value  BY <1>1, ReadingBase
  <2> QED BY <1>1, <2>2, <2>3
<1>2. CASE \E i \in DOMAIN infos : Applies(infos[i], n, id, r)
  <2>1. PICK i \in DOMAIN infos :
          /\ Applies(infos[i], n, id, r)
          /\ \A k \in DOMAIN infos : Applies(infos[k], n, id, r) => k <= i
          /\ Reading(infos, value, n, id, r) = infos[i].old[r]
    BY <1>2, ReadingIs
  <2>2. i \in I /\ f[i] \in DOMAIN infos2 /\ Applies(infos2[f[i]], n, id, r)
        /\ infos2[f[i]].old[r] = infos[i].old[r]
    BY <1>a, <2>1
  <2>3. ASSUME NEW k \in DOMAIN infos2, Applies(infos2[k], n, id, r) PROVE k <= f[i]
    <3>1. PICK j \in I : k = f[j]  BY <1>c, <2>3
    <3>2. Applies(infos[j], n, id, r)  BY <1>a, <2>3, <3>1
    <3>3. j <= i /\ j \in Nat /\ i \in Nat  BY <1>a, <2>1, <3>2
    <3>4. j = i \/ j < i  BY <3>3
    <3>5. k \in Nat /\ f[i] \in Nat  BY <2>2
    <3>6. CASE j = i  BY <3>1, <3>5, <3>6
    <3>7. CASE j < i
      <4>1. f[j] < f[i]  BY <1>b, <2>2, <3>7
      <4> QED BY <3>1, <3>5, <4>1
    <3> QED BY <3>4, <3>6, <3>7
  <2>4. Reading(infos2, value2, n, id, r) = infos2[f[i]].old[r]  BY <2>2, <2>3, ReadingLast
  <2> QED BY <2>1, <2>2, <2>4
<1> QED BY <1>1, <1>2

\* A chain in which they all stay where they are,
LEMMA ReadingSame ==
  ASSUME NEW infos \in Seq(Infos), NEW infos2 \in Seq(Infos), NEW value, NEW value2,
         NEW n, NEW id, NEW r, DOMAIN infos2 = DOMAIN infos,
         \A i \in DOMAIN infos :
           /\ Applies(infos2[i], n, id, r) <=> Applies(infos[i], n, id, r)
           /\ Applies(infos[i], n, id, r) => infos2[i].old[r] = infos[i].old[r],
         value2 = value \/ \E i \in DOMAIN infos : Applies(infos[i], n, id, r)
  PROVE  Reading(infos2, value2, n, id, r) = Reading(infos, value, n, id, r)
<1> DEFINE f == [i \in DOMAIN infos |-> i]  I == DOMAIN infos
<1>1. \A i \in I : f[i] = i  OBVIOUS
<1>2. I \subseteq DOMAIN infos  OBVIOUS
<1>3. \A i \in I : /\ f[i] \in DOMAIN infos2
                   /\ Applies(infos2[f[i]], n, id, r) <=> Applies(infos[i], n, id, r)
                   /\ Applies(infos[i], n, id, r) => infos2[f[i]].old[r] = infos[i].old[r]
  BY <1>1
<1>4. \A i, j \in I : i < j => f[i] < f[j]  BY <1>1
<1>5. \A k \in DOMAIN infos2 : Applies(infos2[k], n, id, r) => \E i \in I : k = f[i]  BY <1>1
<1>6. \A i \in DOMAIN infos : i \in I  OBVIOUS
<1> HIDE DEF f, I
<1>7. Carries(f, I, infos, infos2, n, id, r)  BY <1>2, <1>3, <1>4, <1>5, <1>6 DEF Carries
<1> QED BY <1>7, ReadingMoves

\* or from which one is taken that does not apply.
TakesOut(infos, infos2, m) ==
  /\ DOMAIN infos2 = 1 .. Len(infos) - 1 /\ m \in DOMAIN infos
  /\ \A k \in DOMAIN infos2 : infos2[k] = infos[IF k < m THEN k ELSE k + 1]

LEMMA ReadingUnlinked ==
  ASSUME NEW infos \in Seq(Infos), NEW infos2 \in Seq(Infos), NEW value,
         NEW n, NEW id, NEW r, NEW m, TakesOut(infos, infos2, m), ~Applies(infos[m], n, id, r)
  PROVE  Reading(infos2, value, n, id, r) = Reading(infos, value, n, id, r)
<1>a. /\ DOMAIN infos2 = 1 .. Len(infos) - 1 /\ m \in DOMAIN infos
      /\ \A k \in DOMAIN infos2 : infos2[k] = infos[IF k < m THEN k ELSE k + 1]
  BY DEF TakesOut
<1> DEFINE f == [i \in DOMAIN infos |-> IF i < m THEN i ELSE i - 1]  I == DOMAIN infos \ {m}
<1>0. m \in Nat /\ m >= 1 /\ Len(infos) \in Nat /\ m <= Len(infos) /\ DOMAIN infos = 1 .. Len(infos)  BY <1>a
<1>1. \A i \in I : f[i] = IF i < m THEN i ELSE i - 1  OBVIOUS
<1>2. I \subseteq DOMAIN infos  OBVIOUS
<1>3. \A i \in I : f[i] \in DOMAIN infos2 /\ infos2[f[i]] = infos[i]
  <2> SUFFICES ASSUME NEW i \in I PROVE f[i] \in DOMAIN infos2 /\ infos2[f[i]] = infos[i]  OBVIOUS
  <2>1. i \in Nat /\ i >= 1 /\ i <= Len(infos) /\ i # m  BY <1>0
  <2>2. f[i] \in DOMAIN infos2 /\ (IF f[i] < m THEN f[i] ELSE f[i] + 1) = i  BY <1>a, <1>0, <1>1, <2>1
  <2> QED BY <1>a, <2>2
<1>4. \A i, j \in I : i < j => f[i] < f[j]  BY <1>0, <1>1
<1>5. \A k \in DOMAIN infos2 : \E i \in I : k = f[i]
  <2> SUFFICES ASSUME NEW k \in DOMAIN infos2 PROVE \E i \in I : k = f[i]  OBVIOUS
  <2>1. k \in Nat /\ k >= 1 /\ k <= Len(infos) - 1  BY <1>a, <1>0
  <2>2. CASE k < m
    <3>1. k \in I /\ f[k] = k  BY <1>0, <2>1, <2>2
    <3> QED BY <3>1
  <2>3. CASE ~(k < m)
    <3>1. k + 1 \in I /\ f[k + 1] = k  BY <1>0, <2>1, <2>3
    <3> QED BY <3>1
  <2> QED BY <2>2, <2>3
<1>6. \A i \in DOMAIN infos : Applies(infos[i], n, id, r) => i \in I  OBVIOUS
<1> HIDE DEF f, I
<1>7. Carries(f, I, infos, infos2, n, id, r)  BY <1>2, <1>3, <1>4, <1>5, <1>6 DEF Carries
<1> QED BY <1>7, ReadingMoves

\* One that is put at the front and does not apply, either.
LEMMA ReadingPushed ==
  ASSUME NEW infos \in Seq(Infos), NEW infos2 \in Seq(Infos), NEW value,
         NEW n, NEW id, NEW r, DOMAIN infos2 = 1 .. Len(infos) + 1,
         \A i \in DOMAIN infos : infos2[i + 1] = infos[i], ~Applies(infos2[1], n, id, r)
  PROVE  Reading(infos2, value, n, id, r) = Reading(infos, value, n, id, r)
<1> DEFINE f == [i \in DOMAIN infos |-> i + 1]  I == DOMAIN infos
<1>0. Len(infos) \in Nat /\ DOMAIN infos = 1 .. Len(infos)  OBVIOUS
<1>1. \A i \in I : f[i] = i + 1 /\ f[i] \in DOMAIN infos2  BY <1>0
<1>2. I \subseteq DOMAIN infos  OBVIOUS
<1>3. \A i \in I : f[i] \in DOMAIN infos2 /\ infos2[f[i]] = infos[i]  BY <1>1
<1>4. \A i, j \in I : i < j => f[i] < f[j]  BY <1>0, <1>1
<1>5. \A k \in DOMAIN infos2 : Applies(infos2[k], n, id, r) => \E i \in I : k = f[i]
  <2> SUFFICES ASSUME NEW k \in DOMAIN infos2, Applies(infos2[k], n, id, r)
               PROVE  \E i \in I : k = f[i]
    OBVIOUS
  <2>1. k # 1 /\ k \in 1 .. Len(infos) + 1  OBVIOUS
  <2>2. k - 1 \in I /\ f[k - 1] = k  BY <1>0, <2>1
  <2> QED BY <2>2
<1>6. \A i \in DOMAIN infos : i \in I  OBVIOUS
<1> HIDE DEF f, I
<1>7. Carries(f, I, infos, infos2, n, id, r)  BY <1>2, <1>3, <1>4, <1>5, <1>6 DEF Carries
<1> QED BY <1>7, ReadingMoves

\* A value is read, never the absence of one.
LEMMA ReadingTyped ==
  ASSUME NEW infos \in Seq(Infos), NEW value \in Values, NEW n, NEW id, NEW r
  PROVE  Reading(infos, value, n, id, r) \in Values
<1>1. ASSUME NEW i \in DOMAIN infos, r \in DOMAIN infos[i].old PROVE infos[i].old[r] \in Values
  <2>1. infos[i] \in Infos  OBVIOUS
  <2>2. PICK D \in SUBSET Rows : infos[i].old \in [D -> Values]  BY <2>1 DEF Infos
  <2> QED BY <1>1, <2>2
<1> QED BY <1>1, ReadingIs DEF Applies

-----------------------------------------------------------------------------
(* What a step does to the values                                          *)

\* A running transaction knows its UpdateInfos by its id.
LEMMA OwnIs ==
  ASSUME IInv, CleanInv, SoundInv, SnapshotInv, NEW t \in Txns, pc[t] = "running",
         NEW v \in Rows, NEW i \in DOMAIN chain[v]
  PROVE  chain[v][i].owner = t <=> chain[v][i].version = transaction_id[t]
<1> DEFINE u == chain[v][i].owner  n == chain[v][i].version
<1>1. /\ u \in Txns /\ n \in Nat
      /\ \/ pc[u] \in Undecided /\ n = transaction_id[u]
         \/ n = commit_id[u]
         \/ n <= last_commit
      /\ pc[u] \in Undecided /\ pc[u] # "commit" => n = transaction_id[u]
  <2>1. u \in Txns /\ n \in Nat  BY VersionIs
  <2>2. \/ pc[u] \in Undecided /\ n = transaction_id[u]
        \/ pc[u] = "commit" /\ n = commit_id[u]
        \/ pc[u] \in {"remove"} \union EndedPcs /\ n = commit_id[u] /\ n <= last_commit
    BY VersionIs
  <2> QED BY <2>1, <2>2 DEF Undecided, Live, EndedPcs
<1>2. pc[t] \in Undecided /\ pc[t] \in Live /\ pc[t] # "commit"  BY DEF Undecided, Live
<1>3. IdsInv /\ TimesInv  BY DEF SoundInv
<1>4. /\ TRANSACTION_ID_START <= transaction_id[t] /\ transaction_id[t] \in Nat
      /\ \A w \in Txns : commit_id[w] \in Nat /\ commit_id[w] < clock
      /\ last_commit < clock /\ clock <= TRANSACTION_ID_START
      /\ TRANSACTION_ID_START \in Nat /\ clock \in Nat /\ last_commit \in Nat
  BY <1>2, <1>3, IdsAre
<1>5. ASSUME n = transaction_id[t] PROVE u = t
  <2>1. n # commit_id[u] /\ ~(n <= last_commit)  BY <1>1, <1>4, <1>5
  <2>2. pc[u] \in Live /\ transaction_id[u] = transaction_id[t]  BY <1>1, <1>5, <2>1 DEF Undecided
  <2> QED BY <1>1, <1>2, <1>3, <2>2 DEF IdsInv
<1> QED BY <1>1, <1>2, <1>5

\* The old values of a row stay, those of others are the newest.
LEMMA OldValuesIs ==
  ASSUME NEW known, NEW rows
  PROVE  /\ DOMAIN OldValues(known, rows) = DOMAIN known \union rows
         /\ \A r \in DOMAIN known : OldValues(known, rows)[r] = known[r]
         /\ \A r \in rows : r \notin DOMAIN known => OldValues(known, rows)[r] = current[r]
BY DEF OldValues

\* An UPDATE that meets no conflict.
Merges(t, v, rows) ==
  /\ rows # {} /\ rows \subseteq Seen(t) /\ \A r \in rows : r \in Rows /\ Vec(r) = v
  /\ ~Conflicts(t, v, rows)
  /\ current' = [r \in Rows |-> IF r \in rows THEN t ELSE current[r]]
  /\ \A w \in Rows : w # v => chain'[w] = chain[w]
  /\ \/ \E m \in DOMAIN chain[v] :
          /\ chain[v][m].owner = t
          /\ DOMAIN chain'[v] = DOMAIN chain[v]
          /\ \A i \in DOMAIN chain[v] :
               /\ chain'[v][i].owner = chain[v][i].owner
               /\ chain'[v][i].version = chain[v][i].version
               /\ chain'[v][i].old = IF i # m THEN chain[v][i].old ELSE OldValues(chain[v][i].old, rows)
     \/ /\ \A i \in DOMAIN chain[v] : chain[v][i].owner # t
        /\ DOMAIN chain'[v] = 1 .. Len(chain[v]) + 1
        /\ chain'[v][1].owner = t /\ chain'[v][1].version = transaction_id[t]
        /\ chain'[v][1].old = OldValues(<<>>, rows)
        /\ \A i \in DOMAIN chain[v] : chain'[v][i + 1] = chain[v][i]

\* What MergeUpdate makes of the chain and the base.
LEMMA MergesIs ==
  ASSUME IInv, CleanInv, SoundInv, SnapshotInv, NEW t \in Txns, pc[t] = "running",
         NEW v \in Rows, NEW rows \in SUBSET Rows, MergeUpdate(t, v, rows), rows # {},
         rows \subseteq Seen(t), \A r \in rows : Vec(r) = v, ~Conflicts(t, v, rows)
  PROVE  Merges(t, v, rows)
<1>1. DataTyped /\ TxnTyped  BY DEF CleanInv
<1>2. \A i \in DOMAIN chain[v] : chain[v][i].owner = t <=> chain[v][i].version = transaction_id[t]
  BY OwnIs
<1>3. \A i, k \in DOMAIN chain[v] : chain[v][i].owner = t /\ chain[v][k].owner = t => i = k
  BY DEF CleanInv, LinkInv
<1>4. /\ chain' \in [Rows -> Seq(Infos)] /\ current' \in [Rows -> Values]
      /\ current' = [r \in Rows |-> IF r \in rows THEN t ELSE current[r]]
      /\ \A w \in Rows : w # v => chain'[w] = chain[w]
      /\ \/ /\ \E i \in DOMAIN chain[v] : chain[v][i].version = transaction_id[t]
            /\ UNCHANGED undo
            /\ DOMAIN chain'[v] = DOMAIN chain[v]
            /\ \A i \in DOMAIN chain[v] :
                 /\ chain'[v][i].owner = chain[v][i].owner
                 /\ chain'[v][i].version = chain[v][i].version
                 /\ chain'[v][i].old = IF chain[v][i].version # transaction_id[t] THEN chain[v][i].old
                                       ELSE OldValues(chain[v][i].old, rows)
         \/ /\ \A i \in DOMAIN chain[v] : chain[v][i].version # transaction_id[t]
            /\ Record(t, [kind |-> "update", at |-> v, rows |-> {}])
            /\ DOMAIN chain'[v] = 1 .. Len(chain[v]) + 1
            /\ chain'[v][1].owner = t /\ chain'[v][1].version = transaction_id[t]
            /\ chain'[v][1].old = OldValues(<<>>, rows)
            /\ \A i \in DOMAIN chain[v] : chain'[v][i + 1] = chain[v][i]
  BY SMTT(30), <1>1, MergeUpdateIs
<1>5. CASE /\ \E i \in DOMAIN chain[v] : chain[v][i].version = transaction_id[t]
           /\ DOMAIN chain'[v] = DOMAIN chain[v]
           /\ \A i \in DOMAIN chain[v] :
                /\ chain'[v][i].owner = chain[v][i].owner
                /\ chain'[v][i].version = chain[v][i].version
                /\ chain'[v][i].old = IF chain[v][i].version # transaction_id[t] THEN chain[v][i].old
                                      ELSE OldValues(chain[v][i].old, rows)
  <2>1. PICK m \in DOMAIN chain[v] : chain[v][m].version = transaction_id[t]  BY <1>5
  <2>2. \A i \in DOMAIN chain[v] : chain[v][i].version # transaction_id[t] <=> i # m
    BY <1>2, <1>3, <2>1
  <2>3. Merges(t, v, rows)  BY <1>2, <1>4, <1>5, <2>1, <2>2 DEF Merges
  <2> QED BY <2>3
<1>6. CASE /\ \A i \in DOMAIN chain[v] : chain[v][i].version # transaction_id[t]
           /\ DOMAIN chain'[v] = 1 .. Len(chain[v]) + 1
           /\ chain'[v][1].owner = t /\ chain'[v][1].version = transaction_id[t]
           /\ chain'[v][1].old = OldValues(<<>>, rows)
           /\ \A i \in DOMAIN chain[v] : chain'[v][i + 1] = chain[v][i]
  <2>1. Merges(t, v, rows)  BY <1>2, <1>4, <1>6 DEF Merges
  <2> QED BY <2>1
<1> QED BY <1>4, <1>5, <1>6

\* An UPDATE meets a conflict and changes nothing, or merges some rows of one vector.
LEMMA UpdateIs ==
  ASSUME IInv, CleanInv, SoundInv, SnapshotInv, NEW t \in Txns, Update(t)
  PROVE  \/ UNCHANGED <<chain, current, undo>> /\ pc' = [pc EXCEPT ![t] = "failed"]
         \/ pc' = pc /\ \E v \in Rows : \E rows \in SUBSET Rows : Merges(t, v, rows)
<1>0. DataTyped /\ TxnTyped /\ pc[t] = "running"  BY DEF CleanInv, Update, CanChange, Running
<1>1. PICK v \in {Vec(r) : r \in Seen(t)} : \E rows \in SUBSET {r \in Seen(t) : Vec(r) = v} :
        /\ rows # {}
        /\ IF Conflicts(t, v, rows)
           THEN UNCHANGED <<chain, current, undo>> /\ pc' = [pc EXCEPT ![t] = "failed"]
           ELSE MergeUpdate(t, v, rows) /\ pc' = pc
  BY DEF Update, updateVars, Goto
<1>2. Seen(t) \subseteq Rows  BY DEF Seen
<1>3. v \in Rows
  <2>1. PICK r \in Seen(t) : v = Vec(r)  OBVIOUS
  <2> QED BY <1>0, <1>2, <2>1, RowVecs
<1>4. PICK rows \in SUBSET {r \in Seen(t) : Vec(r) = v} :
        /\ rows # {}
        /\ IF Conflicts(t, v, rows)
           THEN UNCHANGED <<chain, current, undo>> /\ pc' = [pc EXCEPT ![t] = "failed"]
           ELSE MergeUpdate(t, v, rows) /\ pc' = pc
  BY <1>1
<1>5. rows \in SUBSET Rows /\ rows \subseteq Seen(t) /\ \A r \in rows : r \in Rows /\ Vec(r) = v
  BY <1>2
<1>6. CASE Conflicts(t, v, rows)  BY <1>4, <1>6
<1>7. CASE ~Conflicts(t, v, rows)
  <2>1. MergeUpdate(t, v, rows) /\ pc' = pc  BY <1>4, <1>7
  <2>2. Merges(t, v, rows)  BY <1>0, <1>3, <1>4, <1>5, <1>7, <2>1, MergesIs
  <2> QED BY <1>3, <1>5, <2>1, <2>2
<1> QED BY <1>6, <1>7

\* Whose UpdateInfo is taken from a chain, and from where.
Unlinks(u, v, m) ==
  /\ m \in DOMAIN chain[v] /\ chain[v][m].owner = u
  /\ \A i \in DOMAIN chain[v] : chain[v][i].owner = u => i = m
  /\ \A w \in Rows : w # v => chain'[w] = chain[w]
  /\ DOMAIN chain'[v] = 1 .. Len(chain[v]) - 1
  /\ \A k \in DOMAIN chain'[v] : /\ (IF k < m THEN k ELSE k + 1) \in DOMAIN chain[v] \ {m}
                                 /\ chain'[v][k] = chain[v][IF k < m THEN k ELSE k + 1]

\* Unlink takes one UpdateInfo, the only one that its owner has in the chain.
LEMMA UnlinksIs ==
  ASSUME CleanInv, NEW v \in Rows, NEW u \in Txns, Unlink(v, u)
  PROVE  \E m \in DOMAIN chain[v] : Unlinks(u, v, m)
<1>1. PICK m \in DOMAIN chain[v] :
        /\ chain[v][m].owner = u /\ DOMAIN chain'[v] = 1 .. Len(chain[v]) - 1
        /\ \A k \in DOMAIN chain'[v] : LET k1 == IF k < m THEN k ELSE k + 1
                                       IN k1 \in DOMAIN chain[v] /\ k1 # m /\ chain'[v][k] = chain[v][k1]
  BY UnlinkIs DEF CleanInv
<1>2. \A w \in Rows : w # v => chain'[w] = chain[w]  BY UnlinkIs DEF CleanInv
<1>3. \A i \in DOMAIN chain[v] : chain[v][i].owner = u => i = m  BY <1>1 DEF CleanInv, LinkInv
<1> QED BY <1>1, <1>2, <1>3 DEF Unlinks

\* What a step does to the chains and the newest values.
LEMMA ChainIs ==
  ASSUME IInv, CleanInv, Sound, SoundInv, SnapshotInv, NEW t \in Txns, Step(t)
  PROVE  \/ UNCHANGED <<chain, current>>
         \/ /\ Grows(t) /\ pc[t] \in {"running", "wal"} /\ chain' = chain
            /\ \A r \in 1 .. count : current'[r] = current[r]
         \/ Update(t) /\ pc' = pc /\ \E v \in Rows : \E rows \in SUBSET Rows : Merges(t, v, rows)
         \/ /\ CommitEntry(t) /\ current' = current
            /\ \E v \in Rows : chain' = [chain EXCEPT ![v] = Renamed(@, t, commit_id[t])]
         \/ /\ RollbackEntry(t)
            /\ \E v \in Rows : /\ current' = RestoredValues(v, t)
                               /\ \E m \in DOMAIN chain[v] : Unlinks(t, v, m)
         \/ /\ CleanupEntry(t) /\ current' = current
            /\ \E u \in ToSet(work.txns) \cap Txns :
                 /\ Committed(u)
                 /\ \E v \in Rows : \E m \in DOMAIN chain[v] : Unlinks(u, v, m)
<1> USE DEF updateVars
<1>0. DataTyped /\ TxnTyped /\ ManagerTyped /\ WalInv /\ AppendInv /\ RoomInv
  BY DEF CleanInv, SoundInv
<1>1. CASE Delete(t)  BY <1>0, <1>1, DeleteFrame
<1>2. CASE Update(t)  BY <1>2, UpdateIs
<1>3. CASE CommitDirectly(t) \/ WriteToWAL(t)
  <2>1. AppendLocal(t) /\ chain' = chain /\ pc[t] \in {"running", "wal"}
    <3>1. AppendLocal(t)  BY <1>0, <1>3, SoundCommit
    <3> QED BY <1>3, <3>1 DEF CommitDirectly, WriteToWAL, Running
  <2>2. CASE local[t] = 0  BY <2>1, <2>2 DEF AppendLocal
  <2>3. CASE local[t] # 0
    <3>1. Grows(t)  BY <1>0, <2>1, <2>3 DEF Grows, TxnTyped
    <3>2. current' = [r \in Rows |-> IF r \in count + 1 .. count + local[t] THEN t ELSE current[r]]
      BY <1>0, <2>1, <3>1, GrowIs
    <3>3. \A r \in 1 .. count : r \in Rows /\ r \notin count + 1 .. count + local[t]  BY <1>0, RoomIs
    <3> QED BY <2>1, <3>1, <3>2, <3>3
  <2> QED BY <2>2, <2>3
<1>4. CASE CommitEntry(t)
  <2> DEFINE rec == undo[t][done[t] + 1]
  <2>1. Mark(t, rec, commit_id[t]) /\ current' = current /\ done[t] < Len(undo[t])  BY <1>4 DEF CommitEntry
  <2>2. done[t] + 1 \in 1 .. Len(undo[t])  BY <1>0, <2>1, EntryIndex
  <2>3. rec \in Records /\ (rec.kind = "update" => rec.at \in Rows)  BY <1>0, <2>2, EntryTyped
  <2> HIDE DEF rec
  <2> QED BY <1>4, <2>1, <2>3 DEF Mark
<1>5. CASE RollbackEntry(t)
  <2> DEFINE rec == undo[t][done[t]]
  <2>0. pc[t] = "rollback" /\ done[t] > 0 /\ done[t] <= Len(undo[t])
    BY <1>5 DEF RollbackEntry, CleanInv, DoneInv
  <2>1. done[t] \in 1 .. Len(undo[t])  BY <1>0, <2>0, EntryIndex
  <2>2. rec \in Records /\ (rec.kind = "update" => rec.at \in Rows)  BY <1>0, <2>1, EntryTyped
  <2>3. \/ UNCHANGED <<chain, current>>
        \/ rec.kind = "update" /\ current' = RestoredValues(rec.at, t) /\ Unlink(rec.at, t)
    BY <1>5 DEF RollbackEntry
  <2> HIDE DEF rec
  <2> QED BY <1>5, <2>2, <2>3, UnlinksIs
<1>6. CASE CleanupEntry(t)
  <2>0. current' = current  BY <1>6 DEF CleanupEntry
  <2>1. PICK u \in ToSet(work.txns) \cap Txns :
          /\ Committed(u)
          /\ LET rec == undo[u][done[u] + 1]
             IN  rec \in Records /\ (UNCHANGED chain \/ (rec.kind = "update" /\ Unlink(rec.at, u)))
    BY <1>0, <1>6, CleanupEntryIs
  <2>2. UNCHANGED chain \/ \E v \in Rows : Unlink(v, u)  BY <2>1 DEF Records
  <2> QED BY <1>6, <2>0, <2>1, <2>2, UnlinksIs
<1>7. CASE Start(t) \/ Insert(t) \/ CommitThroughWAL(t) \/ TakeTimestamp(t) \/ CommitDone(t) \/ Rollback(t)
  BY <1>7 DEF Start, Insert, CommitThroughWAL, TakeTimestamp, CommitDone, Rollback
<1>8. CASE Leave(t) \/ PopCleanup(t) \/ CleanupDone(t) \/ StartCheckpoint(t) \/ FinishCheckpoint(t)
  BY <1>8 DEF Leave, PopCleanup, CleanupDone, StartCheckpoint, FinishCheckpoint
<1>9. ~FlushFails(t)  BY <1>0, SoundCommit
<1> QED BY <1>1, <1>2, <1>3, <1>4, <1>5, <1>6, <1>7, <1>8, <1>9 DEF Step

-----------------------------------------------------------------------------
(* What a step leaves to a reader                                          *)

\* When an UpdateInfo applies.
LEMMA AppliesIs ==
  \A info, n, id, r : Applies(info, n, id, r) <=> r \in DOMAIN info.old /\ info.version > n /\ info.version # id
BY DEF Applies, AppliesToTransaction

\* Of the rows that t updates, another UpdateInfo is behind that of t and of a commit
\* that t sees.
LEMMA MergesOver ==
  ASSUME IInv, CleanInv, SoundInv, SnapshotInv, NEW t \in Txns, pc[t] = "running",
         NEW v \in Rows, NEW rows \in SUBSET Rows, Merges(t, v, rows),
         NEW i \in DOMAIN chain[v], NEW r \in rows, r \in DOMAIN chain[v][i].old
  PROVE  \/ chain[v][i].owner = t
         \/ /\ chain[v][i].version <= start_time[t]
            /\ \A m \in DOMAIN chain[v] : chain[v][m].owner = t => m < i
<1>1. i \in Nat /\ chain[v][i].version \in Nat /\ start_time[t] \in Nat
  BY VersionIs DEF CleanInv, TxnTyped
<1>2. CASE chain[v][i].owner # t
  <2>1. chain[v][i].version # transaction_id[t]  BY <1>2, OwnIs
  <2>2. chain[v][i].version <= start_time[t]
    <3>1. ~(chain[v][i].version > start_time[t])  BY <2>1 DEF Merges, Conflicts
    <3> QED BY <1>1, <3>1
  <2>3. ASSUME NEW m \in DOMAIN chain[v], chain[v][m].owner = t PROVE m < i
    <3>1. pc[t] \in Undecided  BY DEF Undecided, Live
    <3>2. ~(i < m)
      <4>1. i < m => chain[v][i].version > start_time[t]  BY <2>3, <3>1 DEF SnapshotInv, ChainInv, FrontInv
      <4> QED BY <1>1, <2>2, <4>1
    <3>3. m \in Nat /\ m # i  BY <1>2, <2>3, VersionIs
    <3> QED BY <1>1, <3>2, <3>3
  <2> QED BY <2>2, <2>3
<1> QED BY <1>2

\* An UPDATE leaves the old values to the others,
LEMMA MergeStays ==
  ASSUME IInv, CleanInv, SoundInv, SnapshotInv, DataTyped', NEW t \in Txns, pc[t] = "running",
         NEW v \in Rows, NEW rows \in SUBSET Rows, Merges(t, v, rows),
         NEW n \in Nat, NEW id \in Nat, transaction_id[t] > n, transaction_id[t] # id,
         NEW r \in Rows
  PROVE  Reading(chain'[Vec(r)], current'[r], n, id, r) = Reading(chain[Vec(r)], current[r], n, id, r)
<1> DEFINE infos == chain[v]  infos2 == chain'[v]
<1>0. /\ infos \in Seq(Infos) /\ infos2 \in Seq(Infos) /\ Len(infos) \in Nat
      /\ DOMAIN infos = 1 .. Len(infos) /\ Vec(r) \in Rows
  <2>1. DataTyped  BY DEF CleanInv
  <2>2. Vec(r) \in Rows  BY <2>1, RowVecs
  <2>3. infos \in Seq(Infos) /\ infos2 \in Seq(Infos)  BY <2>1 DEF DataTyped
  <2> QED BY <2>2, <2>3
<1>1. current' = [x \in Rows |-> IF x \in rows THEN t ELSE current[x]]  BY DEF Merges
<1>2. CASE Vec(r) # v
  <2>1. chain'[Vec(r)] = chain[Vec(r)]  BY <1>0, <1>2 DEF Merges
  <2>2. r \notin rows  BY <1>2 DEF Merges
  <2>3. current'[r] = current[r]  BY <1>1, <2>2
  <2> QED BY <2>1, <2>3
<1> SUFFICES ASSUME Vec(r) = v
             PROVE  Reading(infos2, current'[r], n, id, r) = Reading(infos, current[r], n, id, r)
  BY <1>2
<1>3. CASE \E m \in DOMAIN infos :
             /\ infos[m].owner = t
             /\ DOMAIN infos2 = DOMAIN infos
             /\ \A i \in DOMAIN infos :
                  /\ infos2[i].owner = infos[i].owner
                  /\ infos2[i].version = infos[i].version
                  /\ infos2[i].old = IF i # m THEN infos[i].old ELSE OldValues(infos[i].old, rows)
  <2>1. PICK m \in DOMAIN infos :
             /\ infos[m].owner = t
             /\ DOMAIN infos2 = DOMAIN infos
             /\ \A i \in DOMAIN infos :
                  /\ infos2[i].owner = infos[i].owner
                  /\ infos2[i].version = infos[i].version
                  /\ infos2[i].old = IF i # m THEN infos[i].old ELSE OldValues(infos[i].old, rows)
    BY <1>3
  <2>0. infos2[m].old = OldValues(infos[m].old, rows)  BY <2>1
  <2>2. infos[m].version > n /\ infos[m].version # id /\ m \in Nat  BY <1>0, <2>1, OwnIs
  <2>3. \A i \in DOMAIN infos : i # m => /\ Applies(infos2[i], n, id, r) <=> Applies(infos[i], n, id, r)
                                         /\ infos2[i].old = infos[i].old
    BY <2>1, AppliesIs
  <2>4. /\ Applies(infos[m], n, id, r) <=> r \in DOMAIN infos[m].old
        /\ Applies(infos2[m], n, id, r) <=> r \in DOMAIN infos[m].old \union rows
    <3>1. DOMAIN infos2[m].old = DOMAIN infos[m].old \union rows  BY <2>0 DEF OldValues
    <3> QED BY <2>1, <2>2, <3>1, AppliesIs
  <2>5. CASE r \notin rows \/ r \in DOMAIN infos[m].old
    <3>1. \A i \in DOMAIN infos :
            /\ Applies(infos2[i], n, id, r) <=> Applies(infos[i], n, id, r)
            /\ Applies(infos[i], n, id, r) => infos2[i].old[r] = infos[i].old[r]
      <4>1. r \in DOMAIN infos[m].old => infos2[m].old[r] = infos[m].old[r]  BY <2>0 DEF OldValues
      <4> QED BY <2>3, <2>4, <2>5, <4>1
    <3>2. current'[r] = current[r] \/ \E i \in DOMAIN infos : Applies(infos[i], n, id, r)
      BY <1>1, <2>4, <2>5
    <3> HIDE DEF infos, infos2
    <3> QED BY <1>0, <2>1, <3>1, <3>2, ReadingSame
  <2>6. CASE r \in rows /\ r \notin DOMAIN infos[m].old
    <3>0. infos2[m].old[r] = current[r]  BY <2>0, <2>6 DEF OldValues
    <3>1. CASE \A i \in DOMAIN infos : ~Applies(infos[i], n, id, r)
      <4>1. Reading(infos, current[r], n, id, r) = current[r]  BY SMTT(30), <1>0, <3>1, ReadingBase
      <4>2. \A k \in DOMAIN infos2 : Applies(infos2[k], n, id, r) => k = m  BY <2>1, <2>3, <3>1
      <4>3. m \in DOMAIN infos2 /\ Applies(infos2[m], n, id, r) /\ m <= m  BY <2>1, <2>2, <2>4, <2>6
      <4>4. \A k \in DOMAIN infos2 : Applies(infos2[k], n, id, r) => k <= m  BY <4>2, <4>3
      <4> HIDE DEF infos, infos2
      <4>5. Reading(infos2, current'[r], n, id, r) = infos2[m].old[r]
        BY <1>0, <4>3, <4>4, ReadingLast
      <4> QED BY <3>0, <4>1, <4>5
    <3>2. CASE \E i \in DOMAIN infos : Applies(infos[i], n, id, r)
      <4>1. PICK i \in DOMAIN infos :
              /\ Applies(infos[i], n, id, r)
              /\ \A k \in DOMAIN infos : Applies(infos[k], n, id, r) => k <= i
              /\ Reading(infos, current[r], n, id, r) = infos[i].old[r]
        <5> HIDE DEF infos, infos2
        <5>1. \/ \A i \in DOMAIN infos : ~Applies(infos[i], n, id, r)
              \/ \E i \in DOMAIN infos :
                   /\ Applies(infos[i], n, id, r)
                   /\ \A k \in DOMAIN infos : Applies(infos[k], n, id, r) => k <= i
                   /\ Reading(infos, current[r], n, id, r) = infos[i].old[r]
          <6>1. infos \in Seq(Infos)  BY <1>0
          <6> QED BY <6>1, ReadingIs
        <5> QED BY <3>2, <5>1
      <4>2. i # m /\ r \in DOMAIN infos[i].old  BY <2>4, <2>6, <4>1, AppliesIs
      <4>3. infos[i].owner # t  BY <2>1, <4>2 DEF CleanInv, LinkInv
      <4>4. m < i  BY <2>1, <2>6, <4>2, <4>3, MergesOver
      <4>5. m <= i  BY <1>0, <2>2, <4>4
      <4>6. \A k \in DOMAIN infos2 : Applies(infos2[k], n, id, r) => k <= i  BY <2>1, <2>3, <4>1, <4>5
      <4>7. i \in DOMAIN infos2 /\ Applies(infos2[i], n, id, r) /\ infos2[i].old = infos[i].old
        BY <2>1, <2>3, <4>1, <4>2
      <4> HIDE DEF infos, infos2
      <4>8. Reading(infos2, current'[r], n, id, r) = infos2[i].old[r]
        BY <1>0, <4>6, <4>7, ReadingLast
      <4> QED BY <4>1, <4>7, <4>8
    <3> QED BY <3>1, <3>2
  <2> QED BY <2>5, <2>6
<1>4. CASE /\ \A i \in DOMAIN infos : infos[i].owner # t
           /\ DOMAIN infos2 = 1 .. Len(infos) + 1
           /\ infos2[1].owner = t /\ infos2[1].version = transaction_id[t]
           /\ infos2[1].old = OldValues(<<>>, rows)
           /\ \A i \in DOMAIN infos : infos2[i + 1] = infos[i]
  <2>0. infos2[1].old = OldValues(<<>>, rows) /\ DOMAIN <<>> = {}  BY <1>4
  <2>1. DOMAIN infos2[1].old = rows
    <3>1. DOMAIN OldValues(<<>>, rows) = DOMAIN <<>> \union rows  BY DEF OldValues
    <3> QED BY <2>0, <3>1
  <2>2. Applies(infos2[1], n, id, r) <=> r \in rows  BY <1>4, <2>1, AppliesIs
  <2>3. CASE r \notin rows
    <3>1. current'[r] = current[r]  BY <1>1, <2>3
    <3>2. ~Applies(infos2[1], n, id, r)  BY <2>2, <2>3
    <3>3. DOMAIN infos2 = 1 .. Len(infos) + 1 /\ \A i \in DOMAIN infos : infos2[i + 1] = infos[i]  BY <1>4
    <3> HIDE DEF infos, infos2
    <3> QED BY <1>0, <3>1, <3>2, <3>3, ReadingPushed
  <2>4. CASE r \in rows
    <3>0. infos2[1].old[r] = current[r]
      <4>1. r \notin DOMAIN <<>>  BY <2>0
      <4>2. OldValues(<<>>, rows)[r] = current[r]  BY <2>4, <4>1 DEF OldValues
      <4> QED BY <2>0, <4>2
    <3>1. CASE \A i \in DOMAIN infos : ~Applies(infos[i], n, id, r)
      <4>1. Reading(infos, current[r], n, id, r) = current[r]  BY SMTT(30), <1>0, <3>1, ReadingBase
      <4>2. ASSUME NEW k \in DOMAIN infos2, Applies(infos2[k], n, id, r) PROVE k <= 1
        <5>1. k \in 1 .. Len(infos) + 1  BY <1>4
        <5>2. k # 1 => k - 1 \in DOMAIN infos /\ infos2[(k - 1) + 1] = infos[k - 1] /\ (k - 1) + 1 = k
          BY SMTT(30), <1>0, <1>4, <5>1
        <5> QED BY <3>1, <4>2, <5>1, <5>2
      <4>3. 1 \in DOMAIN infos2 /\ Applies(infos2[1], n, id, r)  BY <1>0, <1>4, <2>2, <2>4
      <4> HIDE DEF infos, infos2
      <4>4. Reading(infos2, current'[r], n, id, r) = infos2[1].old[r]
        BY <1>0, <4>2, <4>3, ReadingLast
      <4> QED BY <3>0, <4>1, <4>4
    <3>2. CASE \E i \in DOMAIN infos : Applies(infos[i], n, id, r)
      <4>1. PICK i \in DOMAIN infos :
              /\ Applies(infos[i], n, id, r)
              /\ \A k \in DOMAIN infos : Applies(infos[k], n, id, r) => k <= i
              /\ Reading(infos, current[r], n, id, r) = infos[i].old[r]
        <5> HIDE DEF infos, infos2
        <5>1. \/ \A i \in DOMAIN infos : ~Applies(infos[i], n, id, r)
              \/ \E i \in DOMAIN infos :
                   /\ Applies(infos[i], n, id, r)
                   /\ \A k \in DOMAIN infos : Applies(infos[k], n, id, r) => k <= i
                   /\ Reading(infos, current[r], n, id, r) = infos[i].old[r]
          <6>1. infos \in Seq(Infos)  BY <1>0
          <6> QED BY <6>1, ReadingIs
        <5> QED BY <3>2, <5>1
      <4>2. ASSUME NEW k \in DOMAIN infos2, Applies(infos2[k], n, id, r) PROVE k <= i + 1
        <5>1. k \in 1 .. Len(infos) + 1 /\ i \in 1 .. Len(infos)  BY <1>0, <1>4
        <5>2. k # 1 => k - 1 \in DOMAIN infos /\ infos2[(k - 1) + 1] = infos[k - 1] /\ (k - 1) + 1 = k
          BY SMTT(30), <1>0, <1>4, <5>1
        <5>3. k # 1 => k - 1 <= i  BY <4>1, <4>2, <5>2
        <5> QED BY <1>0, <5>1, <5>3
      <4>3. i + 1 \in DOMAIN infos2 /\ infos2[i + 1] = infos[i]  BY <1>0, <1>4
      <4> HIDE DEF infos, infos2
      <4>4. Reading(infos2, current'[r], n, id, r) = infos2[i + 1].old[r]
        BY <1>0, <4>1, <4>2, <4>3, ReadingLast
      <4> QED BY <4>1, <4>3, <4>4
    <3> QED BY <3>1, <3>2
  <2> QED BY <2>3, <2>4
<1> QED BY <1>3, <1>4 DEF Merges

\* while t itself reads what it has written.
LEMMA MergeOwn ==
  ASSUME IInv, CleanInv, SoundInv, SnapshotInv, DataTyped', NEW t \in Txns, pc[t] = "running",
         NEW v \in Rows, NEW rows \in SUBSET Rows, Merges(t, v, rows), NEW r \in Rows
  PROVE  Reading(chain'[Vec(r)], current'[r], start_time[t], transaction_id[t], r)
           = IF r \in rows THEN t
             ELSE Reading(chain[Vec(r)], current[r], start_time[t], transaction_id[t], r)
<1> DEFINE infos == chain[v]  infos2 == chain'[v]  n == start_time[t]  id == transaction_id[t]
<1>0. /\ infos \in Seq(Infos) /\ infos2 \in Seq(Infos) /\ Len(infos) \in Nat
      /\ DOMAIN infos = 1 .. Len(infos) /\ Vec(r) \in Rows /\ n \in Nat
  <2>1. DataTyped /\ n \in Nat  BY DEF CleanInv, TxnTyped
  <2>2. Vec(r) \in Rows  BY <2>1, RowVecs
  <2>3. infos \in Seq(Infos) /\ infos2 \in Seq(Infos)  BY <2>1 DEF DataTyped
  <2> QED BY <2>1, <2>2, <2>3
<1>1. current' = [x \in Rows |-> IF x \in rows THEN t ELSE current[x]]  BY DEF Merges
<1>2. CASE Vec(r) # v
  <2>1. chain'[Vec(r)] = chain[Vec(r)]  BY <1>0, <1>2 DEF Merges
  <2>2. r \notin rows  BY <1>2 DEF Merges
  <2>3. current'[r] = current[r]  BY <1>1, <2>2
  <2> QED BY <2>1, <2>2, <2>3
<1> SUFFICES ASSUME Vec(r) = v
             PROVE  Reading(infos2, current'[r], n, id, r)
                      = IF r \in rows THEN t ELSE Reading(infos, current[r], n, id, r)
  BY <1>2
<1>3. \A i \in DOMAIN infos : infos[i].owner = t => ~Applies(infos[i], n, id, r)
  BY OwnIs, AppliesIs
<1>4. ASSUME r \in rows, NEW i \in DOMAIN infos PROVE ~Applies(infos[i], n, id, r)
  <2>1. CASE r \in DOMAIN infos[i].old
    <3>1. infos[i].owner = t \/ infos[i].version <= n  BY <1>4, <2>1, MergesOver
    <3>2. infos[i].version \in Nat  BY VersionIs
    <3> QED BY <1>0, <1>3, <3>1, <3>2, AppliesIs
  <2> QED BY <2>1, AppliesIs
<1>5. CASE \E m \in DOMAIN infos :
             /\ infos[m].owner = t
             /\ DOMAIN infos2 = DOMAIN infos
             /\ \A i \in DOMAIN infos :
                  /\ infos2[i].owner = infos[i].owner
                  /\ infos2[i].version = infos[i].version
                  /\ infos2[i].old = IF i # m THEN infos[i].old ELSE OldValues(infos[i].old, rows)
  <2>1. PICK m \in DOMAIN infos :
             /\ infos[m].owner = t
             /\ DOMAIN infos2 = DOMAIN infos
             /\ \A i \in DOMAIN infos :
                  /\ infos2[i].owner = infos[i].owner
                  /\ infos2[i].version = infos[i].version
                  /\ infos2[i].old = IF i # m THEN infos[i].old ELSE OldValues(infos[i].old, rows)
    BY <1>5
  <2>2. \A i \in DOMAIN infos : i # m => /\ Applies(infos2[i], n, id, r) <=> Applies(infos[i], n, id, r)
                                         /\ infos2[i].old = infos[i].old
    BY <2>1, AppliesIs
  <2>3. infos[m].version = id  BY <2>1, OwnIs
  <2>4. ~Applies(infos2[m], n, id, r) /\ ~Applies(infos[m], n, id, r)  BY <2>1, <2>3, AppliesIs
  <2>5. CASE r \in rows
    <3>1. \A k \in DOMAIN infos2 : ~Applies(infos2[k], n, id, r)  BY <1>4, <2>1, <2>2, <2>4, <2>5
    <3>2. current'[r] = t  BY <1>1, <2>5
    <3> HIDE DEF infos, infos2, n, id
    <3>3. Reading(infos2, current'[r], n, id, r) = current'[r]  BY <1>0, <3>1, ReadingBase
    <3> QED BY <2>5, <3>2, <3>3
  <2>6. CASE r \notin rows
    <3>1. current'[r] = current[r]  BY <1>1, <2>6
    <3>2. \A i \in DOMAIN infos :
            /\ Applies(infos2[i], n, id, r) <=> Applies(infos[i], n, id, r)
            /\ Applies(infos[i], n, id, r) => infos2[i].old[r] = infos[i].old[r]
      BY <2>2, <2>4
    <3> HIDE DEF infos, infos2, n, id
    <3>3. Reading(infos2, current'[r], n, id, r) = Reading(infos, current[r], n, id, r)
      BY <1>0, <2>1, <3>1, <3>2, ReadingSame
    <3> QED BY <2>6, <3>3
  <2> QED BY <2>5, <2>6
<1>6. CASE /\ \A i \in DOMAIN infos : infos[i].owner # t
           /\ DOMAIN infos2 = 1 .. Len(infos) + 1
           /\ infos2[1].owner = t /\ infos2[1].version = transaction_id[t]
           /\ infos2[1].old = OldValues(<<>>, rows)
           /\ \A i \in DOMAIN infos : infos2[i + 1] = infos[i]
  <2>1. ~Applies(infos2[1], n, id, r)  BY <1>6, AppliesIs
  <2>2. DOMAIN infos2 = 1 .. Len(infos) + 1 /\ \A i \in DOMAIN infos : infos2[i + 1] = infos[i]  BY <1>6
  <2>3. CASE r \notin rows
    <3>1. current'[r] = current[r]  BY <1>1, <2>3
    <3>0. infos \in Seq(Infos) /\ infos2 \in Seq(Infos)  BY <1>0
    <3> HIDE DEF infos, infos2, n, id
    <3>2. Reading(infos2, current'[r], n, id, r) = Reading(infos, current[r], n, id, r)
      BY <2>1, <2>2, <3>0, <3>1, ReadingPushed
    <3> QED BY <2>3, <3>2
  <2>4. CASE r \in rows
    <3>1. ASSUME NEW k \in DOMAIN infos2 PROVE ~Applies(infos2[k], n, id, r)
      <4>1. k \in 1 .. Len(infos) + 1  BY <2>2
      <4>2. k # 1 => k - 1 \in DOMAIN infos /\ infos2[(k - 1) + 1] = infos[k - 1] /\ (k - 1) + 1 = k
        BY <1>0, <2>2, <4>1
      <4> QED BY <1>4, <2>1, <2>4, <4>2
    <3>2. current'[r] = t  BY <1>1, <2>4
    <3> HIDE DEF infos, infos2, n, id
    <3>3. Reading(infos2, current'[r], n, id, r) = current'[r]  BY <1>0, <3>1, ReadingBase
    <3> QED BY <2>4, <3>2, <3>3
  <2> QED BY <2>3, <2>4
<1> QED BY <1>5, <1>6 DEF Merges

\* A roll-back leaves to the others what was there before the UPDATE,
LEMMA RestoreStays ==
  ASSUME IInv, CleanInv, SoundInv, SnapshotInv, DataTyped', NEW t \in Txns, pc[t] = "rollback",
         NEW v \in Rows, current' = RestoredValues(v, t), NEW m \in DOMAIN chain[v], Unlinks(t, v, m),
         NEW n \in Nat, NEW id \in Nat, transaction_id[t] > n, transaction_id[t] # id,
         NEW r \in Rows
  PROVE  Reading(chain'[Vec(r)], current'[r], n, id, r) = Reading(chain[Vec(r)], current[r], n, id, r)
<1> DEFINE infos == chain[v]  infos2 == chain'[v]
<1>0. /\ infos \in Seq(Infos) /\ infos2 \in Seq(Infos) /\ Len(infos) \in Nat
      /\ DOMAIN infos = 1 .. Len(infos) /\ Vec(r) \in Rows
  <2>1. DataTyped  BY DEF CleanInv
  <2>2. Vec(r) \in Rows  BY <2>1, RowVecs
  <2>3. infos \in Seq(Infos) /\ infos2 \in Seq(Infos)  BY <2>1 DEF DataTyped
  <2> QED BY <2>2, <2>3
<1>1. /\ infos[m].owner = t /\ m \in Nat
      /\ \A i \in DOMAIN infos : infos[i].owner = t => i = m
  BY <1>0 DEF Unlinks
<1>2. current'[r] = IF r \in DOMAIN infos[m].old THEN infos[m].old[r] ELSE current[r]
  <2> DEFINE own == {i \in DOMAIN infos : infos[i].owner = t}
  <2>1. own = {m}  BY <1>1
  <2>2. (CHOOSE i \in own : TRUE) = m  BY <2>1
  <2>3. current' = [x \in Rows |-> IF \E i \in own : x \in DOMAIN infos[i].old
                                   THEN infos[CHOOSE i \in own : TRUE].old[x] ELSE current[x]]
    BY DEF RestoredValues
  <2> HIDE DEF own, infos
  <2> QED BY <2>1, <2>2, <2>3
<1>3. pc[t] \in Undecided  BY DEF Undecided, Live
<1>4. CASE Vec(r) # v
  <2>1. chain'[Vec(r)] = chain[Vec(r)]  BY <1>0, <1>4 DEF Unlinks
  <2>2. r \notin DOMAIN infos[m].old  BY <1>4 DEF SnapshotInv, ChainInv, OldRowsInv
  <2> QED BY <1>2, <2>1, <2>2
<1> SUFFICES ASSUME Vec(r) = v
             PROVE  Reading(infos2, current'[r], n, id, r) = Reading(infos, current[r], n, id, r)
  BY <1>4
<1>5. infos[m].version = transaction_id[t]
  BY <1>1, <1>3 DEF SnapshotInv, ChainInv, OwnVersionInv
<1>6. Applies(infos[m], n, id, r) <=> r \in DOMAIN infos[m].old  BY <1>5, AppliesIs
<1>7. /\ DOMAIN infos2 = 1 .. Len(infos) - 1
      /\ \A k \in DOMAIN infos2 : infos2[k] = infos[IF k < m THEN k ELSE k + 1]
  BY DEF Unlinks
<1>8. CASE r \notin DOMAIN infos[m].old
  <2>1. current'[r] = current[r]  BY <1>2, <1>8
  <2>2. ~Applies(infos[m], n, id, r)  BY <1>6, <1>8
  <2>3. infos \in Seq(Infos) /\ infos2 \in Seq(Infos)  BY <1>0
  <2>b. TakesOut(infos, infos2, m)  BY <1>7 DEF TakesOut
  <2> HIDE DEF infos, infos2
  <2>4. Reading(infos2, current'[r], n, id, r) = Reading(infos, current[r], n, id, r)
    BY <2>b, <2>1, <2>2, <2>3, ReadingUnlinked
  <2> QED BY <2>4
<1>9. CASE r \in DOMAIN infos[m].old
  <2>0. Applies(infos[m], n, id, r) /\ current'[r] = infos[m].old[r]  BY <1>2, <1>6, <1>9
  <2>a. infos \in Seq(Infos) /\ \E i \in DOMAIN infos : Applies(infos[i], n, id, r)  BY <1>0, <2>0
  <2>1. PICK i \in DOMAIN infos :
          /\ Applies(infos[i], n, id, r)
          /\ \A k \in DOMAIN infos : Applies(infos[k], n, id, r) => k <= i
          /\ Reading(infos, current[r], n, id, r) = infos[i].old[r]
    <3> HIDE DEF infos, infos2
    <3> QED BY <2>a, ReadingIs
  <2>2. \A k \in DOMAIN infos : k < m => ~Applies(infos[k], n, id, r)
    <3>1. ASSUME NEW k \in DOMAIN infos, k < m PROVE DOMAIN infos[k].old \cap DOMAIN infos[m].old = {}
      BY <1>1, <1>3, <3>1 DEF SnapshotInv, ChainInv, RowOrderInv
    <3> QED BY <1>9, <3>1, AppliesIs
  <2>3. m <= i /\ i \in Nat  BY <1>0, <2>0, <2>1
  <2>4. CASE i = m
    <3>1. \A k \in DOMAIN infos2 : ~Applies(infos2[k], n, id, r)
      <4> SUFFICES ASSUME NEW k \in DOMAIN infos2, Applies(infos2[k], n, id, r) PROVE FALSE  OBVIOUS
      <4>1. k \in 1 .. Len(infos) - 1 /\ m \in 1 .. Len(infos)  BY <1>0, <1>7
      <4>2. CASE k < m
        <5>1. k \in DOMAIN infos /\ infos2[k] = infos[k]  BY <1>0, <1>7, <4>1, <4>2
        <5> QED BY <2>2, <4>2, <5>1
      <4>3. CASE ~(k < m)
        <5>1. k + 1 \in DOMAIN infos /\ infos2[k] = infos[k + 1]  BY <1>0, <1>7, <4>1, <4>3
        <5>2. k + 1 <= m  BY <2>1, <2>4, <5>1
        <5> QED BY <4>1, <4>3, <5>2
      <4> QED BY <4>2, <4>3
    <3> HIDE DEF infos, infos2
    <3>2. Reading(infos2, current'[r], n, id, r) = current'[r]  BY <1>0, <3>1, ReadingBase
    <3> QED BY <2>0, <2>1, <2>4, <3>2
  <2>5. CASE i # m
    <3>0. i > m /\ i \in 1 .. Len(infos)  BY <1>0, <1>1, <2>3, <2>5
    <3>1. i - 1 \in DOMAIN infos2 /\ ~(i - 1 < m) /\ (i - 1) + 1 = i
      <4>1. m \in 1 .. Len(infos) /\ Len(infos) \in Nat  BY <1>0
      <4>2. DOMAIN infos2 = 1 .. Len(infos) - 1  BY <1>7
      <4> HIDE DEF infos, infos2
      <4> QED BY <3>0, <4>1, <4>2
    <3>2. infos2[i - 1] = infos[i]  BY <1>7, <3>1
    <3>3. ASSUME NEW k \in DOMAIN infos2, Applies(infos2[k], n, id, r) PROVE k <= i - 1
      <4>1. k \in 1 .. Len(infos) - 1 /\ m \in 1 .. Len(infos)  BY <1>0, <1>7
      <4>2. CASE k < m  BY <1>1, <3>0, <4>1, <4>2
      <4>3. CASE ~(k < m)
        <5>1. k + 1 \in DOMAIN infos /\ infos2[k] = infos[k + 1]  BY <1>0, <1>7, <4>1, <4>3
        <5>2. k + 1 <= i  BY <2>1, <3>3, <5>1
        <5> QED BY <3>0, <4>1, <5>2
      <4> QED BY <4>2, <4>3
    <3> HIDE DEF infos, infos2
    <3>4. Reading(infos2, current'[r], n, id, r) = infos2[i - 1].old[r]
      BY <1>0, <2>1, <3>1, <3>2, <3>3, ReadingLast
    <3> QED BY <2>1, <3>2, <3>4
  <2> QED BY <2>4, <2>5
<1> QED BY <1>8, <1>9

\* and so does a clean-up, or a commit that gives an UpdateInfo its timestamp.
LEMMA UnlinkStays ==
  ASSUME IInv, CleanInv, DataTyped', NEW u \in Txns, NEW v \in Rows,
         NEW m \in DOMAIN chain[v], Unlinks(u, v, m),
         NEW n \in Nat, NEW id \in Nat, chain[v][m].version <= n, NEW r \in Rows
  PROVE  Reading(chain'[Vec(r)], current[r], n, id, r) = Reading(chain[Vec(r)], current[r], n, id, r)
<1> DEFINE infos == chain[v]  infos2 == chain'[v]
<1>0. DataTyped /\ Vec(r) \in Rows  BY RowVecs DEF CleanInv
<1>1. infos \in Seq(Infos) /\ infos2 \in Seq(Infos)  BY <1>0 DEF DataTyped
<1>2. CASE Vec(r) # v  BY <1>0, <1>2 DEF Unlinks
<1>3. CASE Vec(r) = v
  <2>1. TakesOut(infos, infos2, m)  BY DEF Unlinks, TakesOut
  <2>2. infos[m].version \in Nat  BY <1>0, InfoTypes
  <2>3. ~Applies(infos[m], n, id, r)  BY <2>2, AppliesIs
  <2> HIDE DEF infos, infos2
  <2>5. Reading(infos2, current[r], n, id, r) = Reading(infos, current[r], n, id, r)
    BY <1>1, <2>1, <2>3, ReadingUnlinked
  <2> QED BY <1>3, <2>5 DEF infos, infos2
<1> QED BY <1>2, <1>3

\* A commit that stamps an UpdateInfo changes nothing for who does not see the commit.
LEMMA RenameStays ==
  ASSUME IInv, CleanInv, SoundInv, SnapshotInv, DataTyped', NEW t \in Txns, pc[t] = "commit",
         NEW v \in Rows, chain' = [chain EXCEPT ![v] = Renamed(@, t, commit_id[t])],
         NEW n \in Nat, NEW id \in Nat, transaction_id[t] > n, transaction_id[t] # id,
         commit_id[t] > n, commit_id[t] # id, NEW r \in Rows
  PROVE  Reading(chain'[Vec(r)], current[r], n, id, r) = Reading(chain[Vec(r)], current[r], n, id, r)
<1> DEFINE infos == chain[v]  infos2 == chain'[v]
<1>0. DataTyped /\ Vec(r) \in Rows  BY RowVecs DEF CleanInv
<1>1. infos \in Seq(Infos) /\ infos2 \in Seq(Infos) /\ infos2 = Renamed(infos, t, commit_id[t])
  BY <1>0 DEF DataTyped
<1>2. CASE Vec(r) # v
  <2>1. chain'[Vec(r)] = chain[Vec(r)]  BY <1>0, <1>2 DEF DataTyped
  <2> QED BY <2>1
<1>3. CASE Vec(r) = v
  <2>1. commit_id[t] \in Nat  BY DEF IInv, Typed
  <2>2. /\ DOMAIN infos2 = DOMAIN infos
        /\ \A i \in DOMAIN infos :
             /\ infos2[i].owner = infos[i].owner /\ infos2[i].old = infos[i].old
             /\ infos2[i].version = IF infos[i].owner = t THEN commit_id[t] ELSE infos[i].version
    <3>1. infos \in Seq(Infos) /\ infos2 = Renamed(infos, t, commit_id[t])  BY <1>1
    <3> HIDE DEF infos, infos2
    <3> QED BY SMTT(30), <2>1, <3>1, RenamedIs
  <2>3. pc[t] \in Undecided  BY DEF Undecided, Live
  <2>4. \A i \in DOMAIN infos : infos[i].owner = t => infos[i].version > n /\ infos[i].version # id
    BY <2>3 DEF SnapshotInv, ChainInv, OwnVersionInv
  <2>5. \A i \in DOMAIN infos :
          /\ Applies(infos2[i], n, id, r) <=> Applies(infos[i], n, id, r)
          /\ Applies(infos[i], n, id, r) => infos2[i].old[r] = infos[i].old[r]
    BY <2>2, <2>4, AppliesIs
  <2> HIDE DEF infos, infos2
  <2>6. Reading(infos2, current[r], n, id, r) = Reading(infos, current[r], n, id, r)
    BY <1>1, <2>2, <2>5, ReadingSame
  <2> QED BY <1>3, <2>6 DEF infos, infos2
<1> QED BY <1>2, <1>3

\* What one reads who sees what has a timestamp below s, up to n, or the id, and nothing of
\* what t has still to decide; and from whom t cleans up he sees all.
Apart(t, s, n, id) ==
  /\ s \in Nat /\ 0 < s /\ n \in Nat /\ id \in Nat
  /\ pc[t] \in Undecided =>
       /\ transaction_id[t] >= s /\ transaction_id[t] > n /\ transaction_id[t] # id
       /\ pc[t] = "commit" => commit_id[t] >= s /\ commit_id[t] > n /\ commit_id[t] # id
  /\ NOT_DELETED_ID >= s /\ NOT_DELETED_ID # id
  /\ \A u \in ToSet(work.txns) :
       Committed(u) /\ (HasUpdates(u) \/ commit_id[u] <= work.lowest) => commit_id[u] < s /\ commit_id[u] <= n

\* After the step, with what was to be seen before it.
VisibleThen(s, id, r) ==
  /\ r <= count'
  /\ UseVersion(s, id, inserted'[r])
  /\ ~UseVersion(s, id, deleted'[r])
ReadingThen(n, id, r) == Reading(chain'[Vec(r)'], current'[r], n, id, r)

\* An id that is neither before the start nor one's own is not seen.
LEMMA SeesNone ==
  ASSUME NEW s, NEW id, NEW n, n >= s, n # id, s \in Nat, n \in Nat
  PROVE  ~UseVersion(s, id, n)
BY DEF UseVersion

\* An insert id that changes was, and is, seen by all of them or by none,
LEMMA InsertedStays ==
  ASSUME IInv, CleanInv, Sound, SoundInv, SnapshotInv, DataTyped', NEW t \in Txns, Step(t),
         NEW s, NEW n, NEW id, Apart(t, s, n, id), NEW r \in 1 .. count
  PROVE  UseVersion(s, id, inserted'[r]) <=> UseVersion(s, id, inserted[r])
<1>0. /\ DataTyped /\ TxnTyped /\ IdsInv /\ TimesInv /\ WalInv /\ AppendInv /\ RoomInv /\ PendingInv
      /\ RipeInv /\ PlaceInv /\ s \in Nat /\ 0 < s
      /\ commit_id[t] \in Nat /\ transaction_id[t] \in Nat
  BY DEF CleanInv, SoundInv, Apart, TxnTyped, IInv, Typed
<1>1. \/ inserted'[r] = inserted[r]
      \/ /\ CommitEntry(t) /\ done[t] + 1 \in Appends(t) /\ r \in undo[t][done[t] + 1].rows
         /\ inserted'[r] = commit_id[t]
      \/ /\ CleanupEntry(t) /\ inserted'[r] = 0 /\ \E u \in Txns : CleanedUp(u, r)
  BY <1>0, InsertedIs
<1>2. CASE /\ CommitEntry(t) /\ done[t] + 1 \in Appends(t) /\ r \in undo[t][done[t] + 1].rows
           /\ inserted'[r] = commit_id[t]
  <2>1. pc[t] = "commit" /\ pc[t] \in Undecided  BY <1>2 DEF CommitEntry, Undecided, Live
  <2>2. ~(done[t] + 1 <= done[t])  BY <1>0 DEF TxnTyped
  <2>3. inserted[r] = transaction_id[t]  BY <1>0, <1>2, <2>1, <2>2 DEF PendingInv
  <2> QED BY <1>0, <1>2, <2>1, <2>3, SeesNone DEF Apart
<1>3. CASE CleanupEntry(t) /\ inserted'[r] = 0 /\ \E u \in Txns : CleanedUp(u, r)
  <2>1. PICK u \in Txns : CleanedUp(u, r)  BY <1>3
  <2>2. commit_id[u] < s /\ commit_id[u] \in Nat
    <3>1. commit_id[u] \in Nat  BY DEF IInv, Typed
    <3>2. Committed(u) => commit_id[u] < s  BY <2>1 DEF Apart, CleanedUp
    <3> QED BY <1>0, <3>1, <3>2 DEF Committed
  <2>3. r \in Rows /\ inserted[r] \in Nat  BY <1>0, RoomIs DEF DataTyped
  <2>4. inserted[r] <= commit_id[u]  BY <2>1 DEF CleanedUp
  <2>5. inserted[r] < s /\ inserted'[r] < s  BY <1>0, <1>3, <2>2, <2>3, <2>4
  <2> QED BY <2>5 DEF UseVersion
<1> QED BY <1>1, <1>2, <1>3

\* and so was a delete id.
LEMMA DeletedMarks ==
  ASSUME IInv, CleanInv, Sound, SoundInv, SnapshotInv, NEW t \in Txns, Step(t),
         NEW s, NEW n, NEW id, Apart(t, s, n, id), NEW r \in Rows
  PROVE  UseVersion(s, id, deleted'[r]) <=> UseVersion(s, id, deleted[r])
<1>0. /\ DataTyped /\ TxnTyped /\ WalInv /\ AppendInv /\ DeleteInv /\ s \in Nat
      /\ commit_id[t] \in Nat /\ transaction_id[t] \in Nat /\ NOT_DELETED_ID \in Nat
  BY ConstantTypes DEF CleanInv, SoundInv, Apart, TxnTyped, IInv, Typed
<1>1. ~UseVersion(s, id, NOT_DELETED_ID)  BY <1>0, SeesNone DEF Apart
<1>2. pc[t] \in Undecided => ~UseVersion(s, id, transaction_id[t])  BY <1>0, SeesNone DEF Apart
<1>3. pc[t] = "commit" => ~UseVersion(s, id, commit_id[t])
  BY <1>0, SeesNone DEF Apart, Undecided, Live
<1>4. CASE Delete(t)
  <2>1. pc[t] \in Undecided  BY <1>0, <1>4, DeleteFrame DEF Undecided, Live
  <2>2. \/ deleted' = deleted
        \/ \E fresh \in SUBSET Rows :
             /\ \A x \in fresh : deleted[x] = NOT_DELETED_ID
             /\ deleted' = [x \in Rows |-> IF x \in fresh THEN transaction_id[t] ELSE deleted[x]]
    BY <1>0, <1>4, DeleteMarks
  <2> QED BY <1>1, <1>2, <2>1, <2>2
<1>5. CASE ~Delete(t)
  <2>1. \A i : Marking(t, i) => pc[t] \in Undecided /\ \A x \in undo[t][i].rows : ~UseVersion(s, id, deleted[x])
    <3> SUFFICES ASSUME NEW i, Marking(t, i), NEW x \in undo[t][i].rows
                 PROVE  pc[t] \in Undecided /\ ~UseVersion(s, id, deleted[x])
      BY DEF Marking, Undecided
    <3>1. pc[t] \in Undecided  BY DEF Marking, Undecided
    <3>2. deleted[x] = transaction_id[t] \/ (pc[t] = "commit" /\ deleted[x] = commit_id[t])
      BY <1>0 DEF Marking, DeleteInv
    <3> QED BY <1>2, <1>3, <3>1, <3>2
  <2>2. CASE deleted' = deleted  BY <2>2
  <2>3. CASE /\ CommitEntry(t) /\ Marking(t, done[t] + 1)
             /\ deleted' = [x \in Rows |-> IF x \in undo[t][done[t] + 1].rows THEN commit_id[t] ELSE deleted[x]]
    <3>1. pc[t] = "commit"  BY <2>3 DEF CommitEntry
    <3> QED BY <1>3, <2>1, <2>3, <3>1
  <2>4. CASE /\ RollbackEntry(t) /\ Marking(t, done[t])
             /\ deleted' = [x \in Rows |-> IF x \in undo[t][done[t]].rows THEN NOT_DELETED_ID ELSE deleted[x]]
    BY <1>1, <2>1, <2>4
  <2> QED BY <1>0, <1>5, <2>2, <2>3, <2>4, DeletedIs
<1> QED BY <1>4, <1>5

\* The step leaves to such a reader the rows that he sees,
LEMMA VisibleStays ==
  ASSUME IInv, CleanInv, Sound, SoundInv, SnapshotInv, DataTyped', NEW t \in Txns, Step(t),
         NEW s, NEW n, NEW id, Apart(t, s, n, id), NEW r \in Rows
  PROVE  VisibleThen(s, id, r) <=> Visible(s, id, r)
<1>0. DataTyped /\ WalInv /\ AppendInv /\ r \in Nat /\ r >= 1 /\ count \in Nat
  BY DEF CleanInv, SoundInv, Rows, DataTyped
<1>1. CASE r <= count
  <2>1. r \in 1 .. count  BY <1>0, <1>1
  <2>2. r <= count'
    <3>1. count' = count \/ (count' = count + local[t] /\ local[t] \in Nat)
      BY <1>0, AppendsFrame, GrowIs DEF CleanInv
    <3> QED BY <1>0, <1>1, <3>1
  <2> QED BY <1>1, <2>1, <2>2, InsertedStays, DeletedMarks DEF VisibleThen, Visible
<1>2. CASE ~(r <= count)
  <2>1. ~Visible(s, id, r)  BY <1>2 DEF Visible
  <2>2. CASE count' = count  BY <1>2, <2>1, <2>2 DEF VisibleThen
  <2>3. CASE count' # count
    <3>1. Grows(t) /\ pc[t] \in {"running", "wal"}  BY <1>0, <2>3, AppendsFrame
    <3>2. /\ count' = count + local[t] /\ local[t] \in Nat
          /\ inserted' = [x \in Rows |-> IF x \in count + 1 .. count + local[t]
                                         THEN transaction_id[t] ELSE inserted[x]]
      BY <1>0, <3>1, GrowIs
    <3>3. pc[t] \in Undecided  BY <3>1 DEF Undecided, Live
    <3>4. ~UseVersion(s, id, transaction_id[t])
      <4>1. transaction_id[t] \in Nat  BY DEF CleanInv, TxnTyped
      <4> QED BY <3>3, <4>1, SeesNone DEF Apart
    <3>5. r <= count' => inserted'[r] = transaction_id[t]  BY <1>0, <1>2, <3>2
    <3> QED BY <2>1, <3>4, <3>5 DEF VisibleThen
  <2> QED BY <2>2, <2>3
<1> QED BY <1>1, <1>2

\* and their values.
LEMMA ReadingStays ==
  ASSUME IInv, CleanInv, Sound, SoundInv, SnapshotInv, DataTyped', NEW t \in Txns, Step(t),
         NEW s, NEW n, NEW id, Apart(t, s, n, id), NEW r \in 1 .. count
  PROVE  ReadingThen(n, id, r) = ValueOf(n, id, r)
<1>0. /\ DataTyped /\ TxnTyped /\ WalInv /\ AppendInv /\ RoomInv /\ PlaceInv /\ n \in Nat /\ id \in Nat
      /\ pc[t] \in Undecided =>
           /\ transaction_id[t] > n /\ transaction_id[t] # id
           /\ pc[t] = "commit" => commit_id[t] > n /\ commit_id[t] # id
  BY DEF CleanInv, SoundInv, Apart
<1>1. r \in Rows /\ Vec(r)' = Vec(r)  BY <1>0, RoomIs, VecsStay
<1> SUFFICES Reading(chain'[Vec(r)], current'[r], n, id, r) = Reading(chain[Vec(r)], current[r], n, id, r)
  BY <1>1, ReadingValue DEF ReadingThen
<1>2. CASE UNCHANGED <<chain, current>>  BY <1>2
<1>3. CASE chain' = chain /\ \A x \in 1 .. count : current'[x] = current[x]  BY <1>3
<1>4. CASE Update(t) /\ pc' = pc /\ \E v \in Rows : \E rows \in SUBSET Rows : Merges(t, v, rows)
  <2>1. pc[t] = "running"  BY <1>0, <1>4, UpdateFrame
  <2>2. PICK v \in Rows : \E rows \in SUBSET Rows : Merges(t, v, rows)  BY <1>4
  <2>3. PICK rows \in SUBSET Rows : Merges(t, v, rows)  BY <2>2
  <2>4. pc[t] \in Undecided  BY <2>1 DEF Undecided, Live
  <2> QED BY <1>0, <1>1, <2>1, <2>3, <2>4, MergeStays
<1>5. CASE /\ CommitEntry(t) /\ current' = current
           /\ \E v \in Rows : chain' = [chain EXCEPT ![v] = Renamed(@, t, commit_id[t])]
  <2>1. pc[t] = "commit"  BY <1>5 DEF CommitEntry
  <2>2. PICK v \in Rows : chain' = [chain EXCEPT ![v] = Renamed(@, t, commit_id[t])]  BY <1>5
  <2>4. pc[t] \in Undecided  BY <2>1 DEF Undecided, Live
  <2>5. current'[r] = current[r]  BY <1>5
  <2>6. Reading(chain'[Vec(r)], current[r], n, id, r) = Reading(chain[Vec(r)], current[r], n, id, r)
    BY <1>0, <1>1, <2>1, <2>2, <2>4, RenameStays
  <2> QED BY <2>5, <2>6
<1>6. CASE /\ RollbackEntry(t)
           /\ \E v \in Rows : /\ current' = RestoredValues(v, t)
                              /\ \E m \in DOMAIN chain[v] : Unlinks(t, v, m)
  <2>1. pc[t] = "rollback"  BY <1>6 DEF RollbackEntry
  <2>2. PICK v \in Rows : current' = RestoredValues(v, t) /\ \E m \in DOMAIN chain[v] : Unlinks(t, v, m)
    BY <1>6
  <2>3. PICK m \in DOMAIN chain[v] : Unlinks(t, v, m)  BY <2>2
  <2>4. pc[t] \in Undecided  BY <2>1 DEF Undecided, Live
  <2> QED BY <1>0, <1>1, <2>1, <2>2, <2>3, <2>4, RestoreStays
<1>7. CASE /\ CleanupEntry(t) /\ current' = current
           /\ \E u \in ToSet(work.txns) \cap Txns :
                /\ Committed(u)
                /\ \E v \in Rows : \E m \in DOMAIN chain[v] : Unlinks(u, v, m)
  <2>1. PICK u \in ToSet(work.txns) \cap Txns :
          Committed(u) /\ \E v \in Rows : \E m \in DOMAIN chain[v] : Unlinks(u, v, m)
    BY <1>7
  <2>2. PICK v \in Rows : \E m \in DOMAIN chain[v] : Unlinks(u, v, m)  BY <2>1
  <2>3. PICK m \in DOMAIN chain[v] : Unlinks(u, v, m)  BY <2>2
  <2>4. pc[u] \in EndedPcs /\ chain[v][m].owner = u  BY <1>0, <2>1, <2>3 DEF PlaceInv, Unlinks
  <2>5. HasUpdates(u) /\ chain[v][m].version = commit_id[u]
    BY <2>4, VersionIs DEF EndedPcs, Undecided, Live
  <2>6. chain[v][m].version <= n  BY <2>1, <2>5 DEF Apart
  <2>7. current'[r] = current[r]  BY <1>7
  <2>8. Reading(chain'[Vec(r)], current[r], n, id, r) = Reading(chain[Vec(r)], current[r], n, id, r)
    BY <1>0, <1>1, <2>3, <2>6, UnlinkStays
  <2> QED BY <2>7, <2>8
<1> QED BY <1>2, <1>3, <1>4, <1>5, <1>6, <1>7, ChainIs

\* A running transaction is such a reader to the others,
LEMMA ReaderApart ==
  ASSUME IInv, CleanInv, SoundInv, SnapshotInv, NEW t \in Txns, NEW u \in Txns, u # t, pc[u] = "running"
  PROVE  Apart(t, start_time[u], start_time[u], transaction_id[u])
<1>0. /\ IdsInv /\ TimesInv /\ TxnTyped /\ start_time[u] \in Nat /\ transaction_id[u] \in Nat
      /\ start_time[u] < clock /\ 0 < start_time[u] /\ u \in active /\ pc[u] \in Live
      /\ start_time \in [Txns -> Nat]
  <2>1. pc[u] \in Live  BY DEF Live
  <2> QED BY <2>1 DEF CleanInv, SoundInv, TxnTyped, TimesInv, SnapshotInv, AgeInv, ActiveInv
<1>1. /\ clock \in Nat /\ clock <= TRANSACTION_ID_START /\ TRANSACTION_ID_START \in Nat
      /\ TRANSACTION_ID_START < NOT_DELETED_ID /\ NOT_DELETED_ID \in Nat
      /\ TRANSACTION_ID_START <= transaction_id[u] /\ transaction_id[u] < NOT_DELETED_ID
      /\ commit_id[t] < clock /\ commit_id[t] \in Nat /\ transaction_id[t] \in Nat
      /\ pc[t] \in Live => TRANSACTION_ID_START <= transaction_id[t]
  BY <1>0, IdsAre
<1>2. ASSUME pc[t] \in Undecided
      PROVE  /\ transaction_id[t] >= start_time[u] /\ transaction_id[t] > start_time[u]
             /\ transaction_id[t] # transaction_id[u]
  <2>1. pc[t] \in Live  BY <1>2 DEF Undecided
  <2>2. transaction_id[t] # transaction_id[u]  BY <1>0, <2>1 DEF IdsInv
  <2> QED BY <1>0, <1>1, <2>1, <2>2
<1>3. ASSUME pc[t] = "commit"
      PROVE  /\ commit_id[t] >= start_time[u] /\ commit_id[t] > start_time[u]
             /\ commit_id[t] # transaction_id[u]
  <2>1. start_time[u] < commit_id[t]  BY <1>0, <1>3 DEF TimesInv, StampedPcs
  <2> QED BY <1>0, <1>1, <2>1
<1>4. NOT_DELETED_ID >= start_time[u] /\ NOT_DELETED_ID # transaction_id[u]  BY <1>0, <1>1
<1>5. ASSUME NEW w \in ToSet(work.txns), Committed(w), HasUpdates(w) \/ commit_id[w] <= work.lowest
      PROVE  commit_id[w] < start_time[u] /\ commit_id[w] <= start_time[u]
  <2>1. commit_id[w] < start_time[u]  BY <1>0, <1>5 DEF SnapshotInv, ReadersInv, ReadBy
  <2>2. w \in Txns /\ commit_id[w] \in Nat  BY QueueTypes DEF CleanInv, IInv, Typed
  <2> QED BY <1>0, <2>1, <2>2
<1> QED BY <1>0, <1>2, <1>3, <1>4, <1>5 DEF Apart

\* and so is who reads what is committed.
LEMMA CommittedApart ==
  ASSUME IInv, CleanInv, SoundInv, NEW t \in Txns
  PROVE  Apart(t, Now, Now - 1, 0)
<1>0. /\ IdsInv /\ TimesInv /\ StampInv /\ PlaceInv /\ ManagerTyped
      /\ Now \in Nat /\ 0 < Now /\ Now - 1 \in Nat /\ last_commit < Now /\ last_commit \in Nat
      /\ Now <= TRANSACTION_ID_START /\ TRANSACTION_ID_START \in Nat
      /\ pc[t] = "commit" => Now = commit_id[t]
  <2>1. IdsInv /\ TimesInv /\ StampInv /\ PlaceInv /\ ManagerTyped  BY DEF CleanInv, SoundInv
  <2>2. clock \in Nat /\ TRANSACTION_ID_START \in Nat  BY <2>1, IdsAre
  <2> QED BY <2>1, <2>2, NowIs
<1>1. /\ TRANSACTION_ID_START < NOT_DELETED_ID /\ NOT_DELETED_ID \in Nat
      /\ commit_id[t] \in Nat /\ transaction_id[t] \in Nat
      /\ pc[t] \in Live => TRANSACTION_ID_START <= transaction_id[t]
  BY <1>0, IdsAre
<1>2. ASSUME pc[t] \in Undecided
      PROVE  transaction_id[t] >= Now /\ transaction_id[t] > Now - 1 /\ transaction_id[t] # 0
  <2>1. pc[t] \in Live  BY <1>2 DEF Undecided
  <2> QED BY <1>0, <1>1, <2>1
<1>3. ASSUME pc[t] = "commit" PROVE commit_id[t] >= Now /\ commit_id[t] > Now - 1 /\ commit_id[t] # 0
  BY <1>0, <1>3
<1>4. NOT_DELETED_ID >= Now /\ NOT_DELETED_ID # 0  BY <1>0, <1>1
<1>5. ASSUME NEW w \in ToSet(work.txns) PROVE commit_id[w] < Now /\ commit_id[w] <= Now - 1
  <2>1. w \in Txns /\ commit_id[w] \in Nat  BY <1>0, QueueTypes DEF IInv, Typed
  <2>2. commit_id[w] <= last_commit  BY <1>0, <2>1 DEF PlaceInv, TimesInv
  <2> QED BY <1>0, <2>1, <2>2
<1> QED BY <1>0, <1>2, <1>3, <1>4, <1>5 DEF Apart

\* The time of the next commit to be seen stays, but for a start and the end of a commit.
LEMMA NowStays ==
  ASSUME IInv, CleanInv, Sound, SoundInv, NEW t \in Txns, Step(t), ~Start(t), ~CommitDone(t)
  PROVE  Now' = Now
<1>0. WalInv /\ pc \in [Txns -> Pcs] /\ commit_id \in [Txns -> Nat] /\ DataTyped /\ TxnTyped
  BY DEF SoundInv, CleanInv, IInv, Typed
<1>1. CASE CommitDirectly(t) \/ TakeTimestamp(t)
  <2>1. commit_id' = [commit_id EXCEPT ![t] = clock] /\ pc' = [pc EXCEPT ![t] = "commit"]
    BY <1>0, <1>1, SoundCommit
  <2>2. transaction_lock = None /\ pc[t] # "commit"
    BY <1>1 DEF CommitDirectly, TakeTimestamp, Running
  <2>3. \A u \in Txns : pc[u] # "commit"
    BY <2>2, NoneAssumption DEF IInv, Locked, LockPcs
  <2>4. Now = clock  BY <2>3, NowIs
  <2>5. Committing' = {t}  BY <1>0, <2>1, <2>3 DEF Committing
  <2>6. (CHOOSE u \in Committing' : TRUE) = t  BY <2>5
  <2>7. Now' = commit_id'[t]  BY <2>5, <2>6 DEF Now
  <2> QED BY <1>0, <2>1, <2>4, <2>7
<1>2. CASE ~CommitDirectly(t) /\ ~TakeTimestamp(t)
  <2>1. Committing' = Committing
    <3>1. \/ pc' = pc
          \/ \E l \in Pcs : pc' = [pc EXCEPT ![t] = l] /\ pc[t] # "commit" /\ l # "commit"
      BY <1>0, <1>2, SoundMove
    <3> QED BY <1>0, <3>1 DEF Committing
  <2>2. commit_id' = commit_id /\ clock' = clock
    <3>1. commit_id' = commit_id  BY <1>0, <1>2, FieldsStay
    <3>2. ~FlushFails(t)  BY <1>0, SoundCommit
    <3>3. CASE Delete(t) \/ Update(t)  BY <1>0, <3>3, DeleteFrame, UpdateFrame DEF managerVars
    <3>4. clock' = clock
      BY <1>2, <3>2, <3>3 DEF Step, Insert, CommitThroughWAL, WriteToWAL, CommitEntry, Rollback,
        RollbackEntry, Leave, PopCleanup, CleanupEntry, CleanupDone, StartCheckpoint, FinishCheckpoint,
        managerVars
    <3> QED BY <3>1, <3>4
  <2> QED BY <2>1, <2>2 DEF Now
<1> QED BY <1>1, <1>2

\* What is committed, and what a transaction sees, after the step.
LEMMA TablesThen ==
  /\ Db' = [r \in Rows |-> IF VisibleThen(Now', 0, r) THEN ReadingThen(Now' - 1, 0, r) ELSE Absent]
  /\ \A u \in Txns : Views'[u] =
       [r \in Rows |-> IF pc'[u] = "running" /\ VisibleThen(start_time'[u], transaction_id'[u], r)
                       THEN ReadingThen(start_time'[u], transaction_id'[u], r) ELSE Absent]
BY DEF Db, Views, View, CommittedTable, Visible, VisibleThen, ValueOf, ReadingThen, Reading, Applies, UseVersion,
   AppliesToTransaction

\* A table as one sees it who is apart.
LEMMA TableStays ==
  ASSUME IInv, CleanInv, Sound, SoundInv, SnapshotInv, DataTyped', NEW t \in Txns, Step(t),
         NEW s, NEW n, NEW id, Apart(t, s, n, id), NEW r \in Rows
  PROVE  (IF VisibleThen(s, id, r) THEN ReadingThen(n, id, r) ELSE Absent)
           = IF Visible(s, id, r) THEN ValueOf(n, id, r) ELSE Absent
<1>1. VisibleThen(s, id, r) <=> Visible(s, id, r)  BY VisibleStays
<1>2. CASE Visible(s, id, r)
  <2>1. r \in 1 .. count  BY <1>2 DEF Visible, Rows, CleanInv, DataTyped
  <2>2. ReadingThen(n, id, r) = ValueOf(n, id, r)  BY <2>1, ReadingStays
  <2> QED BY <1>1, <1>2, <2>2
<1> QED BY <1>1, <1>2

\* What is committed stays until the next commit is over,
LEMMA DbStays ==
  ASSUME IInv, CleanInv, Sound, SoundInv, SnapshotInv, DataTyped', NEW t \in Txns, Step(t),
         ~Start(t), ~CommitDone(t)
  PROVE  Db' = Db
<1>1. Now' = Now  BY NowStays
<1>2. Apart(t, Now, Now - 1, 0)  BY CommittedApart
<1>3. Db' = [r \in Rows |-> IF VisibleThen(Now, 0, r) THEN ReadingThen(Now - 1, 0, r) ELSE Absent]
  BY <1>1, TablesThen
<1>4. \A r \in Rows : (IF VisibleThen(Now, 0, r) THEN ReadingThen(Now - 1, 0, r) ELSE Absent)
                        = IF Visible(Now, 0, r) THEN ValueOf(Now - 1, 0, r) ELSE Absent
  BY <1>2, TableStays
<1> QED BY <1>3, <1>4 DEF Db, CommittedTable

\* and what a transaction sees while others go on.
LEMMA ViewStays ==
  ASSUME IInv, CleanInv, Sound, SoundInv, SnapshotInv, DataTyped', NEW t \in Txns, Step(t),
         NEW u \in Txns, u # t
  PROVE  Views'[u] = Views[u]
<1>1. pc'[u] = pc[u] /\ start_time'[u] = start_time[u] /\ transaction_id'[u] = transaction_id[u]
  BY OthersStay
<1>2. Views'[u] = [r \in Rows |-> IF pc[u] = "running" /\ VisibleThen(start_time[u], transaction_id[u], r)
                                  THEN ReadingThen(start_time[u], transaction_id[u], r) ELSE Absent]
  BY <1>1, TablesThen
<1>3. Views[u] = [r \in Rows |-> IF pc[u] = "running" /\ Visible(start_time[u], transaction_id[u], r)
                                 THEN ValueOf(start_time[u], transaction_id[u], r) ELSE Absent]
  BY DEF Views, View
<1>4. CASE pc[u] # "running"  BY <1>2, <1>3, <1>4
<1>5. CASE pc[u] = "running"
  <2>1. Apart(t, start_time[u], start_time[u], transaction_id[u])  BY <1>5, ReaderApart
  <2>2. \A r \in Rows :
          (IF VisibleThen(start_time[u], transaction_id[u], r)
           THEN ReadingThen(start_time[u], transaction_id[u], r) ELSE Absent)
          = IF Visible(start_time[u], transaction_id[u], r)
            THEN ValueOf(start_time[u], transaction_id[u], r) ELSE Absent
    BY <2>1, TableStays
  <2> QED BY <1>2, <1>3, <1>5, <2>2
<1> QED BY <1>4, <1>5

-----------------------------------------------------------------------------
(* Every step keeps the invariant: entries, marks and rows                 *)

\* Who does something is not over.
LEMMA DoneRests ==
  ASSUME NEW t \in Txns, Step(t)
  PROVE  pc[t] # "done"
BY DEF Step, Start, Insert, Delete, Update, CommitDirectly, CommitThroughWAL, WriteToWAL, TakeTimestamp,
   CommitEntry, CommitDone, FlushFails, Rollback, RollbackEntry, Leave, PopCleanup, CleanupEntry, CleanupDone,
   StartCheckpoint, FinishCheckpoint, CanChange, Running

\* What a step leaves of the undo buffers.
LEMMA UndoIs ==
  ASSUME IInv, CleanInv, Sound, SoundInv, NEW t \in Txns, Step(t), NEW u \in Txns
  PROVE  \/ undo'[u] = undo[u]
         \/ undo'[u] = <<>> /\ CleanupDone(t) /\ pc[u] \in EndedPcs
         \/ /\ u = t /\ pc[t] \in {"running", "wal"} /\ DOMAIN undo[t] \subseteq DOMAIN undo'[t]
            /\ \A i \in DOMAIN undo[t] : undo'[t][i] = undo[t][i]
<1>0. DataTyped /\ TxnTyped /\ ManagerTyped /\ PlaceInv /\ WalInv  BY DEF CleanInv, SoundInv
<1>1. ASSUME NEW kinds, Recorded(t, kinds), pc[t] \in {"running", "wal"}
      PROVE  \/ undo'[u] = undo[u]
             \/ /\ u = t /\ pc[t] \in {"running", "wal"} /\ DOMAIN undo[t] \subseteq DOMAIN undo'[t]
                /\ \A i \in DOMAIN undo[t] : undo'[t][i] = undo[t][i]
  <2>1. CASE u # t  BY <1>0, <1>1, <2>1, RecordedIs
  <2>2. CASE u = t
    <3>1. /\ \A i \in DOMAIN undo[t] : undo'[t][i] = undo[t][i]
          /\ DOMAIN undo[t] = 1 .. Len(undo[t]) /\ DOMAIN undo'[t] = 1 .. Len(undo'[t])
          /\ Len(undo[t]) \in Nat /\ Len(undo'[t]) \in {Len(undo[t]), Len(undo[t]) + 1}
      BY <1>0, <1>1, RecordedIs
    <3>2. DOMAIN undo[t] \subseteq DOMAIN undo'[t]  BY <3>1
    <3> QED BY <1>1, <2>2, <3>1, <3>2
  <2> QED BY <2>1, <2>2
<1>2. CASE Delete(t) \/ Update(t)
  <2>1. pc[t] = "running" /\ (Recorded(t, {"delete"}) \/ Recorded(t, {"update"}))
    BY <1>0, <1>2, DeleteFrame, UpdateFrame
  <2> QED BY <1>1, <2>1
<1>3. CASE CommitDirectly(t) \/ WriteToWAL(t)
  <2>1. Recorded(t, {"append"}) /\ pc[t] \in {"running", "wal"}
    BY <1>0, <1>3, AppendRecorded, CommitDirectlyFrame DEF WriteToWAL
  <2> QED BY <1>1, <2>1
<1>4. CASE CleanupDone(t)
  <2>1. undo' = [w \in Txns |-> IF w \in ToSet(work.txns) THEN <<>> ELSE undo[w]]  BY <1>4 DEF CleanupDone
  <2>2. CASE u \in ToSet(work.txns)
    <3>1. pc[u] \in EndedPcs  BY <1>0, <2>2 DEF PlaceInv
    <3> QED BY <1>4, <2>1, <2>2, <3>1
  <2> QED BY <2>1, <2>2
<1>5. CASE Start(t) \/ Insert(t) \/ CommitThroughWAL(t) \/ TakeTimestamp(t) \/ CommitEntry(t) \/ CommitDone(t)
  BY <1>5 DEF Start, Insert, CommitThroughWAL, TakeTimestamp, CommitEntry, CommitDone
<1>6. CASE FlushFails(t) \/ Rollback(t) \/ RollbackEntry(t)
  BY <1>6 DEF FlushFails, Rollback, RollbackEntry
<1>7. CASE Leave(t) \/ PopCleanup(t) \/ CleanupEntry(t) \/ StartCheckpoint(t) \/ FinishCheckpoint(t)
  BY <1>7 DEF Leave, PopCleanup, CleanupEntry, StartCheckpoint, FinishCheckpoint
<1> QED BY <1>2, <1>3, <1>4, <1>5, <1>6, <1>7 DEF Step

\* Who is undecided keeps his entries, and, but for t, how many he has done.
LEMMA UndecidedKeeps ==
  ASSUME IInv, CleanInv, Sound, SoundInv, NEW t \in Txns, Step(t), NEW u \in Txns, pc[u] \in Undecided
  PROVE  /\ DOMAIN undo[u] \subseteq DOMAIN undo'[u] /\ \A i \in DOMAIN undo[u] : undo'[u][i] = undo[u][i]
         /\ u # t => undo'[u] = undo[u] /\ done'[u] = done[u]
<1>0. DataTyped /\ TxnTyped /\ ManagerTyped /\ PlaceInv /\ WalInv  BY DEF CleanInv, SoundInv
<1>1. pc[u] \notin EndedPcs  BY DEF Undecided, Live, EndedPcs
<1>2. /\ DOMAIN undo[u] \subseteq DOMAIN undo'[u] /\ \A i \in DOMAIN undo[u] : undo'[u][i] = undo[u][i]
      /\ u # t => undo'[u] = undo[u]
  BY <1>1, UndoIs
<1>3. ASSUME u # t PROVE done'[u] = done[u]
  <2>1. CASE CleanupEntry(t)
    <3>1. PICK w \in ToSet(work.txns) : w \in Txns /\ done' = [done EXCEPT ![w] = @ + 1]
      BY <1>0, <2>1, CleanupEntryIs
    <3>2. pc[w] \in EndedPcs  BY <1>0, <3>1 DEF PlaceInv
    <3> QED BY <1>0, <1>1, <3>1, <3>2 DEF TxnTyped
  <2> QED BY <1>0, <1>3, <2>1, FieldsStay
<1> QED BY <1>2, <1>3

\* Who is undecided after a step was so before, or starts.
LEMMA UndecidedWas ==
  ASSUME IInv, CleanInv, Sound, SoundInv, NEW t \in Txns, Step(t), NEW u \in Txns, pc'[u] \in Undecided
  PROVE  \/ pc[u] \in Undecided
         \/ u = t /\ pc[t] = "new" /\ Start(t)
<1>0. WalInv /\ pc \in [Txns -> Pcs]  BY DEF SoundInv, IInv, Typed
<1>1. CASE pc' = pc  BY <1>1
<1>2. CASE pc' # pc
  <2>1. CASE u # t
    <3>1. pc'[u] = pc[u]  BY <2>1, OthersStay
    <3> QED BY <3>1
  <2>2. CASE u = t  BY <1>0, <1>2, <2>2, SoundMove DEF Undecided, Live
  <2> QED BY <2>1, <2>2
<1> QED BY <1>1, <1>2

\* The ids of transactions stay while they are undecided; commits get theirs.
LEMMA UndecidedFields ==
  ASSUME IInv, CleanInv, Sound, SoundInv, NEW t \in Txns, Step(t), NEW u \in Txns,
         pc[u] \in Undecided, pc'[u] \in Undecided
  PROVE  /\ start_time'[u] = start_time[u] /\ transaction_id'[u] = transaction_id[u]
         /\ pc[u] = "commit" => pc'[u] = "commit" /\ commit_id'[u] = commit_id[u]
<1>0. WalInv /\ pc \in [Txns -> Pcs] /\ commit_id \in [Txns -> Nat]  BY DEF SoundInv, IInv, Typed
<1>1. CASE u # t  BY <1>1, OthersStay
<1>2. CASE u = t
  <2>1. ~Start(t)  BY <1>2 DEF Start, Undecided, Live
  <2>2. ~Leave(t)
    <3>1. Leave(t) => pc'[t] = "cleanup"  BY <1>0 DEF Leave, Goto
    <3> QED BY <1>2, <3>1 DEF Undecided, Live
  <2>3. start_time'[u] = start_time[u] /\ transaction_id'[u] = transaction_id[u]
    BY <1>0, <1>2, <2>1, <2>2, FieldsStay
  <2>4. ASSUME pc[u] = "commit" PROVE pc'[u] = "commit" /\ commit_id'[u] = commit_id[u]
    <3>1. ~CommitDirectly(t) /\ ~TakeTimestamp(t)  BY <1>2, <2>4 DEF CommitDirectly, TakeTimestamp, Running
    <3>2. commit_id' = commit_id  BY <1>0, <3>1, FieldsStay
    <3>3. CASE pc' = pc  BY <2>4, <3>2, <3>3
    <3>4. CASE pc' # pc
      <4>1. pc'[t] = "remove"  BY <1>0, <1>2, <2>4, <3>4, SoundMove
      <4> QED BY <1>2, <4>1 DEF Undecided, Live
    <3> QED BY <3>3, <3>4
  <2> QED BY <2>3, <2>4
<1> QED BY <1>1, <1>2

\* Old rows stay old;
LEMMA OldStays ==
  ASSUME IInv, CleanInv, Sound, SoundInv, NEW t \in Txns, Step(t), NEW r \in Rows, Old(r)
  PROVE  Old(r)' /\ r \in 1 .. count /\ Vec(r)' = Vec(r)
<1>0. /\ DataTyped /\ TxnTyped /\ IdsInv /\ TimesInv /\ WalInv /\ AppendInv /\ RoomInv /\ PendingInv
      /\ RipeInv /\ count \in Nat /\ r \in Nat /\ r >= 1 /\ inserted[r] \in Nat /\ last_commit \in Nat
      /\ inserted[r] <= last_commit /\ r <= count
  <2>1. DataTyped /\ ManagerTyped  BY DEF CleanInv
  <2>2. r \in Nat /\ r >= 1  BY DEF Rows
  <2>3. inserted[r] \in Nat /\ count \in Nat /\ last_commit \in Nat  BY <2>1 DEF DataTyped, ManagerTyped
  <2> QED BY <2>2, <2>3 DEF CleanInv, SoundInv, Old
<1>1. r \in 1 .. count  BY <1>0
<1>2. r <= count'
  <2>1. count' = count \/ (count' = count + local[t] /\ local[t] \in Nat)
    BY <1>0, AppendsFrame, GrowIs DEF CleanInv
  <2> QED BY <1>0, <2>1
<1>3. last_commit' \in Nat /\ last_commit <= last_commit'  BY <1>0, LastGrows
<1>4. inserted'[r] <= last_commit
  <2>1. CASE /\ CommitEntry(t) /\ done[t] + 1 \in Appends(t) /\ r \in undo[t][done[t] + 1].rows
             /\ inserted'[r] = commit_id[t]
    <3>1. pc[t] = "commit" /\ pc[t] \in Live  BY <2>1 DEF CommitEntry, Live
    <3>2. ~(done[t] + 1 <= done[t])  BY <1>0 DEF TxnTyped
    <3>3. inserted[r] = transaction_id[t]  BY <1>0, <2>1, <3>1, <3>2 DEF PendingInv
    <3>4. /\ last_commit < clock /\ clock <= TRANSACTION_ID_START /\ TRANSACTION_ID_START <= transaction_id[t]
          /\ clock \in Nat /\ TRANSACTION_ID_START \in Nat /\ transaction_id[t] \in Nat
      BY <1>0, <3>1, IdsAre
    <3> QED BY <1>0, <3>3, <3>4
  <2>2. CASE inserted'[r] = 0  BY <1>0, <2>2
  <2>3. CASE inserted'[r] = inserted[r]  BY <1>0, <2>3
  <2> QED BY <1>0, <1>1, <2>1, <2>2, <2>3, InsertedIs
<1>5. inserted'[r] <= last_commit'
  <2>1. inserted'[r] \in Nat  BY DataTypedKept, <1>0 DEF CleanInv, DataTyped
  <2> QED BY <1>0, <1>3, <1>4, <2>1
<1>6. Vec(r)' = Vec(r)  BY <1>0, <1>1, VecsStay
<1> QED BY <1>1, <1>2, <1>5, <1>6 DEF Old

\* rows somebody is committing are not old,
LEMMA PendingIsNew ==
  ASSUME IInv, CleanInv, SoundInv, NEW u \in Txns, pc[u] \in {"written", "commit"}, NEW i \in Appends(u),
         NEW r \in undo[u][i].rows
  PROVE  ~Old(r)
<1>0. /\ IdsInv /\ TimesInv /\ PendingInv /\ pc[u] \in Live /\ commit_id[u] \in Nat /\ last_commit \in Nat
  BY DEF CleanInv, SoundInv, IInv, Typed, ManagerTyped, Live
<1>1. /\ last_commit < clock /\ clock <= TRANSACTION_ID_START /\ TRANSACTION_ID_START <= transaction_id[u]
      /\ clock \in Nat /\ TRANSACTION_ID_START \in Nat /\ transaction_id[u] \in Nat
  BY <1>0, IdsAre
<1>2. inserted[r] = transaction_id[u] \/ (pc[u] = "commit" /\ inserted[r] = commit_id[u])
  BY <1>0 DEF PendingInv
<1>3. pc[u] = "commit" => last_commit < commit_id[u]  BY <1>0 DEF TimesInv
<1> QED BY <1>0, <1>1, <1>2, <1>3 DEF Old

\* and those a running transaction sees are old.
LEMMA SeenIsOld ==
  ASSUME IInv, CleanInv, SoundInv, NEW t \in Txns, pc[t] = "running", NEW r \in Seen(t)
  PROVE  Old(r) /\ r \in Rows
<1>0. /\ IdsInv /\ TimesInv /\ pc[t] \in Live /\ r \in Rows /\ r <= count
      /\ start_time[t] \in Nat /\ start_time[t] < clock /\ t \in active
      /\ inserted[r] < start_time[t] \/ inserted[r] = transaction_id[t]
  BY DEF CleanInv, SoundInv, TxnTyped, TimesInv, Live, Seen, Visible, UseVersion, ActiveInv
<1>1. /\ inserted[r] \in Nat
      /\ \/ inserted[r] <= last_commit
         \/ \E u \in Txns : /\ pc[u] \in {"written", "commit"}
                            /\ \E i \in Appends(u) : r \in undo[u][i].rows
                            /\ \/ inserted[r] = transaction_id[u]
                               \/ pc[u] = "commit" /\ inserted[r] = commit_id[u]
  BY <1>0, InsertIdIs
<1>2. ASSUME NEW u \in Txns, pc[u] \in {"written", "commit"},
             inserted[r] = transaction_id[u] \/ (pc[u] = "commit" /\ inserted[r] = commit_id[u])
      PROVE  FALSE
  <2>1. u # t /\ pc[u] \in Live  BY <1>2 DEF Live
  <2>2. transaction_id[u] # transaction_id[t]  BY <1>0, <2>1 DEF IdsInv
  <2>3. /\ clock \in Nat /\ clock <= TRANSACTION_ID_START /\ TRANSACTION_ID_START \in Nat
        /\ TRANSACTION_ID_START <= transaction_id[u] /\ TRANSACTION_ID_START <= transaction_id[t]
        /\ transaction_id[u] \in Nat /\ transaction_id[t] \in Nat
        /\ commit_id[u] < clock /\ commit_id[u] \in Nat
    BY <1>0, <2>1, IdsAre
  <2>4. pc[u] = "commit" => start_time[t] < commit_id[u]
    BY <1>0, <2>1 DEF TimesInv, StampedPcs
  <2>5. CASE inserted[r] = transaction_id[u]  BY <1>0, <2>2, <2>3, <2>5
  <2>6. CASE pc[u] = "commit" /\ inserted[r] = commit_id[u]  BY <1>0, <2>3, <2>4, <2>6
  <2> QED BY <1>2, <2>5, <2>6
<1> QED BY <1>0, <1>1, <1>2 DEF Old

\* A mark stays until it is taken back, or the commit is over.
LEMMA MarkingStays ==
  ASSUME IInv, CleanInv, Sound, SoundInv, SnapshotInv, NEW t \in Txns, Step(t),
         NEW u \in Txns, NEW i, Marking(u, i), NEW r \in undo[u][i].rows
  PROVE  \/ Marking(u, i)' /\ undo'[u][i] = undo[u][i]
         \/ u = t /\ RollbackEntry(t) /\ deleted'[r] = NOT_DELETED_ID
         \/ u = t /\ CommitDone(t) /\ deleted'[r] = commit_id[t] /\ last_commit' = commit_id[t]
<1>0. /\ DataTyped /\ TxnTyped /\ WalInv /\ DoneInv /\ DeleteInv /\ pc \in [Txns -> Pcs]
      /\ done \in [Txns -> Nat]
  BY DEF CleanInv, SoundInv, IInv, Typed, TxnTyped
<1>1. /\ pc[u] \in Undecided /\ i \in Deletes(u) /\ (pc[u] = "rollback" => i <= done[u])
      /\ i \in DOMAIN undo[u] /\ undo[u][i].kind = "delete"
  BY DEF Marking, Undecided, Deletes
<1>2. i \in Nat /\ i > 0 /\ i <= Len(undo[u]) /\ Len(undo[u]) \in Nat /\ done[u] \in Nat  BY <1>0, <1>1, EntryIndex
<1>3. i \in DOMAIN undo'[u] /\ undo'[u][i] = undo[u][i]  BY <1>1, UndecidedKeeps
<1>4. i \in Deletes(u)'  BY <1>1, <1>3 DEF Deletes
<1>5. CASE u # t
  <2>1. pc'[u] = pc[u] /\ done'[u] = done[u]  BY <1>1, <1>5, OthersStay, UndecidedKeeps
  <2> QED BY <1>1, <1>3, <1>4, <2>1 DEF Marking, Undecided
<1>6. CASE u = t /\ pc' = pc
  <2>1. CASE pc[t] # "rollback"  BY <1>1, <1>3, <1>4, <1>6, <2>1 DEF Marking, Undecided
  <2>2. CASE pc[t] = "rollback"
    <3>1. CASE RollbackEntry(t)
      <4>1. done' = [done EXCEPT ![t] = @ - 1] /\ done[t] > 0  BY <3>1 DEF RollbackEntry
      <4>2. CASE i = done[t]
        <5>1. deleted' = [x \in Rows |-> IF x \in undo[t][i].rows THEN NOT_DELETED_ID ELSE deleted[x]]
          BY <1>1, <1>6, <3>1, <4>2 DEF RollbackEntry
        <5>2. r \in Rows  BY <1>0, <1>1, <1>6 DEF DeleteInv, Undecided
        <5> QED BY <1>6, <3>1, <5>1, <5>2
      <4>3. CASE i # done[t]
        <5>1. i <= done'[t]  BY <1>0, <1>1, <1>2, <1>6, <2>2, <4>1, <4>3
        <5> QED BY <1>1, <1>3, <1>4, <1>6, <5>1 DEF Marking, Undecided
      <4> QED BY <4>2, <4>3
    <3>2. CASE ~RollbackEntry(t)
      <4>1. ~CommitEntry(t) /\ ~CleanupEntry(t) /\ ~Rollback(t) /\ ~Leave(t)
        <5>1. ~Leave(t)
          <6>1. Leave(t) => pc'[t] = "cleanup"  BY <1>0 DEF Leave, Goto
          <6> QED BY <1>6, <2>2, <6>1
        <5> QED BY <2>2, <5>1 DEF CommitEntry, CleanupEntry, Rollback
      <4>2. done' = done  BY <1>0, <3>2, <4>1, FieldsStay
      <4> QED BY <1>1, <1>3, <1>4, <1>6, <4>2 DEF Marking, Undecided
    <3> QED BY <3>1, <3>2
  <2> QED BY <2>1, <2>2
<1>7. CASE u = t /\ pc' # pc
  <2>1. CASE Rollback(t)
    <3>1. pc'[t] = "rollback" /\ done'[t] = Len(undo[t])  BY <1>0, <2>1 DEF Rollback, GotoRollback, Goto
    <3> QED BY <1>1, <1>2, <1>3, <1>4, <1>7, <3>1 DEF Marking, Live
  <2>2. CASE CommitDone(t)
    <3>1. pc[t] = "commit" /\ done[t] = Len(undo[t]) /\ deleted' = deleted /\ last_commit' = commit_id[t]
      BY <2>2 DEF CommitDone, versionVars
    <3>2. deleted[r] = commit_id[t]
      BY <1>1, <1>2, <1>7, <3>1 DEF SnapshotInv, StampedMarksInv
    <3> QED BY <1>7, <2>2, <3>1, <3>2
  <2>3. CASE Leave(t)
    <3>1. pc[t] = "rollback" /\ done[t] = 0  BY <1>1, <1>7, <2>3 DEF Leave, Undecided
    <3> QED BY <1>1, <1>2, <1>7, <3>1
  <2>4. CASE ~Rollback(t) /\ ~CommitDone(t) /\ ~Leave(t)
    <3>1. pc'[t] \in {"failed", "commit", "wal", "written"}
      BY <1>0, <1>1, <1>7, <2>4, SoundMove DEF Undecided, Live
    <3> QED BY <1>3, <1>4, <1>7, <3>1 DEF Marking, Live
  <2> QED BY <2>1, <2>2, <2>3, <2>4
<1> QED BY <1>5, <1>6, <1>7

\* Whatever is marked after a step is old, and marked for a reason.
LEMMA MarkKept ==
  ASSUME IInv, CleanInv, Sound, SoundInv, SnapshotInv, NEW t \in Txns, Step(t)
  PROVE  MarkInv'
<1>0. /\ DataTyped /\ TxnTyped /\ WalInv /\ AppendInv /\ TimesInv /\ IdsInv /\ DeleteInv
      /\ last_commit \in Nat /\ last_commit' \in Nat /\ last_commit <= last_commit' /\ DataTyped'
  <2>1. /\ DataTyped /\ TxnTyped /\ WalInv /\ AppendInv /\ TimesInv /\ IdsInv /\ DeleteInv
        /\ ManagerTyped /\ DoneInv /\ LinkInv
    BY DEF CleanInv, SoundInv
  <2> QED BY <2>1, LastGrows, DataTypedKept DEF ManagerTyped
<1> SUFFICES ASSUME NEW r \in Rows, deleted'[r] # NOT_DELETED_ID
             PROVE  /\ Old(r)'
                    /\ \/ deleted'[r] <= last_commit'
                       \/ \E u \in Txns : \E i \in Deletes(u)' : Marking(u, i)' /\ r \in undo'[u][i].rows
  BY DEF MarkInv
<1>1. ASSUME deleted[r] # NOT_DELETED_ID, deleted'[r] = deleted[r] \/ CommitEntry(t)
      PROVE  /\ Old(r)'
             /\ \/ deleted'[r] <= last_commit'
                \/ \E u \in Txns : \E i \in Deletes(u)' : Marking(u, i)' /\ r \in undo'[u][i].rows
  <2>1. Old(r) /\ \/ deleted[r] <= last_commit
                  \/ \E u \in Txns : \E i \in Deletes(u) : Marking(u, i) /\ r \in undo[u][i].rows
    BY <1>1 DEF SnapshotInv, MarkInv
  <2>2. Old(r)'  BY <2>1, OldStays
  <2>3. CASE \E u \in Txns : \E i \in Deletes(u) : Marking(u, i) /\ r \in undo[u][i].rows
    <3>1. PICK u \in Txns : \E i \in Deletes(u) : Marking(u, i) /\ r \in undo[u][i].rows  BY <2>3
    <3>2. PICK i \in Deletes(u) : Marking(u, i) /\ r \in undo[u][i].rows  BY <3>1
    <3>3. \/ Marking(u, i)' /\ undo'[u][i] = undo[u][i]
          \/ deleted'[r] = commit_id[t] /\ last_commit' = commit_id[t]
      BY <1>1, <3>2, MarkingStays
    <3>4. CASE Marking(u, i)' /\ undo'[u][i] = undo[u][i]
      <4>1. i \in Deletes(u)'  BY <3>4 DEF Marking
      <4> QED BY <2>2, <3>2, <3>4, <4>1
    <3>5. CASE deleted'[r] = commit_id[t] /\ last_commit' = commit_id[t]  BY <1>0, <2>2, <3>5
    <3> QED BY <3>3, <3>4, <3>5
  <2>4. CASE deleted[r] <= last_commit /\ deleted'[r] = deleted[r]
    <3>1. deleted[r] \in Nat  BY <1>0 DEF DataTyped
    <3> QED BY <1>0, <2>2, <2>4, <3>1
  <2>5. CASE deleted[r] <= last_commit /\ deleted'[r] # deleted[r]
    <3>1. CommitEntry(t)  BY <1>1, <2>5
    <3>2. ~Delete(t)  BY <3>1 DEF CommitEntry, Delete, CanChange, Running
    <3>3. Marking(t, done[t] + 1) /\ r \in undo[t][done[t] + 1].rows
      <4>1. CommitEntry(t) => ~RollbackEntry(t)  BY DEF CommitEntry, RollbackEntry
      <4> QED BY <1>0, <2>5, <3>1, <3>2, <4>1, DeletedIs
    <3>4. deleted[r] = transaction_id[t] \/ (pc[t] = "commit" /\ deleted[r] = commit_id[t])
      BY <1>0, <3>3 DEF Marking, DeleteInv
    <3>5. pc[t] = "commit" /\ pc[t] \in Live  BY <3>1 DEF CommitEntry, Live
    <3>6. /\ last_commit < clock /\ clock <= TRANSACTION_ID_START /\ TRANSACTION_ID_START <= transaction_id[t]
          /\ clock \in Nat /\ TRANSACTION_ID_START \in Nat /\ transaction_id[t] \in Nat
          /\ last_commit < commit_id[t] /\ commit_id[t] \in Nat
      BY <1>0, <3>5, IdsAre DEF TimesInv
    <3> QED BY <1>0, <2>5, <3>4, <3>6
  <2> QED BY <2>1, <2>3, <2>4, <2>5
<1>2. CASE Delete(t)
  <2>1. CASE deleted' = deleted  BY <1>1, <2>1
  <2>2. ASSUME NEW fresh \in SUBSET Rows, NEW v \in Nat \ {0}, fresh \subseteq Seen(t), pc' = pc,
               deleted' = [x \in Rows |-> IF x \in fresh THEN transaction_id[t] ELSE deleted[x]],
               Record(t, [kind |-> "delete", at |-> v, rows |-> fresh])
        PROVE  /\ Old(r)'
               /\ \/ deleted'[r] <= last_commit'
                  \/ \E u \in Txns : \E i \in Deletes(u)' : Marking(u, i)' /\ r \in undo'[u][i].rows
    <3> DEFINE rec == [kind |-> "delete", at |-> v, rows |-> fresh]
    <3>1. CASE r \notin fresh  BY <1>1, <2>2, <3>1
    <3>2. CASE r \in fresh
      <4>1. pc[t] = "running"  BY <1>0, <1>2, DeleteFrame
      <4>2. Old(r)'  BY <2>2, <3>2, <4>1, SeenIsOld, OldStays
      <4>3. rec \in Records /\ Record(t, rec) /\ rec.rows = fresh /\ rec.kind = "delete"
        <5>1. fresh \in SUBSET Nat  BY ConstantTypes
        <5> QED BY <2>2, <5>1 DEF Records
      <4> HIDE DEF rec
      <4>4. /\ undo'[t][Len(undo[t]) + 1] = rec /\ DOMAIN undo'[t] = 1 .. Len(undo[t]) + 1
            /\ Len(undo[t]) \in Nat
        BY <1>0, <4>3, RecordIs
      <4>5. Len(undo[t]) + 1 \in DOMAIN undo'[t]  BY <4>4
      <4>6. Len(undo[t]) + 1 \in Deletes(t)' /\ r \in undo'[t][Len(undo[t]) + 1].rows
        BY <3>2, <4>3, <4>4, <4>5 DEF Deletes
      <4>7. \E i \in Deletes(t)' : Marking(t, i)' /\ r \in undo'[t][i].rows
        <5>1. PICK i \in Deletes(t)' : i = Len(undo[t]) + 1 /\ r \in undo'[t][i].rows  BY <4>6
        <5>2. Marking(t, i)'  BY <2>2, <4>1, <5>1 DEF Marking, Live
        <5> QED BY <5>1, <5>2
      <4> QED BY <4>2, <4>7
    <3> QED BY <3>1, <3>2
  <2> QED BY <1>0, <1>2, <2>1, <2>2, DeleteMarks
<1>3. CASE ~Delete(t)
  <2>1. CASE deleted' = deleted  BY <1>1, <2>1
  <2>2. CASE /\ CommitEntry(t) /\ Marking(t, done[t] + 1)
             /\ deleted' = [x \in Rows |-> IF x \in undo[t][done[t] + 1].rows THEN commit_id[t] ELSE deleted[x]]
    <3>1. CASE r \in undo[t][done[t] + 1].rows
      <4>1. deleted[r] = transaction_id[t] \/ (pc[t] = "commit" /\ deleted[r] = commit_id[t])
        BY <1>0, <2>2, <3>1 DEF Marking, DeleteInv
      <4>2. deleted[r] # NOT_DELETED_ID
        <5>1. pc[t] \in Live /\ pc[t] = "commit"  BY <2>2 DEF CommitEntry, Live
        <5> QED BY <1>0, <4>1, <5>1, IdsAre
      <4> QED BY <1>1, <2>2, <4>2
    <3>2. CASE r \notin undo[t][done[t] + 1].rows  BY <1>1, <2>2, <3>2
    <3> QED BY <3>1, <3>2
  <2>3. CASE /\ RollbackEntry(t) /\ Marking(t, done[t])
             /\ deleted' = [x \in Rows |-> IF x \in undo[t][done[t]].rows THEN NOT_DELETED_ID ELSE deleted[x]]
    BY <1>1, <2>3
  <2> QED BY <1>0, <1>3, <2>1, <2>2, <2>3, DeletedIs
<1> QED BY <1>2, <1>3

\* A commit gives its marks its timestamp, and nobody takes it away.
LEMMA StampedMarksKept ==
  ASSUME IInv, CleanInv, Sound, SoundInv, SnapshotInv, NEW t \in Txns, Step(t)
  PROVE  StampedMarksInv'
<1>0. /\ DataTyped /\ TxnTyped /\ WalInv /\ DoneInv /\ AppendInv /\ IdsInv /\ TimesInv /\ DeleteInv
      /\ pc \in [Txns -> Pcs] /\ done \in [Txns -> Nat] /\ commit_id \in [Txns -> Nat]
  BY DEF CleanInv, SoundInv, IInv, Typed, TxnTyped
<1> SUFFICES ASSUME NEW u \in Txns, pc'[u] = "commit", NEW i \in Deletes(u)', i <= done'[u],
                    NEW r \in undo'[u][i].rows
             PROVE  deleted'[r] = commit_id'[u]
  BY DEF StampedMarksInv
<1>1. pc[u] \in Undecided
  <2>1. ~(pc[t] = "new" /\ Start(t) /\ u = t)
    <3>1. Start(t) => pc'[t] = "running"  BY <1>0 DEF Start, Goto
    <3> QED BY <3>1
  <2> QED BY <2>1, UndecidedWas DEF Undecided, Live
<1>2. i \in Deletes(u) /\ undo'[u][i] = undo[u][i] /\ i \in Nat /\ i > 0
  <2>1. ~(u = t /\ Delete(t))
    <3>1. Delete(t) => pc'[t] # "commit"  BY <1>0, DeleteFrame
    <3> QED BY <3>1
  <2>2. i \in Deletes(u) /\ undo'[u][i] = undo[u][i]  BY <2>1, MarkingIs
  <2>3. i \in DOMAIN undo[u]  BY <2>2 DEF Deletes
  <2> QED BY <1>0, <2>2, <2>3, EntryIndex
<1>3. pc[u] = "commit"
  <2>1. SUFFICES ASSUME pc[u] # "commit" PROVE FALSE
    OBVIOUS
  <2>2. u = t  BY <2>1, OthersStay
  <2>3. pc[t] \in {"running", "written"} /\ (CommitDirectly(t) \/ TakeTimestamp(t))
    BY <1>0, <2>1, <2>2, SoundMove
  <2>4. done' = done  BY <1>0, <2>3, SoundCommit
  <2>5. done[t] = 0  BY <1>0, <2>3 DEF DoneInv
  <2> QED BY <1>2, <2>2, <2>4, <2>5
<1>4. commit_id'[u] = commit_id[u]  BY <1>1, <1>3, UndecidedFields DEF Undecided, Live
<1>5. Marking(u, i) /\ r \in undo[u][i].rows  BY <1>2, <1>3 DEF Marking, Live
<1>6. CASE CommitEntry(t) /\ t = u
  <2>1. done'[t] = done[t] + 1 /\ pc[t] = "commit"  BY <1>0, <1>6 DEF CommitEntry
  <2>2. CASE i = done[t] + 1
    <3>1. deleted' = [x \in Rows |-> IF x \in undo[t][i].rows THEN commit_id[t] ELSE deleted[x]]
      <4>1. undo[t][i].kind = "delete"  BY <1>2, <1>6 DEF Deletes
      <4> QED BY <1>6, <2>2, <4>1 DEF CommitEntry, Mark
    <3>2. r \in Rows  BY <1>0, <1>5 DEF Marking, DeleteInv
    <3> QED BY <1>4, <1>5, <1>6, <3>1, <3>2
  <2>3. CASE i # done[t] + 1
    <3>1. i <= done[t]  BY <1>0, <1>2, <1>6, <2>1, <2>3
    <3>2. deleted[r] = commit_id[t]  BY <1>2, <1>3, <1>5, <1>6, <3>1 DEF SnapshotInv, StampedMarksInv
    <3>3. deleted'[r] \in {deleted[r], commit_id[t]}
      <4>1. ~Delete(t) /\ ~RollbackEntry(t)  BY <2>1 DEF Delete, CanChange, Running, RollbackEntry
      <4>2. r \in Rows  BY <1>0, <1>5 DEF Marking, DeleteInv
      <4> QED BY <1>0, <4>1, <4>2, DeletedIs
    <3> QED BY <1>4, <1>6, <3>2, <3>3
  <2> QED BY <2>2, <2>3
<1>7. CASE ~(CommitEntry(t) /\ t = u)
  <2>1. i <= done[u]
    <3>1. CASE u # t
      <4>1. done'[u] = done[u]  BY <1>1, <3>1, UndecidedKeeps
      <4> QED BY <4>1
    <3>2. CASE u = t
      <4>1. ~CleanupEntry(t) /\ ~Rollback(t) /\ ~RollbackEntry(t)
        BY <1>3, <3>2 DEF CleanupEntry, Rollback, RollbackEntry
      <4>2. ~Leave(t)  BY <1>3, <3>2 DEF Leave
      <4>3. done' = done  BY <1>0, <1>7, <3>2, <4>1, <4>2, FieldsStay
      <4> QED BY <4>3
    <3> QED BY <3>1, <3>2
  <2>2. deleted[r] = commit_id[u] /\ r \in Rows
    BY <1>0, <1>2, <1>3, <1>5, <2>1 DEF SnapshotInv, StampedMarksInv, DeleteInv, Marking
  <2>3. deleted[r] # NOT_DELETED_ID
    <3>1. pc[u] \in Live  BY <1>3 DEF Live
    <3> QED BY <1>0, <2>2, <3>1, IdsAre
  <2>4. CASE Delete(t)
    <3>1. \/ deleted' = deleted
          \/ \E fresh \in SUBSET Rows :
               /\ \A x \in fresh : deleted[x] = NOT_DELETED_ID
               /\ deleted' = [x \in Rows |-> IF x \in fresh THEN transaction_id[t] ELSE deleted[x]]
      BY <1>0, <2>4, DeleteMarks
    <3> QED BY <1>4, <2>2, <2>3, <3>1
  <2>5. CASE ~Delete(t)
    <3>1. CASE deleted' = deleted  BY <1>4, <2>2, <3>1
    <3>2. CASE /\ CommitEntry(t) /\ Marking(t, done[t] + 1)
               /\ deleted' = [x \in Rows |-> IF x \in undo[t][done[t] + 1].rows THEN commit_id[t] ELSE deleted[x]]
      <4>1. r \notin undo[t][done[t] + 1].rows  BY <1>0, <1>5, <1>7, <3>2, MarkedOnce
      <4> QED BY <1>4, <2>2, <3>2, <4>1
    <3>3. CASE /\ RollbackEntry(t) /\ Marking(t, done[t])
               /\ deleted' = [x \in Rows |-> IF x \in undo[t][done[t]].rows THEN NOT_DELETED_ID ELSE deleted[x]]
      <4>1. t # u  BY <1>3, <3>3 DEF RollbackEntry
      <4>2. r \notin undo[t][done[t]].rows  BY <1>0, <1>5, <3>3, <4>1, MarkedOnce
      <4> QED BY <1>4, <2>2, <3>3, <4>2
    <3> QED BY <1>0, <2>5, <3>1, <3>2, <3>3, DeletedIs
  <2> QED BY <2>4, <2>5
<1> QED BY <1>6, <1>7

\* Values of rows that are not old change only with their append.
LEMMA NewestStays ==
  ASSUME IInv, CleanInv, Sound, SoundInv, SnapshotInv, NEW t \in Txns, Step(t),
         NEW r \in 1 .. count, ~Old(r)
  PROVE  current'[r] = current[r]
<1>0. DataTyped /\ RoomInv /\ r \in Rows
  <2>1. DataTyped /\ RoomInv  BY DEF CleanInv, SoundInv
  <2> QED BY <2>1, RoomIs
<1>1. CASE UNCHANGED <<chain, current>>  BY <1>1
<1>2. CASE \A x \in 1 .. count : current'[x] = current[x]  BY <1>2
<1>3. CASE Update(t) /\ \E v \in Rows : \E rows \in SUBSET Rows : Merges(t, v, rows)
  <2>1. PICK v \in Rows : \E rows \in SUBSET Rows : Merges(t, v, rows)  BY <1>3
  <2>2. PICK rows \in SUBSET Rows : Merges(t, v, rows)  BY <2>1
  <2>3. pc[t] = "running"  BY <1>0, <1>3, UpdateFrame
  <2>4. rows \subseteq Seen(t) /\ current' = [x \in Rows |-> IF x \in rows THEN t ELSE current[x]]
    BY <2>2 DEF Merges
  <2>5. r \notin rows  BY <2>3, <2>4, SeenIsOld
  <2> QED BY <1>0, <2>4, <2>5
<1>4. CASE RollbackEntry(t) /\ \E v \in Rows : current' = RestoredValues(v, t)
  <2>1. PICK v \in Rows : current' = RestoredValues(v, t)  BY <1>4
  <2>2. \A i \in DOMAIN chain[v] : r \notin DOMAIN chain[v][i].old
    BY DEF SnapshotInv, ChainInv, OldRowsInv
  <2> QED BY <1>0, <2>1, <2>2 DEF RestoredValues
<1> QED BY <1>1, <1>2, <1>3, <1>4, ChainIs

\* Rows that are appended keep the value they have been appended with.
LEMMA PendingValueKept ==
  ASSUME IInv, CleanInv, Sound, SoundInv, SnapshotInv, NEW t \in Txns, Step(t)
  PROVE  PendingValueInv'
<1>0. DataTyped /\ TxnTyped /\ WalInv /\ AppendInv /\ RoomInv /\ RoomInv' /\ pc \in [Txns -> Pcs] /\ DataTyped'
  <2>1. /\ DataTyped /\ TxnTyped /\ ManagerTyped /\ DoneInv /\ LinkInv /\ WalInv /\ AppendInv /\ RoomInv
        /\ pc \in [Txns -> Pcs]
    BY DEF CleanInv, SoundInv, IInv, Typed
  <2> QED BY <2>1, RoomKept, DataTypedKept
<1> SUFFICES ASSUME NEW u \in Txns, pc'[u] \in {"written", "commit"}, NEW i \in Appends(u)',
                    NEW r \in undo'[u][i].rows
             PROVE  current'[r] = u
  BY DEF PendingValueInv
<1>1. CASE i \in Appends(u) /\ undo'[u][i] = undo[u][i]
  <2>1. pc[u] \in {"written", "commit"}
    <3>1. SUFFICES ASSUME pc[u] \notin {"written", "commit"} PROVE FALSE
      OBVIOUS
    <3>2. u = t  BY <3>1, OthersStay
    <3>3. pc[t] \in {"running", "wal"}  BY <1>0, <3>1, <3>2, SoundMove
    <3> QED BY <1>0, <1>1, <3>2, <3>3, NoAppends DEF AppendedPcs, EndedPcs
  <2>2. r \in undo[u][i].rows /\ r \in 1 .. count  BY <1>0, <1>1, AppendIs
  <2>3. current[r] = u  BY <1>1, <2>1, <2>2 DEF SnapshotInv, PendingValueInv
  <2>4. ~Old(r)  BY <1>1, <2>1, <2>2, PendingIsNew
  <2> QED BY <2>2, <2>3, <2>4, NewestStays
<1>2. CASE u = t /\ i = Len(undo[t]) + 1 /\ Grows(t) /\ pc[t] \in {"running", "wal"}
  <2>1. /\ current' = [x \in Rows |-> IF x \in count + 1 .. count + local[t] THEN t ELSE current[x]]
        /\ undo'[t][Len(undo[t]) + 1] = Appended(t)
        /\ count' = count + local[t] /\ local[t] \in Nat /\ count \in Nat
    BY <1>0, <1>2, GrowIs DEF CleanInv
  <2>2. r \in count + 1 .. count + local[t]  BY <1>2, <2>1 DEF Appended
  <2>3. r \in Rows
    <3>1. count' \in Nat /\ count' <= MaxRows
      <4>1. (DataTyped /\ RoomInv => count \in Nat /\ count <= MaxRows)'  BY RoomIs, PTL
      <4> QED BY <1>0, <4>1
    <3> QED BY <2>1, <2>2, <3>1, ConstantTypes DEF Rows
  <2> QED BY <1>2, <2>1, <2>2, <2>3
<1> QED BY <1>0, <1>1, <1>2, OldOrNew

\* Nobody acts who is no transaction of the setup.
LEMMA SetupActs ==
  ASSUME CleanInv, SnapshotInv, NEW t \in Txns, Step(t)
  PROVE  t \in DOMAIN setup.changes
BY DoneRests DEF SnapshotInv, AbsentInv

\* Who is no transaction of the setup never becomes one.
LEMMA AbsentKept ==
  ASSUME IInv, CleanInv, Sound, SoundInv, SnapshotInv, NEW t \in Txns, Step(t)
  PROVE  AbsentInv'
<1>1. setup' = setup /\ t \in DOMAIN setup.changes  BY SetupStays, SetupActs
<1>2. ASSUME NEW u \in Txns \ DOMAIN setup.changes
      PROVE  pc'[u] = "done" /\ commit_id'[u] = 0 /\ undo'[u] = <<>> /\ local'[u] = 0
  <2>1. u # t  BY <1>1
  <2>2. pc'[u] = pc[u] /\ commit_id'[u] = commit_id[u] /\ local'[u] = local[u]  BY <2>1, OthersStay
  <2>3. undo'[u] = undo[u] \/ undo'[u] = <<>>  BY <2>1, UndoIs
  <2> QED BY <2>2, <2>3 DEF SnapshotInv, AbsentInv
<1> QED BY <1>1, <1>2 DEF AbsentInv

\* A transaction starts at a time that is not 0.
LEMMA AgeKept ==
  ASSUME IInv, CleanInv, Sound, SoundInv, SnapshotInv, NEW t \in Txns, Step(t)
  PROVE  AgeInv'
<1>0. WalInv /\ pc \in [Txns -> Pcs] /\ start_time \in [Txns -> Nat] /\ ClockInv /\ clock \in Nat
  BY DEF SoundInv, CleanInv, IInv, Typed, TxnTyped
<1>1. ASSUME NEW u \in Txns, pc'[u] \in Live PROVE start_time'[u] > 0
  <2>1. CASE u # t
    <3>1. pc'[u] = pc[u] /\ start_time'[u] = start_time[u]  BY <2>1, OthersStay
    <3> QED BY <1>1, <3>1 DEF SnapshotInv, AgeInv
  <2>2. CASE u = t /\ Start(t)
    <3>1. start_time'[t] = clock  BY <1>0, <2>2 DEF Start
    <3> QED BY <1>0, <2>2, <3>1 DEF ClockInv
  <2>3. CASE u = t /\ ~Start(t)
    <3>1. ~Leave(t)
      <4>1. Leave(t) => pc'[t] = "cleanup"  BY <1>0 DEF Leave, Goto
      <4> QED BY <1>1, <2>3, <4>1 DEF Live
    <3>2. start_time'[t] = start_time[t]  BY <1>0, <2>3, <3>1, FieldsStay
    <3>3. pc[t] \in Live
      <4>1. CASE pc' = pc  BY <1>1, <2>3, <4>1
      <4>2. CASE pc' # pc  BY <1>0, <1>1, <2>3, <4>2, SoundMove DEF Live
      <4> QED BY <4>1, <4>2
    <3> QED BY <2>3, <3>2, <3>3 DEF SnapshotInv, AgeInv
  <2> QED BY <2>1, <2>2, <2>3
<1> QED BY <1>1 DEF AgeInv

\* The local storage changes while its transaction runs, and is appended at the end.
LEMMA LocalKept ==
  ASSUME IInv, CleanInv, Sound, SoundInv, SnapshotInv, NEW t \in Txns, Step(t)
  PROVE  LocalInv'
<1>0. WalInv /\ AppendInv /\ pc \in [Txns -> Pcs] /\ local \in [Txns -> Nat]
  BY DEF SoundInv, CleanInv, IInv, Typed, TxnTyped
<1>1. ASSUME NEW u \in Txns, pc'[u] \in {"written", "commit"}, local'[u] > 0 PROVE Appends(u)' # {}
  <2>1. CASE Grows(t) /\ pc[t] \in {"running", "wal"}
    <3>1. Appends(t)' # {} /\ (u # t => Appends(u)' = Appends(u))  BY <1>0, <2>1, GrowIs
    <3>2. u # t => pc'[u] = pc[u] /\ local'[u] = local[u]  BY OthersStay
    <3> QED BY <1>1, <3>1, <3>2 DEF SnapshotInv, LocalInv
  <2>2. CASE SameAppends /\ ~(Grows(t) /\ pc[t] \in {"running", "wal"})
    <3>1. pc[u] \in {"written", "commit"}
      <4>1. SUFFICES ASSUME pc[u] \notin {"written", "commit"} PROVE FALSE
        OBVIOUS
      <4>2. u = t  BY <1>1, <4>1, OthersStay
      <4>3. CommitDirectly(t) \/ WriteToWAL(t)  BY <1>0, <1>1, <4>1, <4>2, SoundMove
      <4>4. AppendLocal(t) /\ local' = local  BY <1>0, <4>3, SoundCommit DEF CommitDirectly, WriteToWAL
      <4>5. pc[t] \in {"running", "wal"}  BY <4>3 DEF CommitDirectly, WriteToWAL, Running
      <4> QED BY <1>1, <2>2, <4>2, <4>4, <4>5 DEF Grows
    <3>2. Appends(u)' = Appends(u)  BY <2>2, <3>1 DEF SameAppends, EndedPcs
    <3>3. local'[u] = local[u]
      <4>1. CASE u # t  BY <4>1, OthersStay
      <4>2. CASE u = t
        <5>1. ~Insert(t) /\ ~Rollback(t) /\ ~Delete(t) /\ ~Update(t)
          BY <3>1, <4>2 DEF Insert, Rollback, Delete, Update, CanChange, Running
        <5>2. local' = local
          BY <5>1 DEF Step, Start, CommitDirectly, CommitThroughWAL, WriteToWAL, TakeTimestamp, CommitEntry,
            CommitDone, FlushFails, RollbackEntry, Leave, PopCleanup, CleanupEntry, CleanupDone,
            StartCheckpoint, FinishCheckpoint
        <5> QED BY <5>2
      <4> QED BY <4>1, <4>2
    <3> QED BY <1>1, <3>1, <3>2, <3>3 DEF SnapshotInv, LocalInv
  <2> QED BY <1>0, <2>1, <2>2, AppendsFrame
<1> QED BY <1>1 DEF LocalInv

-----------------------------------------------------------------------------
(* The chains: what a step does to one UpdateInfo, and to two of them      *)

EntryInv(v, i) ==
  LET u == chain[v][i].owner
  IN  /\ \A r \in DOMAIN chain[v][i].old : Old(r) /\ Vec(r) = v
      /\ pc[u] \in Undecided =>
           /\ \/ chain[v][i].version = transaction_id[u]
              \/ pc[u] = "commit" /\ chain[v][i].version = commit_id[u]
           /\ \A r \in DOMAIN chain[v][i].old : current[r] = u
PairInv(v, i, j) ==
  LET u == chain[v][j].owner
  IN  i < j /\ pc[u] \in Undecided =>
        /\ chain[v][i].version > start_time[u]
        /\ DOMAIN chain[v][i].old \cap DOMAIN chain[v][j].old = {}

\* The invariant is about each UpdateInfo, and about any two of a chain.
LEMMA ChainParts ==
  ChainInv <=> \A v \in Rows : \A i \in DOMAIN chain[v] :
                 EntryInv(v, i) /\ \A j \in DOMAIN chain[v] : PairInv(v, i, j)
<1>1. ASSUME ChainInv, NEW v \in Rows, NEW i \in DOMAIN chain[v]
      PROVE  EntryInv(v, i) /\ \A j \in DOMAIN chain[v] : PairInv(v, i, j)
  <2>1. EntryInv(v, i)  BY <1>1 DEF ChainInv, OwnVersionInv, OldRowsInv, NewestInv, EntryInv
  <2>2. \A j \in DOMAIN chain[v] : PairInv(v, i, j)  BY <1>1 DEF ChainInv, FrontInv, RowOrderInv, PairInv
  <2> QED BY <2>1, <2>2
<1>2. ASSUME \A v \in Rows : \A i \in DOMAIN chain[v] :
               EntryInv(v, i) /\ \A j \in DOMAIN chain[v] : PairInv(v, i, j)
      PROVE  ChainInv
  <2>1. OwnVersionInv  BY <1>2 DEF EntryInv, OwnVersionInv
  <2>2. OldRowsInv  BY <1>2 DEF EntryInv, OldRowsInv
  <2>3. NewestInv  BY <1>2 DEF EntryInv, NewestInv
  <2>4. FrontInv  BY <1>2 DEF PairInv, FrontInv
  <2>5. RowOrderInv  BY <1>2 DEF PairInv, RowOrderInv
  <2> QED BY <2>1, <2>2, <2>3, <2>4, <2>5 DEF ChainInv
<1> QED BY <1>1, <1>2

\* An UpdateInfo that stays, though its place may change, or its version with a commit.
Carried(t, v, i, k) ==
  /\ i \in DOMAIN chain[v] /\ k \in DOMAIN chain'[v]
  /\ chain'[v][k].owner = chain[v][i].owner
  /\ DOMAIN chain'[v][k].old = DOMAIN chain[v][i].old
  /\ \/ chain'[v][k].version = chain[v][i].version
     \/ pc[t] = "commit" /\ chain[v][i].owner = t /\ chain'[v][k].version = commit_id[t]
KeepsValues(v, i) ==
  pc[chain[v][i].owner] \in Undecided => \A r \in DOMAIN chain[v][i].old : current'[r] = current[r]

\* Who has an UpdateInfo and is undecided was so before.
LEMMA OwnerWas ==
  ASSUME IInv, CleanInv, Sound, SoundInv, SnapshotInv, NEW t \in Txns, Step(t),
         NEW v \in Rows, NEW i \in DOMAIN chain[v], pc'[chain[v][i].owner] \in Undecided
  PROVE  /\ pc[chain[v][i].owner] \in Undecided /\ chain[v][i].owner \in Txns
         /\ start_time'[chain[v][i].owner] = start_time[chain[v][i].owner]
         /\ transaction_id'[chain[v][i].owner] = transaction_id[chain[v][i].owner]
         /\ pc[chain[v][i].owner] = "commit" =>
              pc'[chain[v][i].owner] = "commit" /\ commit_id'[chain[v][i].owner] = commit_id[chain[v][i].owner]
<1> DEFINE u == chain[v][i].owner
<1>1. u \in Txns /\ pc[u] # "new"
  <2>1. u \in Txns /\ pc[u] \in Undecided \union {"commit", "remove"} \union EndedPcs  BY VersionIs
  <2> QED BY <2>1 DEF Undecided, Live, EndedPcs
<1> HIDE DEF u
<1>2. pc'[u] \in Undecided  BY DEF u
<1>3. pc[u] \in Undecided  BY <1>1, <1>2, UndecidedWas
<1>4. /\ start_time'[u] = start_time[u] /\ transaction_id'[u] = transaction_id[u]
      /\ pc[u] = "commit" => pc'[u] = "commit" /\ commit_id'[u] = commit_id[u]
  BY <1>1, <1>2, <1>3, UndecidedFields
<1> QED BY <1>1, <1>3, <1>4 DEF u

\* An UpdateInfo has old values of rows.
LEMMA RowsOld ==
  ASSUME CleanInv, NEW v \in Rows, NEW i \in DOMAIN chain[v]
  PROVE  DOMAIN chain[v][i].old \subseteq Rows
<1>1. chain[v] \in Seq(Infos)  BY DEF CleanInv, DataTyped
<1>2. chain[v][i] \in Infos  BY <1>1
<1> QED BY <1>2 DEF Infos

\* What holds of an UpdateInfo holds of it where the step has carried it,
LEMMA EntryCarried ==
  ASSUME IInv, CleanInv, Sound, SoundInv, SnapshotInv, NEW t \in Txns, Step(t),
         NEW v \in Rows, NEW i, NEW k, Carried(t, v, i, k), KeepsValues(v, i)
  PROVE  EntryInv(v, k)'
<1> DEFINE u == chain[v][i].owner
<1>0. i \in DOMAIN chain[v] /\ chain'[v][k].owner = u /\ DOMAIN chain'[v][k].old = DOMAIN chain[v][i].old
  BY DEF Carried
<1>1. EntryInv(v, i)  BY <1>0, ChainParts DEF SnapshotInv
<1>2. \A r \in DOMAIN chain[v][i].old : Old(r)' /\ Vec(r)' = v
  <2>1. DOMAIN chain[v][i].old \subseteq Rows  BY <1>0, RowsOld
  <2>2. \A r \in DOMAIN chain[v][i].old : Old(r) /\ Vec(r) = v  BY <1>1 DEF EntryInv
  <2> QED BY <2>1, <2>2, OldStays
<1>3. ASSUME pc'[u] \in Undecided
      PROVE  /\ \/ chain'[v][k].version = transaction_id'[u]
                \/ pc'[u] = "commit" /\ chain'[v][k].version = commit_id'[u]
             /\ \A r \in DOMAIN chain[v][i].old : current'[r] = u
  <2>1. /\ pc[u] \in Undecided /\ transaction_id'[u] = transaction_id[u]
        /\ pc[u] = "commit" => pc'[u] = "commit" /\ commit_id'[u] = commit_id[u]
    BY <1>0, <1>3, OwnerWas
  <2>2. /\ \/ chain[v][i].version = transaction_id[u]
           \/ pc[u] = "commit" /\ chain[v][i].version = commit_id[u]
        /\ \A r \in DOMAIN chain[v][i].old : current[r] = u
    BY <1>1, <2>1 DEF EntryInv
  <2>3. chain'[v][k].version = chain[v][i].version \/ (pc[u] = "commit" /\ chain'[v][k].version = commit_id[u])
    BY DEF Carried
  <2>4. \A r \in DOMAIN chain[v][i].old : current'[r] = current[r]  BY <2>1 DEF KeepsValues
  <2> QED BY <2>1, <2>2, <2>3, <2>4
<1> QED BY <1>0, <1>2, <1>3 DEF EntryInv

\* and so does what holds of two of them, if they keep their order.
LEMMA PairCarried ==
  ASSUME IInv, CleanInv, Sound, SoundInv, SnapshotInv, NEW t \in Txns, Step(t),
         NEW v \in Rows, NEW i, NEW j, NEW k, NEW l, Carried(t, v, i, k), Carried(t, v, j, l), k < l => i < j
  PROVE  PairInv(v, k, l)'
<1> DEFINE u == chain[v][j].owner
<1>0. /\ i \in DOMAIN chain[v] /\ j \in DOMAIN chain[v] /\ chain'[v][l].owner = u
      /\ DOMAIN chain'[v][k].old = DOMAIN chain[v][i].old /\ DOMAIN chain'[v][l].old = DOMAIN chain[v][j].old
  BY DEF Carried
<1> SUFFICES ASSUME k < l, pc'[u] \in Undecided
             PROVE  /\ chain'[v][k].version > start_time'[u]
                    /\ DOMAIN chain[v][i].old \cap DOMAIN chain[v][j].old = {}
  BY <1>0 DEF PairInv
<1>1. pc[u] \in Undecided /\ start_time'[u] = start_time[u] /\ u \in Txns  BY <1>0, OwnerWas
<1>2. /\ chain[v][i].version > start_time[u]
      /\ DOMAIN chain[v][i].old \cap DOMAIN chain[v][j].old = {}
  <2>1. PairInv(v, i, j)  BY <1>0, ChainParts DEF SnapshotInv
  <2> QED BY <1>1, <2>1 DEF PairInv
<1>3. CASE chain'[v][k].version = chain[v][i].version  BY <1>1, <1>2, <1>3
<1>4. CASE pc[t] = "commit" /\ chain[v][i].owner = t /\ chain'[v][k].version = commit_id[t]
  <2>1. u # t
    <3>1. i < j /\ i \in Nat /\ j \in Nat  BY <1>0, VersionIs
    <3>2. u = t => i = j  BY <1>0, <1>4 DEF CleanInv, LinkInv
    <3> QED BY <3>1, <3>2
  <2>2. u \in active \ {t}  BY <1>1, <2>1 DEF CleanInv, ActiveInv, Undecided
  <2>3. commit_id[t] > start_time[u]
    <3>1. start_time[u] < commit_id[t]  BY <1>4, <2>2 DEF SoundInv, TimesInv, StampedPcs
    <3>2. start_time[u] \in Nat /\ commit_id[t] \in Nat  BY <1>1 DEF CleanInv, TxnTyped, IInv, Typed
    <3> QED BY <3>1, <3>2
  <2> QED BY <1>1, <1>2, <1>4, <2>3
<1> QED BY <1>3, <1>4 DEF Carried

\* A chain that is carried over.
LEMMA ChainCarried ==
  ASSUME IInv, CleanInv, Sound, SoundInv, SnapshotInv, NEW t \in Txns, Step(t), NEW v \in Rows, NEW f,
         \A k \in DOMAIN chain'[v] : Carried(t, v, f[k], k) /\ KeepsValues(v, f[k]),
         \A k, l \in DOMAIN chain'[v] : k < l => f[k] < f[l]
  PROVE  \A k \in DOMAIN chain'[v] : EntryInv(v, k)' /\ \A l \in DOMAIN chain'[v] : PairInv(v, k, l)'
<1> SUFFICES ASSUME NEW k \in DOMAIN chain'[v], NEW l \in DOMAIN chain'[v]
             PROVE  EntryInv(v, k)' /\ PairInv(v, k, l)'
  OBVIOUS
<1>1. EntryInv(v, k)'  BY EntryCarried
<1>2. Carried(t, v, f[k], k) /\ Carried(t, v, f[l], l) /\ (k < l => f[k] < f[l])  OBVIOUS
<1>3. PairInv(v, k, l)'  BY <1>2, PairCarried
<1> QED BY <1>1, <1>3

\* A chain that stays as it was, with the values in the base, is as it should be.
LEMMA ChainSame ==
  ASSUME IInv, CleanInv, Sound, SoundInv, SnapshotInv, NEW t \in Txns, Step(t), NEW v \in Rows,
         chain'[v] = chain[v], \A i \in DOMAIN chain[v] : KeepsValues(v, i)
  PROVE  \A k \in DOMAIN chain'[v] : EntryInv(v, k)' /\ \A l \in DOMAIN chain'[v] : PairInv(v, k, l)'
<1> DEFINE f == [k \in DOMAIN chain[v] |-> k]
<1>1. \A k \in DOMAIN chain'[v] : Carried(t, v, f[k], k) /\ KeepsValues(v, f[k])  BY DEF Carried
<1>2. \A k, l \in DOMAIN chain'[v] : k < l => f[k] < f[l]  OBVIOUS
<1> HIDE DEF f
<1> QED BY <1>1, <1>2, ChainCarried

\* A chain that loses an UpdateInfo.
LEMMA ChainShorter ==
  ASSUME IInv, CleanInv, Sound, SoundInv, SnapshotInv, NEW t \in Txns, Step(t), NEW v \in Rows,
         NEW u \in Txns, NEW m \in DOMAIN chain[v], Unlinks(u, v, m),
         \A i \in DOMAIN chain[v] : i # m => KeepsValues(v, i)
  PROVE  \A k \in DOMAIN chain'[v] : EntryInv(v, k)' /\ \A l \in DOMAIN chain'[v] : PairInv(v, k, l)'
<1> DEFINE f == [k \in DOMAIN chain'[v] |-> IF k < m THEN k ELSE k + 1]
<1>1. /\ \A k \in DOMAIN chain'[v] : f[k] \in DOMAIN chain[v] \ {m} /\ chain'[v][k] = chain[v][f[k]]
      /\ DOMAIN chain'[v] = 1 .. Len(chain[v]) - 1
  BY DEF Unlinks
<1>2. m \in Nat /\ Len(chain[v]) \in Nat
  <2>1. chain[v] \in Seq(Infos)  BY DEF CleanInv, DataTyped
  <2> QED BY <2>1
<1>3. \A k, l \in DOMAIN chain'[v] : k < l => f[k] < f[l]
  <2> DEFINE n == Len(chain[v])
  <2>1. DOMAIN chain'[v] = 1 .. n - 1 /\ n \in Nat  BY <1>1, <1>2
  <2> HIDE DEF n
  <2>2. \A k, l \in 1 .. n - 1 : k < l => (IF k < m THEN k ELSE k + 1) < (IF l < m THEN l ELSE l + 1)
    BY <1>2, <2>1
  <2> QED BY <2>1, <2>2
<1> HIDE DEF f
<1>4. \A k \in DOMAIN chain'[v] : Carried(t, v, f[k], k) /\ KeepsValues(v, f[k])
  BY <1>1 DEF Carried
<1> QED BY <1>3, <1>4, ChainCarried

\* What a roll-back puts back are its own old values, nobody else's.
LEMMA RestoresOwn ==
  ASSUME IInv, CleanInv, SoundInv, SnapshotInv, NEW t \in Txns, pc[t] = "rollback",
         NEW v \in Rows, current' = RestoredValues(v, t), NEW m \in DOMAIN chain[v], Unlinks(t, v, m),
         NEW w \in Rows, NEW i \in DOMAIN chain[w], w # v \/ i # m
  PROVE  KeepsValues(w, i)
<1>1. SUFFICES ASSUME pc[chain[w][i].owner] \in Undecided, NEW r \in DOMAIN chain[w][i].old
               PROVE  current'[r] = current[r]
  BY DEF KeepsValues
<1>2. r \in Rows  BY <1>1, RowsOld
<1>3. r \notin DOMAIN chain[v][m].old
  <2>1. CASE w # v  BY <1>1, <2>1 DEF SnapshotInv, ChainInv, OldRowsInv
  <2>2. CASE w = v
    <3>1. i # m /\ i \in Nat /\ m \in Nat  BY <2>2, VersionIs
    <3>2. pc[chain[v][m].owner] \in Undecided  BY DEF Unlinks, Undecided, Live
    <3>3. PairInv(v, i, m) /\ PairInv(v, m, i)  BY <2>2, ChainParts DEF SnapshotInv
    <3>4. i < m \/ m < i  BY <3>1
    <3> QED BY <1>1, <2>2, <3>2, <3>3, <3>4 DEF PairInv
  <2> QED BY <2>1, <2>2
<1>4. \A j \in DOMAIN chain[v] : chain[v][j].owner = t => r \notin DOMAIN chain[v][j].old
  BY <1>3 DEF Unlinks
<1> QED BY <1>2, <1>4 DEF RestoredValues

\* An UPDATE changes no row of somebody else who is undecided.
LEMMA MergesApart ==
  ASSUME IInv, CleanInv, SoundInv, SnapshotInv, NEW t \in Txns, pc[t] = "running",
         NEW v \in Rows, NEW rows \in SUBSET Rows, Merges(t, v, rows),
         NEW w \in Rows, NEW i \in DOMAIN chain[w], chain[w][i].owner # t, pc[chain[w][i].owner] \in Undecided
  PROVE  DOMAIN chain[w][i].old \cap rows = {}
<1> DEFINE u == chain[w][i].owner
<1> SUFFICES ASSUME NEW r \in rows, r \in DOMAIN chain[w][i].old PROVE FALSE
  OBVIOUS
<1>1. w = v
  <2>1. Vec(r) = v  BY DEF Merges
  <2>2. Vec(r) = w  BY DEF SnapshotInv, ChainInv, OldRowsInv
  <2> QED BY <2>1, <2>2
<1>2. chain[v][i].version <= start_time[t]  BY <1>1, MergesOver
<1>3. u \in Txns /\ (chain[w][i].version = transaction_id[u] \/ (pc[u] = "commit" /\ chain[w][i].version = commit_id[u]))
  BY VersionIs DEF SnapshotInv, ChainInv, OwnVersionInv
<1> HIDE DEF u
<1>4. start_time[t] \in Nat /\ transaction_id[u] \in Nat /\ commit_id[u] \in Nat
  BY <1>3 DEF CleanInv, TxnTyped, IInv, Typed
<1>5. t \in active \ {u} /\ pc[t] \in Live /\ pc[u] \in Live  BY DEF CleanInv, ActiveInv, Live, Undecided, u
<1>6. pc[u] = "commit" => start_time[t] < commit_id[u]
  BY <1>3, <1>5 DEF SoundInv, TimesInv, StampedPcs
<1>7. start_time[t] < transaction_id[u]
  <2>1. IdsInv /\ TimesInv  BY DEF SoundInv
  <2>2. clock \in Nat /\ clock <= TRANSACTION_ID_START /\ TRANSACTION_ID_START \in Nat /\ TRANSACTION_ID_START <= transaction_id[u]
    BY <1>3, <1>5, <2>1, IdsAre
  <2>3. start_time[t] < clock  BY <1>5, <2>1 DEF TimesInv
  <2> QED BY <1>4, <2>2, <2>3
<1> QED BY <1>1, <1>2, <1>3, <1>4, <1>6, <1>7

\* An UPDATE leaves the UpdateInfos of others, and adds rows to its own,
LEMMA MergedEntry ==
  ASSUME IInv, CleanInv, Sound, SoundInv, SnapshotInv, NEW t \in Txns, Step(t), Update(t), pc' = pc,
         NEW v \in Rows, NEW rows \in SUBSET Rows, Merges(t, v, rows),
         NEW w \in Rows, NEW i \in DOMAIN chain[w]
  PROVE  /\ chain[w][i].owner # t => KeepsValues(w, i)
         /\ w # v => KeepsValues(w, i)
<1>1. current' = [x \in Rows |-> IF x \in rows THEN t ELSE current[x]]  BY DEF Merges
<1>2. DOMAIN chain[w][i].old \subseteq Rows  BY RowsOld
<1>3. pc[t] = "running"  BY DEF Update, CanChange, Running
<1>4. ASSUME chain[w][i].owner # t, pc[chain[w][i].owner] \in Undecided PROVE DOMAIN chain[w][i].old \cap rows = {}
  BY <1>3, <1>4, MergesApart
<1>5. ASSUME w # v PROVE DOMAIN chain[w][i].old \cap rows = {}
  <2>1. \A r \in rows : Vec(r) = v  BY DEF Merges
  <2>2. \A r \in DOMAIN chain[w][i].old : Vec(r) = w  BY DEF SnapshotInv, ChainInv, OldRowsInv
  <2> QED BY <1>5, <2>1, <2>2
<1> QED BY <1>1, <1>2, <1>4, <1>5 DEF KeepsValues

\* with the rows he updates in it.
LEMMA OwnEntry ==
  ASSUME IInv, CleanInv, Sound, SoundInv, SnapshotInv, NEW t \in Txns, Step(t), Update(t), pc' = pc,
         NEW v \in Rows, NEW rows \in SUBSET Rows, Merges(t, v, rows),
         NEW k \in DOMAIN chain'[v], chain'[v][k].owner = t, chain'[v][k].version = transaction_id[t],
         \A r \in DOMAIN chain'[v][k].old :
           r \in rows \/ \E i \in DOMAIN chain[v] : chain[v][i].owner = t /\ r \in DOMAIN chain[v][i].old
  PROVE  EntryInv(v, k)'
<1>0. pc[t] = "running" /\ pc[t] \in Undecided  BY DEF Update, CanChange, Running, Undecided, Live
<1> DEFINE D == DOMAIN chain'[v][k].old
<1>1. ASSUME NEW r \in D, r \notin rows PROVE r \in Rows /\ Old(r) /\ Vec(r) = v /\ current[r] = t
  <2>1. PICK i \in DOMAIN chain[v] : chain[v][i].owner = t /\ r \in DOMAIN chain[v][i].old
    BY <1>1
  <2>2. r \in Rows  BY <2>1, RowsOld
  <2>3. EntryInv(v, i)  BY ChainParts DEF SnapshotInv
  <2> QED BY <1>0, <2>1, <2>2, <2>3 DEF EntryInv
<1>2. \A r \in rows : r \in Rows /\ Old(r) /\ Vec(r) = v
  BY <1>0, SeenIsOld DEF Merges
<1>3. \A r \in D : Old(r)' /\ Vec(r)' = v  BY <1>1, <1>2, OldStays
<1>4. \A r \in D : current'[r] = t
  <2>1. current' = [x \in Rows |-> IF x \in rows THEN t ELSE current[x]]  BY DEF Merges
  <2> QED BY <1>1, <1>2, <2>1
<1>5. transaction_id' = transaction_id  BY DEF Update
<1> QED BY <1>3, <1>4, <1>5 DEF EntryInv

\* A chain whose UpdateInfo gets more rows,
LEMMA ChainWidened ==
  ASSUME IInv, CleanInv, Sound, SoundInv, SnapshotInv, NEW t \in Txns, Step(t), Update(t), pc' = pc,
         NEW v \in Rows, NEW rows \in SUBSET Rows, Merges(t, v, rows),
         NEW m \in DOMAIN chain[v], chain[v][m].owner = t, DOMAIN chain'[v] = DOMAIN chain[v],
         \A i \in DOMAIN chain[v] :
               /\ chain'[v][i].owner = chain[v][i].owner
               /\ chain'[v][i].version = chain[v][i].version
               /\ chain'[v][i].old = IF i # m THEN chain[v][i].old ELSE OldValues(chain[v][i].old, rows)
  PROVE  \A k \in DOMAIN chain'[v] : EntryInv(v, k)' /\ \A l \in DOMAIN chain'[v] : PairInv(v, k, l)'
<1>0. pc[t] = "running" /\ pc[t] \in Undecided  BY DEF Update, CanChange, Running, Undecided, Live
<1>1. \A i \in DOMAIN chain[v] : i # m => Carried(t, v, i, i) /\ KeepsValues(v, i)
  <2>1. \A i \in DOMAIN chain[v] : i # m => chain[v][i].owner # t  BY DEF CleanInv, LinkInv
  <2> QED BY <2>1, MergedEntry DEF Carried
<1>2. DOMAIN chain'[v][m].old = DOMAIN chain[v][m].old \union rows
  <2>1. chain'[v][m].old = OldValues(chain[v][m].old, rows)  OBVIOUS
  <2>2. DOMAIN OldValues(chain[v][m].old, rows) = DOMAIN chain[v][m].old \union rows  BY OldValuesIs, Zenon
  <2> QED BY <2>1, <2>2
<1>3. EntryInv(v, m)'
  <2>1. chain[v][m].version = transaction_id[t]  BY <1>0, OwnIs
  <2>2. chain'[v][m].owner = t /\ chain'[v][m].version = transaction_id[t]  BY <2>1
  <2> QED BY <1>2, <2>2, OwnEntry
<1>4. ASSUME NEW k \in DOMAIN chain[v], NEW l \in DOMAIN chain[v] PROVE PairInv(v, k, l)'
  <2>0. k \in Nat /\ l \in Nat /\ m \in Nat  BY VersionIs
  <2>1. CASE k # m /\ l # m  BY <1>1, <2>1, PairCarried
  <2>2. PairInv(v, k, l)  BY ChainParts DEF SnapshotInv
  <2>3. CASE k = m \/ l = m
    <3>1. SUFFICES ASSUME k < l, pc[chain[v][l].owner] \in Undecided
                   PROVE  /\ chain'[v][k].version > start_time'[chain'[v][l].owner]
                          /\ DOMAIN chain'[v][k].old \cap DOMAIN chain'[v][l].old = {}
      BY DEF PairInv
    <3>2. start_time' = start_time  BY DEF Update
    <3>3. /\ chain[v][k].version > start_time[chain[v][l].owner]
          /\ DOMAIN chain[v][k].old \cap DOMAIN chain[v][l].old = {}
      BY <2>2, <3>1 DEF PairInv
    <3>4. \A i \in DOMAIN chain[v] : DOMAIN chain'[v][i].old = IF i # m THEN DOMAIN chain[v][i].old
                                                               ELSE DOMAIN chain[v][i].old \union rows
      BY <1>2
    <3>5. CASE k = m
      <4>1. l # m  BY <2>0, <3>1, <3>5
      <4>2. chain[v][l].owner # t  BY <4>1 DEF CleanInv, LinkInv
      <4>3. DOMAIN chain[v][l].old \cap rows = {}  BY <1>0, <3>1, <4>2, MergesApart
      <4> QED BY <3>2, <3>3, <3>4, <4>1, <4>3, <3>5
    <3>6. CASE l = m
      <4>1. k # m  BY <2>0, <3>1, <3>6
      <4>2. chain[v][k].owner # t  BY <4>1 DEF CleanInv, LinkInv
      <4>3. ASSUME NEW r \in rows, r \in DOMAIN chain[v][k].old PROVE FALSE
        <5>1. m < k  BY <1>0, <4>2, <4>3, MergesOver
        <5> QED BY <2>0, <3>1, <3>6, <5>1
      <4> QED BY <3>2, <3>3, <3>4, <4>1, <4>3, <3>6
    <3> QED BY <2>3, <3>5, <3>6
  <2> QED BY <2>1, <2>3
<1>5. ASSUME NEW k \in DOMAIN chain[v] PROVE EntryInv(v, k)'
  BY <1>1, <1>3, EntryCarried
<1> QED BY <1>4, <1>5

\* and one that gets an UpdateInfo.
LEMMA ChainLonger ==
  ASSUME IInv, CleanInv, Sound, SoundInv, SnapshotInv, NEW t \in Txns, Step(t), Update(t), pc' = pc,
         NEW v \in Rows, NEW rows \in SUBSET Rows, Merges(t, v, rows),
         \A i \in DOMAIN chain[v] : chain[v][i].owner # t,
         DOMAIN chain'[v] = 1 .. Len(chain[v]) + 1,
         chain'[v][1].owner = t, chain'[v][1].version = transaction_id[t],
         chain'[v][1].old = OldValues(<<>>, rows),
         \A i \in DOMAIN chain[v] : chain'[v][i + 1] = chain[v][i]
  PROVE  \A k \in DOMAIN chain'[v] : EntryInv(v, k)' /\ \A l \in DOMAIN chain'[v] : PairInv(v, k, l)'
<1>0. pc[t] = "running" /\ pc[t] \in Undecided  BY DEF Update, CanChange, Running, Undecided, Live
<1>1. DOMAIN chain[v] = 1 .. Len(chain[v]) /\ Len(chain[v]) \in Nat
  <2>1. chain[v] \in Seq(Infos)  BY DEF CleanInv, DataTyped
  <2> QED BY <2>1
<1>2. \A k \in DOMAIN chain'[v] : k \in Nat /\ (k = 1 \/ (k - 1 \in DOMAIN chain[v] /\ k = (k - 1) + 1 /\ k > 1))
  BY <1>1
<1>3. ASSUME NEW k \in DOMAIN chain'[v], k # 1 PROVE Carried(t, v, k - 1, k) /\ KeepsValues(v, k - 1)
  <2>1. k - 1 \in DOMAIN chain[v] /\ k = (k - 1) + 1  BY <1>2, <1>3
  <2>2. chain'[v][k] = chain[v][k - 1]  BY <2>1
  <2>3. KeepsValues(v, k - 1)  BY <2>1, MergedEntry
  <2> QED BY <2>1, <2>2, <2>3 DEF Carried
<1>4. 1 \in DOMAIN chain'[v] /\ DOMAIN chain'[v][1].old = rows
  <2>1. 1 \in DOMAIN chain'[v]  BY <1>1
  <2>2. DOMAIN OldValues(<<>>, rows) = (DOMAIN <<>>) \union rows  BY DEF OldValues
  <2>3. DOMAIN <<>> = {}  OBVIOUS
  <2> QED BY <2>1, <2>2, <2>3
<1>5. EntryInv(v, 1)'  BY <1>4, OwnEntry
<1>6. ASSUME NEW k \in DOMAIN chain'[v] PROVE EntryInv(v, k)'
  BY <1>3, <1>5, EntryCarried
<1>7. ASSUME NEW k \in DOMAIN chain'[v], NEW l \in DOMAIN chain'[v] PROVE PairInv(v, k, l)'
  <2>1. CASE k # 1 /\ l # 1
    <3>1. k < l => k - 1 < l - 1  BY <1>2
    <3> QED BY <1>3, <2>1, <3>1, PairCarried
  <2>2. CASE l = 1
    <3>1. ~(k < l)  BY <1>2, <2>2
    <3> QED BY <3>1 DEF PairInv
  <2>3. CASE k = 1 /\ l # 1
    <3> DEFINE i == l - 1
    <3>1. i \in DOMAIN chain[v] /\ chain'[v][l] = chain[v][i] /\ chain[v][i].owner # t
      <4>1. l - 1 \in DOMAIN chain[v] /\ l = (l - 1) + 1  BY <1>2, <2>3
      <4> QED BY <4>1
    <3> HIDE DEF i
    <3>2. ASSUME pc[chain[v][i].owner] \in Undecided
          PROVE  /\ transaction_id[t] > start_time[chain[v][i].owner]
                 /\ DOMAIN chain[v][i].old \cap rows = {}
      <4>1. DOMAIN chain[v][i].old \cap rows = {}  BY <1>0, <3>1, <3>2, MergesApart
      <4>2. IdsInv /\ TimesInv  BY DEF SoundInv
      <4>3. chain[v][i].owner \in Txns /\ pc[chain[v][i].owner] \in Live  BY <3>1, <3>2, VersionIs DEF Undecided
      <4>4. start_time[chain[v][i].owner] < clock /\ start_time[chain[v][i].owner] \in Nat
        BY <4>2, <4>3 DEF TimesInv, CleanInv, TxnTyped
      <4>5. clock <= TRANSACTION_ID_START /\ TRANSACTION_ID_START <= transaction_id[t]
            /\ clock \in Nat /\ TRANSACTION_ID_START \in Nat /\ transaction_id[t] \in Nat
        BY <1>0, <4>2, IdsAre DEF Undecided
      <4> QED BY <4>1, <4>4, <4>5
    <3>3. start_time' = start_time  BY DEF Update
    <3> QED BY <1>4, <2>3, <3>1, <3>2, <3>3 DEF PairInv
  <2> QED BY <2>1, <2>2, <2>3
<1> QED BY <1>6, <1>7

\* After a step the chains are again as they have to be.
LEMMA ChainKept ==
  ASSUME IInv, CleanInv, Sound, SoundInv, SnapshotInv, NEW t \in Txns, Step(t)
  PROVE  ChainInv'
<1>1. SUFFICES ASSUME NEW w \in Rows
               PROVE  \A k \in DOMAIN chain'[w] : EntryInv(w, k)' /\ \A l \in DOMAIN chain'[w] : PairInv(w, k, l)'
  <2>1. (ChainInv <=> \A v \in Rows : \A i \in DOMAIN chain[v] :
                         EntryInv(v, i) /\ \A j \in DOMAIN chain[v] : PairInv(v, i, j))'
    BY ChainParts, PTL
  <2> QED BY <2>1
<1>2. ASSUME current' = current PROVE \A v \in Rows : \A i \in DOMAIN chain[v] : KeepsValues(v, i)
  BY <1>2 DEF KeepsValues
<1>3. CASE UNCHANGED <<chain, current>>  BY <1>2, <1>3, ChainSame
<1>4. CASE chain' = chain /\ \A r \in 1 .. count : current'[r] = current[r]
  <2>1. ASSUME NEW i \in DOMAIN chain[w] PROVE KeepsValues(w, i)
    <3>1. DOMAIN chain[w][i].old \subseteq Rows  BY RowsOld
    <3>2. \A r \in DOMAIN chain[w][i].old : r \in 1 .. count
      BY <3>1, OldStays DEF SnapshotInv, ChainInv, OldRowsInv
    <3> QED BY <1>4, <3>2 DEF KeepsValues
  <2> QED BY <1>4, <2>1, ChainSame
<1>5. ASSUME Update(t), pc' = pc, NEW v \in Rows, NEW rows \in SUBSET Rows, Merges(t, v, rows)
      PROVE  \A k \in DOMAIN chain'[w] : EntryInv(w, k)' /\ \A l \in DOMAIN chain'[w] : PairInv(w, k, l)'
  <2>1. CASE w # v
    <3>1. chain'[w] = chain[w]  BY <1>5, <2>1 DEF Merges
    <3>2. \A i \in DOMAIN chain[w] : KeepsValues(w, i)  BY <1>5, <2>1, MergedEntry
    <3> QED BY <3>1, <3>2, ChainSame
  <2>2. CASE w = v
    <3>1. CASE \E m \in DOMAIN chain[v] :
                 /\ chain[v][m].owner = t
                 /\ DOMAIN chain'[v] = DOMAIN chain[v]
                 /\ \A i \in DOMAIN chain[v] :
                      /\ chain'[v][i].owner = chain[v][i].owner
                      /\ chain'[v][i].version = chain[v][i].version
                      /\ chain'[v][i].old = IF i # m THEN chain[v][i].old ELSE OldValues(chain[v][i].old, rows)
      BY <1>5, <2>2, <3>1, ChainWidened
    <3>2. CASE /\ \A i \in DOMAIN chain[v] : chain[v][i].owner # t
               /\ DOMAIN chain'[v] = 1 .. Len(chain[v]) + 1
               /\ chain'[v][1].owner = t /\ chain'[v][1].version = transaction_id[t]
               /\ chain'[v][1].old = OldValues(<<>>, rows)
               /\ \A i \in DOMAIN chain[v] : chain'[v][i + 1] = chain[v][i]
      BY <1>5, <2>2, <3>2, ChainLonger
    <3> QED BY <1>5, <3>1, <3>2 DEF Merges
  <2> QED BY <2>1, <2>2
<1>6. ASSUME CommitEntry(t), current' = current, NEW v \in Rows, chain' = [chain EXCEPT ![v] = Renamed(@, t, commit_id[t])]
      PROVE  \A k \in DOMAIN chain'[w] : EntryInv(w, k)' /\ \A l \in DOMAIN chain'[w] : PairInv(w, k, l)'
  <2>0. chain \in [Rows -> Seq(Infos)] /\ commit_id[t] \in Nat /\ pc[t] = "commit"
    BY <1>6 DEF CleanInv, DataTyped, IInv, Typed, CommitEntry
  <2>1. CASE w # v
    <3>1. chain'[w] = chain[w]  BY <1>6, <2>0, <2>1
    <3> QED BY <1>2, <1>6, <3>1, ChainSame
  <2>2. CASE w = v
    <3>1. chain'[v] = Renamed(chain[v], t, commit_id[t])  BY <1>6, <2>0
    <3>2. /\ DOMAIN chain'[v] = DOMAIN chain[v]
          /\ \A i \in DOMAIN chain[v] :
               /\ chain'[v][i].owner = chain[v][i].owner /\ chain'[v][i].old = chain[v][i].old
               /\ chain'[v][i].version = IF chain[v][i].owner = t THEN commit_id[t] ELSE chain[v][i].version
      BY <2>0, <3>1, RenamedIs
    <3> DEFINE f == [k \in DOMAIN chain[v] |-> k]
    <3>3. \A k \in DOMAIN chain'[v] : Carried(t, v, f[k], k) /\ KeepsValues(v, f[k])
      BY <1>2, <1>6, <2>0, <3>2 DEF Carried
    <3>4. \A k, l \in DOMAIN chain'[v] : k < l => f[k] < f[l]  BY <3>2
    <3> HIDE DEF f
    <3> QED BY <2>2, <3>3, <3>4, ChainCarried
  <2> QED BY <2>1, <2>2
<1>7. ASSUME NEW u \in Txns, NEW v \in Rows, NEW m \in DOMAIN chain[v], Unlinks(u, v, m),
             \A x \in Rows : \A i \in DOMAIN chain[x] : x # v \/ i # m => KeepsValues(x, i)
      PROVE  \A k \in DOMAIN chain'[w] : EntryInv(w, k)' /\ \A l \in DOMAIN chain'[w] : PairInv(w, k, l)'
  <2>1. CASE w # v
    <3>1. chain'[w] = chain[w]  BY <1>7, <2>1 DEF Unlinks
    <3> QED BY <1>7, <2>1, <3>1, ChainSame
  <2>2. CASE w = v  BY <1>7, <2>2, ChainShorter
  <2> QED BY <2>1, <2>2
<1>8. ASSUME RollbackEntry(t), NEW v \in Rows, current' = RestoredValues(v, t), NEW m \in DOMAIN chain[v], Unlinks(t, v, m)
      PROVE  \A k \in DOMAIN chain'[w] : EntryInv(w, k)' /\ \A l \in DOMAIN chain'[w] : PairInv(w, k, l)'
  <2>1. pc[t] = "rollback"  BY <1>8 DEF RollbackEntry
  <2>2. \A x \in Rows : \A i \in DOMAIN chain[x] : x # v \/ i # m => KeepsValues(x, i)  BY <1>8, <2>1, RestoresOwn
  <2> QED BY <1>7, <1>8, <2>2
<1>9. ASSUME current' = current, NEW u \in ToSet(work.txns) \cap Txns, NEW v \in Rows, NEW m \in DOMAIN chain[v], Unlinks(u, v, m)
      PROVE  \A k \in DOMAIN chain'[w] : EntryInv(w, k)' /\ \A l \in DOMAIN chain'[w] : PairInv(w, k, l)'
  BY <1>2, <1>7, <1>9
<1> QED BY <1>3, <1>4, <1>5, <1>6, <1>8, <1>9, ChainIs

-----------------------------------------------------------------------------
(* The clean-up: what is cleaned up everybody sees                         *)

\* Whoever is active was so before, or starts now.
LEMMA ActiveWas ==
  ASSUME IInv, CleanInv, Sound, SoundInv, NEW t \in Txns, Step(t), NEW a \in active'
  PROVE  /\ a \in Txns
         /\ \/ a \in active /\ start_time'[a] = start_time[a] /\ (Leave(t) => a # t)
            \/ Start(t) /\ a = t /\ start_time'[a] = clock
<1>0. /\ WalInv /\ TxnTyped /\ ManagerTyped /\ DataTyped /\ ActiveInv /\ pc \in [Txns -> Pcs]
      /\ start_time \in [Txns -> Nat] /\ active \subseteq Txns
  BY DEF SoundInv, CleanInv, IInv, Typed, TxnTyped, ManagerTyped
<1>1. CASE Start(t)
  <2>1. active' = active \union {t} /\ start_time' = [start_time EXCEPT ![t] = clock] /\ pc[t] = "new" /\ pc'[t] = "running"
    BY <1>0, <1>1 DEF Start, Goto
  <2>2. t \notin active  BY <1>0, <2>1 DEF ActiveInv, Live
  <2>3. ~Leave(t)  BY <2>1 DEF Leave
  <2> QED BY <1>0, <1>1, <2>1, <2>2, <2>3
<1>2. CASE Leave(t)
  <2>1. active' = active \ {t}  BY <1>2 DEF Leave, RemoveTransaction
  <2>2. start_time' = [start_time EXCEPT ![t] = 0]  BY <1>2 DEF Leave
  <2> QED BY <1>0, <2>1, <2>2
<1>3. CASE ~Start(t) /\ ~Leave(t)
  <2>1. active' = active
    BY <1>0, <1>3, SoundCommit DEF Step, Insert, Delete, Update, CommitDirectly, CommitThroughWAL, WriteToWAL, TakeTimestamp,
      CommitEntry, CommitDone, Rollback, RollbackEntry, PopCleanup, CleanupEntry, CleanupDone, StartCheckpoint,
      FinishCheckpoint, managerVars, listVars
  <2>2. start_time'[t] = start_time[t]  BY <1>0, <1>3, FieldsStay
  <2>3. a \in Txns  BY <1>0, <2>1
  <2>4. a # t => start_time'[a] = start_time[a]  BY <2>3, OthersStay
  <2> QED BY <1>3, <2>1, <2>2, <2>3, <2>4
<1> QED BY <1>1, <1>2, <1>3

\* An entry of the queue stays as it is.
LEMMA ReadStays ==
  ASSUME IInv, CleanInv, Sound, SoundInv, NEW t \in Txns, Step(t), NEW w, ReadBy(w),
         \A u \in ToSet(w.txns) : u \in Txns /\ pc[u] \in EndedPcs
  PROVE  ReadBy(w)'
<1>0. WalInv /\ IdsInv /\ TimesInv /\ commit_id \in [Txns -> Nat]  BY DEF SoundInv, IInv, Typed
<1>1. SUFFICES ASSUME NEW u \in ToSet(w.txns), Committed(u)', HasUpdates(u)' \/ commit_id'[u] <= w.lowest,
                      NEW a \in active'
               PROVE  commit_id'[u] < start_time'[a]
  BY DEF ReadBy
<1>2. u \in Txns /\ pc[u] \in EndedPcs  OBVIOUS
<1>3. commit_id'[u] = commit_id[u]
  <2>1. CASE u # t  BY <1>2, <2>1, OthersStay
  <2>2. CASE u = t
    <3>1. ~CommitDirectly(t) /\ ~TakeTimestamp(t)
      BY <1>2, <2>2 DEF CommitDirectly, TakeTimestamp, Running, EndedPcs
    <3> QED BY <1>0, <3>1, FieldsStay
  <2> QED BY <2>1, <2>2
<1>4. HasUpdates(u)' => HasUpdates(u)
  <2>1. undo'[u] = undo[u] \/ undo'[u] = <<>>  BY <1>2, UndoIs DEF EndedPcs
  <2>2. DOMAIN <<>> = {}  OBVIOUS
  <2> QED BY <2>1, <2>2 DEF HasUpdates
<1>5. \A b \in active : commit_id[u] < start_time[b]
  <2>1. Committed(u)  BY <1>1, <1>3 DEF Committed
  <2> QED BY <1>1, <1>3, <1>4, <2>1 DEF ReadBy
<1>6. commit_id[u] < clock  BY <1>0, <1>2, IdsAre
<1> QED BY <1>3, <1>5, <1>6, ActiveWas

\* A transaction that leaves schedules what nobody needs any more.
LEMMA LeaveReads ==
  ASSUME IInv, CleanInv, Sound, SoundInv, NEW t \in Txns, Leave(t)
  PROVE  \/ cleanup_queue' = cleanup_queue
         \/ \E w \in Works : cleanup_queue' = Append(cleanup_queue, w) /\ ReadBy(w)'
<1>0. /\ TimesInv /\ TxnTyped /\ ManagerTyped /\ active \subseteq Txns /\ ActiveInv /\ pc \in [Txns -> Pcs]
      /\ commit_id \in [Txns -> Nat] /\ start_time \in [Txns -> Nat]
  BY DEF SoundInv, CleanInv, IInv, Typed, ManagerTyped, TxnTyped
<1>1. /\ pc[t] \in {"remove", "rollback"} /\ active' = active \ {t}
      /\ start_time' = [start_time EXCEPT ![t] = 0] /\ undo' = undo /\ commit_id' = commit_id
  BY DEF Leave, RemoveTransaction
<1> DEFINE lowest == LowestActiveStart(t)
<1>2. lowest \in Nat /\ \A a \in active \ {t} : lowest <= start_time[a]
  BY <1>0, LowestIs
<1>3. PICK n \in Nat, list \in Seq(Txns), txns \in Seq(Txns) :
           /\ n <= Len(list)
           /\ txns = (IF Scheduled(t) THEN <<t>> ELSE <<>>) \o SubSeq(list, 1, n)
           /\ \A i \in 1 .. n : commit_id[list[i]] < lowest
           /\ cleanup_queue' = IF txns = <<>> THEN cleanup_queue
                ELSE Append(cleanup_queue, [txns |-> txns, lowest |-> lowest])
  BY <1>0, LeaveIs
<1> HIDE DEF lowest
<1>4. ASSUME NEW u \in ToSet(txns) PROVE (u = t /\ Scheduled(t)) \/ (u \in Txns /\ commit_id[u] < lowest)
  <2>1. PICK k \in DOMAIN txns : u = txns[k]  BY DEF ToSet
  <2>2. SubSeq(list, 1, n) \in Seq(Txns) /\ Len(SubSeq(list, 1, n)) = n /\ \A i \in 1 .. n : SubSeq(list, 1, n)[i] = list[i]
    BY <1>3
  <2>3. CASE Scheduled(t)
    <3>1. txns = <<t>> \o SubSeq(list, 1, n)  BY <1>3, <2>3
    <3>2. k = 1 \/ k - 1 \in 1 .. n  BY <2>1, <2>2, <3>1
    <3>3. k = 1 => u = t  BY <2>1, <2>2, <3>1
    <3>4. k - 1 \in 1 .. n => u = list[k - 1] /\ u \in Txns
      <4>1. ASSUME k - 1 \in 1 .. n PROVE u = SubSeq(list, 1, n)[k - 1]
        BY <2>1, <2>2, <3>1, <4>1
      <4> QED BY <1>3, <2>2, <4>1
    <3> QED BY <1>3, <2>3, <3>2, <3>3, <3>4
  <2>4. CASE ~Scheduled(t)
    <3>1. txns = SubSeq(list, 1, n)
      <4>1. txns = <<>> \o SubSeq(list, 1, n)  BY <1>3, <2>4
      <4> QED BY <2>2, <4>1
    <3>2. k \in 1 .. n /\ u = list[k] /\ u \in Txns  BY <1>3, <2>1, <2>2, <3>1
    <3> QED BY <1>3, <3>2
  <2> QED BY <2>3, <2>4
<1>5. PICK w \in Works : w = [txns |-> txns, lowest |-> lowest] /\ w.txns = txns /\ w.lowest = lowest
  <2>1. [txns |-> txns, lowest |-> lowest] \in Works  BY <1>2, <1>3 DEF Works
  <2> QED BY <2>1
<1>6. ASSUME NEW u \in ToSet(txns), Committed(u), HasUpdates(u) \/ commit_id[u] <= lowest, NEW a \in active \ {t}
      PROVE  commit_id[u] < start_time[a]
  <2>1. lowest <= start_time[a] /\ start_time[a] \in Nat  BY <1>0, <1>2
  <2>2. CASE u \in Txns /\ commit_id[u] < lowest
    <3>1. commit_id[u] \in Nat  BY <1>0, <2>2
    <3> QED BY <1>2, <2>1, <2>2, <3>1
  <2>3. CASE u = t /\ Scheduled(t)
    <3>1. ~HasUpdates(t)  BY <1>6, <2>3 DEF Scheduled, Kept, Stored
    <3>2. commit_id[t] <= lowest /\ commit_id[t] \in Nat  BY <1>0, <1>6, <2>3, <3>1
    <3>3. pc[t] = "remove"
      <4>1. pc[t] = "rollback" => commit_id[t] = 0  BY DEF IInv, Unstamped, EarlyPcs
      <4> QED BY <1>1, <1>6, <2>3, <4>1 DEF Committed
    <3>4. start_time[a] < commit_id[t]  BY <1>0, <1>6, <3>3 DEF TimesInv, StampedPcs
    <3> QED BY <1>2, <2>1, <3>2, <3>4
  <2> QED BY <1>4, <2>2, <2>3
<1>7. ReadBy(w)'
  <2>1. \A u : (Committed(u)' <=> Committed(u)) /\ (HasUpdates(u)' <=> HasUpdates(u))
    BY <1>1 DEF Committed, HasUpdates
  <2>2. \A a \in active' : a \in active \ {t} /\ start_time'[a] = start_time[a]  BY <1>0, <1>1
  <2> QED BY <1>1, <1>5, <1>6, <2>1, <2>2 DEF ReadBy
<1>8. cleanup_queue' = cleanup_queue \/ cleanup_queue' = Append(cleanup_queue, w)
  BY <1>3, <1>5
<1> QED BY <1>5, <1>7, <1>8

\* Two names for what awaits clean-up,
LEMMA ReadAs ==
  ASSUME NEW w, NEW i, w = cleanup_queue'[i], ReadBy(w)'
  PROVE  ReadBy(cleanup_queue[i])'
BY DEF ReadBy

\* or is being cleaned up.
LEMMA ReadWork ==
  ASSUME NEW w, w = work', ReadBy(w)'
  PROVE  ReadBy(work)'
BY DEF ReadBy

\* After a step there is again nothing to clean up that somebody may read.
LEMMA ReadersKept ==
  ASSUME IInv, CleanInv, Sound, SoundInv, SnapshotInv, NEW t \in Txns, Step(t)
  PROVE  ReadersInv'
<1>0. DataTyped /\ TxnTyped /\ ManagerTyped /\ PlaceInv /\ ReadersInv /\ cleanup_queue \in Seq(Works)
  BY DEF CleanInv, SnapshotInv, ManagerTyped
<1>1. /\ \A i \in DOMAIN cleanup_queue : \A u \in ToSet(cleanup_queue[i].txns) : u \in Txns /\ pc[u] \in EndedPcs
      /\ \A u \in ToSet(work.txns) : u \in Txns /\ pc[u] \in EndedPcs
  BY <1>0, QueueTypes DEF PlaceInv, InQueue
<1>2. ASSUME NEW w, \E i \in DOMAIN cleanup_queue : w = cleanup_queue[i] PROVE ReadBy(w)'
  <2>1. ReadBy(w) /\ \A u \in ToSet(w.txns) : u \in Txns /\ pc[u] \in EndedPcs  BY <1>0, <1>1, <1>2 DEF ReadersInv
  <2> QED BY <2>1, ReadStays
<1>3. ASSUME work' = work \/ (cleanup_queue # <<>> /\ work' = cleanup_queue[1]) \/ work' = NoWork PROVE ReadBy(work)'
  <2>1. CASE work' = NoWork  BY <2>1 DEF ReadBy, NoWork, ToSet
  <2>2. CASE work' = work
    <3>1. PICK w : w = work /\ w = work'  BY <2>2
    <3>2. ReadBy(w) /\ \A u \in ToSet(w.txns) : u \in Txns /\ pc[u] \in EndedPcs  BY <1>0, <1>1, <3>1 DEF ReadersInv
    <3>3. ReadBy(w)'  BY <3>2, ReadStays
    <3> QED BY <3>1, <3>3, ReadWork
  <2>3. CASE cleanup_queue # <<>> /\ work' = cleanup_queue[1]
    <3>1. 1 \in DOMAIN cleanup_queue  BY <1>0, <2>3
    <3>2. PICK w : w = work'  OBVIOUS
    <3>3. ReadBy(w)'  BY <1>2, <2>3, <3>1, <3>2
    <3> QED BY <3>2, <3>3, ReadWork
  <2> QED BY <1>3, <2>1, <2>2, <2>3
<1>4. ASSUME NEW i \in DOMAIN cleanup_queue', \E k \in DOMAIN cleanup_queue : cleanup_queue'[i] = cleanup_queue[k]
      PROVE  ReadBy(cleanup_queue[i])'
  <2>1. PICK w : w = cleanup_queue'[i]  OBVIOUS
  <2>2. ReadBy(w)'  BY <1>2, <1>4, <2>1
  <2> QED BY <2>1, <2>2, ReadAs
<1>5. CASE ~Leave(t) /\ ~PopCleanup(t) /\ ~CleanupDone(t)
  <2>1. UNCHANGED <<cleanup_queue, work>>  BY <1>0, <1>5, ListsKept
  <2> QED BY <1>3, <1>4, <2>1 DEF ReadersInv
<1>6. CASE CleanupDone(t)
  <2>1. cleanup_queue' = cleanup_queue /\ work' = NoWork  BY <1>6 DEF CleanupDone
  <2> QED BY <1>3, <1>4, <2>1 DEF ReadersInv
<1>7. CASE PopCleanup(t)
  <2>1. CASE work' = work /\ cleanup_queue' = cleanup_queue  BY <1>3, <1>4, <2>1 DEF ReadersInv
  <2>2. CASE cleanup_queue # <<>> /\ work' = Head(cleanup_queue) /\ cleanup_queue' = Tail(cleanup_queue)
    <3>1. /\ work' = cleanup_queue[1]
          /\ \A i \in DOMAIN cleanup_queue' : i + 1 \in DOMAIN cleanup_queue /\ cleanup_queue'[i] = cleanup_queue[i + 1]
      BY <1>0, <2>2
    <3> QED BY <1>3, <1>4, <2>2, <3>1 DEF ReadersInv
  <2> QED BY <1>7, <2>1, <2>2 DEF PopCleanup
<1>8. CASE Leave(t)
  <2>0. work' = work  BY <1>8 DEF Leave
  <2>1. CASE cleanup_queue' = cleanup_queue  BY <1>3, <1>4, <2>0, <2>1 DEF ReadersInv
  <2>2. ASSUME NEW w \in Works, cleanup_queue' = Append(cleanup_queue, w), ReadBy(w)' PROVE ReadersInv'
    <3>1. /\ \A i \in DOMAIN cleanup_queue' : i \in DOMAIN cleanup_queue \/ i = Len(cleanup_queue) + 1
          /\ \A i \in DOMAIN cleanup_queue : cleanup_queue'[i] = cleanup_queue[i]
          /\ cleanup_queue'[Len(cleanup_queue) + 1] = w
      BY <1>0, <2>2
    <3>3. ASSUME NEW i \in DOMAIN cleanup_queue' PROVE ReadBy(cleanup_queue[i])'
      <4>1. CASE i \in DOMAIN cleanup_queue  BY <1>4, <3>1, <4>1
      <4>2. CASE i = Len(cleanup_queue) + 1
        <5>1. w = cleanup_queue'[i]  BY <3>1, <4>2
        <5> QED BY <2>2, <5>1, ReadAs
      <4> QED BY <3>1, <4>1, <4>2
    <3> QED BY <1>3, <2>0, <3>3 DEF ReadersInv
  <2> QED BY <1>8, <2>1, <2>2, LeaveReads
<1> QED BY <1>5, <1>6, <1>7, <1>8

\* Every step keeps the invariant,
LEMMA SnapshotStep ==
  ASSUME IInv, CleanInv, Sound, SoundInv, SnapshotInv, NEW t \in Txns, Step(t)
  PROVE  SnapshotInv'
<1>1. AbsentInv' /\ LocalInv' /\ AgeInv'  BY AbsentKept, LocalKept, AgeKept
<1>2. MarkInv' /\ StampedMarksInv' /\ PendingValueInv'  BY MarkKept, StampedMarksKept, PendingValueKept
<1>3. ChainInv' /\ ReadersInv'  BY ChainKept, ReadersKept
<1> QED BY <1>1, <1>2, <1>3 DEF SnapshotInv

\* and so does one that changes nothing.
LEMMA SnapshotStill ==
  ASSUME SnapshotInv, UNCHANGED vars
  PROVE  SnapshotInv'
<1> USE DEF vars, managerVars, lockVars, listVars, checkpointVars, versionVars, updateVars, txnVars
<1> USE DEF SnapshotInv
<1>0. \A r : (Vec(r)' = Vec(r)) /\ (Old(r)' <=> Old(r))  BY DEF Vec, Old
<1>1. AbsentInv' /\ AgeInv'  BY DEF AbsentInv, AgeInv
<1>2. LocalInv' /\ PendingValueInv'  BY DEF LocalInv, PendingValueInv, Appends
<1>3. MarkInv'  BY <1>0 DEF MarkInv, Marking, Deletes
<1>4. StampedMarksInv'  BY DEF StampedMarksInv, Deletes
<1>5. OwnVersionInv' /\ FrontInv' /\ RowOrderInv' /\ NewestInv'
  BY DEF ChainInv, OwnVersionInv, FrontInv, RowOrderInv, NewestInv
<1>6. OldRowsInv'  BY <1>0 DEF ChainInv, OldRowsInv
<1>7. ReadersInv'  BY DEF ReadersInv, ReadBy, Committed, HasUpdates
<1> QED BY <1>1, <1>2, <1>3, <1>4, <1>5, <1>6, <1>7 DEF ChainInv

\* Every step of the system keeps SnapshotInv.
LEMMA StepSnapshotInv ==
  IInv /\ CleanInv /\ (Sound => SoundInv) /\ (Sound => SnapshotInv) /\ [Next]_vars => (Sound => SnapshotInv)'
<1> SUFFICES ASSUME IInv, CleanInv, Sound => SoundInv, Sound => SnapshotInv, [Next]_vars, Sound' PROVE SnapshotInv'
  OBVIOUS
<1>1. CASE UNCHANGED vars
  <2>1. Sound  BY <1>1 DEF vars, Sound
  <2> QED BY <1>1, <2>1, SnapshotStill
<1>2. CASE AllDone
  <2>1. UNCHANGED vars  BY <1>2 DEF AllDone
  <2> QED BY <1>1, <2>1
<1>3. ASSUME NEW t \in Txns, Step(t) PROVE SnapshotInv'
  <2>1. Sound
    <3>1. setup' = setup  BY <1>3, SetupStays
    <3> QED BY <3>1 DEF Sound
  <2> QED BY <1>3, <2>1, SnapshotStep
<1>4. [Next]_vars => UNCHANGED vars \/ AllDone \/ \E t \in Txns : Step(t)
  BY DEF Next, Step
<1> QED BY <1>1, <1>2, <1>3, <1>4

-----------------------------------------------------------------------------
(* Phases, and the rows that a transaction has deleted or updated          *)

PhaseAt(l) ==
  CASE l \in {"new", "running"}           -> l
    [] l \in {"wal", "written", "commit"} -> "ending"
    [] l \in {"failed", "rollback"}       -> "aborting"
    [] OTHER                              -> "done"

\* The phase of who is a transaction of the setup, and that of the others.
PhasesAre == \A t \in Txns : Phase(t) = IF t \in DOMAIN setup.changes THEN PhaseAt(pc[t]) ELSE "new"

\* The phase follows from pc.
LEMMA PhaseIs == AbsentInv => PhasesAre
<1> SUFFICES ASSUME AbsentInv, NEW t \in Txns
             PROVE  Phase(t) = IF t \in DOMAIN setup.changes THEN PhaseAt(pc[t]) ELSE "new"
  BY DEF PhasesAre
<1>1. CASE t \notin DOMAIN setup.changes
  <2>1. pc[t] = "done"  BY <1>1 DEF AbsentInv
  <2> QED BY <1>1, <2>1 DEF Phase
<1>2. CASE t \in DOMAIN setup.changes  BY <1>2 DEF Phase, PhaseAt
<1> QED BY <1>1, <1>2

\* The phases, by the places in the code.
LEMMA PhaseAtIs ==
  /\ PhaseAt("new") = "new" /\ PhaseAt("running") = "running"
  /\ \A l \in {"wal", "written", "commit"} : PhaseAt(l) = "ending"
  /\ \A l \in {"failed", "rollback"} : PhaseAt(l) = "aborting"
  /\ \A l \in {"remove"} \union EndedPcs : PhaseAt(l) = "done"
BY DEF PhaseAt, EndedPcs

\* Only the phase of who acts changes.
LEMMA PhasesMove ==
  ASSUME IInv, CleanInv, Sound, SoundInv, SnapshotInv, NEW t \in Txns, Step(t)
  PROVE  /\ Phases[t] = PhaseAt(pc[t]) /\ Phase(t) = PhaseAt(pc[t]) /\ Phase(t)' = PhaseAt(pc'[t])
         /\ Phases' = [Phases EXCEPT ![t] = PhaseAt(pc'[t])]
         /\ \A u \in Txns \ {t} : Phase(u)' = Phase(u)
<1>1. setup' = setup /\ t \in DOMAIN setup.changes  BY SetupStays, SetupActs
<1>2. AbsentInv /\ AbsentInv'  BY AbsentKept DEF SnapshotInv
<1>3. \A u \in Txns : Phase(u) = IF u \in DOMAIN setup.changes THEN PhaseAt(pc[u]) ELSE "new"
  BY <1>2, PhaseIs DEF PhasesAre
<1>4. \A u \in Txns : Phase(u)' = IF u \in DOMAIN setup'.changes THEN PhaseAt(pc'[u]) ELSE "new"
  <2>1. (AbsentInv => PhasesAre)'  BY PhaseIs, PTL
  <2> QED BY <1>2, <2>1 DEF PhasesAre
<1>5. \A u \in Txns \ {t} : Phase(u)' = Phase(u)
  <2>1. \A u \in Txns \ {t} : pc'[u] = pc[u]  BY OthersStay
  <2> QED BY <1>1, <1>3, <1>4, <2>1
<1> QED BY <1>1, <1>3, <1>4, <1>5 DEF Phases

\* Whose phase is "done" has no part in the invariant,
LEMMA PhaseDone ==
  ASSUME IInv, SnapshotInv, NEW t \in Txns
  PROVE  /\ pc[t] \in Undecided => Phase(t) # "done"
         /\ Phase(t) # "done" => pc[t] \in Undecided \/ pc[t] = "new" \/ (t \notin DOMAIN setup.changes /\ pc[t] = "done")
<1>1. Phase(t) = IF t \in DOMAIN setup.changes THEN PhaseAt(pc[t]) ELSE "new"  BY PhaseIs DEF SnapshotInv, PhasesAre
<1>2. t \notin DOMAIN setup.changes => pc[t] = "done"  BY DEF SnapshotInv, AbsentInv
<1>3. pc[t] \in Pcs  BY DEF IInv, Typed
<1> QED BY <1>1, <1>2, <1>3, PhaseAtIs DEF Undecided, Live, Pcs, EndedPcs

\* and who has not started has nothing in his undo buffer.
LEMMA UnstartedIs ==
  ASSUME IInv, CleanInv, SnapshotInv, NEW t \in Txns, Phase(t) # "done", pc[t] \notin Undecided
  PROVE  undo[t] = <<>>
<1>1. pc[t] = "new" \/ t \notin DOMAIN setup.changes  BY PhaseDone
<1>2. pc[t] = "new" => undo[t] = <<>>  BY NewIsEmpty DEF CleanInv
<1> QED BY <1>1, <1>2 DEF SnapshotInv, AbsentInv

\* Rows deleted are those of the marks that the transaction has,
Deletion(t, r) == \E i \in Deletes(t) : Marking(t, i) /\ r \in undo[t][i].rows
DeletedAre == \A t \in Txns : \A r : r \in DeletedBy(t) <=> Deletion(t, r)

\* Nothing else counts as deleted.
LEMMA DeletedByIs == IInv /\ CleanInv /\ SnapshotInv => DeletedAre
<1> SUFFICES ASSUME IInv, CleanInv, SnapshotInv, NEW t \in Txns
             PROVE  \A r : r \in DeletedBy(t) <=> Deletion(t, r)
  BY DEF DeletedAre
<1> USE DEF Deletion
<1>1. CASE Phase(t) = "done"
  <2>1. pc[t] \notin Undecided  BY <1>1, PhaseDone
  <2> QED BY <1>1, <2>1 DEF DeletedBy, Marking, Undecided
<1>2. CASE Phase(t) # "done" /\ pc[t] \notin Undecided
  <2>1. undo[t] = <<>>  BY <1>2, UnstartedIs
  <2>2. DOMAIN undo[t] = {}  BY <2>1
  <2> QED BY <1>2, <2>2 DEF DeletedBy, Deletes
<1>3. CASE Phase(t) # "done" /\ pc[t] \in Undecided
  BY <1>3 DEF DeletedBy, Marking, Undecided, Deletes
<1> QED BY <1>1, <1>2, <1>3

\* and rows updated those of the UpdateInfos that he has in the chains.
Has(v, u, r) == \E i \in DOMAIN chain[v] : chain[v][i].owner = u /\ r \in DOMAIN chain[v][i].old

UpdatedAre ==
  \A t \in Txns : \A r : r \in UpdatedBy(t) <=> pc[t] \in Undecided /\ r \in Rows /\ \E v \in Rows : Has(v, t, r)

\* Nothing else counts as updated.
LEMMA UpdatedByIs == IInv /\ CleanInv /\ SoundInv /\ SnapshotInv => UpdatedAre
<1> SUFFICES ASSUME IInv, CleanInv, SoundInv, SnapshotInv, NEW t \in Txns
             PROVE  \A r : r \in UpdatedBy(t) <=> pc[t] \in Undecided /\ r \in Rows /\ \E v \in Rows : Has(v, t, r)
  BY DEF UpdatedAre
<1>1. CASE Phase(t) = "done"
  <2>1. pc[t] \notin Undecided  BY <1>1, PhaseDone
  <2> QED BY <1>1, <2>1 DEF UpdatedBy
<1>2. CASE Phase(t) # "done" /\ pc[t] \notin Undecided
  <2>1. undo[t] = <<>>  BY <1>2, UnstartedIs
  <2>2. ~HasUpdates(t)
    <3>1. DOMAIN undo[t] = {}  BY <2>1
    <3> QED BY <3>1 DEF HasUpdates
  <2>3. \A v \in Rows : \A i \in DOMAIN chain[v] : chain[v][i].owner # t  BY <2>2, VersionIs
  <2> QED BY <1>2, <2>3 DEF UpdatedBy
<1>3. CASE Phase(t) # "done" /\ pc[t] \in Undecided
  BY <1>3 DEF UpdatedBy, Has
<1> QED BY <1>1, <1>2, <1>3

\* A step keeps all the invariants.
LEMMA AllKept ==
  ASSUME IInv, CleanInv, Sound, SoundInv, SnapshotInv, NEW t \in Txns, Step(t)
  PROVE  IInv' /\ CleanInv' /\ SoundInv' /\ SnapshotInv' /\ DataTyped'
<1>1. IInv'
  <2>1. Next  BY DEF Next, Step
  <2> QED BY <2>1, StepIInv
<1>2. CleanInv' /\ SoundInv' /\ SnapshotInv'  BY CleanStep, SoundStep, SnapshotStep
<1>3. DataTyped'  BY <1>2 DEF CleanInv
<1> QED BY <1>1, <1>2, <1>3

\* What a transaction has deleted stays, but for what a DELETE adds, a roll-back
\* gives up, and a commit makes known.
LEMMA DeletedMoves ==
  ASSUME IInv, CleanInv, Sound, SoundInv, SnapshotInv, NEW t \in Txns, Step(t), NEW u \in Txns
  PROVE  /\ u # t \/ ~(Delete(t) \/ RollbackEntry(t) \/ CommitDone(t)) => DeletedBy(u)' = DeletedBy(u)
         /\ ~Delete(t) => DeletedBy(u)' \subseteq DeletedBy(u)
<1>1. DeletedAre /\ DeletedAre'
  <2>1. (IInv /\ CleanInv /\ SnapshotInv => DeletedAre)'  BY DeletedByIs, PTL
  <2> QED BY <2>1, DeletedByIs, AllKept
<1>2. \A r : r \in DeletedBy(u) <=> Deletion(u, r)  BY <1>1 DEF DeletedAre
<1>3. \A r : r \in DeletedBy(u)' <=> Deletion(u, r)'  BY <1>1 DEF DeletedAre
<1>4. ASSUME NEW r, Deletion(u, r)', ~(u = t /\ Delete(t)) PROVE Deletion(u, r)
  <2>1. PICK i \in Deletes(u)' : Marking(u, i)' /\ r \in undo'[u][i].rows  BY <1>4 DEF Deletion
  <2>2. i \in Deletes(u) /\ undo'[u][i] = undo[u][i]  BY <1>4, <2>1, MarkingIs
  <2>3. Marking(u, i)
    <3>1. pc'[u] \in Live \ {"remove"} /\ (pc'[u] = "rollback" => i <= done'[u])  BY <2>1 DEF Marking
    <3> QED BY <2>2, <3>1, MarkingWas DEF SoundInv
  <2> QED BY <2>1, <2>2, <2>3 DEF Deletion
<1>5. ASSUME NEW r, Deletion(u, r), u # t \/ ~(RollbackEntry(t) \/ CommitDone(t)) PROVE Deletion(u, r)'
  <2>1. PICK i \in Deletes(u) : Marking(u, i) /\ r \in undo[u][i].rows  BY <1>5 DEF Deletion
  <2>2. Marking(u, i)' /\ undo'[u][i] = undo[u][i]  BY <1>5, <2>1, MarkingStays
  <2> QED BY <2>1, <2>2 DEF Deletion, Marking
<1> QED BY <1>2, <1>3, <1>4, <1>5

\* A DELETE adds the rows it marks.
LEMMA DeletedAdds ==
  ASSUME IInv, CleanInv, Sound, SoundInv, SnapshotInv, NEW t \in Txns, Delete(t),
         NEW fresh \in SUBSET Rows, NEW v \in Nat \ {0}, pc' = pc,
         Record(t, [kind |-> "delete", at |-> v, rows |-> fresh])
  PROVE  DeletedBy(t)' = DeletedBy(t) \union fresh
<1>0. Step(t) /\ DataTyped /\ pc[t] = "running"  BY DEF Step, CleanInv, Delete, CanChange, Running
<1>1. DeletedAre /\ DeletedAre'
  <2>1. (IInv /\ CleanInv /\ SnapshotInv => DeletedAre)'  BY DeletedByIs, PTL
  <2> QED BY <1>0, <2>1, DeletedByIs, AllKept
<1> DEFINE rec == [kind |-> "delete", at |-> v, rows |-> fresh]
<1>2. rec \in Records /\ Record(t, rec) /\ rec.kind = "delete" /\ rec.rows = fresh
  BY ConstantTypes DEF Records
<1> HIDE DEF rec
<1>3. /\ Len(undo[t]) \in Nat /\ undo'[t][Len(undo[t]) + 1] = rec
      /\ DOMAIN undo'[t] = 1 .. Len(undo[t]) + 1 /\ DOMAIN undo[t] = 1 .. Len(undo[t])
      /\ \A i \in DOMAIN undo[t] : undo'[t][i] = undo[t][i]
  BY <1>0, <1>2, RecordIs
<1>4. /\ \A i : i \in Deletes(t)' <=> i \in Deletes(t) \/ i = Len(undo[t]) + 1
      /\ \A i \in Deletes(t) : undo'[t][i] = undo[t][i]
  BY <1>2, <1>3 DEF Deletes
<1>5. \A i : (Marking(t, i)' <=> i \in Deletes(t)') /\ (Marking(t, i) <=> i \in Deletes(t))
  BY <1>0 DEF Marking, Live
<1>6. \A r : Deletion(t, r)' <=> Deletion(t, r) \/ r \in fresh
  BY <1>2, <1>3, <1>4, <1>5 DEF Deletion
<1>7. \A r : r \in DeletedBy(t) <=> Deletion(t, r)  BY <1>1 DEF DeletedAre
<1>8. \A r : r \in DeletedBy(t)' <=> Deletion(t, r)'  BY <1>1 DEF DeletedAre
<1> QED BY <1>6, <1>7, <1>8

\* What happens to the UpdateInfos of a transaction,
LEMMA HasMerged ==
  ASSUME NEW t \in Txns, NEW v \in Rows, NEW rows \in SUBSET Rows, Merges(t, v, rows), CleanInv,
         NEW w \in Rows, NEW u \in Txns, NEW r
  PROVE  Has(w, u, r)' <=> Has(w, u, r) \/ (w = v /\ u = t /\ r \in rows)
<1>1. CASE w # v
  <2>1. chain'[w] = chain[w]  BY <1>1 DEF Merges
  <2> QED BY <1>1, <2>1 DEF Has
<1>2. CASE w = v
  <2>1. ASSUME NEW m \in DOMAIN chain[v], chain[v][m].owner = t, DOMAIN chain'[v] = DOMAIN chain[v],
               \A i \in DOMAIN chain[v] :
                 /\ chain'[v][i].owner = chain[v][i].owner
                 /\ chain'[v][i].old = IF i # m THEN chain[v][i].old ELSE OldValues(chain[v][i].old, rows)
        PROVE  Has(v, u, r)' <=> Has(v, u, r) \/ (u = t /\ r \in rows)
    <3>1. chain'[v][m].old = OldValues(chain[v][m].old, rows)  BY <2>1
    <3>2. DOMAIN OldValues(chain[v][m].old, rows) = DOMAIN chain[v][m].old \union rows  BY OldValuesIs, Zenon
    <3>3. DOMAIN chain'[v][m].old = DOMAIN chain[v][m].old \union rows  BY <3>1, <3>2
    <3>4. \A i \in DOMAIN chain[v] : chain'[v][i].owner = chain[v][i].owner /\ (i # m => chain'[v][i].old = chain[v][i].old)
      BY <2>1
    <3> QED BY <2>1, <3>3, <3>4 DEF Has
  <2>2. ASSUME DOMAIN chain'[v] = 1 .. Len(chain[v]) + 1, chain'[v][1].owner = t,
               chain'[v][1].old = OldValues(<<>>, rows),
               \A i \in DOMAIN chain[v] : chain'[v][i + 1] = chain[v][i]
        PROVE  Has(v, u, r)' <=> Has(v, u, r) \/ (u = t /\ r \in rows)
    <3>1. DOMAIN chain[v] = 1 .. Len(chain[v]) /\ Len(chain[v]) \in Nat
      <4>1. chain[v] \in Seq(Infos)  BY DEF CleanInv, DataTyped
      <4> QED BY <4>1
    <3>2. DOMAIN chain'[v][1].old = rows
      <4>1. DOMAIN OldValues(<<>>, rows) = (DOMAIN <<>>) \union rows  BY DEF OldValues
      <4>2. DOMAIN <<>> = {}  OBVIOUS
      <4> QED BY <2>2, <4>1, <4>2
    <3>3. ASSUME Has(v, u, r)' PROVE Has(v, u, r) \/ (u = t /\ r \in rows)
      <4>1. PICK k \in DOMAIN chain'[v] : chain'[v][k].owner = u /\ r \in DOMAIN chain'[v][k].old
        BY <3>3 DEF Has
      <4>2. CASE k = 1  BY <2>2, <3>2, <4>1, <4>2
      <4>3. CASE k # 1
        <5>1. k - 1 \in DOMAIN chain[v] /\ k = (k - 1) + 1  BY <2>2, <3>1, <4>1, <4>3
        <5>2. chain'[v][k] = chain[v][k - 1]  BY <2>2, <5>1
        <5> QED BY <4>1, <5>1, <5>2 DEF Has
      <4> QED BY <4>2, <4>3
    <3>4. ASSUME Has(v, u, r) PROVE Has(v, u, r)'
      <4>1. PICK i \in DOMAIN chain[v] : chain[v][i].owner = u /\ r \in DOMAIN chain[v][i].old
        BY <3>4 DEF Has
      <4>2. i + 1 \in DOMAIN chain'[v] /\ chain'[v][i + 1] = chain[v][i]  BY <2>2, <3>1, <4>1
      <4> QED BY <4>1, <4>2 DEF Has
    <3>5. ASSUME u = t, r \in rows PROVE Has(v, u, r)'
      <4>1. 1 \in DOMAIN chain'[v]  BY <2>2, <3>1
      <4> QED BY <2>2, <3>2, <3>5, <4>1 DEF Has
    <3> QED BY <3>3, <3>4, <3>5
  <2> QED BY <1>2, <2>1, <2>2 DEF Merges
<1> QED BY <1>1, <1>2

\* of the owner whose UpdateInfo is unlinked,
LEMMA HasUnlinked ==
  ASSUME CleanInv, NEW x, NEW v \in Rows, NEW m, Unlinks(x, v, m), NEW w \in Rows, NEW u, NEW r
  PROVE  Has(w, u, r)' <=> Has(w, u, r) /\ ~(w = v /\ u = x)
<1>1. CASE w # v
  <2>1. chain'[w] = chain[w]  BY <1>1 DEF Unlinks
  <2> QED BY <1>1, <2>1 DEF Has
<1>2. CASE w = v
  <2>0. chain[v] \in Seq(Infos)  BY DEF CleanInv, DataTyped
  <2>1. DOMAIN chain[v] = 1 .. Len(chain[v]) /\ Len(chain[v]) \in Nat  BY <2>0
  <2>2. /\ m \in DOMAIN chain[v] /\ chain[v][m].owner = x /\ \A i \in DOMAIN chain[v] : chain[v][i].owner = x => i = m
        /\ DOMAIN chain'[v] = 1 .. Len(chain[v]) - 1
        /\ \A k \in DOMAIN chain'[v] : /\ (IF k < m THEN k ELSE k + 1) \in DOMAIN chain[v] \ {m}
                                       /\ chain'[v][k] = chain[v][IF k < m THEN k ELSE k + 1]
    BY DEF Unlinks
  <2>3. ASSUME Has(v, u, r)' PROVE Has(v, u, r) /\ u # x
    <3>1. PICK k \in DOMAIN chain'[v] : chain'[v][k].owner = u /\ r \in DOMAIN chain'[v][k].old
      BY <2>3 DEF Has
    <3>2. PICK i \in DOMAIN chain[v] \ {m} : chain'[v][k] = chain[v][i]  BY <2>2
    <3> QED BY <2>2, <3>1, <3>2 DEF Has
  <2>4. ASSUME Has(v, u, r), u # x PROVE Has(v, u, r)'
    <3>1. PICK i \in DOMAIN chain[v] : chain[v][i].owner = u /\ r \in DOMAIN chain[v][i].old
      BY <2>4 DEF Has
    <3>2. i # m /\ i \in Nat /\ m \in Nat  BY <2>1, <2>2, <2>4, <3>1
    <3>3. PICK k \in DOMAIN chain'[v] : (IF k < m THEN k ELSE k + 1) = i
      <4>1. CASE i < m
        <5>1. i \in DOMAIN chain'[v]  BY <2>1, <2>2, <3>2, <4>1
        <5> QED BY <4>1, <5>1
      <4>2. CASE ~(i < m)
        <5>1. i - 1 \in DOMAIN chain'[v] /\ ~(i - 1 < m) /\ (i - 1) + 1 = i  BY <2>1, <2>2, <3>2, <4>2
        <5> QED BY <5>1
      <4> QED BY <4>1, <4>2
    <3>4. chain'[v][k] = chain[v][i]  BY <2>2, <3>3
    <3> QED BY <3>1, <3>4 DEF Has
  <2> QED BY <1>2, <2>3, <2>4
<1> QED BY <1>1, <1>2

\* and of one whose UpdateInfo is stamped.
LEMMA HasRenamed ==
  ASSUME CleanInv, NEW t \in Txns, NEW id \in Nat, NEW v \in Rows, chain' = [chain EXCEPT ![v] = Renamed(@, t, id)],
         NEW w \in Rows, NEW u, NEW r
  PROVE  Has(w, u, r)' <=> Has(w, u, r)
<1>0. chain \in [Rows -> Seq(Infos)]  BY DEF CleanInv, DataTyped
<1>1. CASE w # v
  <2>1. chain'[w] = chain[w]  BY <1>0, <1>1
  <2> QED BY <1>1, <2>1 DEF Has
<1>2. CASE w = v
  <2>1. chain'[v] = Renamed(chain[v], t, id) /\ chain[v] \in Seq(Infos)  BY <1>0
  <2>2. /\ DOMAIN chain'[v] = DOMAIN chain[v]
        /\ \A i \in DOMAIN chain[v] : chain'[v][i].owner = chain[v][i].owner /\ chain'[v][i].old = chain[v][i].old
    BY <2>1, RenamedIs
  <2> QED BY <1>2, <2>2 DEF Has
<1> QED BY <1>1, <1>2

\* Who decides now, or goes: of all other steps pc stays among the undecided.
LEMMA UndecidedStays ==
  ASSUME IInv, CleanInv, NEW t \in Txns, Step(t), NEW u \in Txns, pc[u] \in Undecided,
         u # t \/ ~(CommitDone(t) \/ Leave(t))
  PROVE  pc'[u] \in Undecided
<1>1. CASE u # t
  <2>1. pc'[u] = pc[u]  BY <1>1, OthersStay
  <2> QED BY <2>1
<1>2. CASE u = t
  <2>0. pc \in [Txns -> Pcs]  BY DEF IInv, Typed
  <2>1. pc' = pc => pc'[t] \in Undecided  BY <1>2
  <2>2. ASSUME NEW l \in Undecided, Goto(t, l) PROVE pc'[t] \in Undecided
    BY <2>0, <2>2 DEF Goto
  <2>3. {"failed", "wal", "written", "commit", "rollback"} \subseteq Undecided  BY DEF Undecided, Live
  <2>4. Insert(t) \/ CommitEntry(t) \/ RollbackEntry(t) => pc' = pc  BY DEF Insert, CommitEntry, RollbackEntry
  <2>5. Delete(t) => pc' = pc \/ Goto(t, "failed")  BY DEF Delete, DeleteRows
  <2>6. Update(t) => pc' = pc \/ Goto(t, "failed")  BY DEF Update
  <2>7. CommitDirectly(t) \/ CommitThroughWAL(t) \/ WriteToWAL(t) \/ TakeTimestamp(t) \/ FlushFails(t) \/ Rollback(t) =>
          \E l \in {"failed", "wal", "written", "commit", "rollback"} : Goto(t, l)
    BY DEF CommitDirectly, CommitThroughWAL, WriteToWAL, TakeTimestamp, FlushFails, Rollback, GotoRollback
  <2>8. ~(Start(t) \/ PopCleanup(t) \/ CleanupEntry(t) \/ CleanupDone(t) \/ StartCheckpoint(t) \/ FinishCheckpoint(t))
    BY <1>2 DEF Start, PopCleanup, CleanupEntry, CleanupDone, StartCheckpoint, FinishCheckpoint, Undecided, Live
  <2> QED BY <1>2, <2>1, <2>2, <2>3, <2>4, <2>5, <2>6, <2>7, <2>8 DEF Step
<1> QED BY <1>1, <1>2

\* What a step makes of the UpdateInfos of who is undecided.
LEMMA HasMoves ==
  ASSUME IInv, CleanInv, Sound, SoundInv, SnapshotInv, NEW t \in Txns, Step(t), NEW u \in Txns,
         pc[u] \in Undecided, NEW w \in Rows, NEW r
  PROVE  /\ u # t \/ ~(Update(t) /\ pc' = pc) => (Has(w, u, r)' => Has(w, u, r))
         /\ u # t \/ ~RollbackEntry(t) => (Has(w, u, r) => Has(w, u, r)')
<1>1. CASE UNCHANGED chain  BY <1>1 DEF Has
<1>2. ASSUME Update(t), pc' = pc, NEW v \in Rows, NEW rows \in SUBSET Rows, Merges(t, v, rows)
      PROVE  (Has(w, u, r)' <=> Has(w, u, r) \/ (w = v /\ u = t /\ r \in rows))
  BY <1>2, HasMerged
<1>3. ASSUME CommitEntry(t), NEW v \in Rows, chain' = [chain EXCEPT ![v] = Renamed(@, t, commit_id[t])]
      PROVE  Has(w, u, r)' <=> Has(w, u, r)
  <2>1. commit_id[t] \in Nat  BY DEF IInv, Typed
  <2> QED BY <1>3, <2>1, HasRenamed
<1>4. ASSUME RollbackEntry(t), NEW v \in Rows, NEW m \in DOMAIN chain[v], Unlinks(t, v, m)
      PROVE  Has(w, u, r)' <=> Has(w, u, r) /\ ~(w = v /\ u = t)
  BY <1>4, HasUnlinked
<1>5. ASSUME CleanupEntry(t), NEW x \in ToSet(work.txns) \cap Txns, NEW v \in Rows,
             NEW m \in DOMAIN chain[v], Unlinks(x, v, m)
      PROVE  Has(w, u, r)' <=> Has(w, u, r)
  <2>1. pc[x] \in EndedPcs  BY DEF CleanInv, PlaceInv
  <2>2. x # u  BY <2>1 DEF EndedPcs, Undecided, Live
  <2>3. Has(w, u, r)' <=> Has(w, u, r) /\ ~(w = v /\ u = x)  BY <1>5, HasUnlinked
  <2> QED BY <2>2, <2>3
<1> QED BY <1>1, <1>2, <1>3, <1>4, <1>5, ChainIs

\* Rows updated stay so, but for what an UPDATE adds, a roll-back gives up, and a
\* commit makes known.
LEMMA UpdatedMoves ==
  ASSUME IInv, CleanInv, Sound, SoundInv, SnapshotInv, NEW t \in Txns, Step(t), NEW u \in Txns
  PROVE  /\ u # t \/ ~((Update(t) /\ pc' = pc) \/ RollbackEntry(t) \/ CommitDone(t) \/ Leave(t)) => UpdatedBy(u)' = UpdatedBy(u)
         /\ ~Update(t) => UpdatedBy(u)' \subseteq UpdatedBy(u)
<1>1. UpdatedAre /\ UpdatedAre'
  <2>1. (IInv /\ CleanInv /\ SoundInv /\ SnapshotInv => UpdatedAre)'  BY UpdatedByIs, PTL
  <2> QED BY <2>1, UpdatedByIs, AllKept
<1>2. \A r : r \in UpdatedBy(u) <=> pc[u] \in Undecided /\ r \in Rows /\ \E v \in Rows : Has(v, u, r)
  BY <1>1 DEF UpdatedAre
<1>3. \A r : r \in UpdatedBy(u)' <=> pc'[u] \in Undecided /\ r \in Rows /\ \E v \in Rows : Has(v, u, r)'
  BY <1>1 DEF UpdatedAre
<1>4. ASSUME NEW r, r \in UpdatedBy(u)', u # t \/ ~(Update(t) /\ pc' = pc) PROVE r \in UpdatedBy(u)
  <2>1. PICK v \in Rows : Has(v, u, r)'  BY <1>3, <1>4
  <2>2. pc'[u] \in Undecided /\ r \in Rows  BY <1>3, <1>4
  <2>3. CASE pc[u] \in Undecided
    <3>1. Has(v, u, r)  BY <1>4, <2>1, <2>3, HasMoves
    <3> QED BY <1>2, <2>2, <2>3, <3>1
  <2>4. CASE u = t /\ pc[t] = "new" /\ Start(t)
    <3>1. chain' = chain  BY <2>4 DEF Start, updateVars
    <3>2. Has(v, t, r)  BY <2>1, <2>4, <3>1 DEF Has
    <3>3. PICK i \in DOMAIN chain[v] : chain[v][i].owner = t  BY <3>2 DEF Has
    <3>4. pc[t] \in Undecided \/ pc[t] \in {"commit", "remove"} \union EndedPcs  BY <3>3, VersionIs
    <3> QED BY <2>4, <3>4 DEF Undecided, Live, EndedPcs
  <2> QED BY <2>2, <2>3, <2>4, UndecidedWas
<1>5. ASSUME NEW r, r \in UpdatedBy(u), u # t \/ ~(RollbackEntry(t) \/ CommitDone(t) \/ Leave(t)) PROVE r \in UpdatedBy(u)'
  <2>1. PICK v \in Rows : Has(v, u, r)  BY <1>2, <1>5
  <2>2. pc[u] \in Undecided /\ r \in Rows  BY <1>2, <1>5
  <2>3. pc'[u] \in Undecided  BY <1>5, <2>2, UndecidedStays
  <2>4. Has(v, u, r)'  BY <1>5, <2>1, <2>2, HasMoves
  <2> QED BY <1>3, <2>2, <2>3, <2>4
<1>6. (u # t \/ ~((Update(t) /\ pc' = pc) \/ RollbackEntry(t) \/ CommitDone(t) \/ Leave(t))) =>
         \A r : r \in UpdatedBy(u)' <=> r \in UpdatedBy(u)
  BY <1>4, <1>5
<1>7. ~Update(t) => \A r : r \in UpdatedBy(u)' => r \in UpdatedBy(u)  BY <1>4
<1> HIDE DEF UpdatedBy
<1> QED BY <1>6, <1>7

\* An UPDATE adds the rows it merges.
LEMMA UpdatedAdds ==
  ASSUME IInv, CleanInv, Sound, SoundInv, SnapshotInv, NEW t \in Txns, Update(t), pc' = pc,
         NEW v \in Rows, NEW rows \in SUBSET Rows, Merges(t, v, rows)
  PROVE  UpdatedBy(t)' = UpdatedBy(t) \union rows
<1>0. Step(t) /\ pc[t] \in Undecided  BY DEF Step, Update, CanChange, Running, Undecided, Live
<1>1. UpdatedAre /\ UpdatedAre'
  <2>1. (IInv /\ CleanInv /\ SoundInv /\ SnapshotInv => UpdatedAre)'  BY UpdatedByIs, PTL
  <2> QED BY <1>0, <2>1, UpdatedByIs, AllKept
<1>2. \A r : r \in UpdatedBy(t) <=> pc[t] \in Undecided /\ r \in Rows /\ \E w \in Rows : Has(w, t, r)
  BY <1>1 DEF UpdatedAre
<1>3. \A r : r \in UpdatedBy(t)' <=> pc'[t] \in Undecided /\ r \in Rows /\ \E w \in Rows : Has(w, t, r)'
  BY <1>1 DEF UpdatedAre
<1>4. \A w \in Rows : \A r : Has(w, t, r)' <=> Has(w, t, r) \/ (w = v /\ r \in rows)
  BY HasMerged
<1>5. \A r : r \in UpdatedBy(t)' <=> r \in UpdatedBy(t) \/ r \in rows
  BY <1>0, <1>2, <1>3, <1>4
<1> HIDE DEF UpdatedBy
<1> QED BY <1>5

-----------------------------------------------------------------------------
(* What a step makes of the variables of the abstract specification        *)

\* Who has not started has no rows to append.
FreshInv == \A t \in Txns : pc[t] = "new" => local[t] = 0

\* Initially nobody has any rows to append,
LEMMA InitFreshInv == Init => FreshInv
BY DEF Init, FreshInv

\* and INSERT needs a transaction that runs.
LEMMA FreshStep ==
  ASSUME IInv, CleanInv, Sound, SoundInv, FreshInv, NEW t \in Txns, Step(t)
  PROVE  FreshInv'
<1>1. pc \in [Txns -> Pcs]  BY DEF IInv, Typed
<1>2. pc'[t] # "new"
  <2>1. pc[t] # "new" \/ Start(t)  BY DEF Step, Insert, Delete, Update, CanChange, Running,
          CommitDirectly, CommitThroughWAL, WriteToWAL, TakeTimestamp, CommitEntry, CommitDone, FlushFails,
          Rollback, RollbackEntry, Leave, PopCleanup, CleanupEntry, CleanupDone, StartCheckpoint, FinishCheckpoint
  <2>2. Start(t) => pc'[t] = "running"  BY <1>1 DEF Start, Goto
  <2>3. CASE ~Start(t) /\ pc' = pc  BY <2>1, <2>3
  <2>4. ASSUME NEW l \in Pcs, pc' = [pc EXCEPT ![t] = l], l # "new" PROVE pc'[t] # "new"  BY <1>1, <2>4
  <2>5. WalInv  BY DEF SoundInv
  <2> QED BY <2>1, <2>2, <2>3, <2>4, <2>5, SoundMove
<1>3. \A u \in Txns \ {t} : pc'[u] = pc[u] /\ local'[u] = local[u]  BY OthersStay
<1> QED BY <1>2, <1>3 DEF FreshInv

\* The rows that it adds.
Adds(l, n) == IF PhaseAt(l) \in {"running", "ending"} THEN n ELSE 0

\* Only what stands for the transaction that acts changes.
LEMMA Frame ==
  ASSUME IInv, CleanInv, Sound, SoundInv, SnapshotInv, NEW t \in Txns, Step(t)
  PROVE  /\ Phases[t] = PhaseAt(pc[t]) /\ Phases' = [Phases EXCEPT ![t] = PhaseAt(pc'[t])]
         /\ Views' = [Views EXCEPT ![t] = View(t)'] /\ Views[t] = View(t)
         /\ Deleteds' = [Deleteds EXCEPT ![t] = DeletedBy(t)'] /\ Deleteds[t] = DeletedBy(t)
         /\ Updateds' = [Updateds EXCEPT ![t] = UpdatedBy(t)'] /\ Updateds[t] = UpdatedBy(t)
         /\ Inserteds' = [Inserteds EXCEPT ![t] = Adds(pc'[t], local'[t])] /\ Inserteds[t] = Adds(pc[t], local[t])
<1>1. /\ Phases[t] = PhaseAt(pc[t]) /\ Phases' = [Phases EXCEPT ![t] = PhaseAt(pc'[t])]
      /\ Phase(t) = PhaseAt(pc[t]) /\ Phase(t)' = PhaseAt(pc'[t])
      /\ \A u \in Txns \ {t} : Phase(u)' = Phase(u)
  BY PhasesMove
<1>2. DataTyped'  BY AllKept
<1>3. Views' = [Views EXCEPT ![t] = View(t)'] /\ Views[t] = View(t)
  <2>1. \A u \in Txns \ {t} : Views'[u] = Views[u]  BY <1>2, ViewStays
  <2>2. \A u \in Txns \ {t} : View(u)' = View(u)  BY <2>1 DEF Views
  <2> HIDE DEF View
  <2> QED BY <2>2 DEF Views
<1>4. Deleteds' = [Deleteds EXCEPT ![t] = DeletedBy(t)'] /\ Deleteds[t] = DeletedBy(t)
  <2>1. \A u \in Txns \ {t} : DeletedBy(u)' = DeletedBy(u)  BY DeletedMoves
  <2> QED BY <2>1 DEF Deleteds
<1>5. Updateds' = [Updateds EXCEPT ![t] = UpdatedBy(t)'] /\ Updateds[t] = UpdatedBy(t)
  <2>1. \A u \in Txns \ {t} : UpdatedBy(u)' = UpdatedBy(u)  BY UpdatedMoves
  <2> QED BY <2>1 DEF Updateds
<1>6. Inserteds' = [Inserteds EXCEPT ![t] = Adds(pc'[t], local'[t])] /\ Inserteds[t] = Adds(pc[t], local[t])
  <2>1. \A u \in Txns \ {t} : local'[u] = local[u]  BY OthersStay
  <2> QED BY <1>1, <2>1 DEF Inserteds, Adds
<1> QED BY <1>1, <1>3, <1>4, <1>5, <1>6

\* A transaction that does not run reads nothing.
LEMMA NoView ==
  ASSUME NEW t
  PROVE  /\ pc[t] # "running" => View(t) = [r \in Rows |-> Absent]
         /\ pc'[t] # "running" => View(t)' = [r \in Rows |-> Absent]
BY DEF View, Rows

\* Only INSERT and ROLLBACK change what is to be appended.
LEMMA LocalMoves ==
  ASSUME NEW t \in Txns, Step(t), ~Insert(t), ~Rollback(t)
  PROVE  local' = local
BY DEF Step, Start, Delete, Update, CommitDirectly, CommitThroughWAL, WriteToWAL, TakeTimestamp, CommitEntry, CommitDone,
       FlushFails, RollbackEntry, Leave, PopCleanup, CleanupEntry, CleanupDone, StartCheckpoint, FinishCheckpoint

\* What is left of a step that is none of a statement, nor the end of a commit.
LEMMA Rest ==
  ASSUME IInv, CleanInv, Sound, SoundInv, SnapshotInv, NEW t \in Txns, Step(t), ~Start(t), ~CommitDone(t), ~Insert(t),
         ~Delete(t), ~Update(t), ~RollbackEntry(t), ~(Leave(t) /\ pc[t] = "rollback")
  PROVE  UNCHANGED <<Db, Deleteds, Updateds>>
<1>1. Db' = Db  BY AllKept, DbStays
<1>2. DeletedBy(t)' = DeletedBy(t)  BY DeletedMoves
<1>3. UpdatedBy(t)' = UpdatedBy(t)
  <2>1. CASE ~Leave(t)  BY <2>1, UpdatedMoves
  <2>2. CASE Leave(t)
    <3>1. pc[t] = "remove" /\ pc \in [Txns -> Pcs]  BY <2>2 DEF Leave, IInv, Typed
    <3>2. pc'[t] = "cleanup"  BY <2>2, <3>1 DEF Leave, Goto
    <3>3. Phase(t) = "done" /\ Phase(t)' = "done"  BY <3>1, <3>2, PhasesMove, PhaseAtIs DEF EndedPcs
    <3> QED BY <3>3 DEF UpdatedBy
  <2> QED BY <2>1, <2>2
<1>4. UNCHANGED Deleteds
  <2>1. Deleteds' = [Deleteds EXCEPT ![t] = DeletedBy(t)'] /\ Deleteds[t] = DeletedBy(t)  BY Frame
  <2>2. Deleteds = [u \in Txns |-> Deleteds[u]]  BY DEF Deleteds
  <2> QED BY <1>2, <2>1, <2>2
<1>5. UNCHANGED Updateds
  <2>1. Updateds' = [Updateds EXCEPT ![t] = UpdatedBy(t)'] /\ Updateds[t] = UpdatedBy(t)  BY Frame
  <2>2. Updateds = [u \in Txns |-> Updateds[u]]  BY DEF Updateds
  <2> QED BY <1>3, <2>1, <2>2
<1> QED BY <1>1, <1>4, <1>5

-----------------------------------------------------------------------------
(* Each step, as the abstract specification has it                         *)

\* What changes nothing that stands for the transaction.
LEMMA SameAs ==
  ASSUME IInv, CleanInv, Sound, SoundInv, SnapshotInv, NEW t \in Txns, Step(t), UNCHANGED <<Db, Deleteds, Updateds>>,
         PhaseAt(pc'[t]) = PhaseAt(pc[t]), View(t)' = View(t), Adds(pc'[t], local'[t]) = Adds(pc[t], local[t])
  PROVE  UNCHANGED Snapshots!vars
<1>1. /\ Phases[t] = PhaseAt(pc[t]) /\ Phases' = [Phases EXCEPT ![t] = PhaseAt(pc'[t])]
      /\ Views' = [Views EXCEPT ![t] = View(t)'] /\ Views[t] = View(t)
      /\ Inserteds' = [Inserteds EXCEPT ![t] = Adds(pc'[t], local'[t])] /\ Inserteds[t] = Adds(pc[t], local[t])
  BY Frame
<1>2. Phases' = Phases
  <2>1. Phases = [u \in Txns |-> Phases[u]]  BY DEF Phases
  <2> QED BY <1>1, <2>1
<1>3. Views' = Views
  <2>1. Views = [u \in Txns |-> Views[u]]  BY DEF Views
  <2> HIDE DEF View
  <2> QED BY <1>1, <2>1
<1>4. Inserteds' = Inserteds
  <2>1. Inserteds = [u \in Txns |-> Inserteds[u]]  BY DEF Inserteds
  <2> QED BY <1>1, <2>1
<1> QED BY <1>2, <1>3, <1>4, MapsStutter

\* Steps within a commit, a roll-back or the clean-up.
LEMMA StutterStep ==
  ASSUME IInv, CleanInv, Sound, SoundInv, SnapshotInv, NEW t \in Txns, Step(t), ~Start(t), ~CommitDone(t), ~Insert(t),
         ~Delete(t), ~Update(t), ~RollbackEntry(t), ~(Leave(t) /\ pc[t] = "rollback"), pc[t] # "running"
  PROVE  UNCHANGED Snapshots!vars
<1>0. pc \in [Txns -> Pcs] /\ WalInv  BY DEF IInv, Typed, SoundInv
<1>1. UNCHANGED <<Db, Deleteds, Updateds>>  BY Rest
<1>2. PhaseAt(pc'[t]) = PhaseAt(pc[t]) /\ (Rollback(t) => PhaseAt(pc[t]) = "aborting" /\ PhaseAt(pc'[t]) = "aborting")
  <2>1. CASE pc' = pc
    <3>1. ~Rollback(t)
      <4>1. Rollback(t) => pc[t] = "failed" /\ pc' = [pc EXCEPT ![t] = "rollback"]  BY DEF Rollback, GotoRollback, Goto
      <4> QED BY <1>0, <2>1, <4>1
    <3> QED BY <2>1, <3>1
  <2>2. ASSUME NEW l \in Pcs, pc' = [pc EXCEPT ![t] = l],
               \/ pc[t] = "wal" /\ l = "written" /\ WriteToWAL(t)
               \/ pc[t] = "written" /\ l = "commit" /\ TakeTimestamp(t)
        PROVE  PhaseAt(pc'[t]) = PhaseAt(pc[t]) /\ ~Rollback(t)
    <3>1. ~Rollback(t)  BY <2>2 DEF Rollback
    <3> QED BY <1>0, <2>2, <3>1, PhaseAtIs
  <2>3. ASSUME NEW l \in Pcs, pc' = [pc EXCEPT ![t] = l], pc[t] = "failed", l = "rollback"
        PROVE  PhaseAt(pc[t]) = "aborting" /\ PhaseAt(pc'[t]) = "aborting"
    BY <1>0, <2>3, PhaseAtIs
  <2>4. ASSUME NEW l \in Pcs, pc' = [pc EXCEPT ![t] = l], pc[t] \in {"remove"} \union EndedPcs, l \in EndedPcs
        PROVE  PhaseAt(pc'[t]) = PhaseAt(pc[t]) /\ ~Rollback(t)
    <3>1. ~Rollback(t)  BY <2>4 DEF Rollback, EndedPcs
    <3> QED BY <1>0, <2>4, <3>1, PhaseAtIs
  <2>5. \/ pc' = pc
        \/ \E l \in Pcs :
             /\ pc' = [pc EXCEPT ![t] = l]
             /\ \/ pc[t] = "wal" /\ l = "written" /\ WriteToWAL(t)
                \/ pc[t] = "written" /\ l = "commit" /\ TakeTimestamp(t)
                \/ pc[t] = "failed" /\ l = "rollback"
                \/ pc[t] \in {"remove"} \union EndedPcs /\ l \in EndedPcs
    BY <1>0, SoundMove DEF EndedPcs
  <2> QED BY <2>1, <2>2, <2>3, <2>4, <2>5
<1>3. View(t)' = View(t)
  <2>1. pc'[t] # "running"
    <3>1. PhaseAt(pc'[t]) # "running"  BY <1>2 DEF PhaseAt
    <3> QED BY <3>1, PhaseAtIs
  <2> QED BY <2>1, NoView
<1>4. Adds(pc'[t], local'[t]) = Adds(pc[t], local[t])
  <2>1. CASE Rollback(t)  BY <1>2, <2>1 DEF Adds
  <2>2. CASE ~Rollback(t)
    <3>1. local' = local  BY <2>2, LocalMoves
    <3> QED BY <1>2, <3>1 DEF Adds
  <2> QED BY <2>1, <2>2
<1> QED BY <1>1, <1>2, <1>3, <1>4, SameAs

\* A transaction ends.
LEMMA Ends ==
  ASSUME IInv, CleanInv, Sound, SoundInv, SnapshotInv, NEW t \in Txns, Step(t), UNCHANGED <<Db, Deleteds, Updateds>>,
         pc[t] = "running",
         \/ PhaseAt(pc'[t]) = "ending" /\ local' = local
         \/ PhaseAt(pc'[t]) = "aborting"
  PROVE  Snapshots!Next
<1>1. /\ Phases[t] = PhaseAt(pc[t]) /\ Phases' = [Phases EXCEPT ![t] = PhaseAt(pc'[t])]
      /\ Views' = [Views EXCEPT ![t] = View(t)'] /\ Views[t] = View(t)
      /\ Inserteds' = [Inserteds EXCEPT ![t] = Adds(pc'[t], local'[t])] /\ Inserteds[t] = Adds(pc[t], local[t])
  BY Frame
<1>2. Phases[t] = "running"  BY <1>1, PhaseAtIs
<1>3. Views' = [Views EXCEPT ![t] = [r \in Rows |-> Absent]]
  <2>1. pc'[t] # "running"  BY PhaseAtIs
  <2>2. View(t)' = [r \in Rows |-> Absent]  BY <2>1, NoView
  <2> HIDE DEF View
  <2> QED BY <1>1, <2>2
<1>4. CASE PhaseAt(pc'[t]) = "ending" /\ local' = local
  <2>1. Inserteds = [u \in Txns |-> Inserteds[u]]  BY DEF Inserteds
  <2>2. UNCHANGED Inserteds  BY <1>1, <1>2, <1>4, <2>1 DEF Adds
  <2> QED BY <1>1, <1>2, <1>3, <1>4, <2>2, MapsEnd
<1>5. CASE PhaseAt(pc'[t]) = "aborting"
  <2>1. Inserteds' = [Inserteds EXCEPT ![t] = 0]  BY <1>1, <1>5 DEF Adds
  <2> QED BY <1>1, <1>2, <1>3, <1>5, <2>1, MapsEnd
<1> QED BY <1>4, <1>5

\* COMMIT, and ROLLBACK of a transaction that has not failed.
LEMMA EndStep ==
  ASSUME IInv, CleanInv, Sound, SoundInv, SnapshotInv, NEW t \in Txns, Step(t), pc[t] = "running",
         CommitDirectly(t) \/ CommitThroughWAL(t) \/ Rollback(t)
  PROVE  Snapshots!Next
<1>0. pc \in [Txns -> Pcs] /\ WalInv  BY DEF IInv, Typed, SoundInv
<1>1. ~Start(t) /\ ~CommitDone(t) /\ ~RollbackEntry(t) /\ ~Leave(t)
  BY DEF Start, CommitDone, RollbackEntry, Leave
<1>2. \/ (CommitDirectly(t) \/ CommitThroughWAL(t)) /\ local' = local
         /\ \E l \in {"wal", "commit"} : pc' = [pc EXCEPT ![t] = l]
      \/ Rollback(t) /\ pc' = [pc EXCEPT ![t] = "rollback"]
  BY <1>0, SoundCommit DEF CommitDirectly, CommitThroughWAL, Rollback, GotoRollback, Goto
<1>3. ~Insert(t) /\ ~Delete(t) /\ ~Update(t)
  <2>1. Insert(t) => pc' = pc  BY DEF Insert
  <2>2. Delete(t) => pc' = pc \/ pc' = [pc EXCEPT ![t] = "failed"]  BY DEF Delete, DeleteRows, Goto
  <2>3. Update(t) => pc' = pc \/ pc' = [pc EXCEPT ![t] = "failed"]  BY DEF Update, Goto
  <2>4. pc'[t] \in {"wal", "commit", "rollback"}  BY <1>0, <1>2
  <2> QED BY <1>0, <2>1, <2>2, <2>3, <2>4
<1>4. UNCHANGED <<Db, Deleteds, Updateds>>  BY <1>1, <1>3, Rest
<1>5. (PhaseAt(pc'[t]) = "ending" /\ local' = local) \/ PhaseAt(pc'[t]) = "aborting"
  BY <1>0, <1>2, PhaseAtIs
<1> QED BY <1>4, <1>5, Ends

\* A transaction goes on reading the same where nothing of the table changes.
LEMMA SameView ==
  ASSUME UNCHANGED <<count, groups, inserted, deleted, chain, current>>, NEW t,
         pc'[t] = pc[t], start_time'[t] = start_time[t], transaction_id'[t] = transaction_id[t]
  PROVE  View(t)' = View(t)
<1>1. \A r : Vec(r)' = Vec(r)  BY DEF Vec
<1>2. \A n, id, info : AppliesToTransaction(n, id, info) <=> AppliesToTransaction(n, id, info)  OBVIOUS
<1>3. \A r : ValueOf(start_time[t], transaction_id[t], r)' = ValueOf(start_time[t], transaction_id[t], r)
  BY <1>1 DEF ValueOf
<1>4. \A r : Visible(start_time[t], transaction_id[t], r)' <=> Visible(start_time[t], transaction_id[t], r)
  BY DEF Visible
<1> QED BY <1>3, <1>4, Zenon DEF View, Rows

\* INSERT.
LEMMA InsertStep ==
  ASSUME IInv, CleanInv, Sound, SoundInv, SnapshotInv, NEW t \in Txns, Insert(t)
  PROVE  Snapshots!Next
<1>0. Step(t) /\ local \in [Txns -> Nat] /\ pc[t] = "running" /\ pc' = pc
  BY DEF Step, Insert, CanChange, Running, CleanInv, TxnTyped
<1>1. local' = [local EXCEPT ![t] = local[t] + 1]  BY DEF Insert
<1>2. ~Delete(t) /\ ~Update(t)
  <2>1. local'[t] # local[t]  BY <1>0, <1>1
  <2> QED BY <2>1 DEF Delete, Update
<1>3. ~Start(t) /\ ~CommitDone(t) /\ ~RollbackEntry(t) /\ ~Leave(t)
  BY <1>0 DEF Start, CommitDone, RollbackEntry, Leave
<1>4. Db' = Db  BY <1>0, <1>3, AllKept, DbStays
<1>5. DeletedBy(t)' = DeletedBy(t)  BY <1>0, <1>2, <1>3, DeletedMoves
<1>6. UpdatedBy(t)' = UpdatedBy(t)  BY <1>0, <1>2, <1>3, UpdatedMoves
<1>7. View(t)' = View(t)  BY SameView DEF Insert, versionVars, updateVars
<1>8. /\ Phases[t] = PhaseAt(pc[t]) /\ Phases' = [Phases EXCEPT ![t] = PhaseAt(pc'[t])]
      /\ Views' = [Views EXCEPT ![t] = View(t)'] /\ Views[t] = View(t)
      /\ Deleteds' = [Deleteds EXCEPT ![t] = DeletedBy(t)'] /\ Deleteds[t] = DeletedBy(t)
      /\ Updateds' = [Updateds EXCEPT ![t] = UpdatedBy(t)'] /\ Updateds[t] = UpdatedBy(t)
      /\ Inserteds' = [Inserteds EXCEPT ![t] = Adds(pc'[t], local'[t])] /\ Inserteds[t] = Adds(pc[t], local[t])
  BY <1>0, Frame
<1>9. /\ Phases = [u \in Txns |-> Phases[u]] /\ Views = [u \in Txns |-> Views[u]]
      /\ Deleteds = [u \in Txns |-> Deleteds[u]] /\ Updateds = [u \in Txns |-> Updateds[u]]
  BY DEF Phases, Views, Deleteds, Updateds
<1>10. Phases[t] = "running" /\ PhaseAt(pc[t]) = "running"  BY <1>0, <1>8, PhaseAtIs
<1>11. Inserteds' = [Inserteds EXCEPT ![t] = @ + 1]
  <2>1. Adds(pc'[t], local'[t]) = local[t] + 1 /\ Adds(pc[t], local[t]) = local[t]  BY <1>0, <1>1, <1>10 DEF Adds
  <2> QED BY <1>8, <2>1
<1> HIDE DEF View, DeletedBy, UpdatedBy
<1>12. UNCHANGED <<Phases, Views, Deleteds, Updateds>>
  BY <1>0, <1>5, <1>6, <1>7, <1>8, <1>9
<1> QED BY <1>4, <1>10, <1>11, <1>12, MapsInsert

\* A transaction gives up one change, or is over.
LEMMA GiveUpStep ==
  ASSUME IInv, CleanInv, Sound, SoundInv, SnapshotInv, NEW t \in Txns,
         RollbackEntry(t) \/ (Leave(t) /\ pc[t] = "rollback")
  PROVE  Snapshots!Next
<1>0. Step(t) /\ pc \in [Txns -> Pcs] /\ pc[t] = "rollback"  BY DEF Step, IInv, Typed, RollbackEntry
<1>1. \/ pc'[t] = "rollback" /\ PhaseAt(pc'[t]) = "aborting"
      \/ pc'[t] = "cleanup" /\ PhaseAt(pc'[t]) = "done"
  BY <1>0, PhaseAtIs DEF RollbackEntry, Leave, Goto, EndedPcs
<1>2. ~Start(t) /\ ~CommitDone(t) /\ ~Delete(t) /\ ~Update(t) /\ ~Insert(t) /\ ~Rollback(t)
  BY <1>0 DEF Start, CommitDone, Delete, Update, Insert, Rollback, CanChange, Running
<1>3. Db' = Db  BY <1>0, <1>2, AllKept, DbStays
<1>4. DeletedBy(t)' \subseteq DeletedBy(t)  BY <1>0, <1>2, DeletedMoves
<1>5. UpdatedBy(t)' \subseteq UpdatedBy(t)  BY <1>0, <1>2, UpdatedMoves
<1>6. /\ Phases[t] = PhaseAt(pc[t]) /\ Phases' = [Phases EXCEPT ![t] = PhaseAt(pc'[t])]
      /\ Views' = [Views EXCEPT ![t] = View(t)'] /\ Views[t] = View(t)
      /\ Deleteds' = [Deleteds EXCEPT ![t] = DeletedBy(t)'] /\ Deleteds[t] = DeletedBy(t)
      /\ Updateds' = [Updateds EXCEPT ![t] = UpdatedBy(t)'] /\ Updateds[t] = UpdatedBy(t)
      /\ Inserteds' = [Inserteds EXCEPT ![t] = Adds(pc'[t], local'[t])] /\ Inserteds[t] = Adds(pc[t], local[t])
  BY <1>0, Frame
<1>7. Phases[t] = "aborting" /\ PhaseAt(pc[t]) = "aborting"  BY <1>0, <1>6, PhaseAtIs
<1>8. View(t)' = View(t)  BY <1>0, <1>1, NoView
<1>9. Views = [u \in Txns |-> Views[u]] /\ Inserteds = [u \in Txns |-> Inserteds[u]]  BY DEF Views, Inserteds
<1>10. PhaseAt(pc'[t]) = "done" => DeletedBy(t)' = {} /\ UpdatedBy(t)' = {}
  <2>1. Phase(t)' = PhaseAt(pc'[t])  BY <1>0, PhasesMove
  <2> QED BY <2>1 DEF DeletedBy, UpdatedBy
<1>11. Adds(pc'[t], local'[t]) = 0 /\ Adds(pc[t], local[t]) = 0  BY <1>1, <1>7 DEF Adds
<1> HIDE DEF View, DeletedBy, UpdatedBy
<1>12. UNCHANGED <<Views, Inserteds>>  BY <1>6, <1>8, <1>9, <1>11
<1>13. PICK p \in {"aborting", "done"} : p = PhaseAt(pc'[t])  BY <1>1
<1>14. PICK D \in SUBSET Deleteds[t] : D = DeletedBy(t)'  BY <1>4, <1>6
<1>15. PICK U \in SUBSET Updateds[t] : U = UpdatedBy(t)'  BY <1>5, <1>6
<1>16. Phases' = [Phases EXCEPT ![t] = p] /\ Deleteds' = [Deleteds EXCEPT ![t] = D]
       /\ Updateds' = [Updateds EXCEPT ![t] = U] /\ (p = "done" => D = {} /\ U = {})
  BY <1>6, <1>10, <1>13, <1>14, <1>15
<1> QED BY <1>3, <1>7, <1>12, <1>16, MapsGiveUp

\* A statement that meets a conflict: its transaction has failed.
LEMMA FailStep ==
  ASSUME IInv, CleanInv, Sound, SoundInv, SnapshotInv, NEW t \in Txns, Step(t), pc[t] = "running",
         pc' = [pc EXCEPT ![t] = "failed"], undo' = undo
  PROVE  Snapshots!Next
<1>0. pc \in [Txns -> Pcs]  BY DEF IInv, Typed
<1>1. pc'[t] = "failed" /\ PhaseAt(pc'[t]) = "aborting" /\ PhaseAt(pc[t]) = "running"  BY <1>0, PhaseAtIs
<1>2. ~Start(t) /\ ~CommitDone(t) /\ ~RollbackEntry(t) /\ ~Leave(t)
  BY DEF Start, CommitDone, RollbackEntry, Leave
<1>3. Db' = Db  BY <1>2, AllKept, DbStays
<1>4. DeletedBy(t)' = DeletedBy(t)
  <2>1. Phase(t) = "running" /\ Phase(t)' = "aborting"  BY <1>1, PhasesMove
  <2> QED BY <1>1, <2>1 DEF DeletedBy
<1>5. UpdatedBy(t)' = UpdatedBy(t)  BY <1>1, <1>2, UpdatedMoves
<1>6. /\ Deleteds' = [Deleteds EXCEPT ![t] = DeletedBy(t)'] /\ Deleteds[t] = DeletedBy(t)
      /\ Updateds' = [Updateds EXCEPT ![t] = UpdatedBy(t)'] /\ Updateds[t] = UpdatedBy(t)
  BY Frame
<1>7. Deleteds = [u \in Txns |-> Deleteds[u]] /\ Updateds = [u \in Txns |-> Updateds[u]]  BY DEF Deleteds, Updateds
<1> HIDE DEF DeletedBy, UpdatedBy
<1>8. UNCHANGED <<Deleteds, Updateds>>  BY <1>4, <1>5, <1>6, <1>7
<1> QED BY <1>1, <1>3, <1>8, Ends

\* A transaction sees a value where it sees a row, and so does who starts next.
LEMMA SeenThere ==
  ASSUME IInv, CleanInv, SoundInv, SnapshotInv, NEW t \in Txns, pc[t] = "running", NEW r \in Seen(t)
  PROVE  /\ r \in Rows /\ Old(r) /\ View(t)[r] \in Values /\ View(t)[r] # Absent
         /\ Visible(start_time[t], transaction_id[t], r)
         /\ View(t)[r] = ValueOf(start_time[t], transaction_id[t], r)
<1>0. chain \in [Rows -> Seq(Infos)] /\ current \in [Rows -> Values]  BY DEF CleanInv, DataTyped
<1>1. r \in Rows /\ Old(r) /\ r \in 1 .. count
  <2>1. r \in Rows /\ Old(r)  BY SeenIsOld
  <2> QED BY <2>1 DEF Old, Rows
<1>2. Visible(start_time[t], transaction_id[t], r)  BY DEF Seen
<1>3. View(t)[r] = ValueOf(start_time[t], transaction_id[t], r)  BY <1>1, <1>2 DEF View
<1>4. Vec(r) \in Rows  BY <1>1, RowVecs DEF CleanInv, DataTyped
<1>5. chain[Vec(r)] \in Seq(Infos) /\ current[r] \in Values  BY <1>0, <1>1, <1>4
<1>6. ValueOf(start_time[t], transaction_id[t], r)
        = Reading(chain[Vec(r)], current[r], start_time[t], transaction_id[t], r)
  BY ReadingValue
<1>7. View(t)[r] \in Values  BY <1>3, <1>5, <1>6, ReadingTyped
<1>8. Absent \notin Values  BY AbsentAssumption DEF Values
<1> QED BY <1>1, <1>2, <1>3, <1>7, <1>8

\* DELETE.
LEMMA DeleteStep ==
  ASSUME IInv, CleanInv, Sound, SoundInv, SnapshotInv, NEW t \in Txns, Delete(t)
  PROVE  Snapshots!Next
<1>0. /\ Step(t) /\ pc[t] = "running" /\ DataTyped /\ WalInv /\ IdsInv /\ TimesInv /\ DeleteInv
      /\ UNCHANGED <<start_time, transaction_id, local, count, groups, inserted, chain, current>>
  BY DEF Step, Delete, CanChange, Running, CleanInv, SoundInv, updateVars
<1>1. CASE undo' = undo /\ pc' = [pc EXCEPT ![t] = "failed"]  BY <1>0, <1>1, FailStep
<1>2. ASSUME NEW fresh \in SUBSET Rows, NEW v \in Nat \ {0}, fresh # {}, fresh \subseteq Seen(t), pc' = pc,
             \A r \in fresh : deleted[r] = NOT_DELETED_ID,
             deleted' = [r \in Rows |-> IF r \in fresh THEN transaction_id[t] ELSE deleted[r]],
             Record(t, [kind |-> "delete", at |-> v, rows |-> fresh])
      PROVE  Snapshots!Next
  <2>1. /\ transaction_id[t] \in Nat /\ NOT_DELETED_ID \in Nat /\ transaction_id[t] # NOT_DELETED_ID
        /\ \A u \in Txns : pc[u] \in Live => transaction_id[u] # NOT_DELETED_ID
        /\ \A u \in Txns : commit_id[u] # NOT_DELETED_ID
    BY <1>0, IdsAre DEF Live
  <2>2. ~Start(t) /\ ~CommitDone(t) /\ ~RollbackEntry(t) /\ ~Leave(t) /\ ~Rollback(t)
    <3>1. Rollback(t) => pc'[t] = "rollback"  BY DEF Rollback, GotoRollback, Goto, IInv, Typed
    <3> QED BY <1>0, <1>2, <3>1 DEF Start, CommitDone, RollbackEntry, Leave
  <2>3. ~Update(t)
    <3>1. PICK r \in fresh : TRUE  BY <1>2
    <3>2. deleted'[r] # deleted[r]  BY <1>2, <2>1, <3>1
    <3> QED BY <3>2 DEF Update, versionVars
  <2>4. ~Insert(t)
    <3>1. local \in [Txns -> Nat]  BY DEF CleanInv, TxnTyped
    <3>2. Insert(t) => local'[t] = local[t] + 1  BY <3>1 DEF Insert
    <3> QED BY <1>0, <3>1, <3>2
  <2>5. Db' = Db  BY <1>0, <2>2, AllKept, DbStays
  <2>6. DeletedBy(t)' = DeletedBy(t) \union fresh  BY <1>2, DeletedAdds
  <2>7. UpdatedBy(t)' = UpdatedBy(t)  BY <1>0, <2>2, <2>3, UpdatedMoves
  <2>8. /\ Phases[t] = PhaseAt(pc[t]) /\ Phases' = [Phases EXCEPT ![t] = PhaseAt(pc'[t])]
        /\ Views' = [Views EXCEPT ![t] = View(t)'] /\ Views[t] = View(t)
        /\ Deleteds' = [Deleteds EXCEPT ![t] = DeletedBy(t)'] /\ Deleteds[t] = DeletedBy(t)
        /\ Updateds' = [Updateds EXCEPT ![t] = UpdatedBy(t)'] /\ Updateds[t] = UpdatedBy(t)
        /\ Inserteds' = [Inserteds EXCEPT ![t] = Adds(pc'[t], local'[t])] /\ Inserteds[t] = Adds(pc[t], local[t])
    BY <1>0, Frame
  <2>9. /\ Phases = [u \in Txns |-> Phases[u]] /\ Updateds = [u \in Txns |-> Updateds[u]]
        /\ Inserteds = [u \in Txns |-> Inserteds[u]]
    BY DEF Phases, Updateds, Inserteds
  <2>10. Phases[t] = "running"  BY <1>0, <2>8, PhaseAtIs
  <2>11. UNCHANGED <<Phases, Updateds, Inserteds>>
    <3> HIDE DEF DeletedBy, UpdatedBy, View
    <3> QED BY <1>0, <1>2, <2>7, <2>8, <2>9
  <2>12. \A r \in fresh : Views[t][r] # Absent /\ Db[r] # Absent
    <3> SUFFICES ASSUME NEW r \in fresh PROVE Views[t][r] # Absent /\ Db[r] # Absent
      OBVIOUS
    <3>1. r \in Seen(t) /\ r \in Rows /\ Old(r) /\ View(t)[r] # Absent  BY <1>0, <1>2, SeenThere
    <3>2. /\ Now \in Nat /\ 0 < Now /\ last_commit \in Nat /\ last_commit < Now /\ Now <= NOT_DELETED_ID
      <4>1. Apart(t, Now, Now - 1, 0)  BY CommittedApart
      <4> QED BY <2>1, <4>1, NowIs DEF Apart
    <3>3. r <= count /\ inserted[r] <= last_commit /\ inserted[r] \in Nat  BY <1>0, <3>1 DEF Old, DataTyped
    <3>4. deleted[r] = NOT_DELETED_ID /\ NOT_DELETED_ID # 0  BY <1>2, IdsAssumption
    <3>5. Visible(Now, 0, r)  BY <2>1, <3>2, <3>3, <3>4 DEF Visible, UseVersion
    <3>6. Db[r] = ValueOf(Now - 1, 0, r)  BY <3>1, <3>5 DEF Db, CommittedTable
    <3>7. Vec(r) \in Rows  BY <1>0, <3>1, RowVecs DEF DataTyped
    <3>8. chain[Vec(r)] \in Seq(Infos) /\ current[r] \in Values  BY <1>0, <3>1, <3>7 DEF DataTyped
    <3>9. ValueOf(Now - 1, 0, r) = Reading(chain[Vec(r)], current[r], Now - 1, 0, r)  BY ReadingValue
    <3>10. Db[r] \in Values  BY <3>6, <3>8, <3>9, ReadingTyped
    <3> QED BY <2>8, <3>1, <3>10, AbsentAssumption DEF Values
  <2>13. \A u \in Txns \ {t} : Deleteds[u] \cap fresh = {}
    <3> SUFFICES ASSUME NEW u \in Txns, NEW r \in fresh, r \in DeletedBy(u) PROVE FALSE
      BY DEF Deleteds
    <3>1. Deletion(u, r)  BY DeletedByIs DEF DeletedAre
    <3>2. PICK i \in Deletes(u) : Marking(u, i) /\ r \in undo[u][i].rows  BY <3>1 DEF Deletion
    <3>3. deleted[r] = transaction_id[u] \/ deleted[r] = commit_id[u]  BY <1>0, <3>2 DEF DeleteInv, Marking
    <3>4. pc[u] \in Live  BY <3>2 DEF Marking
    <3> QED BY <1>2, <2>1, <3>3, <3>4
  <2>14. View(t)' = [r \in Rows |-> IF r \in fresh THEN Absent ELSE View(t)[r]]
    <3>1. \A r : Vec(r)' = Vec(r)  BY <1>0 DEF Vec
    <3>2. \A r : ValueOf(start_time[t], transaction_id[t], r)' = ValueOf(start_time[t], transaction_id[t], r)
      BY <1>0, <3>1 DEF ValueOf
    <3>3. \A r \in Rows : Visible(start_time[t], transaction_id[t], r)'
                            <=> Visible(start_time[t], transaction_id[t], r) /\ r \notin fresh
      BY <1>0, <1>2 DEF Visible, UseVersion
    <3>4. \A r \in Rows : View(t)[r] = IF Visible(start_time[t], transaction_id[t], r)
                                       THEN ValueOf(start_time[t], transaction_id[t], r) ELSE Absent
      BY <1>0 DEF View
    <3>5. View(t)' = [r \in Rows |-> IF Visible(start_time[t], transaction_id[t], r)'
                                     THEN ValueOf(start_time[t], transaction_id[t], r)' ELSE Absent]
      BY <1>0, <1>2 DEF View, Rows
    <3> HIDE DEF View, Visible, ValueOf
    <3> QED BY <3>2, <3>3, <3>4, <3>5
  <2>15. Views' = [Views EXCEPT ![t] = [r \in Rows |-> IF r \in fresh THEN Absent ELSE @[r]]]
    <3> HIDE DEF View
    <3> QED BY <2>8, <2>14
  <2>16. Deleteds' = [Deleteds EXCEPT ![t] = @ \union fresh]
    <3> HIDE DEF DeletedBy
    <3> QED BY <2>6, <2>8
  <2> QED BY <1>2, <2>5, <2>10, <2>11, <2>12, <2>13, <2>15, <2>16, MapsDelete
<1> QED BY <1>0, <1>1, <1>2, DeleteMarks

\* Rows that a transaction may update are those of the newest table, but for its
\* own changes.
LEMMA UpdatesNewest ==
  ASSUME IInv, CleanInv, SoundInv, SnapshotInv, NEW t \in Txns, pc[t] = "running",
         NEW v \in Rows, NEW rows \in SUBSET Rows, Merges(t, v, rows), NEW r \in rows, r \notin UpdatedBy(t)
  PROVE  Db[r] \in {View(t)[r], Absent}
<1>0. /\ r \in Seen(t) /\ Vec(r) = v /\ r \in Rows  BY DEF Merges
<1>1. View(t)[r] = ValueOf(start_time[t], transaction_id[t], r)  BY <1>0, SeenThere
<1>2. chain[v] \in Seq(Infos)  BY DEF CleanInv, DataTyped
<1>3. /\ start_time[t] \in Nat /\ Now \in Nat /\ start_time[t] < Now
  BY NowIs DEF Undecided, Live, CleanInv, TxnTyped
<1>4. \A i \in DOMAIN chain[v] : ~Has(v, t, r) /\ (r \in DOMAIN chain[v][i].old =>
        chain[v][i].version <= start_time[t] /\ chain[v][i].version \in Nat)
  <2> SUFFICES ASSUME NEW i \in DOMAIN chain[v]
               PROVE  ~Has(v, t, r) /\ (r \in DOMAIN chain[v][i].old =>
                        chain[v][i].version <= start_time[t] /\ chain[v][i].version \in Nat)
    OBVIOUS
  <2>1. ~Has(v, t, r)
    <3>1. pc[t] \in Undecided  BY DEF Undecided, Live
    <3> QED BY <1>0, <3>1, UpdatedByIs DEF UpdatedAre
  <2>2. r \in DOMAIN chain[v][i].old => chain[v][i].owner # t  BY <2>1 DEF Has
  <2>3. chain[v][i].version \in Nat  BY VersionIs
  <2> QED BY <2>1, <2>2, <2>3, MergesOver
<1>5. \A i \in DOMAIN chain[v] : /\ ~Applies(chain[v][i], start_time[t], transaction_id[t], r)
                                 /\ ~Applies(chain[v][i], Now - 1, 0, r)
  <2> SUFFICES ASSUME NEW i \in DOMAIN chain[v], r \in DOMAIN chain[v][i].old
               PROVE  ~(chain[v][i].version > start_time[t]) /\ ~(chain[v][i].version > Now - 1)
    BY AppliesIs
  <2>1. chain[v][i].version <= start_time[t] /\ chain[v][i].version \in Nat  BY <1>4
  <2> QED BY <1>3, <2>1
<1>6. Reading(chain[v], current[r], start_time[t], transaction_id[t], r) = current[r]
  BY <1>2, <1>5, ReadingBase
<1>7. Reading(chain[v], current[r], Now - 1, 0, r) = current[r]  BY <1>2, <1>5, ReadingBase
<1>8. ValueOf(Now - 1, 0, r) = View(t)[r]  BY <1>0, <1>1, <1>6, <1>7, ReadingValue
<1>9. Db[r] \in {ValueOf(Now - 1, 0, r), Absent}  BY <1>0 DEF Db, CommittedTable
<1> QED BY <1>8, <1>9

\* UPDATE.
LEMMA UpdateStep ==
  ASSUME IInv, CleanInv, Sound, SoundInv, SnapshotInv, NEW t \in Txns, Update(t)
  PROVE  Snapshots!Next
<1>0. /\ Step(t) /\ pc[t] = "running" /\ DataTyped
      /\ UNCHANGED <<start_time, transaction_id, local, count, groups, inserted, deleted>>
  BY DEF Step, Update, CanChange, Running, CleanInv, versionVars
<1>1. CASE undo' = undo /\ pc' = [pc EXCEPT ![t] = "failed"]  BY <1>0, <1>1, FailStep
<1>2. ASSUME NEW v \in Rows, NEW rows \in SUBSET Rows, Merges(t, v, rows), pc' = pc
      PROVE  Snapshots!Next
  <2>1. rows # {} /\ rows \subseteq Seen(t)  BY <1>2 DEF Merges
  <2>2. ~Start(t) /\ ~CommitDone(t) /\ ~RollbackEntry(t) /\ ~Leave(t)
    BY <1>0 DEF Start, CommitDone, RollbackEntry, Leave
  <2>3. ~Delete(t)
    <3> SUFFICES ASSUME Delete(t) PROVE FALSE
      OBVIOUS
    <3>1. pc \in [Txns -> Pcs] /\ SoundInv /\ DataTyped  BY <1>0 DEF IInv, Typed
    <3>2. pc' # [pc EXCEPT ![t] = "failed"]  BY <1>0, <1>2, <3>1
    <3>3. PICK fresh \in SUBSET Rows : fresh # {} /\ (\A r \in fresh : deleted[r] = NOT_DELETED_ID)
            /\ deleted' = [r \in Rows |-> IF r \in fresh THEN transaction_id[t] ELSE deleted[r]]
      BY <3>1, <3>2, DeleteMarks
    <3>4. transaction_id[t] # NOT_DELETED_ID
      <4>1. IdsInv /\ TimesInv /\ NOT_DELETED_ID \in Nat  BY ConstantTypes DEF SoundInv
      <4> QED BY <1>0, <4>1, IdsAre DEF Live
    <3> QED BY <1>0, <3>3, <3>4
  <2>4. ~Insert(t) /\ ~Rollback(t)
    <3>1. local \in [Txns -> Nat] /\ pc \in [Txns -> Pcs]  BY DEF CleanInv, TxnTyped, IInv, Typed
    <3>2. Insert(t) => local'[t] = local[t] + 1  BY <3>1 DEF Insert
    <3>3. Rollback(t) => pc'[t] = "rollback"  BY <3>1 DEF Rollback, GotoRollback, Goto
    <3> QED BY <1>0, <1>2, <3>1, <3>2, <3>3
  <2>5. Db' = Db /\ DataTyped'  BY <1>0, <2>2, AllKept, DbStays
  <2>6. DeletedBy(t)' = DeletedBy(t)  BY <1>0, <2>2, <2>3, DeletedMoves
  <2>7. UpdatedBy(t)' = UpdatedBy(t) \union rows  BY <1>2, UpdatedAdds
  <2>8. /\ Phases[t] = PhaseAt(pc[t]) /\ Phases' = [Phases EXCEPT ![t] = PhaseAt(pc'[t])]
        /\ Views' = [Views EXCEPT ![t] = View(t)'] /\ Views[t] = View(t)
        /\ Deleteds' = [Deleteds EXCEPT ![t] = DeletedBy(t)'] /\ Deleteds[t] = DeletedBy(t)
        /\ Updateds' = [Updateds EXCEPT ![t] = UpdatedBy(t)'] /\ Updateds[t] = UpdatedBy(t)
        /\ Inserteds' = [Inserteds EXCEPT ![t] = Adds(pc'[t], local'[t])] /\ Inserteds[t] = Adds(pc[t], local[t])
    BY <1>0, Frame
  <2>9. /\ Phases = [u \in Txns |-> Phases[u]] /\ Deleteds = [u \in Txns |-> Deleteds[u]]
        /\ Inserteds = [u \in Txns |-> Inserteds[u]]
    BY DEF Phases, Deleteds, Inserteds
  <2>10. Phases[t] = "running"  BY <1>0, <2>8, PhaseAtIs
  <2>11. UNCHANGED <<Phases, Deleteds, Inserteds>>
    <3> HIDE DEF DeletedBy, UpdatedBy, View
    <3> QED BY <1>0, <1>2, <2>6, <2>8, <2>9
  <2>12. \A r \in rows : Views[t][r] # Absent /\ (r \notin Updateds[t] => Db[r] \in {Views[t][r], Absent})
    <3> SUFFICES ASSUME NEW r \in rows
                 PROVE  View(t)[r] # Absent /\ (r \notin UpdatedBy(t) => Db[r] \in {View(t)[r], Absent})
      BY <2>8
    <3>1. View(t)[r] # Absent  BY <1>0, <2>1, SeenThere
    <3> QED BY <1>0, <1>2, <3>1, UpdatesNewest
  <2>13. \A u \in Txns \ {t} : Updateds[u] \cap rows = {}
    <3> SUFFICES ASSUME NEW u \in Txns, u # t, NEW r \in rows, r \in UpdatedBy(u) PROVE FALSE
      BY DEF Updateds
    <3>1. PICK w \in Rows : Has(w, u, r) /\ pc[u] \in Undecided  BY UpdatedByIs DEF UpdatedAre
    <3>2. PICK i \in DOMAIN chain[w] : chain[w][i].owner = u /\ r \in DOMAIN chain[w][i].old  BY <3>1 DEF Has
    <3>3. DOMAIN chain[w][i].old \cap rows = {}  BY <1>0, <1>2, <3>1, <3>2, MergesApart
    <3> QED BY <3>2, <3>3
  <2>14. View(t)' = [r \in Rows |-> IF r \in rows THEN t ELSE View(t)[r]]
    <3>1. \A r : Vec(r)' = Vec(r)  BY <1>0 DEF Vec
    <3>2. \A r : ValueOf(start_time[t], transaction_id[t], r)
                   = Reading(chain[Vec(r)], current[r], start_time[t], transaction_id[t], r)
      BY ReadingValue
    <3>3. \A r : ValueOf(start_time[t], transaction_id[t], r)'
                   = Reading(chain'[Vec(r)], current'[r], start_time[t], transaction_id[t], r)
      <4>1. \A r : ValueOf(start_time[t], transaction_id[t], r)'
                     = Reading(chain'[Vec(r)'], current'[r], start_time'[t], transaction_id'[t], r)
        BY DEF ValueOf, Reading, Applies, AppliesToTransaction
      <4> QED BY <1>0, <3>1, <4>1
    <3>4. \A r \in Rows : ValueOf(start_time[t], transaction_id[t], r)'
                            = IF r \in rows THEN t ELSE ValueOf(start_time[t], transaction_id[t], r)
      BY <1>0, <1>2, <2>5, <3>2, <3>3, MergeOwn
    <3>5. \A r \in Rows : Visible(start_time[t], transaction_id[t], r)' <=> Visible(start_time[t], transaction_id[t], r)
      BY <1>0 DEF Visible
    <3>6. \A r \in Rows : View(t)[r] = IF Visible(start_time[t], transaction_id[t], r)
                                       THEN ValueOf(start_time[t], transaction_id[t], r) ELSE Absent
      BY <1>0 DEF View
    <3>7. View(t)' = [r \in Rows |-> IF Visible(start_time[t], transaction_id[t], r)'
                                     THEN ValueOf(start_time[t], transaction_id[t], r)' ELSE Absent]
      BY <1>0, <1>2 DEF View, Rows
    <3>8. \A r \in rows : Visible(start_time[t], transaction_id[t], r)  BY <2>1 DEF Seen
    <3> HIDE DEF View, Visible, ValueOf
    <3> QED BY <3>4, <3>5, <3>6, <3>7, <3>8
  <2>15. Views' = [Views EXCEPT ![t] = [r \in Rows |-> IF r \in rows THEN t ELSE @[r]]]
    <3> HIDE DEF View
    <3> QED BY <2>8, <2>14
  <2>16. Updateds' = [Updateds EXCEPT ![t] = @ \union rows]
    <3> HIDE DEF UpdatedBy
    <3> QED BY <2>7, <2>8
  <2> QED BY <2>1, <2>5, <2>10, <2>11, <2>12, <2>13, <2>15, <2>16, MapsUpdate
<1> QED BY <1>1, <1>2, UpdateIs

\* Who starts has an id of his own, and so far nobody commits.
LEMMA StartIs ==
  ASSUME IInv, CleanInv, SoundInv, SnapshotInv, NEW t \in Txns, Start(t)
  PROVE  /\ Now = clock /\ Now' = clock + 1 /\ clock \in Nat /\ clock < TRANSACTION_ID_START /\ last_commit < clock
         /\ last_commit \in Nat /\ nextId \in Nat /\ nextId >= TRANSACTION_ID_START /\ nextId < NOT_DELETED_ID
         /\ NOT_DELETED_ID \in Nat /\ TRANSACTION_ID_START \in Nat
         /\ \A u \in Txns : pc[u] # "commit"
         /\ \A u \in Txns : transaction_id[u] \in Nat /\ commit_id[u] \in Nat
                            /\ (pc[u] \in Live => TRANSACTION_ID_START <= transaction_id[u] /\ transaction_id[u] < nextId)
         /\ pc'[t] = "running" /\ start_time'[t] = clock /\ transaction_id'[t] = nextId
<1>0. /\ pc[t] = "new" /\ transaction_lock = None /\ clock < TRANSACTION_ID_START
      /\ clock' = clock + 1 /\ pc \in [Txns -> Pcs] /\ IdsInv /\ TimesInv
      /\ start_time' = [start_time EXCEPT ![t] = clock] /\ transaction_id' = [transaction_id EXCEPT ![t] = nextId]
      /\ pc' = [pc EXCEPT ![t] = "running"] /\ start_time \in [Txns -> Nat] /\ transaction_id \in [Txns -> Nat]
      /\ nextId \in Nat
  BY DEF Start, Goto, IInv, Typed, SoundInv, CleanInv, TxnTyped, ManagerTyped
<1>1. \A u \in Txns : pc[u] # "commit"  BY <1>0, NoneAssumption DEF IInv, Locked, LockPcs
<1>2. Committing = {} /\ Committing' = {}  BY <1>0, <1>1 DEF Committing
<1>3. Now = clock /\ Now' = clock + 1  BY <1>0, <1>2 DEF Now
<1>4. nextId < NOT_DELETED_ID
  <2>1. t \notin Begun  BY <1>0 DEF Begun, Live, EndedPcs
  <2>2. Begun \subseteq Txns  BY DEF Begun
  <2>3. Cardinality(Begun) <= Cardinality(Txns) /\ Cardinality(Begun) \in Nat /\ Cardinality(Txns) \in Nat
    BY <2>2, TxnsAssumption, FS_Subset, FS_CardinalityType
  <2> QED BY <1>0, <2>3, TxnsAssumption, ConstantTypes DEF IdsInv
<1>5. /\ last_commit \in Nat /\ clock \in Nat /\ last_commit < clock /\ \A u \in Txns : commit_id[u] \in Nat
  BY <1>0, IdsAre
<1> QED BY <1>0, <1>1, <1>3, <1>4, <1>5, ConstantTypes DEF IdsInv

\* An id of a commit that is over, or of somebody who is not.
Clear(x) == x \in Nat /\ (x <= last_commit \/ (x >= TRANSACTION_ID_START /\ x # nextId))

\* Who starts sees what is committed, and taking a timestamp changes nothing of that.
LEMMA StartSees ==
  ASSUME IInv, CleanInv, SoundInv, SnapshotInv, NEW t \in Txns, Start(t), NEW r \in Rows
  PROVE  /\ Visible(clock + 1, 0, r) <=> Visible(clock, 0, r)
         /\ Visible(clock, nextId, r) <=> Visible(clock, 0, r)
         /\ r <= count => ValueOf(clock, 0, r) = ValueOf(clock - 1, 0, r)
         /\ r <= count => ValueOf(clock, nextId, r) = ValueOf(clock - 1, 0, r)
<1>0. /\ clock \in Nat /\ clock < TRANSACTION_ID_START /\ last_commit < clock
      /\ last_commit \in Nat /\ nextId \in Nat /\ nextId >= TRANSACTION_ID_START /\ nextId < NOT_DELETED_ID
      /\ NOT_DELETED_ID \in Nat /\ TRANSACTION_ID_START \in Nat
      /\ \A u \in Txns : pc[u] # "commit"
      /\ \A u \in Txns : transaction_id[u] \in Nat /\ commit_id[u] \in Nat
                         /\ (pc[u] \in Live => TRANSACTION_ID_START <= transaction_id[u] /\ transaction_id[u] < nextId)
  BY StartIs
<1>1. ASSUME NEW x, Clear(x)
      PROVE  /\ UseVersion(clock + 1, 0, x) <=> x <= last_commit
             /\ UseVersion(clock, 0, x) <=> x <= last_commit
             /\ UseVersion(clock, nextId, x) <=> x <= last_commit
  BY <1>0, <1>1 DEF Clear, UseVersion
<1>2. r <= count => Clear(inserted[r])
  <2>1. \A u \in Txns : pc[u] \in {"written", "commit"} => Clear(transaction_id[u])
    BY <1>0 DEF Clear, Live
  <2> QED BY <1>0, <2>1, InsertIdIs DEF Clear
<1>3. Clear(deleted[r])
  <2>1. \A u \in Txns : pc[u] \in Undecided => Clear(transaction_id[u])
    BY <1>0 DEF Clear, Live, Undecided
  <2>2. Clear(NOT_DELETED_ID)  BY <1>0 DEF Clear
  <2> QED BY <1>0, <2>1, <2>2, DeleteIdIs DEF Clear
<1>4. /\ Visible(clock + 1, 0, r) <=> Visible(clock, 0, r)
      /\ Visible(clock, nextId, r) <=> Visible(clock, 0, r)
  BY <1>1, <1>2, <1>3 DEF Visible
<1>5. Vec(r) \in Rows /\ chain[Vec(r)] \in Seq(Infos)  BY RowVecs DEF CleanInv, DataTyped
<1>6. ASSUME NEW i \in DOMAIN chain[Vec(r)]
      PROVE  /\ Applies(chain[Vec(r)][i], clock, 0, r) <=> Applies(chain[Vec(r)][i], clock - 1, 0, r)
             /\ Applies(chain[Vec(r)][i], clock, nextId, r) <=> Applies(chain[Vec(r)][i], clock - 1, 0, r)
  <2>1. Clear(chain[Vec(r)][i].version)
    <3>1. \A u \in Txns : pc[u] \in Undecided => Clear(transaction_id[u])
      BY <1>0 DEF Clear, Live, Undecided
    <3> QED BY <1>0, <1>5, <3>1, VersionIs DEF Clear
  <2>2. PICK x : x = chain[Vec(r)][i].version  OBVIOUS
  <2>3. /\ x > clock /\ x # 0 <=> x > clock - 1 /\ x # 0
        /\ x > clock /\ x # nextId <=> x > clock - 1 /\ x # 0
    BY <1>0, <2>1, <2>2 DEF Clear
  <2> QED BY <2>2, <2>3, AppliesIs
<1>7. /\ Reading(chain[Vec(r)], current[r], clock, 0, r) = Reading(chain[Vec(r)], current[r], clock - 1, 0, r)
      /\ Reading(chain[Vec(r)], current[r], clock, nextId, r) = Reading(chain[Vec(r)], current[r], clock - 1, 0, r)
  BY <1>6 DEF Reading
<1> QED BY <1>4, <1>7, ReadingValue

\* A transaction starts.
LEMMA StartStep ==
  ASSUME IInv, CleanInv, Sound, SoundInv, SnapshotInv, FreshInv, NEW t \in Txns, Start(t)
  PROVE  Snapshots!Next
<1>0. /\ Step(t) /\ pc[t] = "new" /\ pc \in [Txns -> Pcs]
      /\ UNCHANGED <<local, count, groups, inserted, deleted, chain, current>>
  BY DEF Step, Start, IInv, Typed, versionVars, updateVars
<1>1. /\ Now = clock /\ Now' = clock + 1 /\ clock \in Nat
      /\ pc'[t] = "running" /\ start_time'[t] = clock /\ transaction_id'[t] = nextId
  BY StartIs
<1>2. ~CommitDone(t) /\ ~RollbackEntry(t) /\ ~Leave(t) /\ ~Delete(t) /\ ~Update(t)
  BY <1>0 DEF CommitDone, RollbackEntry, Leave, Delete, Update, CanChange, Running
<1>3. \A r : Vec(r)' = Vec(r)  BY <1>0 DEF Vec
<1>4. \A s, n, id, r : /\ VisibleThen(s, id, r) <=> Visible(s, id, r)
                       /\ ReadingThen(n, id, r) = ValueOf(n, id, r)
  BY <1>0, <1>3, ReadingValue DEF VisibleThen, Visible, ReadingThen
<1>5. Db' = Db /\ Views'[t] = Db
  <2>1. Db' = [r \in Rows |-> IF Visible(clock + 1, 0, r) THEN ValueOf(clock, 0, r) ELSE Absent]
    <3>1. Now' - 1 = clock  BY <1>1
    <3> QED BY <1>1, <1>4, <3>1, TablesThen
  <2>2. Views'[t] = [r \in Rows |-> IF Visible(clock, nextId, r) THEN ValueOf(clock, nextId, r) ELSE Absent]
    BY <1>1, <1>4, TablesThen
  <2>3. Db = [r \in Rows |-> IF Visible(clock, 0, r) THEN ValueOf(clock - 1, 0, r) ELSE Absent]
    BY <1>1 DEF Db, CommittedTable
  <2>4. \A r : Visible(clock, 0, r) => r <= count  BY DEF Visible
  <2>5. \A r \in Rows : /\ Visible(clock + 1, 0, r) <=> Visible(clock, 0, r)
                        /\ Visible(clock, nextId, r) <=> Visible(clock, 0, r)
                        /\ r <= count => ValueOf(clock, 0, r) = ValueOf(clock - 1, 0, r)
                        /\ r <= count => ValueOf(clock, nextId, r) = ValueOf(clock - 1, 0, r)
    BY StartSees
  <2> QED BY <2>1, <2>2, <2>3, <2>4, <2>5
<1>6. DeletedBy(t)' = DeletedBy(t)  BY <1>0, <1>2, DeletedMoves
<1>7. UpdatedBy(t)' = UpdatedBy(t)  BY <1>0, <1>2, UpdatedMoves
<1>8. /\ Phases[t] = PhaseAt(pc[t]) /\ Phases' = [Phases EXCEPT ![t] = PhaseAt(pc'[t])]
      /\ Views' = [Views EXCEPT ![t] = View(t)'] /\ Views[t] = View(t)
      /\ Deleteds' = [Deleteds EXCEPT ![t] = DeletedBy(t)'] /\ Deleteds[t] = DeletedBy(t)
      /\ Updateds' = [Updateds EXCEPT ![t] = UpdatedBy(t)'] /\ Updateds[t] = UpdatedBy(t)
      /\ Inserteds' = [Inserteds EXCEPT ![t] = Adds(pc'[t], local'[t])] /\ Inserteds[t] = Adds(pc[t], local[t])
  BY <1>0, Frame
<1>9. /\ Deleteds = [u \in Txns |-> Deleteds[u]] /\ Updateds = [u \in Txns |-> Updateds[u]]
      /\ Inserteds = [u \in Txns |-> Inserteds[u]]
  BY DEF Deleteds, Updateds, Inserteds
<1>10. Views' = [Views EXCEPT ![t] = Db]
  <2>1. Views'[t] = View(t)'  BY DEF Views
  <2> HIDE DEF View
  <2> QED BY <1>5, <1>8, <2>1
<1>11. UNCHANGED <<Deleteds, Updateds, Inserteds>>
  <2>1. local[t] = 0 /\ local'[t] = 0  BY <1>0 DEF FreshInv
  <2>2. Adds(pc'[t], local'[t]) = 0 /\ Adds(pc[t], local[t]) = 0  BY <2>1 DEF Adds
  <2> HIDE DEF View, DeletedBy, UpdatedBy
  <2> QED BY <1>6, <1>7, <1>8, <1>9, <2>2
<1>12. Phases[t] = "new" /\ Phases' = [Phases EXCEPT ![t] = "running"]  BY <1>0, <1>1, <1>8, PhaseAtIs
<1> QED BY <1>5, <1>10, <1>11, <1>12, MapsStart

\* Rows that t appends.
Appending(t, r) == \E i \in Appends(t) : r \in undo[t][i].rows

\* At the end of a commit nobody else commits, and all its marks are set.
LEMMA CommitIs ==
  ASSUME IInv, CleanInv, SoundInv, SnapshotInv, NEW t \in Txns, CommitDone(t)
  PROVE  /\ Now = commit_id[t] /\ Now' = clock /\ commit_id[t] \in Nat /\ clock \in Nat /\ last_commit \in Nat
         /\ last_commit < commit_id[t] /\ commit_id[t] < clock /\ clock <= TRANSACTION_ID_START
         /\ TRANSACTION_ID_START \in Nat /\ NOT_DELETED_ID \in Nat /\ TRANSACTION_ID_START < NOT_DELETED_ID
         /\ pc[t] = "commit" /\ done[t] = Len(undo[t]) /\ DOMAIN undo[t] = 1 .. done[t]
         /\ \A u \in Txns : /\ transaction_id[u] \in Nat /\ (pc[u] = "commit" => u = t)
                            /\ pc[u] \in Live => TRANSACTION_ID_START <= transaction_id[u]
         /\ pc'[t] = "remove"
         /\ UNCHANGED <<start_time, transaction_id, local, count, groups, inserted, deleted, chain, current, undo>>
<1>0. /\ pc[t] = "commit" /\ done[t] = Len(undo[t]) /\ pc' = [pc EXCEPT ![t] = "remove"] /\ pc \in [Txns -> Pcs]
      /\ undo[t] \in Seq(Records) /\ clock' = clock /\ IdsInv /\ TimesInv /\ clock \in Nat
      /\ UNCHANGED <<start_time, transaction_id, local, count, groups, inserted, deleted, chain, current, undo>>
  BY DEF CommitDone, Goto, IInv, Typed, CleanInv, DataTyped, SoundInv, versionVars, updateVars
<1>1. \A u \in Txns : pc[u] = "commit" => u = t  BY <1>0 DEF IInv, Locked, LockPcs
<1>2. Committing' = {}  BY <1>0, <1>1 DEF Committing
<1>3. Now' = clock  BY <1>0, <1>2 DEF Now
<1>4. DOMAIN undo[t] = 1 .. done[t]  BY <1>0
<1>5. Now = commit_id[t] /\ last_commit < commit_id[t]  BY <1>0, NowIs DEF TimesInv
<1> QED BY <1>0, <1>1, <1>3, <1>4, <1>5, IdsAre, ConstantTypes

\* The rows that t has appended become visible, those it has deleted are gone.
LEMMA CommitSees ==
  ASSUME IInv, CleanInv, Sound, SoundInv, SnapshotInv, NEW t \in Txns, CommitDone(t), NEW r \in Rows
  PROVE  /\ Appending(t, r) => /\ ~Visible(Now, 0, r) /\ Visible(clock, 0, r) /\ ~Deletion(t, r)
                               /\ \A v \in Rows : ~Has(v, t, r)
         /\ Deletion(t, r) => ~Visible(clock, 0, r)
         /\ ~Appending(t, r) /\ ~Deletion(t, r) => (Visible(clock, 0, r) <=> Visible(Now, 0, r))
<1>0. /\ Now = commit_id[t] /\ commit_id[t] \in Nat /\ clock \in Nat /\ last_commit \in Nat
      /\ last_commit < commit_id[t] /\ commit_id[t] < clock /\ clock <= TRANSACTION_ID_START
      /\ TRANSACTION_ID_START \in Nat /\ NOT_DELETED_ID \in Nat /\ TRANSACTION_ID_START < NOT_DELETED_ID
      /\ pc[t] = "commit" /\ done[t] = Len(undo[t]) /\ DOMAIN undo[t] = 1 .. done[t]
      /\ \A u \in Txns : /\ transaction_id[u] \in Nat /\ (pc[u] = "commit" => u = t)
                         /\ pc[u] \in Live => TRANSACTION_ID_START <= transaction_id[u]
  BY CommitIs
<1>1. Appending(t, r) => r <= count /\ inserted[r] = commit_id[t] /\ ~Old(r)
  <2> SUFFICES ASSUME NEW i \in Appends(t), r \in undo[t][i].rows
               PROVE  r <= count /\ inserted[r] = commit_id[t] /\ ~Old(r)
    BY DEF Appending
  <2>1. i \in DOMAIN undo[t] /\ i <= done[t]  BY <1>0 DEF Appends
  <2>2. inserted[r] = commit_id[t]  BY <1>0, <2>1 DEF SoundInv, PendingInv
  <2>3. /\ undo[t][i].rows = undo[t][i].at .. undo[t][i].at + local[t] - 1
        /\ undo[t][i].at + local[t] - 1 <= count
    BY DEF SoundInv, AppendInv
  <2>4. undo[t][i].at \in Nat /\ local[t] \in Nat /\ count \in Nat
    <3>1. undo[t] \in Seq(Records) /\ local[t] \in Nat /\ count \in Nat  BY DEF CleanInv, DataTyped, TxnTyped
    <3>2. undo[t][i] \in Records  BY <2>1, <3>1
    <3> QED BY <3>1, <3>2 DEF Records
  <2>5. r <= count  BY <2>3, <2>4, ConstantTypes
  <2> QED BY <1>0, <2>2, <2>5, PendingIsNew
<1>2. r <= count => /\ UseVersion(Now, 0, inserted[r]) <=> inserted[r] <= last_commit
                    /\ UseVersion(clock, 0, inserted[r]) <=> inserted[r] <= last_commit \/ inserted[r] = commit_id[t]
                    /\ inserted[r] = commit_id[t] => Appending(t, r)
  <2> SUFFICES ASSUME r <= count
               PROVE  /\ UseVersion(Now, 0, inserted[r]) <=> inserted[r] <= last_commit
                      /\ UseVersion(clock, 0, inserted[r]) <=> inserted[r] <= last_commit \/ inserted[r] = commit_id[t]
                      /\ inserted[r] = commit_id[t] => Appending(t, r)
    OBVIOUS
  <2>1. inserted[r] \in Nat  BY InsertIdIs
  <2>2. CASE inserted[r] <= last_commit  BY <1>0, <2>1, <2>2 DEF UseVersion
  <2>3. ASSUME NEW u \in Txns, pc[u] \in {"written", "commit"}, inserted[r] = transaction_id[u]
        PROVE  inserted[r] >= TRANSACTION_ID_START
    BY <1>0, <2>3 DEF Live
  <2>4. CASE inserted[r] >= TRANSACTION_ID_START  BY <1>0, <2>1, <2>4 DEF UseVersion
  <2>5. ASSUME NEW u \in Txns, pc[u] = "commit", inserted[r] = commit_id[u], Appending(u, r)
        PROVE  inserted[r] = commit_id[t] /\ Appending(t, r)
    BY <1>0, <2>5
  <2>6. CASE inserted[r] = commit_id[t] /\ Appending(t, r)  BY <1>0, <2>1, <2>6 DEF UseVersion
  <2> QED BY <2>2, <2>3, <2>4, <2>5, <2>6, InsertIdIs DEF Appending
<1>3. /\ UseVersion(Now, 0, deleted[r]) <=> deleted[r] <= last_commit
      /\ UseVersion(clock, 0, deleted[r]) <=> deleted[r] <= last_commit \/ deleted[r] = commit_id[t]
      /\ deleted[r] = commit_id[t] <=> Deletion(t, r)
      /\ ~Old(r) => deleted[r] = NOT_DELETED_ID
  <2>1. deleted[r] \in Nat  BY DeleteIdIs
  <2>2. Deletion(t, r) => deleted[r] = commit_id[t]
    <3> SUFFICES ASSUME NEW i \in Deletes(t), r \in undo[t][i].rows PROVE deleted[r] = commit_id[t]
      BY DEF Deletion
    <3>1. i <= done[t]  BY <1>0 DEF Deletes
    <3> QED BY <1>0, <3>1 DEF SnapshotInv, StampedMarksInv
  <2>3. CASE deleted[r] <= last_commit /\ Old(r)  BY <1>0, <2>1, <2>2, <2>3 DEF UseVersion
  <2>4. ASSUME NEW u \in Txns, pc[u] \in Undecided, deleted[r] = transaction_id[u]
        PROVE  deleted[r] >= TRANSACTION_ID_START
    BY <1>0, <2>4 DEF Live, Undecided
  <2>5. CASE deleted[r] >= TRANSACTION_ID_START /\ Old(r)  BY <1>0, <2>1, <2>2, <2>5 DEF UseVersion
  <2>6. CASE deleted[r] = NOT_DELETED_ID  BY <1>0, <2>1, <2>2, <2>6 DEF UseVersion
  <2>7. ASSUME NEW u \in Txns, pc[u] = "commit", deleted[r] = commit_id[u], Deletion(u, r)
        PROVE  deleted[r] = commit_id[t] /\ Deletion(t, r)
    BY <1>0, <2>7
  <2>8. CASE deleted[r] = commit_id[t] /\ Deletion(t, r) /\ Old(r)  BY <1>0, <2>1, <2>8 DEF UseVersion
  <2> QED BY <2>3, <2>4, <2>5, <2>6, <2>7, <2>8, DeleteIdIs DEF Deletion
<1>4. Appending(t, r) => \A v \in Rows : ~Has(v, t, r)
  <2> SUFFICES ASSUME ~Old(r), NEW v \in Rows, NEW i \in DOMAIN chain[v], r \in DOMAIN chain[v][i].old PROVE FALSE
    BY <1>1 DEF Has
  <2> QED BY DEF SnapshotInv, ChainInv, OldRowsInv
<1>5. Appending(t, r) => deleted[r] = NOT_DELETED_ID /\ ~Deletion(t, r)  BY <1>0, <1>1, <1>3
<1>6. Appending(t, r) => ~Visible(Now, 0, r) /\ Visible(clock, 0, r)
  BY <1>0, <1>1, <1>2, <1>3, <1>5 DEF Visible
<1>7. Deletion(t, r) => ~Visible(clock, 0, r)  BY <1>3 DEF Visible
<1>8. ~Appending(t, r) /\ ~Deletion(t, r) => (Visible(clock, 0, r) <=> Visible(Now, 0, r))
  BY <1>2, <1>3 DEF Visible
<1> QED BY <1>4, <1>5, <1>6, <1>7, <1>8

\* What a later reader finds: the new value of rows that t has appended or
\* updated, and of all others what was there before.
LEMMA CommitReads ==
  ASSUME IInv, CleanInv, Sound, SoundInv, SnapshotInv, NEW t \in Txns, CommitDone(t), NEW r \in Rows
  PROVE  /\ Appending(t, r) \/ (\E v \in Rows : Has(v, t, r)) => ValueOf(clock - 1, 0, r) = t
         /\ ~(\E v \in Rows : Has(v, t, r)) => ValueOf(clock - 1, 0, r) = ValueOf(Now - 1, 0, r)
<1>0. /\ Now = commit_id[t] /\ commit_id[t] \in Nat /\ clock \in Nat /\ last_commit \in Nat
      /\ last_commit < commit_id[t] /\ commit_id[t] < clock /\ clock <= TRANSACTION_ID_START
      /\ TRANSACTION_ID_START \in Nat
      /\ pc[t] = "commit" /\ done[t] = Len(undo[t]) /\ DOMAIN undo[t] = 1 .. done[t]
      /\ \A u \in Txns : /\ transaction_id[u] \in Nat /\ (pc[u] = "commit" => u = t)
                         /\ pc[u] \in Live => TRANSACTION_ID_START <= transaction_id[u]
  BY CommitIs
<1> DEFINE v == Vec(r)
<1>1. v \in Rows /\ chain[v] \in Seq(Infos)  BY RowVecs DEF CleanInv, DataTyped
<1> HIDE DEF v
<1>2. \A i \in DOMAIN chain[v] : chain[v][i].owner = t => chain[v][i].version = commit_id[t]
  <2> SUFFICES ASSUME NEW i \in DOMAIN chain[v], chain[v][i].owner = t PROVE chain[v][i].version = commit_id[t]
    OBVIOUS
  <2>1. Linked(t, v, chain[v][i].version)  BY <1>1 DEF CleanInv, LinkInv
  <2>2. PICK j \in DOMAIN undo[t] : pc[t] \in StampedPcs \union EndedPcs =>
                 chain[v][i].version = commit_id[t] \/ (pc[t] = "commit" /\ j > done[t])
    BY <2>1 DEF Linked
  <2>3. ~(j > done[t])  BY <1>0, <2>2
  <2> QED BY <1>0, <2>2, <2>3 DEF StampedPcs
<1>3. \A i \in DOMAIN chain[v] : chain[v][i].owner # t =>
        /\ chain[v][i].version \in Nat
        /\ chain[v][i].version <= last_commit \/ (chain[v][i].version >= TRANSACTION_ID_START /\ pc[chain[v][i].owner] \in Undecided)
  <2> SUFFICES ASSUME NEW i \in DOMAIN chain[v], chain[v][i].owner # t
               PROVE  /\ chain[v][i].version \in Nat
                      /\ \/ chain[v][i].version <= last_commit
                         \/ chain[v][i].version >= TRANSACTION_ID_START /\ pc[chain[v][i].owner] \in Undecided
    OBVIOUS
  <2>1. PICK u \in Txns : u = chain[v][i].owner  BY <1>1, VersionIs
  <2>2. PICK n \in Nat : n = chain[v][i].version  BY <1>1, VersionIs
  <2>3. \/ pc[u] \in Undecided /\ n = transaction_id[u]
        \/ pc[u] = "commit" /\ n = commit_id[u]
        \/ n <= last_commit
    BY <1>1, <2>1, <2>2, VersionIs
  <2>4. pc[u] # "commit"  BY <1>0, <2>1
  <2>5. pc[u] \in Undecided /\ n = transaction_id[u] => n >= TRANSACTION_ID_START  BY <1>0 DEF Undecided, Live
  <2> QED BY <2>1, <2>2, <2>3, <2>4, <2>5
<1>4. ValueOf(clock - 1, 0, r) = Reading(chain[v], current[r], clock - 1, 0, r)
      /\ ValueOf(Now - 1, 0, r) = Reading(chain[v], current[r], Now - 1, 0, r)
  BY ReadingValue DEF v
<1>5. ASSUME ~(\E w \in Rows : Has(w, t, r)) PROVE ValueOf(clock - 1, 0, r) = ValueOf(Now - 1, 0, r)
  <2>1. \A i \in DOMAIN chain[v] : Applies(chain[v][i], clock - 1, 0, r) <=> Applies(chain[v][i], Now - 1, 0, r)
    <3> SUFFICES ASSUME NEW i \in DOMAIN chain[v], r \in DOMAIN chain[v][i].old
                 PROVE  chain[v][i].version > clock - 1 /\ chain[v][i].version # 0
                          <=> chain[v][i].version > Now - 1 /\ chain[v][i].version # 0
      BY AppliesIs
    <3>1. chain[v][i].owner # t  BY <1>1, <1>5 DEF Has
    <3>2. PICK n \in Nat : n = chain[v][i].version /\ (n <= last_commit \/ n >= TRANSACTION_ID_START)  BY <1>3, <3>1
    <3>3. n > clock - 1 /\ n # 0 <=> n > Now - 1 /\ n # 0  BY <1>0, <3>2
    <3> QED BY <3>2, <3>3
  <2>2. {i \in DOMAIN chain[v] : Applies(chain[v][i], clock - 1, 0, r)}
          = {i \in DOMAIN chain[v] : Applies(chain[v][i], Now - 1, 0, r)}
    BY <2>1
  <2>3. Reading(chain[v], current[r], clock - 1, 0, r) = Reading(chain[v], current[r], Now - 1, 0, r)
    BY <2>2, Zenon DEF Reading
  <2> QED BY <1>4, <2>3
<1>6. ASSUME Appending(t, r) PROVE ValueOf(clock - 1, 0, r) = t
  <2>1. PICK i \in Appends(t) : r \in undo[t][i].rows  BY <1>6 DEF Appending
  <2>2. current[r] = t  BY <1>0, <2>1 DEF SnapshotInv, PendingValueInv
  <2>3. ~Old(r)  BY <1>0, <2>1, PendingIsNew
  <2>4. \A k \in DOMAIN chain[v] : r \notin DOMAIN chain[v][k].old
    BY <1>1, <2>3 DEF SnapshotInv, ChainInv, OldRowsInv
  <2>5. \A k \in DOMAIN chain[v] : ~Applies(chain[v][k], clock - 1, 0, r)  BY <2>4, AppliesIs
  <2> QED BY <1>1, <1>4, <2>2, <2>5, ReadingBase
<1>7. ASSUME NEW w \in Rows, Has(w, t, r) PROVE ValueOf(clock - 1, 0, r) = t
  <2>1. PICK m \in DOMAIN chain[w] : chain[w][m].owner = t /\ r \in DOMAIN chain[w][m].old  BY <1>7 DEF Has
  <2>2. w = v  BY <2>1 DEF SnapshotInv, ChainInv, OldRowsInv, v
  <2>3. pc[t] \in Undecided  BY <1>0 DEF Undecided, Live
  <2>4. current[r] = t  BY <1>1, <2>1, <2>2, <2>3 DEF SnapshotInv, ChainInv, NewestInv
  <2>5. DOMAIN chain[v] \subseteq Nat  BY <1>1
  <2>6. \A k \in DOMAIN chain[v] : ~Applies(chain[v][k], clock - 1, 0, r)
    <3> SUFFICES ASSUME NEW k \in DOMAIN chain[v], r \in DOMAIN chain[v][k].old
                 PROVE  ~(chain[v][k].version > clock - 1)
      BY AppliesIs
    <3>1. CASE chain[v][k].owner = t  BY <1>0, <1>2, <3>1
    <3>2. CASE chain[v][k].owner # t
      <4>1. pc[chain[v][k].owner] \notin Undecided
        <5> SUFFICES ASSUME pc[chain[v][k].owner] \in Undecided PROVE FALSE
          OBVIOUS
        <5>1. k # m /\ k \in Nat /\ m \in Nat  BY <2>1, <2>2, <2>5, <3>2
        <5>2. k < m => DOMAIN chain[v][k].old \cap DOMAIN chain[v][m].old = {}
          BY <1>1, <2>1, <2>2, <2>3 DEF SnapshotInv, ChainInv, RowOrderInv
        <5>3. m < k => DOMAIN chain[v][m].old \cap DOMAIN chain[v][k].old = {}
          BY <1>1, <2>1, <2>2 DEF SnapshotInv, ChainInv, RowOrderInv
        <5> QED BY <2>1, <2>2, <5>1, <5>2, <5>3
      <4>2. chain[v][k].version <= last_commit /\ chain[v][k].version \in Nat  BY <1>3, <3>2, <4>1
      <4> QED BY <1>0, <4>2
    <3> QED BY <3>1, <3>2
  <2> QED BY <1>1, <1>4, <2>4, <2>6, ReadingBase
<1> QED BY <1>5, <1>6, <1>7

\* As many rows as t has added.
LEMMA AppendsAll ==
  ASSUME IInv, CleanInv, Sound, SoundInv, SnapshotInv, NEW t \in Txns, pc[t] = "commit"
  PROVE  Cardinality({r \in Rows : Appending(t, r)}) = local[t]
<1>0. /\ undo[t] \in Seq(Records) /\ local[t] \in Nat /\ count \in Nat /\ AppendInv
      /\ \A r \in 1 .. count : r \in Rows
  BY RoomIs DEF CleanInv, DataTyped, TxnTyped, SoundInv
<1>1. CASE Appends(t) = {}
  <2>1. ~(local[t] > 0)  BY <1>1 DEF SnapshotInv, LocalInv
  <2>2. {r \in Rows : Appending(t, r)} = {}  BY <1>1 DEF Appending
  <2>3. local[t] = 0  BY <1>0, <2>1
  <2>4. Cardinality({}) = 0  BY FS_EmptySet
  <2> QED BY <2>2, <2>3, <2>4
<1>2. ASSUME NEW i \in Appends(t) PROVE Cardinality({r \in Rows : Appending(t, r)}) = local[t]
  <2>1. /\ local[t] > 0
        /\ undo[t][i].rows = undo[t][i].at .. undo[t][i].at + local[t] - 1
        /\ undo[t][i].at + local[t] - 1 <= count
        /\ \A j \in Appends(t) : i = j
    BY <1>0, <1>2 DEF AppendInv
  <2>2. undo[t][i].at \in Nat \ {0}
    <3>1. i \in DOMAIN undo[t]  BY <1>2 DEF Appends
    <3>2. undo[t][i] \in Records  BY <1>0, <3>1
    <3> QED BY <3>2 DEF Records
  <2>3. PICK a \in Nat \ {0} : a = undo[t][i].at  BY <2>2
  <2>4. \A r : Appending(t, r) <=> r \in a .. a + local[t] - 1  BY <1>2, <2>1, <2>3 DEF Appending
  <2>5. \A r \in a .. a + local[t] - 1 : r \in 1 .. count  BY SMTT(30), <1>0, <2>1, <2>3
  <2>6. {r \in Rows : Appending(t, r)} = a .. a + local[t] - 1  BY <1>0, <2>4, <2>5
  <2>7. PICK n \in Nat : n = local[t] /\ n > 0  BY <1>0, <2>1
  <2>8. a \in Int /\ a + n - 1 \in Int /\ ~(a > a + n - 1) /\ (a + n - 1) - a + 1 = n
    BY <2>3, <2>7
  <2>9. Cardinality(a .. a + n - 1) = n  BY <2>8, FS_Interval
  <2> QED BY <2>6, <2>7, <2>9
<1> QED BY <1>1, <1>2

\* COMMIT is over: all that the transaction did appears at once.
LEMMA CommitStep ==
  ASSUME IInv, CleanInv, Sound, SoundInv, SnapshotInv, NEW t \in Txns, CommitDone(t)
  PROVE  Snapshots!Next
<1>0. /\ Step(t) /\ pc[t] = "commit" /\ pc'[t] = "remove" /\ Now' = clock /\ clock \in Nat /\ pc[t] \in Undecided
      /\ UNCHANGED <<start_time, transaction_id, local, count, groups, inserted, deleted, chain, current, undo>>
  BY CommitIs DEF Step, Undecided, Live
<1> DEFINE A == {r \in Rows : Appending(t, r)}
<1>1. \A r : r \in DeletedBy(t) <=> Deletion(t, r)  BY DeletedByIs DEF DeletedAre
<1>2. \A r : r \in UpdatedBy(t) <=> r \in Rows /\ \E v \in Rows : Has(v, t, r)  BY <1>0, UpdatedByIs DEF UpdatedAre
<1>3. \A r \in Rows : Db[r] = IF Visible(Now, 0, r) THEN ValueOf(Now - 1, 0, r) ELSE Absent
  BY DEF Db, CommittedTable
<1>4. Db' = [r \in Rows |-> IF Visible(clock, 0, r) THEN ValueOf(clock - 1, 0, r) ELSE Absent]
  <2>1. \A r : Vec(r)' = Vec(r)  BY <1>0 DEF Vec
  <2>2. \A s, n, id, r : /\ VisibleThen(s, id, r) <=> Visible(s, id, r)
                         /\ ReadingThen(n, id, r) = ValueOf(n, id, r)
    BY <1>0, <2>1, ReadingValue DEF VisibleThen, Visible, ReadingThen
  <2> QED BY <1>0, <2>2, TablesThen
<1>5. \A r \in Rows : Visible(Now, 0, r) => ValueOf(Now - 1, 0, r) # Absent
  <2> SUFFICES ASSUME NEW r \in Rows PROVE ValueOf(Now - 1, 0, r) \in Values
    BY AbsentAssumption DEF Values
  <2>1. Vec(r) \in Rows /\ chain[Vec(r)] \in Seq(Infos) /\ current[r] \in Values  BY RowVecs DEF CleanInv, DataTyped
  <2>2. Reading(chain[Vec(r)], current[r], Now - 1, 0, r) \in Values  BY <2>1, ReadingTyped
  <2> QED BY <2>2, ReadingValue
<1>6. ASSUME NEW r \in Rows
      PROVE  Db'[r] = CASE r \in A                              -> t
                        [] r \in DeletedBy(t) /\ r \notin A     -> Absent
                        [] r \notin DeletedBy(t) \union A
                             /\ r \in UpdatedBy(t) /\ Db[r] # Absent -> t
                        [] OTHER                                -> Db[r]
  <2>1. Db'[r] = IF Visible(clock, 0, r) THEN ValueOf(clock - 1, 0, r) ELSE Absent  BY <1>4
  <2>2. r \in A <=> Appending(t, r)  OBVIOUS
  <2>3. r \in UpdatedBy(t) <=> \E v \in Rows : Has(v, t, r)  BY <1>2
  <2> HIDE DEF A
  <2>4. CASE r \in A
    <3>1. Db'[r] = t  BY <2>1, <2>2, <2>4, CommitSees, CommitReads
    <3> QED BY <2>4, <3>1
  <2>5. CASE r \in DeletedBy(t) /\ r \notin A
    <3>1. Db'[r] = Absent  BY <1>1, <2>1, <2>5, CommitSees
    <3> QED BY <2>5, <3>1
  <2>6. CASE r \notin DeletedBy(t) /\ r \notin A
    <3>1. Visible(clock, 0, r) <=> Visible(Now, 0, r)  BY <1>1, <2>2, <2>6, CommitSees
    <3>2. Db[r] # Absent <=> Visible(Now, 0, r)  BY <1>3, <1>5
    <3>3. CASE ~Visible(Now, 0, r)
      <4>1. Db'[r] = Absent /\ Db[r] = Absent  BY <1>3, <2>1, <3>1, <3>3
      <4> QED BY <2>6, <4>1
    <3>4. CASE Visible(Now, 0, r) /\ r \in UpdatedBy(t)
      <4>1. Db'[r] = t  BY <2>1, <2>3, <3>1, <3>4, CommitReads
      <4> QED BY <2>6, <3>2, <3>4, <4>1
    <3>5. CASE Visible(Now, 0, r) /\ r \notin UpdatedBy(t)
      <4>1. Db'[r] = Db[r]  BY <1>3, <2>1, <2>3, <3>1, <3>5, CommitReads
      <4> QED BY <2>6, <3>5, <4>1
    <3> QED BY <3>3, <3>4, <3>5
  <2> QED BY <2>4, <2>5, <2>6
<1>7. \A r \in A : Db[r] = Absent  BY <1>3, CommitSees
<1>8. A \in SUBSET Rows /\ Cardinality(A) = local[t]  BY <1>0, AppendsAll
<1> HIDE DEF A
<1>9. /\ Phases[t] = PhaseAt(pc[t]) /\ Phases' = [Phases EXCEPT ![t] = PhaseAt(pc'[t])]
      /\ Views' = [Views EXCEPT ![t] = View(t)'] /\ Views[t] = View(t)
      /\ Deleteds' = [Deleteds EXCEPT ![t] = DeletedBy(t)'] /\ Deleteds[t] = DeletedBy(t)
      /\ Updateds' = [Updateds EXCEPT ![t] = UpdatedBy(t)'] /\ Updateds[t] = UpdatedBy(t)
      /\ Inserteds' = [Inserteds EXCEPT ![t] = Adds(pc'[t], local'[t])] /\ Inserteds[t] = Adds(pc[t], local[t])
  BY <1>0, Frame
<1>10. PhaseAt(pc[t]) = "ending" /\ PhaseAt(pc'[t]) = "done"  BY <1>0, PhaseAtIs
<1>11. Adds(pc'[t], local'[t]) = 0 /\ Adds(pc[t], local[t]) = local[t]  BY <1>10 DEF Adds
<1>12. DeletedBy(t)' = {} /\ UpdatedBy(t)' = {}
  <2>1. Phase(t)' = "done"  BY <1>0, <1>10, PhasesMove
  <2> QED BY <2>1 DEF DeletedBy, UpdatedBy
<1>13. UNCHANGED Views
  <2>1. View(t)' = View(t)  BY <1>0, NoView
  <2>2. Views = [u \in Txns |-> Views[u]]  BY DEF Views
  <2> HIDE DEF View
  <2> QED BY <1>9, <2>1, <2>2
<1>14. Db' = [r \in Rows |->
                CASE r \in A                                -> t
                  [] r \in Deleteds[t] /\ r \notin A        -> Absent
                  [] r \notin Deleteds[t] \union A
                       /\ r \in Updateds[t] /\ Db[r] # Absent -> t
                  [] OTHER                                  -> Db[r]]
  <2>1. Db' = [r \in Rows |-> Db'[r]]  BY <1>4
  <2>2. PICK D : D = DeletedBy(t) /\ D = Deleteds[t]  BY <1>9
  <2>3. PICK U : U = UpdatedBy(t) /\ U = Updateds[t]  BY <1>9
  <2>4. \A r \in Rows : Db'[r] = CASE r \in A                  -> t
                                   [] r \in D /\ r \notin A    -> Absent
                                   [] r \notin D \union A
                                        /\ r \in U /\ Db[r] # Absent -> t
                                   [] OTHER                    -> Db[r]
    BY <1>6, <2>2, <2>3
  <2> HIDE DEF DeletedBy, UpdatedBy, Db
  <2> QED BY <2>1, <2>2, <2>3, <2>4
<1>15. /\ Deleteds' = [Deleteds EXCEPT ![t] = {}] /\ Updateds' = [Updateds EXCEPT ![t] = {}]
       /\ Inserteds' = [Inserteds EXCEPT ![t] = 0] /\ Inserteds[t] = local[t]
       /\ Phases[t] = "ending" /\ Phases' = [Phases EXCEPT ![t] = "done"]
  <2> HIDE DEF DeletedBy, UpdatedBy, View
  <2> QED BY <1>9, <1>10, <1>11, <1>12
<1> QED BY <1>7, <1>8, <1>13, <1>14, <1>15, MapsCommit

-----------------------------------------------------------------------------
(* The theorem                                                             *)

\* Each step is one of the abstract specification, or changes nothing there.
LEMMA StepMaps ==
  ASSUME IInv, CleanInv, Sound, SoundInv, SnapshotInv, FreshInv, NEW t \in Txns, Step(t)
  PROVE  Snapshots!Next \/ UNCHANGED Snapshots!vars
<1>1. CASE Start(t)  BY <1>1, StartStep
<1>2. CASE Insert(t)  BY <1>2, InsertStep
<1>3. CASE Delete(t)  BY <1>3, DeleteStep
<1>4. CASE Update(t)  BY <1>4, UpdateStep
<1>5. CASE CommitDone(t)  BY <1>5, CommitStep
<1>6. CASE RollbackEntry(t) \/ (Leave(t) /\ pc[t] = "rollback")  BY <1>6, GiveUpStep
<1>7. CASE pc[t] = "running" /\ (CommitDirectly(t) \/ CommitThroughWAL(t) \/ Rollback(t))  BY <1>7, EndStep
<1>8. CASE pc[t] # "running" /\ ~Start(t) /\ ~Insert(t) /\ ~Delete(t) /\ ~Update(t) /\ ~CommitDone(t)
           /\ ~RollbackEntry(t) /\ ~(Leave(t) /\ pc[t] = "rollback")
  BY <1>8, StutterStep
<1>9. pc[t] = "running" => Start(t) \/ Insert(t) \/ Delete(t) \/ Update(t) \/ CommitDirectly(t) \/ CommitThroughWAL(t) \/ Rollback(t)
  BY DEF Step, WriteToWAL, TakeTimestamp, CommitEntry, CommitDone, FlushFails, RollbackEntry, Leave, PopCleanup,
         CleanupEntry, CleanupDone, StartCheckpoint, FinishCheckpoint
<1> QED BY <1>1, <1>2, <1>3, <1>4, <1>5, <1>6, <1>7, <1>8, <1>9

\* A step that changes nothing changes nothing there.
LEMMA StillMaps ==
  ASSUME UNCHANGED vars
  PROVE  UNCHANGED Snapshots!vars
<1>0. UNCHANGED <<setup, clock, pc, start_time, transaction_id, commit_id, undo, local, done, count, groups,
                  inserted, deleted, chain, current>>
  BY DEF vars, managerVars, txnVars, versionVars, updateVars
<1>1. \A t : View(t)' = View(t)  BY <1>0, SameView
<1>2. \A t : Phase(t)' = Phase(t)  BY <1>0 DEF Phase
<1>3. \A t : DeletedBy(t)' = DeletedBy(t)  BY <1>0, <1>2 DEF DeletedBy
<1>4. \A t : UpdatedBy(t)' = UpdatedBy(t)  BY <1>0, <1>2 DEF UpdatedBy, Rows
<1>5. Db' = Db
  <2>1. Now' = Now
    <3>1. Committing' = Committing  BY <1>0 DEF Committing
    <3> QED BY <1>0, <3>1 DEF Now
  <2>2. \A r : Vec(r)' = Vec(r)  BY <1>0 DEF Vec
  <2>3. \A s, n, id, r : /\ VisibleThen(s, id, r) <=> Visible(s, id, r)
                         /\ ReadingThen(n, id, r) = ValueOf(n, id, r)
    BY <1>0, <2>2, ReadingValue DEF VisibleThen, Visible, ReadingThen
  <2>4. Db' = [r \in Rows |-> IF Visible(Now, 0, r) THEN ValueOf(Now - 1, 0, r) ELSE Absent]
    BY <2>1, <2>3, TablesThen
  <2> QED BY <2>4 DEF Db, CommittedTable
<1> HIDE DEF View, Phase, DeletedBy, UpdatedBy
<1>6. UNCHANGED <<Phases, Views, Deleteds, Updateds, Inserteds>>
  BY <1>0, <1>1, <1>2, <1>3, <1>4 DEF Phases, Views, Deleteds, Updateds, Inserteds
<1> QED BY <1>5, <1>6, MapsStutter

\* Initially the table holds what was loaded, and nobody has started.
LEMMA InitMaps ==
  ASSUME Init
  PROVE  Snapshots!Init
<1>1. /\ pc = [t \in Txns |-> IF t \in DOMAIN setup.changes THEN "new" ELSE "done"]
      /\ undo = [t \in Txns |-> <<>>] /\ local = [t \in Txns |-> 0]
      /\ chain = [v \in Rows |-> <<>>] /\ current = [r \in Rows |-> Base]
  BY DEF Init
<1>2. \A t \in Txns : Phase(t) = "new"  BY <1>1 DEF Phase
<1>3. \A t \in Txns : View(t) = [r \in Rows |-> Absent]
  <2>1. \A t \in Txns : pc[t] # "running"  BY <1>1
  <2> QED BY <2>1, NoView
<1>4. \A t \in Txns : DeletedBy(t) = {}
  <2> SUFFICES ASSUME NEW t \in Txns PROVE DeletedBy(t) = {}
    OBVIOUS
  <2>1. undo[t] = <<>>  BY <1>1
  <2>2. DOMAIN undo[t] = {}  BY <2>1
  <2> QED BY <1>2, <2>2 DEF DeletedBy
<1>5. \A t \in Txns : UpdatedBy(t) = {}
  <2>1. \A v \in Rows : DOMAIN chain[v] = {}
    <3> SUFFICES ASSUME NEW v \in Rows PROVE DOMAIN chain[v] = {}
      OBVIOUS
    <3>1. chain[v] = <<>>  BY <1>1
    <3> QED BY <3>1
  <2> QED BY <1>2, <2>1 DEF UpdatedBy
<1>6. Db \in [Rows -> {Base, Absent}]
  <2>1. \A r \in Rows : Visible(Now, 0, r) => Db[r] = Base
    <3> SUFFICES ASSUME NEW r \in Rows, Visible(Now, 0, r) PROVE Db[r] = Base
      OBVIOUS
    <3>1. Db[r] = ValueOf(Now - 1, 0, r)  BY DEF Db, CommittedTable
    <3>2. ValueOf(Now - 1, 0, r) = Reading(chain[Vec(r)], current[r], Now - 1, 0, r)  BY ReadingValue
    <3>3. Vec(r) \in Rows
      <4>1. DataTyped  BY InitCleanInv DEF CleanInv
      <4> QED BY <4>1, RowVecs
    <3>4. chain[Vec(r)] = <<>> /\ current[r] = Base  BY <1>1, <3>3
    <3>5. Reading(chain[Vec(r)], current[r], Now - 1, 0, r) = current[r]
      <4>1. <<>> \in Seq(Infos) /\ DOMAIN <<>> = {}  OBVIOUS
      <4>2. chain[Vec(r)] \in Seq(Infos) /\ \A k \in DOMAIN chain[Vec(r)] : FALSE  BY <3>4, <4>1
      <4> QED BY <4>2, ReadingBase
    <3> QED BY <3>1, <3>2, <3>4, <3>5
  <2>2. \A r \in Rows : ~Visible(Now, 0, r) => Db[r] = Absent  BY DEF Db, CommittedTable
  <2>3. Db = [r \in Rows |-> Db[r]]  BY DEF Db, CommittedTable
  <2> HIDE DEF Db
  <2> QED BY <2>1, <2>2, <2>3
<1> HIDE DEF View, Phase, DeletedBy, UpdatedBy
<1>7. /\ Phases = [t \in Txns |-> "new"] /\ Views = [t \in Txns |-> [r \in Rows |-> Absent]]
      /\ Deleteds = [t \in Txns |-> {}] /\ Updateds = [t \in Txns |-> {}]
      /\ Inserteds = [t \in Txns |-> 0]
  BY <1>2, <1>3, <1>4, <1>5 DEF Phases, Views, Deleteds, Updateds, Inserteds
<1> HIDE DEF Snapshots!Nothing
<1> QED BY <1>6, <1>7 DEF Snapshots!Init, Snapshots!Nothing, Db, Phases, Views, Deleteds, Updateds, Inserteds

\* All that the proof needs of a state.
ReadInv == IInv /\ CleanInv /\ Sound /\ SoundInv /\ SnapshotInv /\ FreshInv

\* It holds at first,
LEMMA InitReadInv == Init /\ Sound => ReadInv
BY InitIInv, InitCleanInv, InitSoundInv, InitSnapshotInv, InitFreshInv DEF ReadInv

\* and every step keeps it, and is one of the abstract specification or none.
LEMMA StepReadInv == ReadInv /\ [Next]_vars => ReadInv' /\ [Snapshots!Next]_(Snapshots!vars)
<1> SUFFICES ASSUME ReadInv, [Next]_vars PROVE ReadInv' /\ (Snapshots!Next \/ UNCHANGED Snapshots!vars)
  OBVIOUS
<1>1. IInv /\ CleanInv /\ Sound /\ SoundInv /\ SnapshotInv /\ FreshInv  BY DEF ReadInv
<1>2. IInv' /\ CleanInv' /\ (Sound => SoundInv)' /\ (Sound => SnapshotInv)'
  BY <1>1, StepIInv, StepCleanInv, StepSoundInv, StepSnapshotInv
<1>3. CASE UNCHANGED vars
  <2>1. Sound' /\ FreshInv'  BY <1>1, <1>3 DEF vars, txnVars, Sound, FreshInv
  <2> QED BY <1>2, <1>3, <2>1, StillMaps DEF ReadInv
<1>4. CASE AllDone
  <2>1. UNCHANGED vars  BY <1>4 DEF AllDone
  <2> QED BY <1>3, <2>1
<1>5. ASSUME NEW t \in Txns, Step(t) PROVE ReadInv' /\ (Snapshots!Next \/ UNCHANGED Snapshots!vars)
  <2>1. Sound'
    <3>1. setup' = setup  BY <1>1, <1>5, SetupStays
    <3> QED BY <1>1, <3>1 DEF Sound
  <2>2. FreshInv'  BY <1>1, <1>5, FreshStep
  <2> QED BY <1>1, <1>2, <1>5, <2>1, <2>2, StepMaps DEF ReadInv
<1>6. [Next]_vars => UNCHANGED vars \/ AllDone \/ \E t \in Txns : Step(t)
  BY DEF Next, Step
<1> QED BY <1>3, <1>4, <1>5, <1>6

\* The row versions implement SnapshotIsolation, for any number of transactions,
\* rows and changes: a running transaction reads the table of its start with its
\* own changes, whatever others commit, roll back or clean up meanwhile (Fetch of
\* ChunkVectorInfo, UpdatesForTransaction of UpdateInfo); of two that write a row the
\* second fails; a commit appears at once, and one that is rolled back never does.
\* Commits that fail and DELETEs that name a row twice are ruled out (Sound): with
\* these the code breaks the promise (MCRowVersions_lost_append.cfg and _lost_delete.cfg).
THEOREM SpecSnapshotReads == Spec /\ Sound => SnapshotReads
<1>1. Init /\ Sound => ReadInv  BY InitReadInv
<1>2. Init => Snapshots!Init  BY InitMaps
<1>3. ReadInv /\ [Next]_vars => ReadInv' /\ [Snapshots!Next]_(Snapshots!vars)  BY StepReadInv
<1> QED BY <1>1, <1>2, <1>3, PTL DEF Spec, SnapshotReads, Snapshots!Spec
===============================================================================
