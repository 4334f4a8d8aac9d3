--------------------------- MODULE DurabilityProofs ---------------------------
(***************************************************************************)
(* Proofs about Durability, for any transactions, crashes and checkpoints. *)
(* First, commits that were rolled back stay away, whatever overlaps: what *)
(* nobody was promised is in no log and in no block, but for the last      *)
(* entry of the transaction that is writing.  Then, where commits do not   *)
(* overlap checkpoints: nothing is lost, since at each moment the blocks   *)
(* of the file and the flushed entries of the main log hold what was       *)
(* reported, and the last marker in that log tells which of the two to     *)
(* read; the files keep the promise of CommitLog; the database opens, as   *)
(* the iteration the log names, its last marker and the header agree; and  *)
(* each commit is applied once, in the order of the history.               *)
(***************************************************************************)
EXTENDS Durability, SequenceTheorems, FiniteSetTheorems, WellFoundedInduction, TLAPS

Entries == [kind : {"version", "marker", "flush", "torn"}, val : Nat]
             \union [kind : {"data"}, val : Txns]
Logs == Seq(Entries)
Commits == Seq(Txns)
Fates == {"new", "committing", "acked", "aborted", "unknown"}

Wals == [path : Paths, size : Nat, iter : Nat, synced : Nat,
         state : {"no_wal", "uninitialized", "requires_truncate", "initialized"}]

Checkpoints == [pc : {"idle", "start", "marked", "blocks", "header", "finish", "done"},
                txn : Txns \union {None}, root : Nat, content : Commits, hasWal : BOOLEAN]

In(t, commits) == \E i \in 1 .. Len(commits) : commits[i] = t

\* Replay reads entry i: nothing up to it is cut short.
Read(es, i) == i \in 1 .. Len(es) /\ \A k \in 1 .. i : es[k].kind # "torn"
IsFlush(es, i) == Read(es, i) /\ es[i].kind = "flush"
IsMarker(es, i) == Read(es, i) /\ es[i].kind = "marker"

\* An entry of t is in the log; replay of the first n entries applies one.
Has(es, t) == \E i \in 1 .. Len(es) : es[i].kind = "data" /\ es[i].val = t

AppliesTo(es, n, t) ==
  \E i, f \in 1 .. n : /\ IsFlush(es, f) /\ i <= f
                       /\ es[i].kind = "data" /\ es[i].val = t
Applies(es, t) == AppliesTo(es, Len(es), t)

\* Entry i is applied by a replay.
Committed(es, i) ==
  es[i].kind = "data" /\ \E f \in 1 .. Len(es) : IsFlush(es, f) /\ i <= f

-----------------------------------------------------------------------------
(* The invariant, whatever overlaps *)

TypeInv ==
  /\ setup \in Setups
  /\ file \in [iter : Nat, root : Nat, content : Commits]
  /\ files \subseteq Paths /\ disk \in [Paths -> Logs]
  /\ mode \in {"closed", "load", "merged", "moved", "failed", "running"}
  /\ replayState \in {"main_wal", "checkpoint_wal"}
  /\ mem \in Commits /\ iteration \in Nat
  /\ wal \in Wals
  /\ walLock \in {"free", "writer", "checkpoint"}
  /\ writer \in [txn : Txns \union {None}, pc : {"idle", "written", "flushed"}, size : Nat]
  /\ ckpt \in Checkpoints
  /\ fate \in [Txns -> Fates]

\* While the database is not open nothing volatile is left; the WAL lock is
\* held by the writer or by the checkpoint that has written its marker.
ControlInv ==
  /\ mode # "running" =>
       /\ wal = NewWal("main", 0, "no_wal", NoIter)
       /\ writer = NoWriter /\ ckpt = NoCheckpoint
  /\ walLock = "writer" <=> writer.pc # "idle"
  /\ walLock = "checkpoint" <=> ckpt.pc = "marked"
  /\ writer.pc = "idle" => writer = NoWriter
  /\ ckpt.pc = "idle" => ckpt = NoCheckpoint
  /\ writer.pc # "idle" => writer.txn # None /\ fate[writer.txn] = "committing"
                            /\ writer.txn # ckpt.txn
  /\ ckpt.txn # None => fate[ckpt.txn] = "committing"
  /\ wal.size <= Len(disk[wal.path])

\* In no block and not in memory.
Unseen(t) == ~In(t, mem) /\ ~In(t, file.content) /\ ~In(t, ckpt.content)

\* Who has not started to commit, or was rolled back, is nowhere; who is writing
\* is in the open log only, behind what a roll-back keeps.
AbsentInv ==
  /\ \A t \in Txns : fate[t] \in {"new", "aborted"} =>
       Unseen(t) /\ \A p \in Paths : ~Has(disk[p], t)
  /\ writer.pc = "written" =>
       /\ Unseen(writer.txn)
       /\ \A p \in Paths \ {wal.path} : ~Has(disk[p], writer.txn)
       /\ writer.size <= Len(disk[wal.path])
       /\ \A i \in 1 .. writer.size : disk[wal.path][i] # Data(writer.txn)

AbortInv == TypeInv /\ ControlInv /\ AbsentInv

-----------------------------------------------------------------------------
(* The invariant where commits do not overlap checkpoints *)

Main == disk["main"]

\* How much of the log stays when it is opened for writing.
KeptLength == IF wal.state = "requires_truncate" THEN wal.size ELSE Len(disk[wal.path])

\* How much of the main log survives a crash, and how much of it belongs to
\* commits that are over.
SyncedLength == IF wal.state = "initialized" THEN wal.synced ELSE Len(Main)
SettledLength == IF writer.pc = "written" THEN writer.size ELSE KeptLength

\* The log is committed up to n, and no marker up to n is that of the file.
Settled(es, n, root) ==
  /\ n \in 0 .. Len(es) /\ (n = 0 \/ IsFlush(es, n))
  /\ \A i \in 1 .. n : es[i].kind = "marker" => es[i].val # root
  /\ \A f \in n + 1 .. Len(es) : ~IsFlush(es, f)

LastMarker(es, root) ==
  \E i \in 1 .. Len(es) : /\ IsMarker(es, i) /\ es[i].val = root
                          /\ \A j \in 1 .. Len(es) : IsMarker(es, j) => j <= i

FlushesBetween(es) ==
  \A i, j \in 1 .. Len(es) : i < j /\ IsMarker(es, i) /\ IsMarker(es, j)
    => \E f \in i .. j : IsFlush(es, f)

\* One log only, and at most one writer or checkpoint at a time.
SerialInv ==
  /\ ~setup.concurrent /\ (writer.pc = "idle" \/ ckpt.pc = "idle")
  /\ "checkpoint" \notin files /\ mode \notin {"merged", "moved"}
  /\ disk["checkpoint"] = <<>>
  /\ ckpt.pc \in {"marked", "finish"} => ckpt.hasWal
  /\ wal.path = IF ckpt.pc \in {"blocks", "header", "finish"} /\ ckpt.hasWal
                THEN "checkpoint" ELSE "main"
  /\ wal.path = "checkpoint" => wal.state = "no_wal"

\* The open main log: how far it is synced, what its size says, and what the
\* writer has put behind the entries of those before it.
OpenLogInv ==
  mode = "running" /\ wal.path = "main" =>
    /\ wal.state = "no_wal" => Main = <<>>
    /\ wal.state = "uninitialized" => wal.size = Len(Main)
    /\ wal.state = "initialized" => wal.synced <= Len(Main)
    /\ wal.state = "initialized" /\ (walLock = "free" \/ writer.pc = "flushed") =>
         wal.synced = Len(Main) /\ wal.size = Len(Main)
    /\ walLock # "free" => wal.state = "initialized"
    /\ Settled(Main, SettledLength, file.root)
    /\ writer.pc = "written" =>
         /\ writer.size = wal.synced
         /\ \A i \in 1 .. Len(Main) : i > writer.size =>
              Main[i].kind = "version" \/ Main[i] = Data(writer.txn)
         /\ Main # <<>> /\ Main[Len(Main)] = Data(writer.txn)
    /\ ckpt.pc \in {"blocks", "header", "done"} => KeptLength = 0

\* Markers in the main log: the last one decides, and when it is the file's the
\* file has everything.
MarkerInv ==
  /\ FlushesBetween(Main)
  /\ (\E i \in 1 .. Len(Main) : IsMarker(Main, i) /\ Main[i].val = file.root) =>
       /\ LastMarker(Main, file.root)
       /\ \A t \in Txns : fate[t] = "acked" \/ Applies(Main, t) => In(t, file.content)
  /\ ckpt.pc \in {"marked", "blocks", "header"} /\ ckpt.hasWal => LastMarker(Main, ckpt.root)

\* What was reported is durable, what is durable is in memory, and what a
\* checkpoint writes is what is in memory.
DurableInv ==
  /\ \A t \in Txns : fate[t] = "acked" =>
       In(t, file.content) \/ AppliesTo(Main, SyncedLength, t)
  /\ mode = "running" =>
       \A t \in Txns : In(t, file.content) \/ Applies(Main, t) => In(t, mem)
  /\ mode = "load" => mem = file.content
  /\ ckpt.pc \in {"marked", "blocks", "header"} => ckpt.content = mem
  /\ ckpt.pc \in {"finish", "done"} => file.content = mem
  /\ ckpt.txn # None => In(ckpt.txn, mem)
  /\ writer.pc = "flushed" => AppliesTo(Main, SyncedLength, writer.txn)

SafeInv == AbortInv /\ SerialInv /\ OpenLogInv /\ MarkerInv /\ DurableInv

-----------------------------------------------------------------------------
(* Numbers and sequences *)

\* OpToRel is used only here: elsewhere its operator argument would hinder.
LEMMA LessThanWellFounded ==
  \E R : IsWellFoundedOn(R, Nat) /\ \A x, y \in Nat : <<x, y>> \in R <=> x < y
<1>1. \A x, y \in Nat : <<x, y>> \in OpToRel(<, Nat) <=> x < y  BY DEF OpToRel
<1> QED BY <1>1, NatLessThanWellFounded, Zenon

LEMMA LeastExists ==
  ASSUME NEW S, S \subseteq Nat, S # {}
  PROVE  \E m \in S : \A x \in S : m <= x
<1>1. PICK R : IsWellFoundedOn(R, Nat) /\ \A x, y \in Nat : <<x, y>> \in R <=> x < y
  BY LessThanWellFounded, Zenon
<1>2. IsWellFoundedOn(R, Nat)  BY <1>1
<1>3. PICK m \in S : \A y \in S : ~ (<<y, m>> \in R)
  <2>1. \E x \in S : \A y \in S : ~ (<<y, x>> \in R)  BY <1>2, WFMin, Zenon
  <2> QED BY <2>1
<1>4. \A y \in S : ~(y < m)  BY <1>1, <1>3
<1> QED BY <1>4

LEMMA GreatestExists ==
  ASSUME NEW S, NEW n \in Nat, S \subseteq 0 .. n, S # {}
  PROVE  \E m \in S : \A x \in S : m >= x
<1> DEFINE Bounds == {b \in Nat : \A x \in S : x <= b}
<1>1. n \in Bounds  OBVIOUS
<1>2. PICK m \in Bounds : \A b \in Bounds : m <= b
  <2> HIDE DEF Bounds
  <2>1. Bounds \subseteq Nat /\ Bounds # {}  BY <1>1 DEF Bounds
  <2> QED BY <2>1, LeastExists
<1>3. m \in S
  <2> SUFFICES ASSUME m \notin S PROVE FALSE  OBVIOUS
  <2>1. PICK y \in S : TRUE  OBVIOUS
  <2>2. m > 0  BY <2>1
  <2>3. m - 1 \in Bounds
    <3>1. \A x \in S : x <= m - 1  OBVIOUS
    <3> QED BY <2>2, <3>1
  <2> QED BY <1>2, <2>3
<1> QED BY <1>3

LEMMA MinIs ==
  ASSUME NEW S, S \subseteq Nat, S # {}
  PROVE  Min(S) \in S /\ \A x \in S : Min(S) <= x
BY LeastExists DEF Min

LEMMA MaxIs ==
  ASSUME NEW S, NEW n \in Nat, S \subseteq 0 .. n, S # {}
  PROVE  Max(S) \in S /\ \A x \in S : Max(S) >= x
BY GreatestExists DEF Max

\* The first n elements of a sequence.
LEMMA Prefix ==
  ASSUME NEW T, NEW s \in Seq(T), NEW n \in 0 .. Len(s)
  PROVE  /\ SubSeq(s, 1, n) \in Seq(T) /\ Len(SubSeq(s, 1, n)) = n
         /\ \A i \in 1 .. n : SubSeq(s, 1, n)[i] = s[i]
<1>1. Len(s) \in Nat /\ \A i \in 1 .. n : s[i] \in T  OBVIOUS
<1> QED BY <1>1, SubSeqProperties, SMTT(30)

-----------------------------------------------------------------------------
(* Reading a log *)

LEMMA ReadableIs ==
  ASSUME NEW es \in Logs
  PROVE  \E n \in 0 .. Len(es) :
           /\ Readable(es) = SubSeq(es, 1, n) /\ Len(Readable(es)) = n
           /\ \A i \in 1 .. n : Readable(es)[i] = es[i]
           /\ \A i \in 1 .. Len(es) : Read(es, i) <=> i <= n
<1> DEFINE cuts == {i \in DOMAIN es : es[i].kind = "torn"}
<1>0. es \in Seq(Entries) /\ Len(es) \in Nat /\ DOMAIN es = 1 .. Len(es)  BY DEF Logs
<1>1. CASE cuts = {}
  <2>1. Readable(es) = es  BY <1>1 DEF Readable
  <2>2. es = SubSeq(es, 1, Len(es))  BY <1>0, SubSeqFull
  <2>3. \A i \in 1 .. Len(es) : es[i].kind # "torn"  BY <1>0, <1>1
  <2>4. \A i \in 1 .. Len(es) : Read(es, i)  BY <1>0, <2>3 DEF Read
  <2> WITNESS Len(es) \in 0 .. Len(es)
  <2> QED BY <1>0, <2>1, <2>2, <2>4
<1>2. CASE cuts # {}
  <2>1. Min(cuts) \in cuts /\ \A x \in cuts : Min(cuts) <= x
    <3>1. cuts \subseteq Nat  BY <1>0
    <3> HIDE DEF cuts
    <3> QED BY <1>2, <3>1, MinIs
  <2> DEFINE n == Min(cuts) - 1
  <2>2. Readable(es) = SubSeq(es, 1, n)  BY <1>2 DEF Readable
  <2>3. n \in 0 .. Len(es)  BY <1>0, <2>1
  <2>4. \A i \in 1 .. Len(es) : Read(es, i) <=> i <= n
    <3>1. n + 1 = Min(cuts)  BY <1>0, <2>1
    <3>2. n + 1 \in 1 .. Len(es) /\ es[n + 1].kind = "torn"  BY <1>0, <2>1, <3>1
    <3>3. \A k \in 1 .. Len(es) : k <= n => es[k].kind # "torn"
      <4>1. \A k \in 1 .. Len(es) : es[k].kind = "torn" => n + 1 <= k  BY <1>0, <2>1, <3>1
      <4> HIDE DEF n
      <4> QED BY <1>0, <2>3, <4>1
    <3> HIDE DEF n
    <3> QED BY <1>0, <2>3, <3>2, <3>3 DEF Read
  <2> HIDE DEF n
  <2>5. Len(SubSeq(es, 1, n)) = n /\ \A i \in 1 .. n : SubSeq(es, 1, n)[i] = es[i]
    BY <1>0, <2>3, Prefix
  <2> QED BY <2>2, <2>3, <2>4, <2>5
<1> QED BY <1>1, <1>2

\* The last flush that can be read.
LEMMA OffsetIs ==
  ASSUME NEW es \in Logs
  PROVE  /\ SuccessfulOffset(es) \in 0 .. Len(es)
         /\ SuccessfulOffset(es) > 0 => IsFlush(es, SuccessfulOffset(es))
         /\ \A f \in 1 .. Len(es) : IsFlush(es, f) => f <= SuccessfulOffset(es)
<1> DEFINE S == {0} \union {i \in DOMAIN Readable(es) : es[i].kind = "flush"}
<1>1. PICK n \in 0 .. Len(es) : /\ Len(Readable(es)) = n /\ Readable(es) = SubSeq(es, 1, n)
                                /\ \A i \in 1 .. Len(es) : Read(es, i) <=> i <= n
  BY ReadableIs
<1>2. Len(es) \in Nat  BY DEF Logs
<1>3. DOMAIN Readable(es) = 1 .. n  BY <1>1, Prefix DEF Logs
<1>4. \A f \in 1 .. Len(es) : IsFlush(es, f) <=> f \in S
  BY <1>1, <1>2, <1>3 DEF IsFlush, Read
<1>5. S \subseteq 0 .. Len(es) /\ 0 \in S  BY <1>1, <1>2, <1>3
<1>6. SuccessfulOffset(es) = Max(S)  BY DEF SuccessfulOffset
<1> HIDE DEF S
<1>7. Max(S) \in S /\ \A x \in S : Max(S) >= x  BY <1>2, <1>5, MaxIs
<1>8. Max(S) > 0 => IsFlush(es, Max(S))
  <2>1. Max(S) \in 0 .. Len(es)  BY <1>5, <1>7
  <2> QED BY <1>2, <1>4, <1>7, <2>1
<1> QED BY <1>2, <1>4, <1>5, <1>6, <1>7, <1>8

\* The last marker that can be read.
LEMMA PositionIs ==
  ASSUME NEW es \in Logs
  PROVE  /\ CheckpointPosition(es) \in 0 .. Len(es)
         /\ CheckpointPosition(es) > 0 => IsMarker(es, CheckpointPosition(es))
         /\ \A f \in 1 .. Len(es) : IsMarker(es, f) => f <= CheckpointPosition(es)
<1> DEFINE S == {0} \union {i \in DOMAIN Readable(es) : es[i].kind = "marker"}
<1>1. PICK n \in 0 .. Len(es) : /\ Len(Readable(es)) = n /\ Readable(es) = SubSeq(es, 1, n)
                                /\ \A i \in 1 .. Len(es) : Read(es, i) <=> i <= n
  BY ReadableIs
<1>2. Len(es) \in Nat  BY DEF Logs
<1>3. DOMAIN Readable(es) = 1 .. n  BY <1>1, Prefix DEF Logs
<1>4. \A f \in 1 .. Len(es) : IsMarker(es, f) <=> f \in S
  BY <1>1, <1>2, <1>3 DEF IsMarker, Read
<1>5. S \subseteq 0 .. Len(es) /\ 0 \in S  BY <1>1, <1>2, <1>3
<1>6. CheckpointPosition(es) = Max(S)  BY DEF CheckpointPosition
<1> HIDE DEF S
<1>7. Max(S) \in S /\ \A x \in S : Max(S) >= x  BY <1>2, <1>5, MaxIs
<1>8. Max(S) > 0 => IsMarker(es, Max(S))
  <2>1. Max(S) \in 0 .. Len(es)  BY <1>5, <1>7
  <2> QED BY <1>2, <1>4, <1>7, <2>1
<1> QED BY <1>2, <1>4, <1>5, <1>6, <1>7, <1>8

\* A subset of 1 .. m with at least n elements has an n-th one.
LEMMA NthExists ==
  ASSUME NEW m \in Nat, NEW S, S \subseteq 1 .. m, NEW n \in 1 .. Cardinality(S)
  PROVE  \E i \in S : Cardinality({j \in S : j <= i}) = n
<1> DEFINE U(i) == {j \in S : j <= i}
<1>0. IsFiniteSet(S) /\ Cardinality(S) \in Nat
  BY FS_Interval, FS_Subset, FS_CardinalityType, m \in Int, 1 \in Int
<1>u. /\ \A i \in Nat : \A j : j \in U(i) <=> j \in S /\ j <= i
      /\ \A j \in S : j \in 1 .. m
  OBVIOUS
<1> HIDE DEF U
<1>1. \A i \in Nat : IsFiniteSet(U(i)) /\ Cardinality(U(i)) \in Nat
  <2> SUFFICES ASSUME NEW i \in Nat PROVE IsFiniteSet(U(i)) /\ Cardinality(U(i)) \in Nat
    OBVIOUS
  <2>1. U(i) \in SUBSET S  BY <1>u
  <2> QED BY <1>0, <2>1, FS_Subset, FS_CardinalityType
<1> DEFINE E == {i \in Nat : Cardinality(U(i)) >= n}
<1>2. m \in E
  <2>0. \A j \in S : j <= m  BY <1>u
  <2>1. U(m) = S  BY <1>u, <2>0
  <2> QED BY <1>0, <2>1
<1>3. PICK i \in E : \A k \in E : i <= k
  <2>1. E \subseteq Nat /\ E # {}  BY <1>2
  <2> HIDE DEF E
  <2> QED BY <2>1, LeastExists
<1>4. i # 0
  <2> SUFFICES ASSUME i = 0 PROVE FALSE  OBVIOUS
  <2>0. \A j \in S : ~(j <= 0)  BY <1>u
  <2>1. U(0) = {}  BY <1>u, <2>0
  <2>2. Cardinality(U(0)) = 0  BY <2>1, FS_EmptySet
  <2> QED BY <1>0, <1>3, <2>2
<1>5. PICK h \in Nat : i = h + 1 /\ ~(Cardinality(U(h)) >= n)
  <2>1. i - 1 \in Nat /\ i - 1 \notin E  BY <1>3, <1>4
  <2> QED BY <2>1
<1>6. \A j : j \in U(i) <=> j \in U(h) \/ (j = i /\ i \in S)
  <2>1. \A j \in S : j <= i <=> j <= h \/ j = i  BY <1>u, <1>5
  <2> QED BY <1>u, <1>5, <2>1
<1>7. i \in S
  <2> SUFFICES ASSUME i \notin S PROVE FALSE  OBVIOUS
  <2>1. U(i) = U(h)  BY <1>6
  <2> QED BY <1>3, <1>5, <2>1
<1>8. U(i) = U(h) \union {i} /\ i \notin U(h)
  <2>1. i \notin U(h)  BY <1>u, <1>5
  <2> QED BY <1>6, <1>7, <2>1
<1>9. Cardinality(U(i)) = Cardinality(U(h)) + 1
  BY <1>1, <1>5, <1>8, FS_AddElement
<1>10. Cardinality(U(i)) = n
  <2>1. Cardinality(U(i)) >= n /\ i \in Nat  BY <1>3
  <2> HIDE DEF E
  <2> QED BY <1>0, <1>1, <1>5, <1>9, <2>1
<1>11. U(i) = {j \in S : j <= i}  BY DEF U
<1> QED BY <1>7, <1>10, <1>11

\* Replay applies what is before the last flush, and only that.
LEMMA ReplayedIs ==
  ASSUME NEW es \in Logs
  PROVE  /\ Replayed(es) \in Commits
         /\ \A t : In(t, Replayed(es)) => Applies(es, t)
         /\ \A t : Applies(es, t) => In(t, Replayed(es))
         /\ \A n, m \in 1 .. Len(Replayed(es)) : n < m =>
              \E i, j \in 1 .. Len(es) :
                /\ i < j /\ Committed(es, i) /\ Committed(es, j)
                /\ es[i].val = Replayed(es)[n] /\ es[j].val = Replayed(es)[m]
<1> DEFINE N == SuccessfulOffset(es)
           kept == {i \in 1 .. N : es[i].kind = "data"}
           C == Cardinality(kept)
           Nth(n) == CHOOSE i \in kept : Cardinality({j \in kept : j <= i}) = n
<1>0. es \in Seq(Entries) /\ Len(es) \in Nat /\ N \in 0 .. Len(es)
  BY OffsetIs DEF Logs
<1>1. IsFiniteSet(kept) /\ C \in Nat
  <2>1. kept \in SUBSET (1 .. N) /\ N \in Int /\ 1 \in Int  BY <1>0
  <2> HIDE DEF kept, N
  <2> QED BY <2>1, FS_Interval, FS_Subset, FS_CardinalityType DEF C
<1>2. Replayed(es) = [n \in 1 .. C |-> es[Nth(n)].val]  BY DEF Replayed
<1>3. \A n \in 1 .. C : Nth(n) \in kept
  <2> SUFFICES ASSUME NEW n \in 1 .. C PROVE Nth(n) \in kept  OBVIOUS
  <2>1. \E i \in kept : Cardinality({j \in kept : j <= i}) = n
    <3>1. kept \subseteq 1 .. N /\ N \in Nat  BY <1>0
    <3>2. n \in 1 .. Cardinality(kept)  OBVIOUS
    <3> HIDE DEF kept, N, C
    <3>3. \A k \in 1 .. Cardinality(kept) :
            \E i \in kept : Cardinality({j \in kept : j <= i}) = k
      BY <3>1, NthExists
    <3> QED BY <3>2, <3>3
  <2> QED BY <2>1
<1>n. \A n \in 1 .. C : Cardinality({j \in kept : j <= Nth(n)}) = n
  <2> SUFFICES ASSUME NEW n \in 1 .. C PROVE Cardinality({j \in kept : j <= Nth(n)}) = n
    OBVIOUS
  <2>1. \E i \in kept : Cardinality({j \in kept : j <= i}) = n
    <3>1. kept \subseteq 1 .. N /\ N \in Nat  BY <1>0
    <3>2. n \in 1 .. Cardinality(kept)  OBVIOUS
    <3> HIDE DEF kept, N, C
    <3>3. \A k \in 1 .. Cardinality(kept) :
            \E i \in kept : Cardinality({j \in kept : j <= i}) = k
      BY <3>1, NthExists
    <3> QED BY <3>2, <3>3
  <2> QED BY <2>1
<1>4. \A i \in kept : es[i].val \in Txns
  <2>1. \A i \in kept : es[i] \in Entries /\ es[i].kind = "data"  BY <1>0
  <2> QED BY <2>1 DEF Entries
<1>5. \A i \in kept : \E n \in 1 .. C : Nth(n) = i
  <2> SUFFICES ASSUME NEW i \in kept PROVE \E n \in 1 .. C : Nth(n) = i  OBVIOUS
  <2> DEFINE U(k) == {j \in kept : j <= k}
  <2> DEFINE n == Cardinality(U(i))
  <2>1. \A k \in kept : U(k) \in SUBSET kept /\ IsFiniteSet(U(k))
    <3>1. \A k \in kept : U(k) \in SUBSET kept  OBVIOUS
    <3> HIDE DEF kept, U
    <3> QED BY <1>1, <3>1, FS_Subset
  <2>2. n \in 1 .. C
    <3>1. i \in U(i)  BY <1>0
    <3>2. n \in Nat /\ n <= C
      <4> HIDE DEF kept, U
      <4> QED BY <1>1, <2>1, FS_Subset, FS_CardinalityType DEF C, n
    <3>3. n # 0
      <4> HIDE DEF kept, U
      <4> QED BY <2>1, <3>1, FS_EmptySet DEF n
    <3> HIDE DEF n, C
    <3> QED BY <1>1, <3>2, <3>3
  <2>3. \A k \in kept : Cardinality(U(k)) = n => k = i
    <3> SUFFICES ASSUME NEW k \in kept, Cardinality(U(k)) = n PROVE k = i  OBVIOUS
    <3>1. CASE k < i
      <4>1. U(k) \in SUBSET U(i) /\ i \in U(i) /\ i \notin U(k)  BY <1>0, <3>1
      <4> HIDE DEF kept, U
      <4> QED BY <2>1, <4>1, FS_Subset DEF n
    <3>2. CASE i < k
      <4>1. U(i) \in SUBSET U(k) /\ k \in U(k) /\ k \notin U(i)  BY <1>0, <3>2
      <4> HIDE DEF kept, U
      <4> QED BY <2>1, <4>1, FS_Subset DEF n
    <3> QED BY <1>0, <3>1, <3>2
  <2>4. Nth(n) = i  BY <2>3
  <2> QED BY <2>2, <2>4
<1> HIDE DEF Nth
<1>6. Replayed(es) \in Commits /\ Len(Replayed(es)) = C
  <2>1. \A n \in 1 .. C : es[Nth(n)].val \in Txns  BY <1>3, <1>4
  <2> HIDE DEF C
  <2> QED BY <1>1, <1>2, <2>1 DEF Commits
<1>7. ASSUME NEW t, In(t, Replayed(es)) PROVE Applies(es, t)
  <2>1. PICK n \in 1 .. C : es[Nth(n)].val = t
    <3> HIDE DEF C
    <3> QED BY <1>2, <1>6, <1>7 DEF In
  <2>2. Nth(n) \in 1 .. N /\ es[Nth(n)].kind = "data"  BY <1>3
  <2>3. IsFlush(es, N)  BY <1>0, <2>2, OffsetIs
  <2> QED BY <1>0, <2>1, <2>2, <2>3 DEF Applies, AppliesTo
<1>8. ASSUME NEW t, Applies(es, t) PROVE In(t, Replayed(es))
  <2>1. PICK i, f \in 1 .. Len(es) : /\ IsFlush(es, f) /\ i <= f
                                     /\ es[i].kind = "data" /\ es[i].val = t
    BY <1>8 DEF Applies, AppliesTo
  <2>2. i \in kept
    <3>1. f <= N  BY <2>1, OffsetIs
    <3> QED BY <1>0, <2>1, <3>1
  <2>3. PICK n \in 1 .. C : Nth(n) = i  BY <1>5, <2>2
  <2> HIDE DEF C
  <2> QED BY <1>2, <1>6, <2>1, <2>3 DEF In
<1>9. ASSUME NEW n \in 1 .. C, NEW m \in 1 .. C, n < m
      PROVE  \E i, j \in 1 .. Len(es) :
               /\ i < j /\ Committed(es, i) /\ Committed(es, j)
               /\ es[i].val = Replayed(es)[n] /\ es[j].val = Replayed(es)[m]
  <2> DEFINE U(k) == {j \in kept : j <= k}
  <2>1. PICK i \in kept : i = Nth(n) /\ Cardinality(U(i)) = n  BY <1>3, <1>n
  <2>2. PICK j \in kept : j = Nth(m) /\ Cardinality(U(j)) = m  BY <1>3, <1>n
  <2>3. i \in 1 .. N /\ j \in 1 .. N /\ es[i].kind = "data" /\ es[j].kind = "data"  BY <1>0
  <2>4. i < j
    <3> SUFFICES ASSUME ~(i < j) PROVE FALSE  OBVIOUS
    <3>1. U(j) \in SUBSET U(i) /\ U(i) \in SUBSET kept  BY <1>0, <2>3
    <3>2. Cardinality(U(j)) <= Cardinality(U(i))
      <4> HIDE DEF kept, U
      <4> QED BY <1>1, <3>1, FS_Subset
    <3> QED BY <1>1, <1>9, <2>1, <2>2, <3>2
  <2>5. i \in 1 .. Len(es) /\ j \in 1 .. Len(es) /\ IsFlush(es, N) /\ N \in 1 .. Len(es)
    BY <1>0, <2>3, OffsetIs
  <2>6. Committed(es, i) /\ Committed(es, j)  BY <2>3, <2>5 DEF Committed
  <2>7. Replayed(es)[n] = es[i].val /\ Replayed(es)[m] = es[j].val
    <3> HIDE DEF C
    <3> QED BY <1>2, <2>1, <2>2
  <2> QED BY <2>4, <2>5, <2>6, <2>7
<1> QED BY <1>6, <1>7, <1>8, <1>9
-----------------------------------------------------------------------------
(* Writing a log *)

LEMMA EntryTypes ==
  /\ \A i \in Nat : Version(i) \in Entries /\ Marker(i) \in Entries
  /\ \A t \in Txns : Data(t) \in Entries
  /\ Flush \in Entries /\ Torn \in Entries
BY DEF Entries, Version, Marker, Data, Flush, Torn

LEMMA Concatenated ==
  ASSUME NEW a \in Logs, NEW b \in Logs
  PROVE  /\ a \o b \in Logs /\ Len(a \o b) = Len(a) + Len(b)
         /\ \A i \in 1 .. Len(a) : (a \o b)[i] = a[i]
         /\ \A i \in 1 .. Len(b) : (a \o b)[Len(a) + i] = b[i]
<1>1. Len(a) \in Nat /\ Len(b) \in Nat  BY DEF Logs
<1> QED BY <1>1, ConcatProperties DEF Logs

LEMMA HeaderIs ==
  ASSUME NEW es \in Logs, iteration \in Nat, wal.iter \in Nat
  PROVE  /\ WithHeader(es) \in Logs
         /\ es # <<>> => WithHeader(es) = es
         /\ es = <<>> => Len(WithHeader(es)) = 1 /\ WithHeader(es)[1].kind = "version"
BY EntryTypes DEF WithHeader, Version, Logs

\* The first n entries stay, perhaps a header is written, then the new ones.
Extends(old, n, k, new, es) ==
  /\ n \in 0 .. Len(old) /\ k \in Nat /\ k = IF n = 0 THEN 1 ELSE n
  /\ es \in Logs /\ Len(es) = k + Len(new)
  /\ \A i \in 1 .. n : es[i] = old[i]
  /\ n = 0 => es[1].kind = "version"
  /\ \A i \in 1 .. Len(new) : es[k + i] = new[i]

LEMMA WriteEntriesIs ==
  ASSUME TypeInv, wal.size <= Len(disk[wal.path]), NEW new \in Logs, WriteEntries(new)
  PROVE  /\ disk' \in [Paths -> Logs] /\ files' \subseteq Paths
         /\ \A p \in Paths \ {wal.path} : disk'[p] = disk[p]
         /\ wal' = [wal EXCEPT
              !.synced = IF wal.state = "initialized" THEN wal.synced ELSE KeptLength,
              !.size = IF wal.state = "initialized" THEN wal.size ELSE KeptLength,
              !.state = "initialized"]
         /\ \E k \in Nat : Extends(disk[wal.path], KeptLength, k, new, disk'[wal.path])
<1> DEFINE D == disk[wal.path]
           n == KeptLength
<1>1. /\ wal.path \in Paths /\ D \in Logs /\ Len(D) \in Nat /\ wal.size \in Nat
      /\ iteration \in Nat /\ wal.iter \in Nat
  BY DEF TypeInv, Checkpoints, Wals, Logs
<1>2. n \in 0 .. Len(D)  BY <1>1 DEF KeptLength
<1>3. /\ Opened \in Logs /\ Len(Opened) = n /\ \A i \in 1 .. n : Opened[i] = D[i]
  <2>1. CASE wal.state = "requires_truncate"
    <3>1. n = wal.size /\ Opened = SubSeq(D, 1, n)  BY <2>1 DEF Opened, KeptLength
    <3> HIDE DEF n, D
    <3> QED BY <1>1, <1>2, <3>1, Prefix DEF Logs
  <2>2. CASE wal.state # "requires_truncate"
    BY <1>1, <2>2 DEF Opened, KeptLength
  <2> QED BY <2>1, <2>2
<1> DEFINE L == WithHeader(Opened)
<1>4. /\ L \in Logs /\ Len(L) = (IF n = 0 THEN 1 ELSE n)
      /\ \A i \in 1 .. n : L[i] = D[i]
      /\ n = 0 => L[1].kind = "version"
  <2>1. CASE n = 0
    <3>1. Opened = <<>>  BY <1>3, <2>1 DEF Logs
    <3> QED BY <1>1, <1>3, <2>1, <3>1, HeaderIs
  <2>2. CASE n # 0
    <3>1. Opened # <<>>  BY <1>3, <2>2 DEF Logs
    <3>2. L = Opened  BY <1>1, <1>3, <3>1, HeaderIs
    <3> HIDE DEF n, D, L
    <3> QED BY <1>3, <2>2, <3>2
  <2> QED BY <2>1, <2>2
<1>5. disk'[wal.path] = L \o new /\ disk' = [disk EXCEPT ![wal.path] = L \o new]
  BY <1>1 DEF WriteEntries, TypeInv, Checkpoints
<1>6. Extends(D, n, Len(L), new, L \o new)
  <2>1. Len(L) \in Nat /\ Len(L) = (IF n = 0 THEN 1 ELSE n)  BY <1>2, <1>4
  <2>2. Len(new) \in Nat  BY DEF Logs
  <2>3. n \in 0 .. Len(D) /\ \A i \in 1 .. n : i \in 1 .. Len(L)  BY <1>1, <1>2, <2>1
  <2> HIDE DEF L, n, D
  <2>4. /\ L \o new \in Logs /\ Len(L \o new) = Len(L) + Len(new)
        /\ \A i \in 1 .. Len(L) : (L \o new)[i] = L[i]
        /\ \A i \in 1 .. Len(new) : (L \o new)[Len(L) + i] = new[i]
    BY <1>4, Concatenated
  <2>5. n = 0 => (L \o new)[1] = L[1]  BY <2>1, <2>4
  <2> QED BY <1>4, <2>1, <2>2, <2>3, <2>4, <2>5 DEF Extends
<1>7. wal' = [wal EXCEPT
              !.synced = IF wal.state = "initialized" THEN wal.synced ELSE KeptLength,
              !.size = IF wal.state = "initialized" THEN wal.size ELSE KeptLength,
              !.state = "initialized"]
  BY <1>3 DEF WriteEntries, TypeInv, Checkpoints
<1>8. L \o new \in Logs /\ Len(L) \in Nat  BY <1>4, Concatenated DEF Logs
<1>9. disk' \in [Paths -> Logs] /\ \A p \in Paths \ {wal.path} : disk'[p] = disk[p]
  <2> HIDE DEF L
  <2> QED BY <1>1, <1>5, <1>8 DEF TypeInv, Checkpoints
<1>10. files' \subseteq Paths  BY <1>1 DEF WriteEntries, TypeInv, Checkpoints
<1> HIDE DEF L
<1> QED BY <1>5, <1>6, <1>7, <1>8, <1>9, <1>10

\* What a crash leaves of a log is a prefix of it, or a prefix and a torn entry.
LEMMA RemainsIs ==
  ASSUME TypeInv, NEW D \in Logs, NEW es \in Remains(D), wal.synced <= Len(D)
  PROVE  /\ es \in Logs
         /\ \/ es = D
            \/ /\ wal.state = "initialized"
               /\ \E n \in wal.synced .. Len(D) :
                    /\ Len(es) \in n .. n + 1 /\ \A i \in 1 .. n : es[i] = D[i]
                    /\ Len(es) = n + 1 => es[n + 1].kind = "torn"
<1>1. wal.synced \in Nat /\ Len(D) \in Nat  BY DEF TypeInv, Checkpoints, Wals, Logs
<1>2. CASE es = D  BY <1>2
<1>3. CASE es # D
  <2>1. wal.state = "initialized"  BY <1>3 DEF Remains
  <2>2. PICK n \in wal.synced .. Len(D) - 1 :
          es \in {SubSeq(D, 1, n), Append(SubSeq(D, 1, n), Torn)}
    <3> DEFINE Cut(n) == {SubSeq(D, 1, n), Append(SubSeq(D, 1, n), Torn)}
    <3>1. es \in {D} \union UNION {Cut(n) : n \in wal.synced .. Len(D) - 1}
      BY <2>1 DEF Remains
    <3> HIDE DEF Cut
    <3>2. \E n \in wal.synced .. Len(D) - 1 : es \in Cut(n)  BY <1>3, <3>1
    <3> QED BY <3>2 DEF Cut
  <2>3. n \in 0 .. Len(D) /\ n \in wal.synced .. Len(D)  BY <1>1
  <2>4. /\ SubSeq(D, 1, n) \in Logs /\ Len(SubSeq(D, 1, n)) = n
        /\ \A i \in 1 .. n : SubSeq(D, 1, n)[i] = D[i]
    BY <2>3, Prefix DEF Logs
  <2>5. CASE es = SubSeq(D, 1, n)  BY <1>1, <2>1, <2>3, <2>4, <2>5
  <2>6. CASE es = Append(SubSeq(D, 1, n), Torn)
    <3> DEFINE P == SubSeq(D, 1, n)
    <3>1. P \in Seq(Entries) /\ Torn \in Entries  BY <2>4, EntryTypes DEF Logs
    <3>2. /\ es \in Logs /\ Len(es) = n + 1 /\ es[n + 1] = Torn
          /\ \A i \in 1 .. n : es[i] = P[i]
      <4> HIDE DEF P
      <4>1. es = Append(P, Torn) /\ Len(P) = n /\ n \in Nat  BY <1>1, <2>3, <2>4, <2>6 DEF P
      <4> QED BY <3>1, <4>1, AppendProperties DEF Logs
    <3> QED BY <1>1, <2>1, <2>3, <2>4, <3>2 DEF Torn
  <2> QED BY <2>2, <2>5, <2>6
<1> QED BY <1>2, <1>3
-----------------------------------------------------------------------------
(* Steps of a commit *)

LEMMA NothingThere ==
  /\ <<>> \in Logs /\ <<>> \in Commits /\ Len(<<>>) = 0
  /\ \A t : ~Has(<<>>, t) /\ ~In(t, <<>>)
BY DEF Logs, Commits, Has, In

LEMMA Appended ==
  ASSUME NEW commits \in Commits, NEW t \in Txns
  PROVE  /\ Append(commits, t) \in Commits
         /\ \A u : In(u, Append(commits, t)) <=> In(u, commits) \/ u = t
<1>1. commits \in Seq(Txns) /\ Len(commits) \in Nat  BY DEF Commits
<1>2. /\ Append(commits, t) \in Seq(Txns)
      /\ Len(Append(commits, t)) = Len(commits) + 1
      /\ \A i \in 1 .. Len(commits) : Append(commits, t)[i] = commits[i]
      /\ Append(commits, t)[Len(commits) + 1] = t
  BY <1>1, AppendProperties
<1>3. \A i \in 1 .. Len(commits) + 1 : i \in 1 .. Len(commits) \/ i = Len(commits) + 1
  BY <1>1
<1> QED BY <1>1, <1>2, <1>3 DEF In, Commits

LEMMA Joined ==
  ASSUME NEW a \in Commits, NEW b \in Commits
  PROVE  a \o b \in Commits /\ \A u : In(u, a \o b) <=> In(u, a) \/ In(u, b)
<1>1. a \in Seq(Txns) /\ b \in Seq(Txns) /\ Len(a) \in Nat /\ Len(b) \in Nat  BY DEF Commits
<1>2. /\ a \o b \in Seq(Txns) /\ Len(a \o b) = Len(a) + Len(b)
      /\ \A i \in 1 .. Len(a) + Len(b) :
           (a \o b)[i] = IF i <= Len(a) THEN a[i] ELSE b[i - Len(a)]
  BY <1>1, ConcatProperties
<1>3. \A u : In(u, a) => In(u, a \o b)  BY <1>1, <1>2 DEF In
<1>4. ASSUME NEW u, In(u, b) PROVE In(u, a \o b)
  <2>1. PICK i \in 1 .. Len(b) : b[i] = u  BY <1>4 DEF In
  <2>2. Len(a) + i \in 1 .. Len(a \o b) /\ (a \o b)[Len(a) + i] = b[i]  BY <1>1, <1>2
  <2> QED BY <2>1, <2>2 DEF In
<1>5. ASSUME NEW u, In(u, a \o b) PROVE In(u, a) \/ In(u, b)
  <2>1. PICK i \in 1 .. Len(a) + Len(b) : (a \o b)[i] = u  BY <1>2, <1>5 DEF In
  <2>2. CASE i <= Len(a)
    <3>1. i \in 1 .. Len(a)  BY <1>1, <2>2
    <3> QED BY <1>2, <2>1, <2>2, <3>1 DEF In
  <2>3. CASE ~(i <= Len(a))
    <3>1. i - Len(a) \in 1 .. Len(b)  BY <1>1, <2>3
    <3> QED BY <1>2, <2>1, <2>3, <3>1 DEF In
  <2> QED BY <2>2, <2>3
<1> QED BY <1>2, <1>3, <1>4, <1>5 DEF Commits

\* Extending a log adds the entries of what is written.
LEMMA HasExtended ==
  ASSUME NEW old \in Logs, NEW n, NEW k, NEW new \in Logs, NEW es, Extends(old, n, k, new, es),
         NEW t, Has(es, t)
  PROVE  Has(old, t) \/ Has(new, t)
<1>1. PICK i \in 1 .. Len(es) : es[i].kind = "data" /\ es[i].val = t  BY DEF Has
<1>2. Len(old) \in Nat /\ Len(new) \in Nat  BY DEF Logs
<1>3. CASE i <= n  BY <1>1, <1>2, <1>3 DEF Extends, Has
<1>4. CASE ~(i <= n) /\ i <= k  BY <1>1, <1>2, <1>4 DEF Extends
<1>5. CASE ~(i <= k)
  <2>0. k \in Nat /\ Len(es) = k + Len(new) /\ \A j \in 1 .. Len(new) : es[k + j] = new[j]
    BY DEF Extends
  <2>1. i - k \in 1 .. Len(new) /\ k + (i - k) = i  BY <1>1, <1>2, <1>5, <2>0
  <2>2. es[i] = new[i - k]  BY <2>0, <2>1
  <2> QED BY <1>1, <2>1, <2>2 DEF Has
<1> QED BY <1>3, <1>4, <1>5

LEMMA HasPrefix ==
  ASSUME NEW es \in Logs, NEW n \in 0 .. Len(es), NEW t
  PROVE  /\ Has(SubSeq(es, 1, n), t) => Has(es, t)
         /\ (\A i \in 1 .. n : es[i] # Data(t)) => ~Has(SubSeq(es, 1, n), t)
<1>1. /\ SubSeq(es, 1, n) \in Logs /\ Len(SubSeq(es, 1, n)) = n /\ Len(es) \in Nat
      /\ \A i \in 1 .. n : SubSeq(es, 1, n)[i] = es[i]
  BY Prefix DEF Logs
<1>2. Has(SubSeq(es, 1, n), t) => Has(es, t)  BY <1>1 DEF Has
<1>3. ASSUME NEW i \in 1 .. n, es[i].kind = "data", es[i].val = t PROVE es[i] = Data(t)
  <2>1. es[i] \in Entries  BY <1>1 DEF Logs
  <2> QED BY <1>3, <2>1 DEF Entries, Data
<1> QED BY <1>1, <1>2, <1>3 DEF Has

LEMMA AbortWriteToWAL ==
  ASSUME AbortInv, NEW t \in Txns, WriteToWAL(t)
  PROVE  AbortInv'
<1> DEFINE new == <<Data(t)>>
<1> USE DEF AbortInv
<1>0. TypeInv /\ new \in Logs /\ wal.size <= Len(disk[wal.path]) /\ Len(new) = 1 /\ new[1] = Data(t)
  BY EntryTypes DEF ControlInv, Logs
<1>1. /\ disk' \in [Paths -> Logs] /\ files' \subseteq Paths
      /\ \A p \in Paths \ {wal.path} : disk'[p] = disk[p]
      /\ wal' = [wal EXCEPT
           !.synced = IF wal.state = "initialized" THEN wal.synced ELSE KeptLength,
           !.size = IF wal.state = "initialized" THEN wal.size ELSE KeptLength,
           !.state = "initialized"]
      /\ \E k \in Nat : Extends(disk[wal.path], KeptLength, k, new, disk'[wal.path])
  <2>1. WriteEntries(new)  BY DEF WriteToWAL
  <2> HIDE DEF new
  <2> QED BY <1>0, <2>1, WriteEntriesIs
<1>2. PICK k \in Nat : Extends(disk[wal.path], KeptLength, k, new, disk'[wal.path])  BY <1>1
<1>3. /\ disk[wal.path] \in Logs /\ Len(disk[wal.path]) \in Nat /\ wal.path \in Paths
      /\ wal.size \in Nat /\ wal.synced \in Nat /\ wal'.path = wal.path
      /\ KeptLength \in 0 .. Len(disk[wal.path])
  BY <1>1, <1>2 DEF TypeInv, Checkpoints, Wals, Extends, Logs
<1>4. /\ wal'.size <= KeptLength /\ wal.size <= KeptLength /\ KeptLength < Len(disk'[wal.path])
  <2>1. KeptLength < Len(disk'[wal.path])  BY <1>0, <1>2, <1>3 DEF Extends
  <2> QED BY <1>0, <1>1, <1>3, <2>1 DEF KeptLength, TypeInv, Checkpoints
<1>5. /\ walLock = "free" /\ fate[t] = "new" /\ writer.pc = "idle" /\ ckpt.pc # "marked"
      /\ mode = "running" /\ t # None
      /\ fate' = [fate EXCEPT ![t] = "committing"]
      /\ writer' = [txn |-> t, pc |-> "written", size |-> wal.size] /\ walLock' = "writer"
      /\ UNCHANGED <<setup, file, mode, replayState, mem, iteration, ckpt>>
  BY NoneAssumption DEF WriteToWAL, ControlInv, TypeInv, Checkpoints, Running, boundVars
<1>6. TypeInv'
  <2>1. wal' \in Wals
    <3>1. wal \in Wals /\ KeptLength \in Nat  BY <1>3 DEF TypeInv, Checkpoints
    <3> QED BY <1>1, <1>3, <3>1 DEF Wals
  <2>2. fate' \in [Txns -> Fates]  BY <1>5 DEF TypeInv, Checkpoints, Fates
  <2>3. writer' \in [txn : Txns \union {None}, pc : {"idle", "written", "flushed"}, size : Nat]
    BY <1>3, <1>5
  <2> QED BY <1>1, <1>5, <2>1, <2>2, <2>3 DEF TypeInv, Checkpoints
<1>7. ControlInv'
  <2>1. fate'[t] = "committing" /\ \A u \in Txns : u # t => fate'[u] = fate[u]
    BY <1>5 DEF TypeInv, Checkpoints
  <2>2. ckpt.txn # t  BY <1>5 DEF ControlInv
  <2>3. ckpt.txn # None => fate'[ckpt.txn] = "committing"
    BY <2>1, <2>2 DEF ControlInv, TypeInv, Checkpoints
  <2>4. wal'.size <= Len(disk'[wal'.path])  BY <1>1, <1>3, <1>4 DEF TypeInv, Checkpoints
  <2> QED BY <1>5, <2>1, <2>2, <2>3, <2>4 DEF ControlInv, NoWriter
<1>8. AbsentInv'
  <2>1. Unseen(t) /\ \A p \in Paths : ~Has(disk[p], t)  BY <1>5 DEF AbsentInv
  <2>2. \A u \in Txns : u # t => ~Has(new, u)  BY <1>0 DEF Has, Data
  <2>3. ASSUME NEW u \in Txns, u # t, NEW p \in Paths, ~Has(disk[p], u) PROVE ~Has(disk'[p], u)
    <3>1. CASE p = wal.path
      <4> HIDE DEF new
      <4> QED BY <1>0, <1>2, <1>3, <2>2, <2>3, <3>1, HasExtended
    <3> QED BY <1>1, <2>3, <3>1
  <2>4. \A i \in 1 .. wal.size : disk'[wal.path][i] # Data(t)
    <3> SUFFICES ASSUME NEW i \in 1 .. wal.size, disk'[wal.path][i] = Data(t) PROVE FALSE
      OBVIOUS
    <3>1. i \in 1 .. KeptLength /\ i \in 1 .. Len(disk[wal.path])  BY <1>3, <1>4
    <3>2. disk[wal.path][i] = Data(t)  BY <1>2, <3>1 DEF Extends
    <3> QED BY <1>3, <2>1, <3>1, <3>2 DEF Has, Data
  <2>5. \A u \in Txns : fate'[u] \in {"new", "aborted"} => u # t /\ fate[u] \in {"new", "aborted"}
    BY <1>5 DEF TypeInv, Checkpoints
  <2>6. \A u \in Txns : Unseen(u) => Unseen(u)'  BY <1>5 DEF Unseen
  <2>7. wal.size <= Len(disk'[wal.path])  BY <1>1, <1>3, <1>4 DEF TypeInv, Checkpoints, Logs
  <2> QED BY <1>1, <1>3, <1>5, <2>1, <2>3, <2>4, <2>5, <2>6, <2>7 DEF AbsentInv
<1> QED BY <1>6, <1>7, <1>8
LEMMA AbortCommitAndFlush ==
  ASSUME AbortInv, CommitAndFlush
  PROVE  AbortInv'
<1> USE DEF AbortInv
<1> DEFINE p0 == wal.path
           es == disk[p0] \o <<Flush>>
           t == writer.txn
<1>1. /\ mode = "running" /\ writer.pc = "written" /\ t \in Txns /\ t # None
      /\ p0 \in Paths /\ disk[p0] \in Logs /\ disk' = [disk EXCEPT ![p0] = es]
      /\ wal' = [wal EXCEPT !.synced = Len(es), !.size = Len(es)]
      /\ mem' = Append(mem, t)
      /\ writer' = [writer EXCEPT !.pc = "flushed"]
      /\ fate[t] = "committing" /\ t # ckpt.txn /\ walLock = "writer"
      /\ UNCHANGED <<setup, file, files, mode, replayState, iteration, walLock, ckpt, fate>>
  BY DEF CommitAndFlush, Running, Synced, TypeInv, Checkpoints, Wals, ControlInv, boundVars
<1>2. /\ es \in Logs /\ Len(es) = Len(disk[p0]) + 1 /\ Len(es) \in Nat
      /\ \A u : Has(es, u) => Has(disk[p0], u)
  <2>1. <<Flush>> \in Logs /\ Len(<<Flush>>) = 1 /\ <<Flush>>[1] = Flush
    BY EntryTypes DEF Logs
  <2>2. /\ es \in Logs /\ Len(es) = Len(disk[p0]) + 1 /\ Len(disk[p0]) \in Nat
        /\ \A i \in 1 .. Len(disk[p0]) : es[i] = disk[p0][i]
        /\ es[Len(disk[p0]) + 1] = Flush
    <3> HIDE DEF p0
    <3> QED BY <1>1, <2>1, Concatenated DEF Logs
  <2>3. \A i \in 1 .. Len(es) : i \in 1 .. Len(disk[p0]) \/ i = Len(disk[p0]) + 1  BY <2>2
  <2> HIDE DEF es, p0
  <2> QED BY <2>2, <2>3 DEF Has, Flush
<1>3. mem \in Commits /\ mem' \in Commits /\ \A u : In(u, mem') <=> In(u, mem) \/ u = t
  BY <1>1, Appended DEF TypeInv, Checkpoints
<1> HIDE DEF es
<1>4. TypeInv'
  <2>1. wal' \in Wals /\ disk' \in [Paths -> Logs]  BY <1>1, <1>2 DEF TypeInv, Checkpoints, Wals
  <2> QED BY <1>1, <1>3, <2>1 DEF TypeInv, Checkpoints
<1>5. ControlInv'
  <2>1. wal'.size <= Len(disk'[wal'.path])  BY <1>1, <1>2 DEF TypeInv, Checkpoints, Wals
  <2>2. writer'.pc = "flushed" /\ writer'.txn = t  BY <1>1 DEF TypeInv, Checkpoints
  <2> QED BY <1>1, <2>1, <2>2 DEF ControlInv
<1>6. AbsentInv'
  <2>1. writer'.pc = "flushed"  BY <1>1 DEF TypeInv, Checkpoints
  <2>2. \A u \in Txns : fate[u] \in {"new", "aborted"} => Unseen(u)'
    BY <1>1, <1>3 DEF AbsentInv, Unseen
  <2>3. \A u \in Txns : fate[u] \in {"new", "aborted"} => \A p \in Paths : ~Has(disk'[p], u)
    BY <1>1, <1>2 DEF AbsentInv, TypeInv, Checkpoints
  <2> QED BY <1>1, <2>1, <2>2, <2>3 DEF AbsentInv
<1> QED BY <1>4, <1>5, <1>6

LEMMA AbortRevertCommit ==
  ASSUME AbortInv, RevertCommit
  PROVE  AbortInv'
<1> USE DEF AbortInv
<1> DEFINE p0 == wal.path
           es == SubSeq(disk[p0], 1, writer.size)
           t == writer.txn
<1>1. /\ mode = "running" /\ writer.pc = "written" /\ t \in Txns /\ t # None
      /\ p0 \in Paths /\ disk[p0] \in Logs /\ disk' = [disk EXCEPT ![p0] = es]
      /\ wal' = [wal EXCEPT !.size = Len(es), !.synced = Min({wal.synced, Len(es)})]
      /\ writer' = NoWriter /\ walLock' = "free"
      /\ fate' = [fate EXCEPT ![t] = "aborted"] /\ fate[t] = "committing"
      /\ t # ckpt.txn /\ walLock = "writer"
      /\ UNCHANGED <<setup, file, files, mode, replayState, mem, iteration, ckpt>>
  BY DEF RevertCommit, Running, TypeInv, Checkpoints, Wals, ControlInv, boundVars
<1>2. writer.size \in 0 .. Len(disk[p0]) /\ Len(disk[p0]) \in Nat /\ wal.synced \in Nat
  BY <1>1 DEF AbsentInv, TypeInv, Checkpoints, Wals, Logs
<1>3. /\ es \in Logs /\ Len(es) = writer.size /\ ~Has(es, t)
      /\ \A u : Has(es, u) => Has(disk[p0], u)
  <2>1. \A i \in 1 .. writer.size : disk[p0][i] # Data(t)  BY <1>1 DEF AbsentInv
  <2> HIDE DEF p0, t
  <2> QED BY <1>1, <1>2, <2>1, Prefix, HasPrefix DEF Logs
<1> HIDE DEF es
<1>4. Min({wal.synced, Len(es)}) \in Nat
  <2>1. Len(es) \in Nat  BY <1>2, <1>3
  <2>2. {wal.synced, Len(es)} \subseteq Nat /\ {wal.synced, Len(es)} # {}  BY <1>2, <2>1
  <2> QED BY <2>2, MinIs
<1>5. TypeInv'
  <2>1. wal' \in Wals /\ disk' \in [Paths -> Logs]
    BY <1>1, <1>2, <1>3, <1>4 DEF TypeInv, Checkpoints, Wals
  <2>2. fate' \in [Txns -> Fates]  BY <1>1 DEF TypeInv, Checkpoints, Fates
  <2>3. writer' \in [txn : Txns \union {None}, pc : {"idle", "written", "flushed"}, size : Nat]
    BY <1>1 DEF NoWriter
  <2> QED BY <1>1, <2>1, <2>2, <2>3 DEF TypeInv, Checkpoints
<1>6. ControlInv'
  <2>1. wal'.size <= Len(disk'[wal'.path])
    BY <1>1, <1>2, <1>3 DEF TypeInv, Checkpoints, Wals
  <2>2. writer'.pc = "idle"  BY <1>1 DEF NoWriter
  <2>3. ckpt.txn # None => fate'[ckpt.txn] = "committing"  BY <1>1 DEF TypeInv, Checkpoints, ControlInv
  <2> QED BY <1>1, <2>1, <2>2, <2>3 DEF ControlInv
<1>7. AbsentInv'
  <2>1. writer'.pc = "idle"  BY <1>1 DEF NoWriter
  <2>2. \A u \in Txns : Unseen(u) => Unseen(u)'  BY <1>1 DEF Unseen
  <2>3. Unseen(t) /\ \A p \in Paths : p # p0 => ~Has(disk[p], t)  BY <1>1 DEF AbsentInv
  <2>4. \A p \in Paths : disk'[p] = IF p = p0 THEN es ELSE disk[p]  BY <1>1 DEF TypeInv, Checkpoints
  <2>5. \A p \in Paths, u \in Txns : Has(disk'[p], u) => Has(disk[p], u)  BY <1>3, <2>4
  <2>6. \A p \in Paths : ~Has(disk'[p], t)  BY <1>3, <2>3, <2>4
  <2>7. \A u \in Txns : fate'[u] \in {"new", "aborted"} => u = t \/ fate[u] \in {"new", "aborted"}
    BY <1>1 DEF TypeInv, Checkpoints
  <2> QED BY <2>1, <2>2, <2>3, <2>5, <2>6, <2>7 DEF AbsentInv
<1> QED BY <1>5, <1>6, <1>7

\* The steps that touch neither a log nor a fate that is "new".
LEMMA AbortQuietSteps ==
  ASSUME AbortInv, Acknowledge \/ Checkpoint \/ NextIteration \/ WriteHeader \/ CheckpointDone
  PROVE  AbortInv'
<1> USE DEF AbortInv, boundVars, diskVars, Running
<1>1. CASE Acknowledge
  <2>1. TypeInv'  BY <1>1 DEF Acknowledge, TypeInv, Checkpoints, NoWriter, Fates
  <2>2. ControlInv'
    BY <1>1 DEF Acknowledge, ControlInv, TypeInv, Checkpoints, NoWriter
  <2>3. AbsentInv'
    <3>1. writer'.pc = "idle" /\ UNCHANGED <<mem, file, ckpt, disk, wal>>
      BY <1>1 DEF Acknowledge, NoWriter
    <3>2. \A u \in Txns : fate'[u] \in {"new", "aborted"} => fate[u] \in {"new", "aborted"}
      BY <1>1 DEF Acknowledge, TypeInv, Checkpoints
    <3> QED BY <3>1, <3>2 DEF AbsentInv, Unseen
  <2> QED BY <2>1, <2>2, <2>3
<1>2. CASE Checkpoint
  <2>0. /\ ckpt' = [NoCheckpoint EXCEPT !.pc = "start"] /\ ckpt.pc = "idle" /\ mode = "running"
        /\ UNCHANGED <<setup, file, files, disk, mode, replayState, mem, iteration, wal, walLock,
                       writer, fate>>
    BY <1>2 DEF Checkpoint, NoCheckpoint
  <2>1. TypeInv'  BY <2>0, NothingThere DEF TypeInv, Checkpoints, NoCheckpoint
  <2>2. ControlInv'  BY <2>0 DEF ControlInv, NoCheckpoint
  <2>3. AbsentInv'
    <3>1. \A u : ~In(u, ckpt'.content)  BY <2>0, NothingThere DEF NoCheckpoint
    <3> QED BY <2>0, <3>1 DEF AbsentInv, Unseen
  <2> QED BY <2>1, <2>2, <2>3
<1>3. CASE NextIteration
  <2>0. /\ ckpt' = [ckpt EXCEPT !.pc = "header"] /\ ckpt.pc = "blocks" /\ mode = "running"
        /\ iteration' = iteration + 1
        /\ UNCHANGED <<setup, file, files, disk, mode, replayState, mem, wal, walLock,
                       writer, fate>>
    BY <1>3 DEF NextIteration
  <2>1. TypeInv'  BY <2>0 DEF TypeInv, Checkpoints
  <2>2. ControlInv'  BY <2>0 DEF ControlInv, TypeInv, Checkpoints
  <2>3. AbsentInv'  BY <2>0 DEF AbsentInv, Unseen, TypeInv, Checkpoints
  <2> QED BY <2>1, <2>2, <2>3
<1>4. CASE WriteHeader
  <2>0. /\ ckpt' = [ckpt EXCEPT !.pc = IF ckpt.hasWal THEN "finish" ELSE "done"]
        /\ ckpt.pc = "header" /\ mode = "running"
        /\ file' = [iter |-> iteration, root |-> ckpt.root, content |-> ckpt.content]
        /\ UNCHANGED <<setup, files, disk, mode, replayState, mem, iteration, wal, walLock,
                       writer, fate>>
    BY <1>4 DEF WriteHeader
  <2>1. TypeInv'  BY <2>0 DEF TypeInv, Checkpoints
  <2>2. ControlInv'  BY <2>0 DEF ControlInv, TypeInv, Checkpoints
  <2>3. AbsentInv'  BY <2>0 DEF AbsentInv, Unseen, TypeInv, Checkpoints
  <2> QED BY <2>1, <2>2, <2>3
<1>5. CASE CheckpointDone
  <2>0. /\ ckpt' = NoCheckpoint /\ ckpt.pc = "done" /\ mode = "running"
        /\ fate' = IF ckpt.txn = None THEN fate ELSE [fate EXCEPT ![ckpt.txn] = "acked"]
        /\ UNCHANGED <<setup, file, files, disk, mode, replayState, mem, iteration, wal, walLock,
                       writer>>
    BY <1>5 DEF CheckpointDone
  <2>1. /\ fate' \in [Txns -> Fates]
        /\ \A u \in Txns : fate'[u] = fate[u] \/ (u = ckpt.txn /\ fate'[u] = "acked")
    BY <2>0 DEF TypeInv, Checkpoints, Fates
  <2>2. TypeInv'  BY <2>0, <2>1, NothingThere DEF TypeInv, Checkpoints, NoCheckpoint
  <2>3. ControlInv'
    <3>1. writer.pc # "idle" => fate'[writer.txn] = "committing"
      BY <2>0, <2>1 DEF ControlInv, TypeInv, Checkpoints
    <3> QED BY <2>0, <3>1 DEF ControlInv, NoCheckpoint
  <2>4. AbsentInv'
    <3>1. \A u : ~In(u, ckpt'.content)  BY <2>0, NothingThere DEF NoCheckpoint
    <3> QED BY <2>0, <2>1, <3>1 DEF AbsentInv, Unseen
  <2> QED BY <2>2, <2>3, <2>4
<1> QED BY <1>1, <1>2, <1>3, <1>4, <1>5

LEMMA AbortCommitByCheckpoint ==
  ASSUME AbortInv, NEW t \in Txns, CommitByCheckpoint(t)
  PROVE  AbortInv'
<1> USE DEF AbortInv
<1>1. /\ mode = "running" /\ fate[t] = "new" /\ ckpt = NoCheckpoint /\ t # None
      /\ mem' = Append(mem, t) /\ fate' = [fate EXCEPT ![t] = "committing"]
      /\ ckpt' = [NoCheckpoint EXCEPT !.pc = "start", !.txn = t]
      /\ UNCHANGED <<setup, file, files, disk, mode, replayState, iteration, wal, walLock, writer>>
  BY NoneAssumption DEF CommitByCheckpoint, Running, diskVars
<1>2. mem \in Commits /\ mem' \in Commits /\ \A u : In(u, mem') <=> In(u, mem) \/ u = t
  BY <1>1, Appended DEF TypeInv, Checkpoints
<1>3. /\ fate' \in [Txns -> Fates] /\ fate'[t] = "committing"
      /\ \A u \in Txns : u # t => fate'[u] = fate[u]
  BY <1>1 DEF TypeInv, Checkpoints, Fates
<1>4. writer.pc # "idle" => writer.txn # t /\ writer.txn \in Txns
  BY <1>1 DEF ControlInv, TypeInv, Checkpoints
<1>5. TypeInv'  BY <1>1, <1>2, <1>3, NothingThere DEF TypeInv, Checkpoints, NoCheckpoint
<1>6. ControlInv'  BY <1>1, <1>3, <1>4 DEF ControlInv, NoCheckpoint
<1>7. AbsentInv'
  <2>1. \A u : ~In(u, ckpt'.content)  BY <1>1, NothingThere DEF NoCheckpoint
  <2>2. \A u \in Txns : u # t /\ Unseen(u) => Unseen(u)'  BY <1>1, <1>2, <2>1 DEF Unseen
  <2> QED BY <1>1, <1>3, <1>4, <2>2 DEF AbsentInv
<1> QED BY <1>5, <1>6, <1>7
-----------------------------------------------------------------------------
(* Steps of a checkpoint *)

LEMMA AbortWALStartCheckpoint ==
  ASSUME AbortInv, WALStartCheckpoint
  PROVE  AbortInv'
<1> USE DEF AbortInv
<1>1. PICK r \in Roots \ {file.root} :
        ckpt' = [ckpt EXCEPT !.root = r, !.content = mem, !.hasWal = wal.size > 0,
                             !.pc = IF wal.size > 0 THEN "marked" ELSE "blocks"]
  BY DEF WALStartCheckpoint
<1>2. /\ mode = "running" /\ ckpt.pc = "start" /\ walLock = "free" /\ writer.pc = "idle"
      /\ UNCHANGED <<setup, file, mode, replayState, mem, iteration, writer, fate>>
  BY DEF WALStartCheckpoint, Running, boundVars, ControlInv
<1>3. /\ r \in Nat /\ ckpt'.root = r /\ ckpt'.content = mem /\ ckpt'.txn = ckpt.txn
      /\ ckpt'.pc = (IF wal.size > 0 THEN "marked" ELSE "blocks")
      /\ ckpt' \in Checkpoints
  <2>1. r \in Nat /\ mem \in Commits /\ ckpt \in Checkpoints  BY RootsAssumption DEF TypeInv, Checkpoints
  <2>2. (wal.size > 0) \in BOOLEAN  OBVIOUS
  <2> DEFINE b == wal.size > 0
  <2>3. ckpt' = [ckpt EXCEPT !.root = r, !.content = mem, !.hasWal = b,
                             !.pc = IF b THEN "marked" ELSE "blocks"]
    BY <1>1
  <2>4. b \in BOOLEAN  OBVIOUS
  <2> HIDE DEF b
  <2>5. /\ ckpt' \in Checkpoints /\ ckpt'.root = r /\ ckpt'.content = mem
        /\ ckpt'.txn = ckpt.txn /\ ckpt'.hasWal = b /\ ckpt'.pc = (IF b THEN "marked" ELSE "blocks")
    BY <2>1, <2>3, <2>4 DEF Checkpoints
  <2> QED BY <2>1, <2>5 DEF b
<1>4. AbsentInv' /\ TypeInv' /\ ControlInv'
  <2>1. CASE wal.size > 0
    <3> DEFINE new == <<Marker(r), Flush>>
    <3>1. /\ new \in Logs /\ Len(new) = 2 /\ new[1].kind = "marker" /\ new[2].kind = "flush"
      BY <1>3, EntryTypes DEF Logs, Marker, Flush
    <3>2. WriteEntries(new) /\ walLock' = "checkpoint"
      BY <1>3, <2>1 DEF WALStartCheckpoint
    <3>3. \A u : ~Has(new, u)
      <4>1. \A i \in 1 .. 2 : i = 1 \/ i = 2  OBVIOUS
      <4> HIDE DEF new
      <4> QED BY <3>1, <4>1 DEF Has
    <3> HIDE DEF new
    <3>4. /\ disk' \in [Paths -> Logs] /\ files' \subseteq Paths
          /\ \A p \in Paths \ {wal.path} : disk'[p] = disk[p]
          /\ wal' = [wal EXCEPT
               !.synced = IF wal.state = "initialized" THEN wal.synced ELSE KeptLength,
               !.size = IF wal.state = "initialized" THEN wal.size ELSE KeptLength,
               !.state = "initialized"]
          /\ \E k \in Nat : Extends(disk[wal.path], KeptLength, k, new, disk'[wal.path])
      BY <3>1, <3>2, WriteEntriesIs DEF ControlInv
    <3>5. PICK k \in Nat : Extends(disk[wal.path], KeptLength, k, new, disk'[wal.path])
      BY <3>4
    <3>6. /\ disk[wal.path] \in Logs /\ Len(disk[wal.path]) \in Nat /\ wal.path \in Paths
          /\ wal.size \in Nat /\ wal.synced \in Nat /\ wal'.path = wal.path
          /\ KeptLength \in 0 .. Len(disk[wal.path])
      BY <3>4, <3>5 DEF TypeInv, Checkpoints, Wals, Extends, Logs
    <3>7. wal'.size <= KeptLength /\ KeptLength <= Len(disk'[wal.path])
      <4>1. KeptLength <= Len(disk'[wal.path])  BY <3>1, <3>5, <3>6 DEF Extends
      <4>2. wal.size <= Len(disk[wal.path])  BY DEF ControlInv
      <4> QED BY <3>4, <3>6, <4>1, <4>2 DEF KeptLength, TypeInv, Checkpoints, Wals
    <3>8. wal' \in Wals
      <4>1. wal \in Wals /\ KeptLength \in Nat  BY <3>6 DEF TypeInv, Checkpoints
      <4> QED BY <3>4, <3>6, <4>1 DEF Wals
    <3>9. \A u \in Txns : \A p \in Paths : Has(disk'[p], u) => Has(disk[p], u)
      BY <3>1, <3>3, <3>4, <3>5, <3>6, HasExtended
    <3>10. wal'.size <= Len(disk'[wal'.path])
      <4>1. Len(disk'[wal.path]) \in Nat /\ wal'.size \in Nat
        BY <3>4, <3>6, <3>8 DEF Wals, Logs
      <4> QED BY <3>6, <3>7, <4>1
    <3> QED BY <1>2, <1>3, <2>1, <3>2, <3>4, <3>8, <3>9, <3>10
            DEF TypeInv, Checkpoints, ControlInv, AbsentInv, Unseen, NoCheckpoint
  <2>2. CASE ~(wal.size > 0)
    <3>1. UNCHANGED <<disk, files, wal, walLock>>  BY <2>2 DEF WALStartCheckpoint
    <3> QED BY <1>2, <1>3, <2>2, <3>1 DEF TypeInv, Checkpoints, ControlInv, AbsentInv, Unseen, NoCheckpoint
  <2> QED BY <2>1, <2>2
<1> QED BY <1>4

\* A step that only moves, copies or removes whole logs while nobody writes.
LEMMA AbsentWhenLogsMove ==
  ASSUME AbsentInv, writer'.pc # "written", UNCHANGED <<file, fate>>,
         \A u : In(u, mem') => In(u, mem) \/ In(u, file.content),
         \A u : In(u, ckpt'.content) => In(u, ckpt.content),
         \A p \in Paths : \A u : Has(disk'[p], u) => \E q \in Paths : Has(disk[q], u)
  PROVE  AbsentInv'
BY DEF AbsentInv, Unseen

LEMMA AbortWALSwitch ==
  ASSUME AbortInv, WALSwitch
  PROVE  AbortInv'
<1> USE DEF AbortInv
<1>1. /\ mode = "running" /\ ckpt.pc = "marked" /\ writer.pc = "idle"
      /\ files' = files \ {"checkpoint"} /\ disk' = [disk EXCEPT !["checkpoint"] = <<>>]
      /\ wal' = NewWal("checkpoint", 0, "no_wal", iteration + 1)
      /\ walLock' = "free" /\ ckpt' = [ckpt EXCEPT !.pc = "blocks"]
      /\ UNCHANGED <<setup, file, mode, replayState, mem, iteration, writer, fate>>
  BY DEF WALSwitch, Running, boundVars, ControlInv
<1>2. TypeInv'
  <2>1. wal' \in Wals /\ disk' \in [Paths -> Logs]
    BY <1>1, NothingThere DEF NewWal, Wals, Paths, TypeInv, Checkpoints
  <2> QED BY <1>1, <2>1 DEF TypeInv, Checkpoints
<1>3. ControlInv'
  <2>1. disk'[wal'.path] = <<>> /\ wal'.size = 0  BY <1>1 DEF NewWal, TypeInv, Checkpoints, Paths
  <2>2. ckpt'.pc = "blocks" /\ ckpt'.txn = ckpt.txn  BY <1>1 DEF TypeInv, Checkpoints
  <2> QED BY <1>1, <2>1, <2>2, NothingThere DEF ControlInv
<1>4. AbsentInv'
  <2>1. \A p \in Paths : disk'[p] = <<>> \/ disk'[p] = disk[p]  BY <1>1 DEF TypeInv, Checkpoints
  <2>2. ckpt'.content = ckpt.content  BY <1>1 DEF TypeInv, Checkpoints
  <2> QED BY <1>1, <2>1, <2>2, NothingThere, AbsentWhenLogsMove
<1> QED BY <1>2, <1>3, <1>4

LEMMA AbortWALFinishCheckpoint ==
  ASSUME AbortInv, WALFinishCheckpoint
  PROVE  AbortInv'
<1> USE DEF AbortInv
<1>1. /\ mode = "running" /\ ckpt.pc = "finish" /\ writer.pc = "idle" /\ walLock = "free"
      /\ ckpt' = [ckpt EXCEPT !.pc = "done"]
      /\ UNCHANGED <<setup, file, mode, replayState, mem, iteration, walLock, writer, fate>>
  BY DEF WALFinishCheckpoint, Running, boundVars, ControlInv
<1>2. /\ wal' \in Wals /\ disk' \in [Paths -> Logs] /\ files' \subseteq Paths
      /\ wal'.size <= Len(disk'[wal'.path])
      /\ \A p \in Paths : disk'[p] = <<>> \/ \E q \in Paths : disk'[p] = disk[q]
  <2>0. {"main", "checkpoint"} \subseteq Paths /\ disk \in [Paths -> Logs] /\ files \subseteq Paths
    BY DEF Paths, TypeInv, Checkpoints
  <2>1. CASE wal.state # "initialized"
    <3>1. /\ files' = files \ {"main"} /\ disk' = [disk EXCEPT !["main"] = <<>>]
          /\ wal' = NewWal("main", 0, "no_wal", NoIter)
      BY <2>1 DEF WALFinishCheckpoint
    <3> QED BY <2>0, <3>1, NothingThere DEF NewWal, Wals, NoIter
  <2>2. CASE wal.state = "initialized"
    <3>1. /\ files' = files \ {"checkpoint"}
          /\ disk' = [disk EXCEPT !["main"] = disk["checkpoint"], !["checkpoint"] = <<>>]
          /\ wal' = [NewWal("main", 0, "initialized", NoIter) EXCEPT
                       !.synced = Len(disk["checkpoint"]), !.size = Len(disk["checkpoint"])]
      BY <2>2 DEF WALFinishCheckpoint, Synced
    <3>2. disk["checkpoint"] \in Logs /\ Len(disk["checkpoint"]) \in Nat  BY <2>0 DEF Logs
    <3>3. wal' \in Wals /\ wal'.path = "main" /\ wal'.size = Len(disk["checkpoint"])
      <4> DEFINE n == Len(disk["checkpoint"])
      <4>1. wal' = [path |-> "main", size |-> n, state |-> "initialized", iter |-> NoIter,
                    synced |-> n]
        BY <3>1 DEF NewWal
      <4>2. n \in Nat /\ NoIter \in Nat  BY <3>2 DEF NoIter
      <4> HIDE DEF n
      <4>3. wal' \in Wals /\ wal'.path = "main" /\ wal'.size = n  BY <2>0, <4>1, <4>2 DEF Wals
      <4> QED BY <4>3 DEF n
    <3>4. /\ disk' \in [Paths -> Logs] /\ disk'["main"] = disk["checkpoint"]
          /\ \A p \in Paths : disk'[p] = <<>> \/ \E q \in Paths : disk'[p] = disk[q]
      BY <2>0, <3>1, <3>2, NothingThere
    <3>5. files' \subseteq Paths  BY <2>0, <3>1
    <3>6. wal'.size <= Len(disk'[wal'.path])  BY <3>2, <3>3, <3>4
    <3> QED BY <3>3, <3>4, <3>5, <3>6
  <2> QED BY <2>1, <2>2
<1>3. TypeInv'  BY <1>1, <1>2 DEF TypeInv, Checkpoints
<1>4. ControlInv'
  <2>1. ckpt'.pc = "done" /\ ckpt'.txn = ckpt.txn  BY <1>1 DEF TypeInv, Checkpoints
  <2> QED BY <1>1, <1>2, <2>1 DEF ControlInv
<1>5. AbsentInv'
  <2>1. ckpt'.content = ckpt.content  BY <1>1 DEF TypeInv, Checkpoints
  <2> QED BY <1>1, <1>2, <2>1, NothingThere, AbsentWhenLogsMove
<1> QED BY <1>3, <1>4, <1>5
-----------------------------------------------------------------------------
(* Crash and recovery *)

LEMMA HasRemains ==
  ASSUME TypeInv, NEW D \in Logs, NEW es \in Remains(D), NEW u, Has(es, u)
  PROVE  es \in Logs /\ Has(D, u)
<1>1. wal.synced \in Nat /\ Len(D) \in Nat  BY DEF TypeInv, Wals, Logs
<1>2. CASE es = D  BY <1>2
<1>3. CASE es # D /\ wal.synced <= Len(D)
  <2>1. es \in Logs /\ \E n \in wal.synced .. Len(D) :
                    /\ Len(es) \in n .. n + 1 /\ \A i \in 1 .. n : es[i] = D[i]
                    /\ Len(es) = n + 1 => es[n + 1].kind = "torn"
    BY <1>3, RemainsIs
  <2>2. PICK n \in wal.synced .. Len(D) :
                    /\ Len(es) \in n .. n + 1 /\ \A i \in 1 .. n : es[i] = D[i]
                    /\ Len(es) = n + 1 => es[n + 1].kind = "torn"
    BY <2>1
  <2>3. PICK i \in 1 .. Len(es) : es[i].kind = "data" /\ es[i].val = u  BY DEF Has
  <2>4. i \in 1 .. n
    <3>1. i # n + 1 \/ Len(es) # n + 1  BY <2>2, <2>3
    <3> QED BY <1>1, <2>2, <2>3, <3>1
  <2>5. i \in 1 .. Len(D)  BY <1>1, <2>4
  <2> QED BY <2>1, <2>2, <2>3, <2>4, <2>5 DEF Has
<1>4. CASE es # D /\ ~(wal.synced <= Len(D))
  <2>1. es \in {D} \union UNION {{SubSeq(D, 1, n), Append(SubSeq(D, 1, n), Torn)} :
                                   n \in wal.synced .. Len(D) - 1}
    BY <1>4 DEF Remains
  <2>2. wal.synced .. Len(D) - 1 = {}  BY <1>1, <1>4
  <2> QED BY <1>4, <2>1, <2>2
<1> QED BY <1>2, <1>3, <1>4

\* After Forget the database is closed and what was committing is unknown.
LEMMA AbortForget ==
  ASSUME AbortInv, Forget, mode' = "closed", UNCHANGED <<setup, file>>, files' \subseteq Paths,
         disk' \in [Paths -> Logs], \A p \in Paths : \A u : Has(disk'[p], u) => Has(disk[p], u)
  PROVE  AbortInv'
<1> USE DEF AbortInv
<1>1. /\ mem' = <<>> /\ iteration' = 0 /\ replayState' = "main_wal" /\ walLock' = "free"
      /\ wal' = NewWal("main", 0, "no_wal", NoIter) /\ writer' = NoWriter
      /\ ckpt' = NoCheckpoint
      /\ fate' = [t \in Txns |-> IF fate[t] = "committing" THEN "unknown" ELSE fate[t]]
  BY DEF Forget
<1>2. TypeInv'
  <2>1. wal' \in Wals  BY <1>1 DEF NewWal, Wals, Paths, NoIter
  <2>2. fate' \in [Txns -> Fates]  BY <1>1 DEF TypeInv, Fates
  <2>3. ckpt' \in Checkpoints  BY <1>1, NothingThere DEF NoCheckpoint, Checkpoints
  <2> QED BY <1>1, <2>1, <2>2, <2>3, NothingThere DEF TypeInv, NoWriter
<1>3. ControlInv'
  <2>1. wal'.size = 0 /\ wal'.path \in Paths  BY <1>1 DEF NewWal, Paths
  <2>2. Len(disk'[wal'.path]) \in Nat  BY <2>1 DEF Logs
  <2> QED BY <1>1, <2>1, <2>2 DEF ControlInv, NoWriter, NoCheckpoint
<1>4. AbsentInv'
  <2>1. \A u : ~In(u, mem') /\ ~In(u, ckpt'.content)  BY <1>1, NothingThere DEF NoCheckpoint
  <2>2. writer'.pc = "idle"  BY <1>1 DEF NoWriter
  <2>3. \A u \in Txns : fate'[u] \in {"new", "aborted"} => fate[u] \in {"new", "aborted"}
    BY <1>1
  <2> QED BY <2>1, <2>2, <2>3 DEF AbsentInv, Unseen
<1> QED BY <1>2, <1>3, <1>4

LEMMA AbortCrash ==
  ASSUME AbortInv, Crash \/ OpenFailed
  PROVE  AbortInv'
<1> USE DEF AbortInv
<1>1. CASE OpenFailed
  <2>1. /\ Forget /\ mode' = "closed" /\ UNCHANGED <<setup, file, files, disk>>
    BY <1>1 DEF OpenFailed, diskVars, boundVars
  <2>2. files' \subseteq Paths /\ disk' \in [Paths -> Logs]  BY <2>1 DEF TypeInv
  <2> QED BY <2>1, <2>2, AbortForget
<1>2. CASE Crash
  <2>1. Forget /\ mode' = "closed" /\ UNCHANGED <<setup, file, files>>  BY <1>2 DEF Crash
  <2>2. disk' \in [Paths -> Logs] /\ \A p \in Paths : \A u : Has(disk'[p], u) => Has(disk[p], u)
    <3>1. CASE Running
      <4>1. PICK es \in Remains(disk[wal.path]) : disk' = [disk EXCEPT ![wal.path] = es]
        BY <1>2, <3>1 DEF Crash
      <4>2. wal.path \in Paths /\ disk[wal.path] \in Logs /\ wal.synced \in Nat
        BY DEF TypeInv, Wals
      <4>3. es \in Logs /\ \A u : Has(es, u) => Has(disk[wal.path], u)
        <5>1. es \in Logs
          <6>1. CASE es = disk[wal.path]  BY <4>2, <6>1
          <6>2. CASE es # disk[wal.path] /\ wal.synced <= Len(disk[wal.path])
            BY <4>2, <6>2, RemainsIs
          <6>3. CASE es # disk[wal.path] /\ ~(wal.synced <= Len(disk[wal.path]))
            <7> DEFINE D == disk[wal.path]
            <7>1. es \in {D} \union
                    UNION {{SubSeq(D, 1, n), Append(SubSeq(D, 1, n), Torn)} :
                             n \in wal.synced .. Len(D) - 1}
              BY <6>3 DEF Remains
            <7>2. wal.synced .. Len(D) - 1 = {}  BY <4>2, <6>3 DEF Logs
            <7> HIDE DEF D
            <7>3. es = D  BY <7>1, <7>2
            <7> QED BY <6>3, <7>3 DEF D
          <6> QED BY <6>1, <6>2, <6>3
        <5> QED BY <4>2, <5>1, HasRemains
      <4> QED BY <4>1, <4>2, <4>3 DEF TypeInv
    <3>2. CASE ~Running
      BY <1>2, <3>2 DEF Crash, TypeInv
    <3> QED BY <3>1, <3>2
  <2>3. files' \subseteq Paths  BY <2>1 DEF TypeInv
  <2> QED BY <2>1, <2>2, <2>3, AbortForget
<1> QED BY <1>1, <1>2

\* A step of recovery that moves logs, and does not yet open the database.
LEMMA AbortLogsMove ==
  ASSUME AbortInv, mode # "running", mode' \in {"load", "merged", "moved", "failed"},
         mem' = mem \/ mem' = file.content, iteration' \in Nat,
         replayState' \in {"main_wal", "checkpoint_wal"},
         UNCHANGED <<setup, file, wal, walLock, writer, ckpt, fate>>, files' \subseteq Paths,
         disk' \in [Paths -> Logs],
         \A p \in Paths : \A u : Has(disk'[p], u) => \E q \in Paths : Has(disk[q], u)
  PROVE  AbortInv'
<1> USE DEF AbortInv
<1>1. TypeInv'  BY DEF TypeInv
<1>2. ControlInv'
  <2>1. wal'.size = 0 /\ wal'.path \in Paths  BY DEF ControlInv, NewWal, Paths
  <2>2. Len(disk'[wal'.path]) \in Nat  BY <2>1 DEF Logs
  <2> QED BY <2>1, <2>2 DEF ControlInv
<1>3. AbsentInv'
  <2>1. writer'.pc # "written"  BY DEF ControlInv, NoWriter
  <2> QED BY <2>1, AbsentWhenLogsMove
<1> QED BY <1>1, <1>2, <1>3

LEMMA MergedIs ==
  ASSUME NEW main \in Logs, NEW next \in Logs, next # <<>>
  PROVE  /\ MergedLog(main, next) \in Logs
         /\ \A u : Has(MergedLog(main, next), u) => Has(main, u) \/ Has(next, u)
<1> DEFINE n == CheckpointPosition(main) - 1
           a == SubSeq(main, 1, n)
           b == Tail(next)
<1>1. /\ b \in Logs /\ Len(b) = Len(next) - 1 /\ Len(next) \in Nat
      /\ \A i \in 1 .. Len(b) : b[i] = next[i + 1]
  BY HeadTailProperties DEF Logs
<1>2. CheckpointPosition(main) \in 0 .. Len(main) /\ Len(main) \in Nat  BY PositionIs DEF Logs
<1>3. a \in Logs /\ \A u : Has(a, u) => Has(main, u)
  <2>1. CASE CheckpointPosition(main) = 0
    <3>1. a = <<>>  BY <2>1, SubSeqEmpty
    <3> QED BY <3>1, NothingThere
  <2>2. CASE CheckpointPosition(main) # 0
    <3>1. n \in 0 .. Len(main)  BY <1>2, <2>2
    <3> HIDE DEF n
    <3> QED BY <3>1, Prefix, HasPrefix DEF Logs
  <2> QED BY <2>1, <2>2
<1>4. \A u : Has(b, u) => Has(next, u)
  <2>1. \A i \in 1 .. Len(b) : i + 1 \in 1 .. Len(next)  BY <1>1
  <2> HIDE DEF b
  <2> QED BY <1>1, <2>1 DEF Has
<1>5. MergedLog(main, next) = a \o b  BY DEF MergedLog
<1> HIDE DEF a, b
<1>6. /\ a \o b \in Logs /\ Len(a \o b) = Len(a) + Len(b) /\ Len(a) \in Nat /\ Len(b) \in Nat
      /\ \A i \in 1 .. Len(a) : (a \o b)[i] = a[i]
      /\ \A i \in 1 .. Len(b) : (a \o b)[Len(a) + i] = b[i]
  <2>1. a \in Logs /\ b \in Logs  BY <1>1, <1>3
  <2>2. Len(a) \in Nat /\ Len(b) \in Nat  BY <2>1 DEF Logs
  <2> QED BY <2>1, <2>2, Concatenated
<1>7. ASSUME NEW u, Has(a \o b, u) PROVE Has(a, u) \/ Has(b, u)
  <2>1. PICK i \in 1 .. Len(a) + Len(b) : (a \o b)[i].kind = "data" /\ (a \o b)[i].val = u
    BY <1>6, <1>7 DEF Has
  <2>2. CASE i <= Len(a)
    <3>1. i \in 1 .. Len(a)  BY <1>6, <2>2
    <3> QED BY <1>6, <2>1, <3>1 DEF Has
  <2>3. CASE ~(i <= Len(a))
    <3>1. PICK j \in 1 .. Len(b) : i = Len(a) + j
      <4>1. i - Len(a) \in 1 .. Len(b) /\ i = Len(a) + (i - Len(a))  BY <1>6, <2>3
      <4> QED BY <4>1
    <3> QED BY <1>6, <2>1, <3>1 DEF Has
  <2> QED BY <2>2, <2>3
<1> QED BY <1>3, <1>4, <1>5, <1>6, <1>7

LEMMA AbortRecovery ==
  ASSUME AbortInv,
         \/ LoadDatabase \/ ReplayCheckpointWal \/ MergeWals \/ MoveRecoveryWal
         \/ RemoveCheckpointWal \/ ReplayRefused
  PROVE  AbortInv'
<1> USE DEF AbortInv, recoveryFrame, diskVars, boundVars
<1>0. {"main", "checkpoint", "recovery"} \subseteq Paths /\ disk \in [Paths -> Logs]
      /\ files \subseteq Paths /\ iteration \in Nat /\ file.iter \in Nat
      /\ replayState \in {"main_wal", "checkpoint_wal"}
  BY DEF Paths, TypeInv
<1>1. CASE LoadDatabase
  <2>1. /\ mode = "closed" /\ mode' = "load" /\ iteration' = file.iter /\ mem' = file.content
        /\ UNCHANGED <<setup, file, files, disk, replayState, wal, walLock, writer, ckpt, fate>>
    BY <1>1 DEF LoadDatabase
  <2> QED BY <1>0, <2>1, AbortLogsMove
<1>2. ASSUME mode # "running", Refuse PROVE AbortInv'
  <2>1. /\ mode' = "failed"
        /\ UNCHANGED <<setup, file, files, disk, replayState, mem, iteration, wal, walLock,
                       writer, ckpt, fate>>
    BY <1>2 DEF Refuse
  <2> QED BY <1>0, <1>2, <2>1, AbortLogsMove
<1>3. CASE ReplayRefused
  <2>1. mode # "running" /\ Refuse  BY <1>3 DEF ReplayRefused
  <2> QED BY <1>2, <2>1
<1>4. CASE ReplayCheckpointWal
  <2>1. /\ mode = "load" /\ mode' = mode /\ files' = files \ {"checkpoint"}
        /\ disk' = [disk EXCEPT !["main"] = disk["checkpoint"], !["checkpoint"] = <<>>]
        /\ replayState' = "checkpoint_wal"
        /\ UNCHANGED <<setup, file, mem, iteration, wal, walLock, writer, ckpt, fate>>
    BY <1>4 DEF ReplayCheckpointWal
  <2>2. /\ disk' \in [Paths -> Logs]
        /\ \A p \in Paths : disk'[p] = <<>> \/ \E q \in Paths : disk'[p] = disk[q]
    BY <1>0, <2>1, NothingThere
  <2>3. \A p \in Paths : \A u : Has(disk'[p], u) => \E q \in Paths : Has(disk[q], u)
    BY <2>2, NothingThere
  <2> QED BY <1>0, <2>1, <2>2, <2>3, AbortLogsMove
<1>5. CASE MergeWals
  <2> DEFINE main == disk["main"]
             next == disk["checkpoint"]
  <2>1. CASE Readable(next) = <<>> \/ VersionCheck(next) = "error"
    <3>1. mode # "running" /\ Refuse  BY <1>5, <2>1 DEF MergeWals, NeedsMerge
    <3> QED BY <1>2, <3>1
  <2>2. CASE ~(Readable(next) = <<>> \/ VersionCheck(next) = "error")
    <3>1. /\ mode = "load" /\ mode' = "merged" /\ files' = files \union {"recovery"}
          /\ disk' = [disk EXCEPT !["recovery"] = MergedLog(main, next)]
          /\ UNCHANGED <<setup, file, replayState, mem, iteration, wal, walLock, writer, ckpt,
                         fate>>
      BY <1>5, <2>2 DEF MergeWals, NeedsMerge
    <3>2. next # <<>>
      <4>1. PICK n \in 0 .. Len(next) : Readable(next) = SubSeq(next, 1, n)
        BY <1>0, ReadableIs
      <4>2. next = <<>> => n = 0  BY <1>0, <4>1
      <4>3. n = 0 => Readable(next) = <<>>  BY <4>1, SubSeqEmpty
      <4> QED BY <2>2, <4>2, <4>3
    <3> DEFINE merged == MergedLog(main, next)
    <3>3. merged \in Logs /\ \A u : Has(merged, u) => Has(main, u) \/ Has(next, u)
      BY <1>0, <3>2, MergedIs
    <3> HIDE DEF merged
    <3>4. disk' = [disk EXCEPT !["recovery"] = merged]  BY <3>1 DEF merged
    <3>5. /\ disk' \in [Paths -> Logs]
          /\ \A p \in Paths : \A u : Has(disk'[p], u) => \E q \in Paths : Has(disk[q], u)
      BY <1>0, <3>3, <3>4
    <3> QED BY <1>0, <3>1, <3>5, AbortLogsMove
  <2> QED BY <2>1, <2>2
<1>6. CASE MoveRecoveryWal
  <2>1. /\ mode = "merged" /\ mode' = "moved" /\ files' = files \ {"recovery"}
        /\ disk' = [disk EXCEPT !["main"] = disk["recovery"], !["recovery"] = <<>>]
        /\ UNCHANGED <<setup, file, replayState, mem, iteration, wal, walLock, writer, ckpt, fate>>
    BY <1>6 DEF MoveRecoveryWal
  <2>2. /\ disk' \in [Paths -> Logs]
        /\ \A p \in Paths : disk'[p] = <<>> \/ \E q \in Paths : disk'[p] = disk[q]
    BY <1>0, <2>1, NothingThere
  <2>3. \A p \in Paths : \A u : Has(disk'[p], u) => \E q \in Paths : Has(disk[q], u)
    BY <2>2, NothingThere
  <2> QED BY <1>0, <2>1, <2>2, <2>3, AbortLogsMove
<1>7. CASE RemoveCheckpointWal
  <2>1. /\ mode = "moved" /\ mode' = "load" /\ files' = files \ {"checkpoint"}
        /\ disk' = [disk EXCEPT !["checkpoint"] = <<>>] /\ replayState' = "checkpoint_wal"
        /\ UNCHANGED <<setup, file, mem, iteration, wal, walLock, writer, ckpt, fate>>
    BY <1>7 DEF RemoveCheckpointWal
  <2>2. /\ disk' \in [Paths -> Logs]
        /\ \A p \in Paths : disk'[p] = <<>> \/ \E q \in Paths : disk'[p] = disk[q]
    BY <1>0, <2>1, NothingThere
  <2>3. \A p \in Paths : \A u : Has(disk'[p], u) => \E q \in Paths : Has(disk[q], u)
    BY <2>2, NothingThere
  <2> QED BY <1>0, <2>1, <2>2, <2>3, AbortLogsMove
<1> QED BY <1>1, <1>3, <1>4, <1>5, <1>6, <1>7

LEMMA AbortOpens ==
  ASSUME AbortInv, ReplayNothing \/ ReplayMainWal
  PROVE  AbortInv'
<1> USE DEF AbortInv, recoveryFrame, boundVars
<1>0. /\ {"main", "checkpoint", "recovery"} \subseteq Paths /\ disk \in [Paths -> Logs]
      /\ files \subseteq Paths /\ disk["main"] \in Logs /\ mem \in Commits
  BY DEF Paths, TypeInv
<1>1. CASE ReplayNothing
  <2>1. /\ mode = "load" /\ mode' = "running" /\ files' = files \ {"main"}
        /\ disk' = [disk EXCEPT !["main"] = <<>>]
        /\ wal' = NewWal("main", 0, "no_wal", NoIter)
        /\ UNCHANGED <<setup, file, replayState, mem, iteration, walLock, writer, ckpt, fate>>
    BY <1>1 DEF ReplayNothing
  <2>2. /\ disk' \in [Paths -> Logs] /\ wal' \in Wals /\ wal'.size <= Len(disk'[wal'.path])
        /\ \A p \in Paths : disk'[p] = <<>> \/ disk'[p] = disk[p]
    BY <1>0, <2>1, NothingThere DEF NewWal, Wals, NoIter
  <2>3. TypeInv'  BY <1>0, <2>1, <2>2 DEF TypeInv
  <2>4. ControlInv'  BY <2>1, <2>2 DEF ControlInv
  <2>5. AbsentInv'
    <3>1. writer'.pc # "written"  BY <2>1 DEF ControlInv, NoWriter
    <3> QED BY <2>1, <2>2, <3>1, NothingThere, AbsentWhenLogsMove
  <2> QED BY <2>3, <2>4, <2>5
<1>2. CASE ReplayMainWal
  <2> DEFINE es == disk["main"]
             end == SuccessfulOffset(es)
  <2>1. /\ mode = "load" /\ mode' = "running" /\ mem' = mem \o Replayed(es)
        /\ wal' = NewWal("main", end,
                     IF end = Len(es) THEN "uninitialized" ELSE "requires_truncate", NoIter)
        /\ UNCHANGED <<setup, file, files, disk, replayState, iteration, walLock, writer, ckpt,
                       fate>>
    BY <1>2 DEF ReplayMainWal
  <2>2. end \in 0 .. Len(es) /\ Len(es) \in Nat  BY <1>0, OffsetIs DEF Logs
  <2>3. /\ mem' \in Commits /\ \A u : In(u, mem') => In(u, mem) \/ Has(es, u)
    <3>1. Replayed(es) \in Commits /\ \A u : In(u, Replayed(es)) => Applies(es, u)
      BY <1>0, ReplayedIs
    <3>2. \A u : Applies(es, u) => Has(es, u)  BY DEF Applies, AppliesTo, Has
    <3> QED BY <1>0, <2>1, <3>1, <3>2, Joined
  <2>4. wal' \in Wals /\ wal'.path = "main" /\ wal'.size = end
    <3> HIDE DEF end, es
    <3> QED BY <1>0, <2>1, <2>2 DEF NewWal, Wals, NoIter
  <2>5. TypeInv'  BY <1>0, <2>1, <2>3, <2>4 DEF TypeInv
  <2>6. ControlInv'  BY <2>1, <2>2, <2>4 DEF ControlInv
  <2>7. AbsentInv'
    <3>1. writer'.pc # "written"  BY <2>1 DEF ControlInv, NoWriter
    <3> QED BY <1>0, <2>1, <2>3, <3>1 DEF AbsentInv, Unseen
  <2> QED BY <2>5, <2>6, <2>7
<1> QED BY <1>1, <1>2

LEMMA AbortInit ==
  ASSUME Init PROVE AbortInv
<1>1. TypeInv
  BY NothingThere DEF Init, TypeInv, NewWal, Wals, Paths, NoIter, NoWriter, NoCheckpoint,
                      Checkpoints, Fates
<1>2. ControlInv
  <2>1. wal.size = 0 /\ Len(disk[wal.path]) = 0
    BY NothingThere DEF Init, NewWal, Paths
  <2> QED BY <2>1 DEF Init, ControlInv, NoWriter, NoCheckpoint
<1>3. AbsentInv  BY NothingThere DEF Init, AbsentInv, Unseen, NoWriter, NoCheckpoint
<1> QED BY <1>1, <1>2, <1>3 DEF AbortInv

LEMMA AbortNext ==
  ASSUME AbortInv, [Next]_vars
  PROVE  AbortInv'
<1>1. CASE UNCHANGED vars
  BY <1>1 DEF vars, AbortInv, TypeInv, ControlInv, AbsentInv, Unseen
<1>2. CASE Next
  BY <1>2, AbortWriteToWAL, AbortCommitByCheckpoint, AbortCommitAndFlush, AbortQuietSteps,
     AbortRevertCommit, AbortWALStartCheckpoint, AbortWALSwitch, AbortWALFinishCheckpoint,
     AbortCrash, AbortRecovery, AbortOpens DEF Next
<1> QED BY <1>1, <1>2

\* A commit that was rolled back never appears, whatever crashes, checkpoints and
\* other commits come between: RevertCommit takes its entries from the log before
\* anybody can replay them.
THEOREM RolledBackStaysAway == Spec => []AbortedStaysAborted
<1>1. Init => AbortInv  BY AbortInit
<1>2. AbortInv /\ [Next]_vars => AbortInv'  BY AbortNext
<1>3. AbortInv => AbortedStaysAborted
  <2> SUFFICES ASSUME AbortInv, NEW t \in ToSet(mem) PROVE fate[t] # "aborted"
    BY DEF AbortedStaysAborted
  <2>1. mem \in Seq(Txns)  BY DEF AbortInv, TypeInv, Commits
  <2>2. PICK i \in 1 .. Len(mem) : mem[i] = t  BY <2>1 DEF ToSet
  <2>3. In(t, mem) /\ t \in Txns  BY <2>1, <2>2 DEF In
  <2> QED BY <2>3 DEF AbortInv, AbsentInv, Unseen
<1> QED BY <1>1, <1>2, <1>3, PTL DEF Spec
-----------------------------------------------------------------------------
(* Logs that agree up to some entry *)

Agree(a, b, n) ==
  n \in 0 .. Len(a) /\ n \in 0 .. Len(b) /\ \A i \in 1 .. n : a[i] = b[i]

LEMMA AgreeReads ==
  ASSUME NEW a \in Logs, NEW b \in Logs, NEW n, Agree(a, b, n), NEW i \in 1 .. n
  PROVE  /\ Read(a, i) <=> Read(b, i)
         /\ IsFlush(a, i) <=> IsFlush(b, i)
         /\ IsMarker(a, i) <=> IsMarker(b, i)
<1>1. Len(a) \in Nat /\ Len(b) \in Nat  BY DEF Logs
<1>2. i \in 1 .. Len(a) /\ i \in 1 .. Len(b) /\ \A k \in 1 .. i : a[k] = b[k]
  BY <1>1 DEF Agree
<1>3. Read(a, i) <=> Read(b, i)  BY <1>2 DEF Read
<1> QED BY <1>2, <1>3 DEF IsFlush, IsMarker

LEMMA AgreeApplies ==
  ASSUME NEW a \in Logs, NEW b \in Logs, NEW n \in Nat, Agree(a, b, n), NEW m \in 0 .. n, NEW t
  PROVE  AppliesTo(a, m, t) <=> AppliesTo(b, m, t)
<1>1. \A i \in 1 .. m : i \in 1 .. n /\ a[i] = b[i]  BY DEF Agree
<1>2. \A i \in 1 .. m : IsFlush(a, i) <=> IsFlush(b, i)  BY <1>1, AgreeReads
<1> QED BY <1>1, <1>2 DEF AppliesTo

LEMMA AppliesMore ==
  ASSUME NEW es, NEW m \in Nat, NEW n \in Nat, m <= n, NEW t, AppliesTo(es, m, t)
  PROVE  AppliesTo(es, n, t)
<1>1. \A i \in 1 .. m : i \in 1 .. n  OBVIOUS
<1> QED BY <1>1 DEF AppliesTo

\* Behind the last flush nothing is applied.
LEMMA AppliesUpTo ==
  ASSUME NEW es \in Logs, NEW n \in 0 .. Len(es), \A f \in n + 1 .. Len(es) : ~IsFlush(es, f), NEW t
  PROVE  Applies(es, t) <=> AppliesTo(es, n, t)
<1>1. Len(es) \in Nat  BY DEF Logs
<1>2. ASSUME Applies(es, t) PROVE AppliesTo(es, n, t)
  <2>1. PICK i, f \in 1 .. Len(es) : /\ IsFlush(es, f) /\ i <= f
                                     /\ es[i].kind = "data" /\ es[i].val = t
    BY <1>2 DEF Applies, AppliesTo
  <2>2. f \in 1 .. n /\ i \in 1 .. n
    <3>1. ~(f \in n + 1 .. Len(es))  BY <2>1
    <3> QED BY <1>1, <2>1, <3>1
  <2> QED BY <2>1, <2>2 DEF AppliesTo
<1>3. ASSUME AppliesTo(es, n, t) PROVE Applies(es, t)
  <2>1. n \in Nat /\ n <= Len(es)  BY <1>1
  <2> QED BY <1>1, <1>3, <2>1, AppliesMore DEF Applies
<1> QED BY <1>2, <1>3

LEMMA AgreeSettled ==
  ASSUME NEW a \in Logs, NEW b \in Logs, NEW n \in Nat, Agree(a, b, n), NEW root,
         Settled(a, n, root), \A f \in n + 1 .. Len(b) : ~IsFlush(b, f)
  PROVE  Settled(b, n, root)
<1>1. n = 0 \/ IsFlush(b, n)
  <2>1. CASE n = 0  BY <2>1
  <2>2. CASE n # 0
    <3>1. n \in 1 .. n  BY <2>2
    <3> QED BY <2>2, <3>1, AgreeReads DEF Settled
  <2> QED BY <2>1, <2>2
<1> QED BY <1>1 DEF Agree, Settled

LEMMA AgreeMarkers ==
  ASSUME NEW a \in Logs, NEW b \in Logs, NEW n \in Nat, Agree(a, b, n), FlushesBetween(a),
         \A i \in n + 1 .. Len(b) : ~IsMarker(b, i)
  PROVE  /\ FlushesBetween(b)
         /\ \A i \in 1 .. Len(b) : IsMarker(b, i) =>
              i \in 1 .. n /\ i \in 1 .. Len(a) /\ IsMarker(a, i) /\ b[i] = a[i]
<1>0. Len(a) \in Nat /\ Len(b) \in Nat  BY DEF Logs
<1>1. ASSUME NEW i \in 1 .. Len(b), IsMarker(b, i)
      PROVE  i \in 1 .. n /\ i \in 1 .. Len(a) /\ IsMarker(a, i) /\ b[i] = a[i]
  <2>1. ~(i \in n + 1 .. Len(b))  BY <1>1
  <2>2. i \in 1 .. n /\ i \in 1 .. Len(a)  BY <1>0, <2>1 DEF Agree
  <2> QED BY <1>1, <2>2, AgreeReads DEF Agree
<1>2. ASSUME NEW i \in 1 .. Len(b), NEW j \in 1 .. Len(b), i < j, IsMarker(b, i), IsMarker(b, j)
      PROVE  \E f \in i .. j : IsFlush(b, f)
  <2>1. PICK f \in i .. j : IsFlush(a, f)  BY <1>1, <1>2 DEF FlushesBetween
  <2>2. f \in 1 .. n  BY <1>1, <1>2
  <2> QED BY <2>1, <2>2, AgreeReads
<1> QED BY <1>1, <1>2 DEF FlushesBetween

\* What is behind n is a header or new.
Added(n, k, new, es) ==
  \A i \in n + 1 .. Len(es) :
    es[i].kind = "version" \/ \E j \in 1 .. Len(new) : i = k + j /\ es[i] = new[j]

LEMMA ExtendsAgree ==
  ASSUME NEW old \in Logs, NEW n, NEW k, NEW new \in Logs, NEW es, Extends(old, n, k, new, es)
  PROVE  /\ es \in Logs /\ n \in Nat /\ Agree(old, es, n)
         /\ Added(n, k, new, es)
<1>1. Len(old) \in Nat /\ Len(new) \in Nat /\ Len(es) \in Nat  BY DEF Logs, Extends
<1>2. /\ n \in Nat /\ n \in 0 .. Len(old) /\ k \in Nat /\ k = (IF n = 0 THEN 1 ELSE n)
      /\ Len(es) = k + Len(new) /\ n \in 0 .. Len(es) /\ es \in Logs
  BY <1>1 DEF Extends
<1>3. ASSUME NEW i \in n + 1 .. Len(es)
      PROVE  es[i].kind = "version" \/ \E j \in 1 .. Len(new) : i = k + j /\ es[i] = new[j]
  <2>1. CASE i <= k
    <3>1. n = 0 /\ i = 1  BY <1>2, <2>1
    <3> QED BY <3>1 DEF Extends
  <2>2. CASE ~(i <= k)
    <3>1. PICK j \in 1 .. Len(new) : i = k + j
      <4>1. i - k \in 1 .. Len(new) /\ i = k + (i - k)  BY <1>1, <1>2, <2>2
      <4> QED BY <4>1
    <3>2. es[k + j] = new[j]  BY DEF Extends
    <3> QED BY <3>1, <3>2
  <2> QED BY <2>1, <2>2
<1> QED BY <1>2, <1>3 DEF Agree, Extends, Added

-----------------------------------------------------------------------------
(* Commits that do not overlap checkpoints *)

LEMMA SafeFacts ==
  ASSUME SafeInv
  PROVE  /\ disk \in [Paths -> Logs] /\ "main" \in Paths /\ "checkpoint" \in Paths
         /\ Main \in Logs /\ Len(Main) \in Nat /\ mem \in Commits
         /\ wal \in Wals /\ wal.size \in Nat /\ wal.synced \in Nat /\ wal.path \in Paths
         /\ SyncedLength \in Nat /\ SyncedLength <= Len(Main)
         /\ wal.path = "main" => disk[wal.path] = Main
<1>1. /\ disk \in [Paths -> Logs] /\ "main" \in Paths /\ "checkpoint" \in Paths
      /\ wal \in Wals /\ mem \in Commits
  BY DEF SafeInv, AbortInv, TypeInv, Paths
<1>2. wal.size \in Nat /\ wal.synced \in Nat /\ wal.path \in Paths  BY <1>1 DEF Wals
<1>3. Main \in Logs /\ Len(Main) \in Nat  BY <1>1 DEF Main, Logs
<1>4. wal.state = "initialized" => wal.synced <= Len(Main)
  <2>1. CASE mode = "running"
    BY <2>1 DEF SafeInv, SerialInv, OpenLogInv
  <2>2. CASE mode # "running"
    BY <2>2 DEF SafeInv, AbortInv, ControlInv, NewWal
  <2> QED BY <2>1, <2>2
<1> QED BY <1>1, <1>2, <1>3, <1>4 DEF SyncedLength, Main

\* A commit that survives a crash now, and that it still does after a step.
Lasting(u) == In(u, file.content) \/ AppliesTo(Main, SyncedLength, u)
Stays == \A u \in Txns : Lasting(u) => Lasting(u)'

LEMMA SafeWriteToWAL ==
  ASSUME SafeInv, NEW t \in Txns, WriteToWAL(t)
  PROVE  SafeInv' /\ Stays
<1> DEFINE new == <<Data(t)>>
<1>0. AbortInv' /\ AbortInv  BY AbortWriteToWAL DEF SafeInv
<1>1. /\ mode = "running" /\ walLock = "free" /\ writer.pc = "idle" /\ ckpt.pc = "idle"
      /\ fate[t] = "new" /\ fate' = [fate EXCEPT ![t] = "committing"]
      /\ writer' = [txn |-> t, pc |-> "written", size |-> wal.size] /\ walLock' = "writer"
      /\ UNCHANGED <<setup, file, mode, replayState, mem, iteration, ckpt>>
  BY <1>0 DEF WriteToWAL, Running, boundVars, AbortInv, ControlInv, Quiet, SafeInv, SerialInv,
              NoWriter, NoCheckpoint
<1>2. /\ wal.path = "main" /\ disk["checkpoint"] = <<>> /\ "checkpoint" \notin files
      /\ ~setup.concurrent
  BY <1>1 DEF SafeInv, SerialInv
<1>f. /\ disk \in [Paths -> Logs] /\ "main" \in Paths /\ "checkpoint" \in Paths
      /\ Main \in Logs /\ Len(Main) \in Nat /\ wal \in Wals /\ wal.size \in Nat
      /\ wal.synced \in Nat /\ SyncedLength \in Nat /\ disk[wal.path] = Main
  BY <1>2, SafeFacts
<1>3. /\ \A p \in Paths \ {"main"} : disk'[p] = disk[p] /\ files' = files \union {"main"}
      /\ wal' = [wal EXCEPT
           !.synced = IF wal.state = "initialized" THEN wal.synced ELSE KeptLength,
           !.size = IF wal.state = "initialized" THEN wal.size ELSE KeptLength,
           !.state = "initialized"]
      /\ \E k \in Nat : Extends(Main, KeptLength, k, new, Main')
  <2>1. new \in Logs /\ WriteEntries(new)  BY EntryTypes DEF WriteToWAL, Logs
  <2>2. TypeInv /\ wal.size <= Len(disk[wal.path])  BY <1>0 DEF AbortInv, ControlInv
  <2>3. files' = files \union {wal.path}  BY <2>1 DEF WriteEntries
  <2> HIDE DEF new
  <2>4. Main' = disk'[wal.path]  BY <1>2 DEF Main
  <2> QED BY <1>2, <1>f, <2>1, <2>2, <2>3, <2>4, WriteEntriesIs
<1>4. PICK k \in Nat : Extends(Main, KeptLength, k, new, Main')  BY <1>3
<1>5. /\ Main' \in Logs /\ KeptLength \in Nat /\ Agree(Main, Main', KeptLength)
      /\ \A i \in KeptLength + 1 .. Len(Main') : Main'[i].kind = "version" \/ Main'[i] = Data(t)
      /\ Len(Main') \in Nat /\ Len(Main') = k + 1 /\ Main'[Len(Main')] = Data(t)
      /\ k \in Nat /\ KeptLength <= Len(Main) /\ KeptLength <= Len(Main')
  <2>1. new \in Logs /\ Len(new) = 1 /\ new[1] = Data(t) /\ \A j \in 1 .. 1 : j = 1
    BY EntryTypes DEF Logs
  <2> HIDE DEF new
  <2>2. /\ Main' \in Logs /\ KeptLength \in Nat /\ Agree(Main, Main', KeptLength)
        /\ Added(KeptLength, k, new, Main')
    <3>1. Main \in Logs /\ new \in Logs /\ Extends(Main, KeptLength, k, new, Main')
      BY <1>4, <1>f, <2>1
    <3> QED BY <3>1, ExtendsAgree
  <2>3. Len(Main') = k + 1 /\ Main'[k + 1] = Data(t)  BY <1>4, <2>1 DEF Extends
  <2>4. Len(Main') \in Nat  BY <2>2 DEF Logs
  <2>5. KeptLength <= Len(Main) /\ KeptLength <= Len(Main')  BY <1>f, <2>2, <2>4 DEF Agree
  <2>6. \A i \in KeptLength + 1 .. Len(Main') : Main'[i].kind = "version" \/ Main'[i] = Data(t)
    BY <2>1, <2>2 DEF Added
  <2> QED BY <2>1, <2>2, <2>3, <2>4, <2>5, <2>6
<1>6. /\ wal.size = KeptLength
      /\ wal.state = "initialized" => wal.synced = KeptLength
      /\ Settled(Main, KeptLength, file.root)
  <2>1. wal.size <= Len(Main)  BY <1>0, <1>f DEF AbortInv, ControlInv
  <2>2. wal.state = "no_wal" => wal.size = 0 /\ Len(Main) = 0
    BY <1>1, <1>2, <1>f, <2>1 DEF SafeInv, OpenLogInv
  <2> QED BY <1>1, <1>2, <1>f, <2>2 DEF SafeInv, OpenLogInv, KeptLength, SettledLength, Wals
<1>7. /\ wal'.path = "main" /\ wal'.state = "initialized" /\ wal'.synced = KeptLength
      /\ writer'.pc = "written" /\ writer'.size = KeptLength /\ writer'.txn = t
      /\ SyncedLength' = KeptLength /\ SettledLength' = KeptLength
  <2>1. wal'.path = "main" /\ wal'.state = "initialized"  BY <1>2, <1>3, <1>f DEF Wals
  <2>2. wal'.synced = KeptLength
    <3>1. wal'.synced = IF wal.state = "initialized" THEN wal.synced ELSE KeptLength
      BY <1>3, <1>f DEF Wals
    <3> QED BY <1>6, <3>1
  <2>3. writer'.pc = "written" /\ writer'.size = KeptLength /\ writer'.txn = t  BY <1>1, <1>6
  <2> QED BY <2>1, <2>2, <2>3 DEF SyncedLength, SettledLength
<1>8. \A f \in KeptLength + 1 .. Len(Main') :
        ~IsFlush(Main', f) /\ ~IsMarker(Main', f) /\ Main'[f].kind # "torn"
  BY <1>5 DEF IsFlush, IsMarker, Data
<1>9. \A u : Applies(Main', u) <=> Applies(Main, u)
  <2>1. \A u : Applies(Main', u) <=> AppliesTo(Main', KeptLength, u)
    <3>1. KeptLength \in 0 .. Len(Main')  BY <1>5
    <3> QED BY <1>5, <1>8, <3>1, AppliesUpTo
  <2>2. \A u : Applies(Main, u) <=> AppliesTo(Main, KeptLength, u)
    BY <1>6, <1>f, AppliesUpTo DEF Settled
  <2>3. KeptLength \in 0 .. KeptLength  BY <1>5
  <2> QED BY <1>5, <1>f, <2>1, <2>2, <2>3, AgreeApplies
<1>s. \A u : AppliesTo(Main, SyncedLength, u) => AppliesTo(Main', KeptLength, u)
  <2> SUFFICES ASSUME NEW u, AppliesTo(Main, SyncedLength, u)
               PROVE  AppliesTo(Main', KeptLength, u)
    OBVIOUS
  <2>1. Applies(Main, u)  BY <1>f, SafeFacts, AppliesMore DEF Applies
  <2>2. Applies(Main', u)  BY <1>9, <2>1
  <2>3. KeptLength \in 0 .. Len(Main')  BY <1>5
  <2> QED BY <1>5, <1>8, <2>2, <2>3, AppliesUpTo
<1>10. SerialInv'
  BY <1>1, <1>2, <1>3, <1>7, <1>f DEF SerialInv, SafeInv
<1>11. OpenLogInv'
  <2>1. Settled(Main', KeptLength, file.root)  BY <1>5, <1>6, <1>8, <1>f, AgreeSettled
  <2>2. Main' # <<>>  BY <1>5
  <2>3. \A i \in 1 .. Len(Main') : i > KeptLength =>
          Main'[i].kind = "version" \/ Main'[i] = Data(t)
    BY <1>5
  <2>4. /\ wal'.state = "initialized" /\ wal'.synced <= Len(Main') /\ walLock' = "writer"
        /\ writer'.pc = "written" /\ writer'.size = wal'.synced /\ writer'.txn = t
        /\ ckpt'.pc = "idle" /\ file'.root = file.root /\ writer'.size = KeptLength
    BY <1>1, <1>5, <1>7
  <2> QED BY <1>5, <1>7, <2>1, <2>2, <2>3, <2>4 DEF OpenLogInv
<1>12. MarkerInv'
  <2>1. /\ FlushesBetween(Main')
        /\ \A i \in 1 .. Len(Main') : IsMarker(Main', i) =>
             /\ i \in 1 .. KeptLength /\ i \in 1 .. Len(Main)
             /\ IsMarker(Main, i) /\ Main'[i] = Main[i]
    BY <1>5, <1>8, <1>f, AgreeMarkers DEF SafeInv, MarkerInv
  <2>2. \A i \in 1 .. KeptLength : Main[i].kind = "marker" => Main[i].val # file.root
    BY <1>6 DEF Settled
  <2> QED BY <1>1, <2>1, <2>2 DEF MarkerInv, IsMarker
<1>13. DurableInv'
  <2>1. \A u \in Txns : fate'[u] = "acked" => fate[u] = "acked"
    BY <1>0, <1>1 DEF AbortInv, TypeInv
  <2> QED BY <1>1, <1>7, <1>9, <1>s, <2>1 DEF DurableInv, SafeInv
<1> QED BY <1>0, <1>1, <1>7, <1>10, <1>11, <1>12, <1>13, <1>s DEF SafeInv, Stays, Lasting
LEMMA SafeCommitAndFlush ==
  ASSUME SafeInv, CommitAndFlush
  PROVE  SafeInv' /\ Stays
<1> DEFINE t == writer.txn
           n == writer.size
<1>0. AbortInv' /\ AbortInv  BY AbortCommitAndFlush DEF SafeInv
<1>1. /\ mode = "running" /\ walLock = "writer" /\ writer.pc = "written" /\ ckpt.pc = "idle"
      /\ writer' = [writer EXCEPT !.pc = "flushed"] /\ t \in Txns /\ fate[t] = "committing"
      /\ mem' = Append(mem, t)
      /\ UNCHANGED <<setup, file, files, mode, replayState, iteration, walLock, ckpt, fate>>
  BY <1>0 DEF CommitAndFlush, Running, boundVars, AbortInv, TypeInv, ControlInv, SafeInv, SerialInv
<1>2. /\ wal.path = "main" /\ disk["checkpoint"] = <<>> /\ "checkpoint" \notin files
      /\ ~setup.concurrent
  BY <1>1 DEF SafeInv, SerialInv
<1>f. /\ disk \in [Paths -> Logs] /\ "main" \in Paths /\ "checkpoint" \in Paths
      /\ Main \in Logs /\ Len(Main) \in Nat /\ wal \in Wals /\ wal.size \in Nat
      /\ wal.synced \in Nat /\ SyncedLength \in Nat /\ disk[wal.path] = Main
  BY <1>2, SafeFacts
<1>3. /\ Main' = Main \o <<Flush>> /\ wal' = [wal EXCEPT !.synced = Len(Main'), !.size = Len(Main')]
      /\ disk'["checkpoint"] = disk["checkpoint"]
  BY <1>2, <1>f DEF CommitAndFlush, Main, Synced
<1>4. /\ Main' \in Logs /\ Len(Main') = Len(Main) + 1 /\ Len(Main') \in Nat
      /\ \A i \in 1 .. Len(Main) : Main'[i] = Main[i]
      /\ Main'[Len(Main')] = Flush /\ Agree(Main, Main', Len(Main))
  <2>1. <<Flush>> \in Logs /\ Len(<<Flush>>) = 1 /\ <<Flush>>[1] = Flush
    BY EntryTypes DEF Logs
  <2>2. /\ Main' \in Logs /\ Len(Main') = Len(Main) + 1
        /\ \A i \in 1 .. Len(Main) : Main'[i] = Main[i] /\ Main'[Len(Main) + 1] = Flush
    BY <1>3, <1>f, <2>1, Concatenated
  <2> QED BY <1>f, <2>1, <2>2, <1>3, Concatenated DEF Agree
<1>5. /\ Settled(Main, n, file.root) /\ n = wal.synced /\ wal.state = "initialized"
      /\ \A i \in 1 .. Len(Main) : i > n => Main[i].kind = "version" \/ Main[i] = Data(t)
      /\ Len(Main) \in 1 .. Len(Main) /\ Main[Len(Main)] = Data(t)
      /\ n \in 0 .. Len(Main) /\ SyncedLength = n
  <2>1. /\ Settled(Main, n, file.root) /\ n = wal.synced /\ wal.state = "initialized"
        /\ \A i \in 1 .. Len(Main) : i > n => Main[i].kind = "version" \/ Main[i] = Data(t)
        /\ Main # <<>> /\ Main[Len(Main)] = Data(t)
    BY <1>1, <1>2 DEF SafeInv, OpenLogInv, SettledLength
  <2>2. Len(Main) # 0  BY <1>f, <2>1 DEF Logs
  <2> QED BY <1>f, <2>1, <2>2 DEF Settled, SyncedLength
<1>6. /\ wal'.path = "main" /\ wal'.state = "initialized" /\ wal'.synced = Len(Main')
      /\ wal'.size = Len(Main') /\ writer'.pc = "flushed" /\ writer'.txn = t
      /\ SyncedLength' = Len(Main') /\ SettledLength' = Len(Main')
  <2>1. /\ wal'.path = "main" /\ wal'.state = "initialized" /\ wal'.synced = Len(Main')
        /\ wal'.size = Len(Main')
    BY <1>2, <1>3, <1>5, <1>f DEF Wals
  <2>2. writer'.pc = "flushed" /\ writer'.txn = t  BY <1>0, <1>1 DEF AbortInv, TypeInv
  <2>3. disk'[wal'.path] = Main'  BY <2>1 DEF Main
  <2> QED BY <2>1, <2>2, <2>3 DEF SyncedLength, SettledLength, KeptLength
<1>7. \A i \in 1 .. Len(Main') : Read(Main', i)
  <2>1. \A i \in 1 .. n : Main[i].kind # "torn"
    <3>1. n = 0 \/ IsFlush(Main, n)  BY <1>5 DEF Settled
    <3> QED BY <1>5, <3>1 DEF IsFlush, Read
  <2>2. \A i \in 1 .. Len(Main) : i <= n \/ i > n  BY <1>5, <1>f
  <2>3. \A i \in 1 .. Len(Main) : Main[i].kind # "torn"  BY <1>5, <1>f, <2>1, <2>2 DEF Data
  <2>4. \A i \in 1 .. Len(Main') : i \in 1 .. Len(Main) \/ i = Len(Main')  BY <1>4, <1>f
  <2>5. \A i \in 1 .. Len(Main') : Main'[i].kind # "torn"  BY <1>4, <2>3, <2>4 DEF Flush
  <2> QED BY <1>4, <2>5 DEF Read
<1>8. IsFlush(Main', Len(Main'))  BY <1>4, <1>f, <1>7 DEF IsFlush, Flush
<1>9. \A i \in 1 .. Len(Main) : Main[i].kind = "marker" => Main[i].val # file.root
  <2>1. \A i \in 1 .. n : Main[i].kind = "marker" => Main[i].val # file.root
    BY <1>5 DEF Settled
  <2>2. \A i \in 1 .. Len(Main) : i \in 1 .. n \/ i > n  BY <1>5, <1>f
  <2> QED BY <1>5, <2>1, <2>2 DEF Data
<1>10. \A u : Applies(Main', u) <=> Applies(Main, u) \/ u = t
  <2>1. ASSUME NEW u, Applies(Main, u) PROVE Applies(Main', u)
    <3>1. AppliesTo(Main', Len(Main), u)
      <4>1. Len(Main) \in 0 .. Len(Main)  BY <1>f
      <4> QED BY <1>4, <1>f, <2>1, <4>1, AgreeApplies DEF Applies
    <3> QED BY <1>4, <1>f, <3>1, AppliesMore DEF Applies
  <2>2. Applies(Main', t)
    <3>1. Main'[Len(Main)] = Data(t) /\ Len(Main) \in 1 .. Len(Main') /\ Len(Main') \in 1 .. Len(Main')
      BY <1>4, <1>5, <1>f
    <3>2. Main'[Len(Main)].kind = "data" /\ Main'[Len(Main)].val = t  BY <3>1 DEF Data
    <3> QED BY <1>4, <1>8, <1>f, <3>1, <3>2 DEF Applies, AppliesTo
  <2>3. ASSUME NEW u, Applies(Main', u), u # t PROVE Applies(Main, u)
    <3>1. PICK i \in 1 .. Len(Main') : Main'[i].kind = "data" /\ Main'[i].val = u
      BY <2>3 DEF Applies, AppliesTo
    <3>2. i \in 1 .. Len(Main) /\ Main[i] = Main'[i]
      <4>1. i # Len(Main')  BY <1>4, <3>1 DEF Flush
      <4> QED BY <1>4, <1>f, <3>1, <4>1
    <3>3. i <= n
      <4>1. Main[i].kind # "version" /\ Main[i] # Data(t)  BY <2>3, <3>1, <3>2 DEF Data
      <4> QED BY <1>5, <1>f, <3>2, <4>1
    <3>4. n # 0 /\ IsFlush(Main, n) /\ n \in 1 .. Len(Main)  BY <1>5, <1>f, <3>2, <3>3 DEF Settled
    <3> QED BY <3>1, <3>2, <3>3, <3>4 DEF Applies, AppliesTo
  <2> QED BY <2>1, <2>2, <2>3
<1>s. \A u : AppliesTo(Main, SyncedLength, u) => AppliesTo(Main', Len(Main'), u)
  <2> SUFFICES ASSUME NEW u, AppliesTo(Main, SyncedLength, u)
               PROVE  AppliesTo(Main', Len(Main'), u)
    OBVIOUS
  <2>1. Applies(Main, u)  BY <1>f, SafeFacts, AppliesMore DEF Applies
  <2> QED BY <1>10, <2>1 DEF Applies
<1>11. SerialInv'  BY <1>1, <1>2, <1>3, <1>6 DEF SerialInv, SafeInv
<1>12. OpenLogInv'
  <2>1. Settled(Main', Len(Main'), file.root)
    <3>1. \A i \in 1 .. Len(Main') : i \in 1 .. Len(Main) \/ i = Len(Main')  BY <1>4, <1>f
    <3>2. \A i \in 1 .. Len(Main') : Main'[i].kind = "marker" => Main'[i].val # file.root
      BY <1>4, <1>9, <3>1 DEF Flush
    <3> QED BY <1>4, <1>8, <3>2 DEF Settled
  <2> QED BY <1>1, <1>4, <1>6, <2>1 DEF OpenLogInv
<1>13. MarkerInv'
  <2>1. \A i \in Len(Main) + 1 .. Len(Main') : ~IsMarker(Main', i)
    <3>1. \A i \in Len(Main) + 1 .. Len(Main') : i = Len(Main')  BY <1>4, <1>f
    <3> QED BY <1>4, <3>1 DEF IsMarker, Flush
  <2>2. FlushesBetween(Main')
        /\ \A i \in 1 .. Len(Main') : IsMarker(Main', i) => Main'[i].val # file.root
    <3>1. FlushesBetween(Main)  BY DEF SafeInv, MarkerInv
    <3>2. /\ FlushesBetween(Main')
          /\ \A i \in 1 .. Len(Main') : IsMarker(Main', i) =>
               i \in 1 .. Len(Main) /\ IsMarker(Main, i) /\ Main'[i] = Main[i]
      BY <1>4, <1>f, <2>1, <3>1, AgreeMarkers
    <3> QED BY <1>9, <3>2 DEF IsMarker
  <2> QED BY <1>1, <2>2 DEF MarkerInv
<1>14. DurableInv'
  <2>1. mem \in Commits /\ \A u : In(u, mem') <=> In(u, mem) \/ u = t
    BY <1>0, <1>1, Appended DEF AbortInv, TypeInv
  <2>2. AppliesTo(Main', Len(Main'), t)  BY <1>10 DEF Applies
  <2> QED BY <1>1, <1>6, <1>10, <1>s, <2>1, <2>2 DEF DurableInv, SafeInv
<1> QED BY <1>0, <1>1, <1>6, <1>11, <1>12, <1>13, <1>14, <1>s DEF SafeInv, Stays, Lasting

LEMMA SafeAcknowledge ==
  ASSUME SafeInv, Acknowledge
  PROVE  SafeInv' /\ Stays
<1>0. AbortInv' /\ AbortInv  BY AbortQuietSteps DEF SafeInv
<1>1. /\ mode = "running" /\ walLock = "writer" /\ writer.pc = "flushed" /\ ckpt.pc = "idle"
      /\ writer'.pc = "idle" /\ walLock' = "free"
      /\ fate' = [fate EXCEPT ![writer.txn] = "acked"] /\ writer.txn \in Txns
      /\ UNCHANGED <<setup, file, files, disk, mode, replayState, mem, iteration, wal, ckpt>>
  BY <1>0 DEF Acknowledge, Running, boundVars, diskVars, AbortInv, TypeInv, ControlInv, NoWriter,
              SafeInv, SerialInv
<1>2. wal.path = "main" /\ wal.state = "initialized" /\ wal.synced = Len(Main) /\ wal.size = Len(Main)
      /\ Settled(Main, Len(Main), file.root)
  <2>1. wal.path = "main"  BY <1>1 DEF SafeInv, SerialInv
  <2>2. disk[wal.path] = Main  BY <2>1 DEF Main
  <2> QED BY <1>1, <2>1, <2>2 DEF SafeInv, OpenLogInv, SettledLength, KeptLength
<1>3. /\ Main' = Main /\ SyncedLength' = SyncedLength /\ SyncedLength = Len(Main)
      /\ SettledLength' = Len(Main) /\ KeptLength' = KeptLength
  <2>1. disk[wal.path] = Main  BY <1>2 DEF Main
  <2> QED BY <1>1, <1>2, <2>1 DEF Main, SyncedLength, SettledLength, KeptLength
<1>4. SerialInv'  BY <1>1 DEF SerialInv, SafeInv
<1>5. OpenLogInv'  BY <1>1, <1>2, <1>3 DEF OpenLogInv, SafeInv
<1>6. MarkerInv'
  <2>1. \A i \in 1 .. Len(Main) : IsMarker(Main, i) => Main[i].val # file.root
    BY <1>2 DEF Settled, IsMarker
  <2> QED BY <1>1, <1>3, <2>1 DEF MarkerInv, SafeInv
<1>7. DurableInv'
  <2>1. \A u \in Txns : fate'[u] = "acked" => fate[u] = "acked" \/ u = writer.txn
    BY <1>0, <1>1 DEF AbortInv, TypeInv
  <2> QED BY <1>1, <1>3, <2>1 DEF DurableInv, SafeInv
<1> QED BY <1>0, <1>1, <1>3, <1>4, <1>5, <1>6, <1>7 DEF SafeInv, Stays, Lasting
LEMMA SafeRevertCommit ==
  ASSUME SafeInv, RevertCommit
  PROVE  SafeInv' /\ Stays
<1> DEFINE t == writer.txn
           n == writer.size
<1>0. AbortInv' /\ AbortInv  BY AbortRevertCommit DEF SafeInv
<1>1. /\ mode = "running" /\ walLock = "writer" /\ writer.pc = "written" /\ ckpt.pc = "idle"
      /\ writer'.pc = "idle" /\ walLock' = "free" /\ t \in Txns
      /\ fate' = [fate EXCEPT ![t] = "aborted"]
      /\ UNCHANGED <<setup, file, files, mode, replayState, mem, iteration, ckpt>>
  BY <1>0 DEF RevertCommit, Running, boundVars, AbortInv, TypeInv, ControlInv, NoWriter,
              SafeInv, SerialInv
<1>2. /\ wal.path = "main" /\ disk["checkpoint"] = <<>> /\ "checkpoint" \notin files
      /\ ~setup.concurrent
  BY <1>1 DEF SafeInv, SerialInv
<1>f. /\ disk \in [Paths -> Logs] /\ "main" \in Paths /\ "checkpoint" \in Paths
      /\ Main \in Logs /\ Len(Main) \in Nat /\ wal \in Wals /\ wal.size \in Nat
      /\ wal.synced \in Nat /\ SyncedLength \in Nat /\ disk[wal.path] = Main
  BY <1>2, SafeFacts
<1>3. /\ Settled(Main, n, file.root) /\ n = wal.synced /\ wal.state = "initialized"
      /\ n \in 0 .. Len(Main) /\ n \in Nat /\ SyncedLength = n
  <2>1. Settled(Main, n, file.root) /\ n = wal.synced /\ wal.state = "initialized"
    BY <1>1, <1>2 DEF SafeInv, OpenLogInv, SettledLength
  <2> QED BY <1>f, <2>1 DEF Settled, SyncedLength
<1>4. /\ Main' = SubSeq(Main, 1, n) /\ disk'["checkpoint"] = disk["checkpoint"]
      /\ wal' = [wal EXCEPT !.size = Len(Main'), !.synced = Min({wal.synced, Len(Main')})]
  BY <1>2, <1>f DEF RevertCommit, Main
<1>5. /\ Main' \in Logs /\ Len(Main') = n /\ Agree(Main, Main', n)
  <2>1. /\ SubSeq(Main, 1, n) \in Logs /\ Len(SubSeq(Main, 1, n)) = n
        /\ \A i \in 1 .. n : SubSeq(Main, 1, n)[i] = Main[i]
    BY <1>3, <1>f, Prefix DEF Logs
  <2> QED BY <1>3, <1>4, <2>1 DEF Agree
<1>6. /\ wal'.path = "main" /\ wal'.state = "initialized" /\ wal'.synced = n /\ wal'.size = n
      /\ SyncedLength' = n /\ SettledLength' = n
  <2>1. Min({wal.synced, Len(Main')}) = n
    <3>1. {n} \subseteq Nat /\ {n} # {} /\ {wal.synced, Len(Main')} = {n}  BY <1>3, <1>5
    <3>2. Min({n}) \in {n}  BY <3>1, MinIs
    <3> QED BY <3>1, <3>2
  <2>2. /\ wal'.path = "main" /\ wal'.state = "initialized" /\ wal'.synced = n /\ wal'.size = n
    BY <1>2, <1>3, <1>4, <1>5, <1>f, <2>1 DEF Wals
  <2>3. disk'[wal'.path] = Main'  BY <2>2 DEF Main
  <2> QED BY <1>1, <1>5, <2>2, <2>3 DEF SyncedLength, SettledLength, KeptLength
<1>7. \A i \in n + 1 .. Len(Main') : ~IsFlush(Main', i) /\ ~IsMarker(Main', i)  BY <1>3, <1>5
<1>8. \A u : Applies(Main', u) <=> AppliesTo(Main, n, u)
  <2>1. n \in 0 .. n  BY <1>3
  <2> QED BY <1>3, <1>5, <1>f, <2>1, AgreeApplies DEF Applies
<1>s. \A u : AppliesTo(Main, n, u) => AppliesTo(Main', n, u)  BY <1>5, <1>8 DEF Applies
<1>9. SerialInv'  BY <1>1, <1>2, <1>4, <1>6 DEF SerialInv, SafeInv
<1>10. OpenLogInv'
  <2>1. Settled(Main', n, file.root)  BY <1>3, <1>5, <1>7, <1>f, AgreeSettled
  <2> QED BY <1>1, <1>3, <1>5, <1>6, <2>1 DEF OpenLogInv
<1>11. MarkerInv'
  <2>1. FlushesBetween(Main)  BY DEF SafeInv, MarkerInv
  <2>2. /\ FlushesBetween(Main')
        /\ \A i \in 1 .. Len(Main') : IsMarker(Main', i) =>
               i \in 1 .. n /\ IsMarker(Main, i) /\ Main'[i] = Main[i]
    BY <1>3, <1>5, <1>7, <1>f, <2>1, AgreeMarkers
  <2>3. \A i \in 1 .. Len(Main') : IsMarker(Main', i) => Main'[i].val # file.root
    BY <1>3, <2>2 DEF Settled, IsMarker
  <2> QED BY <1>1, <2>2, <2>3 DEF MarkerInv
<1>12. DurableInv'
  <2>1. \A u \in Txns : fate'[u] = "acked" => fate[u] = "acked"
    BY <1>0, <1>1 DEF AbortInv, TypeInv
  <2>2. \A u : AppliesTo(Main, n, u) => Applies(Main, u)
    BY <1>3, <1>f, AppliesMore DEF Applies
  <2> QED BY <1>1, <1>3, <1>6, <1>8, <1>s, <2>1, <2>2 DEF DurableInv, SafeInv
<1> QED BY <1>0, <1>1, <1>3, <1>6, <1>9, <1>10, <1>11, <1>12, <1>s DEF SafeInv, Stays, Lasting

LEMMA SafeStartsCheckpoint ==
  ASSUME SafeInv, Checkpoint \/ \E t \in Txns : CommitByCheckpoint(t)
  PROVE  SafeInv' /\ Stays
<1>0. AbortInv' /\ AbortInv  BY AbortQuietSteps, AbortCommitByCheckpoint DEF SafeInv
<1>1. /\ mode = "running" /\ writer.pc = "idle" /\ ckpt.pc = "idle" /\ ckpt'.pc = "start"
      /\ UNCHANGED <<setup, file, files, disk, mode, replayState, iteration, wal, walLock, writer>>
      /\ \/ UNCHANGED <<mem, fate>> /\ ckpt'.txn = None
         \/ \E t \in Txns : /\ ckpt'.txn = t /\ mem' = Append(mem, t)
                            /\ fate' = [fate EXCEPT ![t] = "committing"]
  <2>0. ~setup.concurrent  BY DEF SafeInv, SerialInv
  <2>1. writer = NoWriter /\ ckpt = NoCheckpoint /\ mode = "running"
    BY <2>0 DEF Checkpoint, CommitByCheckpoint, Running, Quiet
  <2>2. writer.pc = "idle" /\ ckpt.pc = "idle"  BY <2>1 DEF NoWriter, NoCheckpoint
  <2>3. CASE Checkpoint
    <3>1. ckpt' = [NoCheckpoint EXCEPT !.pc = "start"]
          /\ UNCHANGED <<setup, file, files, disk, mode, replayState, mem, iteration, wal, walLock,
                         writer, fate>>
      BY <2>3 DEF Checkpoint, diskVars
    <3>2. ckpt'.pc = "start" /\ ckpt'.txn = None  BY <3>1 DEF NoCheckpoint
    <3> QED BY <2>1, <2>2, <3>1, <3>2
  <2>4. ASSUME NEW t \in Txns, CommitByCheckpoint(t) PROVE  /\ mode = "running" /\ writer.pc = "idle" /\ ckpt.pc = "idle" /\ ckpt'.pc = "start"
               /\ UNCHANGED <<setup, file, files, disk, mode, replayState, iteration, wal, walLock,
                              writer>>
               /\ ckpt'.txn = t /\ mem' = Append(mem, t)
               /\ fate' = [fate EXCEPT ![t] = "committing"]
    <3>1. ckpt' = [NoCheckpoint EXCEPT !.pc = "start", !.txn = t]
          /\ mem' = Append(mem, t) /\ fate' = [fate EXCEPT ![t] = "committing"]
          /\ UNCHANGED <<setup, file, files, disk, mode, replayState, iteration, wal, walLock, writer>>
      BY <2>4 DEF CommitByCheckpoint, diskVars
    <3>2. ckpt'.pc = "start" /\ ckpt'.txn = t  BY <3>1 DEF NoCheckpoint
    <3> QED BY <2>1, <2>2, <3>1, <3>2
  <2> QED BY <2>3, <2>4
<1>2. /\ Main' = Main /\ SyncedLength' = SyncedLength /\ SettledLength' = SettledLength
      /\ KeptLength' = KeptLength
  BY <1>1 DEF Main, SyncedLength, SettledLength, KeptLength
<1>3. \A u \in Txns : fate'[u] = "acked" => fate[u] = "acked"
  BY <1>0, <1>1 DEF AbortInv, TypeInv
<1>4. SerialInv'  BY <1>1 DEF SerialInv, SafeInv
<1>5. OpenLogInv'  BY <1>1, <1>2 DEF OpenLogInv, SafeInv
<1>6. MarkerInv'  BY <1>1, <1>2, <1>3 DEF MarkerInv, SafeInv
<1>7. DurableInv'
  <2>1. (\A u : In(u, mem) => In(u, mem')) /\ (ckpt'.txn # None => In(ckpt'.txn, mem'))
    <3>1. mem \in Commits  BY <1>0 DEF AbortInv, TypeInv
    <3>2. CASE UNCHANGED <<mem, fate>> /\ ckpt'.txn = None  BY <3>2
    <3>3. ASSUME NEW t \in Txns, ckpt'.txn = t, mem' = Append(mem, t)
          PROVE  (\A u : In(u, mem) => In(u, mem')) /\ In(ckpt'.txn, mem')
      BY <3>1, <3>3, Appended
    <3> QED BY <1>1, <3>2, <3>3
  <2> QED BY <1>1, <1>2, <1>3, <2>1 DEF DurableInv, SafeInv
<1> QED BY <1>0, <1>1, <1>2, <1>4, <1>5, <1>6, <1>7 DEF SafeInv, Stays, Lasting

LEMMA SafeWALStartCheckpoint ==
  ASSUME SafeInv, WALStartCheckpoint
  PROVE  SafeInv' /\ Stays
<1>0. AbortInv' /\ AbortInv  BY AbortWALStartCheckpoint DEF SafeInv
<1>1. PICK r \in Roots \ {file.root} :
        ckpt' = [ckpt EXCEPT !.root = r, !.content = mem, !.hasWal = wal.size > 0,
                             !.pc = IF wal.size > 0 THEN "marked" ELSE "blocks"]
  BY DEF WALStartCheckpoint
<1>2. /\ mode = "running" /\ ckpt.pc = "start" /\ walLock = "free" /\ writer.pc = "idle"
      /\ UNCHANGED <<setup, file, mode, replayState, mem, iteration, writer, fate>>
  BY <1>0 DEF WALStartCheckpoint, Running, boundVars, AbortInv, ControlInv
<1>3. /\ wal.path = "main" /\ disk["checkpoint"] = <<>> /\ "checkpoint" \notin files
      /\ ~setup.concurrent
  BY <1>2 DEF SafeInv, SerialInv
<1>f. /\ disk \in [Paths -> Logs] /\ "main" \in Paths /\ "checkpoint" \in Paths
      /\ Main \in Logs /\ Len(Main) \in Nat /\ wal \in Wals /\ wal.size \in Nat
      /\ wal.synced \in Nat /\ SyncedLength \in Nat /\ SyncedLength <= Len(Main)
      /\ disk[wal.path] = Main /\ wal.size <= Len(Main)
  BY <1>0, <1>3, SafeFacts DEF AbortInv, ControlInv
<1>4. /\ wal.size = KeptLength /\ Settled(Main, KeptLength, file.root)
      /\ wal.state = "initialized" => wal.synced = KeptLength
  <2>1. wal.state = "no_wal" => wal.size = 0 /\ Len(Main) = 0
    BY <1>2, <1>3, <1>f DEF SafeInv, OpenLogInv
  <2> QED BY <1>2, <1>3, <1>f, <2>1 DEF SafeInv, OpenLogInv, KeptLength, SettledLength, Wals
<1>5. CASE wal.size > 0
  <2> DEFINE new == <<Marker(r), Flush>>
             n == KeptLength
  <2>1. /\ ckpt'.root = r /\ ckpt'.content = mem /\ ckpt'.txn = ckpt.txn /\ ckpt'.pc = "marked"
        /\ ckpt'.hasWal /\ r \in Nat /\ r # file.root
    <3>1. r \in Nat  BY RootsAssumption
    <3>2. ckpt \in Checkpoints  BY <1>0 DEF AbortInv, TypeInv
    <3> QED BY <1>1, <1>5, <3>1, <3>2 DEF Checkpoints
  <2>2. /\ new \in Logs /\ Len(new) = 2 /\ new[1] = Marker(r) /\ new[2] = Flush
        /\ \A j \in 1 .. 2 : j = 1 \/ j = 2
    BY <2>1, EntryTypes DEF Logs
  <2>3. WriteEntries(new) /\ walLock' = "checkpoint"  BY <1>5, <2>1 DEF WALStartCheckpoint
  <2> HIDE DEF new
  <2>4. /\ \A p \in Paths \ {"main"} : disk'[p] = disk[p] /\ files' = files \union {"main"}
        /\ wal' = [wal EXCEPT
             !.synced = IF wal.state = "initialized" THEN wal.synced ELSE KeptLength,
             !.size = IF wal.state = "initialized" THEN wal.size ELSE KeptLength,
             !.state = "initialized"]
        /\ \E k \in Nat : Extends(Main, KeptLength, k, new, Main')
    <3>1. TypeInv /\ wal.size <= Len(disk[wal.path])  BY <1>0 DEF AbortInv, ControlInv
    <3>2. files' = files \union {wal.path}  BY <2>3 DEF WriteEntries
    <3>3. Main' = disk'[wal.path]  BY <1>3 DEF Main
    <3> QED BY <1>3, <1>f, <2>2, <2>3, <3>1, <3>2, <3>3, WriteEntriesIs
  <2>5. PICK k \in Nat : Extends(Main, n, k, new, Main')  BY <2>4
  <2>6. /\ Main' \in Logs /\ n \in Nat /\ Agree(Main, Main', n) /\ Added(n, k, new, Main')
    <3>1. Main \in Logs /\ new \in Logs /\ Extends(Main, KeptLength, k, new, Main')
      BY <1>f, <2>2, <2>5
    <3> QED BY <3>1, ExtendsAgree
  <2>7. /\ n > 0 /\ k = n /\ Len(Main') = n + 2 /\ Len(Main') \in Nat
        /\ Main'[n + 1] = Marker(r) /\ Main'[n + 2] = Flush
        /\ n <= Len(Main) /\ n \in 0 .. Len(Main') /\ n \in 0 .. Len(Main)
        /\ \A i \in 1 .. Len(Main') : i \in 1 .. n \/ i = n + 1 \/ i = n + 2
    <3>1. n > 0 /\ k = n  BY <1>4, <1>5, <2>5, <2>6 DEF Extends
    <3>2. Len(Main') = n + 2 /\ Main'[n + 1] = Marker(r) /\ Main'[n + 2] = Flush
      BY <2>2, <2>5, <3>1 DEF Extends
    <3>3. n <= Len(Main)  BY <1>f, <2>6 DEF Agree
    <3> HIDE DEF n
    <3> QED BY <1>f, <2>6, <3>1, <3>2, <3>3
  <2>8. /\ wal'.path = "main" /\ wal'.state = "initialized" /\ wal'.synced = n
        /\ SyncedLength' = n /\ KeptLength' = Len(Main') /\ SettledLength' = Len(Main')
    <3>1. wal'.path = "main" /\ wal'.state = "initialized"  BY <1>3, <1>f, <2>4 DEF Wals
    <3>2. wal'.synced = n
      <4>1. wal'.synced = IF wal.state = "initialized" THEN wal.synced ELSE KeptLength
        BY <1>f, <2>4 DEF Wals
      <4> QED BY <1>4, <4>1
    <3>3. disk'[wal'.path] = Main'  BY <3>1 DEF Main
    <3> QED BY <1>2, <3>1, <3>2, <3>3 DEF SyncedLength, SettledLength, KeptLength
  <2> HIDE DEF n
  <2>9. \A i \in 1 .. Len(Main') : Read(Main', i)
    <3>1. IsFlush(Main, n)  BY <1>4, <2>7 DEF Settled, n
    <3>2. \A i \in 1 .. n : Main[i].kind # "torn"  BY <3>1 DEF IsFlush, Read
    <3>3. \A i \in 1 .. Len(Main') : Main'[i].kind # "torn"
      BY <2>6, <2>7, <3>2 DEF Agree, Marker, Flush
    <3> QED BY <2>7, <3>3 DEF Read
  <2>10. IsFlush(Main', n + 2) /\ IsMarker(Main', n + 1) /\ ~IsMarker(Main', n + 2)
         /\ ~IsFlush(Main', n + 1) /\ n + 1 \in 1 .. Len(Main') /\ n + 2 \in 1 .. Len(Main')
         /\ IsFlush(Main, n) /\ IsFlush(Main', n)
    <3>1. n + 1 \in 1 .. Len(Main') /\ n + 2 \in 1 .. Len(Main') /\ n \in 1 .. n
      BY <2>6, <2>7
    <3>2. IsFlush(Main, n)  BY <1>4, <2>7 DEF Settled, n
    <3>3. IsFlush(Main', n)  BY <1>f, <2>6, <3>1, <3>2, AgreeReads
    <3> QED BY <2>7, <2>9, <3>1, <3>2, <3>3 DEF IsFlush, IsMarker, Marker, Flush
  <2>11. \A i \in 1 .. n : Main'[i] = Main[i] /\ (Main[i].kind = "marker" => Main[i].val # file.root)
    BY <1>4, <2>6 DEF Settled, Agree, n
  <2>12. \A u : Applies(Main', u) <=> Applies(Main, u)
    <3>1. \A u : Applies(Main, u) <=> AppliesTo(Main, n, u)
      BY <1>4, <1>f, <2>7, AppliesUpTo DEF Settled, n
    <3>2. \A u : AppliesTo(Main, n, u) <=> AppliesTo(Main', n, u)
      <4>1. n \in 0 .. n  BY <2>6
      <4> QED BY <1>f, <2>6, <4>1, AgreeApplies
    <3>3. \A u : AppliesTo(Main', n, u) => Applies(Main', u)
      <4>1. n <= Len(Main')  BY <2>6, <2>7
      <4> QED BY <2>6, <2>7, <4>1, AppliesMore DEF Applies
    <3>4. ASSUME NEW u, Applies(Main', u) PROVE AppliesTo(Main', n, u)
      <4>1. PICK i \in 1 .. Len(Main') : Main'[i].kind = "data" /\ Main'[i].val = u
        BY <3>4 DEF Applies, AppliesTo
      <4>2. i \in 1 .. n  BY <2>7, <4>1 DEF Marker, Flush
      <4>3. n \in 1 .. n /\ i <= n  BY <2>6, <2>7, <4>2
      <4> QED BY <2>10, <4>1, <4>2, <4>3 DEF AppliesTo
    <3> QED BY <3>1, <3>2, <3>3, <3>4
  <2>s. \A u : AppliesTo(Main, SyncedLength, u) => AppliesTo(Main', n, u)
    <3> SUFFICES ASSUME NEW u, AppliesTo(Main, SyncedLength, u) PROVE AppliesTo(Main', n, u)
      OBVIOUS
    <3>1. Applies(Main, u)  BY <1>f, AppliesMore DEF Applies
    <3>2. AppliesTo(Main, n, u)  BY <1>4, <1>f, <2>7, <3>1, AppliesUpTo DEF Settled, n
    <3>3. n \in 0 .. n  BY <2>6
    <3> QED BY <1>f, <2>6, <3>2, <3>3, AgreeApplies
  <2>13. SerialInv'
    BY <1>2, <1>3, <1>f, <2>1, <2>4, <2>8 DEF SerialInv, SafeInv
  <2>14. OpenLogInv'
    <3>1. \A i \in 1 .. Len(Main') : Main'[i].kind = "marker" => Main'[i].val # file.root
      BY <2>1, <2>7, <2>11 DEF Marker, Flush
    <3>2. Settled(Main', Len(Main'), file.root)
      <4>1. IsFlush(Main', Len(Main')) /\ Len(Main') \in 0 .. Len(Main')  BY <2>7, <2>10
      <4> QED BY <2>7, <3>1, <4>1 DEF Settled
    <3>3. wal'.synced <= Len(Main')  BY <2>6, <2>7, <2>8
    <3> QED BY <1>2, <2>1, <2>3, <2>7, <2>8, <3>2, <3>3 DEF OpenLogInv
  <2>15. MarkerInv'
    <3>0. FlushesBetween(Main)  BY DEF SafeInv, MarkerInv
    <3>1. LastMarker(Main', r)
      <4>1. \A j \in 1 .. Len(Main') : IsMarker(Main', j) => j <= n + 1  BY <2>6, <2>7, <2>10
      <4>2. Main'[n + 1].val = r  BY <2>7 DEF Marker
      <4> QED BY <2>10, <4>1, <4>2 DEF LastMarker
    <3>2. FlushesBetween(Main')
      <4> SUFFICES ASSUME NEW i \in 1 .. Len(Main'), NEW j \in 1 .. Len(Main'), i < j,
                          IsMarker(Main', i), IsMarker(Main', j)
                   PROVE  \E f \in i .. j : IsFlush(Main', f)
        BY DEF FlushesBetween
      <4>1. i \in 1 .. n /\ (j \in 1 .. n \/ j = n + 1)  BY <2>6, <2>7, <2>10
      <4>2. CASE j = n + 1
        <5>1. n \in i .. j  BY <2>6, <4>1, <4>2
        <5> QED BY <2>10, <5>1
      <4>3. CASE j \in 1 .. n
        <5>1. IsMarker(Main, i) /\ IsMarker(Main, j) /\ i \in 1 .. Len(Main) /\ j \in 1 .. Len(Main)
          <6>1. i \in 1 .. Len(Main) /\ j \in 1 .. Len(Main)  BY <1>f, <2>7, <4>1, <4>3
          <6> QED BY <1>f, <2>6, <4>1, <4>3, <6>1, AgreeReads
        <5>2. PICK f \in i .. j : IsFlush(Main, f)  BY <3>0, <5>1 DEF FlushesBetween
        <5>3. f \in 1 .. n  BY <2>6, <4>1, <4>3
        <5>4. IsFlush(Main', f)  BY <1>f, <2>6, <5>2, <5>3, AgreeReads
        <5> QED BY <5>4
      <4> QED BY <4>1, <4>2, <4>3
    <3>3. \A i \in 1 .. Len(Main') : IsMarker(Main', i) => Main'[i].val # file.root
      BY <2>1, <2>7, <2>11 DEF Marker, Flush, IsMarker
    <3> QED BY <1>2, <2>1, <3>1, <3>2, <3>3 DEF MarkerInv
  <2>16. DurableInv'
    BY <1>2, <2>1, <2>8, <2>12, <2>s DEF DurableInv, SafeInv
  <2> QED BY <1>0, <1>2, <2>8, <2>13, <2>14, <2>15, <2>16, <2>s DEF SafeInv, Stays, Lasting
<1>6. CASE ~(wal.size > 0)
  <2>1. UNCHANGED <<disk, files, wal, walLock>>  BY <1>6 DEF WALStartCheckpoint
  <2>2. /\ ckpt'.content = mem /\ ckpt'.txn = ckpt.txn /\ ckpt'.pc = "blocks" /\ ~ckpt'.hasWal
    <3>1. ckpt \in Checkpoints  BY <1>0 DEF AbortInv, TypeInv
    <3> QED BY <1>1, <1>6, <3>1 DEF Checkpoints
  <2>3. /\ Main' = Main /\ SyncedLength' = SyncedLength /\ SettledLength' = SettledLength
        /\ KeptLength' = KeptLength
    BY <1>2, <2>1 DEF Main, SyncedLength, SettledLength, KeptLength
  <2>4. KeptLength = 0  BY <1>4, <1>6, <1>f
  <2>5. SerialInv'  BY <1>2, <1>3, <2>1, <2>2 DEF SerialInv, SafeInv
  <2>6. OpenLogInv'  BY <1>2, <1>3, <2>1, <2>2, <2>3, <2>4 DEF OpenLogInv, SafeInv
  <2>7. MarkerInv'  BY <1>2, <2>2, <2>3 DEF MarkerInv, SafeInv
  <2>8. DurableInv'  BY <1>2, <2>2, <2>3 DEF DurableInv, SafeInv
  <2> QED BY <1>0, <1>2, <2>3, <2>5, <2>6, <2>7, <2>8 DEF SafeInv, Stays, Lasting
<1> QED BY <1>5, <1>6
\* With the WAL lock free the whole main log is settled.
LEMMA FreeLog ==
  ASSUME SafeInv, mode = "running", writer.pc = "idle", wal.path = "main"
  PROVE  SettledLength = KeptLength /\ Settled(Main, KeptLength, file.root)
BY DEF SafeInv, OpenLogInv, SettledLength

\* What would survive a crash is in memory while the database is open.
LEMMA LastingInMemory ==
  ASSUME SafeInv, mode = "running", NEW t \in Txns, Lasting(t)
  PROVE  In(t, mem)
<1>1. AppliesTo(Main, SyncedLength, t) => Applies(Main, t)
  BY SafeFacts, AppliesMore DEF Applies
<1> QED BY <1>1 DEF SafeInv, DurableInv, Lasting

LEMMA SafeWALSwitch ==
  ASSUME SafeInv, WALSwitch
  PROVE  SafeInv' /\ Stays
<1>0. AbortInv' /\ AbortInv  BY AbortWALSwitch DEF SafeInv
<1>1. /\ mode = "running" /\ ckpt.pc = "marked" /\ ckpt' = [ckpt EXCEPT !.pc = "blocks"]
      /\ files' = files \ {"checkpoint"} /\ disk' = [disk EXCEPT !["checkpoint"] = <<>>]
      /\ wal' = NewWal("checkpoint", 0, "no_wal", iteration + 1) /\ walLock' = "free"
      /\ UNCHANGED <<setup, file, mode, replayState, mem, iteration, writer, fate>>
  BY DEF WALSwitch, Running, boundVars
<1>2. /\ ckpt'.pc = "blocks" /\ ckpt'.root = ckpt.root /\ ckpt'.content = ckpt.content
      /\ ckpt'.txn = ckpt.txn /\ ckpt'.hasWal = ckpt.hasWal
  <2>1. ckpt \in Checkpoints  BY <1>0 DEF AbortInv, TypeInv
  <2> QED BY <1>1, <2>1 DEF Checkpoints
<1>3. writer.pc = "idle" /\ ckpt.hasWal  BY <1>1 DEF SafeInv, SerialInv
<1>4. /\ wal'.path = "checkpoint" /\ wal'.state = "no_wal"
      /\ Main' = Main /\ disk'["checkpoint"] = <<>> /\ SyncedLength' = Len(Main)
  BY <1>1, SafeFacts DEF NewWal, Main, SyncedLength
<1>5. SerialInv'  BY <1>1, <1>2, <1>3, <1>4 DEF SerialInv, SafeInv
<1>6. OpenLogInv'  BY <1>4 DEF OpenLogInv
<1>7. MarkerInv'  BY <1>1, <1>2, <1>3, <1>4 DEF MarkerInv, SafeInv
<1>s. \A u : AppliesTo(Main, SyncedLength, u) => AppliesTo(Main, Len(Main), u)
  BY SafeFacts, AppliesMore
<1>8. DurableInv'  BY <1>1, <1>2, <1>3, <1>4, <1>s DEF DurableInv, SafeInv
<1> QED BY <1>0, <1>1, <1>4, <1>5, <1>6, <1>7, <1>8, <1>s DEF SafeInv, Stays, Lasting

LEMMA SafeNextIteration ==
  ASSUME SafeInv, NextIteration
  PROVE  SafeInv' /\ Stays
<1>0. AbortInv' /\ AbortInv  BY AbortQuietSteps DEF SafeInv
<1>1. /\ mode = "running" /\ ckpt.pc = "blocks" /\ ckpt' = [ckpt EXCEPT !.pc = "header"]
      /\ UNCHANGED <<setup, file, files, disk, mode, replayState, mem, wal, walLock, writer, fate>>
  BY DEF NextIteration, Running, boundVars, diskVars
<1>2. /\ ckpt'.pc = "header" /\ ckpt'.root = ckpt.root /\ ckpt'.content = ckpt.content
      /\ ckpt'.txn = ckpt.txn /\ ckpt'.hasWal = ckpt.hasWal
  <2>1. ckpt \in Checkpoints  BY <1>0 DEF AbortInv, TypeInv
  <2> QED BY <1>1, <2>1 DEF Checkpoints
<1>3. /\ Main' = Main /\ SyncedLength' = SyncedLength /\ SettledLength' = SettledLength
      /\ KeptLength' = KeptLength
  BY <1>1 DEF Main, SyncedLength, SettledLength, KeptLength
<1>4. SerialInv'  BY <1>1, <1>2 DEF SerialInv, SafeInv
<1>5. OpenLogInv'  BY <1>1, <1>2, <1>3 DEF OpenLogInv, SafeInv
<1>6. MarkerInv'  BY <1>1, <1>2, <1>3 DEF MarkerInv, SafeInv
<1>7. DurableInv'  BY <1>1, <1>2, <1>3 DEF DurableInv, SafeInv
<1> QED BY <1>0, <1>1, <1>3, <1>4, <1>5, <1>6, <1>7 DEF SafeInv, Stays, Lasting

\* The header is what makes the blocks the database: from here on the last
\* marker in the main log, if the log had anything committed, is the file's.
LEMMA SafeWriteHeader ==
  ASSUME SafeInv, WriteHeader
  PROVE  SafeInv' /\ Stays
<1>0. AbortInv' /\ AbortInv  BY AbortQuietSteps DEF SafeInv
<1>1. /\ mode = "running" /\ ckpt.pc = "header"
      /\ file' = [iter |-> iteration, root |-> ckpt.root, content |-> ckpt.content]
      /\ ckpt' = [ckpt EXCEPT !.pc = IF ckpt.hasWal THEN "finish" ELSE "done"]
      /\ UNCHANGED <<setup, files, disk, mode, replayState, mem, iteration, wal, walLock, writer,
                     fate>>
  BY DEF WriteHeader, Running, boundVars
<1>2. /\ ckpt'.pc = (IF ckpt.hasWal THEN "finish" ELSE "done") /\ ckpt'.txn = ckpt.txn
      /\ ckpt'.hasWal = ckpt.hasWal
      /\ file'.root = ckpt.root /\ file'.content = mem
  <2>1. ckpt \in Checkpoints  BY <1>0 DEF AbortInv, TypeInv
  <2>2. ckpt.content = mem  BY <1>1 DEF SafeInv, DurableInv
  <2> QED BY <1>1, <2>1, <2>2 DEF Checkpoints
<1>3. /\ Main' = Main /\ SyncedLength' = SyncedLength /\ SettledLength' = SettledLength
      /\ KeptLength' = KeptLength
  BY <1>1 DEF Main, SyncedLength, SettledLength, KeptLength
<1>4. writer.pc = "idle"  BY <1>1 DEF SafeInv, SerialInv
<1>5. \A t \in Txns : fate[t] = "acked" \/ Applies(Main, t) => In(t, mem)
  BY <1>1, LastingInMemory DEF SafeInv, DurableInv, Lasting
<1>s. Stays  BY <1>1, <1>2, LastingInMemory DEF Stays, Lasting
<1>6. SerialInv'  BY <1>1, <1>2 DEF SerialInv, SafeInv
<1>7. DurableInv'
  <2>1. \A t \in Txns : In(t, file'.content) => In(t, mem)  BY <1>2
  <2> QED BY <1>1, <1>2, <1>3, <1>4, <1>5, <2>1 DEF DurableInv, SafeInv
<1>8. CASE ckpt.hasWal
  <2>1. wal.path = "checkpoint"  BY <1>1, <1>8 DEF SafeInv, SerialInv
  <2>2. OpenLogInv'  BY <1>1, <2>1 DEF OpenLogInv
  <2>3. FlushesBetween(Main) /\ LastMarker(Main, ckpt.root)  BY <1>1, <1>8 DEF SafeInv, MarkerInv
  <2>4. MarkerInv'  BY <1>1, <1>2, <1>3, <1>5, <1>8, <2>3 DEF MarkerInv
  <2> QED BY <1>0, <1>6, <1>7, <2>2, <2>4, <1>s DEF SafeInv
<1>9. CASE ~ckpt.hasWal
  <2>1. wal.path = "main" /\ KeptLength = 0
    BY <1>1, <1>9 DEF SafeInv, SerialInv, OpenLogInv
  <2>2. \A f \in 1 .. Len(Main) : ~IsFlush(Main, f)  BY <1>1, <1>4, <2>1, FreeLog DEF Settled
  <2>3. Settled(Main, 0, file'.root)  BY <2>2, SafeFacts DEF Settled
  <2>4. SettledLength = 0  BY <1>1, <1>4, <2>1, FreeLog
  <2>5. OpenLogInv'  BY <1>1, <1>2, <1>3, <1>4, <2>1, <2>3, <2>4 DEF OpenLogInv, SafeInv
  <2>6. FlushesBetween(Main)  BY DEF SafeInv, MarkerInv
  <2>7. ASSUME NEW i \in 1 .. Len(Main), IsMarker(Main, i), Main[i].val = file'.root
        PROVE  LastMarker(Main, file'.root)
    <3>1. ASSUME NEW j \in 1 .. Len(Main), IsMarker(Main, j) PROVE j <= i
      <4>1. CASE i < j
        <5>1. PICK f \in i .. j : IsFlush(Main, f)  BY <2>6, <2>7, <3>1, <4>1 DEF FlushesBetween
        <5>2. f \in 1 .. Len(Main)  BY SafeFacts, <5>1
        <5> QED BY <2>2, <5>1, <5>2
      <4> QED BY SafeFacts, <4>1
    <3> QED BY <2>7, <3>1 DEF LastMarker
  <2>8. MarkerInv'  BY <1>1, <1>2, <1>3, <1>5, <1>9, <2>6, <2>7 DEF MarkerInv
  <2> QED BY <1>0, <1>6, <1>7, <2>5, <2>8, <1>s DEF SafeInv
<1> QED BY <1>8, <1>9

\* A database that starts a new main log.
LEMMA NewMainLog ==
  ASSUME Main' = <<>>, wal' = NewWal("main", 0, "no_wal", NoIter), walLock' = "free",
         writer'.pc = "idle"
  PROVE  /\ OpenLogInv'
         /\ FlushesBetween(Main') /\ Len(Main') = 0 /\ \A t : ~Applies(Main', t)
         /\ wal'.path = "main" /\ wal'.state = "no_wal"
<1>1. Len(Main') = 0 /\ wal'.path = "main" /\ wal'.state = "no_wal"  BY DEF NewWal
<1>2. disk'[wal'.path] = <<>>  BY <1>1 DEF Main
<1>3. KeptLength' = 0 /\ SettledLength' = 0  BY <1>1, <1>2 DEF KeptLength, SettledLength
<1>4. Settled(Main', 0, file'.root)  BY <1>1 DEF Settled
<1>5. OpenLogInv'  BY <1>1, <1>3, <1>4 DEF OpenLogInv
<1> QED BY <1>1, <1>5 DEF FlushesBetween, Applies, AppliesTo

LEMMA SafeWALFinishCheckpoint ==
  ASSUME SafeInv, WALFinishCheckpoint
  PROVE  SafeInv' /\ Stays
<1>0. AbortInv' /\ AbortInv  BY AbortWALFinishCheckpoint DEF SafeInv
<1>1. /\ mode = "running" /\ ckpt.pc = "finish" /\ walLock = "free"
      /\ ckpt' = [ckpt EXCEPT !.pc = "done"]
      /\ UNCHANGED <<setup, file, mode, replayState, mem, iteration, walLock, writer, fate>>
  BY DEF WALFinishCheckpoint, Running, boundVars
<1>2. ckpt'.pc = "done" /\ ckpt'.txn = ckpt.txn
  <2>1. ckpt \in Checkpoints  BY <1>0 DEF AbortInv, TypeInv
  <2> QED BY <1>1, <2>1 DEF Checkpoints
<1>3. writer.pc = "idle" /\ wal.state # "initialized" /\ file.content = mem
  BY <1>1 DEF SafeInv, SerialInv, DurableInv
<1>4. /\ files' = files \ {"main"} /\ disk' = [disk EXCEPT !["main"] = <<>>]
      /\ wal' = NewWal("main", 0, "no_wal", NoIter)
  BY <1>3 DEF WALFinishCheckpoint
<1>5. Main' = <<>> /\ disk'["checkpoint"] = disk["checkpoint"]  BY <1>4, SafeFacts DEF Main
<1>6. /\ OpenLogInv'
      /\ FlushesBetween(Main') /\ Len(Main') = 0 /\ \A t : ~Applies(Main', t)
      /\ wal'.path = "main" /\ wal'.state = "no_wal"
  BY <1>1, <1>3, <1>4, <1>5, NewMainLog
<1>7. SerialInv'  BY <1>1, <1>2, <1>3, <1>4, <1>5, <1>6 DEF SerialInv, SafeInv
<1>8. MarkerInv'  BY <1>2, <1>6 DEF MarkerInv
<1>9. DurableInv'
  <2>1. \A t \in Txns : fate[t] = "acked" => In(t, file.content)
    BY <1>1, <1>3, LastingInMemory DEF SafeInv, DurableInv, Lasting
  <2> QED BY <1>1, <1>2, <1>3, <1>6, <2>1 DEF DurableInv, SafeInv
<1>10. Stays  BY <1>1, <1>3, LastingInMemory DEF Stays, Lasting
<1> QED BY <1>0, <1>6, <1>7, <1>8, <1>9, <1>10 DEF SafeInv

LEMMA SafeCheckpointDone ==
  ASSUME SafeInv, CheckpointDone
  PROVE  SafeInv' /\ Stays
<1>0. AbortInv' /\ AbortInv  BY AbortQuietSteps DEF SafeInv
<1>1. /\ mode = "running" /\ ckpt.pc = "done" /\ ckpt' = NoCheckpoint
      /\ fate' = IF ckpt.txn = None THEN fate ELSE [fate EXCEPT ![ckpt.txn] = "acked"]
      /\ UNCHANGED <<setup, file, files, disk, mode, replayState, mem, iteration, wal, walLock,
                     writer>>
  BY DEF CheckpointDone, Running, boundVars, diskVars
<1>2. ckpt'.pc = "idle" /\ ckpt'.txn = None  BY <1>1 DEF NoCheckpoint
<1>3. /\ Main' = Main /\ SyncedLength' = SyncedLength /\ SettledLength' = SettledLength
      /\ KeptLength' = KeptLength
  BY <1>1 DEF Main, SyncedLength, SettledLength, KeptLength
<1>4. \A t \in Txns : fate'[t] = "acked" => fate[t] = "acked" \/ In(t, file.content)
  <2>1. fate \in [Txns -> Fates]  BY <1>0 DEF AbortInv, TypeInv
  <2>2. ckpt.txn # None => In(ckpt.txn, file.content)  BY <1>1 DEF SafeInv, DurableInv
  <2> QED BY <1>1, <2>1, <2>2
<1>5. writer.pc = "idle"  BY <1>1 DEF SafeInv, SerialInv
<1>6. SerialInv'  BY <1>1, <1>2 DEF SerialInv, SafeInv
<1>7. OpenLogInv'  BY <1>1, <1>2, <1>3 DEF OpenLogInv, SafeInv
<1>8. MarkerInv'  BY <1>1, <1>2, <1>3, <1>4 DEF MarkerInv, SafeInv
<1>9. DurableInv'  BY <1>1, <1>2, <1>3, <1>4, <1>5 DEF DurableInv, SafeInv
<1> QED BY <1>0, <1>1, <1>3, <1>6, <1>7, <1>8, <1>9 DEF SafeInv, Stays, Lasting
\* When nothing volatile is left only the file and its log count.
LEMMA SafeClosed ==
  ASSUME SafeInv, AbortInv', Forget, mode' = "closed", UNCHANGED <<setup, file, files>>,
         disk'["checkpoint"] = <<>>,
         FlushesBetween(Main'),
         (\E i \in 1 .. Len(Main') : IsMarker(Main', i) /\ Main'[i].val = file.root) =>
           /\ LastMarker(Main', file.root)
           /\ \A t \in Txns : fate[t] = "acked" \/ Applies(Main', t) => In(t, file.content),
         \A t \in Txns : Lasting(t) => In(t, file.content) \/ Applies(Main', t)
  PROVE  SafeInv' /\ Stays
<1>1. /\ wal' = NewWal("main", 0, "no_wal", NoIter) /\ writer' = NoWriter /\ ckpt' = NoCheckpoint
      /\ \A t \in Txns : fate'[t] = "acked" => fate[t] = "acked"
  BY DEF Forget
<1>2. /\ wal'.path = "main" /\ wal'.state = "no_wal" /\ writer'.pc = "idle"
      /\ ckpt'.pc = "idle" /\ ckpt'.txn = None /\ SyncedLength' = Len(Main')
  BY <1>1 DEF NewWal, NoWriter, NoCheckpoint, SyncedLength
<1>3. SerialInv'  BY <1>2 DEF SerialInv, SafeInv
<1>4. OpenLogInv'  BY DEF OpenLogInv
<1>5. MarkerInv'  BY <1>1, <1>2 DEF MarkerInv
<1>6. \A t \in Txns : fate[t] = "acked" => Lasting(t)  BY DEF SafeInv, DurableInv, Lasting
<1>7. DurableInv'  BY <1>1, <1>2, <1>6 DEF DurableInv, Applies
<1>8. Stays  BY <1>2 DEF Stays, Lasting, Applies
<1> QED BY <1>3, <1>4, <1>5, <1>7, <1>8 DEF SafeInv

\* A crash keeps of the open log what is synced, and a marker of the file is
\* never in a log that is still written.
LEMMA SafeCrash ==
  ASSUME SafeInv, Crash
  PROVE  SafeInv' /\ Stays
<1>0. AbortInv' /\ AbortInv  BY AbortCrash DEF SafeInv
<1>1. /\ mode' = "closed" /\ Forget /\ UNCHANGED <<setup, file, files>>
      /\ IF mode = "running"
         THEN \E es \in Remains(disk[wal.path]) : disk' = [disk EXCEPT ![wal.path] = es]
         ELSE UNCHANGED disk
  BY DEF Crash, Running
<1>2. disk["checkpoint"] = <<>>  BY DEF SafeInv, SerialInv
<1>3. /\ FlushesBetween(Main)
      /\ (\E i \in 1 .. Len(Main) : IsMarker(Main, i) /\ Main[i].val = file.root) =>
           /\ LastMarker(Main, file.root)
           /\ \A t \in Txns : fate[t] = "acked" \/ Applies(Main, t) => In(t, file.content)
  BY DEF SafeInv, MarkerInv
<1>5. ASSUME disk' = disk PROVE SafeInv' /\ Stays
  <2>1. Main' = Main /\ disk'["checkpoint"] = <<>>  BY <1>2, <1>5 DEF Main
  <2>2. \A t : AppliesTo(Main, SyncedLength, t) => Applies(Main, t)
    BY SafeFacts, AppliesMore DEF Applies
  <2> QED BY <1>0, <1>1, <1>3, <2>1, <2>2, SafeClosed DEF Lasting
<1>6. CASE mode # "running"  BY <1>1, <1>5, <1>6
<1>7. CASE mode = "running"
  <2>1. PICK es \in Remains(disk[wal.path]) : disk' = [disk EXCEPT ![wal.path] = es]
    BY <1>1, <1>7
  <2>2. CASE es = disk[wal.path]  BY <1>5, <2>1, <2>2, SafeFacts
  <2>3. CASE es # disk[wal.path]
    <3>1. wal.state = "initialized"  BY <2>1, <2>3 DEF Remains
    <3>2. wal.path = "main"  BY <3>1, SafeFacts DEF SafeInv, SerialInv, Paths
    <3>3. disk[wal.path] = Main /\ Main \in Logs /\ wal.synced <= Len(Main) /\ wal.synced \in Nat
          /\ SyncedLength = wal.synced /\ Len(Main) \in Nat
      BY <3>1, <3>2, SafeFacts DEF SyncedLength
    <3>4. Main' = es /\ disk'["checkpoint"] = <<>>  BY <1>2, <2>1, <3>2, SafeFacts DEF Main
    <3>5. PICK n \in wal.synced .. Len(Main) :
                 /\ es \in Logs /\ Len(es) \in n .. n + 1 /\ \A i \in 1 .. n : es[i] = Main[i]
                 /\ Len(es) = n + 1 => es[n + 1].kind = "torn"
      BY <1>0, <2>1, <2>3, <3>3, RemainsIs DEF AbortInv
    <3>6. /\ n \in Nat /\ n <= Len(Main) /\ Len(es) \in Nat /\ n \in 0 .. Len(es)
          /\ wal.synced \in 0 .. n /\ Agree(Main, es, n)
      BY <3>3, <3>5 DEF Agree
    <3>7. \A i \in n + 1 .. Len(es) : ~IsMarker(es, i)
      <4>1. \A i \in n + 1 .. Len(es) : i = n + 1 /\ Len(es) = n + 1  BY <3>5, <3>6
      <4> QED BY <3>5, <4>1 DEF IsMarker
    <3>8. \A i \in 1 .. Len(Main) : Main[i].kind = "marker" => Main[i].val # file.root
      <4>1. Settled(Main, SettledLength, file.root)
        BY <1>7, <3>2 DEF SafeInv, OpenLogInv
      <4>2. CASE writer.pc = "written"
        <5>1. SettledLength = writer.size  BY <4>2 DEF SettledLength
        <5>2. \A i \in 1 .. Len(Main) : i > writer.size =>
                Main[i].kind = "version" \/ Main[i] = Data(writer.txn)
          BY <1>7, <3>2, <4>2 DEF SafeInv, OpenLogInv
        <5>3. \A i \in 1 .. Len(Main) : i \in 1 .. SettledLength \/ i > writer.size
          BY <3>3, <4>1, <5>1 DEF Settled
        <5> QED BY <4>1, <5>2, <5>3 DEF Settled, Data
      <4>3. CASE writer.pc # "written"
        <5>1. SettledLength = Len(Main)  BY <3>1, <3>3, <4>3 DEF SettledLength, KeptLength
        <5> QED BY <4>1, <5>1 DEF Settled
      <4> QED BY <4>2, <4>3
    <3>9. /\ FlushesBetween(es)
          /\ \A i \in 1 .. Len(es) : IsMarker(es, i) => es[i].val # file.root
      <4>1. /\ FlushesBetween(es)
            /\ \A i \in 1 .. Len(es) : IsMarker(es, i) =>
                 i \in 1 .. n /\ i \in 1 .. Len(Main) /\ IsMarker(Main, i) /\ es[i] = Main[i]
        BY <1>3, <3>3, <3>5, <3>6, <3>7, AgreeMarkers
      <4> QED BY <3>8, <4>1 DEF IsMarker
    <3>10. \A t : AppliesTo(Main, SyncedLength, t) => Applies(es, t)
      <4> SUFFICES ASSUME NEW t, AppliesTo(Main, SyncedLength, t) PROVE Applies(es, t)
        OBVIOUS
      <4>1. AppliesTo(es, wal.synced, t)  BY <3>3, <3>5, <3>6, AgreeApplies
      <4> QED BY <3>3, <3>6, <4>1, AppliesMore DEF Applies
    <3> QED BY <1>0, <1>1, <3>4, <3>9, <3>10, SafeClosed DEF Lasting
  <2> QED BY <2>2, <2>3
<1> QED BY <1>6, <1>7

\* Opening fails, is tried again, or starts: the file and its log stay.
LEMMA SafeOpenings ==
  ASSUME SafeInv, OpenFailed \/ LoadDatabase \/ ReplayRefused
  PROVE  SafeInv' /\ Stays
<1>0. AbortInv  BY DEF SafeInv
<1>1. CASE OpenFailed
  <2>1. AbortInv'  BY <1>0, <1>1, AbortCrash
  <2>2. /\ mode' = "closed" /\ Forget /\ UNCHANGED <<setup, file, files, disk>>
    BY <1>1 DEF OpenFailed, diskVars, boundVars
  <2>3. Main' = Main /\ disk'["checkpoint"] = <<>>
    BY <2>2 DEF Main, SafeInv, SerialInv
  <2>4. \A t : AppliesTo(Main, SyncedLength, t) => Applies(Main, t)
    BY SafeFacts, AppliesMore DEF Applies
  <2>5. /\ FlushesBetween(Main)
        /\ (\E i \in 1 .. Len(Main) : IsMarker(Main, i) /\ Main[i].val = file.root) =>
             /\ LastMarker(Main, file.root)
             /\ \A t \in Txns : fate[t] = "acked" \/ Applies(Main, t) => In(t, file.content)
    BY DEF SafeInv, MarkerInv
  <2> QED BY <2>1, <2>2, <2>3, <2>4, <2>5, SafeClosed DEF Lasting
<1>2. CASE LoadDatabase \/ ReplayRefused
  <2>1. AbortInv'  BY <1>0, <1>2, AbortQuietSteps, AbortRecovery
  <2>2. /\ mode' \in {"load", "failed"} /\ (mode' = "load" => mem' = file.content)
        /\ UNCHANGED <<setup, file, files, disk, wal, walLock, writer, ckpt, fate>>
        /\ mode # "running"
    BY <1>2 DEF LoadDatabase, ReplayRefused, Refuse, recoveryFrame, diskVars, boundVars
  <2>3. Main' = Main /\ SyncedLength' = SyncedLength  BY <2>2 DEF Main, SyncedLength
  <2>4. ckpt.pc = "idle" /\ ckpt.txn = None /\ writer.pc = "idle"
    BY <1>0, <2>2 DEF AbortInv, ControlInv, NoCheckpoint, NoWriter
  <2>5. SerialInv'  BY <2>2 DEF SerialInv, SafeInv
  <2>6. OpenLogInv'  BY <2>2 DEF OpenLogInv
  <2>7. MarkerInv'  BY <2>2, <2>3 DEF MarkerInv, SafeInv
  <2>8. DurableInv'  BY <2>2, <2>3, <2>4 DEF DurableInv, SafeInv
  <2> QED BY <2>1, <2>2, <2>3, <2>5, <2>6, <2>7, <2>8 DEF SafeInv, Stays, Lasting
<1> QED BY <1>1, <1>2

\* Whether the checkpoint that wrote the last marker completed.
LEMMA SuccessIs ==
  ASSUME SafeInv
  PROVE  CheckpointWasSuccessful <=>
           \E i \in 1 .. Len(Main) : IsMarker(Main, i) /\ Main[i].val = file.root
<1> DEFINE p == CheckpointPosition(Main)
<1>1. /\ p \in 0 .. Len(Main) /\ (p > 0 => IsMarker(Main, p))
      /\ \A f \in 1 .. Len(Main) : IsMarker(Main, f) => f <= p
  BY SafeFacts, PositionIs
<1>2. CheckpointWasSuccessful <=> p > 0 /\ Main[p].val = file.root
  BY DEF CheckpointWasSuccessful, HasMarker, Main
<1> HIDE DEF p
<1>3. p \in Nat /\ Len(Main) \in Nat /\ (p > 0 => p \in 1 .. Len(Main))  BY <1>1, SafeFacts
<1>4. ASSUME p > 0, Main[p].val = file.root
      PROVE  \E i \in 1 .. Len(Main) : IsMarker(Main, i) /\ Main[i].val = file.root
  BY <1>1, <1>3, <1>4
<1>5. ASSUME NEW i \in 1 .. Len(Main), IsMarker(Main, i), Main[i].val = file.root
      PROVE  p > 0 /\ Main[p].val = file.root
  <2>1. PICK j \in 1 .. Len(Main) : /\ IsMarker(Main, j) /\ Main[j].val = file.root
                                    /\ \A k \in 1 .. Len(Main) : IsMarker(Main, k) => k <= j
    BY <1>5 DEF SafeInv, MarkerInv, LastMarker
  <2>2. j <= p /\ p > 0  BY <1>1, <1>3, <2>1
  <2>3. p <= j  BY <1>1, <1>3, <2>1, <2>2
  <2>4. p = j  BY <1>3, <2>2, <2>3
  <2> QED BY <2>1, <2>2, <2>4
<1> QED BY <1>2, <1>4, <1>5

LEMMA SafeReplayNothing ==
  ASSUME SafeInv, ReplayNothing
  PROVE  SafeInv' /\ Stays
<1>0. AbortInv' /\ AbortInv  BY AbortOpens DEF SafeInv
<1>1. /\ mode = "load" /\ mode' = "running" /\ files' = files \ {"main"}
      /\ disk' = [disk EXCEPT !["main"] = <<>>]
      /\ wal' = NewWal("main", 0, "no_wal", NoIter)
      /\ UNCHANGED <<setup, file, replayState, mem, iteration, walLock, writer, ckpt, fate>>
      /\ Main = <<>> \/ CheckpointWasSuccessful
  BY DEF ReplayNothing, recoveryFrame, boundVars, Main
<1>2. /\ ckpt.pc = "idle" /\ ckpt.txn = None /\ writer.pc = "idle" /\ walLock = "free"
  BY <1>0, <1>1 DEF AbortInv, TypeInv, ControlInv, NoCheckpoint, NoWriter
<1>3. \A t \in Txns : Lasting(t) => In(t, file.content)
  <2>1. CASE Main = <<>>
    <3>1. \A t : ~AppliesTo(Main, SyncedLength, t)
      <4>1. SyncedLength = 0  BY <2>1, SafeFacts
      <4> QED BY <4>1 DEF AppliesTo
    <3> QED BY <3>1 DEF Lasting
  <2>2. CASE CheckpointWasSuccessful
    <3>1. \A t : AppliesTo(Main, SyncedLength, t) => Applies(Main, t)
      BY SafeFacts, AppliesMore DEF Applies
    <3> QED BY <2>2, <3>1, SuccessIs DEF SafeInv, MarkerInv, Lasting
  <2> QED BY <1>1, <2>1, <2>2
<1>4. Main' = <<>> /\ disk'["checkpoint"] = disk["checkpoint"]  BY <1>1, SafeFacts DEF Main
<1>5. /\ OpenLogInv'
      /\ FlushesBetween(Main') /\ Len(Main') = 0 /\ \A t : ~Applies(Main', t)
      /\ wal'.path = "main" /\ wal'.state = "no_wal"
  BY <1>1, <1>2, <1>4, NewMainLog
<1>6. SerialInv'  BY <1>1, <1>2, <1>4, <1>5 DEF SerialInv, SafeInv
<1>7. MarkerInv'  BY <1>1, <1>2, <1>5 DEF MarkerInv
<1>8. DurableInv'
  <2>1. mem = file.content  BY <1>1 DEF SafeInv, DurableInv
  <2>2. \A t \in Txns : fate[t] = "acked" => Lasting(t)  BY DEF SafeInv, DurableInv, Lasting
  <2> QED BY <1>1, <1>2, <1>3, <1>5, <2>1, <2>2 DEF DurableInv
<1> QED BY <1>0, <1>1, <1>3, <1>5, <1>6, <1>7, <1>8 DEF SafeInv, Stays, Lasting

LEMMA SafeReplayMainWal ==
  ASSUME SafeInv, ReplayMainWal
  PROVE  SafeInv' /\ Stays
<1> DEFINE end == SuccessfulOffset(Main)
<1>0. AbortInv' /\ AbortInv  BY AbortOpens DEF SafeInv
<1>1. /\ mode = "load" /\ mode' = "running" /\ mem' = mem \o Replayed(Main)
      /\ wal' = NewWal("main", end,
                  IF end = Len(Main) THEN "uninitialized" ELSE "requires_truncate", NoIter)
      /\ UNCHANGED <<setup, file, files, disk, replayState, iteration, walLock, writer, ckpt, fate>>
      /\ ~CheckpointWasSuccessful
  BY DEF ReplayMainWal, recoveryFrame, boundVars, Main, CheckpointWasSuccessful
<1>2. /\ ckpt.pc = "idle" /\ ckpt.txn = None /\ writer.pc = "idle" /\ walLock = "free"
  BY <1>0, <1>1 DEF AbortInv, TypeInv, ControlInv, NoCheckpoint, NoWriter
<1>3. /\ end \in 0 .. Len(Main) /\ (end > 0 => IsFlush(Main, end))
      /\ \A f \in 1 .. Len(Main) : IsFlush(Main, f) => f <= end
  BY SafeFacts, OffsetIs
<1> HIDE DEF end
<1>4. /\ Main' = Main /\ Len(Main) \in Nat /\ end \in Nat
      /\ wal'.path = "main" /\ wal'.size = end
      /\ wal'.state = IF end = Len(Main) THEN "uninitialized" ELSE "requires_truncate"
  BY <1>1, <1>3, SafeFacts DEF NewWal, Main
<1>5. SyncedLength' = Len(Main) /\ KeptLength' = end /\ SettledLength' = end
      /\ SyncedLength = Len(Main)
  <2>1. disk'[wal'.path] = Main  BY <1>1, <1>4 DEF Main
  <2>2. wal.state = "no_wal"  BY <1>0, <1>1 DEF AbortInv, ControlInv, NewWal
  <2> QED BY <1>1, <1>2, <1>4, <2>1, <2>2 DEF SyncedLength, KeptLength, SettledLength
<1>6. Settled(Main, end, file.root)
  <2>1. \A i \in 1 .. end : Main[i].kind = "marker" => Main[i].val # file.root
    <3> SUFFICES ASSUME NEW i \in 1 .. end, Main[i].kind = "marker" PROVE Main[i].val # file.root
      OBVIOUS
    <3>1. IsFlush(Main, end) /\ i \in 1 .. Len(Main)  BY <1>3, <1>4
    <3>2. IsMarker(Main, i)  BY <1>4, <3>1 DEF IsFlush, IsMarker, Read
    <3> QED BY <1>1, <3>1, <3>2, SuccessIs
  <2>2. \A f \in end + 1 .. Len(Main) : ~IsFlush(Main, f)
    <3>1. \A f \in end + 1 .. Len(Main) : f \in 1 .. Len(Main) /\ ~(f <= end)  BY <1>4
    <3> QED BY <1>3, <3>1
  <2> QED BY <1>3, <1>4, <2>1, <2>2 DEF Settled
<1>7. SerialInv'  BY <1>1, <1>2, <1>4 DEF SerialInv, SafeInv
<1>8. OpenLogInv'  BY <1>1, <1>2, <1>4, <1>5, <1>6 DEF OpenLogInv
<1>9. MarkerInv'  BY <1>1, <1>2, <1>4 DEF MarkerInv, SafeInv
<1>10. DurableInv'
  <2>1. \A u : In(u, mem') <=> In(u, file.content) \/ Applies(Main, u)
    <3>1. mem = file.content /\ mem \in Commits  BY <1>1, SafeFacts DEF SafeInv, DurableInv
    <3>2. Replayed(Main) \in Commits /\ \A u : In(u, Replayed(Main)) <=> Applies(Main, u)
      BY SafeFacts, ReplayedIs
    <3> QED BY <1>1, <3>1, <3>2, Joined
  <2> QED BY <1>1, <1>2, <1>4, <1>5, <2>1 DEF DurableInv, SafeInv
<1> QED BY <1>0, <1>1, <1>4, <1>5, <1>7, <1>8, <1>9, <1>10 DEF SafeInv, Stays, Lasting

LEMMA SafeInit ==
  ASSUME Init, ~setup.concurrent
  PROVE  SafeInv
<1>0. AbortInv  BY AbortInit
<1>1. /\ Main = <<>> /\ wal = NewWal("main", 0, "no_wal", NoIter) /\ walLock = "free"
      /\ writer.pc = "idle" /\ ckpt.pc = "idle" /\ ckpt.txn = None /\ file.content = <<>>
      /\ disk["checkpoint"] = <<>> /\ files = {} /\ mode = "running" /\ ~setup.concurrent
  BY DEF Init, Main, NoWriter, NoCheckpoint, Paths
<1>2. Len(Main) = 0 /\ wal.path = "main" /\ wal.state = "no_wal"  BY <1>1 DEF NewWal
<1>3. disk[wal.path] = <<>>  BY <1>1, <1>2 DEF Main
<1>4. KeptLength = 0 /\ SettledLength = 0  BY <1>1, <1>2, <1>3 DEF KeptLength, SettledLength
<1>5. \A t \in Txns : fate[t] # "acked" /\ ~In(t, file.content) /\ ~Applies(Main, t)
  BY <1>1, <1>2, NothingThere DEF Init, Applies, AppliesTo
<1>6. SerialInv  BY <1>1, <1>2 DEF SerialInv
<1>7. OpenLogInv
  <2>1. Settled(Main, 0, file.root)  BY <1>2 DEF Settled
  <2> QED BY <1>1, <1>2, <1>4, <2>1 DEF OpenLogInv
<1>8. MarkerInv  BY <1>1, <1>2 DEF MarkerInv, FlushesBetween
<1>9. DurableInv  BY <1>1, <1>5 DEF DurableInv
<1> QED BY <1>0, <1>6, <1>7, <1>8, <1>9 DEF SafeInv

LEMMA SafeNext ==
  ASSUME SafeInv, [Next]_vars
  PROVE  SafeInv' /\ Stays
<1>1. CASE UNCHANGED vars
  <2>1. AbortInv'  BY <1>1, AbortNext DEF SafeInv
  <2>2. UNCHANGED <<setup, file, files, disk, mode, mem, wal, walLock, writer, ckpt, fate>>
    BY <1>1 DEF vars
  <2>3. /\ Main' = Main /\ SyncedLength' = SyncedLength /\ SettledLength' = SettledLength
        /\ KeptLength' = KeptLength
    BY <2>2 DEF Main, SyncedLength, SettledLength, KeptLength
  <2>4. SerialInv' /\ OpenLogInv'  BY <2>2, <2>3 DEF SafeInv, SerialInv, OpenLogInv
  <2>5. MarkerInv' /\ DurableInv'  BY <2>2, <2>3 DEF SafeInv, MarkerInv, DurableInv
  <2> QED BY <2>1, <2>2, <2>3, <2>4, <2>5 DEF SafeInv, Stays, Lasting
<1>2. ~(ReplayCheckpointWal \/ MergeWals \/ MoveRecoveryWal \/ RemoveCheckpointWal)
  BY DEF SafeInv, SerialInv, ReplayCheckpointWal, MergeWals, NeedsMerge, MoveRecoveryWal,
         RemoveCheckpointWal
<1>3. CASE Next
  BY <1>2, <1>3, SafeWriteToWAL, SafeStartsCheckpoint, SafeCommitAndFlush, SafeAcknowledge,
     SafeRevertCommit, SafeWALStartCheckpoint, SafeWALSwitch, SafeNextIteration, SafeWriteHeader,
     SafeWALFinishCheckpoint, SafeCheckpointDone, SafeCrash, SafeOpenings, SafeReplayNothing,
     SafeReplayMainWal
  DEF Next
<1> QED BY <1>1, <1>3

\* Where commits do not overlap checkpoints, every commit that was reported as
\* successful is there whenever the database is open, after any crashes: what is
\* reported is in the file's blocks or in the synced, flushed part of its log, and
\* the marker in the log tells recovery which of the two to trust.
THEOREM ReportedStays ==
  ASSUME \A s \in Setups : ~s.concurrent
  PROVE  Spec => []NothingLost
<1>1. Init => SafeInv  BY SafeInit DEF Init
<1>2. SafeInv /\ [Next]_vars => SafeInv'  BY SafeNext
<1>3. SafeInv => NothingLost
  <2> SUFFICES ASSUME SafeInv, mode = "running", NEW t \in Txns, fate[t] = "acked"
               PROVE  t \in ToSet(mem)
    BY DEF NothingLost, Running, Acked
  <2>1. In(t, mem)  BY LastingInMemory DEF SafeInv, DurableInv, Lasting
  <2> QED BY <2>1 DEF In, ToSet
<1> QED BY <1>1, <1>2, <1>3, PTL DEF Spec
-----------------------------------------------------------------------------
(* The files implement the promise *)

NoRecoveryLog == disk["recovery"] = <<>>

\* Logs are only merged when commits overlapped a checkpoint.
LEMMA NothingIsMerged ==
  ASSUME SafeInv, NoRecoveryLog, [Next]_vars
  PROVE  NoRecoveryLog'
<1>1. /\ "recovery" \in Paths /\ disk \in [Paths -> Logs] /\ wal.path \in {"main", "checkpoint"}
      /\ disk["recovery"] = <<>>
  BY DEF Paths, SafeInv, AbortInv, TypeInv, SerialInv, NoRecoveryLog
<1>2. CASE UNCHANGED disk  BY <1>1, <1>2 DEF NoRecoveryLog
<1>3. ASSUME NEW p \in {"main", "checkpoint"}, NEW es, disk' = [disk EXCEPT ![p] = es]
      PROVE  NoRecoveryLog'
  BY <1>1, <1>3 DEF NoRecoveryLog
<1>4. ASSUME NEW new, WriteEntries(new) PROVE NoRecoveryLog'
  BY <1>1, <1>3, <1>4 DEF WriteEntries
<1>5. CASE \E t \in Txns : WriteToWAL(t)  BY <1>4, <1>5 DEF WriteToWAL
<1>6. CASE WALStartCheckpoint  BY <1>2, <1>4, <1>6 DEF WALStartCheckpoint
<1>7. CASE CommitAndFlush \/ RevertCommit  BY <1>1, <1>3, <1>7 DEF CommitAndFlush, RevertCommit
<1>8. CASE WALSwitch \/ ReplayNothing  BY <1>3, <1>8 DEF WALSwitch, ReplayNothing
<1>9. CASE WALFinishCheckpoint  BY <1>1, <1>9 DEF WALFinishCheckpoint, NoRecoveryLog
<1>10. CASE Crash
  BY <1>1, <1>2, <1>3, <1>10 DEF Crash
<1>11. ~(ReplayCheckpointWal \/ MergeWals \/ MoveRecoveryWal \/ RemoveCheckpointWal)
  BY DEF SafeInv, SerialInv, ReplayCheckpointWal, MergeWals, NeedsMerge, MoveRecoveryWal,
         RemoveCheckpointWal
<1>12. CASE \/ \E t \in Txns : CommitByCheckpoint(t)
            \/ Acknowledge \/ Checkpoint \/ NextIteration \/ WriteHeader \/ CheckpointDone
            \/ OpenFailed \/ LoadDatabase \/ ReplayRefused \/ ReplayMainWal \/ UNCHANGED vars
  BY <1>2, <1>12 DEF CommitByCheckpoint, Acknowledge, Checkpoint, NextIteration, WriteHeader,
     CheckpointDone, OpenFailed, LoadDatabase, ReplayRefused, Refuse, ReplayMainWal, diskVars, vars
<1> QED BY <1>5, <1>6, <1>7, <1>8, <1>9, <1>10, <1>11, <1>12 DEF Next

\* What the logs and blocks hold for good is the part of the main log that is
\* synced and flushed, and the blocks.
DurableIsLasting ==
  Durable \subseteq Txns /\ \A t \in Txns : t \in Durable <=> Lasting(t)

LEMMA DurableIs == SafeInv /\ NoRecoveryLog => DurableIsLasting
<1> SUFFICES ASSUME SafeInv, NoRecoveryLog PROVE DurableIsLasting
  OBVIOUS
<1> DEFINE L == OnDisk("main")
<1>1. Main \in Logs /\ Len(Main) \in Nat /\ SyncedLength \in 0 .. Len(Main)  BY SafeFacts
<1>2. L \in Logs /\ Len(L) = SyncedLength /\ Agree(Main, L, SyncedLength)
  <2>1. CASE mode = "running" /\ wal.path = "main" /\ wal.state = "initialized"
    <3>1. L = SubSeq(Main, 1, SyncedLength)
      BY <2>1 DEF OnDisk, Running, Main, SyncedLength
    <3>2. /\ SubSeq(Main, 1, SyncedLength) \in Logs
          /\ Len(SubSeq(Main, 1, SyncedLength)) = SyncedLength
          /\ \A i \in 1 .. SyncedLength : SubSeq(Main, 1, SyncedLength)[i] = Main[i]
      BY <1>1, Prefix DEF Logs
    <3> HIDE DEF L
    <3> QED BY <1>1, <3>1, <3>2 DEF Agree
  <2>2. CASE ~(mode = "running" /\ wal.path = "main" /\ wal.state = "initialized")
    <3>1. L = Main  BY <2>2 DEF OnDisk, Running, Main
    <3>2. wal.state # "initialized"
      <4>1. CASE mode = "running"
        <5>1. wal.path = "main" \/ wal.path = "checkpoint"  BY DEF SafeInv, SerialInv
        <5> QED BY <2>2, <4>1, <5>1 DEF SafeInv, SerialInv
      <4>2. CASE mode # "running"
        BY <4>2 DEF SafeInv, AbortInv, ControlInv, NewWal
      <4> QED BY <4>1, <4>2
    <3>3. SyncedLength = Len(Main)  BY <3>2 DEF SyncedLength
    <3> HIDE DEF L
    <3> QED BY <1>1, <3>1, <3>3 DEF Agree
  <2> QED BY <2>1, <2>2
<1>3. \A p \in Paths \ {"main"} : OnDisk(p) = <<>>
  <2>1. disk["checkpoint"] = <<>> /\ disk["recovery"] = <<>> /\ wal.path # "recovery"
        /\ (wal.path = "checkpoint" => wal.state # "initialized")
    BY DEF SafeInv, SerialInv, NoRecoveryLog
  <2> QED BY <2>1 DEF OnDisk, Paths
<1>4. Paths = {"main"} \union (Paths \ {"main"})  BY DEF Paths
<1> HIDE DEF L
<1>5. \A commits \in Commits : ToSet(commits) = {t \in Txns : In(t, commits)}
  <2> SUFFICES ASSUME NEW commits \in Commits
               PROVE  ToSet(commits) = {t \in Txns : In(t, commits)}
    OBVIOUS
  <2>1. /\ DOMAIN commits = 1 .. Len(commits) /\ \A i \in 1 .. Len(commits) : commits[i] \in Txns
    BY DEF Commits
  <2> QED BY <2>1 DEF ToSet, In
<1>6. \A p \in Paths : OnDisk(p) \in Logs  BY <1>2, <1>3, NothingThere DEF L
<1>7. \A p \in Paths : ToSet(Replayed(OnDisk(p))) = {t \in Txns : Applies(OnDisk(p), t)}
  <2> SUFFICES ASSUME NEW p \in Paths
               PROVE  ToSet(Replayed(OnDisk(p))) = {t \in Txns : Applies(OnDisk(p), t)}
    OBVIOUS
  <2>1. OnDisk(p) \in Logs  BY <1>6
  <2>2. /\ Replayed(OnDisk(p)) \in Commits
        /\ \A t : In(t, Replayed(OnDisk(p))) <=> Applies(OnDisk(p), t)
    BY <2>1, ReplayedIs
  <2> QED BY <1>5, <2>2
<1>8. \A t : Applies(L, t) <=> AppliesTo(Main, SyncedLength, t)
  <2>1. SyncedLength \in 0 .. SyncedLength /\ SyncedLength \in Nat  BY <1>1
  <2> QED BY <1>1, <1>2, <2>1, AgreeApplies DEF Applies
<1>9. \A t : ~Applies(<<>>, t)
  <2>1. Len(<<>>) = 0  OBVIOUS
  <2> QED BY <2>1 DEF Applies, AppliesTo
<1>10. ToSet(file.content) = {t \in Txns : In(t, file.content)}
  BY <1>5 DEF SafeInv, AbortInv, TypeInv
<1>11. ASSUME NEW t
       PROVE  t \in UNION {ToSet(Replayed(OnDisk(p))) : p \in Paths}
                <=> t \in Txns /\ AppliesTo(Main, SyncedLength, t)
  <2>1. t \in UNION {ToSet(Replayed(OnDisk(p))) : p \in Paths}
          <=> \E p \in Paths : t \in ToSet(Replayed(OnDisk(p)))
    OBVIOUS
  <2>2. \A p \in Paths : t \in ToSet(Replayed(OnDisk(p))) <=> t \in Txns /\ Applies(OnDisk(p), t)
    BY <1>7
  <2>3. (\E p \in Paths : t \in Txns /\ Applies(OnDisk(p), t)) <=> t \in Txns /\ Applies(L, t)
    BY <1>3, <1>4, <1>9 DEF L
  <2> QED BY <1>8, <2>1, <2>2, <2>3
<1> QED BY <1>10, <1>11 DEF DurableIsLasting, Durable, Lasting

\* A caller is told of one commit at a time, and of one that is there to stay.
LEMMA AcksAre ==
  ASSUME SafeInv, [Next]_vars
  PROVE  \/ Acked' = Acked
         \/ /\ UNCHANGED <<file, disk, mode, wal>>
            /\ \E t \in Txns : Lasting(t) /\ t \notin Acked /\ Acked' = Acked \union {t}
<1>1. /\ fate \in [Txns -> Fates] /\ writer.txn \in Txns \union {None}
      /\ ckpt.txn \in Txns \union {None}
  BY DEF SafeInv, AbortInv, TypeInv, Checkpoints
<1>2. ASSUME NEW t \in Txns, fate[t] # "acked", NEW f \in Fates \ {"acked"},
             fate' = [fate EXCEPT ![t] = f]
      PROVE  Acked' = Acked
  BY <1>1, <1>2 DEF Acked
<1>3. ASSUME NEW t \in Txns, fate[t] # "acked", fate' = [fate EXCEPT ![t] = "acked"]
      PROVE  t \notin Acked /\ Acked' = Acked \union {t}
  BY <1>1, <1>3 DEF Acked
<1>4. CASE UNCHANGED fate  BY <1>4 DEF Acked
<1>5. CASE \E t \in Txns : WriteToWAL(t) \/ CommitByCheckpoint(t)
  BY <1>2, <1>5 DEF WriteToWAL, CommitByCheckpoint, Fates
<1>6. writer.pc # "idle" => writer.txn \in Txns /\ fate[writer.txn] # "acked"
  BY <1>1 DEF SafeInv, AbortInv, ControlInv
<1>7. ckpt.txn # None => ckpt.txn \in Txns /\ fate[ckpt.txn] # "acked"
  BY <1>1 DEF SafeInv, AbortInv, ControlInv
<1>8. CASE RevertCommit  BY <1>2, <1>6, <1>8 DEF RevertCommit, Fates
<1>9. CASE Acknowledge
  <2>1. Lasting(writer.txn)  BY <1>9 DEF Acknowledge, SafeInv, DurableInv, Lasting
  <2> QED BY <1>3, <1>6, <1>9, <2>1 DEF Acknowledge, diskVars
<1>10. CASE CheckpointDone
  <2>1. UNCHANGED <<file, disk, mode, wal>>  BY <1>10 DEF CheckpointDone, diskVars
  <2>2. CASE ckpt.txn = None  BY <1>4, <1>10, <2>2 DEF CheckpointDone
  <2>3. CASE ckpt.txn # None
    <3>1. Lasting(ckpt.txn)  BY <1>10, <2>3 DEF CheckpointDone, SafeInv, DurableInv, Lasting
    <3> QED BY <1>3, <1>7, <1>10, <2>1, <2>3, <3>1 DEF CheckpointDone
  <2> QED BY <2>2, <2>3
<1>11. CASE Crash \/ OpenFailed
  <2>1. fate' = [t \in Txns |-> IF fate[t] = "committing" THEN "unknown" ELSE fate[t]]
    BY <1>11 DEF Crash, OpenFailed, Forget
  <2> QED BY <1>1, <2>1 DEF Acked
<1>12. CASE \/ CommitAndFlush \/ Checkpoint \/ WALStartCheckpoint \/ WALSwitch \/ NextIteration
            \/ WriteHeader \/ WALFinishCheckpoint \/ LoadDatabase \/ ReplayNothing
            \/ ReplayCheckpointWal \/ MergeWals \/ MoveRecoveryWal \/ RemoveCheckpointWal
            \/ ReplayRefused \/ ReplayMainWal \/ UNCHANGED vars
  BY <1>4, <1>12
  DEF CommitAndFlush, Checkpoint, WALStartCheckpoint, WALSwitch, NextIteration, WriteHeader,
      WALFinishCheckpoint, LoadDatabase, ReplayNothing, ReplayCheckpointWal, MergeWals,
      MoveRecoveryWal, RemoveCheckpointWal, ReplayRefused, ReplayMainWal, Refuse, recoveryFrame,
      vars
<1> QED BY <1>5, <1>8, <1>9, <1>10, <1>11, <1>12 DEF Next

LEMMA StepsPersist ==
  ASSUME SafeInv, NoRecoveryLog, [Next]_vars
  PROVE  [Log!Next]_(Log!vars)
<1>1. SafeInv' /\ Stays /\ NoRecoveryLog'  BY SafeNext, NothingIsMerged
<1>2. Durable \subseteq Txns /\ \A t \in Txns : t \in Durable <=> Lasting(t)
  BY DurableIs DEF DurableIsLasting
<1>3. Durable' \subseteq Txns /\ \A t \in Txns : t \in Durable' <=> Lasting(t)'
  <2>1. DurableIsLasting'  BY <1>1, DurableIs, PTL
  <2> QED BY <2>1 DEF DurableIsLasting
<1>4. Durable \subseteq Durable'  BY <1>1, <1>2, <1>3 DEF Stays
<1>5. CASE Acked' = Acked
  <2> DEFINE S == Durable' \ Durable
  <2>1. S \in SUBSET (Txns \ Durable) /\ Durable' = Durable \union S  BY <1>3, <1>4
  <2>2. CASE S = {}  BY <1>5, <2>1, <2>2 DEF Log!vars
  <2>3. CASE S # {}  BY <1>5, <2>1, <2>3 DEF Log!Next, Log!Persist
  <2> QED BY <2>2, <2>3
<1>6. ASSUME NEW t \in Txns, UNCHANGED <<file, disk, mode, wal>>, Lasting(t), t \notin Acked,
             Acked' = Acked \union {t}
      PROVE  Log!Acknowledge
  <2>1. Durable' = Durable  BY <1>6 DEF Durable, OnDisk, Running
  <2> QED BY <1>2, <1>6, <2>1 DEF Log!Acknowledge
<1> QED BY <1>5, <1>6, AcksAre DEF Log!Next

\* Where commits do not overlap checkpoints, the header, the log and recovery
\* implement the promise of CommitLog: no step of a commit, of a checkpoint, of a
\* crash or of a recovery drops a commit that is durable, and a caller is told of
\* a commit only when it is.
THEOREM FilesKeepCommits ==
  ASSUME \A s \in Setups : ~s.concurrent
  PROVE  Spec => CommitsAreDurable
<1>1. Init => SafeInv /\ NoRecoveryLog
  <2>1. Init => NoRecoveryLog  BY DEF Init, Paths, NoRecoveryLog
  <2> QED BY <2>1, SafeInit DEF Init
<1>2. SafeInv /\ NoRecoveryLog /\ [Next]_vars => SafeInv' /\ NoRecoveryLog'
  BY SafeNext, NothingIsMerged
<1>3. Init => Log!Init
  <2> SUFFICES ASSUME Init PROVE Log!Init  OBVIOUS
  <2>1. SafeInv /\ NoRecoveryLog  BY <1>1
  <2>2. \A t \in Txns : ~Lasting(t)
    <3>1. Len(Main) = 0 /\ SyncedLength = 0
      BY NothingThere DEF Init, Main, SyncedLength, NewWal, Paths
    <3>2. \A t : ~In(t, file.content)  BY NothingThere DEF Init
    <3> QED BY <3>1, <3>2 DEF Lasting, AppliesTo
  <2>3. Durable = {}  BY <2>1, <2>2, DurableIs DEF DurableIsLasting
  <2>4. Acked = {}  BY DEF Init, Acked
  <2> QED BY <2>3, <2>4 DEF Log!Init
<1>4. SafeInv /\ NoRecoveryLog /\ [Next]_vars => [Log!Next]_(Log!vars)  BY StepsPersist
<1> QED BY <1>1, <1>2, <1>3, <1>4, PTL DEF Spec, CommitsAreDurable, Log!Spec
-----------------------------------------------------------------------------
(* Opening a database whose commits do not overlap checkpoints *)

\* The block manager counts like the header; a checkpoint that is not a commit's
\* has found something in the log.
IterationInv ==
  /\ replayState = "main_wal" /\ mode # "failed" /\ ~setup.bulk
  /\ mode \in {"load", "running"} =>
       iteration = file.iter + (IF ckpt.pc = "header" THEN 1 ELSE 0)
  /\ ckpt.pc = "start" => wal.size > 0
  /\ ckpt.pc \in {"marked", "blocks", "header", "finish"} => ckpt.hasWal
  /\ mode = "running" /\ wal.path = "main" => wal.iter = NoIter

\* The log names the file's iteration, or the one before while it is still to
\* be removed after a checkpoint that completed.
OneBehind ==
  /\ Main[1].kind = "version" /\ Main[1].val + 1 = file.iter
  /\ LastMarker(Main, file.root)
  /\ mode = "running" => ckpt.pc = "finish"
NameInv == Main # <<>> => Main[1].kind = "torn" \/ Main[1] = Version(file.iter) \/ OneBehind

OpensInv == SafeInv /\ IterationInv /\ NameInv

LEMMA OpensFacts ==
  ASSUME OpensInv
  PROVE  /\ SafeInv /\ Main \in Logs /\ Len(Main) \in Nat /\ ckpt \in Checkpoints
         /\ file \in [iter : Nat, root : Nat, content : Commits]
         /\ wal \in Wals /\ wal.iter \in Nat /\ wal.size \in Nat /\ iteration \in Nat
         /\ disk \in [Paths -> Logs] /\ Paths = {"main", "checkpoint", "recovery"}
         /\ Main # <<>> <=> Len(Main) > 0
<1>1. SafeInv  BY DEF OpensInv
<1>2. Main \in Logs /\ Len(Main) \in Nat /\ disk \in [Paths -> Logs]  BY <1>1, SafeFacts
<1>3. /\ ckpt \in Checkpoints /\ wal \in Wals /\ iteration \in Nat
      /\ file \in [iter : Nat, root : Nat, content : Commits]
  BY <1>1 DEF SafeInv, AbortInv, TypeInv
<1>4. wal.iter \in Nat /\ wal.size \in Nat  BY <1>3 DEF Wals
<1>5. Main # <<>> <=> Len(Main) > 0  BY <1>2 DEF Logs
<1> QED BY <1>1, <1>2, <1>3, <1>4, <1>5 DEF Paths

\* The first entry of a log that is still written stays, is cut short or goes.
LEMMA NameStays ==
  ASSUME OpensInv, file' = file, mode = "running", ckpt.pc # "finish",
         Main' # <<>> => \/ Main'[1].kind = "torn" \/ Main'[1] = Version(file.iter)
                         \/ Main # <<>> /\ Main'[1] = Main[1]
  PROVE  NameInv'
BY DEF OpensInv, NameInv, OneBehind

\* A step that leaves the log, the file and the block manager alone.
LEMMA OpensElsewhere ==
  ASSUME OpensInv, SafeInv', mode' = mode,
         UNCHANGED <<setup, file, disk, replayState, iteration, wal>>,
         ckpt'.pc = ckpt.pc /\ ckpt'.hasWal = ckpt.hasWal
  PROVE  OpensInv'
<1>1. Main' = Main  BY DEF Main
<1>2. IterationInv'  BY DEF OpensInv, IterationInv
<1>3. NameInv'  BY <1>1 DEF OpensInv, NameInv, OneBehind
<1> QED BY <1>2, <1>3 DEF OpensInv

\* What is written to the main log goes behind its name.
LEMMA OpensWrites ==
  ASSUME OpensInv, wal.path = "main", mode = "running", ckpt.pc \in {"idle", "start"},
         NEW new \in Logs, WriteEntries(new), file' = file
  PROVE  NameInv' /\ wal'.path = "main" /\ wal'.iter = wal.iter
<1>1. /\ Main \in Logs /\ Len(Main) \in Nat /\ iteration = file.iter /\ wal.iter = NoIter
      /\ wal \in Wals /\ disk \in [Paths -> Logs] /\ "main" \in Paths
      /\ Main = disk[wal.path] /\ wal.size <= Len(Main) /\ wal.size \in Nat
  <2>1. wal.size <= Len(disk[wal.path])  BY DEF OpensInv, SafeInv, AbortInv, ControlInv
  <2> QED BY <2>1, OpensFacts DEF OpensInv, IterationInv, Main
<1>2. Main' = WithHeader(Opened) \o new  BY <1>1 DEF WriteEntries, Main
<1>3. wal'.path = wal.path /\ wal'.iter = wal.iter  BY <1>1 DEF WriteEntries, Wals
<1>4. Opened \in Logs /\ (Opened # <<>> => Main # <<>> /\ Opened[1] = Main[1])
  <2>1. CASE wal.state = "requires_truncate"
    <3>1. Opened = SubSeq(Main, 1, wal.size)  BY <1>1, <2>1 DEF Opened
    <3>2. Opened \in Logs /\ Len(Opened) = wal.size
          /\ \A i \in 1 .. wal.size : Opened[i] = Main[i]
      BY <1>1, <3>1, Prefix DEF Logs
    <3>3. Opened # <<>> => wal.size > 0  BY <1>1, <3>2 DEF Logs
    <3>4. Main = <<>> => Len(Main) = 0  BY <1>1
    <3> QED BY <1>1, <3>2, <3>3, <3>4
  <2>2. CASE wal.state # "requires_truncate"
    BY <1>1, <2>2 DEF Opened
  <2> QED BY <2>1, <2>2
<1>5. /\ WithHeader(Opened) \in Logs /\ Len(WithHeader(Opened)) > 0
      /\ WithHeader(Opened)[1] = Version(file.iter)
         \/ (Main # <<>> /\ WithHeader(Opened)[1] = Main[1])
  <2>1. CASE Opened = <<>>
    <3>1. WithHeader(Opened) = <<Version(iteration)>>  BY <1>1, <2>1 DEF WithHeader
    <3>2. Version(iteration) \in Entries  BY EntryTypes, OpensFacts
    <3> QED BY <1>1, <3>1, <3>2 DEF Logs
  <2>2. CASE Opened # <<>>
    <3>1. WithHeader(Opened) = Opened  BY <2>2 DEF WithHeader
    <3>2. Len(Opened) > 0  BY <1>4, <2>2 DEF Logs
    <3> QED BY <1>4, <2>2, <3>1, <3>2
  <2> QED BY <2>1, <2>2
<1> DEFINE L == WithHeader(Opened)
<1>6. Main'[1] = L[1]
  <2>1. Len(L) \in Nat /\ 1 \in 1 .. Len(L)  BY <1>5 DEF Logs
  <2> HIDE DEF L
  <2>2. \A i \in 1 .. Len(L) : (L \o new)[i] = L[i]  BY <1>5, Concatenated DEF L
  <2> QED BY <1>2, <2>1, <2>2 DEF L
<1>7. NameInv'  BY <1>5, <1>6, NameStays
<1> QED BY <1>3, <1>7

LEMMA OpensCommits ==
  ASSUME OpensInv, SafeInv',
         (\E t \in Txns : WriteToWAL(t)) \/ CommitAndFlush \/ Acknowledge \/ RevertCommit
  PROVE  OpensInv'
<1>0. /\ mode = "running" /\ UNCHANGED <<setup, file, mode, replayState, iteration, ckpt>>
  BY DEF WriteToWAL, CommitAndFlush, Acknowledge, RevertCommit, Running, boundVars, diskVars
<1>1. CASE Acknowledge
  <2>1. UNCHANGED <<disk, wal>>  BY <1>1 DEF Acknowledge, diskVars
  <2> QED BY <1>0, <2>1, OpensElsewhere
<1>2. ASSUME ckpt.pc = "idle", wal'.path = "main", wal'.iter = wal.iter, wal.path = "main", NameInv'
      PROVE  OpensInv'
  <2>1. IterationInv'  BY <1>0, <1>2 DEF OpensInv, IterationInv
  <2> QED BY <1>2, <2>1 DEF OpensInv
<1>3. ASSUME NEW t \in Txns, WriteToWAL(t) PROVE OpensInv'
  <2>1. ckpt = NoCheckpoint /\ WriteEntries(<<Data(t)>>)
    BY <1>3 DEF WriteToWAL, Quiet, OpensInv, SafeInv, SerialInv
  <2>2. ckpt.pc = "idle" /\ wal.path = "main"
    BY <2>1 DEF NoCheckpoint, OpensInv, SafeInv, SerialInv
  <2>3. <<Data(t)>> \in Logs  BY EntryTypes DEF Logs
  <2>4. NameInv' /\ wal'.path = "main" /\ wal'.iter = wal.iter
    BY <1>0, <2>1, <2>2, <2>3, OpensWrites
  <2> QED BY <1>2, <2>2, <2>4
<1>4. CASE CommitAndFlush \/ RevertCommit
  <2>1. writer.pc = "written" /\ ckpt.pc = "idle"
    BY <1>4 DEF CommitAndFlush, RevertCommit, OpensInv, SafeInv, SerialInv
  <2>2. wal.path = "main" /\ Main = disk[wal.path]
    BY <2>1 DEF OpensInv, SafeInv, SerialInv, Main
  <2>3. Main # <<>> /\ Main \in Logs /\ Len(Main) > 0
    <3>1. Main # <<>>  BY <1>0, <2>1, <2>2 DEF OpensInv, SafeInv, OpenLogInv
    <3> QED BY <3>1, OpensFacts
  <2>4. wal'.path = wal.path /\ wal'.iter = wal.iter
    BY <1>4, OpensFacts DEF CommitAndFlush, RevertCommit, Synced, Wals
  <2>5. Main' # <<>> => Main'[1] = Main[1]
    <3>1. CASE CommitAndFlush
      <4>1. Main' = Main \o <<Flush>>
        BY <2>2, <3>1, OpensFacts DEF CommitAndFlush, Main
      <4>2. <<Flush>> \in Logs  BY EntryTypes DEF Logs
      <4>3. 1 \in 1 .. Len(Main)  BY <2>3, OpensFacts
      <4> QED BY <2>3, <4>1, <4>2, <4>3, Concatenated
    <3>2. CASE RevertCommit
      <4>1. Main' = SubSeq(Main, 1, writer.size)
        BY <2>2, <3>2, OpensFacts DEF RevertCommit, Main
      <4>2. writer.size \in 0 .. Len(Main)
        <5>1. writer.size <= Len(Main)
          BY <2>1, <2>2 DEF OpensInv, SafeInv, AbortInv, AbsentInv
        <5>2. writer.size \in Nat  BY DEF OpensInv, SafeInv, AbortInv, TypeInv
        <5> QED BY <5>1, <5>2, OpensFacts
      <4>3. /\ Main' \in Logs /\ Len(Main') = writer.size
            /\ \A i \in 1 .. writer.size : Main'[i] = Main[i]
        BY <2>3, <4>1, <4>2, Prefix DEF Logs
      <4>4. Main' # <<>> => 1 \in 1 .. writer.size  BY <4>2, <4>3 DEF Logs
      <4> QED BY <4>3, <4>4
    <3> QED BY <1>4, <3>1, <3>2
  <2>6. NameInv'  BY <1>0, <2>1, <2>3, <2>5, NameStays
  <2> QED BY <1>2, <2>1, <2>2, <2>4, <2>6
<1> QED BY <1>1, <1>3, <1>4

LEMMA OpensCheckpoints ==
  ASSUME OpensInv, SafeInv', Checkpoint \/ WALStartCheckpoint \/ WALSwitch \/ NextIteration
  PROVE  OpensInv'
<1>0. /\ mode = "running" /\ UNCHANGED <<setup, file, mode, replayState>>
  BY DEF Checkpoint, WALStartCheckpoint, WALSwitch, NextIteration, Running, boundVars, diskVars
<1>1. CASE Checkpoint
  <2>1. /\ UNCHANGED <<disk, iteration, wal>> /\ wal.size > 0 /\ ckpt.pc = "idle"
        /\ ckpt' = [NoCheckpoint EXCEPT !.pc = "start"]
    BY <1>1 DEF Checkpoint, diskVars, NoCheckpoint
  <2>2. ckpt'.pc = "start"  BY <2>1 DEF NoCheckpoint
  <2>3. IterationInv'  BY <1>0, <2>1, <2>2 DEF OpensInv, IterationInv
  <2>4. Main' = Main  BY <2>1 DEF Main
  <2>5. NameInv'  BY <1>0, <2>1, <2>4, NameStays
  <2> QED BY <2>3, <2>5 DEF OpensInv
<1>2. CASE WALStartCheckpoint
  <2>1. ckpt.pc = "start" /\ wal.size > 0 /\ wal.path = "main" /\ UNCHANGED iteration
    BY <1>2 DEF WALStartCheckpoint, OpensInv, IterationInv, SafeInv, SerialInv
  <2>2. PICK r \in Roots \ {file.root} :
          ckpt' = [ckpt EXCEPT !.root = r, !.content = mem, !.hasWal = wal.size > 0,
                               !.pc = IF wal.size > 0 THEN "marked" ELSE "blocks"]
    BY <1>2 DEF WALStartCheckpoint
  <2>3. ckpt'.pc = "marked" /\ ckpt'.hasWal /\ ckpt'.root = r
    BY <2>1, <2>2, OpensFacts DEF Checkpoints
  <2>4. WriteEntries(<<Marker(ckpt'.root), Flush>>)  BY <1>2, <2>1 DEF WALStartCheckpoint
  <2>5. <<Marker(ckpt'.root), Flush>> \in Logs
    <3>1. r \in Nat  BY RootsAssumption
    <3>2. Marker(r) \in Entries /\ Flush \in Entries  BY <3>1, EntryTypes
    <3> QED BY <2>3, <3>2 DEF Logs
  <2>6. NameInv' /\ wal'.path = "main" /\ wal'.iter = wal.iter
    BY <1>0, <2>1, <2>4, <2>5, OpensWrites
  <2>7. IterationInv'  BY <1>0, <2>1, <2>3, <2>6 DEF OpensInv, IterationInv
  <2> QED BY <2>6, <2>7 DEF OpensInv
<1>3. CASE WALSwitch
  <2>1. /\ ckpt.pc = "marked" /\ ckpt' = [ckpt EXCEPT !.pc = "blocks"] /\ UNCHANGED iteration
        /\ wal' = NewWal("checkpoint", 0, "no_wal", iteration + 1)
        /\ disk' = [disk EXCEPT !["checkpoint"] = <<>>]
    BY <1>3 DEF WALSwitch
  <2>2. ckpt'.pc = "blocks" /\ ckpt'.hasWal = ckpt.hasWal /\ wal'.path = "checkpoint"
    BY <2>1, OpensFacts DEF Checkpoints, NewWal
  <2>3. Main' = Main  BY <2>1, OpensFacts DEF Main
  <2>4. NameInv'  BY <1>0, <2>1, <2>3, NameStays
  <2>5. IterationInv'  BY <1>0, <2>1, <2>2 DEF OpensInv, IterationInv
  <2> QED BY <2>4, <2>5 DEF OpensInv
<1>4. CASE NextIteration
  <2>1. /\ ckpt.pc = "blocks" /\ ckpt' = [ckpt EXCEPT !.pc = "header"]
        /\ iteration' = iteration + 1 /\ UNCHANGED <<disk, wal>>
    BY <1>4 DEF NextIteration, diskVars
  <2>2. ckpt'.pc = "header" /\ ckpt'.hasWal = ckpt.hasWal  BY <2>1, OpensFacts DEF Checkpoints
  <2>3. Main' = Main  BY <2>1 DEF Main
  <2>4. NameInv'  BY <1>0, <2>1, <2>3, NameStays
  <2>5. iteration' = file.iter + 1
    <3>1. iteration = file.iter + 0 /\ file.iter \in Nat
      BY <1>0, <2>1, OpensFacts DEF OpensInv, IterationInv
    <3> QED BY <2>1, <3>1
  <2>6. IterationInv'  BY <1>0, <2>1, <2>2, <2>5 DEF OpensInv, IterationInv
  <2> QED BY <2>4, <2>6 DEF OpensInv
<1> QED BY <1>1, <1>2, <1>3, <1>4

\* The header makes the log one behind, and its last marker says why.
LEMMA OpensCheckpointEnds ==
  ASSUME OpensInv, SafeInv', WriteHeader \/ WALFinishCheckpoint \/ CheckpointDone
  PROVE  OpensInv'
<1>0. /\ mode = "running" /\ UNCHANGED <<setup, mode, replayState, iteration>>
  BY DEF WriteHeader, WALFinishCheckpoint, CheckpointDone, Running, boundVars, diskVars
<1>1. CASE WriteHeader
  <2>1. /\ ckpt.pc = "header" /\ ckpt.hasWal
        /\ file' = [iter |-> iteration, root |-> ckpt.root, content |-> ckpt.content]
        /\ ckpt' = [ckpt EXCEPT !.pc = "finish"] /\ UNCHANGED <<disk, wal>>
    BY <1>1 DEF WriteHeader, OpensInv, IterationInv
  <2>2. ckpt'.pc = "finish" /\ ckpt'.hasWal = ckpt.hasWal  BY <2>1, OpensFacts DEF Checkpoints
  <2>3. file'.iter = iteration /\ file'.root = ckpt.root /\ iteration = file.iter + 1
    BY <1>0, <2>1 DEF OpensInv, IterationInv
  <2>4. Main' = Main /\ file.iter \in Nat  BY <2>1, OpensFacts DEF Main
  <2>5. IterationInv'
    <3>1. iteration' = file'.iter + 0  BY <1>0, <2>3, <2>4
    <3> QED BY <1>0, <2>1, <2>2, <3>1 DEF OpensInv, IterationInv
  <2>6. NameInv'
    <3> SUFFICES ASSUME Main # <<>>, Main[1].kind # "torn" PROVE OneBehind'
      BY <2>4 DEF NameInv
    <3>1. Main[1] = Version(file.iter)  BY <1>0, <2>1 DEF OpensInv, NameInv, OneBehind
    <3>2. LastMarker(Main, ckpt.root)  BY <2>1 DEF OpensInv, SafeInv, MarkerInv
    <3> QED BY <2>2, <2>3, <2>4, <3>1, <3>2 DEF OneBehind, Version
  <2> QED BY <2>5, <2>6 DEF OpensInv
<1>2. CASE WALFinishCheckpoint
  <2>1. /\ ckpt.pc = "finish" /\ ckpt' = [ckpt EXCEPT !.pc = "done"] /\ file' = file
        /\ wal.state = "no_wal"
    BY <1>2 DEF WALFinishCheckpoint, OpensInv, IterationInv, SafeInv, SerialInv
  <2>2. /\ disk' = [disk EXCEPT !["main"] = <<>>]
        /\ wal' = NewWal("main", 0, "no_wal", NoIter)
    BY <1>2, <2>1 DEF WALFinishCheckpoint
  <2>3. ckpt'.pc = "done"  BY <2>1, OpensFacts DEF Checkpoints
  <2>4. wal'.iter = NoIter  BY <2>2 DEF NewWal
  <2>5. Main' = <<>>  BY <2>2, OpensFacts DEF Main
  <2>6. IterationInv'  BY <1>0, <2>1, <2>3, <2>4 DEF OpensInv, IterationInv
  <2> QED BY <2>5, <2>6 DEF OpensInv, NameInv
<1>3. CASE CheckpointDone
  <2>1. ckpt.pc = "done" /\ ckpt' = NoCheckpoint /\ UNCHANGED <<file, disk, wal>>
    BY <1>3 DEF CheckpointDone, diskVars
  <2>2. ckpt'.pc = "idle"  BY <2>1 DEF NoCheckpoint
  <2>3. Main' = Main  BY <2>1 DEF Main
  <2>4. NameInv'  BY <1>0, <2>1, <2>3, NameStays
  <2>5. IterationInv'  BY <1>0, <2>1, <2>2 DEF OpensInv, IterationInv
  <2> QED BY <2>4, <2>5 DEF OpensInv
<1> QED BY <1>1, <1>2, <1>3

\* A crash may cut the first entry of the log short; a log that is one behind is
\* no longer written when the crash comes.
LEMMA OpensCrash ==
  ASSUME OpensInv, SafeInv', Crash
  PROVE  OpensInv'
<1>1. /\ mode' = "closed" /\ replayState' = "main_wal" /\ ckpt' = NoCheckpoint
      /\ UNCHANGED <<setup, file>>
      /\ IF mode = "running"
         THEN \E es \in Remains(disk[wal.path]) : disk' = [disk EXCEPT ![wal.path] = es]
         ELSE UNCHANGED disk
  BY DEF Crash, Forget, Running
<1>2. IterationInv'  BY <1>1 DEF OpensInv, IterationInv, NoCheckpoint
<1>3. ASSUME Main' = Main PROVE NameInv'
  BY <1>1, <1>3 DEF OpensInv, NameInv, OneBehind
<1>4. CASE mode # "running"  BY <1>1, <1>2, <1>3, <1>4 DEF OpensInv, Main
<1>5. CASE mode = "running"
  <2>1. PICK es \in Remains(disk[wal.path]) : disk' = [disk EXCEPT ![wal.path] = es]
    BY <1>1, <1>5
  <2>2. CASE wal.state # "initialized"
    <3>1. es = disk[wal.path]  BY <2>1, <2>2 DEF Remains
    <3>2. Main' = Main
      BY <2>1, <3>1, OpensFacts, SafeFacts DEF Main
    <3> QED BY <1>2, <1>3, <3>2 DEF OpensInv
  <2>3. CASE wal.state = "initialized"
    <3>1. wal.path = "main" /\ ckpt.pc # "finish"
      <4>1. wal.path # "checkpoint" /\ ckpt.pc # "finish"
        BY <2>3 DEF OpensInv, IterationInv, SafeInv, SerialInv
      <4> QED BY <4>1 DEF OpensInv, SafeInv, SerialInv
    <3>2. /\ Main' = es /\ disk[wal.path] = Main /\ wal.synced <= Len(Main)
          /\ Main \in Logs /\ Len(Main) \in Nat /\ wal.synced \in Nat
      <4>1. Main' = es /\ disk[wal.path] = Main /\ Main \in Logs /\ Len(Main) \in Nat
        BY <2>1, <3>1, OpensFacts DEF Main
      <4>2. SyncedLength = wal.synced  BY <2>3 DEF SyncedLength
      <4> QED BY <4>1, <4>2, OpensFacts, SafeFacts
    <3>3. \/ es = Main
          \/ \E n \in wal.synced .. Len(Main) :
               /\ Len(es) \in n .. n + 1 /\ \A i \in 1 .. n : es[i] = Main[i]
               /\ Len(es) = n + 1 => es[n + 1].kind = "torn"
      <4>1. TypeInv  BY DEF OpensInv, SafeInv, AbortInv
      <4> QED BY <2>1, <3>2, <4>1, RemainsIs
    <3>4. CASE es = Main  BY <1>2, <1>3, <3>2, <3>4 DEF OpensInv
    <3>5. CASE es # Main
      <4>1. PICK n \in wal.synced .. Len(Main) :
               /\ Len(es) \in n .. n + 1 /\ \A i \in 1 .. n : es[i] = Main[i]
               /\ Len(es) = n + 1 => es[n + 1].kind = "torn"
        BY <3>3, <3>5
      <4>2. es \in Logs
        <5>1. TypeInv  BY DEF OpensInv, SafeInv, AbortInv
        <5> QED BY <2>1, <3>2, <5>1, RemainsIs
      <4>3. CASE n = 0
        <5>1. es # <<>> => Len(es) = 1 /\ es[1].kind = "torn"
          <6>1. es # <<>> => Len(es) > 0 /\ Len(es) \in Nat  BY <4>2 DEF Logs
          <6> QED BY <4>1, <4>3, <6>1
        <5> QED BY <1>1, <1>2, <1>5, <3>1, <3>2, <5>1, NameStays DEF OpensInv
      <4>4. CASE n # 0
        <5>1. 1 \in 1 .. n /\ Len(Main) > 0  BY <3>2, <4>4
        <5>2. es[1] = Main[1] /\ Main # <<>>  BY <4>1, <5>1, OpensFacts
        <5> QED BY <1>1, <1>2, <1>5, <3>1, <3>2, <5>2, NameStays DEF OpensInv
      <4> QED BY <4>3, <4>4
    <3> QED BY <3>4, <3>5
  <2> QED BY <2>2, <2>3
<1> QED BY <1>4, <1>5

\* What recovery reads of the main log.
LEMMA OpensReads ==
  ASSUME OpensInv, mode = "load"
  PROVE  /\ ~LogRefused /\ iteration = file.iter /\ replayState = "main_wal"
         /\ VersionCheck(Main) = "one_behind" => CheckpointWasSuccessful /\ HasMarker
         /\ OneBehind /\ Main # <<>> => CheckpointWasSuccessful
<1>1. /\ NameInv /\ replayState = "main_wal" /\ Main \in Logs /\ Len(Main) \in Nat
      /\ Main # <<>> <=> Len(Main) > 0
  BY OpensFacts DEF OpensInv, IterationInv
<1>2. iteration = file.iter
  <2>1. ckpt.pc = "idle"  BY DEF OpensInv, SafeInv, AbortInv, ControlInv, NoCheckpoint
  <2>2. iteration = file.iter + 0 /\ file.iter \in Nat
    BY <2>1, OpensFacts DEF OpensInv, IterationInv
  <2> QED BY <2>2
<1>3. ASSUME Readable(Main) # <<>> PROVE Main # <<>> /\ Main[1].kind # "torn"
  <2>1. PICK n \in 0 .. Len(Main) :
          /\ Readable(Main) = SubSeq(Main, 1, n) /\ Len(Readable(Main)) = n
          /\ \A i \in 1 .. Len(Main) : Read(Main, i) <=> i <= n
    BY <1>1, ReadableIs
  <2>2. n # 0
    <3>1. SubSeq(Main, 1, n) \in Seq(Entries)  BY <1>1, <2>1, Prefix DEF Logs
    <3> QED BY <1>3, <2>1, <3>1
  <2>3. 1 \in 1 .. Len(Main) /\ Read(Main, 1)  BY <1>1, <2>1, <2>2
  <2> QED BY <1>1, <2>3 DEF Read
<1>4. ASSUME OneBehind, Main # <<>> PROVE CheckpointWasSuccessful
  <2>1. SafeInv  BY DEF OpensInv
  <2> QED BY <1>4, <2>1, SuccessIs DEF OneBehind, LastMarker
<1>5. ASSUME VersionCheck(Main) # "match"
      PROVE  OneBehind /\ Main # <<>> /\ VersionCheck(Main) = "one_behind"
  <2>1. Readable(Main) # <<>> /\ Main[1].val # file.iter
    <3>1. Readable(Main) = <<>> \/ ~setup.identified => VersionCheck(Main) = "match"
      BY DEF VersionCheck
    <3>2. ~(Readable(Main) = <<>> \/ ~setup.identified) /\ Main[1].val = file.iter
            => VersionCheck(Main) = "match"
      BY DEF VersionCheck
    <3> QED BY <1>5, <3>1, <3>2
  <2>2. Main # <<>> /\ Main[1].kind # "torn"  BY <1>3, <2>1
  <2>3. OneBehind  BY <1>1, <2>1, <2>2 DEF NameInv, Version
  <2>4. VersionCheck(Main) = "one_behind"  BY <1>5, <2>3 DEF VersionCheck, OneBehind
  <2> QED BY <2>2, <2>3, <2>4
<1>6. ~LogRefused  BY <1>5 DEF LogRefused, Main
<1>7. VersionCheck(Main) = "one_behind" => CheckpointWasSuccessful /\ HasMarker
  BY <1>4, <1>5 DEF CheckpointWasSuccessful
<1> QED BY <1>1, <1>2, <1>4, <1>6, <1>7

LEMMA OpensRecovery ==
  ASSUME OpensInv, SafeInv',
         OpenFailed \/ LoadDatabase \/ ReplayNothing \/ ReplayMainWal \/ ReplayRefused
  PROVE  OpensInv'
<1>1. ~OpenFailed  BY DEF OpenFailed, OpensInv, IterationInv
<1>2. ~ReplayRefused
  <2> SUFFICES ASSUME ReplayRefused PROVE FALSE  OBVIOUS
  <2>1. mode = "load" /\ (VersionCheck(Main) = "one_behind" =>
                            CheckpointWasSuccessful /\ HasMarker)
        /\ ~LogRefused /\ replayState = "main_wal"
    BY OpensReads DEF ReplayRefused
  <2> QED BY <2>1 DEF ReplayRefused, Main
<1>3. mode \in {"closed", "load"} /\ ckpt.pc = "idle" /\ ckpt' = ckpt /\ UNCHANGED <<setup, file>>
      /\ replayState' = replayState /\ mode' \in {"load", "running"}
  <2>1. mode \in {"closed", "load"} /\ ckpt' = ckpt /\ UNCHANGED <<setup, file>>
        /\ replayState' = replayState /\ mode' \in {"load", "running"}
    BY <1>1, <1>2 DEF LoadDatabase, ReplayNothing, ReplayMainWal, recoveryFrame, boundVars, diskVars
  <2>2. ckpt.pc = "idle"  BY <2>1 DEF OpensInv, SafeInv, AbortInv, ControlInv, NoCheckpoint
  <2> QED BY <2>1, <2>2
<1>4. iteration' = file.iter
  <2>1. CASE LoadDatabase  BY <2>1 DEF LoadDatabase
  <2>2. CASE ReplayNothing \/ ReplayMainWal
    <3>1. mode = "load" /\ iteration' = iteration
      BY <2>2 DEF ReplayNothing, ReplayMainWal, recoveryFrame
    <3> QED BY <3>1, OpensReads
  <2> QED BY <1>1, <1>2, <2>1, <2>2
<1>5. wal'.iter = NoIter \/ mode' # "running"
  BY <1>1, <1>2 DEF LoadDatabase, ReplayNothing, ReplayMainWal, NewWal
<1>6. IterationInv'
  <2>1. iteration' = file'.iter + 0  BY <1>3, <1>4, OpensFacts
  <2> QED BY <1>3, <1>5, <2>1 DEF OpensInv, IterationInv
<1>7. NameInv'
  <2>1. CASE LoadDatabase
    BY <1>3, <2>1 DEF LoadDatabase, diskVars, Main, OpensInv, NameInv, OneBehind
  <2>2. CASE ReplayNothing
    <3>1. Main' = <<>>  BY <2>2, OpensFacts DEF ReplayNothing, Main
    <3> QED BY <3>1 DEF NameInv
  <2>3. CASE ReplayMainWal
    <3>1. /\ Main' = Main /\ ~CheckpointWasSuccessful /\ mode = "load"
      BY <2>3 DEF ReplayMainWal, Main, CheckpointWasSuccessful
    <3>2. Main # <<>> => ~OneBehind  BY <3>1, OpensReads
    <3> QED BY <1>3, <3>1, <3>2 DEF OpensInv, NameInv
  <2> QED BY <1>1, <1>2, <2>1, <2>2, <2>3
<1> QED BY <1>6, <1>7 DEF OpensInv

LEMMA OpensInit ==
  ASSUME Init, ~setup.concurrent, ~setup.bulk
  PROVE  OpensInv
<1>1. SafeInv  BY SafeInit
<1>2. /\ Main = <<>> /\ wal.iter = NoIter /\ ckpt.pc = "idle" /\ mode = "running"
      /\ iteration = 0 /\ file.iter = 0 /\ replayState = "main_wal"
  BY DEF Init, Main, NoCheckpoint, NewWal, Paths
<1> QED BY <1>1, <1>2 DEF OpensInv, IterationInv, NameInv

LEMMA OpensNext ==
  ASSUME OpensInv, [Next]_vars
  PROVE  OpensInv'
<1>0. SafeInv' /\ SafeInv  BY SafeNext DEF OpensInv
<1>1. CASE UNCHANGED vars
  <2>1. UNCHANGED <<setup, file, disk, mode, replayState, iteration, wal, ckpt>>
    BY <1>1 DEF vars
  <2> QED BY <1>0, <2>1, OpensElsewhere
<1>2. \A t \in Txns : ~CommitByCheckpoint(t)
  BY DEF CommitByCheckpoint, OpensInv, IterationInv
<1>3. ~(ReplayCheckpointWal \/ MergeWals \/ MoveRecoveryWal \/ RemoveCheckpointWal)
  BY <1>0 DEF SafeInv, SerialInv, ReplayCheckpointWal, MergeWals, NeedsMerge, MoveRecoveryWal,
              RemoveCheckpointWal
<1>4. CASE Next
  BY <1>0, <1>2, <1>3, <1>4, OpensCommits, OpensCheckpoints, OpensCheckpointEnds, OpensCrash,
     OpensRecovery
  DEF Next
<1> QED BY <1>1, <1>4

\* Where commits neither overlap a checkpoint nor are checkpoints, the database
\* opens after any crashes: the iteration a log names, its last marker and the
\* header of the file never contradict each other.
THEOREM SerialDatabasesOpen == Spec => []SerialAlwaysOpens
<1> DEFINE Inv == setup.concurrent \/ setup.bulk \/ OpensInv
<1>1. Init => Inv  BY OpensInit
<1>2. Inv /\ [Next]_vars => Inv'
  <2> SUFFICES ASSUME Inv, [Next]_vars PROVE Inv'  OBVIOUS
  <2>1. setup' = setup
    BY DEF Next, vars, boundVars, recoveryFrame, WriteToWAL, CommitByCheckpoint, CommitAndFlush,
           Acknowledge, RevertCommit, Checkpoint, WALStartCheckpoint, WALSwitch, NextIteration,
           WriteHeader, WALFinishCheckpoint, CheckpointDone, Crash, OpenFailed, LoadDatabase,
           ReplayNothing, ReplayCheckpointWal, MergeWals, Refuse, MoveRecoveryWal,
           RemoveCheckpointWal, ReplayRefused, ReplayMainWal
  <2>2. CASE OpensInv  BY <2>2, OpensNext
  <2> QED BY <2>1, <2>2
<1>3. Inv => SerialAlwaysOpens  BY DEF SerialAlwaysOpens, OpensInv, IterationInv
<1> QED BY <1>1, <1>2, <1>3, PTL DEF Spec
-----------------------------------------------------------------------------
(* The order of commits, where they do not overlap checkpoints *)

Ordered(commits) ==
  \A i, j \in 1 .. Len(commits) : i < j => Before(commits[i], commits[j])

\* What replay of a log applies is in order, and comes after the file's blocks.
AppliesInOrder(es) ==
  \A i, j \in 1 .. Len(es) :
    i < j /\ Committed(es, i) /\ Committed(es, j) => Before(es[i].val, es[j].val)
Follows(es) ==
  \A i \in 1 .. Len(es) : Committed(es, i) =>
    \A t \in Txns : In(t, file.content) => Before(t, es[i].val)

RootMarked == \E i \in 1 .. Len(Main) : IsMarker(Main, i) /\ Main[i].val = file.root

DataOnce(es) ==
  \A i, j \in 1 .. Len(es) :
    es[i].kind = "data" /\ es[j].kind = "data" /\ es[i].val = es[j].val => i = j

\* Each commit becomes visible once; who has not committed is not in the history.
HistoryInv ==
  /\ history \in Commits
  /\ \A k, l \in 1 .. Len(history) : history[k] = history[l] => k = l
  /\ \A t \in Txns : fate[t] = "new" => ~In(t, history)
  /\ writer.pc = "written" => ~In(writer.txn, history)
  /\ \A t \in Txns : In(t, mem) \/ In(t, file.content) \/ Applies(Main, t) => In(t, history)

\* Memory, the file and what its log adds are in the order of the history.  A
\* log that goes on is never that of a checkpoint which completed.
OrderInv ==
  /\ Ordered(mem) /\ Ordered(file.content)
  /\ DataOnce(Main) /\ AppliesInOrder(Main)
  /\ RootMarked \/ Follows(Main)
  /\ mode = "running" /\ wal.path = "main" => Follows(Main)

OnceInv == SafeInv /\ HistoryInv /\ OrderInv

\* What replay of b applies, replay of a applies as well, at the same place.
Covers(a, b) ==
  \A i \in 1 .. Len(b) : Committed(b, i) =>
    i \in 1 .. Len(a) /\ b[i] = a[i] /\ Committed(a, i)

LEMMA CoversItself ==
  ASSUME NEW es
  PROVE  Covers(es, es) /\ Covers(es, <<>>) /\ DataOnce(<<>>)
BY DEF Covers, DataOnce

LEMMA AppliedIs ==
  ASSUME NEW es, NEW t
  PROVE  Applies(es, t) <=> \E i \in 1 .. Len(es) : Committed(es, i) /\ es[i].val = t
BY DEF Applies, AppliesTo, Committed

\* Logs that agree up to n, where b commits nothing behind n.
LEMMA AgreeCovers ==
  ASSUME NEW a \in Logs, NEW b \in Logs, NEW n \in Nat, Agree(a, b, n),
         \A i \in n + 1 .. Len(b) : b[i].kind = "data" =>
           \A f \in i .. Len(b) : ~IsFlush(b, f),
         n = 0 \/ IsFlush(a, n) \/ \A f \in n + 1 .. Len(b) : ~IsFlush(b, f)
  PROVE  Covers(a, b)
<1>1. Len(a) \in Nat /\ Len(b) \in Nat  BY DEF Logs
<1> SUFFICES ASSUME NEW i \in 1 .. Len(b), Committed(b, i)
             PROVE  i \in 1 .. Len(a) /\ b[i] = a[i] /\ Committed(a, i)
  BY DEF Covers
<1>2. PICK f \in 1 .. Len(b) : IsFlush(b, f) /\ i <= f  BY DEF Committed
<1>3. i \in 1 .. n
  <2>1. ~(i \in n + 1 .. Len(b))
    <3>1. f \in i .. Len(b)  BY <1>1, <1>2
    <3> QED BY <1>2, <3>1 DEF Committed
  <2> QED BY <1>1, <2>1
<1>4. i \in 1 .. Len(a) /\ b[i] = a[i] /\ n \in 1 .. Len(a)  BY <1>1, <1>3 DEF Agree
<1>5. \E g \in 1 .. Len(a) : IsFlush(a, g) /\ i <= g
  <2>1. CASE f \in 1 .. n
    <3>1. IsFlush(a, f) /\ f \in 1 .. Len(a)  BY <1>1, <1>2, <1>4, <2>1, AgreeReads
    <3> QED BY <1>2, <3>1
  <2>2. CASE f \notin 1 .. n
    <3>1. f \in n + 1 .. Len(b)  BY <1>1, <2>2
    <3>2. IsFlush(a, n)  BY <1>2, <1>3, <3>1
    <3> QED BY <1>3, <1>4, <3>2
  <2> QED BY <2>1, <2>2
<1> QED BY <1>4, <1>5 DEF Committed

\* Behind n there is at most one new entry, of a transaction not yet in the log.
LEMMA AgreeOnce ==
  ASSUME NEW a \in Logs, NEW b \in Logs, NEW n \in Nat, Agree(a, b, n), DataOnce(a),
         \A i, j \in n + 1 .. Len(b) : b[i].kind = "data" /\ b[j].kind = "data" => i = j,
         \A i \in n + 1 .. Len(b) : b[i].kind = "data" => ~Has(a, b[i].val)
  PROVE  DataOnce(b)
<1>1. Len(a) \in Nat /\ Len(b) \in Nat  BY DEF Logs
<1>2. \A i \in 1 .. Len(b) : \/ i \in 1 .. n /\ i \in 1 .. Len(a) /\ b[i] = a[i]
                             \/ i \in n + 1 .. Len(b)
  BY <1>1 DEF Agree
<1> SUFFICES ASSUME NEW i \in 1 .. Len(b), NEW j \in 1 .. Len(b),
                    b[i].kind = "data", b[j].kind = "data", b[i].val = b[j].val
             PROVE  i = j
  BY DEF DataOnce
<1>3. CASE i \in n + 1 .. Len(b) /\ j \in n + 1 .. Len(b)  BY <1>3
<1>4. CASE i \in n + 1 .. Len(b) /\ j \notin n + 1 .. Len(b)  BY <1>2, <1>4 DEF Has
<1>5. CASE i \notin n + 1 .. Len(b) /\ j \in n + 1 .. Len(b)  BY <1>2, <1>5 DEF Has
<1>6. CASE i \notin n + 1 .. Len(b) /\ j \notin n + 1 .. Len(b)  BY <1>2, <1>6 DEF DataOnce
<1> QED BY <1>3, <1>4, <1>5, <1>6

LEMMA OnceFacts ==
  ASSUME OnceInv
  PROVE  /\ SafeInv /\ Main \in Logs /\ Len(Main) \in Nat /\ mem \in Commits
         /\ file \in [iter : Nat, root : Nat, content : Commits] /\ fate \in [Txns -> Fates]
         /\ disk \in [Paths -> Logs] /\ "main" \in Paths /\ "checkpoint" \in Paths
         /\ wal \in Wals /\ wal.size \in Nat /\ wal.synced \in Nat
         /\ history \in Commits /\ Len(history) \in Nat
         /\ \A t, u : Before(t, u) <=>
              \E k, l \in 1 .. Len(history) : k < l /\ history[k] = t /\ history[l] = u
<1>1. SafeInv /\ history \in Commits  BY DEF OnceInv, HistoryInv
<1>2. /\ file \in [iter : Nat, root : Nat, content : Commits] /\ fate \in [Txns -> Fates]
  BY <1>1 DEF SafeInv, AbortInv, TypeInv
<1>3. Len(history) \in Nat /\ DOMAIN history = 1 .. Len(history)  BY <1>1 DEF Commits
<1> QED BY <1>1, <1>2, <1>3, SafeFacts DEF Before

\* A step that commits nothing: memory stays, goes, or is read from the file.
LEMMA OnceCarries ==
  ASSUME OnceInv, SafeInv', history' = history, file' = file,
         mem' \in {mem, file.content, <<>>}, Covers(Main, Main'), DataOnce(Main'),
         \A t \in Txns : fate'[t] = "new" => fate[t] = "new",
         writer'.pc = "written" => \/ writer.pc = "written" /\ writer'.txn = writer.txn
                                   \/ writer'.txn \in Txns /\ fate[writer'.txn] = "new",
         Main' = <<>> \/ RootMarked' \/ Follows(Main),
         mode' = "running" /\ wal'.path = "main" => Main' = <<>> \/ Follows(Main)
  PROVE  OnceInv'
<1>1. \A t, u : Before(t, u)' <=> Before(t, u)  BY DEF Before
<1>2. \A t : Applies(Main', t) => Applies(Main, t)  BY AppliedIs DEF Covers
<1>3. Ordered(mem)' /\ Ordered(file.content)'
  <2>1. \A s : Ordered(s) => \A i, j \in 1 .. Len(s) : i < j => Before(s[i], s[j])'
    BY <1>1 DEF Ordered
  <2>2. Ordered(mem) /\ Ordered(file.content) /\ Ordered(<<>>)
    BY NothingThere DEF OnceInv, OrderInv, Ordered
  <2>3. Ordered(mem')  BY <2>2
  <2> QED BY <2>1, <2>2, <2>3 DEF Ordered
<1>4. HistoryInv'
  <2>1. \A t \in Txns : In(t, mem') => In(t, mem) \/ In(t, file.content)  BY NothingThere
  <2> QED BY <1>2, <2>1 DEF OnceInv, HistoryInv
<1>5. AppliesInOrder(Main)' /\ (Follows(Main) => Follows(Main)')
  BY <1>1 DEF OnceInv, OrderInv, AppliesInOrder, Follows, Covers
<1>6. Main' = <<>> => Follows(Main)'
  <2>1. Len(<<>>) = 0  OBVIOUS
  <2> QED BY <2>1 DEF Follows
<1>7. OrderInv'  BY <1>3, <1>5, <1>6 DEF OrderInv
<1> QED BY <1>4, <1>7 DEF OnceInv

\* The same where the log stays too.
LEMMA OnceElsewhere ==
  ASSUME OnceInv, SafeInv', history' = history, file' = file, Main' = Main,
         mem' \in {mem, file.content, <<>>},
         \A t \in Txns : fate'[t] = "new" => fate[t] = "new",
         writer'.pc = "written" => writer' = writer,
         mode' = "running" /\ wal'.path = "main" => Follows(Main)
  PROVE  OnceInv'
<1>1. RootMarked' \/ Follows(Main)  BY DEF OnceInv, OrderInv, RootMarked
<1>2. Covers(Main, Main') /\ DataOnce(Main')  BY CoversItself DEF OnceInv, OrderInv
<1> QED BY <1>1, <1>2, OnceCarries

LEMMA OnceWriteToWAL ==
  ASSUME OnceInv, SafeInv', NEW t \in Txns, WriteToWAL(t)
  PROVE  OnceInv'
<1> DEFINE new == <<Data(t)>>
<1>1. /\ mode = "running" /\ writer.pc = "idle" /\ ckpt.pc = "idle" /\ fate[t] = "new"
      /\ walLock = "free"
      /\ fate' = [fate EXCEPT ![t] = "committing"] /\ writer'.txn = t
      /\ UNCHANGED <<file, mode, mem, history>>
  BY DEF WriteToWAL, Running, OnceInv, SafeInv, SerialInv, Quiet, NoWriter, NoCheckpoint
<1>2. wal.path = "main" /\ disk[wal.path] = Main
  BY <1>1 DEF OnceInv, SafeInv, SerialInv, Main
<1>3. PICK k \in Nat : Extends(Main, KeptLength, k, new, Main')
  <2>1. new \in Logs /\ WriteEntries(new)  BY <1>1, EntryTypes DEF WriteToWAL, Logs
  <2>2. TypeInv /\ wal.size <= Len(disk[wal.path])
    BY DEF OnceInv, SafeInv, AbortInv, ControlInv
  <2> HIDE DEF new
  <2>3. Main' = disk'[wal.path]  BY <1>2 DEF Main
  <2> QED BY <1>2, <2>1, <2>2, <2>3, WriteEntriesIs
<1>4. /\ Main' \in Logs /\ KeptLength \in Nat /\ Agree(Main, Main', KeptLength)
      /\ \A i \in KeptLength + 1 .. Len(Main') :
           Main'[i].kind = "version" \/ (Main'[i] = Data(t) /\ i = k + 1)
  <2>1. new \in Logs /\ Len(new) = 1 /\ new[1] = Data(t) /\ \A j \in 1 .. 1 : j = 1
    BY EntryTypes DEF Logs
  <2> HIDE DEF new
  <2>2. /\ Main' \in Logs /\ KeptLength \in Nat /\ Agree(Main, Main', KeptLength)
        /\ Added(KeptLength, k, new, Main')
    BY <1>3, <2>1, OnceFacts, ExtendsAgree
  <2> QED BY <2>1, <2>2 DEF Added
<1>5. \A f \in KeptLength + 1 .. Len(Main') : ~IsFlush(Main', f)
  BY <1>4 DEF IsFlush, Data
<1>6. Covers(Main, Main')
  <2>1. \A i \in KeptLength + 1 .. Len(Main') : \A f \in i .. Len(Main') : ~IsFlush(Main', f)
    BY <1>4, <1>5
  <2> QED BY <1>4, <1>5, <2>1, OnceFacts, AgreeCovers
<1>7. DataOnce(Main')
  <2>1. ~Has(Main, t)
    BY <1>1, OnceFacts DEF OnceInv, SafeInv, AbortInv, AbsentInv, Main
  <2>2. \A i \in KeptLength + 1 .. Len(Main') :
          Main'[i].kind = "data" => i = k + 1 /\ ~Has(Main, Main'[i].val)
    BY <1>4, <2>1 DEF Data
  <2>3. DataOnce(Main)  BY DEF OnceInv, OrderInv
  <2> QED BY <1>4, <2>2, <2>3, OnceFacts, AgreeOnce
<1>8. Follows(Main)  BY <1>1, <1>2 DEF OnceInv, OrderInv
<1>9. \A u \in Txns : fate'[u] = "new" => fate[u] = "new"  BY <1>1, OnceFacts
<1> QED BY <1>1, <1>6, <1>7, <1>8, <1>9, OnceCarries

LEMMA OnceRevertCommit ==
  ASSUME OnceInv, SafeInv', RevertCommit
  PROVE  OnceInv'
<1>1. /\ mode = "running" /\ writer.pc = "written" /\ writer' = NoWriter
      /\ fate' = [fate EXCEPT ![writer.txn] = "aborted"] /\ ckpt.pc = "idle"
      /\ UNCHANGED <<file, mode, mem, history>>
  BY DEF RevertCommit, Running, OnceInv, SafeInv, SerialInv
<1>2. wal.path = "main" /\ disk[wal.path] = Main
  BY <1>1 DEF OnceInv, SafeInv, SerialInv, Main
<1>3. Main' = SubSeq(Main, 1, writer.size)
  BY <1>2, OnceFacts DEF RevertCommit, Main
<1>4. writer.size \in 0 .. Len(Main)
  <2>1. writer.size <= Len(Main) /\ writer.size \in Nat
    BY <1>1, <1>2 DEF OnceInv, SafeInv, AbortInv, AbsentInv, TypeInv
  <2> QED BY <2>1, OnceFacts
<1>5. /\ Main' \in Logs /\ Len(Main') = writer.size /\ writer.size \in Nat
      /\ Agree(Main, Main', writer.size)
  <2>1. /\ Main' \in Logs /\ Len(Main') = writer.size
        /\ \A i \in 1 .. writer.size : Main'[i] = Main[i]
    BY <1>3, <1>4, OnceFacts, Prefix DEF Logs
  <2> QED BY <1>4, <2>1 DEF Agree
<1>6. \A i : i \notin writer.size + 1 .. Len(Main')  BY <1>5
<1>7. Covers(Main, Main')  BY <1>5, <1>6, OnceFacts, AgreeCovers
<1>8. DataOnce(Main')
  <2>1. DataOnce(Main)  BY DEF OnceInv, OrderInv
  <2> QED BY <1>5, <1>6, <2>1, OnceFacts, AgreeOnce
<1>9. Follows(Main)  BY <1>1, <1>2 DEF OnceInv, OrderInv
<1>10. \A u \in Txns : fate'[u] = "new" => fate[u] = "new"  BY <1>1, OnceFacts
<1>11. writer'.pc # "written"  BY <1>1 DEF NoWriter
<1> QED BY <1>1, <1>7, <1>8, <1>9, <1>10, <1>11, OnceCarries

\* A commit becomes visible: it comes after all that are.
LEMMA HistoryGrows ==
  ASSUME OnceInv, NEW t \in Txns, history' = Append(history, t)
  PROVE  /\ history' \in Commits /\ \A u : In(u, history') <=> In(u, history) \/ u = t
         /\ \A u, v : Before(u, v) => Before(u, v)'
         /\ \A u : In(u, history) => Before(u, t)'
         /\ ~In(t, history) =>
              \A k, l \in 1 .. Len(history') : history'[k] = history'[l] => k = l
<1>1. /\ history' \in Commits /\ Len(history') = Len(history) + 1 /\ Len(history) \in Nat
      /\ \A k \in 1 .. Len(history) : history'[k] = history[k]
      /\ history'[Len(history) + 1] = t
  BY OnceFacts, AppendProperties DEF Commits
<1>2. \A u : In(u, history') <=> In(u, history) \/ u = t  BY OnceFacts, Appended
<1>3. DOMAIN history' = 1 .. Len(history) + 1  BY <1>1 DEF Commits
<1>4. \A u, v : Before(u, v) => Before(u, v)'
  <2> SUFFICES ASSUME NEW u, NEW v, Before(u, v) PROVE Before(u, v)'  OBVIOUS
  <2>1. PICK k, l \in 1 .. Len(history) : k < l /\ history[k] = u /\ history[l] = v
    BY OnceFacts
  <2>2. k \in DOMAIN history' /\ l \in DOMAIN history'  BY <1>1, <1>3
  <2> QED BY <1>1, <2>1, <2>2 DEF Before
<1>5. \A u : In(u, history) => Before(u, t)'
  <2> SUFFICES ASSUME NEW u, In(u, history) PROVE Before(u, t)'  OBVIOUS
  <2>1. PICK k \in 1 .. Len(history) : history[k] = u  BY DEF In
  <2>2. k \in DOMAIN history' /\ Len(history) + 1 \in DOMAIN history' /\ k < Len(history) + 1
    BY <1>1, <1>3
  <2> QED BY <1>1, <2>1, <2>2 DEF Before
<1>6. ASSUME ~In(t, history), NEW k \in 1 .. Len(history'), NEW l \in 1 .. Len(history'),
             history'[k] = history'[l]
      PROVE  k = l
  <2>1. \A i \in 1 .. Len(history') :
          (i \in 1 .. Len(history) /\ history'[i] = history[i]) \/ i = Len(history) + 1
    BY <1>1
  <2>2. \A i \in 1 .. Len(history) : history[i] # t  BY <1>6 DEF In
  <2> QED BY <1>1, <1>6, <2>1, <2>2 DEF OnceInv, HistoryInv
<1> QED BY <1>1, <1>2, <1>4, <1>5, <1>6

LEMMA MemoryGrows ==
  ASSUME OnceInv, NEW t \in Txns, history' = Append(history, t), mem' = Append(mem, t)
  PROVE  /\ \A u : In(u, mem') <=> In(u, mem) \/ u = t
         /\ Ordered(mem)'
<1>1. /\ Len(mem') = Len(mem) + 1 /\ Len(mem) \in Nat /\ mem'[Len(mem) + 1] = t
      /\ \A i \in 1 .. Len(mem) : mem'[i] = mem[i] /\ mem[i] \in Txns
  BY OnceFacts, AppendProperties DEF Commits
<1>2. \A i \in 1 .. Len(mem) : In(mem[i], history)
  BY <1>1 DEF OnceInv, HistoryInv, In
<1>3. \A i, j \in 1 .. Len(mem') : \A u, v :
        i < j /\ mem'[i] = u /\ mem'[j] = v => Before(u, v)'
  <2> SUFFICES ASSUME NEW i \in 1 .. Len(mem'), NEW j \in 1 .. Len(mem'), i < j,
                      NEW u, NEW v, mem'[i] = u, mem'[j] = v
               PROVE  Before(u, v)'
    OBVIOUS
  <2>1. i \in 1 .. Len(mem) /\ mem[i] = u /\ In(u, history)  BY <1>1, <1>2
  <2>2. CASE j = Len(mem) + 1
    <3>1. v = t  BY <1>1, <2>2
    <3> QED BY <2>1, <3>1, HistoryGrows
  <2>3. CASE j # Len(mem) + 1
    <3>1. j \in 1 .. Len(mem) /\ mem[j] = v  BY <1>1, <2>3
    <3>2. Before(u, v)  BY <2>1, <3>1 DEF OnceInv, OrderInv, Ordered
    <3> QED BY <3>2, HistoryGrows
  <2> QED BY <2>2, <2>3
<1>4. \A i, j \in 1 .. Len(mem') : i < j => Before(mem[i], mem[j])' BY <1>3
<1>5. \A u : In(u, mem') <=> In(u, mem) \/ u = t  BY OnceFacts, Appended
<1> QED BY <1>4, <1>5 DEF Ordered

\* A commit that appends nothing to the log, or one whose flush commits the
\* entry behind those that are settled.
LEMMA OnceCommits ==
  ASSUME OnceInv, SafeInv', NEW t \in Txns, ~In(t, history),
         history' = Append(history, t), mem' = Append(mem, t), file' = file,
         \A u \in Txns : fate'[u] = "new" => fate[u] = "new" /\ u # t,
         writer'.pc = "written" => /\ writer.pc = "written" /\ writer'.txn = writer.txn
                                   /\ writer.txn # t,
         mode = "running", wal.path = "main", DataOnce(Main'),
         \A i \in 1 .. Len(Main') : Committed(Main', i) =>
           \/ i \in 1 .. Len(Main) /\ Main'[i] = Main[i] /\ Committed(Main, i)
           \/ Main'[i].val = t /\ \A j \in i + 1 .. Len(Main') : ~Committed(Main', j)
  PROVE  OnceInv'
<1>1. /\ history' \in Commits /\ \A u : In(u, history') <=> In(u, history) \/ u = t
      /\ \A u, v : Before(u, v) => Before(u, v)'
      /\ \A u : In(u, history) => Before(u, t)'
      /\ \A k, l \in 1 .. Len(history') : history'[k] = history'[l] => k = l
  BY HistoryGrows
<1>2. (\A u : In(u, mem') <=> In(u, mem) \/ u = t) /\ Ordered(mem)'  BY MemoryGrows
<1>3. Ordered(file.content)'
  <2>1. \A i, j \in 1 .. Len(file.content) : i < j => Before(file.content[i], file.content[j])
    BY DEF OnceInv, OrderInv, Ordered
  <2>2. \A i, j \in 1 .. Len(file.content) : \A u, v :
          i < j /\ file.content[i] = u /\ file.content[j] = v => Before(u, v)'
    BY <1>1, <2>1
  <2> QED BY <2>2 DEF Ordered
<1>4. ASSUME NEW i \in 1 .. Len(Main), Committed(Main, i)
      PROVE  In(Main[i].val, history)
  <2>1. Main[i] \in Entries /\ Main[i].kind = "data"  BY <1>4, OnceFacts DEF Committed, Logs
  <2>2. Main[i].val \in Txns  BY <2>1 DEF Entries
  <2> QED BY <1>4, <2>2, AppliedIs DEF OnceInv, HistoryInv
<1>5. \A u : Applies(Main', u) => Applies(Main, u) \/ u = t
  <2> SUFFICES ASSUME NEW u, Applies(Main', u), u # t PROVE Applies(Main, u)  OBVIOUS
  <2>1. PICK i \in 1 .. Len(Main') : Committed(Main', i) /\ Main'[i].val = u  BY AppliedIs
  <2>2. i \in 1 .. Len(Main) /\ Main'[i] = Main[i] /\ Committed(Main, i)  BY <2>1
  <2> QED BY <2>1, <2>2, AppliedIs
<1>6. HistoryInv'  BY <1>1, <1>2, <1>5 DEF OnceInv, HistoryInv
<1>7. AppliesInOrder(Main)'
  <2>1. \A i, j \in 1 .. Len(Main') : \A u, v :
          i < j /\ Committed(Main', i) /\ Committed(Main', j) /\ Main'[i].val = u /\ Main'[j].val = v
            => Before(u, v)'
    <3> SUFFICES ASSUME NEW i \in 1 .. Len(Main'), NEW j \in 1 .. Len(Main'), NEW u, NEW v, i < j,
                        Committed(Main', i), Committed(Main', j), Main'[i].val = u, Main'[j].val = v
                 PROVE  Before(u, v)'
      OBVIOUS
    <3>1. i \in 1 .. Len(Main) /\ Main'[i] = Main[i] /\ Committed(Main, i)
      <4>1. j \in i + 1 .. Len(Main')  OBVIOUS
      <4> QED BY <4>1
    <3>2. In(u, history)  BY <1>4, <3>1
    <3>3. CASE j \in 1 .. Len(Main) /\ Main'[j] = Main[j] /\ Committed(Main, j)
      <4>1. Before(u, v)  BY <3>1, <3>3 DEF OnceInv, OrderInv, AppliesInOrder
      <4> QED BY <1>1, <4>1
    <3>4. CASE v = t  BY <1>1, <3>2, <3>4
    <3> QED BY <3>3, <3>4
  <2> QED BY <2>1 DEF AppliesInOrder
<1>8. Follows(Main)'
  <2>1. \A i \in 1 .. Len(Main') : \A u \in Txns : \A v :
          Committed(Main', i) /\ In(u, file.content) /\ Main'[i].val = v => Before(u, v)'
    <3> SUFFICES ASSUME NEW i \in 1 .. Len(Main'), NEW u \in Txns, NEW v, Committed(Main', i),
                        In(u, file.content), Main'[i].val = v
                 PROVE  Before(u, v)'
      OBVIOUS
    <3>1. In(u, history)  BY DEF OnceInv, HistoryInv
    <3>2. CASE i \in 1 .. Len(Main) /\ Main'[i] = Main[i] /\ Committed(Main, i)
      <4>1. Before(u, v)  BY <3>2 DEF OnceInv, OrderInv, Follows
      <4> QED BY <1>1, <4>1
    <3>3. CASE v = t  BY <1>1, <3>1, <3>3
    <3> QED BY <3>2, <3>3
  <2> QED BY <2>1 DEF Follows
<1> QED BY <1>2, <1>3, <1>6, <1>7, <1>8 DEF OnceInv, OrderInv

LEMMA OnceCommitAndFlush ==
  ASSUME OnceInv, SafeInv', CommitAndFlush
  PROVE  OnceInv'
<1> DEFINE t == writer.txn
           n == writer.size
<1>1. /\ mode = "running" /\ writer.pc = "written" /\ writer' = [writer EXCEPT !.pc = "flushed"]
      /\ ckpt.pc = "idle" /\ fate[t] = "committing" /\ t \in Txns /\ fate' = fate
      /\ mem' = Append(mem, t) /\ history' = Append(history, t) /\ file' = file
  BY DEF CommitAndFlush, Running, OnceInv, SafeInv, SerialInv, AbortInv, TypeInv, ControlInv
<1>2. wal.path = "main" /\ disk[wal.path] = Main
  BY <1>1 DEF OnceInv, SafeInv, SerialInv, Main
<1>3. ~In(t, history)  BY <1>1 DEF OnceInv, HistoryInv
<1>4. /\ Main' \in Logs /\ Len(Main') = Len(Main) + 1 /\ Main'[Len(Main) + 1] = Flush
      /\ \A i \in 1 .. Len(Main) : Main'[i] = Main[i]
      /\ Agree(Main, Main', Len(Main))
  <2>1. Main' = Main \o <<Flush>>  BY <1>2, OnceFacts DEF CommitAndFlush, Main
  <2>2. <<Flush>> \in Logs /\ Len(<<Flush>>) = 1 /\ <<Flush>>[1] = Flush
    BY EntryTypes DEF Logs
  <2>3. /\ Main' \in Logs /\ Len(Main') = Len(Main) + 1 /\ Main'[Len(Main) + 1] = Flush
        /\ \A i \in 1 .. Len(Main) : Main'[i] = Main[i]
    BY <2>1, <2>2, OnceFacts, Concatenated
  <2> QED BY <2>3, OnceFacts DEF Agree
<1>5. /\ n \in 0 .. Len(Main) /\ (n = 0 \/ IsFlush(Main, n))
      /\ \A i \in 1 .. Len(Main) : i > n => Main[i].kind = "version" \/ Main[i] = Data(t)
      /\ Main # <<>> /\ Main[Len(Main)] = Data(t)
  BY <1>1, <1>2 DEF OnceInv, SafeInv, OpenLogInv, SettledLength, Settled
<1>6. DataOnce(Main')
  <2>1. \A i \in Len(Main) + 1 .. Len(Main') : Main'[i].kind # "data"
    <3>1. \A i \in Len(Main) + 1 .. Len(Main') : i = Len(Main) + 1  BY <1>4, OnceFacts
    <3> QED BY <1>4, <3>1 DEF Flush
  <2>2. DataOnce(Main)  BY DEF OnceInv, OrderInv
  <2> QED BY <1>4, <2>1, <2>2, OnceFacts, AgreeOnce
<1>7. ASSUME NEW i \in 1 .. Len(Main'), Committed(Main', i)
      PROVE  \/ i \in 1 .. Len(Main) /\ Main'[i] = Main[i] /\ Committed(Main, i)
             \/ Main'[i].val = t /\ \A j \in i + 1 .. Len(Main') : ~Committed(Main', j)
  <2>1. i \in 1 .. Len(Main) /\ Main'[i] = Main[i] /\ Main[i].kind = "data"
    <3>1. i # Len(Main) + 1  BY <1>4, <1>7 DEF Committed, Flush
    <3> QED BY <1>4, <1>7, <3>1, OnceFacts DEF Committed
  <2>2. CASE i <= n
    <3>1. n \in 1 .. Len(Main) /\ IsFlush(Main, n)  BY <1>5, <2>1, <2>2, OnceFacts
    <3> QED BY <2>1, <2>2, <3>1 DEF Committed
  <2>3. CASE ~(i <= n)
    <3>1. Main[i] = Data(t)  BY <1>5, <2>1, <2>3, OnceFacts
    <3>2. ASSUME NEW j \in i + 1 .. Len(Main'), Committed(Main', j) PROVE FALSE
      <4>1. j # Len(Main) + 1  BY <1>4, <3>2 DEF Committed, Flush
      <4>2. j \in 1 .. Len(Main) /\ j > n /\ Main[j].kind = "data" /\ j # i
        BY <1>4, <1>5, <2>1, <2>3, <3>2, <4>1, OnceFacts DEF Committed
      <4>3. Main[j] = Data(t)  BY <1>5, <4>2
      <4> QED BY <2>1, <3>1, <4>2, <4>3 DEF OnceInv, OrderInv, DataOnce
    <3> QED BY <2>1, <3>1, <3>2 DEF Data
  <2> QED BY <2>2, <2>3, <1>5, <2>1, OnceFacts
<1>8. writer'.pc # "written" /\ \A u \in Txns : fate'[u] = "new" => fate[u] = "new" /\ u # t
  <2>1. writer'.pc = "flushed"  BY <1>1 DEF OnceInv, SafeInv, AbortInv, TypeInv
  <2> QED BY <1>1, <2>1
<1> HIDE DEF t, n
<1> QED BY <1>1, <1>2, <1>3, <1>5, <1>6, <1>7, <1>8, OnceCommits

LEMMA OnceCommitByCheckpoint ==
  ASSUME OnceInv, SafeInv', NEW t \in Txns, CommitByCheckpoint(t)
  PROVE  OnceInv'
<1>1. /\ mode = "running" /\ fate[t] = "new" /\ ckpt = NoCheckpoint /\ writer = NoWriter
      /\ fate' = [fate EXCEPT ![t] = "committing"]
      /\ mem' = Append(mem, t) /\ history' = Append(history, t)
      /\ UNCHANGED <<file, disk, writer>>
  BY DEF CommitByCheckpoint, Running, Quiet, diskVars, OnceInv, SafeInv, SerialInv
<1>2. wal.path = "main" /\ Main' = Main
  BY <1>1 DEF OnceInv, SafeInv, SerialInv, NoCheckpoint, Main
<1>3. ~In(t, history) /\ DataOnce(Main)  BY <1>1 DEF OnceInv, HistoryInv, OrderInv
<1>4. writer'.pc # "written"  BY <1>1 DEF NoWriter
<1>5. \A u \in Txns : fate'[u] = "new" => fate[u] = "new" /\ u # t  BY <1>1, OnceFacts
<1> QED BY <1>1, <1>2, <1>3, <1>4, <1>5, OnceCommits

LEMMA OnceQuietSteps ==
  ASSUME OnceInv, SafeInv',
         \/ Acknowledge \/ Checkpoint \/ WALSwitch \/ NextIteration \/ CheckpointDone
         \/ OpenFailed \/ LoadDatabase \/ ReplayRefused
  PROVE  OnceInv'
<1>1. UNCHANGED <<history, file>> /\ Main' = Main
  BY OnceFacts DEF Acknowledge, Checkpoint, WALSwitch, NextIteration, CheckpointDone, OpenFailed,
     LoadDatabase, ReplayRefused, Refuse, recoveryFrame, diskVars, boundVars, Main
<1>2. mem' \in {mem, file.content, <<>>}
  BY DEF Acknowledge, Checkpoint, WALSwitch, NextIteration, CheckpointDone, OpenFailed,
     LoadDatabase, ReplayRefused, Refuse, Forget
<1>3. \A t \in Txns : fate'[t] = "new" => fate[t] = "new"
  BY OnceFacts DEF Acknowledge, Checkpoint, WALSwitch, NextIteration, CheckpointDone, OpenFailed,
     LoadDatabase, ReplayRefused, Refuse, Forget, recoveryFrame
<1>4. writer'.pc = "written" => writer' = writer
  BY DEF Acknowledge, Checkpoint, WALSwitch, NextIteration, CheckpointDone, OpenFailed,
     LoadDatabase, ReplayRefused, Refuse, Forget, recoveryFrame, NoWriter
<1>5. mode' = "running" /\ wal'.path = "main" => Follows(Main)
  <2>1. mode' = "running" /\ wal'.path = "main" => mode = "running" /\ wal.path = "main"
    BY DEF Acknowledge, Checkpoint, WALSwitch, NextIteration, CheckpointDone, OpenFailed,
       LoadDatabase, ReplayRefused, Refuse, NewWal, diskVars, Running
  <2> QED BY <2>1 DEF OnceInv, OrderInv
<1> QED BY <1>1, <1>2, <1>3, <1>4, <1>5, OnceElsewhere

\* The log is gone.
LEMMA OnceNewLog ==
  ASSUME OnceInv, SafeInv', WALFinishCheckpoint \/ ReplayNothing
  PROVE  OnceInv'
<1>1. UNCHANGED <<history, file, mem, fate, writer>> /\ Main' = <<>>
  <2>1. wal.state = "no_wal" \/ ~WALFinishCheckpoint
    BY DEF WALFinishCheckpoint, OnceInv, SafeInv, SerialInv
  <2> QED BY <2>1, OnceFacts DEF WALFinishCheckpoint, ReplayNothing, recoveryFrame, boundVars, Main
<1>2. writer'.pc = "written" => writer.pc = "written" /\ writer'.txn = writer.txn  BY <1>1
<1>3. Covers(Main, Main') /\ DataOnce(Main')
  <2>1. Len(<<>>) = 0  OBVIOUS
  <2> QED BY <1>1, <2>1 DEF Covers, DataOnce
<1> QED BY <1>1, <1>2, <1>3, OnceCarries

LEMMA OnceWALStartCheckpoint ==
  ASSUME OnceInv, SafeInv', WALStartCheckpoint
  PROVE  OnceInv'
<1>1. /\ mode = "running" /\ ckpt.pc = "start" /\ wal.path = "main" /\ disk[wal.path] = Main
      /\ writer.pc = "idle" /\ UNCHANGED <<file, mode, mem, fate, history, writer>>
  BY DEF WALStartCheckpoint, Running, boundVars, OnceInv, SafeInv, SerialInv, Main
<1>2. Follows(Main) /\ DataOnce(Main)  BY <1>1 DEF OnceInv, OrderInv
<1>3. CASE UNCHANGED disk
  <2>1. Main' = Main  BY <1>3 DEF Main
  <2> QED BY <1>1, <1>2, <2>1, OnceElsewhere
<1>4. CASE wal.size > 0
  <2> DEFINE new == <<Marker(ckpt'.root), Flush>>
  <2>1. WriteEntries(new)  BY <1>4 DEF WALStartCheckpoint
  <2>2. new \in Logs /\ Len(new) = 2 /\ new[1].kind # "data" /\ new[2].kind # "data"
    <3>1. ckpt'.root \in Nat  BY DEF SafeInv, AbortInv, TypeInv, Checkpoints
    <3>2. Marker(ckpt'.root) \in Entries /\ Flush \in Entries  BY <3>1, EntryTypes
    <3> QED BY <3>2 DEF Logs, Marker, Flush
  <2> HIDE DEF new
  <2>3. PICK k \in Nat : Extends(Main, KeptLength, k, new, Main')
    <3>1. TypeInv /\ wal.size <= Len(disk[wal.path])
      BY DEF OnceInv, SafeInv, AbortInv, ControlInv
    <3>2. Main' = disk'[wal.path]  BY <1>1 DEF Main
    <3> QED BY <1>1, <2>1, <2>2, <3>1, <3>2, WriteEntriesIs
  <2>4. /\ Main' \in Logs /\ KeptLength \in Nat /\ Agree(Main, Main', KeptLength)
        /\ Added(KeptLength, k, new, Main')
    BY <2>2, <2>3, OnceFacts, ExtendsAgree
  <2>5. \A i \in KeptLength + 1 .. Len(Main') : Main'[i].kind # "data"
    <3>1. \A j \in 1 .. Len(new) : new[j].kind # "data"
      <4>1. \A j \in 1 .. 2 : j = 1 \/ j = 2  OBVIOUS
      <4> QED BY <2>2, <4>1
    <3> QED BY <2>4, <3>1 DEF Added
  <2>6. KeptLength = 0 \/ IsFlush(Main, KeptLength)
    BY <1>1, FreeLog DEF OnceInv, Settled
  <2>7. Covers(Main, Main')  BY <2>4, <2>5, <2>6, OnceFacts, AgreeCovers
  <2>8. DataOnce(Main')  BY <1>2, <2>4, <2>5, OnceFacts, AgreeOnce
  <2> QED BY <1>1, <1>2, <2>7, <2>8, OnceCarries
<1> QED BY <1>3, <1>4 DEF WALStartCheckpoint

LEMMA OnceCrash ==
  ASSUME OnceInv, SafeInv', Crash
  PROVE  OnceInv'
<1>1. /\ mode' = "closed" /\ UNCHANGED <<file, history>> /\ mem' = <<>>
      /\ IF mode = "running"
         THEN \E es \in Remains(disk[wal.path]) : disk' = [disk EXCEPT ![wal.path] = es]
         ELSE UNCHANGED disk
      /\ writer'.pc # "written"
  BY DEF Crash, Forget, Running, NoWriter
<1>2. \A t \in Txns : fate'[t] = "new" => fate[t] = "new"
  BY OnceFacts DEF Crash, Forget
<1>3. ASSUME Main' = Main PROVE OnceInv'  BY <1>1, <1>2, <1>3, OnceElsewhere
<1>4. CASE mode # "running"  BY <1>1, <1>3, <1>4 DEF Main
<1>5. CASE mode = "running"
  <2>1. PICK es \in Remains(disk[wal.path]) : disk' = [disk EXCEPT ![wal.path] = es]
    BY <1>1, <1>5
  <2>2. CASE wal.state # "initialized"
    <3>1. es = disk[wal.path]  BY <2>1, <2>2 DEF Remains
    <3>2. Main' = Main  BY <2>1, <3>1, OnceFacts, SafeFacts DEF Main
    <3> QED BY <1>3, <3>2
  <2>3. CASE wal.state = "initialized"
    <3>1. wal.path = "main"
      <4>1. wal.path # "checkpoint"  BY <2>3 DEF OnceInv, SafeInv, SerialInv
      <4> QED BY <4>1 DEF OnceInv, SafeInv, SerialInv
    <3>2. Main' = es /\ disk[wal.path] = Main /\ wal.synced <= Len(Main)
      <4>1. Main' = es /\ disk[wal.path] = Main  BY <2>1, <3>1, OnceFacts DEF Main
      <4>2. SyncedLength = wal.synced  BY <2>3 DEF SyncedLength
      <4> QED BY <4>1, <4>2, OnceFacts, SafeFacts
    <3>3. /\ es \in Logs
          /\ \/ es = Main
             \/ \E n \in wal.synced .. Len(Main) :
                  /\ Len(es) \in n .. n + 1 /\ \A i \in 1 .. n : es[i] = Main[i]
                  /\ Len(es) = n + 1 => es[n + 1].kind = "torn"
      <4>1. TypeInv  BY DEF OnceInv, SafeInv, AbortInv
      <4> QED BY <2>1, <3>2, <4>1, OnceFacts, RemainsIs
    <3>4. CASE es = Main  BY <1>3, <3>2, <3>4
    <3>5. CASE es # Main
      <4>1. PICK n \in wal.synced .. Len(Main) :
               /\ Len(es) \in n .. n + 1 /\ \A i \in 1 .. n : es[i] = Main[i]
               /\ Len(es) = n + 1 => es[n + 1].kind = "torn"
        BY <3>3, <3>5
      <4>2. n \in Nat /\ Agree(Main, es, n)
        <5>1. n \in Nat /\ n <= Len(Main) /\ Len(es) \in Nat  BY <3>3, <4>1, OnceFacts DEF Logs
        <5> QED BY <4>1, <5>1, OnceFacts DEF Agree
      <4>3. \A i \in n + 1 .. Len(es) : es[i].kind = "torn"
        <5>1. \A i \in n + 1 .. Len(es) : i = n + 1 /\ Len(es) = n + 1
          BY <3>3, <4>1, <4>2 DEF Logs
        <5> QED BY <4>1, <5>1
      <4>4. \A f \in n + 1 .. Len(es) : ~IsFlush(es, f) /\ es[f].kind # "data"
        BY <4>3 DEF IsFlush
      <4>5. Covers(Main, Main')  BY <3>2, <3>3, <4>2, <4>4, OnceFacts, AgreeCovers
      <4>6. DataOnce(Main')
        <5>1. DataOnce(Main)  BY DEF OnceInv, OrderInv
        <5> QED BY <3>2, <3>3, <4>2, <4>4, <5>1, OnceFacts, AgreeOnce
      <4>7. Follows(Main)  BY <1>5, <3>1 DEF OnceInv, OrderInv
      <4> QED BY <1>1, <1>2, <4>5, <4>6, <4>7, OnceCarries
    <3> QED BY <3>4, <3>5
  <2> QED BY <2>2, <2>3
<1> QED BY <1>4, <1>5

\* The file takes what is in memory; a log that held anything has the marker of
\* this checkpoint last.
LEMMA OnceWriteHeader ==
  ASSUME OnceInv, SafeInv', WriteHeader
  PROVE  OnceInv'
<1>1. /\ mode = "running" /\ ckpt.pc = "header" /\ file'.content = mem /\ file'.root = ckpt.root
      /\ UNCHANGED <<disk, mode, mem, wal, writer, fate, history>>
  BY DEF WriteHeader, Running, boundVars, OnceInv, SafeInv, DurableInv
<1>2. Main' = Main  BY <1>1 DEF Main
<1>3. \A t, u : Before(t, u)' <=> Before(t, u)  BY <1>1 DEF Before
<1>4. HistoryInv'  BY <1>1, <1>2 DEF OnceInv, HistoryInv
<1>5. Ordered(mem)' /\ Ordered(file.content)'
  <2>1. Ordered(mem)'  BY <1>1, <1>3 DEF OnceInv, OrderInv, Ordered
  <2> QED BY <1>1, <2>1 DEF Ordered
<1>6. AppliesInOrder(Main)' /\ DataOnce(Main')
  BY <1>2, <1>3 DEF OnceInv, OrderInv, AppliesInOrder
<1>7. CASE ckpt.hasWal
  <2>1. wal'.path = "checkpoint"  BY <1>1, <1>7 DEF OnceInv, SafeInv, SerialInv
  <2>2. RootMarked'
    <3>1. LastMarker(Main, ckpt.root)  BY <1>1, <1>7 DEF OnceInv, SafeInv, MarkerInv
    <3> QED BY <1>1, <1>2, <3>1 DEF LastMarker, RootMarked
  <2> QED BY <1>4, <1>5, <1>6, <2>1, <2>2 DEF OnceInv, OrderInv
<1>8. CASE ~ckpt.hasWal
  <2>1. wal.path = "main" /\ KeptLength = 0 /\ writer.pc = "idle"
    BY <1>1, <1>8 DEF OnceInv, SafeInv, SerialInv, OpenLogInv
  <2>2. \A f \in 1 .. Len(Main) : ~IsFlush(Main, f)
    BY <1>1, <2>1, FreeLog DEF Settled, OnceInv
  <2>3. Follows(Main)'  BY <1>2, <2>2 DEF Follows, Committed
  <2> QED BY <1>4, <1>5, <1>6, <2>3 DEF OnceInv, OrderInv
<1> QED BY <1>7, <1>8

\* Recovery: the file's blocks, then what the log adds.
LEMMA OnceReplayMainWal ==
  ASSUME OnceInv, SafeInv', ReplayMainWal
  PROVE  OnceInv'
<1> DEFINE new == Replayed(Main)
<1>1. /\ mode = "load" /\ mem' = mem \o new /\ ~CheckpointWasSuccessful
      /\ UNCHANGED <<file, disk, writer, fate, history>>
  BY DEF ReplayMainWal, recoveryFrame, boundVars, Main, CheckpointWasSuccessful
<1>2. Main' = Main /\ mem = file.content
  BY <1>1 DEF Main, OnceInv, SafeInv, DurableInv
<1>3. \A t, u : Before(t, u)' <=> Before(t, u)  BY <1>1 DEF Before
<1>4. Follows(Main)
  <2>1. ~RootMarked  BY <1>1, SuccessIs DEF OnceInv, RootMarked
  <2> QED BY <2>1 DEF OnceInv, OrderInv
<1>5. /\ new \in Commits /\ Len(new) \in Nat /\ \A t : In(t, new) <=> Applies(Main, t)
      /\ \A n, m \in 1 .. Len(new) : n < m =>
           \E i, j \in 1 .. Len(Main) :
             /\ i < j /\ Committed(Main, i) /\ Committed(Main, j)
             /\ Main[i].val = new[n] /\ Main[j].val = new[m]
  <2>1. new \in Commits  BY OnceFacts, ReplayedIs
  <2>2. Len(new) \in Nat
    <3> HIDE DEF new
    <3> QED BY <2>1 DEF Commits
  <2> QED BY <2>1, <2>2, OnceFacts, ReplayedIs
<1> HIDE DEF new
<1>6. HistoryInv'
  <2>1. \A u : In(u, mem') <=> In(u, mem) \/ In(u, new)  BY <1>1, <1>5, OnceFacts, Joined
  <2> QED BY <1>1, <1>2, <1>5, <2>1 DEF OnceInv, HistoryInv
<1>7. /\ Len(mem) \in Nat /\ Len(mem') = Len(mem) + Len(new)
      /\ \A i \in 1 .. Len(mem) + Len(new) :
           mem'[i] = IF i <= Len(mem) THEN mem[i] ELSE new[i - Len(mem)]
  BY <1>1, <1>5, OnceFacts, ConcatProperties DEF Commits
<1>8. Ordered(mem')
  <2> SUFFICES ASSUME NEW i \in 1 .. Len(mem'), NEW j \in 1 .. Len(mem'), i < j
               PROVE  Before(mem'[i], mem'[j])
    BY DEF Ordered
  <2>1. CASE j <= Len(mem)
    <3>1. /\ i \in 1 .. Len(mem) /\ j \in 1 .. Len(mem)
          /\ mem'[i] = mem[i] /\ mem'[j] = mem[j]
      BY <1>5, <1>7, <2>1
    <3> QED BY <3>1 DEF OnceInv, OrderInv, Ordered
  <2>2. CASE ~(i <= Len(mem))
    <3>1. /\ i - Len(mem) \in 1 .. Len(new) /\ j - Len(mem) \in 1 .. Len(new)
          /\ i - Len(mem) < j - Len(mem)
          /\ mem'[i] = new[i - Len(mem)] /\ mem'[j] = new[j - Len(mem)]
      BY <1>5, <1>7, <2>2
    <3>2. PICK n, m \in 1 .. Len(new) : n = i - Len(mem) /\ m = j - Len(mem) /\ n < m
      BY <3>1
    <3>3. PICK k, l \in 1 .. Len(Main) :
            /\ k < l /\ Committed(Main, k) /\ Committed(Main, l)
            /\ Main[k].val = new[n] /\ Main[l].val = new[m]
      BY <1>5, <3>2
    <3>4. Before(Main[k].val, Main[l].val)  BY <3>3 DEF OnceInv, OrderInv, AppliesInOrder
    <3> QED BY <3>1, <3>2, <3>3, <3>4
  <2>3. CASE i <= Len(mem) /\ ~(j <= Len(mem))
    <3>1. /\ i \in 1 .. Len(mem) /\ j - Len(mem) \in 1 .. Len(new)
          /\ mem'[i] = mem[i] /\ mem'[j] = new[j - Len(mem)]
      BY <1>5, <1>7, <2>3
    <3>2. In(mem[i], file.content) /\ mem[i] \in Txns
      BY <1>2, <3>1, OnceFacts DEF In, Commits
    <3>3. PICK k \in 1 .. Len(Main) : Committed(Main, k) /\ Main[k].val = new[j - Len(mem)]
      <4>1. In(new[j - Len(mem)], new)  BY <3>1 DEF In
      <4> QED BY <1>5, <4>1, AppliedIs
    <3> QED BY <1>4, <3>1, <3>2, <3>3 DEF Follows
  <2> QED BY <2>1, <2>2, <2>3
<1>9. Ordered(mem)' /\ Ordered(file.content)'
  <2>1. Ordered(file.content)  BY DEF OnceInv, OrderInv
  <2> QED BY <1>1, <1>3, <1>8, <2>1 DEF Ordered
<1>10. AppliesInOrder(Main)' /\ DataOnce(Main') /\ Follows(Main)'
  BY <1>1, <1>2, <1>3, <1>4 DEF OnceInv, OrderInv, AppliesInOrder, Follows
<1> QED BY <1>6, <1>9, <1>10 DEF OnceInv, OrderInv

LEMMA OnceInit ==
  ASSUME Init, ~setup.concurrent
  PROVE  OnceInv
<1>1. SafeInv  BY SafeInit
<1>2. /\ Main = <<>> /\ mem = <<>> /\ file.content = <<>> /\ history = <<>>
      /\ writer.pc = "idle"
  BY DEF Init, Main, NoWriter, Paths
<1>3. Len(<<>>) = 0 /\ \A t : ~Applies(<<>>, t)  BY DEF Applies, AppliesTo
<1>4. HistoryInv  BY <1>2, <1>3, NothingThere DEF HistoryInv
<1>5. OrderInv  BY <1>2, <1>3 DEF OrderInv, Ordered, DataOnce, AppliesInOrder, Follows
<1> QED BY <1>1, <1>4, <1>5 DEF OnceInv

LEMMA OnceNext ==
  ASSUME OnceInv, [Next]_vars
  PROVE  OnceInv'
<1>0. SafeInv' /\ SafeInv  BY SafeNext DEF OnceInv
<1>1. CASE UNCHANGED vars
  <2>1. UNCHANGED <<file, disk, mode, mem, wal, writer, fate, history>>  BY <1>1 DEF vars
  <2>2. Main' = Main  BY <2>1 DEF Main
  <2> QED BY <1>0, <2>1, <2>2, OnceElsewhere DEF OnceInv, OrderInv
<1>2. ~(ReplayCheckpointWal \/ MergeWals \/ MoveRecoveryWal \/ RemoveCheckpointWal)
  BY <1>0 DEF SafeInv, SerialInv, ReplayCheckpointWal, MergeWals, NeedsMerge, MoveRecoveryWal,
              RemoveCheckpointWal
<1>3. CASE Next
  BY <1>0, <1>2, <1>3, OnceWriteToWAL, OnceCommitByCheckpoint, OnceCommitAndFlush,
     OnceRevertCommit, OnceQuietSteps, OnceWALStartCheckpoint, OnceWriteHeader, OnceNewLog,
     OnceCrash, OnceReplayMainWal
  DEF Next
<1> QED BY <1>1, <1>3

\* Where commits do not overlap checkpoints, no commit is applied twice, by blocks
\* and a log that both hold it or by one log: each is visible once in the history,
\* and memory is in the order of the history.
THEOREM EachCommitOnce ==
  ASSUME \A s \in Setups : ~s.concurrent
  PROVE  Spec => []AppliedOnce
<1>1. Init => OnceInv  BY OnceInit DEF Init
<1>2. OnceInv /\ [Next]_vars => OnceInv'  BY OnceNext
<1>3. OnceInv => AppliedOnce
  <2> SUFFICES ASSUME OnceInv PROVE AppliedOnce  OBVIOUS
  <2>1. DOMAIN mem = 1 .. Len(mem) /\ Len(mem) \in Nat  BY OnceFacts DEF Commits
  <2>2. \A t : ~Before(t, t)  BY OnceFacts DEF OnceInv, HistoryInv
  <2>3. \A i, j \in 1 .. Len(mem) : mem[i] = mem[j] => ~(i < j)
    BY <2>2 DEF OnceInv, OrderInv, Ordered
  <2>4. \A i, j \in 1 .. Len(mem) : mem[i] = mem[j] => i = j  BY <2>1, <2>3
  <2> QED BY <2>1, <2>4 DEF AppliedOnce, IsInjective
<1> QED BY <1>1, <1>2, <1>3, PTL DEF Spec

\* And they are applied in the order in which they became visible: what a log adds
\* to the file's blocks is what came after the checkpoint that wrote them.
THEOREM CommitsInOrder ==
  ASSUME \A s \in Setups : ~s.concurrent
  PROVE  Spec => []InCommitOrder
<1>1. Init => OnceInv  BY OnceInit DEF Init
<1>2. OnceInv /\ [Next]_vars => OnceInv'  BY OnceNext
<1>3. OnceInv => InCommitOrder
  <2> SUFFICES ASSUME OnceInv PROVE InCommitOrder  OBVIOUS
  <2>1. DOMAIN mem = 1 .. Len(mem)  BY OnceFacts DEF Commits
  <2> QED BY <2>1 DEF InCommitOrder, OnceInv, OrderInv, Ordered
<1> QED BY <1>1, <1>2, <1>3, PTL DEF Spec
=============================================================================
