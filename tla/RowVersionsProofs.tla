---------------------------- MODULE RowVersionsProofs ----------------------------
(***************************************************************************)
(* What is proved about RowVersions.                                       *)
(*                                                                         *)
(* RemoveTransaction gives up at the first recently committed transaction  *)
(* that is still needed.  That is right only if the list is in the order   *)
(* of the commits, although the timestamp of a commit and its place in the *)
(* list are taken in different steps, and a commit through the WAL lets    *)
(* the lock on the transactions go before both (IInv).                     *)
(*                                                                         *)
(* What a transaction leaves behind is cleaned up, and never while an      *)
(* UpdateInfo of it is linked (CleanInv): everything left has a place in   *)
(* one list, entry or thread, and everything linked an undo entry that is  *)
(* still to come.                                                          *)
(*                                                                         *)
(* A checkpoint that runs beside others writes the table of one commit     *)
(* (SoundInv): rows of later commits are in row groups of their own, and   *)
(* what a clean-up takes ids from was there for everybody, the checkpoint  *)
(* included.  Where commits fail, a roll-back cuts off rows of others, and *)
(* where a DELETE names rows twice, it takes back marks of others; either  *)
(* may change what a checkpoint writes, so that both are ruled out.        *)
(***************************************************************************)
EXTENDS RowVersions, SequenceTheorems, FiniteSetTheorems, WellFoundedInduction, TLAPS

Pcs == {"new", "running", "failed", "wal", "written", "commit", "rollback", "remove",
        "cleanup", "cleaning", "checkpoint", "checkpointing", "done"}
\* Where a transaction has no timestamp, holds the lock, has left the active ones.
EarlyPcs == {"new", "running", "failed", "wal", "written", "rollback"}
LockPcs == {"commit", "rollback", "remove"}
StampedPcs == {"commit", "remove"}
EndedPcs == {"cleanup", "cleaning", "checkpoint", "checkpointing", "done"}

Typed ==
  /\ clock \in Nat
  /\ pc \in [Txns -> Pcs]
  /\ commit_id \in [Txns -> Nat]
  /\ recently \in Seq(Txns)

\* Timestamps are in the past; no timestamp without a commit.
Clocked == \A t \in Txns : commit_id[t] < clock
Unstamped == \A t \in Txns : pc[t] \in EarlyPcs => commit_id[t] = 0
\* From its timestamp to its place in the list a transaction keeps the lock ...
Locked == \A t \in Txns : pc[t] \in LockPcs => transaction_lock = t
\* ... so that nobody with a later timestamp gets there before it.
Settled == \A i \in DOMAIN recently : pc[recently[i]] \in EndedPcs
Latest == \A t \in Txns : pc[t] \in StampedPcs =>
            \A i \in DOMAIN recently : commit_id[recently[i]] < commit_id[t]

IInv == Typed /\ Clocked /\ Unstamped /\ Locked /\ Settled /\ Latest /\ RecentlyOrdered

-----------------------------------------------------------------------------
\* Initially there are no timestamps and nothing is kept.
LEMMA InitIInv == Init => IInv
<1> SUFFICES ASSUME Init PROVE IInv
  OBVIOUS
<1>1. Typed
  BY DEF Init, Typed, Pcs
<1>2. Clocked /\ Unstamped
  BY DEF Init, Clocked, Unstamped
<1>3. Locked /\ Latest
  BY DEF Init, Locked, Latest, LockPcs, StampedPcs
<1>4. Settled /\ RecentlyOrdered
  BY DEF Init, Settled, RecentlyOrdered
<1> QED
  BY <1>1, <1>2, <1>3, <1>4 DEF IInv

\* A step that gives no timestamp and leaves the list alone, with what it may do
\* to the place of one transaction and to the lock.
LEMMA QuietStep ==
  ASSUME IInv, NEW t \in Txns, NEW l \in Pcs,
         pc' = [pc EXCEPT ![t] = l], commit_id' = commit_id, recently' = recently,
         clock' = clock \/ clock' = clock + 1,
         l \in EarlyPcs => pc[t] \in EarlyPcs,
         l \in StampedPcs => pc[t] \in StampedPcs,
         pc[t] \in EndedPcs => l \in EndedPcs,
         l \in LockPcs => transaction_lock' = t,
         \A u \in Txns \ {t} : pc[u] \in LockPcs => transaction_lock' = u
  PROVE  IInv'
<1>1. Typed'
  BY DEF IInv, Typed
<1>2. \A u \in Txns : pc'[u] = IF u = t THEN l ELSE pc[u]
  BY DEF IInv, Typed
<1>3. Clocked'
  BY DEF IInv, Typed, Clocked
<1>4. Unstamped'
  BY <1>2 DEF IInv, Unstamped
<1>5. Locked'
  BY <1>2 DEF IInv, Locked
<1>6. \A i \in DOMAIN recently : recently[i] \in Txns
  BY DEF IInv, Typed
<1>7. Settled'
  BY <1>2, <1>6 DEF IInv, Settled
<1>8. Latest'
  BY <1>2 DEF IInv, Latest
<1>9. RecentlyOrdered'
  BY DEF IInv, RecentlyOrdered
<1> QED
  BY <1>1, <1>3, <1>4, <1>5, <1>7, <1>8, <1>9 DEF IInv

\* Only one transaction is where it needs the lock.
LEMMA LockIsExclusive ==
  ASSUME IInv, NEW t \in Txns, transaction_lock = None \/ pc[t] \in LockPcs
  PROVE  \A u \in Txns \ {t} : pc[u] \notin LockPcs
BY NoneAssumption DEF IInv, Locked

\* The timestamp of a commit is later than all in the list.
LEMMA StampStep ==
  ASSUME IInv, NEW t \in Txns, pc[t] \in {"running", "written"}, transaction_lock = None,
         pc' = [pc EXCEPT ![t] = "commit"], commit_id' = [commit_id EXCEPT ![t] = clock],
         recently' = recently, clock' = clock + 1, transaction_lock' = t
  PROVE  IInv'
<1>1. Typed'
  BY DEF IInv, Typed, Pcs
<1>2. \A u \in Txns : /\ pc'[u] = IF u = t THEN "commit" ELSE pc[u]
                      /\ commit_id'[u] = IF u = t THEN clock ELSE commit_id[u]
  BY DEF IInv, Typed
<1>3. Clocked'
  BY <1>2 DEF IInv, Typed, Clocked
<1>4. Unstamped'
  BY <1>2 DEF IInv, Unstamped, EarlyPcs
<1>5. \A u \in Txns \ {t} : pc[u] \notin LockPcs
  BY LockIsExclusive
<1>6. Locked'
  BY <1>2, <1>5 DEF Locked
<1>7. \A i \in DOMAIN recently : recently[i] \in Txns \ {t}
  <2>1. \A i \in DOMAIN recently : recently[i] \in Txns
    BY DEF IInv, Typed
  <2>2. \A i \in DOMAIN recently : pc[recently[i]] \in EndedPcs
    BY DEF IInv, Settled
  <2> QED
    BY <2>1, <2>2 DEF EndedPcs
<1>8. Settled'
  BY <1>2, <1>7 DEF IInv, Settled
<1>9. Latest'
  <2>1. \A i \in DOMAIN recently : commit_id'[recently[i]] < clock
    BY <1>2, <1>7 DEF IInv, Clocked
  <2>2. \A u \in Txns \ {t} : pc'[u] \notin StampedPcs
    BY <1>2, <1>5 DEF StampedPcs, LockPcs
  <2> QED
    BY <1>2, <2>1, <2>2 DEF Latest
<1>10. RecentlyOrdered'
  BY <1>2, <1>7 DEF IInv, RecentlyOrdered
<1> QED
  BY <1>1, <1>3, <1>4, <1>6, <1>8, <1>9, <1>10 DEF IInv

\* A commit that fails late gives its timestamp back.
LEMMA UnstampStep ==
  ASSUME IInv, NEW t \in Txns, pc[t] = "commit",
         pc' = [pc EXCEPT ![t] = "rollback"], commit_id' = [commit_id EXCEPT ![t] = 0],
         recently' = recently, clock' = clock, transaction_lock' = transaction_lock
  PROVE  IInv'
<1>1. Typed'
  BY DEF IInv, Typed, Pcs
<1>2. \A u \in Txns : /\ pc'[u] = IF u = t THEN "rollback" ELSE pc[u]
                      /\ commit_id'[u] = IF u = t THEN 0 ELSE commit_id[u]
  BY DEF IInv, Typed
<1>3. Clocked'
  <2>1. commit_id[t] \in Nat /\ commit_id[t] < clock /\ clock \in Nat
    BY DEF IInv, Typed, Clocked
  <2> QED
    BY <1>2, <2>1 DEF IInv, Clocked
<1>4. Unstamped'
  BY <1>2 DEF IInv, Unstamped
<1>5. Locked'
  BY <1>2 DEF IInv, Locked, LockPcs
<1>6. \A i \in DOMAIN recently : recently[i] \in Txns \ {t}
  <2>1. \A i \in DOMAIN recently : recently[i] \in Txns
    BY DEF IInv, Typed
  <2>2. \A i \in DOMAIN recently : pc[recently[i]] \in EndedPcs
    BY DEF IInv, Settled
  <2> QED
    BY <2>1, <2>2 DEF EndedPcs
<1>7. Settled'
  BY <1>2, <1>6 DEF IInv, Settled
<1>8. Latest'
  BY <1>2, <1>6 DEF IInv, Latest, StampedPcs
<1>9. RecentlyOrdered'
  BY <1>2, <1>6 DEF IInv, RecentlyOrdered
<1> QED
  BY <1>1, <1>3, <1>4, <1>5, <1>7, <1>8, <1>9 DEF IInv

\* RemoveTransaction appends a committed transaction and drops a prefix.
LEMMA RemoveStep ==
  ASSUME IInv, NEW t \in Txns, Leave(t)
  PROVE  IInv'
<1>1. /\ pc[t] \in {"remove", "rollback"} /\ pc' = [pc EXCEPT ![t] = "cleanup"]
      /\ commit_id' = commit_id /\ clock' = clock
  BY DEF Leave, Goto
<1> DEFINE list == CommittedBefore(t)
<1>2. /\ list \in Seq(Txns)
      /\ \A i \in DOMAIN list : \/ list[i] = t
                                \/ i \in DOMAIN recently /\ list[i] = recently[i]
      /\ \A i \in DOMAIN list : list[i] = t => pc[t] = "remove" \/ i \in DOMAIN recently
      /\ \A i, j \in DOMAIN list : i < j => commit_id[list[i]] < commit_id[list[j]]
  <2>1. CASE ~Kept(t)
    <3>1. list = recently
      BY <2>1 DEF CommittedBefore
    <3> QED
      BY <3>1 DEF IInv, Typed, RecentlyOrdered
  <2>2. CASE Kept(t)
    <3>1. list = Append(recently, t)
      BY <2>2 DEF CommittedBefore
    <3>2. /\ recently \in Seq(Txns) /\ list \in Seq(Txns) /\ Len(list) = Len(recently) + 1
          /\ DOMAIN list = 1 .. Len(recently) + 1 /\ DOMAIN recently = 1 .. Len(recently)
          /\ list[Len(recently) + 1] = t /\ Len(recently) \in Nat
          /\ \A i \in 1 .. Len(recently) : list[i] = recently[i]
      BY <3>1 DEF IInv, Typed
    <3>3. pc[t] = "remove"
      BY <1>1, <2>2 DEF Kept, Committed, IInv, Unstamped, EarlyPcs
    <3>4. \A i \in DOMAIN recently : commit_id[recently[i]] < commit_id[t]
      BY <3>3 DEF IInv, Latest, StampedPcs
    <3>5. \A i, j \in DOMAIN list : i < j => commit_id[list[i]] < commit_id[list[j]]
      <4> SUFFICES ASSUME NEW i \in DOMAIN list, NEW j \in DOMAIN list, i < j
                   PROVE  commit_id[list[i]] < commit_id[list[j]]
        OBVIOUS
      <4>1. i \in DOMAIN recently /\ list[i] = recently[i]
        BY <3>2
      <4>2. CASE j = Len(recently) + 1
        BY <3>2, <3>4, <4>1, <4>2
      <4>3. CASE j # Len(recently) + 1
        BY <3>2, <4>1, <4>3 DEF IInv, RecentlyOrdered
      <4> QED
        BY <4>2, <4>3
    <3> QED
      BY <3>2, <3>3, <3>5
  <2> QED
    BY <2>1, <2>2
<1> HIDE DEF list
<1>3. PICK n \in 0 .. Len(list) : recently' = SubSeq(list, n + 1, Len(list))
  BY DEF Leave, RemoveTransaction, list
<1>4. /\ recently' \in Seq(Txns) /\ Len(list) \in Nat
      /\ DOMAIN recently' = 1 .. Len(list) - n
      /\ \A i \in DOMAIN recently' : n + i \in DOMAIN list /\ recently'[i] = list[n + i]
  BY <1>2, <1>3
<1>5. \A u \in Txns : pc'[u] = IF u = t THEN "cleanup" ELSE pc[u]
  BY <1>1 DEF IInv, Typed
<1>6. \A u \in Txns \ {t} : pc[u] \notin LockPcs
  BY <1>1, LockIsExclusive DEF LockPcs
<1>7. Typed'
  BY <1>1, <1>4 DEF IInv, Typed, Pcs
<1>8. Clocked' /\ Unstamped'
  BY <1>1, <1>5 DEF IInv, Clocked, Unstamped, EarlyPcs
<1>9. Locked' /\ Latest'
  BY <1>5, <1>6 DEF Locked, Latest, LockPcs, StampedPcs
<1>10. Settled'
  <2> SUFFICES ASSUME NEW i \in DOMAIN recently' PROVE pc'[recently'[i]] \in EndedPcs
    BY DEF Settled
  <2>1. recently'[i] \in Txns /\ recently'[i] = list[n + i] /\ n + i \in DOMAIN list
    BY <1>4
  <2>2. CASE recently'[i] = t
    BY <1>5, <2>2 DEF EndedPcs
  <2>3. CASE recently'[i] # t
    <3>1. n + i \in DOMAIN recently /\ recently'[i] = recently[n + i]
      BY <1>2, <2>1, <2>3
    <3> QED
      BY <1>5, <2>1, <2>3, <3>1 DEF IInv, Settled
  <2> QED
    BY <2>2, <2>3
<1>11. RecentlyOrdered'
  <2> SUFFICES ASSUME NEW i \in DOMAIN recently', NEW j \in DOMAIN recently', i < j
               PROVE  commit_id[recently'[i]] < commit_id[recently'[j]]
    BY <1>1 DEF RecentlyOrdered
  <2>1. n + i < n + j /\ n + i \in DOMAIN list /\ n + j \in DOMAIN list
    BY <1>4
  <2> QED
    BY <1>2, <1>4, <2>1
<1> QED
  BY <1>7, <1>8, <1>9, <1>10, <1>11 DEF IInv

\* The steps of Start, WriteToWAL, rolling back and cleaning up.
LEMMA ManagerStep ==
  ASSUME IInv, NEW t \in Txns,
         \/ Start(t) \/ CommitThroughWAL(t) \/ WriteToWAL(t) \/ Rollback(t)
         \/ PopCleanup(t) \/ CleanupDone(t) \/ StartCheckpoint(t) \/ FinishCheckpoint(t)
         \/ CommitDone(t)
  PROVE  IInv'
<1> USE DEF EarlyPcs, LockPcs, StampedPcs, EndedPcs, Pcs, managerVars, lockVars, txnVars,
            listVars, checkpointVars
<1>0. /\ transaction_lock = None => \A u \in Txns : pc[u] \notin LockPcs
      /\ \A u \in Txns : pc[u] \in LockPcs => transaction_lock = u
  BY NoneAssumption DEF IInv, Locked
<1>1. CASE Start(t)
  BY <1>0, <1>1, QuietStep DEF Start, Goto
<1>2. CASE CommitThroughWAL(t)
  BY <1>0, <1>2, QuietStep DEF CommitThroughWAL, Goto, Running
<1>3. CASE WriteToWAL(t)
  BY <1>0, <1>3, QuietStep DEF WriteToWAL, Goto
<1>4. CASE Rollback(t)
  BY <1>0, <1>4, QuietStep DEF Rollback, GotoRollback, Goto
<1>5. CASE PopCleanup(t)
  <2>1. \E l \in {"cleaning", "checkpoint", "done"} : pc' = [pc EXCEPT ![t] = l]
    BY <1>5 DEF PopCleanup, Goto, AfterCleanup
  <2> QED
    BY <1>0, <1>5, <2>1, QuietStep DEF PopCleanup
<1>6. CASE CleanupDone(t)
  <2>1. \E l \in {"checkpoint", "done"} : pc' = [pc EXCEPT ![t] = l]
    BY <1>6 DEF CleanupDone, Goto, AfterCleanup
  <2> QED
    BY <1>0, <1>6, <2>1, QuietStep DEF CleanupDone
<1>7. CASE StartCheckpoint(t)
  BY <1>0, <1>7, QuietStep DEF StartCheckpoint, Goto
<1>8. CASE FinishCheckpoint(t)
  BY <1>0, <1>8, QuietStep DEF FinishCheckpoint, Goto
<1>9. CASE CommitDone(t)
  BY <1>0, <1>9, QuietStep DEF CommitDone, Goto
<1> QED
  BY <1>1, <1>2, <1>3, <1>4, <1>5, <1>6, <1>7, <1>8, <1>9

\* A step that leaves all places alone.
LEMMA StillStep ==
  ASSUME IInv, pc' = pc, commit_id' = commit_id, recently' = recently, clock' = clock,
         transaction_lock' = transaction_lock
  PROVE  IInv'
BY DEF IInv, Typed, Clocked, Unstamped, Locked, Settled, Latest, RecentlyOrdered

\* Statements, and the entries of undo buffers.
LEMMA DataStep ==
  ASSUME IInv, NEW t \in Txns,
         Insert(t) \/ Delete(t) \/ Update(t) \/ CommitEntry(t) \/ RollbackEntry(t)
           \/ CleanupEntry(t)
  PROVE  IInv'
<1> USE DEF managerVars, lockVars, listVars
<1>0. \A u \in Txns : pc[u] \in LockPcs => transaction_lock = u
  BY DEF IInv, Locked
<1>1. CASE Insert(t)
  BY <1>1, StillStep DEF Insert
<1>2. CASE Delete(t)
  <2>1. /\ commit_id' = commit_id /\ recently' = recently /\ clock' = clock
        /\ transaction_lock' = transaction_lock /\ pc[t] = "running"
    BY <1>2 DEF Delete, CanChange, Running
  <2>2. pc' = pc \/ pc' = [pc EXCEPT ![t] = "failed"]
    BY <1>2 DEF Delete, DeleteRows, Goto
  <2> QED
    BY <1>0, <2>1, <2>2, StillStep, QuietStep
       DEF EarlyPcs, LockPcs, StampedPcs, EndedPcs, Pcs
<1>3. CASE Update(t)
  <2>1. /\ commit_id' = commit_id /\ recently' = recently /\ clock' = clock
        /\ transaction_lock' = transaction_lock /\ pc[t] = "running"
    BY <1>3 DEF Update, CanChange, Running
  <2>2. pc' = pc \/ pc' = [pc EXCEPT ![t] = "failed"]
    BY <1>3 DEF Update, Goto
  <2> QED
    BY <1>0, <2>1, <2>2, StillStep, QuietStep
       DEF EarlyPcs, LockPcs, StampedPcs, EndedPcs, Pcs
<1>4. CASE CommitEntry(t)
  BY <1>4, StillStep DEF CommitEntry
<1>5. CASE RollbackEntry(t)
  BY <1>5, StillStep DEF RollbackEntry
<1>6. CASE CleanupEntry(t)
  BY <1>6, StillStep DEF CleanupEntry
<1> QED
  BY <1>1, <1>2, <1>3, <1>4, <1>5, <1>6

\* Where a commit gets its timestamp, or loses it.
LEMMA TimestampStep ==
  ASSUME IInv, NEW t \in Txns, CommitDirectly(t) \/ TakeTimestamp(t) \/ FlushFails(t)
  PROVE  IInv'
<1> USE DEF managerVars, lockVars, listVars
<1>0. transaction_lock = None => \A u \in Txns : pc[u] \notin LockPcs
  BY NoneAssumption DEF IInv, Locked
<1>1. CASE CommitDirectly(t)
  <2>1. /\ pc[t] = "running" /\ transaction_lock = None /\ transaction_lock' = t
        /\ clock' = clock + 1 /\ recently' = recently
    BY <1>1 DEF CommitDirectly, Running
  <2>2. \/ /\ pc' = [pc EXCEPT ![t] = "commit"]
           /\ commit_id' = [commit_id EXCEPT ![t] = clock]
        \/ /\ pc' = [pc EXCEPT ![t] = "rollback"]
           /\ commit_id' = commit_id
    BY <1>1 DEF CommitDirectly, Goto, GotoRollback, CommitTimestamp
  <2>3. CASE commit_id' = commit_id /\ pc' = [pc EXCEPT ![t] = "rollback"]
    BY <1>0, <2>1, <2>3, QuietStep DEF EarlyPcs, LockPcs, StampedPcs, EndedPcs, Pcs
  <2> QED
    BY <2>1, <2>2, <2>3, StampStep
<1>2. CASE TakeTimestamp(t)
  <2>1. /\ pc[t] = "written" /\ transaction_lock = None /\ transaction_lock' = t
        /\ clock' = clock + 1 /\ recently' = recently
    BY <1>2 DEF TakeTimestamp
  <2>2. \/ /\ pc' = [pc EXCEPT ![t] = "commit"]
           /\ commit_id' = [commit_id EXCEPT ![t] = clock]
        \/ /\ pc' = [pc EXCEPT ![t] = "rollback"]
           /\ commit_id' = commit_id
    BY <1>2 DEF TakeTimestamp, Goto, GotoRollback, CommitTimestamp
  <2>3. CASE commit_id' = commit_id /\ pc' = [pc EXCEPT ![t] = "rollback"]
    BY <1>0, <2>1, <2>3, QuietStep DEF EarlyPcs, LockPcs, StampedPcs, EndedPcs, Pcs
  <2> QED
    BY <2>1, <2>2, <2>3, StampStep
<1>3. CASE FlushFails(t)
  BY <1>3, UnstampStep DEF FlushFails, GotoRollback, Goto
<1> QED
  BY <1>1, <1>2, <1>3

\* Every step of the system keeps it.
LEMMA StepIInv == IInv /\ [Next]_vars => IInv'
<1> SUFFICES ASSUME IInv, [Next]_vars PROVE IInv'
  OBVIOUS
<1>1. CASE UNCHANGED vars
  BY <1>1, StillStep DEF vars, managerVars, listVars, txnVars, lockVars
<1>2. CASE AllDone
  BY <1>1, <1>2 DEF AllDone
<1>3. ASSUME NEW t \in Txns,
             \/ Start(t) \/ Insert(t) \/ Delete(t) \/ Update(t)
             \/ CommitDirectly(t) \/ CommitThroughWAL(t) \/ WriteToWAL(t)
             \/ TakeTimestamp(t) \/ CommitEntry(t) \/ CommitDone(t) \/ FlushFails(t)
             \/ Rollback(t) \/ RollbackEntry(t) \/ Leave(t) \/ PopCleanup(t)
             \/ CleanupEntry(t) \/ CleanupDone(t) \/ StartCheckpoint(t)
             \/ FinishCheckpoint(t)
      PROVE  IInv'
  BY <1>3, ManagerStep, DataStep, TimestampStep, RemoveStep
<1> QED
  BY <1>1, <1>2, <1>3 DEF Next

\* RemoveTransaction may stop at the first transaction that is still needed: the
\* list is in the order of the commits, for any number of transactions and rows,
\* whatever fails and whoever checkpoints.
THEOREM RecentlyCommittedOrdered == Spec => []RecentlyOrdered
<1>1. IInv => RecentlyOrdered
  BY DEF IInv
<1> QED
  BY InitIInv, StepIInv, <1>1, PTL DEF Spec

\* A commit keeps the lock on the transactions from its timestamp until it has
\* its place in the list, so that no two are ever between the two.
OneCommits ==
  \A t, u \in Txns : pc[t] \in StampedPcs /\ pc[u] \in StampedPcs => t = u
\* There is one at most.
THEOREM OneCommitAtATime == Spec => []OneCommits
<1>1. IInv => OneCommits
  BY DEF IInv, Locked, OneCommits, StampedPcs, LockPcs
<1> QED
  BY InitIInv, StepIInv, <1>1, PTL DEF Spec

-----------------------------------------------------------------------------
(* Least and greatest numbers, and the vector of a row                     *)

\* Numbers are well-founded under <: what LeastExists rests on.
LEMMA LessThanWellFounded ==
  \E R : IsWellFoundedOn(R, Nat) /\ \A x, y \in Nat : <<x, y>> \in R <=> x < y
<1>1. \A x, y \in Nat : <<x, y>> \in OpToRel(<, Nat) <=> x < y  BY DEF OpToRel
<1> QED BY <1>1, NatLessThanWellFounded, Zenon

\* A set of numbers that is not empty has a least element,
LEMMA LeastExists ==
  ASSUME NEW S, S \subseteq Nat, S # {}
  PROVE  Min(S) \in S /\ \A x \in S : Min(S) <= x
<1>1. PICK R : IsWellFoundedOn(R, Nat) /\ \A x, y \in Nat : <<x, y>> \in R <=> x < y
  BY LessThanWellFounded, Zenon
<1>2. PICK m \in S : \A y \in S : ~ (<<y, m>> \in R)
  <2>1. IsWellFoundedOn(R, Nat)  BY <1>1
  <2>2. \E x \in S : \A y \in S : ~ (<<y, x>> \in R)  BY <2>1, WFMin, Zenon
  <2> QED BY <2>2
<1>3. \A y \in S : ~(y < m)  BY <1>1, <1>2
<1>4. \A y \in S : m <= y  BY <1>3
<1> QED BY <1>4 DEF Min

\* and, if it is bounded, a greatest one.
LEMMA GreatestExists ==
  ASSUME NEW S, S \subseteq Nat, S # {}, NEW n \in Nat, \A x \in S : x <= n
  PROVE  Max(S) \in S /\ \A x \in S : x <= Max(S)
<1> DEFINE D == {n - x : x \in S}
<1>0. \A x \in S : n - x \in Nat  OBVIOUS
<1>1. D \subseteq Nat /\ D # {}  BY <1>0
<1>2. Min(D) \in D /\ \A x \in D : Min(D) <= x  BY <1>1, LeastExists
<1>3. PICK m \in S : Min(D) = n - m  BY <1>2
<1>4. ASSUME NEW x \in S PROVE m >= x
  <2>1. n - m <= n - x  BY <1>2, <1>3
  <2> QED BY <2>1
<1>5. \A x \in S : Max(S) >= x /\ Max(S) \in S  BY <1>4 DEF Max
<1> QED BY <1>5

\* Arithmetic of a vector's offset within its row group.
LEMMA Modulo ==
  ASSUME NEW x \in Nat, NEW n \in Nat \ {0}
  PROVE  x % n \in 0 .. n - 1 /\ x % n <= x
OBVIOUS

\* A row's vector starts at the row or before it.
LEMMA VecIn ==
  ASSUME groups \subseteq Nat, NEW r \in Nat \ {0}
  PROVE  Vec(r) \in 1 .. r
<1> DEFINE S == {1} \union {x \in groups : x <= r}
           g == Max(S)
<1>1. S \subseteq Nat /\ 1 \in S
  <2>1. 1 \in S  OBVIOUS
  <2>2. \A x \in S : x \in Nat  OBVIOUS
  <2> QED BY <2>1, <2>2
<1>2. \A x \in S : x <= r  OBVIOUS
<1> HIDE DEF S
<1>3. g \in S /\ \A x \in S : x <= g  BY <1>1, <1>2, GreatestExists
<1>4. g \in Nat /\ 1 <= g /\ g <= r  BY <1>1, <1>2, <1>3
<1> HIDE DEF g
<1>5. r - g \in Nat /\ VectorSize \in Nat \ {0}  BY <1>4, RowsAssumption
<1> DEFINE d == r - g
<1> HIDE DEF d
<1>6. d % VectorSize \in 0 .. VectorSize - 1 /\ d % VectorSize <= d
  <2>1. d \in Nat  BY <1>5 DEF d
  <2> QED BY <1>5, <2>1, Modulo
<1>7. Vec(r) = r - (d % VectorSize)  BY Zenon DEF d, Vec, g, S
<1>8. d = r - g  BY DEF d
<1> QED BY <1>4, <1>5, <1>6, <1>7, <1>8
-----------------------------------------------------------------------------
(* The clean-up: the types, and where each transaction is                  *)

Live == {"running", "failed", "wal", "written", "commit", "rollback", "remove"}
Values == Txns \union {Base}
Records == {rec \in [kind : {"append", "delete", "update"}, at : Nat \ {0}, rows : SUBSET Nat] :
              rec.kind = "update" => rec.at \in Rows}
Infos == [owner : Txns, version : Nat, old : UNION {[D -> Values] : D \in SUBSET Rows}]
Works == [txns : Seq(Txns), lowest : Nat]

DataTyped ==
  /\ setup \in Setups
  /\ undo \in [Txns -> Seq(Records)] /\ chain \in [Rows -> Seq(Infos)]
  /\ current \in [Rows -> Values]
  /\ inserted \in [Rows -> Nat] /\ deleted \in [Rows -> Nat]
  /\ count \in Nat /\ groups \subseteq Nat
TxnTyped ==
  /\ done \in [Txns -> Nat] /\ local \in [Txns -> Nat]
  /\ error \in [Txns -> BOOLEAN] /\ checkpoints \in [Txns -> BOOLEAN]
  /\ start_time \in [Txns -> Nat] /\ transaction_id \in [Txns -> Nat]
ManagerTyped ==
  /\ nextId \in Nat /\ last_commit \in Nat /\ active_checkpoint \in Nat
  /\ active \subseteq Txns /\ sharing \subseteq Txns
  /\ cleanup_queue \in Seq(Works) /\ work \in Works
  /\ {transaction_lock, wal_lock, cleanup_lock, checkpoint_lock} \subseteq Txns \union {None}

\* Entries are done only at the end, and those there are.
DoneInv ==
  \A t \in Txns : /\ pc[t] \in {"new", "running", "failed", "wal", "written"} => done[t] = 0
                  /\ pc[t] \in {"commit", "rollback"} => done[t] <= Len(undo[t])

\* The active transactions are those between their start and their removal.
ActiveInv == active = {t \in Txns : pc[t] \in Live}
\* A commit that has failed has no timestamp; a transaction that has one is over.
ErrorInv == \A t \in Txns : error[t] => /\ commit_id[t] = 0
                                        /\ pc[t] \notin {"new", "running", "failed", "wal"}
StampInv == \A t \in Txns : pc[t] \in StampedPcs => commit_id[t] # 0
\* Whoever has updated shares the lock on checkpoints until he is cleaned up,
SharingInv == \A t \in Txns : HasUpdates(t) => t \in sharing
\* so that nobody else has while one holds it.
ExclusiveInv == checkpoint_lock # None => sharing \subseteq {checkpoint_lock}
HoldsCheckpointLock(t) ==
  /\ checkpoints[t]
  /\ \/ pc[t] \in LockPcs
     \/ pc[t] \in {"cleanup", "cleaning", "checkpoint", "checkpointing"} /\ Committed(t)
HolderInv ==
  \A t \in Txns :
    /\ checkpoints[t] => pc[t] \in LockPcs \union EndedPcs
    /\ HoldsCheckpointLock(t) => checkpoint_lock = t
    /\ pc[t] \in {"checkpoint", "checkpointing"} => checkpoints[t] /\ Committed(t)
CheckpointInv ==
  active_checkpoint # NoCheckpoint => \E t \in Txns : pc[t] = "checkpointing"
AloneInv ==
  \A t \in Txns : checkpoints[t] /\ HasUpdates(t) /\ pc[t] \in LockPcs => active = {t}

\* A transaction that is over is in one place at most: kept, in one entry of the
\* queue, or being cleaned up.
InQueue(i) == ToSet(cleanup_queue[i].txns)
PlaceInv ==
  /\ \A i \in DOMAIN cleanup_queue : \A u \in InQueue(i) :
       /\ pc[u] \in EndedPcs /\ u \notin ToSet(work.txns) /\ u \notin ToSet(recently)
       /\ \A k \in DOMAIN cleanup_queue : u \in InQueue(k) => i = k
  /\ \A u \in ToSet(work.txns) : pc[u] \in EndedPcs /\ u \notin ToSet(recently)
KeptInv == \A u \in ToSet(recently) : u \in sharing /\ ~checkpoints[u]
\* What is left of a transaction is somewhere.
HomeInv ==
  \A t \in Txns : t \in sharing \/ undo[t] # <<>> =>
    \/ t \in active \union ToSet(recently) \union ToSet(work.txns)
    \/ \E i \in DOMAIN cleanup_queue : t \in InQueue(i)
EmptyInv == active = {} => recently = <<>>
QueueInv ==
  /\ IsFiniteSet({t \in Txns : pc[t] = "cleanup"})
  /\ Len(cleanup_queue) <= Cardinality({t \in Txns : pc[t] = "cleanup"})
WorkInv ==
  /\ cleanup_lock = None => work = NoWork
  /\ cleanup_lock # None => pc[cleanup_lock] = "cleaning"
  /\ \A t \in Txns : pc[t] = "cleaning" => cleanup_lock = t

\* A transaction takes one timestamp when it starts and at most one when it ends.
Begun == {t \in Txns : pc[t] \in Live \union EndedPcs}
Ending == {t \in Txns : pc[t] \in LockPcs \union EndedPcs}
ClockInv == 2 <= clock /\ clock <= 2 + Cardinality(Begun) + Cardinality(Ending)

\* Every linked UpdateInfo has its entry in the undo buffer: one that is not
\* rolled back yet, or not cleaned up yet.
Linked(u, v, version) ==
  \E j \in DOMAIN undo[u] :
    /\ undo[u][j] = [kind |-> "update", at |-> v, rows |-> {}]
    /\ pc[u] = "rollback" => j <= done[u]
    /\ pc[u] \in EndedPcs => Committed(u) /\ j > done[u]
    /\ pc[u] \in StampedPcs \union EndedPcs =>
         version = commit_id[u] \/ (pc[u] = "commit" /\ j > done[u])
    /\ pc[u] \in EarlyPcs => version = transaction_id[u]
LinkInv ==
  \A v \in Rows : \A i \in DOMAIN chain[v] :
    LET u == chain[v][i].owner
    IN  Linked(u, v, chain[v][i].version) /\ \A k \in DOMAIN chain[v] : chain[v][k].owner = u => k = i

CleanInv ==
  /\ DataTyped /\ TxnTyped /\ ManagerTyped /\ DoneInv
  /\ ActiveInv /\ ErrorInv /\ StampInv /\ SharingInv /\ ExclusiveInv /\ HolderInv
  /\ CheckpointInv /\ AloneInv
  /\ PlaceInv /\ KeptInv /\ HomeInv /\ EmptyInv /\ QueueInv /\ WorkInv /\ ClockInv /\ LinkInv

-----------------------------------------------------------------------------
(* Types: what the operations make of the table                            *)

\* What the assumptions say of the constants' types.
LEMMA ConstantTypes ==
  /\ TRANSACTION_ID_START \in Nat /\ NOT_DELETED_ID \in Nat /\ NoCheckpoint \in Nat
  /\ VectorSize \in Nat /\ MaxRows \in Nat /\ LoadedRows \in Nat /\ Rows \subseteq Nat \ {0}
BY IdsAssumption, RowsAssumption DEF NoCheckpoint, Rows

\* The vector of a row is a row.
LEMMA RowVecs ==
  ASSUME DataTyped, NEW r \in Rows
  PROVE  Vec(r) \in Rows /\ Vec(r) \in Nat \ {0} /\ Vec(r) <= r
<1>1. groups \subseteq Nat /\ r \in Nat \ {0}  BY RowsAssumption DEF DataTyped, Rows
<1>2. Vec(r) \in 1 .. r  BY <1>1, VecIn
<1> QED BY <1>1, <1>2, RowsAssumption DEF Rows

\* An undo entry more.
LEMMA RecordTyped ==
  ASSUME DataTyped, NEW t \in Txns, NEW rec \in Records, Record(t, rec)
  PROVE  undo' \in [Txns -> Seq(Records)]
BY DEF DataTyped, Record

\* What an append does, done or refused.
LEMMA AppendTyped ==
  ASSUME DataTyped, TxnTyped, NEW t \in Txns, AppendLocal(t)
  PROVE  /\ undo' \in [Txns -> Seq(Records)] /\ current' \in [Rows -> Values]
         /\ inserted' \in [Rows -> Nat] /\ count' \in Nat /\ groups' \subseteq Nat
<1>1. CASE local[t] = 0
  BY <1>1 DEF AppendLocal, DataTyped
<1>2. CASE local[t] # 0
  <2>1. Appended(t) \in Records
    BY DEF Appended, Records, DataTyped, TxnTyped
  <2>2. undo' \in [Txns -> Seq(Records)]
    BY <1>2, <2>1, RecordTyped DEF AppendLocal
  <2>3. current' \in [Rows -> Values] /\ inserted' \in [Rows -> Nat] /\ count' \in Nat
    <3>1. PICK rows : /\ current' = [r \in Rows |-> IF r \in rows THEN t ELSE current[r]]
                      /\ inserted' = [r \in Rows |-> IF r \in rows THEN transaction_id[t] ELSE inserted[r]]
                      /\ count' = count + local[t]
      BY <1>2 DEF AppendLocal
    <3> QED BY <3>1 DEF DataTyped, TxnTyped, Values
  <2>4. groups' \subseteq Nat
    <3>1. groups' = groups \/ groups' = groups \union {count + 1}
      BY <1>2 DEF AppendLocal
    <3>2. groups \subseteq Nat /\ count + 1 \in Nat  BY DEF DataTyped
    <3> QED BY <3>1, <3>2
  <2> QED BY <2>2, <2>3, <2>4
<1> QED BY <1>1, <1>2

\* A refused append records an entry and nothing else.
LEMMA RefusedTyped ==
  ASSUME DataTyped, TxnTyped, NEW t \in Txns, AppendRefused(t)
  PROVE  undo' \in [Txns -> Seq(Records)]
<1>1. Appended(t) \in Records
  BY DEF Appended, Records, DataTyped, TxnTyped
<1> QED BY <1>1, RecordTyped DEF AppendRefused

\* A DELETE marks rows of the table.
LEMMA DeleteTyped ==
  ASSUME DataTyped, TxnTyped, NEW t \in Txns, Delete(t)
  PROVE  undo' \in [Txns -> Seq(Records)] /\ deleted' \in [Rows -> Nat]
<1>1. PICK rows \in Chunks(t) : DeleteRows(t, rows)  BY DEF Delete
<1>2. /\ rows[1] \in Rows /\ \A i \in DOMAIN rows : rows[i] \in Rows
      /\ DOMAIN rows = 1 .. Len(rows)
  <2>1. Seen(t) \subseteq Rows  BY DEF Seen
  <2>2. \E r, s \in Rows : rows = <<r>> \/ rows = <<r, s>>
    BY <1>1, <2>1 DEF Chunks
  <2> QED BY <2>2
<1>3. Vec(rows[1]) \in Nat \ {0}  BY <1>2, RowVecs
<1> DEFINE id == transaction_id[t]
           conflicts == {i \in DOMAIN rows : deleted[rows[i]] \notin {NOT_DELETED_ID, id}}
           upto == IF conflicts = {} THEN Len(rows) ELSE Min(conflicts) - 1
           fresh == {r \in {rows[i] : i \in 1 .. upto} : deleted[r] = NOT_DELETED_ID}
           unset == fresh \union {rows[k] : k \in Cardinality(fresh) + 1 .. upto}
           rec == [kind |-> "delete", at |-> Vec(rows[1]), rows |-> fresh]
<1>4. \/ /\ deleted' = [r \in Rows |-> IF r \in fresh THEN id ELSE deleted[r]]
         /\ conflicts = {} /\ (UNCHANGED undo \/ Record(t, rec))
      \/ deleted' = [r \in Rows |-> IF r \in unset THEN NOT_DELETED_ID ELSE deleted[r]]
         /\ UNCHANGED undo
  BY <1>1 DEF DeleteRows
<1>5. deleted' \in [Rows -> Nat]
  <2> HIDE DEF fresh, unset, conflicts
  <2> QED BY <1>4, ConstantTypes DEF DataTyped, TxnTyped
<1>6. conflicts = {} => fresh \subseteq Nat
  <2> SUFFICES ASSUME conflicts = {}, NEW r \in fresh PROVE r \in Nat  OBVIOUS
  <2>1. \E i \in 1 .. Len(rows) : r = rows[i]  OBVIOUS
  <2> QED BY <1>2, <2>1, ConstantTypes
<1>7. conflicts = {} => rec \in Records
  BY <1>3, <1>6 DEF Records
<1> HIDE DEF rec, fresh, conflicts
<1> QED BY <1>4, <1>5, <1>7, RecordTyped DEF DataTyped

\* A sequence without its i-th element.
LEMMA RemoveAtIs ==
  ASSUME NEW S, NEW s \in Seq(S), NEW i \in 1 .. Len(s)
  PROVE  /\ RemoveAt(s, i) \in Seq(S) /\ Len(RemoveAt(s, i)) = Len(s) - 1
         /\ \A k \in 1 .. Len(s) - 1 : RemoveAt(s, i)[k] = IF k < i THEN s[k] ELSE s[k + 1]
<1> DEFINE a == SubSeq(s, 1, i - 1)
           b == SubSeq(s, i + 1, Len(s))
<1>1. /\ a \in Seq(S) /\ Len(a) = i - 1 /\ \A k \in 1 .. i - 1 : a[k] = s[k]
      /\ b \in Seq(S) /\ Len(b) = Len(s) - i /\ \A k \in 1 .. Len(s) - i : b[k] = s[k + i]
  OBVIOUS
<1>2. RemoveAt(s, i) = a \o b  BY DEF RemoveAt
<1> HIDE DEF a, b
<1>3. /\ a \o b \in Seq(S) /\ Len(a \o b) = Len(s) - 1
      /\ \A k \in 1 .. Len(s) - 1 : (a \o b)[k] = IF k <= i - 1 THEN a[k] ELSE b[k - (i - 1)]
  <2>1. a \in Seq(S) /\ b \in Seq(S) /\ i \in Nat /\ Len(s) \in Nat
        /\ Len(a) = i - 1 /\ Len(b) = Len(s) - i
    BY <1>1
  <2>2. /\ a \o b \in Seq(S) /\ Len(a \o b) = Len(a) + Len(b)
        /\ \A k \in 1 .. Len(a) + Len(b) : (a \o b)[k] = IF k <= Len(a) THEN a[k] ELSE b[k - Len(a)]
    BY <2>1, ConcatProperties
  <2>3. Len(a) + Len(b) = Len(s) - 1  BY <2>1
  <2> QED BY <2>1, <2>2, <2>3
<1>4. ASSUME NEW k \in 1 .. Len(s) - 1
      PROVE  (a \o b)[k] = IF k < i THEN s[k] ELSE s[k + 1]
  <2>1. CASE k < i  BY <1>1, <1>3, <2>1
  <2>2. CASE ~(k < i)
    <3>1. k - (i - 1) \in 1 .. Len(s) - i /\ k - (i - 1) + i = k + 1  BY <2>2
    <3> QED BY <1>1, <1>3, <2>2, <3>1
  <2> QED BY <2>1, <2>2
<1> QED BY <1>2, <1>3, <1>4

\* The UpdateInfo of t is taken out, the others move up.
LEMMA UnlinkIs ==
  ASSUME DataTyped, NEW v \in Rows, NEW t \in Txns, Unlink(v, t)
  PROVE  /\ chain' \in [Rows -> Seq(Infos)]
         /\ \A w \in Rows : w # v => chain'[w] = chain[w]
         /\ \E i \in DOMAIN chain[v] :
              /\ chain[v][i].owner = t
              /\ DOMAIN chain'[v] = 1 .. Len(chain[v]) - 1
              /\ \A k \in DOMAIN chain'[v] : LET k1 == IF k < i THEN k ELSE k + 1
                                             IN  k1 \in DOMAIN chain[v] /\ k1 # i
                                                 /\ chain'[v][k] = chain[v][k1]
<1>1. PICK i \in DOMAIN chain[v] : /\ chain[v][i].owner = t
                                   /\ chain' = [chain EXCEPT ![v] = RemoveAt(@, i)]
  BY DEF Unlink
<1>2. chain[v] \in Seq(Infos) /\ i \in 1 .. Len(chain[v]) /\ DOMAIN chain[v] = 1 .. Len(chain[v])
  BY DEF DataTyped
<1> DEFINE c == RemoveAt(chain[v], i)
<1>3. /\ c \in Seq(Infos) /\ Len(c) = Len(chain[v]) - 1
      /\ \A k \in 1 .. Len(chain[v]) - 1 : c[k] = IF k < i THEN chain[v][k] ELSE chain[v][k + 1]
  BY <1>2, RemoveAtIs
<1>4. chain' \in [Rows -> Seq(Infos)] /\ chain'[v] = c /\ \A w \in Rows : w # v => chain'[w] = chain[w]
  BY <1>1, <1>3 DEF DataTyped
<1> HIDE DEF c
<1>5. DOMAIN chain'[v] = 1 .. Len(chain[v]) - 1 /\ Len(chain[v]) \in Nat  BY <1>2, <1>3, <1>4
<1>6. ASSUME NEW k \in 1 .. Len(chain[v]) - 1
      PROVE  LET k1 == IF k < i THEN k ELSE k + 1
             IN  k1 \in DOMAIN chain[v] /\ k1 # i /\ chain'[v][k] = chain[v][k1]
  BY <1>2, <1>3, <1>4, <1>5
<1> QED BY <1>1, <1>4, <1>5, <1>6

\* An id for the UpdateInfos of t; they keep their places, rows and values.
LEMMA RenamedIs ==
  ASSUME NEW s \in Seq(Infos), NEW t \in Txns, NEW id \in Nat
  PROVE  /\ Renamed(s, t, id) \in Seq(Infos) /\ DOMAIN Renamed(s, t, id) = DOMAIN s
         /\ \A i \in DOMAIN s :
              /\ Renamed(s, t, id)[i].owner = s[i].owner
              /\ Renamed(s, t, id)[i].old = s[i].old
              /\ Renamed(s, t, id)[i].version = IF s[i].owner = t THEN id ELSE s[i].version
<1> DEFINE f == Renamed(s, t, id)
           E(i) == IF s[i].owner = t THEN [s[i] EXCEPT !.version = id] ELSE s[i]
<1>0. DOMAIN s = 1 .. Len(s) /\ Len(s) \in Nat  OBVIOUS
<1>1. ASSUME NEW i \in 1 .. Len(s)
      PROVE  /\ E(i) \in Infos /\ E(i).owner = s[i].owner /\ E(i).old = s[i].old
             /\ E(i).version = IF s[i].owner = t THEN id ELSE s[i].version
  <2>1. s[i] \in Infos  OBVIOUS
  <2> QED BY <2>1 DEF Infos
<1>2. f = [i \in 1 .. Len(s) |-> E(i)]  BY <1>0 DEF Renamed
<1> HIDE DEF E
<1>3. f \in [1 .. Len(s) -> Infos]  BY <1>1, <1>2
<1>4. f \in Seq(Infos)  BY <1>0, <1>3, IsASeq
<1>5. \A i \in 1 .. Len(s) : f[i] = E(i)  BY <1>2
<1> QED BY <1>0, <1>1, <1>2, <1>4, <1>5

\* An update changes the base and the UpdateInfo of t at one vector.
LEMMA MergeUpdateIs ==
  ASSUME DataTyped, TxnTyped, NEW t \in Txns, NEW v \in Rows, NEW rows \in SUBSET Rows,
         MergeUpdate(t, v, rows)
  PROVE  /\ chain' \in [Rows -> Seq(Infos)] /\ current' \in [Rows -> Values]
         /\ current' = [r \in Rows |-> IF r \in rows THEN t ELSE current[r]]
         /\ \A w \in Rows : w # v => chain'[w] = chain[w]
         /\ \/ /\ \E i \in DOMAIN chain[v] : chain[v][i].version = transaction_id[t]
               /\ UNCHANGED undo
               /\ DOMAIN chain'[v] = DOMAIN chain[v]
               /\ \A i \in DOMAIN chain[v] :
                    /\ chain'[v][i].owner = chain[v][i].owner
                    /\ chain'[v][i].version = chain[v][i].version
                    /\ chain'[v][i].old = IF chain[v][i].version # transaction_id[t] THEN chain[v][i].old
                                          ELSE OldValues(chain[v][i].old, rows)
            \/ /\ \A i \in DOMAIN chain[v] : chain[v][i].version # transaction_id[t]
               /\ Record(t, [kind |-> "update", at |-> v, rows |-> {}])
               /\ DOMAIN chain'[v] = 1 .. Len(chain[v]) + 1
               /\ chain'[v][1].owner = t /\ chain'[v][1].version = transaction_id[t]
               /\ chain'[v][1].old = OldValues(<<>>, rows)
               /\ \A i \in DOMAIN chain[v] : chain'[v][i + 1] = chain[v][i]
<1> DEFINE infos == chain[v]
           c == Merged(t, infos, rows)
           Olds == UNION {[D -> Values] : D \in SUBSET Rows}
<1>1. current' \in [Rows -> Values] /\ current' = [r \in Rows |-> IF r \in rows THEN t ELSE current[r]]
  BY DEF MergeUpdate, DataTyped, Values
<1>2. infos \in Seq(Infos) /\ DOMAIN infos = 1 .. Len(infos) /\ Len(infos) \in Nat
  BY DEF DataTyped
<1>3. ASSUME NEW known, known \in Olds \/ known = <<>>
      PROVE  OldValues(known, rows) \in Olds
  <2>0. PICK D \in SUBSET Rows : DOMAIN known = D /\ \A r \in D : known[r] \in Values
    <3>1. CASE known \in Olds  BY <3>1
    <3>2. CASE known = <<>>
      <4>1. DOMAIN <<>> = {}  OBVIOUS
      <4> QED BY <3>2, <4>1
    <3> QED BY <1>3, <3>1, <3>2
  <2>1. D \union rows \in SUBSET Rows  OBVIOUS
  <2>2. OldValues(known, rows) \in [D \union rows -> Values]  BY <2>0 DEF DataTyped, OldValues
  <2> QED BY <2>1, <2>2
<1> HIDE DEF infos
<1>4. chain' = [chain EXCEPT ![v] = c]  BY DEF MergeUpdate, infos
<1>5. c \in Seq(Infos) => /\ chain'[v] = c /\ chain' \in [Rows -> Seq(Infos)]
                          /\ \A w \in Rows : w # v => chain'[w] = chain[w]
  BY <1>4 DEF DataTyped
<1>6. CASE Own(t, infos) # {}
  <2> DEFINE F(i) == IF i \in Own(t, infos) THEN [infos[i] EXCEPT !.old = OldValues(@, rows)]
                     ELSE infos[i]
  <2>1. c = [i \in 1 .. Len(infos) |-> F(i)]  BY <1>2, <1>6 DEF Merged
  <2>2. ASSUME NEW i \in 1 .. Len(infos)
        PROVE  /\ F(i) \in Infos /\ F(i).owner = infos[i].owner /\ F(i).version = infos[i].version
               /\ F(i).old = IF infos[i].version # transaction_id[t] THEN infos[i].old
                             ELSE OldValues(infos[i].old, rows)
    <3>1. infos[i] \in Infos  BY <1>2
    <3>2. OldValues(infos[i].old, rows) \in Olds  BY <1>3, <3>1 DEF Infos
    <3>3. i \in Own(t, infos) <=> infos[i].version = transaction_id[t]  BY <1>2 DEF Own
    <3> QED BY <3>1, <3>2, <3>3 DEF Infos
  <2> HIDE DEF F, c
  <2>3. c \in [1 .. Len(infos) -> Infos]  BY <2>1, <2>2
  <2>4. c \in Seq(Infos)  BY <1>2, <2>3, IsASeq
  <2>5. /\ DOMAIN c = 1 .. Len(infos) /\ \A i \in 1 .. Len(infos) : c[i] = F(i)
    BY <2>1
  <2>6. \E i \in DOMAIN infos : infos[i].version = transaction_id[t]  BY <1>6 DEF Own
  <2>7. UNCHANGED undo  BY <1>6 DEF MergeUpdate, infos
  <2> QED BY <1>1, <1>2, <1>5, <2>2, <2>4, <2>5, <2>6, <2>7 DEF infos
<1>7. CASE Own(t, infos) = {}
  <2> DEFINE info == [owner |-> t, version |-> transaction_id[t], old |-> OldValues(<<>>, rows)]
  <2>1. c = <<info>> \o infos  BY <1>7 DEF Merged
  <2>2. info \in Infos
    <3>1. OldValues(<<>>, rows) \in Olds  BY <1>3
    <3> QED BY <3>1 DEF Infos, TxnTyped
  <2>3. info.owner = t /\ info.version = transaction_id[t] /\ info.old = OldValues(<<>>, rows)  OBVIOUS
  <2> HIDE DEF info, c
  <2>4. /\ c \in Seq(Infos) /\ Len(c) = Len(infos) + 1 /\ c[1] = info
        /\ \A i \in 1 .. Len(infos) : c[i + 1] = infos[i]
    BY <1>2, <2>1, <2>2
  <2>5. DOMAIN c = 1 .. Len(infos) + 1  BY <2>4
  <2>6. Record(t, [kind |-> "update", at |-> v, rows |-> {}])  BY <1>7 DEF MergeUpdate, infos
  <2>7. \A i \in DOMAIN infos : infos[i].version # transaction_id[t]  BY <1>7 DEF Own
  <2> QED BY <1>1, <1>2, <1>5, <2>3, <2>4, <2>5, <2>6, <2>7 DEF infos
<1> QED BY <1>6, <1>7

\* Steps that leave the undo buffers and the table alone.
LEMMA DataKept ==
  ASSUME DataTyped, UNCHANGED <<setup, undo, chain, current, inserted, deleted, count, groups>>
  PROVE  DataTyped'
BY DEF DataTyped

\* An undo entry exists, and is one.
LEMMA EntryTyped ==
  ASSUME DataTyped, NEW t \in Txns, NEW i \in Nat, i \in 1 .. Len(undo[t])
  PROVE  undo[t][i] \in Records /\ undo[t][i].at \in Nat \ {0} /\ undo[t][i].rows \subseteq Nat
         /\ (undo[t][i].kind = "update" => undo[t][i].at \in Rows)
<1>1. undo[t] \in Seq(Records)  BY DEF DataTyped
<1>2. undo[t][i] \in Records  BY <1>1
<1> QED BY <1>2 DEF Records

\* Cutting the table off keeps the types (RevertAppendInternal).
LEMMA CutOffTyped ==
  ASSUME DataTyped, NEW at \in Nat \ {0}, NEW ids \in [Rows -> Nat], CutOff(at, ids)
  PROVE  inserted' \in [Rows -> Nat] /\ deleted' \in [Rows -> Nat] /\ count' \in Nat /\ groups' \subseteq Nat
<1>1. inserted' \in [Rows -> Nat]
  BY DEF CutOff, DataTyped
<1>2. deleted' \in [Rows -> Nat]
  <2>1. \A r \in Rows : ids[r] \in Nat /\ NOT_DELETED_ID \in Nat  BY ConstantTypes
  <2> QED BY <2>1 DEF CutOff
<1>3. count' \in Nat
  BY DEF CutOff
<1>4. groups' \subseteq Nat
  <2>1. groups' = {g \in groups : g < at}  BY DEF CutOff
  <2>2. \A g \in groups : g \in Nat  BY DEF DataTyped
  <2>3. \A g \in groups' : g \in Nat  BY <2>1, <2>2
  <2> QED BY <2>3
<1> QED BY <1>1, <1>2, <1>3, <1>4

\* Update keeps the types of the data.
LEMMA UpdateTyped ==
  ASSUME DataTyped, TxnTyped, NEW t \in Txns, Update(t)
  PROVE  DataTyped'
<1>0. UNCHANGED <<setup, inserted, deleted, count, groups>>
  BY DEF Update, versionVars
<1>1. PICK v \in {Vec(r) : r \in Seen(t)} : \E rows \in SUBSET {r \in Seen(t) : Vec(r) = v} :
        IF Conflicts(t, v, rows) THEN UNCHANGED <<chain, current, undo>> ELSE MergeUpdate(t, v, rows)
  BY DEF Update, updateVars
<1>2. Seen(t) \subseteq Rows  BY DEF Seen
<1>3. v \in Rows
  <2>1. PICK r \in Seen(t) : v = Vec(r)  OBVIOUS
  <2> QED BY <1>2, <2>1, RowVecs
<1>4. CASE UNCHANGED <<chain, current, undo>>
  BY <1>0, <1>4, DataKept
<1>5. CASE \E rows \in SUBSET {r \in Seen(t) : Vec(r) = v} : MergeUpdate(t, v, rows)
  <2>1. PICK rows \in SUBSET {r \in Seen(t) : Vec(r) = v} : MergeUpdate(t, v, rows)  BY <1>5
  <2>2. rows \in SUBSET Rows  BY <1>2
  <2>3. chain' \in [Rows -> Seq(Infos)] /\ current' \in [Rows -> Values]
    BY <1>3, <2>1, <2>2, MergeUpdateIs, Zenon
  <2>4. undo' \in [Txns -> Seq(Records)]
    <3>1. [kind |-> "update", at |-> v, rows |-> {}] \in Records
      BY <1>3, ConstantTypes DEF Records
    <3> QED BY <2>1, <3>1, RecordTyped DEF MergeUpdate, DataTyped
  <2> QED BY <1>0, <2>3, <2>4 DEF DataTyped
<1> QED BY <1>1, <1>4, <1>5

\* Giving an entry's rows, or its UpdateInfo, an id keeps the types.
LEMMA MarkTyped ==
  ASSUME DataTyped, NEW t \in Txns, NEW rec \in Records, NEW id \in Nat, Mark(t, rec, id)
  PROVE  inserted' \in [Rows -> Nat] /\ deleted' \in [Rows -> Nat] /\ chain' \in [Rows -> Seq(Infos)]
<1>1. inserted' \in [Rows -> Nat] /\ deleted' \in [Rows -> Nat]
  BY DEF Mark, DataTyped
<1>2. chain' \in [Rows -> Seq(Infos)]
  <2>1. CASE rec.kind # "update"
    BY <2>1 DEF Mark, DataTyped
  <2>2. CASE rec.kind = "update"
    <3>1. rec.at \in Rows  BY <2>2 DEF Records
    <3>2. chain[rec.at] \in Seq(Infos)  BY <3>1 DEF DataTyped
    <3>3. Renamed(chain[rec.at], t, id) \in Seq(Infos)  BY <3>2, RenamedIs
    <3>4. chain' = [chain EXCEPT ![rec.at] = Renamed(@, t, id)]  BY <2>2 DEF Mark
    <3> QED BY <3>1, <3>3, <3>4 DEF DataTyped
  <2> QED BY <2>1, <2>2
<1> QED BY <1>1, <1>2

\* FlushFails keeps the types of the data.
LEMMA FlushFailsTyped ==
  ASSUME IInv, DataTyped, TxnTyped, NEW t \in Txns, FlushFails(t)
  PROVE  DataTyped'
<1>1. chain' \in [Rows -> Seq(Infos)]
  <2>1. chain' = [v \in Rows |-> Renamed(chain[v], t, transaction_id[t])]  BY DEF FlushFails
  <2>2. \A v \in Rows : chain[v] \in Seq(Infos)  BY DEF DataTyped
  <2>3. \A v \in Rows : Renamed(chain[v], t, transaction_id[t]) \in Seq(Infos)
    BY <2>2, RenamedIs DEF TxnTyped
  <2> QED BY <2>1, <2>3
<1> DEFINE ids == [r \in Rows |-> IF r \in Marked(t) THEN transaction_id[t] ELSE deleted[r]]
<1>2. ids \in [Rows -> Nat]  BY DEF DataTyped, TxnTyped
<1>3. \/ deleted' = ids /\ UNCHANGED <<count, groups, inserted>>
      \/ Appends(t) # {} /\ CutOff(undo[t][Min(Appends(t))].at, ids)
  BY DEF FlushFails
<1> HIDE DEF ids
<1>4. CASE deleted' = ids /\ UNCHANGED <<count, groups, inserted>>
  BY <1>1, <1>2, <1>4 DEF FlushFails, DataTyped
<1>5. CASE Appends(t) # {} /\ CutOff(undo[t][Min(Appends(t))].at, ids)
  <2> DEFINE at == undo[t][Min(Appends(t))].at
  <2>1. undo[t] \in Seq(Records)  BY DEF DataTyped
  <2>2. \A i \in Appends(t) : i \in Nat /\ i \in 1 .. Len(undo[t])  BY <2>1 DEF Appends
  <2>3. Appends(t) \subseteq Nat  BY <2>2
  <2>4. Min(Appends(t)) \in Appends(t)  BY <1>5, <2>3, LeastExists
  <2>5. at \in Nat \ {0}  BY <2>2, <2>4, EntryTyped
  <2> HIDE DEF at
  <2>6. CutOff(at, ids)  BY <1>5 DEF at
  <2>7. inserted' \in [Rows -> Nat] /\ deleted' \in [Rows -> Nat] /\ count' \in Nat /\ groups' \subseteq Nat
    BY <1>2, <2>5, <2>6, CutOffTyped
  <2> QED BY <1>1, <2>7 DEF FlushFails, DataTyped
<1> QED BY <1>3, <1>4, <1>5

\* RollbackEntry keeps the types of the data: t has one UpdateInfo of a vector.
LEMMA RollbackEntryTyped ==
  ASSUME DataTyped, TxnTyped, NEW t \in Txns, RollbackEntry(t), done[t] <= Len(undo[t]),
         \A v \in Rows : \A i, k \in DOMAIN chain[v] :
           chain[v][i].owner = t /\ chain[v][k].owner = t => k = i
  PROVE  DataTyped'
<1>0. done[t] \in Nat /\ done[t] \in 1 .. Len(undo[t])
  BY DEF RollbackEntry, TxnTyped, DataTyped
<1>1. UNCHANGED <<setup, undo>>  BY DEF RollbackEntry
<1> DEFINE rec == undo[t][done[t]]
<1>2. rec \in Records /\ rec.at \in Nat \ {0} /\ (rec.kind = "update" => rec.at \in Rows)
  BY <1>0, EntryTyped
<1>3. \/ rec.kind = "append" /\ CutOff(rec.at, deleted) /\ UNCHANGED updateVars
      \/ deleted' = [r \in Rows |-> IF r \in rec.rows THEN NOT_DELETED_ID ELSE deleted[r]]
         /\ UNCHANGED <<count, groups, inserted, updateVars>>
      \/ /\ rec.kind = "update" /\ current' = RestoredValues(rec.at, t) /\ Unlink(rec.at, t)
         /\ UNCHANGED <<count, groups, inserted, deleted>>
  BY DEF RollbackEntry
<1> HIDE DEF rec
<1>4. CASE rec.kind = "append" /\ CutOff(rec.at, deleted) /\ UNCHANGED updateVars
  <2>1. deleted \in [Rows -> Nat]  BY DEF DataTyped
  <2> QED BY <1>1, <1>2, <1>4, <2>1, CutOffTyped DEF DataTyped, updateVars
<1>5. CASE deleted' = [r \in Rows |-> IF r \in rec.rows THEN NOT_DELETED_ID ELSE deleted[r]]
           /\ UNCHANGED <<count, groups, inserted, updateVars>>
  BY <1>1, <1>5, ConstantTypes DEF DataTyped, updateVars
<1>6. CASE /\ rec.kind = "update" /\ current' = RestoredValues(rec.at, t) /\ Unlink(rec.at, t)
           /\ UNCHANGED <<count, groups, inserted, deleted>>
  <2>1. rec.at \in Rows  BY <1>2, <1>6
  <2>2. chain' \in [Rows -> Seq(Infos)]  BY <1>6, <2>1, UnlinkIs
  <2>3. current' \in [Rows -> Values]
    <3> DEFINE infos == chain[rec.at]
               own == {i \in DOMAIN infos : infos[i].owner = t}
               k == CHOOSE i \in own : TRUE
    <3>1. current' = [r \in Rows |-> IF \E i \in own : r \in DOMAIN infos[i].old
                                     THEN infos[k].old[r] ELSE current[r]]
      BY <1>6 DEF RestoredValues
    <3>2. infos \in Seq(Infos)  BY <2>1 DEF DataTyped
    <3>5. ASSUME NEW r \in Rows, \E i \in own : r \in DOMAIN infos[i].old
          PROVE  infos[k].old[r] \in Values
      <4>1. PICK i \in own : r \in DOMAIN infos[i].old  BY <3>5
      <4>2. k \in own  BY <4>1
      <4>3. k = i  BY <2>1, <4>1, <4>2
      <4>4. infos[i] \in Infos  BY <3>2
      <4>5. PICK D \in SUBSET Rows : infos[i].old \in [D -> Values]  BY <4>4 DEF Infos
      <4>6. infos[i].old[r] \in Values  BY <4>1, <4>5
      <4> QED BY <4>3, <4>6
    <3> QED BY <3>1, <3>5 DEF DataTyped
  <2> QED BY <1>1, <1>6, <2>2, <2>3 DEF DataTyped
<1> QED BY <1>3, <1>4, <1>5, <1>6

-----------------------------------------------------------------------------
(* What each operation leaves as it was                                    *)

\* One operation of the transaction t, or of the thread that runs it.
Step(t) ==
  \/ Start(t) \/ Insert(t) \/ Delete(t) \/ Update(t)
  \/ CommitDirectly(t) \/ CommitThroughWAL(t) \/ WriteToWAL(t) \/ TakeTimestamp(t)
  \/ CommitEntry(t) \/ CommitDone(t) \/ FlushFails(t) \/ Rollback(t) \/ RollbackEntry(t)
  \/ Leave(t) \/ PopCleanup(t) \/ CleanupEntry(t) \/ CleanupDone(t)
  \/ StartCheckpoint(t) \/ FinishCheckpoint(t)

\* A transaction records one entry at most, of one of some kinds.
Recorded(t, kinds) ==
  \/ UNCHANGED undo
  \/ \E rec \in Records : rec.kind \in kinds /\ Record(t, rec)

\* What Record appends, and where.
LEMMA RecordIs ==
  ASSUME DataTyped, NEW t \in Txns, NEW rec \in Records, Record(t, rec)
  PROVE  /\ undo' \in [Txns -> Seq(Records)]
         /\ \A u \in Txns : u # t => undo'[u] = undo[u]
         /\ Len(undo'[t]) = Len(undo[t]) + 1 /\ undo'[t][Len(undo[t]) + 1] = rec
         /\ DOMAIN undo'[t] = 1 .. Len(undo[t]) + 1
         /\ DOMAIN undo[t] = 1 .. Len(undo[t]) /\ Len(undo[t]) \in Nat
         /\ \A i \in DOMAIN undo[t] : undo'[t][i] = undo[t][i]
<1>1. undo[t] \in Seq(Records)  BY DEF DataTyped
<1>2. undo' = [undo EXCEPT ![t] = Append(undo[t], rec)]  BY DEF Record
<1>3. undo'[t] = Append(undo[t], rec)  BY <1>2 DEF DataTyped
<1>4. undo' \in [Txns -> Seq(Records)]  BY RecordTyped
<1>5. \A u \in Txns : u # t => undo'[u] = undo[u]  BY <1>2 DEF DataTyped
<1> QED BY <1>1, <1>3, <1>4, <1>5

\* What a transaction has recorded stays.
LEMMA RecordedIs ==
  ASSUME DataTyped, NEW t \in Txns, NEW kinds, Recorded(t, kinds)
  PROVE  /\ undo' \in [Txns -> Seq(Records)]
         /\ \A u \in Txns : u # t => undo'[u] = undo[u]
         /\ Len(undo[t]) \in Nat /\ Len(undo'[t]) \in {Len(undo[t]), Len(undo[t]) + 1}
         /\ DOMAIN undo[t] = 1 .. Len(undo[t]) /\ DOMAIN undo'[t] = 1 .. Len(undo'[t])
         /\ \A i \in DOMAIN undo[t] : undo'[t][i] = undo[t][i]
         /\ \A i \in DOMAIN undo'[t] : i \in DOMAIN undo[t] \/ undo'[t][i].kind \in kinds
<1>1. undo \in [Txns -> Seq(Records)] /\ undo[t] \in Seq(Records)  BY DEF DataTyped
<1>2. CASE UNCHANGED undo  BY <1>1, <1>2
<1>3. ASSUME NEW rec \in Records, rec.kind \in kinds, Record(t, rec)
      PROVE  /\ undo' \in [Txns -> Seq(Records)]
             /\ \A u \in Txns : u # t => undo'[u] = undo[u]
             /\ Len(undo[t]) \in Nat /\ Len(undo'[t]) \in {Len(undo[t]), Len(undo[t]) + 1}
             /\ DOMAIN undo[t] = 1 .. Len(undo[t]) /\ DOMAIN undo'[t] = 1 .. Len(undo'[t])
             /\ \A i \in DOMAIN undo[t] : undo'[t][i] = undo[t][i]
             /\ \A i \in DOMAIN undo'[t] : i \in DOMAIN undo[t] \/ undo'[t][i].kind \in kinds
  BY <1>3, RecordIs
<1> QED BY <1>2, <1>3 DEF Recorded

\* ... so that it has updated if it had, or does so now.
LEMMA RecordedUpdates ==
  ASSUME DataTyped, NEW t \in Txns, NEW kinds, Recorded(t, kinds)
  PROVE  \A u \in Txns : /\ HasUpdates(u) => HasUpdates(u)'
                         /\ HasUpdates(u)' => HasUpdates(u) \/ (u = t /\ "update" \in kinds)
<1> SUFFICES ASSUME NEW u \in Txns
             PROVE  /\ HasUpdates(u) => HasUpdates(u)'
                    /\ HasUpdates(u)' => HasUpdates(u) \/ (u = t /\ "update" \in kinds)
  OBVIOUS
<1>1. CASE u # t  BY <1>1, RecordedIs DEF HasUpdates
<1>2. CASE u = t
  <2>1. HasUpdates(t) => HasUpdates(t)'  BY RecordedIs DEF HasUpdates
  <2>2. HasUpdates(t)' => HasUpdates(t) \/ "update" \in kinds  BY RecordedIs DEF HasUpdates
  <2> QED BY <1>2, <2>1, <2>2
<1> QED BY <1>1, <1>2

\* Delete moves on at most to "failed" and records at most one delete.
LEMMA DeleteFrame ==
  ASSUME DataTyped, TxnTyped, NEW t \in Txns, Delete(t)
  PROVE  /\ pc[t] = "running" /\ (pc' = pc \/ pc' = [pc EXCEPT ![t] = "failed"])
         /\ Recorded(t, {"delete"})
         /\ UNCHANGED <<setup, managerVars, lockVars, start_time, transaction_id, commit_id, local,
                 done, error, checkpoints, count, groups, seen, inserted, updateVars>>
<1>1. PICK rows \in Chunks(t) : DeleteRows(t, rows)  BY DEF Delete
<1>2. pc[t] = "running" /\ (pc' = pc \/ pc' = [pc EXCEPT ![t] = "failed"])
  BY <1>1 DEF Delete, DeleteRows, CanChange, Running, Goto
<1>3. \/ UNCHANGED undo
      \/ \E rs : Record(t, [kind |-> "delete", at |-> Vec(rows[1]), rows |-> rs])
  BY <1>1 DEF DeleteRows
<1>4. ASSUME NEW rs, Record(t, [kind |-> "delete", at |-> Vec(rows[1]), rows |-> rs])
      PROVE  Recorded(t, {"delete"})
  <2> DEFINE rec == [kind |-> "delete", at |-> Vec(rows[1]), rows |-> rs]
  <2>1. undo' \in [Txns -> Seq(Records)]  BY DeleteTyped
  <2>2. undo[t] \in Seq(Records) /\ undo' = [undo EXCEPT ![t] = Append(undo[t], rec)]
    BY <1>4 DEF DataTyped, Record
  <2>3. undo'[t] = Append(undo[t], rec)  BY <2>2 DEF DataTyped
  <2> HIDE DEF rec
  <2>4. undo'[t][Len(undo[t]) + 1] = rec /\ Len(undo[t]) + 1 \in DOMAIN undo'[t]
    BY <2>2, <2>3
  <2>5. rec \in Records  BY <2>1, <2>4
  <2>6. rec.kind = "delete"  BY DEF rec
  <2>7. Record(t, rec)  BY <1>4 DEF rec
  <2> QED BY <2>5, <2>6, <2>7 DEF Recorded
<1>5. Recorded(t, {"delete"})  BY <1>3, <1>4 DEF Recorded
<1> QED BY <1>2, <1>5 DEF Delete

\* Update moves on at most to "failed", shares the lock, records at most one update.
LEMMA UpdateFrame ==
  ASSUME DataTyped, NEW t \in Txns, Update(t)
  PROVE  /\ pc[t] = "running" /\ (pc' = pc \/ pc' = [pc EXCEPT ![t] = "failed"])
         /\ checkpoint_lock = None \/ t \in sharing
         /\ sharing' = sharing \union {t}
         /\ Recorded(t, {"update"})
         /\ UNCHANGED <<setup, managerVars, transaction_lock, wal_lock, cleanup_lock,
                 checkpoint_lock, start_time, transaction_id, commit_id, local, done,
                 error, checkpoints, versionVars>>
<1>1. PICK r \in Seen(t), rows \in SUBSET Seen(t) :
         IF Conflicts(t, Vec(r), rows) THEN Goto(t, "failed") /\ UNCHANGED <<updateVars, undo>>
         ELSE MergeUpdate(t, Vec(r), rows) /\ UNCHANGED pc
  BY DEF Update
<1>2. Vec(r) \in Rows  BY RowVecs DEF Seen
<1>3. UNCHANGED undo \/ Record(t, [kind |-> "update", at |-> Vec(r), rows |-> {}])
  BY <1>1 DEF MergeUpdate
<1>4. [kind |-> "update", at |-> Vec(r), rows |-> {}] \in Records
  BY <1>2, ConstantTypes DEF Records
<1>5. Recorded(t, {"update"})  BY <1>3, <1>4 DEF Recorded
<1>6. pc' = pc \/ pc' = [pc EXCEPT ![t] = "failed"]  BY <1>1 DEF Goto
<1> QED BY <1>5, <1>6 DEF Update, CanChange, Running

\* The append of the local storage is recorded, refused or not.
LEMMA AppendRecorded ==
  ASSUME DataTyped, TxnTyped, NEW t \in Txns, AppendLocal(t) \/ AppendRefused(t)
  PROVE  Recorded(t, {"append"})
<1>1. Appended(t) \in Records /\ Appended(t).kind = "append"
  BY DEF Appended, Records, DataTyped, TxnTyped
<1> QED BY <1>1 DEF AppendLocal, AppendRefused, Recorded

\* TakeTimestamp goes to the commit with a timestamp, or rolls back without.
LEMMA TakeTimestampFrame ==
  ASSUME NEW t \in Txns, TakeTimestamp(t)
  PROVE  /\ pc[t] = "written" /\ transaction_lock = None /\ transaction_lock' = t
         /\ clock' = clock + 1
         /\ \/ /\ error[t] /\ pc' = [pc EXCEPT ![t] = "rollback"] /\ UNCHANGED commit_id
               /\ done' = [done EXCEPT ![t] = Len(undo[t])]
            \/ /\ ~error[t] /\ pc' = [pc EXCEPT ![t] = "commit"] /\ UNCHANGED done
               /\ commit_id' = [commit_id EXCEPT ![t] = clock]
         /\ UNCHANGED <<setup, nextId, last_commit, listVars, checkpointVars, wal_lock, cleanup_lock,
                 checkpoint_lock, sharing, start_time, transaction_id, undo, local, error,
                 checkpoints, versionVars, updateVars>>
BY DEF TakeTimestamp, GotoRollback, Goto, CommitTimestamp

\* CommitDirectly keeps the transaction lock; it commits, or rolls back.
LEMMA CommitDirectlyFrame ==
  ASSUME DataTyped, TxnTyped, NEW t \in Txns, CommitDirectly(t)
  PROVE  /\ pc[t] = "running" /\ transaction_lock = None /\ transaction_lock' = t
         /\ clock' = clock + 1 /\ Recorded(t, {"append"}) /\ Len(undo'[t]) \in Nat
         /\ \/ ~ChangesMade(t) /\ UNCHANGED <<checkpoint_lock, checkpoints>>
            \/ /\ setup.checkpoint /\ ChangesMade(t) /\ CheckpointLockFree(t) /\ MayCheckpoint(t)
               /\ checkpoint_lock' = t /\ checkpoints' = [checkpoints EXCEPT ![t] = TRUE]
         /\ \/ /\ AppendLocal(t) /\ commit_id' = [commit_id EXCEPT ![t] = clock]
               /\ pc' = [pc EXCEPT ![t] = "commit"] /\ UNCHANGED <<done, error>>
            \/ /\ AppendRefused(t) /\ error' = [error EXCEPT ![t] = TRUE]
               /\ pc' = [pc EXCEPT ![t] = "rollback"] /\ UNCHANGED commit_id
               /\ done' = [done EXCEPT ![t] = Len(undo'[t])]
         /\ UNCHANGED <<setup, nextId, last_commit, listVars, checkpointVars, wal_lock, cleanup_lock,
                 sharing, start_time, transaction_id, local, deleted, anyDeleted, chain>>
<1>1. AppendLocal(t) \/ AppendRefused(t)  BY DEF CommitDirectly
<1>2. Recorded(t, {"append"})  BY <1>1, AppendRecorded
<1>3. Len(undo'[t]) \in Nat  BY <1>2, RecordedIs
<1>4. ASSUME AppendRefused(t) PROVE Len(undo[t]) + 1 = Len(undo'[t])
  <2>1. Appended(t) \in Records  BY DEF Appended, Records, DataTyped, TxnTyped
  <2> QED BY <1>4, <2>1, RecordIs DEF AppendRefused
<1>5. \/ /\ AppendLocal(t) /\ commit_id' = [commit_id EXCEPT ![t] = clock]
         /\ pc' = [pc EXCEPT ![t] = "commit"] /\ UNCHANGED <<done, error>>
      \/ /\ AppendRefused(t) /\ error' = [error EXCEPT ![t] = TRUE]
         /\ pc' = [pc EXCEPT ![t] = "rollback"] /\ UNCHANGED commit_id
         /\ done' = [done EXCEPT ![t] = Len(undo'[t])]
  BY <1>4 DEF CommitDirectly, GotoRollback, Goto, CommitTimestamp
<1> QED BY <1>2, <1>3, <1>5 DEF CommitDirectly, Running

\* The entry to clean up next is one of a transaction that is being cleaned up.
LEMMA CleanupEntryIs ==
  ASSUME DataTyped, TxnTyped, ManagerTyped, NEW t \in Txns, CleanupEntry(t)
  PROVE  \E u \in ToSet(work.txns) \cap Txns :
           /\ Committed(u) /\ done[u] < Len(undo[u])
           /\ done' = [done EXCEPT ![u] = @ + 1]
           /\ LET rec == undo[u][done[u] + 1]
              IN  /\ rec \in Records
                  /\ \/ rec.kind = "append" /\ CleanupAppend(rec.rows, work.lowest) /\ UNCHANGED chain
                     \/ rec.kind = "update" /\ Unlink(rec.at, u) /\ UNCHANGED inserted
                     \/ rec.kind = "delete" /\ UNCHANGED <<chain, inserted>>
<1>0. work.txns \in Seq(Txns)  BY DEF ManagerTyped, Works
<1>1. DOMAIN work.txns = 1 .. Len(work.txns) /\ \A i \in DOMAIN work.txns : work.txns[i] \in Txns
  BY <1>0
<1>2. Unclean # {} /\ \A i \in Unclean : i \in Nat
  <2>1. \A i \in Unclean : i \in DOMAIN work.txns  BY DEF Unclean
  <2>2. \A i \in DOMAIN work.txns : i \in Nat  BY <1>1
  <2> QED BY <2>1, <2>2 DEF CleanupEntry
<1>3. Min(Unclean) \in Unclean
  <2>1. Unclean \subseteq Nat  BY <1>2
  <2> QED BY <1>2, <2>1, LeastExists
<1> DEFINE u == work.txns[Min(Unclean)]
<1>4. u \in Txns /\ u \in ToSet(work.txns) /\ Committed(u) /\ done[u] < Len(undo[u])
  <2>1. Min(Unclean) \in DOMAIN work.txns /\ Committed(u) /\ done[u] < Len(undo[u])
    BY <1>3 DEF Unclean
  <2>2. u \in ToSet(work.txns)  BY <2>1 DEF ToSet
  <2> QED BY <1>1, <2>1, <2>2
<1>5. undo[u][done[u] + 1] \in Records
  BY <1>4, EntryTyped DEF TxnTyped, DataTyped
<1> QED BY <1>4, <1>5 DEF CleanupEntry

-----------------------------------------------------------------------------
(* The parts of CleanInv, one by one: the types                            *)

\* Every step keeps the types of the transactions' fields.
LEMMA TxnTypedKept ==
  ASSUME IInv, DataTyped, TxnTyped, ManagerTyped, NEW t \in Txns, Step(t)
  PROVE  TxnTyped'
<1> USE DEF managerVars, lockVars, listVars, checkpointVars, versionVars, updateVars
<1>0. \A u \in Txns : Len(undo[u]) \in Nat /\ clock \in Nat /\ nextId \in Nat
  BY DEF DataTyped, IInv, Typed, ManagerTyped
<1>1. CASE Start(t)  BY <1>0, <1>1 DEF Start, TxnTyped
<1>2. CASE Insert(t)  BY <1>2 DEF Insert, TxnTyped
<1>3. CASE Delete(t)  BY <1>3, DeleteFrame DEF TxnTyped
<1>4. CASE Update(t)  BY <1>4, UpdateFrame DEF TxnTyped
<1>5. CASE CommitDirectly(t)
  <2>1. /\ UNCHANGED <<local, start_time, transaction_id>> /\ Len(undo'[t]) \in Nat
        /\ checkpoints' = checkpoints \/ checkpoints' = [checkpoints EXCEPT ![t] = TRUE]
        /\ error' = error \/ error' = [error EXCEPT ![t] = TRUE]
        /\ done' = done \/ done' = [done EXCEPT ![t] = Len(undo'[t])]
    BY <1>5, CommitDirectlyFrame
  <2> QED BY <2>1 DEF TxnTyped
<1>6. CASE CommitThroughWAL(t)  BY <1>6 DEF CommitThroughWAL, TxnTyped
<1>7. CASE WriteToWAL(t)  BY <1>7 DEF WriteToWAL, TxnTyped
<1>8. CASE TakeTimestamp(t)  BY <1>0, <1>8 DEF TakeTimestamp, GotoRollback, TxnTyped
<1>9. CASE CommitEntry(t)  BY <1>9 DEF CommitEntry, TxnTyped
<1>10. CASE CommitDone(t)  BY <1>10 DEF CommitDone, TxnTyped
<1>11. CASE FlushFails(t)  BY <1>0, <1>11 DEF FlushFails, GotoRollback, TxnTyped
<1>12. CASE Rollback(t)  BY <1>0, <1>12 DEF Rollback, GotoRollback, TxnTyped
<1>13. CASE RollbackEntry(t)  BY <1>13 DEF RollbackEntry, TxnTyped
<1>14. CASE Leave(t)  BY <1>14 DEF Leave, TxnTyped
<1>15. CASE PopCleanup(t)  BY <1>15 DEF PopCleanup, TxnTyped
<1>16. CASE CleanupEntry(t)
  <2>1. \E u \in Txns : done' = [done EXCEPT ![u] = @ + 1]  BY <1>16, CleanupEntryIs
  <2> QED BY <1>16, <2>1 DEF CleanupEntry, TxnTyped
<1>17. CASE CleanupDone(t)  BY <1>17 DEF CleanupDone, TxnTyped
<1>18. CASE StartCheckpoint(t)  BY <1>18 DEF StartCheckpoint, TxnTyped
<1>19. CASE FinishCheckpoint(t)  BY <1>19 DEF FinishCheckpoint, TxnTyped
<1> QED
  BY <1>1, <1>2, <1>3, <1>4, <1>5, <1>6, <1>7, <1>8, <1>9, <1>10, <1>11, <1>12, <1>13,
     <1>14, <1>15, <1>16, <1>17, <1>18, <1>19 DEF Step

\* LowestActiveStart is a number, and no start of an active transaction is below it.
LEMMA LowestIs ==
  ASSUME TxnTyped, ManagerTyped, NEW t \in Txns
  PROVE  /\ LowestActiveStart(t) \in Nat
         /\ LowestActiveStart(t) <= TRANSACTION_ID_START
         /\ LowestActiveStart(t) <= active_checkpoint
         /\ \A u \in active \ {t} : LowestActiveStart(t) <= start_time[u]
         /\ LowestActiveStart(t) \in {start_time[u] : u \in active \ {t}}
                                       \union {TRANSACTION_ID_START, active_checkpoint}
<1> DEFINE S == {start_time[u] : u \in active \ {t}} \union {TRANSACTION_ID_START, active_checkpoint}
<1>1. \A x \in S : x \in Nat  BY ConstantTypes DEF TxnTyped, ManagerTyped
<1>2. S \subseteq Nat /\ S # {}  BY <1>1
<1>3. Min(S) \in S /\ \A x \in S : Min(S) <= x  BY <1>2, LeastExists
<1>4. LowestActiveStart(t) = Min(S)  BY DEF LowestActiveStart
<1>5. /\ TRANSACTION_ID_START \in S /\ active_checkpoint \in S
      /\ \A u \in active \ {t} : start_time[u] \in S
  OBVIOUS
<1> HIDE DEF S
<1>6. /\ LowestActiveStart(t) \in Nat /\ LowestActiveStart(t) <= TRANSACTION_ID_START
      /\ LowestActiveStart(t) <= active_checkpoint
      /\ \A u \in active \ {t} : LowestActiveStart(t) <= start_time[u]
  BY <1>1, <1>3, <1>4, <1>5
<1> QED BY <1>3, <1>4, <1>6 DEF S

\* The two lists of RemoveTransaction: those that stay, and the entry for the queue.
LEMMA LeaveIs ==
  ASSUME IInv, TxnTyped, ManagerTyped, NEW t \in Txns, Leave(t)
  PROVE  \E n \in Nat, list, txns \in Seq(Txns) :
           /\ list = CommittedBefore(t) /\ n <= Len(list)
           /\ recently' = SubSeq(list, n + 1, Len(list))
           /\ txns = (IF Scheduled(t) THEN <<t>> ELSE <<>>) \o SubSeq(list, 1, n)
           /\ \A i \in 1 .. n : commit_id[list[i]] < LowestActiveStart(t)
           /\ n < Len(list) => commit_id[list[n + 1]] >= LowestActiveStart(t)
           /\ cleanup_queue' = IF txns = <<>> THEN cleanup_queue
                ELSE Append(cleanup_queue, [txns |-> txns, lowest |-> LowestActiveStart(t)])
<1> DEFINE list == CommittedBefore(t)
           own == IF Scheduled(t) THEN <<t>> ELSE <<>>
<1>1. list \in Seq(Txns)  BY DEF CommittedBefore, IInv, Typed
<1>2. own \in Seq(Txns)  OBVIOUS
<1>3. PICK n \in 0 .. Len(list) :
           /\ recently' = SubSeq(list, n + 1, Len(list))
           /\ \A i \in 1 .. n : commit_id[list[i]] < LowestActiveStart(t)
           /\ n < Len(list) => commit_id[list[n + 1]] >= LowestActiveStart(t)
           /\ cleanup_queue' = IF own \o SubSeq(list, 1, n) = <<>> THEN cleanup_queue
                ELSE Append(cleanup_queue, [txns |-> own \o SubSeq(list, 1, n), lowest |-> LowestActiveStart(t)])
  BY DEF Leave, RemoveTransaction
<1> HIDE DEF list, own
<1>4. n \in Nat /\ n <= Len(list) /\ own \o SubSeq(list, 1, n) \in Seq(Txns)
  BY <1>1, <1>2
<1> QED BY <1>1, <1>3, <1>4 DEF list, own

\* Every step keeps the types of the manager's fields.
LEMMA ManagerTypedKept ==
  ASSUME IInv, DataTyped, TxnTyped, ManagerTyped, NEW t \in Txns, Step(t)
  PROVE  ManagerTyped'
<1> USE DEF managerVars, lockVars, listVars, checkpointVars, versionVars, updateVars
<1>0. commit_id \in [Txns -> Nat]
  BY DEF IInv, Typed
<1>1. CASE Start(t)  BY <1>0, <1>1 DEF Start, ManagerTyped
<1>2. CASE Insert(t)  BY <1>2 DEF Insert, ManagerTyped
<1>3. CASE Delete(t)  BY <1>3, DeleteFrame DEF ManagerTyped
<1>4. CASE Update(t)  BY <1>4, UpdateFrame DEF ManagerTyped
<1>5. CASE CommitDirectly(t)  BY <1>0, <1>5 DEF CommitDirectly, ManagerTyped
<1>6. CASE CommitThroughWAL(t)  BY <1>6 DEF CommitThroughWAL, ManagerTyped
<1>7. CASE WriteToWAL(t)  BY <1>7 DEF WriteToWAL, ManagerTyped
<1>8. CASE TakeTimestamp(t)  BY <1>0, <1>8 DEF TakeTimestamp, ManagerTyped
<1>9. CASE CommitEntry(t)  BY <1>9 DEF CommitEntry, ManagerTyped
<1>10. CASE CommitDone(t)  BY <1>0, <1>10 DEF CommitDone, ManagerTyped
<1>11. CASE FlushFails(t)  BY <1>11 DEF FlushFails, ManagerTyped
<1>12. CASE Rollback(t)  BY <1>12 DEF Rollback, ManagerTyped
<1>13. CASE RollbackEntry(t)  BY <1>13 DEF RollbackEntry, ManagerTyped
<1>14. CASE Leave(t)
  <2>1. cleanup_queue' \in Seq(Works)
    <3>1. PICK txns \in Seq(Txns) : cleanup_queue' = IF txns = <<>> THEN cleanup_queue
            ELSE Append(cleanup_queue, [txns |-> txns, lowest |-> LowestActiveStart(t)])
      BY <1>14, LeaveIs
    <3>2. [txns |-> txns, lowest |-> LowestActiveStart(t)] \in Works
      BY LowestIs DEF Works
    <3> QED BY <3>1, <3>2 DEF ManagerTyped
  <2>2. sharing' \subseteq sharing /\ active' \subseteq active
    BY <1>14 DEF Leave, RemoveTransaction
  <2>3. /\ transaction_lock' = None /\ wal_lock' \in {None, wal_lock}
        /\ checkpoint_lock' \in {None, checkpoint_lock}
    BY <1>14 DEF Leave
  <2> QED BY <1>14, <2>1, <2>2, <2>3 DEF Leave, ManagerTyped
<1>15. CASE PopCleanup(t)
  <2>1. CASE cleanup_queue = <<>>
    BY <1>15, <2>1 DEF PopCleanup, ManagerTyped
  <2>2. CASE cleanup_queue # <<>>
    <3>1. Head(cleanup_queue) \in Works /\ Tail(cleanup_queue) \in Seq(Works)
      BY <2>2 DEF ManagerTyped
    <3> QED BY <1>15, <2>2, <3>1 DEF PopCleanup, ManagerTyped
  <2> QED BY <2>1, <2>2
<1>16. CASE CleanupEntry(t)  BY <1>16 DEF CleanupEntry, ManagerTyped
<1>17. CASE CleanupDone(t)
  <2>1. NoWork \in Works  BY DEF NoWork, Works
  <2> QED BY <1>17, <2>1 DEF CleanupDone, ManagerTyped
<1>18. CASE StartCheckpoint(t)  BY <1>18 DEF StartCheckpoint, ManagerTyped
<1>19. CASE FinishCheckpoint(t)  BY <1>19, ConstantTypes DEF FinishCheckpoint, ManagerTyped
<1> QED
  BY <1>1, <1>2, <1>3, <1>4, <1>5, <1>6, <1>7, <1>8, <1>9, <1>10, <1>11, <1>12, <1>13,
     <1>14, <1>15, <1>16, <1>17, <1>18, <1>19 DEF Step

\* Every step keeps the types of the table, the chains and the undo buffers.
LEMMA DataTypedKept ==
  ASSUME IInv, DataTyped, TxnTyped, ManagerTyped, DoneInv, LinkInv, NEW t \in Txns, Step(t)
  PROVE  DataTyped'
<1> USE DEF managerVars, lockVars, listVars, checkpointVars, versionVars, updateVars
<1>0. commit_id \in [Txns -> Nat]  BY DEF IInv, Typed
<1>1. CASE Start(t)
  BY <1>1, DataKept DEF Start
<1>2. CASE Insert(t)
  BY <1>2, DataKept DEF Insert
<1>3. CASE Delete(t)
  BY <1>3, DeleteFrame, DeleteTyped DEF DataTyped
<1>4. CASE Update(t)
  BY <1>4, UpdateTyped
<1>5. CASE CommitDirectly(t)
  <2>1. AppendLocal(t) \/ AppendRefused(t)  BY <1>5 DEF CommitDirectly
  <2>2. UNCHANGED <<setup, deleted, chain>>  BY <1>5 DEF CommitDirectly
  <2>3. CASE AppendLocal(t)  BY <2>2, <2>3, AppendTyped DEF DataTyped
  <2>4. CASE AppendRefused(t)  BY <2>2, <2>4, RefusedTyped DEF DataTyped, AppendRefused
  <2> QED BY <2>1, <2>3, <2>4
<1>6. CASE CommitThroughWAL(t)
  BY <1>6, DataKept DEF CommitThroughWAL
<1>7. CASE WriteToWAL(t)
  <2>1. AppendLocal(t) \/ AppendRefused(t)  BY <1>7 DEF WriteToWAL
  <2>2. UNCHANGED <<setup, deleted, chain>>  BY <1>7 DEF WriteToWAL
  <2>3. CASE AppendLocal(t)  BY <2>2, <2>3, AppendTyped DEF DataTyped
  <2>4. CASE AppendRefused(t)  BY <2>2, <2>4, RefusedTyped DEF DataTyped, AppendRefused
  <2> QED BY <2>1, <2>3, <2>4
<1>8. CASE TakeTimestamp(t)
  BY <1>8, DataKept DEF TakeTimestamp
<1>9. CASE CommitEntry(t)
  <2>1. done[t] \in Nat /\ done[t] + 1 \in Nat /\ done[t] + 1 \in 1 .. Len(undo[t])
    BY <1>9 DEF CommitEntry, TxnTyped, DataTyped
  <2> DEFINE rec == undo[t][done[t] + 1]
  <2>2. rec \in Records  BY <2>1, EntryTyped
  <2>3. Mark(t, rec, commit_id[t])  BY <1>9 DEF CommitEntry
  <2> HIDE DEF rec
  <2>4. /\ inserted' \in [Rows -> Nat] /\ deleted' \in [Rows -> Nat]
        /\ chain' \in [Rows -> Seq(Infos)]
    BY <1>0, <2>2, <2>3, MarkTyped
  <2> QED BY <1>9, <2>4 DEF CommitEntry, DataTyped
<1>10. CASE CommitDone(t)
  BY <1>10, DataKept DEF CommitDone
<1>11. CASE FlushFails(t)
  BY <1>11, FlushFailsTyped
<1>12. CASE Rollback(t)
  BY <1>12, DataKept DEF Rollback
<1>13. CASE RollbackEntry(t)
  <2>1. done[t] <= Len(undo[t])  BY <1>13 DEF RollbackEntry, DoneInv
  <2>2. \A v \in Rows : \A i, k \in DOMAIN chain[v] :
           chain[v][i].owner = t /\ chain[v][k].owner = t => k = i
    BY DEF LinkInv
  <2> QED BY <1>13, <2>1, <2>2, RollbackEntryTyped
<1>14. CASE Leave(t)
  BY <1>14, DataKept DEF Leave
<1>15. CASE PopCleanup(t)
  BY <1>15, DataKept DEF PopCleanup
<1>16. CASE CleanupEntry(t)
  <2>1. PICK u \in ToSet(work.txns) \cap Txns :
           LET rec == undo[u][done[u] + 1]
           IN  /\ rec \in Records
               /\ \/ rec.kind = "append" /\ CleanupAppend(rec.rows, work.lowest) /\ UNCHANGED chain
                  \/ rec.kind = "update" /\ Unlink(rec.at, u) /\ UNCHANGED inserted
                  \/ rec.kind = "delete" /\ UNCHANGED <<chain, inserted>>
    BY <1>16, CleanupEntryIs
  <2>2. UNCHANGED <<setup, undo, current, deleted, count, groups>>  BY <1>16 DEF CleanupEntry
  <2>3. chain' \in [Rows -> Seq(Infos)]
    <3>1. CASE UNCHANGED chain  BY <3>1 DEF DataTyped
    <3>2. CASE \E v \in Rows : Unlink(v, u)  BY <3>2, UnlinkIs
    <3> QED BY <2>1, <3>1, <3>2 DEF Records
  <2>4. inserted' \in [Rows -> Nat]
    <3>1. CASE UNCHANGED inserted  BY <3>1 DEF DataTyped
    <3>2. ASSUME NEW rows, CleanupAppend(rows, work.lowest) PROVE inserted' \in [Rows -> Nat]
      BY <3>2 DEF CleanupAppend, DataTyped
    <3> QED BY <2>1, <3>1, <3>2
  <2> QED BY <2>2, <2>3, <2>4 DEF DataTyped
<1>17. CASE CleanupDone(t)
  <2>1. undo' \in [Txns -> Seq(Records)]
    BY <1>17 DEF CleanupDone, DataTyped
  <2> QED BY <1>17, <2>1 DEF CleanupDone, DataTyped
<1>18. CASE StartCheckpoint(t)
  BY <1>18, DataKept DEF StartCheckpoint
<1>19. CASE FinishCheckpoint(t)
  BY <1>19, DataKept DEF FinishCheckpoint
<1> QED
  BY <1>1, <1>2, <1>3, <1>4, <1>5, <1>6, <1>7, <1>8, <1>9, <1>10,
     <1>11, <1>12, <1>13, <1>14, <1>15, <1>16, <1>17, <1>18, <1>19 DEF Step

-----------------------------------------------------------------------------
(* Who is active, has a timestamp, has failed                              *)

\* Every step keeps active_transactions exact.
LEMMA ActiveKept ==
  ASSUME IInv, DataTyped, TxnTyped, ManagerTyped, ActiveInv, NEW t \in Txns, Step(t)
  PROVE  ActiveInv'
<1> USE DEF managerVars, lockVars, listVars, checkpointVars, versionVars, updateVars
<1>0. /\ pc \in [Txns -> Pcs] /\ commit_id \in [Txns -> Nat] /\ clock \in Nat
      /\ None \notin Txns
  BY NoneAssumption DEF IInv, Typed
<1> USE DEF Live, EarlyPcs, LockPcs, StampedPcs, EndedPcs
<1>1. CASE Start(t)  BY <1>0, <1>1 DEF Start, Goto, ActiveInv
<1>2. CASE Insert(t)  BY <1>0, <1>2 DEF Insert, ActiveInv
<1>3. CASE Delete(t)  BY <1>0, <1>3, DeleteFrame DEF ActiveInv
<1>4. CASE Update(t)  BY <1>0, <1>4, UpdateFrame DEF ActiveInv
<1>5. CASE CommitDirectly(t)  BY <1>0, <1>5, CommitDirectlyFrame DEF ActiveInv
<1>6. CASE CommitThroughWAL(t)  BY <1>0, <1>6 DEF CommitThroughWAL, Running, Goto, ActiveInv
<1>7. CASE WriteToWAL(t)  BY <1>0, <1>7 DEF WriteToWAL, Goto, ActiveInv
<1>8. CASE TakeTimestamp(t)  BY <1>0, <1>8, TakeTimestampFrame DEF ActiveInv
<1>9. CASE CommitEntry(t)  BY <1>0, <1>9 DEF CommitEntry, ActiveInv
<1>10. CASE CommitDone(t)  BY <1>0, <1>10 DEF CommitDone, Goto, ActiveInv
<1>11. CASE FlushFails(t)  BY <1>0, <1>11 DEF FlushFails, Goto, GotoRollback, ActiveInv
<1>12. CASE Rollback(t)  BY <1>0, <1>12 DEF Rollback, Goto, GotoRollback, ActiveInv
<1>13. CASE RollbackEntry(t)  BY <1>0, <1>13 DEF RollbackEntry, ActiveInv
<1>14. CASE Leave(t)
  BY <1>0, <1>14 DEF Leave, RemoveTransaction, Goto, ActiveInv
<1>15. CASE PopCleanup(t)
  BY <1>0, <1>15 DEF PopCleanup, AfterCleanup, Goto, ActiveInv
<1>16. CASE CleanupEntry(t)  BY <1>0, <1>16 DEF CleanupEntry, ActiveInv
<1>17. CASE CleanupDone(t)
  BY <1>0, <1>17 DEF CleanupDone, AfterCleanup, Goto, ActiveInv
<1>18. CASE StartCheckpoint(t)  BY <1>0, <1>18 DEF StartCheckpoint, Goto, ActiveInv
<1>19. CASE FinishCheckpoint(t)  BY <1>0, <1>19 DEF FinishCheckpoint, Goto, ActiveInv
<1> QED
  BY <1>1, <1>2, <1>3, <1>4, <1>5, <1>6, <1>7, <1>8, <1>9, <1>10,
     <1>11, <1>12, <1>13, <1>14, <1>15, <1>16, <1>17, <1>18, <1>19 DEF Step

\* Every step keeps the timestamps of those committed.
LEMMA StampKept ==
  ASSUME IInv, DataTyped, TxnTyped, ManagerTyped, ClockInv, StampInv, NEW t \in Txns, Step(t)
  PROVE  StampInv'
<1> USE DEF managerVars, lockVars, listVars, checkpointVars, versionVars, updateVars
<1>0. /\ pc \in [Txns -> Pcs] /\ commit_id \in [Txns -> Nat] /\ clock \in Nat /\ clock # 0
  BY DEF IInv, Typed, ClockInv
<1> USE DEF Live, EarlyPcs, LockPcs, StampedPcs, EndedPcs
<1>1. CASE Start(t)  BY <1>0, <1>1 DEF Start, Goto, StampInv
<1>2. CASE Insert(t)  BY <1>0, <1>2 DEF Insert, StampInv
<1>3. CASE Delete(t)  BY <1>0, <1>3, DeleteFrame DEF StampInv
<1>4. CASE Update(t)  BY <1>0, <1>4, UpdateFrame DEF StampInv
<1>5. CASE CommitDirectly(t)  BY <1>0, <1>5, CommitDirectlyFrame DEF StampInv
<1>6. CASE CommitThroughWAL(t)  BY <1>0, <1>6 DEF CommitThroughWAL, Running, Goto, StampInv
<1>7. CASE WriteToWAL(t)  BY <1>0, <1>7 DEF WriteToWAL, Goto, StampInv
<1>8. CASE TakeTimestamp(t)  BY <1>0, <1>8, TakeTimestampFrame DEF StampInv
<1>9. CASE CommitEntry(t)  BY <1>0, <1>9 DEF CommitEntry, StampInv
<1>10. CASE CommitDone(t)  BY <1>0, <1>10 DEF CommitDone, Goto, StampInv
<1>11. CASE FlushFails(t)  BY <1>0, <1>11 DEF FlushFails, Goto, GotoRollback, StampInv
<1>12. CASE Rollback(t)  BY <1>0, <1>12 DEF Rollback, Goto, GotoRollback, StampInv
<1>13. CASE RollbackEntry(t)  BY <1>0, <1>13 DEF RollbackEntry, StampInv
<1>14. CASE Leave(t)  BY <1>0, <1>14 DEF Leave, Goto, StampInv
<1>15. CASE PopCleanup(t)
  BY <1>0, <1>15 DEF PopCleanup, AfterCleanup, Goto, StampInv
<1>16. CASE CleanupEntry(t)  BY <1>0, <1>16 DEF CleanupEntry, StampInv
<1>17. CASE CleanupDone(t)
  BY <1>0, <1>17 DEF CleanupDone, AfterCleanup, Goto, StampInv
<1>18. CASE StartCheckpoint(t)  BY <1>0, <1>18 DEF StartCheckpoint, Goto, StampInv
<1>19. CASE FinishCheckpoint(t)  BY <1>0, <1>19 DEF FinishCheckpoint, Goto, StampInv
<1> QED
  BY <1>1, <1>2, <1>3, <1>4, <1>5, <1>6, <1>7, <1>8, <1>9, <1>10,
     <1>11, <1>12, <1>13, <1>14, <1>15, <1>16, <1>17, <1>18, <1>19 DEF Step

\* Every step keeps a failed commit without a timestamp.
LEMMA ErrorKept ==
  ASSUME IInv, DataTyped, TxnTyped, ManagerTyped, ErrorInv, NEW t \in Txns, Step(t)
  PROVE  ErrorInv'
<1> USE DEF managerVars, lockVars, listVars, checkpointVars, versionVars, updateVars
<1>0. /\ pc \in [Txns -> Pcs] /\ commit_id \in [Txns -> Nat] /\ error \in [Txns -> BOOLEAN]
      /\ \A u \in Txns : pc[u] \in EarlyPcs => commit_id[u] = 0
  BY DEF IInv, Typed, Unstamped, TxnTyped
<1> USE DEF Live, EarlyPcs, LockPcs, StampedPcs, EndedPcs
<1>1. CASE Start(t)  BY <1>0, <1>1 DEF Start, Goto, ErrorInv
<1>2. CASE Insert(t)  BY <1>0, <1>2 DEF Insert, ErrorInv
<1>3. CASE Delete(t)  BY <1>0, <1>3, DeleteFrame DEF ErrorInv
<1>4. CASE Update(t)  BY <1>0, <1>4, UpdateFrame DEF ErrorInv
<1>5. CASE CommitDirectly(t)  BY <1>0, <1>5, CommitDirectlyFrame DEF ErrorInv
<1>6. CASE CommitThroughWAL(t)  BY <1>0, <1>6 DEF CommitThroughWAL, Running, Goto, ErrorInv
<1>7. CASE WriteToWAL(t)  BY <1>0, <1>7 DEF WriteToWAL, Goto, ErrorInv
<1>8. CASE TakeTimestamp(t)  BY <1>0, <1>8, TakeTimestampFrame DEF ErrorInv
<1>9. CASE CommitEntry(t)  BY <1>0, <1>9 DEF CommitEntry, ErrorInv
<1>10. CASE CommitDone(t)  BY <1>0, <1>10 DEF CommitDone, Goto, ErrorInv
<1>11. CASE FlushFails(t)  BY <1>0, <1>11 DEF FlushFails, Goto, GotoRollback, ErrorInv
<1>12. CASE Rollback(t)  BY <1>0, <1>12 DEF Rollback, Goto, GotoRollback, ErrorInv
<1>13. CASE RollbackEntry(t)  BY <1>0, <1>13 DEF RollbackEntry, ErrorInv
<1>14. CASE Leave(t)  BY <1>0, <1>14 DEF Leave, Goto, ErrorInv
<1>15. CASE PopCleanup(t)
  BY <1>0, <1>15 DEF PopCleanup, AfterCleanup, Goto, ErrorInv
<1>16. CASE CleanupEntry(t)  BY <1>0, <1>16 DEF CleanupEntry, ErrorInv
<1>17. CASE CleanupDone(t)
  BY <1>0, <1>17 DEF CleanupDone, AfterCleanup, Goto, ErrorInv
<1>18. CASE StartCheckpoint(t)  BY <1>0, <1>18 DEF StartCheckpoint, Goto, ErrorInv
<1>19. CASE FinishCheckpoint(t)  BY <1>0, <1>19 DEF FinishCheckpoint, Goto, ErrorInv
<1> QED
  BY <1>1, <1>2, <1>3, <1>4, <1>5, <1>6, <1>7, <1>8, <1>9, <1>10,
     <1>11, <1>12, <1>13, <1>14, <1>15, <1>16, <1>17, <1>18, <1>19 DEF Step

\* Every step keeps the count of entries done within the undo buffer.
LEMMA DoneKept ==
  ASSUME IInv, DataTyped, TxnTyped, ManagerTyped, DoneInv, PlaceInv, NEW t \in Txns, Step(t)
  PROVE  DoneInv'
<1> USE DEF managerVars, lockVars, listVars, checkpointVars, versionVars, updateVars
<1>0. /\ pc \in [Txns -> Pcs] /\ done \in [Txns -> Nat]
      /\ \A u \in Txns : Len(undo[u]) \in Nat
      /\ \A u \in ToSet(work.txns) : pc[u] \in EndedPcs
  BY DEF IInv, Typed, TxnTyped, DataTyped, PlaceInv
<1> USE DEF Live, EarlyPcs, LockPcs, StampedPcs, EndedPcs
<1>1. CASE Start(t)  BY <1>0, <1>1 DEF Start, Goto, DoneInv
<1>2. CASE Insert(t)  BY <1>0, <1>2 DEF Insert, DoneInv
<1>3. CASE Delete(t)
  <2>0. Recorded(t, {"delete"})  BY <1>3, DeleteFrame
  <2>1. \A u \in Txns : Len(undo'[u]) >= Len(undo[u])  BY <1>0, <2>0, RecordedIs
  <2> QED BY <1>0, <1>3, <2>1, DeleteFrame DEF DoneInv
<1>4. CASE Update(t)
  <2>0. Recorded(t, {"update"})  BY <1>4, UpdateFrame
  <2>1. \A u \in Txns : Len(undo'[u]) >= Len(undo[u])  BY <1>0, <2>0, RecordedIs
  <2> QED BY <1>0, <1>4, <2>1, UpdateFrame DEF DoneInv
<1>5. CASE CommitDirectly(t)
  <2>1. \A u \in Txns \ {t} : undo'[u] = undo[u] /\ Len(undo'[t]) \in Nat
    BY <1>0, <1>5, CommitDirectlyFrame, RecordedIs
  <2>2. \A u \in Txns \ {t} : pc'[u] = pc[u] /\ done'[u] = done[u]
    BY <1>0, <1>5, CommitDirectlyFrame
  <2>3. \/ pc'[t] = "commit" /\ done'[t] = 0
        \/ pc'[t] = "rollback" /\ done'[t] = Len(undo'[t])
    <3>1. pc[t] = "running"  BY <1>5, CommitDirectlyFrame
    <3>2. done[t] = 0  BY <3>1 DEF DoneInv
    <3> QED BY <1>0, <1>5, <3>2, CommitDirectlyFrame
  <2> QED BY <1>0, <2>1, <2>2, <2>3 DEF DoneInv
<1>6. CASE CommitThroughWAL(t)  BY <1>0, <1>6 DEF CommitThroughWAL, Running, Goto, DoneInv
<1>7. CASE WriteToWAL(t)
  <2>1. Recorded(t, {"append"})  BY <1>7, AppendRecorded DEF WriteToWAL
  <2>2. \A u \in Txns \ {t} : undo'[u] = undo[u]  BY <2>1, RecordedIs
  <2> QED BY <1>0, <1>7, <2>2 DEF WriteToWAL, Goto, DoneInv
<1>8. CASE TakeTimestamp(t)  BY <1>0, <1>8, TakeTimestampFrame DEF DoneInv
<1>9. CASE CommitEntry(t)  BY <1>0, <1>9 DEF CommitEntry, DoneInv
<1>10. CASE CommitDone(t)  BY <1>0, <1>10 DEF CommitDone, Goto, DoneInv
<1>11. CASE FlushFails(t)  BY <1>0, <1>11 DEF FlushFails, Goto, GotoRollback, DoneInv
<1>12. CASE Rollback(t)  BY <1>0, <1>12 DEF Rollback, Goto, GotoRollback, DoneInv
<1>13. CASE RollbackEntry(t)  BY <1>0, <1>13 DEF RollbackEntry, DoneInv
<1>14. CASE Leave(t)  BY <1>0, <1>14 DEF Leave, Goto, DoneInv
<1>15. CASE PopCleanup(t)
  BY <1>0, <1>15 DEF PopCleanup, AfterCleanup, Goto, DoneInv
<1>16. CASE CleanupEntry(t)
  <2>1. PICK u \in ToSet(work.txns) \cap Txns : done' = [done EXCEPT ![u] = @ + 1]
    BY <1>16, CleanupEntryIs
  <2> QED BY <1>0, <1>16, <2>1 DEF CleanupEntry, DoneInv
<1>17. CASE CleanupDone(t)
  <2>1. \A u \in Txns : pc'[u] \notin EndedPcs => undo'[u] = undo[u]
    BY <1>0, <1>17 DEF CleanupDone, Goto, AfterCleanup
  <2> QED BY <1>0, <1>17, <2>1 DEF CleanupDone, AfterCleanup, Goto, DoneInv
<1>18. CASE StartCheckpoint(t)  BY <1>0, <1>18 DEF StartCheckpoint, Goto, DoneInv
<1>19. CASE FinishCheckpoint(t)  BY <1>0, <1>19 DEF FinishCheckpoint, Goto, DoneInv
<1> QED
  BY <1>1, <1>2, <1>3, <1>4, <1>5, <1>6, <1>7, <1>8, <1>9, <1>10,
     <1>11, <1>12, <1>13, <1>14, <1>15, <1>16, <1>17, <1>18, <1>19 DEF Step

-----------------------------------------------------------------------------
(* Who holds and who shares the lock on checkpoints                        *)

\* Every step keeps the lock on checkpoints shared by those that have updated.
LEMMA SharingKept ==
  ASSUME IInv, DataTyped, TxnTyped, ManagerTyped, SharingInv, NEW t \in Txns, Step(t)
  PROVE  SharingInv'
<1> USE DEF managerVars, lockVars, listVars, checkpointVars, versionVars, updateVars
<1>0. /\ pc \in [Txns -> Pcs] /\ commit_id \in [Txns -> Nat] /\ clock \in Nat
      /\ None \notin Txns
  BY NoneAssumption DEF IInv, Typed
<1>1. CASE Start(t)
  BY <1>0, <1>1 DEF Start, SharingInv, HasUpdates
<1>2. CASE Insert(t)
  BY <1>0, <1>2 DEF Insert, SharingInv, HasUpdates
<1>3. CASE Delete(t)
  <2>1. Recorded(t, {"delete"})  BY <1>3, DeleteFrame
  <2>2. \A u \in Txns : HasUpdates(u)' => HasUpdates(u) \/ (u = t /\ "update" \in {"delete"})
    BY <2>1, RecordedUpdates
  <2> QED BY <1>0, <1>3, <2>1, <2>2, DeleteFrame DEF SharingInv
<1>4. CASE Update(t)
  <2>1. Recorded(t, {"update"})  BY <1>4, UpdateFrame
  <2>2. \A u \in Txns : HasUpdates(u)' => HasUpdates(u) \/ (u = t /\ "update" \in {"update"})
    BY <2>1, RecordedUpdates
  <2> QED BY <1>0, <1>4, <2>1, <2>2, UpdateFrame DEF SharingInv
<1>5. CASE CommitDirectly(t)
  <2>1. Recorded(t, {"append"})  BY <1>5, CommitDirectlyFrame
  <2>2. \A u \in Txns : HasUpdates(u)' => HasUpdates(u) \/ (u = t /\ "update" \in {"append"})
    BY <2>1, RecordedUpdates
  <2> QED BY <1>0, <1>5, <2>1, <2>2, CommitDirectlyFrame DEF SharingInv
<1>6. CASE CommitThroughWAL(t)
  BY <1>0, <1>6 DEF CommitThroughWAL, SharingInv, HasUpdates
<1>7. CASE WriteToWAL(t)
  <2>1. Recorded(t, {"append"})  BY <1>7, AppendRecorded DEF WriteToWAL
  <2>2. \A u \in Txns : HasUpdates(u)' => HasUpdates(u) \/ (u = t /\ "update" \in {"append"})
    BY <2>1, RecordedUpdates
  <2> QED BY <1>0, <1>7, <2>1, <2>2 DEF WriteToWAL, Goto, SharingInv
<1>8. CASE TakeTimestamp(t)
  BY <1>0, <1>8, TakeTimestampFrame DEF SharingInv, HasUpdates
<1>9. CASE CommitEntry(t)
  BY <1>0, <1>9 DEF CommitEntry, SharingInv, HasUpdates
<1>10. CASE CommitDone(t)
  BY <1>0, <1>10 DEF CommitDone, SharingInv, HasUpdates
<1>11. CASE FlushFails(t)
  BY <1>0, <1>11 DEF FlushFails, SharingInv, HasUpdates
<1>12. CASE Rollback(t)
  BY <1>0, <1>12 DEF Rollback, SharingInv, HasUpdates
<1>13. CASE RollbackEntry(t)
  BY <1>0, <1>13 DEF RollbackEntry, SharingInv, HasUpdates
<1>14. CASE Leave(t)
  <2>1. /\ undo' = undo /\ \A u \in Txns : HasUpdates(u)' <=> HasUpdates(u)
    BY <1>14 DEF Leave, HasUpdates
  <2>2. sharing' = IF Kept(t) \/ Scheduled(t) THEN sharing ELSE sharing \ {t}
    BY <1>14 DEF Leave, RemoveTransaction
  <2>3. HasUpdates(t) => Kept(t) \/ Scheduled(t)
    BY DEF Kept, Scheduled, Stored
  <2> QED BY <2>1, <2>2, <2>3 DEF SharingInv
<1>15. CASE PopCleanup(t)
  BY <1>0, <1>15 DEF PopCleanup, SharingInv, HasUpdates
<1>16. CASE CleanupEntry(t)
  BY <1>0, <1>16 DEF CleanupEntry, SharingInv, HasUpdates
<1>17. CASE CleanupDone(t)
  <2>1. \A u \in Txns : HasUpdates(u)' => HasUpdates(u) /\ u \notin ToSet(work.txns)
    <3> SUFFICES ASSUME NEW u \in Txns, HasUpdates(u)' PROVE HasUpdates(u) /\ u \notin ToSet(work.txns)
      OBVIOUS
    <3>1. undo'[u] = IF u \in ToSet(work.txns) THEN <<>> ELSE undo[u]  BY <1>17 DEF CleanupDone
    <3>2. CASE u \in ToSet(work.txns)
      <4>1. undo'[u] = <<>>  BY <3>1, <3>2
      <4>2. DOMAIN undo'[u] = {}  BY <4>1
      <4> QED BY <4>2 DEF HasUpdates
    <3>3. CASE u \notin ToSet(work.txns)  BY <3>1, <3>3 DEF HasUpdates
    <3> QED BY <3>2, <3>3
  <2> QED BY <1>17, <2>1 DEF CleanupDone, SharingInv
<1>18. CASE StartCheckpoint(t)
  BY <1>0, <1>18 DEF StartCheckpoint, SharingInv, HasUpdates
<1>19. CASE FinishCheckpoint(t)
  BY <1>0, <1>19 DEF FinishCheckpoint, SharingInv, HasUpdates
<1> QED
  BY <1>1, <1>2, <1>3, <1>4, <1>5, <1>6, <1>7, <1>8, <1>9, <1>10,
     <1>11, <1>12, <1>13, <1>14, <1>15, <1>16, <1>17, <1>18, <1>19 DEF Step

\* Every step keeps the exclusive holder of that lock alone.
LEMMA ExclusiveKept ==
  ASSUME IInv, DataTyped, TxnTyped, ManagerTyped, ExclusiveInv, NEW t \in Txns, Step(t)
  PROVE  ExclusiveInv'
<1> USE DEF managerVars, lockVars, listVars, checkpointVars, versionVars, updateVars
<1>0. /\ pc \in [Txns -> Pcs] /\ commit_id \in [Txns -> Nat] /\ clock \in Nat
      /\ None \notin Txns
  BY NoneAssumption DEF IInv, Typed
<1>1. CASE Start(t)  BY <1>0, <1>1 DEF Start, Goto, ExclusiveInv
<1>2. CASE Insert(t)  BY <1>0, <1>2 DEF Insert, ExclusiveInv
<1>3. CASE Delete(t)  BY <1>0, <1>3, DeleteFrame DEF ExclusiveInv
<1>4. CASE Update(t)  BY <1>0, <1>4, UpdateFrame DEF ExclusiveInv
<1>5. CASE CommitDirectly(t)
  BY <1>5, CommitDirectlyFrame DEF ExclusiveInv, CheckpointLockFree
<1>6. CASE CommitThroughWAL(t)
  BY <1>6 DEF CommitThroughWAL, ExclusiveInv, CheckpointLockFree
<1>7. CASE WriteToWAL(t)  BY <1>0, <1>7 DEF WriteToWAL, Goto, ExclusiveInv
<1>8. CASE TakeTimestamp(t)  BY <1>0, <1>8, TakeTimestampFrame DEF ExclusiveInv
<1>9. CASE CommitEntry(t)  BY <1>0, <1>9 DEF CommitEntry, ExclusiveInv
<1>10. CASE CommitDone(t)  BY <1>0, <1>10 DEF CommitDone, Goto, ExclusiveInv
<1>11. CASE FlushFails(t)  BY <1>0, <1>11 DEF FlushFails, Goto, GotoRollback, ExclusiveInv
<1>12. CASE Rollback(t)  BY <1>0, <1>12 DEF Rollback, Goto, GotoRollback, ExclusiveInv
<1>13. CASE RollbackEntry(t)  BY <1>0, <1>13 DEF RollbackEntry, ExclusiveInv
<1>14. CASE Leave(t)
  <2>1. sharing' \subseteq sharing /\ checkpoint_lock' \in {checkpoint_lock, None}
    BY <1>14 DEF Leave, RemoveTransaction
  <2> QED BY <2>1 DEF ExclusiveInv
<1>15. CASE PopCleanup(t)  BY <1>0, <1>15 DEF PopCleanup, Goto, ExclusiveInv
<1>16. CASE CleanupEntry(t)  BY <1>0, <1>16 DEF CleanupEntry, ExclusiveInv
<1>17. CASE CleanupDone(t)  BY <1>0, <1>17 DEF CleanupDone, Goto, ExclusiveInv
<1>18. CASE StartCheckpoint(t)  BY <1>0, <1>18 DEF StartCheckpoint, Goto, ExclusiveInv
<1>19. CASE FinishCheckpoint(t)  BY <1>0, <1>19 DEF FinishCheckpoint, Goto, ExclusiveInv
<1> QED
  BY <1>1, <1>2, <1>3, <1>4, <1>5, <1>6, <1>7, <1>8, <1>9, <1>10,
     <1>11, <1>12, <1>13, <1>14, <1>15, <1>16, <1>17, <1>18, <1>19 DEF Step

\* Every step keeps the lock with the one that commits by a checkpoint.
LEMMA HolderKept ==
  ASSUME IInv, DataTyped, TxnTyped, ManagerTyped, HolderInv, NEW t \in Txns, Step(t)
  PROVE  HolderInv'
<1> USE DEF managerVars, lockVars, listVars, checkpointVars, versionVars, updateVars
<1>0. /\ pc \in [Txns -> Pcs] /\ commit_id \in [Txns -> Nat] /\ checkpoints \in [Txns -> BOOLEAN]
      /\ None \notin Txns
      /\ \A u \in Txns : pc[u] \in EarlyPcs => commit_id[u] = 0
  BY NoneAssumption DEF IInv, Typed, Unstamped, TxnTyped
<1> USE DEF Live, EarlyPcs, LockPcs, StampedPcs, EndedPcs
<1>1. CASE Start(t)  BY <1>0, <1>1 DEF Start, Goto, HolderInv, HoldsCheckpointLock, Committed
<1>2. CASE Insert(t)  BY <1>0, <1>2 DEF Insert, HolderInv, HoldsCheckpointLock, Committed
<1>3. CASE Delete(t)  BY <1>0, <1>3, DeleteFrame DEF HolderInv, HoldsCheckpointLock, Committed
<1>4. CASE Update(t)  BY <1>0, <1>4, UpdateFrame DEF HolderInv, HoldsCheckpointLock, Committed
<1>5. CASE CommitDirectly(t)
  BY <1>0, <1>5, CommitDirectlyFrame DEF CheckpointLockFree, HolderInv, HoldsCheckpointLock, Committed
<1>6. CASE CommitThroughWAL(t)
  BY <1>0, <1>6 DEF CommitThroughWAL, Running, Goto, CheckpointLockFree, HolderInv, HoldsCheckpointLock, Committed
<1>7. CASE WriteToWAL(t)  BY <1>0, <1>7 DEF WriteToWAL, Goto, HolderInv, HoldsCheckpointLock, Committed
<1>8. CASE TakeTimestamp(t)  BY <1>0, <1>8, TakeTimestampFrame DEF HolderInv, HoldsCheckpointLock, Committed
<1>9. CASE CommitEntry(t)  BY <1>0, <1>9 DEF CommitEntry, HolderInv, HoldsCheckpointLock, Committed
<1>10. CASE CommitDone(t)  BY <1>0, <1>10 DEF CommitDone, Goto, HolderInv, HoldsCheckpointLock, Committed
<1>11. CASE FlushFails(t)  BY <1>0, <1>11 DEF FlushFails, Goto, GotoRollback, HolderInv, HoldsCheckpointLock, Committed
<1>12. CASE Rollback(t)  BY <1>0, <1>12 DEF Rollback, Goto, GotoRollback, HolderInv, HoldsCheckpointLock, Committed
<1>13. CASE RollbackEntry(t)  BY <1>0, <1>13 DEF RollbackEntry, HolderInv, HoldsCheckpointLock, Committed
<1>14. CASE Leave(t)  BY <1>0, <1>14 DEF Leave, Goto, HolderInv, HoldsCheckpointLock, Committed
<1>15. CASE PopCleanup(t)
  BY <1>0, <1>15 DEF PopCleanup, AfterCleanup, Goto, HolderInv, HoldsCheckpointLock, Committed
<1>16. CASE CleanupEntry(t)  BY <1>0, <1>16 DEF CleanupEntry, HolderInv, HoldsCheckpointLock, Committed
<1>17. CASE CleanupDone(t)
  BY <1>0, <1>17 DEF CleanupDone, AfterCleanup, Goto, HolderInv, HoldsCheckpointLock, Committed
<1>18. CASE StartCheckpoint(t)  BY <1>0, <1>18 DEF StartCheckpoint, Goto, HolderInv, HoldsCheckpointLock, Committed
<1>19. CASE FinishCheckpoint(t)  BY <1>0, <1>19 DEF FinishCheckpoint, Goto, HolderInv, HoldsCheckpointLock, Committed
<1> QED
  BY <1>1, <1>2, <1>3, <1>4, <1>5, <1>6, <1>7, <1>8, <1>9, <1>10,
     <1>11, <1>12, <1>13, <1>14, <1>15, <1>16, <1>17, <1>18, <1>19 DEF Step

\* Every step keeps a thread at work while a checkpoint is marked active.
LEMMA CheckpointKept ==
  ASSUME IInv, DataTyped, TxnTyped, ManagerTyped, CheckpointInv, NEW t \in Txns, Step(t)
  PROVE  CheckpointInv'
<1> USE DEF managerVars, lockVars, listVars, checkpointVars, versionVars, updateVars
<1>0. /\ pc \in [Txns -> Pcs] /\ commit_id \in [Txns -> Nat] /\ clock \in Nat
      /\ None \notin Txns
  BY NoneAssumption DEF IInv, Typed
<1>1. CASE Start(t)  BY <1>0, <1>1 DEF Start, Goto, CheckpointInv
<1>2. CASE Insert(t)  BY <1>0, <1>2 DEF Insert, CheckpointInv
<1>3. CASE Delete(t)  BY <1>0, <1>3, DeleteFrame DEF CheckpointInv
<1>4. CASE Update(t)  BY <1>0, <1>4, UpdateFrame DEF CheckpointInv
<1>5. CASE CommitDirectly(t)  BY <1>0, <1>5, CommitDirectlyFrame DEF CheckpointInv
<1>6. CASE CommitThroughWAL(t)  BY <1>0, <1>6 DEF CommitThroughWAL, Running, Goto, CheckpointInv
<1>7. CASE WriteToWAL(t)  BY <1>0, <1>7 DEF WriteToWAL, Goto, CheckpointInv
<1>8. CASE TakeTimestamp(t)  BY <1>0, <1>8, TakeTimestampFrame DEF CheckpointInv
<1>9. CASE CommitEntry(t)  BY <1>0, <1>9 DEF CommitEntry, CheckpointInv
<1>10. CASE CommitDone(t)  BY <1>0, <1>10 DEF CommitDone, Goto, CheckpointInv
<1>11. CASE FlushFails(t)  BY <1>0, <1>11 DEF FlushFails, Goto, GotoRollback, CheckpointInv
<1>12. CASE Rollback(t)  BY <1>0, <1>12 DEF Rollback, Goto, GotoRollback, CheckpointInv
<1>13. CASE RollbackEntry(t)  BY <1>0, <1>13 DEF RollbackEntry, CheckpointInv
<1>14. CASE Leave(t)  BY <1>0, <1>14 DEF Leave, Goto, CheckpointInv
<1>15. CASE PopCleanup(t)
  BY <1>0, <1>15 DEF PopCleanup, AfterCleanup, Goto, CheckpointInv
<1>16. CASE CleanupEntry(t)  BY <1>0, <1>16 DEF CleanupEntry, CheckpointInv
<1>17. CASE CleanupDone(t)
  BY <1>0, <1>17 DEF CleanupDone, AfterCleanup, Goto, CheckpointInv
<1>18. CASE StartCheckpoint(t)  BY <1>0, <1>18 DEF StartCheckpoint, Goto, CheckpointInv
<1>19. CASE FinishCheckpoint(t)  BY <1>0, <1>19 DEF FinishCheckpoint, Goto, CheckpointInv
<1> QED
  BY <1>1, <1>2, <1>3, <1>4, <1>5, <1>6, <1>7, <1>8, <1>9, <1>10,
     <1>11, <1>12, <1>13, <1>14, <1>15, <1>16, <1>17, <1>18, <1>19 DEF Step

\* Every step keeps a checkpointing writer of updates the only active one.
LEMMA AloneKept ==
  ASSUME IInv, DataTyped, TxnTyped, ManagerTyped, HolderInv, AloneInv, NEW t \in Txns, Step(t)
  PROVE  AloneInv'
<1> USE DEF managerVars, lockVars, listVars, checkpointVars, versionVars, updateVars
<1>0. /\ pc \in [Txns -> Pcs] /\ active \subseteq Txns /\ checkpoints \in [Txns -> BOOLEAN]
      /\ \A u \in Txns : checkpoints[u] => pc[u] \in LockPcs \union EndedPcs
      /\ \A u \in Txns : pc[u] \in LockPcs => transaction_lock = u
      /\ None \notin Txns
  BY NoneAssumption DEF IInv, Typed, ManagerTyped, TxnTyped, HolderInv, Locked
<1> USE DEF Live, EarlyPcs, LockPcs, StampedPcs, EndedPcs
<1>1. CASE Start(t)
  <2>1. \A u \in Txns : HasUpdates(u)' <=> HasUpdates(u)
    BY <1>1 DEF Start, HasUpdates
  <2> QED BY <1>0, <1>1, <2>1 DEF Start, Goto, AloneInv
<1>2. CASE Insert(t)
  <2>1. \A u \in Txns : HasUpdates(u)' <=> HasUpdates(u)
    BY <1>2 DEF Insert, HasUpdates
  <2> QED BY <1>0, <1>2, <2>1 DEF Insert, AloneInv
<1>3. CASE Delete(t)
  <2>1. Recorded(t, {"delete"})  BY <1>3, DeleteFrame
  <2>2. \A u \in Txns : HasUpdates(u)' => HasUpdates(u) \/ (u = t /\ "update" \in {"delete"})
    BY <2>1, RecordedUpdates
  <2> QED BY <1>0, <1>3, <2>1, <2>2, DeleteFrame DEF AloneInv
<1>4. CASE Update(t)
  <2>1. Recorded(t, {"update"})  BY <1>4, UpdateFrame
  <2>2. \A u \in Txns : HasUpdates(u)' => HasUpdates(u) \/ (u = t /\ "update" \in {"update"})
    BY <2>1, RecordedUpdates
  <2> QED BY <1>0, <1>4, <2>1, <2>2, UpdateFrame DEF AloneInv
<1>5. CASE CommitDirectly(t)
  <2>1. Recorded(t, {"append"})  BY <1>5, CommitDirectlyFrame
  <2>2. \A u \in Txns : HasUpdates(u)' => HasUpdates(u) \/ (u = t /\ "update" \in {"append"})
    BY <2>1, RecordedUpdates
  <2> QED BY <1>0, <1>5, <2>1, <2>2, CommitDirectlyFrame DEF MayCheckpoint, AloneInv
<1>6. CASE CommitThroughWAL(t)
  <2>1. \A u \in Txns : HasUpdates(u)' <=> HasUpdates(u)
    BY <1>6 DEF CommitThroughWAL, HasUpdates
  <2> QED BY <1>0, <1>6, <2>1 DEF CommitThroughWAL, Running, Goto, AloneInv
<1>7. CASE WriteToWAL(t)
  <2>1. Recorded(t, {"append"})  BY <1>7, AppendRecorded DEF WriteToWAL
  <2>2. \A u \in Txns : HasUpdates(u)' => HasUpdates(u) \/ (u = t /\ "update" \in {"append"})
    BY <2>1, RecordedUpdates
  <2> QED BY <1>0, <1>7, <2>1, <2>2 DEF WriteToWAL, Goto, AloneInv
<1>8. CASE TakeTimestamp(t)
  <2>1. \A u \in Txns : HasUpdates(u)' <=> HasUpdates(u)
    BY <1>8, TakeTimestampFrame DEF HasUpdates
  <2> QED BY <1>0, <1>8, <2>1, TakeTimestampFrame DEF AloneInv
<1>9. CASE CommitEntry(t)
  <2>1. \A u \in Txns : HasUpdates(u)' <=> HasUpdates(u)
    BY <1>9 DEF CommitEntry, HasUpdates
  <2> QED BY <1>0, <1>9, <2>1 DEF CommitEntry, AloneInv
<1>10. CASE CommitDone(t)
  <2>1. \A u \in Txns : HasUpdates(u)' <=> HasUpdates(u)
    BY <1>10 DEF CommitDone, HasUpdates
  <2> QED BY <1>0, <1>10, <2>1 DEF CommitDone, Goto, AloneInv
<1>11. CASE FlushFails(t)
  <2>1. \A u \in Txns : HasUpdates(u)' <=> HasUpdates(u)
    BY <1>11 DEF FlushFails, HasUpdates
  <2> QED BY <1>0, <1>11, <2>1 DEF FlushFails, Goto, GotoRollback, AloneInv
<1>12. CASE Rollback(t)
  <2>1. \A u \in Txns : HasUpdates(u)' <=> HasUpdates(u)
    BY <1>12 DEF Rollback, HasUpdates
  <2> QED BY <1>0, <1>12, <2>1 DEF Rollback, Goto, GotoRollback, AloneInv
<1>13. CASE RollbackEntry(t)
  <2>1. \A u \in Txns : HasUpdates(u)' <=> HasUpdates(u)
    BY <1>13 DEF RollbackEntry, HasUpdates
  <2> QED BY <1>0, <1>13, <2>1 DEF RollbackEntry, AloneInv
<1>14. CASE Leave(t)
  <2>1. \A u \in Txns : HasUpdates(u)' <=> HasUpdates(u)
    BY <1>14 DEF Leave, HasUpdates
  <2> QED BY <1>0, <1>14, <2>1 DEF Leave, Goto, RemoveTransaction, AloneInv
<1>15. CASE PopCleanup(t)
  <2>1. \A u \in Txns : HasUpdates(u)' <=> HasUpdates(u)
    BY <1>15 DEF PopCleanup, HasUpdates
  <2> QED BY <1>0, <1>15, <2>1 DEF PopCleanup, Goto, AfterCleanup, AloneInv
<1>16. CASE CleanupEntry(t)
  <2>1. \A u \in Txns : HasUpdates(u)' <=> HasUpdates(u)
    BY <1>16 DEF CleanupEntry, HasUpdates
  <2> QED BY <1>0, <1>16, <2>1 DEF CleanupEntry, AloneInv
<1>17. CASE CleanupDone(t)
  <2>1. \A u \in Txns : HasUpdates(u)' => HasUpdates(u)
    <3> SUFFICES ASSUME NEW u \in Txns, HasUpdates(u)' PROVE HasUpdates(u)
      OBVIOUS
    <3>1. undo'[u] = IF u \in ToSet(work.txns) THEN <<>> ELSE undo[u]  BY <1>17 DEF CleanupDone
    <3>2. CASE u \in ToSet(work.txns)
      <4>1. undo'[u] = <<>>  BY <3>1, <3>2
      <4>2. DOMAIN undo'[u] = {}  BY <4>1
      <4> QED BY <4>2 DEF HasUpdates
    <3>3. CASE u \notin ToSet(work.txns)  BY <3>1, <3>3 DEF HasUpdates
    <3> QED BY <3>2, <3>3
  <2> QED BY <1>0, <1>17, <2>1 DEF CleanupDone, Goto, AfterCleanup, AloneInv
<1>18. CASE StartCheckpoint(t)
  <2>1. \A u \in Txns : HasUpdates(u)' <=> HasUpdates(u)
    BY <1>18 DEF StartCheckpoint, HasUpdates
  <2> QED BY <1>0, <1>18, <2>1 DEF StartCheckpoint, Goto, AloneInv
<1>19. CASE FinishCheckpoint(t)
  <2>1. \A u \in Txns : HasUpdates(u)' <=> HasUpdates(u)
    BY <1>19 DEF FinishCheckpoint, HasUpdates
  <2> QED BY <1>0, <1>19, <2>1 DEF FinishCheckpoint, Goto, AloneInv
<1> QED
  BY <1>1, <1>2, <1>3, <1>4, <1>5, <1>6, <1>7, <1>8, <1>9, <1>10,
     <1>11, <1>12, <1>13, <1>14, <1>15, <1>16, <1>17, <1>18, <1>19 DEF Step

-----------------------------------------------------------------------------
(* The clock, and what Leave finds to clean up                             *)

\* Starting and ending takes one timestamp each, once.
LEMMA ClockStep ==
  ASSUME IInv, ClockInv, NEW t \in Txns, NEW l \in Pcs, pc' = [pc EXCEPT ![t] = l],
         pc[t] \in Live \union EndedPcs => l \in Live \union EndedPcs,
         pc[t] \in LockPcs \union EndedPcs => l \in LockPcs \union EndedPcs,
         \/ clock' = clock
         \/ /\ clock' = clock + 1
            /\ \/ pc[t] \notin Live \union EndedPcs /\ l \in Live \union EndedPcs
               \/ pc[t] \notin LockPcs \union EndedPcs /\ l \in LockPcs \union EndedPcs
  PROVE  ClockInv'
<1> DEFINE B == {u \in Txns : pc'[u] \in Live \union EndedPcs}
           E == {u \in Txns : pc'[u] \in LockPcs \union EndedPcs}
<1>1. \A u \in Txns : pc'[u] = IF u = t THEN l ELSE pc[u]  BY DEF IInv, Typed
<1>2. Begun \subseteq B /\ Ending \subseteq E  BY <1>1 DEF Begun, Ending
<1>3. B \subseteq Txns /\ E \subseteq Txns  OBVIOUS
<1>4. /\ pc[t] \notin Live \union EndedPcs /\ l \in Live \union EndedPcs => t \in B \ Begun
      /\ pc[t] \notin LockPcs \union EndedPcs /\ l \in LockPcs \union EndedPcs => t \in E \ Ending
  BY <1>1 DEF Begun, Ending
<1>5. Begun' = B /\ Ending' = E  BY DEF Begun, Ending
<1> HIDE DEF B, E
<1>6. IsFiniteSet(B) /\ IsFiniteSet(E)  BY <1>3, TxnsAssumption, FS_Subset
<1>7. IsFiniteSet(Begun) /\ IsFiniteSet(Ending)  BY <1>2, <1>6, FS_Subset
<1>10. /\ Cardinality(Begun) <= Cardinality(B) /\ Cardinality(Ending) <= Cardinality(E)
       /\ Cardinality(B) = Cardinality(Begun) => B = Begun
       /\ Cardinality(E) = Cardinality(Ending) => E = Ending
  BY <1>2, <1>6, FS_Subset
<1>9. /\ Cardinality(Begun) \in Nat /\ Cardinality(Ending) \in Nat
      /\ Cardinality(B) \in Nat /\ Cardinality(E) \in Nat /\ clock \in Nat
  BY <1>6, <1>7, FS_CardinalityType DEF IInv, Typed
<1>8. /\ t \in B \ Begun => Cardinality(Begun) < Cardinality(B)
      /\ t \in E \ Ending => Cardinality(Ending) < Cardinality(E)
  BY <1>9, <1>10
<1> QED BY <1>4, <1>5, <1>8, <1>9, <1>10 DEF ClockInv

\* There are never more timestamps than transactions begun and ended take.
LEMMA ClockBound ==
  ASSUME IInv, ClockInv
  PROVE  clock <= TRANSACTION_ID_START
<1>1. Begun \subseteq Txns /\ Ending \subseteq Txns  BY DEF Begun, Ending
<1>2. /\ Cardinality(Begun) <= Cardinality(Txns) /\ Cardinality(Ending) <= Cardinality(Txns)
      /\ IsFiniteSet(Begun) /\ IsFiniteSet(Ending)
  BY <1>1, TxnsAssumption, FS_Subset
<1>3. Cardinality(Begun) \in Nat /\ Cardinality(Ending) \in Nat /\ Cardinality(Txns) \in Nat
  BY <1>2, TxnsAssumption, FS_CardinalityType
<1> QED BY <1>2, <1>3, TxnsAssumption, IdsAssumption DEF ClockInv, IInv, Typed

\* Every step keeps the clock below the ids of transactions.
LEMMA ClockKept ==
  ASSUME IInv, DataTyped, TxnTyped, ManagerTyped, ClockInv, NEW t \in Txns, Step(t)
  PROVE  ClockInv'
<1> USE DEF managerVars, lockVars, listVars, checkpointVars, versionVars, updateVars
<1> USE DEF Live, EarlyPcs, LockPcs, StampedPcs, EndedPcs, Pcs
<1>1. CASE UNCHANGED <<pc, clock>>
  BY <1>1 DEF ClockInv, Begun, Ending
<1>2. CASE Insert(t) \/ CommitEntry(t) \/ RollbackEntry(t) \/ CleanupEntry(t)
  BY <1>1, <1>2 DEF Insert, CommitEntry, RollbackEntry, CleanupEntry
<1>3. CASE Start(t)  BY <1>3, ClockStep DEF Start, Goto
<1>4. CASE Delete(t)
  <2>1. pc[t] = "running" /\ clock' = clock /\ (pc' = pc \/ pc' = [pc EXCEPT ![t] = "failed"])
    BY <1>4, DeleteFrame
  <2> QED BY <1>1, <2>1, ClockStep
<1>5. CASE Update(t)
  <2>1. pc[t] = "running" /\ clock' = clock /\ (pc' = pc \/ pc' = [pc EXCEPT ![t] = "failed"])
    BY <1>5, UpdateFrame
  <2> QED BY <1>1, <2>1, ClockStep
<1>6. CASE CommitDirectly(t)
  <2>1. /\ pc[t] = "running" /\ clock' = clock + 1
        /\ pc' = [pc EXCEPT ![t] = "commit"] \/ pc' = [pc EXCEPT ![t] = "rollback"]
    BY <1>6, CommitDirectlyFrame
  <2> QED BY <2>1, ClockStep
<1>7. CASE TakeTimestamp(t)
  <2>1. /\ pc[t] = "written" /\ clock' = clock + 1
        /\ pc' = [pc EXCEPT ![t] = "commit"] \/ pc' = [pc EXCEPT ![t] = "rollback"]
    BY <1>7, TakeTimestampFrame
  <2> QED BY <2>1, ClockStep
<1>8. CASE CommitThroughWAL(t)  BY <1>8, ClockStep DEF CommitThroughWAL, Running, Goto
<1>9. CASE WriteToWAL(t)  BY <1>9, ClockStep DEF WriteToWAL, Goto
<1>10. CASE CommitDone(t)  BY <1>10, ClockStep DEF CommitDone, Goto
<1>11. CASE FlushFails(t)  BY <1>11, ClockStep DEF FlushFails, GotoRollback, Goto
<1>12. CASE Rollback(t)  BY <1>12, ClockStep DEF Rollback, GotoRollback, Goto
<1>13. CASE Leave(t)  BY <1>13, ClockStep DEF Leave, Goto
<1>14. CASE PopCleanup(t)
  <2>1. \E l \in {"cleaning", "checkpoint", "done"} : pc' = [pc EXCEPT ![t] = l]
    BY <1>14 DEF PopCleanup, Goto, AfterCleanup
  <2> QED BY <1>14, <2>1, ClockStep DEF PopCleanup
<1>15. CASE CleanupDone(t)
  <2>1. \E l \in {"checkpoint", "done"} : pc' = [pc EXCEPT ![t] = l]
    BY <1>15 DEF CleanupDone, Goto, AfterCleanup
  <2> QED BY <1>15, <2>1, ClockStep DEF CleanupDone
<1>16. CASE StartCheckpoint(t)  BY <1>16, ClockStep DEF StartCheckpoint, Goto
<1>17. CASE FinishCheckpoint(t)  BY <1>17, ClockStep DEF FinishCheckpoint, Goto
<1> QED
  BY <1>2, <1>3, <1>4, <1>5, <1>6, <1>7, <1>8, <1>9, <1>10, <1>11, <1>12, <1>13, <1>14, <1>15,
     <1>16, <1>17 DEF Step

\* Whose old values are kept has a timestamp and has updated.
LEMMA KeptIs ==
  ASSUME IInv, ErrorInv, NEW t \in Txns, Kept(t)
  PROVE  HasUpdates(t) /\ commit_id[t] # 0
BY DEF Kept, Stored, Committed, ErrorInv

\* Without transactions and checkpoints all commits are old enough.
LEMMA LeaveEmpties ==
  ASSUME IInv, TxnTyped, ManagerTyped, ClockInv, NEW t \in Txns, Leave(t),
         active \ {t} = {}, active_checkpoint = NoCheckpoint
  PROVE  recently' = <<>>
<1>1. LowestActiveStart(t) \in {TRANSACTION_ID_START, NoCheckpoint}  BY LowestIs
<1>2. LowestActiveStart(t) >= clock
  BY <1>1, ClockBound, IdsAssumption DEF NoCheckpoint, IInv, Typed
<1>3. PICK n \in Nat, list, txns \in Seq(Txns) :
           /\ list = CommittedBefore(t) /\ n <= Len(list)
           /\ recently' = SubSeq(list, n + 1, Len(list))
           /\ n < Len(list) => commit_id[list[n + 1]] >= LowestActiveStart(t)
  BY LeaveIs
<1>4. n = Len(list)
  <2> SUFFICES ASSUME n < Len(list) PROVE FALSE
    BY <1>3
  <2>1. list \in Seq(Txns)  OBVIOUS
  <2>2. list[n + 1] \in Txns  BY <2>1
  <2>3. commit_id[list[n + 1]] < clock  BY <2>2 DEF IInv, Clocked
  <2>4. commit_id[list[n + 1]] \in Nat /\ clock \in Nat /\ LowestActiveStart(t) \in Nat
    BY <2>2, LowestIs DEF IInv, Typed
  <2> QED BY <1>2, <1>3, <2>3, <2>4
<1>5. list \in Seq(Txns) /\ Len(list) \in Nat  OBVIOUS
<1> QED BY <1>3, <1>4, <1>5

-----------------------------------------------------------------------------
(* Where a transaction that is over has its place                          *)

\* The kept transactions are over, and each is there once.
LEMMA RecentIs ==
  ASSUME IInv
  PROVE  /\ \A u \in ToSet(recently) : u \in Txns /\ pc[u] \in EndedPcs
         /\ \A i, j \in DOMAIN recently : recently[i] = recently[j] => i = j
<1>1. /\ recently \in Seq(Txns) /\ DOMAIN recently = 1 .. Len(recently) /\ Len(recently) \in Nat
  BY DEF IInv, Typed
<1>2. \A i \in DOMAIN recently : recently[i] \in Txns /\ commit_id[recently[i]] \in Nat
  BY <1>1 DEF IInv, Typed
<1>3. \A u \in ToSet(recently) : u \in Txns /\ pc[u] \in EndedPcs
  BY <1>2 DEF ToSet, IInv, Settled
<1>4. ASSUME NEW i \in DOMAIN recently, NEW j \in DOMAIN recently, recently[i] = recently[j]
      PROVE  i = j
  <2>1. ~(i < j) /\ ~(j < i)
    BY <1>2, <1>4 DEF IInv, RecentlyOrdered
  <2> QED BY <1>1, <2>1
<1> QED BY <1>3, <1>4

\* A checkpoint that runs is the one of the transaction that holds the lock.
LEMMA CheckpointerIs ==
  ASSUME HolderInv, CheckpointInv, ExclusiveInv, active_checkpoint # NoCheckpoint
  PROVE  \E u \in Txns : /\ pc[u] = "checkpointing" /\ checkpoints[u] /\ Committed(u)
                         /\ checkpoint_lock = u /\ sharing \subseteq {u}
<1>1. PICK u \in Txns : pc[u] = "checkpointing"  BY DEF CheckpointInv
<1>2. checkpoints[u] /\ Committed(u)  BY <1>1 DEF HolderInv
<1>3. checkpoint_lock = u  BY <1>1, <1>2 DEF HolderInv, HoldsCheckpointLock
<1> QED BY <1>1, <1>2, <1>3, NoneAssumption DEF ExclusiveInv

\* The list that Leave cuts in two.
LEMMA ListIs ==
  ASSUME IInv, NEW t \in Txns, pc[t] \in LockPcs
  PROVE  LET list == CommittedBefore(t)
         IN  /\ list \in Seq(Txns) /\ DOMAIN list = 1 .. Len(list) /\ Len(list) \in Nat
             /\ ToSet(list) = ToSet(recently) \union {u \in {t} : Kept(t)}
             /\ \A i, j \in DOMAIN list : list[i] = list[j] => i = j
<1> DEFINE list == CommittedBefore(t)
<1>1. /\ recently \in Seq(Txns) /\ DOMAIN recently = 1 .. Len(recently) /\ Len(recently) \in Nat
  BY DEF IInv, Typed
<1>2. t \notin ToSet(recently)  BY RecentIs DEF LockPcs, EndedPcs
<1>3. CASE Kept(t)
  <2>1. list = Append(recently, t)  BY <1>3 DEF CommittedBefore
  <2> HIDE DEF list
  <2>2. /\ list \in Seq(Txns) /\ Len(list) = Len(recently) + 1 /\ list[Len(recently) + 1] = t
        /\ DOMAIN list = 1 .. Len(recently) + 1
        /\ \A i \in 1 .. Len(recently) : list[i] = recently[i]
    BY <1>1, <2>1
  <2>3. \A i \in DOMAIN recently : recently[i] # t  BY <1>2 DEF ToSet
  <2>4. \A i, j \in DOMAIN list : list[i] = list[j] => i = j
    <3> SUFFICES ASSUME NEW i \in DOMAIN list, NEW j \in DOMAIN list, list[i] = list[j] PROVE i = j
      OBVIOUS
    <3>1. CASE i = Len(recently) + 1
      <4>1. ~(j \in DOMAIN recently)  BY <2>2, <2>3, <3>1, <1>1
      <4> QED BY <1>1, <2>2, <3>1, <4>1
    <3>2. CASE j = Len(recently) + 1
      <4>1. ~(i \in DOMAIN recently)  BY <2>2, <2>3, <3>2, <1>1
      <4> QED BY <1>1, <2>2, <3>2, <4>1
    <3>3. CASE i # Len(recently) + 1 /\ j # Len(recently) + 1
      <4>1. i \in DOMAIN recently /\ j \in DOMAIN recently  BY <1>1, <2>2, <3>3
      <4> QED BY <1>1, <2>2, <4>1, RecentIs
    <3> QED BY <3>1, <3>2, <3>3
  <2>5. \A x : x \in ToSet(list) <=> x \in ToSet(recently) \/ x = t
    <3>1. ASSUME NEW x \in ToSet(list) PROVE x \in ToSet(recently) \/ x = t
      <4>1. PICK i \in DOMAIN list : x = list[i]  BY DEF ToSet
      <4>2. i \in DOMAIN recently \/ i = Len(recently) + 1  BY <1>1, <2>2
      <4> QED BY <1>1, <2>2, <4>1, <4>2 DEF ToSet
    <3>2. ASSUME NEW x \in ToSet(recently) PROVE x \in ToSet(list)
      <4>1. PICK i \in DOMAIN recently : x = recently[i]  BY DEF ToSet
      <4>2. i \in DOMAIN list /\ list[i] = x  BY <1>1, <2>2, <4>1
      <4> QED BY <4>2 DEF ToSet
    <3>3. t \in ToSet(list)
      <4>1. Len(recently) + 1 \in DOMAIN list  BY <1>1, <2>2
      <4> QED BY <2>2, <4>1 DEF ToSet
    <3> QED BY <3>1, <3>2, <3>3
  <2>6. ToSet(list) = ToSet(recently) \union {u \in {t} : Kept(t)}  BY <1>3, <2>5
  <2> QED BY <1>1, <2>2, <2>4, <2>6 DEF list
<1>4. CASE ~Kept(t)
  <2>1. list = recently  BY <1>4 DEF CommittedBefore
  <2>2. ToSet(list) = ToSet(recently) \union {u \in {t} : Kept(t)}  BY <1>4, <2>1
  <2> QED BY <1>1, <2>1, <2>2, RecentIs
<1> QED BY <1>3, <1>4

\* What Leave does to the places of transactions: those of the list stay in it or
\* go, with the one that leaves if it has something, into one new entry.
LEMMA LeavePlaces ==
  ASSUME IInv, TxnTyped, ManagerTyped, NEW t \in Txns, Leave(t)
  PROVE  \E txns \in Seq(Txns) :
           /\ ToSet(recently') \intersect ToSet(txns) = {}
           /\ ToSet(recently') \union ToSet(txns)
                = ToSet(recently) \union {u \in {t} : Kept(t) \/ Scheduled(t)}
           /\ \A u \in {t} : Scheduled(u) => u \in ToSet(txns)
           /\ \/ txns = <<>> /\ cleanup_queue' = cleanup_queue
              \/ cleanup_queue' = Append(cleanup_queue, [txns |-> txns, lowest |-> LowestActiveStart(t)])
<1>0. pc[t] \in LockPcs  BY DEF Leave, LockPcs
<1>1. PICK n \in Nat, list, txns \in Seq(Txns) :
           /\ list = CommittedBefore(t) /\ n <= Len(list)
           /\ recently' = SubSeq(list, n + 1, Len(list))
           /\ txns = (IF Scheduled(t) THEN <<t>> ELSE <<>>) \o SubSeq(list, 1, n)
           /\ cleanup_queue' = IF txns = <<>> THEN cleanup_queue
                ELSE Append(cleanup_queue, [txns |-> txns, lowest |-> LowestActiveStart(t)])
  BY LeaveIs
<1>2. /\ list \in Seq(Txns) /\ DOMAIN list = 1 .. Len(list) /\ Len(list) \in Nat
      /\ ToSet(list) = ToSet(recently) \union {u \in {t} : Kept(t)}
      /\ \A i, j \in DOMAIN list : list[i] = list[j] => i = j
  BY <1>0, <1>1, ListIs
<1> DEFINE rest == SubSeq(list, n + 1, Len(list))
           old == SubSeq(list, 1, n)
<1>3. /\ DOMAIN rest = 1 .. Len(list) - n /\ \A i \in 1 .. Len(list) - n : rest[i] = list[n + i]
      /\ DOMAIN old = 1 .. n /\ \A i \in 1 .. n : old[i] = list[i]
      /\ old \in Seq(Txns) /\ Len(old) = n
  BY <1>1, <1>2
<1> HIDE DEF rest, old
<1>4. ToSet(rest) \intersect ToSet(old) = {}
  <2> SUFFICES ASSUME NEW i \in DOMAIN rest, NEW j \in DOMAIN old, rest[i] = old[j] PROVE FALSE
    BY DEF ToSet
  <2>1. n + i \in DOMAIN list /\ j \in DOMAIN list /\ j < n + i  BY <1>1, <1>2, <1>3
  <2> QED BY <1>2, <1>3, <2>1
<1>5. \A x : x \in ToSet(list) <=> x \in ToSet(rest) \/ x \in ToSet(old)
  <2>1. ASSUME NEW x \in ToSet(list) PROVE x \in ToSet(rest) \/ x \in ToSet(old)
    <3>1. PICK k \in DOMAIN list : x = list[k]  BY DEF ToSet
    <3>2. CASE k <= n
      <4>1. k \in DOMAIN old /\ old[k] = x  BY <1>2, <1>3, <3>1, <3>2
      <4> QED BY <4>1 DEF ToSet
    <3>3. CASE ~(k <= n)
      <4>0. k \in 1 .. Len(list) /\ Len(list) \in Nat /\ n \in Nat /\ k > n
        BY <1>1, <1>2, <3>1, <3>3
      <4>3. k - n \in 1 .. Len(list) - n /\ n + (k - n) = k  BY <4>0
      <4>1. k - n \in DOMAIN rest /\ n + (k - n) = k  BY <1>3, <4>3
      <4>2. rest[k - n] = x  BY <1>3, <3>1, <4>1
      <4> QED BY <4>1, <4>2 DEF ToSet
    <3> QED BY <3>2, <3>3
  <2>2. ASSUME NEW x \in ToSet(rest) PROVE x \in ToSet(list)
    <3>1. PICK i \in DOMAIN rest : x = rest[i]  BY DEF ToSet
    <3>2. n + i \in DOMAIN list /\ x = list[n + i]  BY <1>1, <1>2, <1>3, <3>1
    <3> QED BY <3>2 DEF ToSet
  <2>3. ASSUME NEW x \in ToSet(old) PROVE x \in ToSet(list)
    <3>1. PICK i \in DOMAIN old : x = old[i]  BY DEF ToSet
    <3>2. i \in DOMAIN list /\ x = list[i]  BY <1>1, <1>2, <1>3, <3>1
    <3> QED BY <3>2 DEF ToSet
  <2> QED BY <2>1, <2>2, <2>3
<1>6. \/ Scheduled(t) /\ txns = <<t>> \o old
      \/ ~Scheduled(t) /\ txns = old
  BY <1>1, <1>3 DEF old
<1>7. \A x : x \in ToSet(txns) <=> x \in ToSet(old) \/ (Scheduled(t) /\ x = t)
  <2>1. CASE ~Scheduled(t)  BY <1>6, <2>1
  <2>2. CASE Scheduled(t)
    <3>1. /\ DOMAIN txns = 1 .. n + 1 /\ txns[1] = t /\ \A i \in 1 .. n : txns[i + 1] = old[i]
      BY <1>3, <1>6, <2>2
    <3>2. ASSUME NEW x \in ToSet(txns) PROVE x \in ToSet(old) \/ x = t
      <4>1. PICK k \in DOMAIN txns : x = txns[k]  BY DEF ToSet
      <4>2. CASE k = 1  BY <3>1, <4>1, <4>2
      <4>3. CASE k # 1
        <5>1. k - 1 \in 1 .. n /\ (k - 1) + 1 = k  BY <3>1, <4>3
        <5>2. x = old[k - 1] /\ k - 1 \in DOMAIN old  BY <1>3, <3>1, <4>1, <5>1
        <5> QED BY <5>2 DEF ToSet
      <4> QED BY <4>2, <4>3
    <3>3. ASSUME NEW x \in ToSet(old) PROVE x \in ToSet(txns)
      <4>1. PICK i \in DOMAIN old : x = old[i]  BY DEF ToSet
      <4>2. i + 1 \in DOMAIN txns /\ txns[i + 1] = x  BY <1>3, <3>1, <4>1
      <4> QED BY <4>2 DEF ToSet
    <3>4. t \in ToSet(txns)
      <4>1. 1 \in DOMAIN txns  BY <3>1
      <4> QED BY <3>1, <4>1 DEF ToSet
    <3> QED BY <2>2, <3>2, <3>3, <3>4
  <2> QED BY <2>1, <2>2
<1>8. recently' = rest  BY <1>1 DEF rest
<1>9. Scheduled(t) => t \notin ToSet(list)
  <2>1. t \notin ToSet(recently)  BY <1>0, RecentIs DEF LockPcs, EndedPcs
  <2> QED BY <1>2, <2>1 DEF Scheduled
<1>10. ToSet(recently') \intersect ToSet(txns) = {}
  BY <1>4, <1>5, <1>7, <1>8, <1>9
<1>11. ToSet(recently') \union ToSet(txns) = ToSet(recently) \union {u \in {t} : Kept(t) \/ Scheduled(t)}
  BY <1>2, <1>5, <1>7, <1>8
<1>12. \A u \in {t} : Scheduled(u) => u \in ToSet(txns)  BY <1>7
<1> QED BY <1>1, <1>10, <1>11, <1>12

\* A step is one of one transaction; who is over stays so.
LEMMA PlacesKept ==
  ASSUME IInv, DataTyped, TxnTyped, ManagerTyped, NEW t \in Txns, Step(t)
  PROVE  /\ \A u \in Txns \ {t} : pc'[u] = pc[u]
         /\ pc[t] \in EndedPcs => pc'[t] \in EndedPcs
         /\ \/ Leave(t) \/ PopCleanup(t) \/ CleanupDone(t)
            \/ pc'[t] \notin {"cleanup", "cleaning"}
            \/ pc'[t] = pc[t]
<1> DEFINE Goal == /\ \A u \in Txns \ {t} : pc'[u] = pc[u]
                   /\ pc[t] \in EndedPcs => pc'[t] \in EndedPcs
                   /\ \/ Leave(t) \/ PopCleanup(t) \/ CleanupDone(t)
                      \/ pc'[t] \notin {"cleanup", "cleaning"}
                      \/ pc'[t] = pc[t]
<1>0. pc \in [Txns -> Pcs]  BY DEF IInv, Typed
<1>1. CASE Start(t)  BY <1>0, <1>1 DEF Start, Goto, EndedPcs
<1>2. CASE Insert(t)  BY <1>0, <1>2 DEF Insert, EndedPcs
<1>3. CASE Delete(t)
  BY <1>0, <1>3, DeleteFrame DEF EndedPcs
<1>4. CASE Update(t)
  BY <1>0, <1>4, UpdateFrame DEF EndedPcs
<1>5. CASE CommitDirectly(t)
  BY <1>0, <1>5, CommitDirectlyFrame DEF EndedPcs
<1>6. CASE CommitThroughWAL(t)  BY <1>0, <1>6 DEF CommitThroughWAL, Running, Goto, EndedPcs
<1>7. CASE WriteToWAL(t)  BY <1>0, <1>7 DEF WriteToWAL, Goto, EndedPcs
<1>8. CASE TakeTimestamp(t)
  BY <1>0, <1>8, TakeTimestampFrame DEF EndedPcs
<1>9. CASE CommitEntry(t)  BY <1>0, <1>9 DEF CommitEntry, EndedPcs
<1>10. CASE CommitDone(t)  BY <1>0, <1>10 DEF CommitDone, Goto, EndedPcs
<1>11. CASE FlushFails(t)  BY <1>0, <1>11 DEF FlushFails, Goto, GotoRollback, EndedPcs
<1>12. CASE Rollback(t)  BY <1>0, <1>12 DEF Rollback, Goto, GotoRollback, EndedPcs
<1>13. CASE RollbackEntry(t)  BY <1>0, <1>13 DEF RollbackEntry, EndedPcs
<1>14. CASE Leave(t)
  BY <1>0, <1>14 DEF Leave, Goto, EndedPcs
<1>15. CASE PopCleanup(t)
  BY <1>0, <1>15 DEF PopCleanup, AfterCleanup, Goto, EndedPcs
<1>16. CASE CleanupEntry(t)  BY <1>0, <1>16 DEF CleanupEntry, EndedPcs
<1>17. CASE CleanupDone(t)
  BY <1>0, <1>17 DEF CleanupDone, AfterCleanup, Goto, EndedPcs
<1>18. CASE StartCheckpoint(t)  BY <1>0, <1>18 DEF StartCheckpoint, Goto, EndedPcs
<1>19. CASE FinishCheckpoint(t)  BY <1>0, <1>19 DEF FinishCheckpoint, Goto, EndedPcs
<1> QED
  BY <1>1, <1>2, <1>3, <1>4, <1>5, <1>6, <1>7, <1>8, <1>9, <1>10,
     <1>11, <1>12, <1>13, <1>14, <1>15, <1>16, <1>17, <1>18, <1>19 DEF Step

\* Most steps leave the lists alone, and what there is of a transaction that is over.
LEMMA ListsKept ==
  ASSUME IInv, DataTyped, TxnTyped, ManagerTyped, PlaceInv, NEW t \in Txns, Step(t),
         ~Leave(t), ~PopCleanup(t), ~CleanupDone(t)
  PROVE  /\ UNCHANGED <<recently, cleanup_queue, work, cleanup_lock>>
         /\ active \subseteq active' /\ sharing \subseteq sharing'
         /\ \A u \in Txns : u # t \/ pc[u] \in EndedPcs =>
              /\ undo'[u] = undo[u] /\ checkpoints'[u] = checkpoints[u]
              /\ u \in sharing' => u \in sharing
<1> USE DEF managerVars, lockVars, listVars, checkpointVars, versionVars, updateVars
<1>0. pc \in [Txns -> Pcs] /\ checkpoints \in [Txns -> BOOLEAN]  BY DEF IInv, Typed, TxnTyped
<1>1. CASE Start(t)  BY <1>0, <1>1 DEF Start, Goto, EndedPcs
<1>2. CASE Insert(t)  BY <1>0, <1>2 DEF Insert, EndedPcs
<1>3. CASE Delete(t)
  <2>1. Recorded(t, {"delete"})  BY <1>3, DeleteFrame
  <2>2. \A u \in Txns : u # t => undo'[u] = undo[u]  BY <2>1, RecordedIs
  <2> QED BY <1>0, <1>3, <2>2, DeleteFrame DEF EndedPcs
<1>4. CASE Update(t)
  <2>1. Recorded(t, {"update"})  BY <1>4, UpdateFrame
  <2>2. \A u \in Txns : u # t => undo'[u] = undo[u]  BY <2>1, RecordedIs
  <2> QED BY <1>0, <1>4, <2>2, UpdateFrame DEF EndedPcs
<1>5. CASE CommitDirectly(t)
  <2>1. Recorded(t, {"append"})  BY <1>5, CommitDirectlyFrame
  <2>2. \A u \in Txns : u # t => undo'[u] = undo[u]  BY <2>1, RecordedIs
  <2> QED BY <1>0, <1>5, <2>2, CommitDirectlyFrame DEF EndedPcs
<1>6. CASE CommitThroughWAL(t)  BY <1>0, <1>6 DEF CommitThroughWAL, Running, Goto, EndedPcs
<1>7. CASE WriteToWAL(t)
  <2>1. Recorded(t, {"append"})  BY <1>7, AppendRecorded DEF WriteToWAL
  <2>2. \A u \in Txns : u # t => undo'[u] = undo[u]  BY <2>1, RecordedIs
  <2> QED BY <1>0, <1>7, <2>2 DEF WriteToWAL, EndedPcs
<1>8. CASE TakeTimestamp(t)  BY <1>0, <1>8, TakeTimestampFrame DEF EndedPcs
<1>9. CASE CommitEntry(t)  BY <1>0, <1>9 DEF CommitEntry, EndedPcs
<1>10. CASE CommitDone(t)  BY <1>0, <1>10 DEF CommitDone, Goto, EndedPcs
<1>11. CASE FlushFails(t)  BY <1>0, <1>11 DEF FlushFails, Goto, GotoRollback, EndedPcs
<1>12. CASE Rollback(t)  BY <1>0, <1>12 DEF Rollback, Goto, GotoRollback, EndedPcs
<1>13. CASE RollbackEntry(t)  BY <1>0, <1>13 DEF RollbackEntry, EndedPcs
<1>14. CASE Leave(t)
  BY <1>14
<1>15. CASE PopCleanup(t)
  BY <1>15
<1>16. CASE CleanupEntry(t)  BY <1>0, <1>16 DEF CleanupEntry, EndedPcs
<1>17. CASE CleanupDone(t)
  BY <1>17
<1>18. CASE StartCheckpoint(t)  BY <1>0, <1>18 DEF StartCheckpoint, Goto, EndedPcs
<1>19. CASE FinishCheckpoint(t)  BY <1>0, <1>19 DEF FinishCheckpoint, Goto, EndedPcs
<1> QED
  BY <1>1, <1>2, <1>3, <1>4, <1>5, <1>6, <1>7, <1>8, <1>9, <1>10,
     <1>11, <1>12, <1>13, <1>14, <1>15, <1>16, <1>17, <1>18, <1>19 DEF Step

\* Every step keeps the kept transactions sharing, and free of checkpoints.
LEMMA KeptKept ==
  ASSUME IInv, DataTyped, TxnTyped, ManagerTyped, ErrorInv, SharingInv, ExclusiveInv, HolderInv,
         CheckpointInv, AloneInv, ClockInv, PlaceInv, KeptInv, NEW t \in Txns, Step(t)
  PROVE  KeptInv'
<1>0. \A u \in ToSet(recently) : u \in Txns /\ pc[u] \in EndedPcs  BY RecentIs
<1>1. CASE ~Leave(t) /\ ~PopCleanup(t) /\ ~CleanupDone(t)
  BY <1>0, <1>1, ListsKept DEF KeptInv
<1>2. CASE PopCleanup(t)
  BY <1>2 DEF PopCleanup, KeptInv
<1>3. CASE CleanupDone(t)
  BY <1>0, <1>3 DEF CleanupDone, KeptInv, PlaceInv
<1>4. CASE Leave(t)
  <2>1. /\ UNCHANGED checkpoints /\ pc[t] \in LockPcs
        /\ sharing' = IF Kept(t) \/ Scheduled(t) THEN sharing ELSE sharing \ {t}
    BY <1>4 DEF Leave, RemoveTransaction, LockPcs
  <2>2. PICK txns : ToSet(recently') \union txns
                      = ToSet(recently) \union {u \in {t} : Kept(t) \/ Scheduled(t)}
                    /\ (Scheduled(t) => t \in txns) /\ ToSet(recently') \intersect txns = {}
    BY <1>4, LeavePlaces
  <2>3. t \notin ToSet(recently)  BY <1>0, <2>1 DEF LockPcs, EndedPcs
  <2>4. ASSUME NEW u \in ToSet(recently'), u # t PROVE u \in sharing' /\ ~checkpoints'[u]
    <3>1. u \in ToSet(recently)  BY <2>2, <2>4
    <3> QED BY <2>1, <2>4, <3>1 DEF KeptInv
  <2>5. ASSUME t \in ToSet(recently') PROVE t \in sharing' /\ ~checkpoints'[t]
    <3>1. Kept(t)  BY <2>2, <2>3, <2>5
    <3>2. HasUpdates(t) /\ t \in sharing  BY <3>1, KeptIs DEF SharingInv
    <3>3. t \in sharing'  BY <2>1, <3>1, <3>2
    <3>4. ASSUME checkpoints[t] PROVE FALSE
      <4>1. active \ {t} = {}  BY <2>1, <3>2, <3>4 DEF AloneInv
      <4>2. checkpoint_lock = t  BY <2>1, <3>4 DEF HolderInv, HoldsCheckpointLock
      <4>3. active_checkpoint = NoCheckpoint
        <5> SUFFICES ASSUME active_checkpoint # NoCheckpoint PROVE FALSE
          OBVIOUS
        <5>1. PICK u \in Txns : pc[u] = "checkpointing" /\ checkpoint_lock = u  BY CheckpointerIs
        <5> QED BY <2>1, <4>2, <5>1 DEF LockPcs
      <4>4. recently' = <<>>  BY <1>4, <4>1, <4>3, LeaveEmpties
      <4> QED BY <2>5, <4>4 DEF ToSet
    <3> QED BY <2>1, <3>3, <3>4
  <2>6. \A u \in ToSet(recently') : u \in sharing' /\ ~checkpoints'[u]  BY <2>4, <2>5
  <2> QED BY <2>6 DEF KeptInv, ToSet
<1> QED BY <1>1, <1>2, <1>3, <1>4

\* Every step keeps the list of kept ones empty while nobody is active.
LEMMA EmptyKept ==
  ASSUME IInv, DataTyped, TxnTyped, ManagerTyped, ErrorInv, SharingInv, ExclusiveInv, HolderInv,
         CheckpointInv, ClockInv, PlaceInv, KeptInv, EmptyInv, NEW t \in Txns, Step(t)
  PROVE  EmptyInv'
<1>1. CASE ~Leave(t) /\ ~PopCleanup(t) /\ ~CleanupDone(t)
  BY <1>1, ListsKept DEF EmptyInv
<1>2. CASE PopCleanup(t)
  BY <1>2 DEF PopCleanup, EmptyInv
<1>3. CASE CleanupDone(t)
  BY <1>3 DEF CleanupDone, EmptyInv
<1>4. CASE Leave(t)
  <2> SUFFICES ASSUME active' = {} PROVE recently' = <<>>
    BY DEF EmptyInv
  <2>1. active \ {t} = {} /\ pc[t] \in LockPcs  BY <1>4 DEF Leave, RemoveTransaction, LockPcs
  <2>2. CASE active_checkpoint = NoCheckpoint
    BY <1>4, <2>1, <2>2, LeaveEmpties
  <2>3. CASE active_checkpoint # NoCheckpoint
    <3>1. PICK u \in Txns : pc[u] = "checkpointing" /\ checkpoints[u] /\ sharing \subseteq {u}
      BY <2>3, CheckpointerIs
    <3>2. t # u  BY <2>1, <3>1 DEF LockPcs
    <3>3. ~Kept(t)
      <4> SUFFICES ASSUME Kept(t) PROVE FALSE
        OBVIOUS
      <4>1. t \in sharing  BY KeptIs DEF SharingInv
      <4> QED BY <3>1, <3>2, <4>1
    <3>4. ToSet(recently) = {}  BY <3>1 DEF KeptInv
    <3>5. PICK txns : ToSet(recently') \union txns
                      = ToSet(recently) \union {w \in {t} : Kept(t) \/ Scheduled(t)}
                    /\ (Scheduled(t) => t \in txns) /\ ToSet(recently') \intersect txns = {}
      BY <1>4, LeavePlaces
    <3>6. ToSet(recently') = {}  BY <3>3, <3>4, <3>5
    <3>7. PICK n \in Nat, list \in Seq(Txns) : recently' = SubSeq(list, n + 1, Len(list))
      BY <1>4, LeaveIs
    <3>8. recently' \in Seq(Txns)  BY <3>7
    <3>9. DOMAIN recently' = {}  BY <3>6 DEF ToSet
    <3> QED BY <3>8, <3>9
  <2> QED BY <2>2, <2>3
<1> QED BY <1>1, <1>2, <1>3, <1>4

\* The entries of the queue, and of what is cleaned up, are transactions.
LEMMA QueueTypes ==
  ASSUME ManagerTyped
  PROVE  /\ cleanup_queue \in Seq(Works) /\ DOMAIN cleanup_queue = 1 .. Len(cleanup_queue)
         /\ Len(cleanup_queue) \in Nat
         /\ \A i \in DOMAIN cleanup_queue : \A u \in InQueue(i) : u \in Txns
         /\ \A u \in ToSet(work.txns) : u \in Txns
<1>1. cleanup_queue \in Seq(Works) /\ work \in Works  BY DEF ManagerTyped
<1>2. /\ DOMAIN cleanup_queue = 1 .. Len(cleanup_queue) /\ Len(cleanup_queue) \in Nat
      /\ \A i \in DOMAIN cleanup_queue : cleanup_queue[i] \in Works
  BY <1>1
<1>3. ASSUME NEW w \in Works, NEW u \in ToSet(w.txns) PROVE u \in Txns
  <2>1. w.txns \in Seq(Txns)  BY DEF Works
  <2> QED BY <2>1 DEF ToSet
<1> QED BY <1>1, <1>2, <1>3 DEF InQueue

\* An entry more at the end of the queue.
LEMMA QueueAppended ==
  ASSUME ManagerTyped, NEW w \in Works, cleanup_queue' = Append(cleanup_queue, w)
  PROVE  /\ DOMAIN cleanup_queue' = 1 .. Len(cleanup_queue) + 1
         /\ Len(cleanup_queue') = Len(cleanup_queue) + 1
         /\ \A i \in DOMAIN cleanup_queue : InQueue(i)' = InQueue(i)
         /\ ToSet(cleanup_queue'[Len(cleanup_queue) + 1].txns) = ToSet(w.txns)
<1>1. cleanup_queue \in Seq(Works)  BY DEF ManagerTyped
<1>2. /\ DOMAIN cleanup_queue' = 1 .. Len(cleanup_queue) + 1
      /\ Len(cleanup_queue') = Len(cleanup_queue) + 1
      /\ \A i \in DOMAIN cleanup_queue : cleanup_queue'[i] = cleanup_queue[i]
      /\ cleanup_queue'[Len(cleanup_queue) + 1] = w
  BY <1>1
<1>3. /\ \A i \in DOMAIN cleanup_queue : InQueue(i)' = InQueue(i)
      /\ ToSet(cleanup_queue'[Len(cleanup_queue) + 1].txns) = ToSet(w.txns)
  BY <1>2 DEF InQueue, ToSet
<1> QED BY <1>2, <1>3

\* The first entry is taken.
LEMMA QueuePopped ==
  ASSUME ManagerTyped, cleanup_queue # <<>>, cleanup_queue' = Tail(cleanup_queue),
         work' = Head(cleanup_queue)
  PROVE  /\ Len(cleanup_queue) >= 1 /\ DOMAIN cleanup_queue' = 1 .. Len(cleanup_queue) - 1
         /\ Len(cleanup_queue') = Len(cleanup_queue) - 1
         /\ \A i \in DOMAIN cleanup_queue' : InQueue(i)' = InQueue(i + 1)
         /\ ToSet(work'.txns) = InQueue(1)
<1>1. cleanup_queue \in Seq(Works)  BY DEF ManagerTyped
<1>2. /\ Len(cleanup_queue) >= 1 /\ DOMAIN cleanup_queue' = 1 .. Len(cleanup_queue) - 1
      /\ Len(cleanup_queue') = Len(cleanup_queue) - 1
      /\ \A i \in DOMAIN cleanup_queue' : cleanup_queue'[i] = cleanup_queue[i + 1]
      /\ work' = cleanup_queue[1]
  BY <1>1
<1>3. /\ \A i \in DOMAIN cleanup_queue' : InQueue(i)' = InQueue(i + 1)
      /\ ToSet(work'.txns) = InQueue(1)
  BY <1>2 DEF InQueue, ToSet
<1> QED BY <1>2, <1>3

\* Every step keeps a transaction that is over in one place at most.
LEMMA PlaceKept ==
  ASSUME IInv, DataTyped, TxnTyped, ManagerTyped, PlaceInv, WorkInv, NEW t \in Txns, Step(t)
  PROVE  PlaceInv'
<1>0. /\ \A u \in ToSet(recently) : u \in Txns /\ pc[u] \in EndedPcs
      /\ pc \in [Txns -> Pcs]
      /\ DOMAIN cleanup_queue = 1 .. Len(cleanup_queue) /\ Len(cleanup_queue) \in Nat
      /\ \A i \in DOMAIN cleanup_queue : \A u \in InQueue(i) : u \in Txns
      /\ \A u \in ToSet(work.txns) : u \in Txns
  BY RecentIs, QueueTypes DEF IInv, Typed
<1>1. /\ \A u \in Txns \ {t} : pc'[u] = pc[u]
      /\ \A u \in Txns : pc[u] \in EndedPcs => pc'[u] \in EndedPcs
  BY PlacesKept
<1>2. CASE ~Leave(t) /\ ~PopCleanup(t) /\ ~CleanupDone(t)
  <2>1. UNCHANGED <<recently, cleanup_queue, work>>  BY <1>2, ListsKept
  <2> QED BY <1>0, <1>1, <2>1 DEF PlaceInv, InQueue
<1>3. CASE CleanupDone(t)
  <2>1. UNCHANGED <<recently, cleanup_queue>> /\ work' = NoWork  BY <1>3 DEF CleanupDone
  <2>2. ToSet(work'.txns) = {}  BY <2>1 DEF NoWork, ToSet
  <2> QED BY <1>0, <1>1, <2>1, <2>2 DEF PlaceInv, InQueue
<1>4. CASE PopCleanup(t)
  <2>1. recently' = recently  BY <1>4 DEF PopCleanup
  <2>2. CASE cleanup_queue = <<>>
    <3>1. UNCHANGED <<cleanup_queue, work>>  BY <1>4, <2>2 DEF PopCleanup
    <3> QED BY <1>0, <1>1, <2>1, <3>1 DEF PlaceInv, InQueue
  <2>3. CASE cleanup_queue # <<>>
    <3>1. cleanup_queue' = Tail(cleanup_queue) /\ work' = Head(cleanup_queue)
      BY <1>4, <2>3 DEF PopCleanup
    <3>2. /\ DOMAIN cleanup_queue' = 1 .. Len(cleanup_queue) - 1 /\ 1 \in DOMAIN cleanup_queue
          /\ \A i \in DOMAIN cleanup_queue' : InQueue(i)' = InQueue(i + 1)
          /\ ToSet(work'.txns) = InQueue(1)
      BY <1>0, <2>3, <3>1, QueuePopped
    <3>3. ASSUME NEW i \in DOMAIN cleanup_queue'
          PROVE  i + 1 \in DOMAIN cleanup_queue /\ i + 1 # 1
      BY <1>0, <3>2
    <3>4. ASSUME NEW i \in DOMAIN cleanup_queue', NEW u \in InQueue(i)'
          PROVE  /\ pc'[u] \in EndedPcs /\ u \notin ToSet(work'.txns) /\ u \notin ToSet(recently')
                 /\ \A k \in DOMAIN cleanup_queue' : u \in InQueue(k)' => i = k
      <4>1. u \in InQueue(i + 1) /\ i + 1 \in DOMAIN cleanup_queue /\ i + 1 # 1 /\ u \in Txns
        BY <1>0, <3>2, <3>3
      <4>2. pc'[u] \in EndedPcs /\ u \notin ToSet(recently)  BY <1>1, <4>1 DEF PlaceInv
      <4>3. u \notin InQueue(1)  BY <3>2, <4>1 DEF PlaceInv
      <4>4. ASSUME NEW k \in DOMAIN cleanup_queue', u \in InQueue(k)' PROVE i = k
        <5>1. u \in InQueue(k + 1) /\ k + 1 \in DOMAIN cleanup_queue  BY <3>2, <3>3, <4>4
        <5>2. i + 1 = k + 1  BY <4>1, <5>1 DEF PlaceInv
        <5> QED BY <3>2, <5>2, <1>0
      <4> QED BY <2>1, <3>2, <4>2, <4>3, <4>4
    <3>5. ASSUME NEW u \in ToSet(work'.txns) PROVE pc'[u] \in EndedPcs /\ u \notin ToSet(recently')
      BY <1>0, <1>1, <2>1, <3>2 DEF PlaceInv
    <3> QED BY <3>4, <3>5 DEF PlaceInv, InQueue, ToSet
  <2> QED BY <2>2, <2>3
<1>5. CASE Leave(t)
  <2>1. pc[t] \notin EndedPcs /\ pc'[t] \in EndedPcs /\ work' = work
    BY <1>0, <1>5 DEF Leave, Goto, EndedPcs
  <2>2. PICK txns \in Seq(Txns) :
           /\ ToSet(recently') \intersect ToSet(txns) = {}
           /\ ToSet(recently') \union ToSet(txns)
                = ToSet(recently) \union {u \in {t} : Kept(t) \/ Scheduled(t)}
           /\ \/ txns = <<>> /\ cleanup_queue' = cleanup_queue
              \/ cleanup_queue' = Append(cleanup_queue, [txns |-> txns, lowest |-> LowestActiveStart(t)])
    BY <1>5, LeavePlaces
  <2>3. \A u : u \in ToSet(recently') \union ToSet(txns) => u \in ToSet(recently) \/ u = t
    BY <2>2
  <2>4. ASSUME NEW i \in DOMAIN cleanup_queue, NEW u \in InQueue(i)
        PROVE  /\ pc'[u] \in EndedPcs /\ u \notin ToSet(work'.txns) /\ u \notin ToSet(recently')
               /\ u \notin ToSet(txns) /\ \A k \in DOMAIN cleanup_queue : u \in InQueue(k) => i = k
    <3>1. u \in Txns /\ pc[u] \in EndedPcs /\ u \notin ToSet(recently) /\ u \notin ToSet(work.txns)
      BY <1>0 DEF PlaceInv
    <3>2. \A k \in DOMAIN cleanup_queue : u \in InQueue(k) => i = k  BY DEF PlaceInv
    <3> QED BY <1>1, <2>1, <2>3, <3>1, <3>2
  <2>5. ASSUME NEW u \in ToSet(work'.txns) PROVE pc'[u] \in EndedPcs /\ u \notin ToSet(recently')
    <3>1. u \in Txns /\ pc[u] \in EndedPcs /\ u \notin ToSet(recently)  BY <1>0, <2>1 DEF PlaceInv
    <3> QED BY <1>1, <2>1, <2>3, <3>1
  <2>6. CASE cleanup_queue' = cleanup_queue
    BY <2>4, <2>5, <2>6 DEF PlaceInv, InQueue, ToSet
  <2>7. CASE cleanup_queue' = Append(cleanup_queue, [txns |-> txns, lowest |-> LowestActiveStart(t)])
    <3> DEFINE w == [txns |-> txns, lowest |-> LowestActiveStart(t)]
               L == Len(cleanup_queue) + 1
    <3>1. w \in Works /\ w.txns = txns  BY LowestIs DEF Works
    <3> HIDE DEF w
    <3>2. /\ DOMAIN cleanup_queue' = 1 .. L
          /\ \A i \in DOMAIN cleanup_queue : InQueue(i)' = InQueue(i)
          /\ ToSet(cleanup_queue'[L].txns) = ToSet(txns)
      BY <2>7, <3>1, QueueAppended DEF w
    <3>3. \A i \in DOMAIN cleanup_queue' : i \in DOMAIN cleanup_queue \/ i = L
      BY <1>0, <3>2
    <3>4. ASSUME NEW u \in ToSet(txns)
          PROVE  pc'[u] \in EndedPcs /\ u \notin ToSet(work'.txns) /\ u \notin ToSet(recently')
      <4>1. u \notin ToSet(recently')  BY <2>2
      <4>2. CASE u = t
        <5>1. t \notin ToSet(work.txns)  BY <2>1 DEF PlaceInv
        <5> QED BY <2>1, <4>1, <4>2, <5>1
      <4>3. CASE u \in ToSet(recently)
        <5>1. u \notin ToSet(work.txns)  BY <4>3 DEF PlaceInv
        <5> QED BY <1>0, <1>1, <2>1, <4>1, <4>3, <5>1
      <4> QED BY <2>3, <4>2, <4>3
    <3>5. ASSUME NEW i \in DOMAIN cleanup_queue', NEW u \in InQueue(i)'
          PROVE  /\ pc'[u] \in EndedPcs /\ u \notin ToSet(work'.txns) /\ u \notin ToSet(recently')
                 /\ \A k \in DOMAIN cleanup_queue' : u \in InQueue(k)' => i = k
      <4>1. CASE i \in DOMAIN cleanup_queue
        <5>1. u \in InQueue(i)  BY <3>2, <4>1
        <5>2. u \notin ToSet(cleanup_queue'[L].txns)  BY <2>4, <3>2, <4>1, <5>1
        <5>3. ASSUME NEW k \in DOMAIN cleanup_queue', u \in InQueue(k)' PROVE i = k
          <6>1. k \in DOMAIN cleanup_queue  BY <3>3, <5>2, <5>3 DEF InQueue
          <6> QED BY <2>4, <3>2, <4>1, <5>1, <5>3, <6>1
        <5> QED BY <2>4, <4>1, <5>1, <5>3
      <4>2. CASE i = L
        <5>1. u \in ToSet(txns)  BY <3>2, <4>2 DEF InQueue
        <5>2. ASSUME NEW k \in DOMAIN cleanup_queue', u \in InQueue(k)' PROVE i = k
          <6>1. k \notin DOMAIN cleanup_queue  BY <2>4, <3>2, <5>1, <5>2
          <6> QED BY <3>3, <4>2, <6>1
        <5> QED BY <3>4, <5>1, <5>2
      <4> QED BY <3>3, <4>1, <4>2
    <3> QED BY <2>5, <3>5 DEF PlaceInv, InQueue, ToSet
  <2> QED BY <2>2, <2>6, <2>7
<1> QED BY <1>2, <1>3, <1>4, <1>5

\* Nobody else gets in or out of the clean-up.
LEMMA PlacesQuiet ==
  ASSUME IInv, DataTyped, TxnTyped, ManagerTyped, NEW t \in Txns, Step(t),
         ~Leave(t), ~PopCleanup(t), ~CleanupDone(t)
  PROVE  /\ pc[t] \notin EndedPcs => pc'[t] \in Live
         /\ pc[t] # "cleanup" /\ pc'[t] # "cleanup"
         /\ pc[t] = "cleaning" <=> pc'[t] = "cleaning"
<1>0. pc \in [Txns -> Pcs]  BY DEF IInv, Typed
<1>1. CASE Start(t)  BY <1>0, <1>1 DEF Start, Goto, EndedPcs, Live, Pcs
<1>2. CASE Insert(t)
  BY <1>0, <1>2 DEF Insert, CanChange, Running, EndedPcs, Live
<1>3. CASE Delete(t)  BY <1>0, <1>3, DeleteFrame DEF EndedPcs, Live, Pcs
<1>4. CASE Update(t)  BY <1>0, <1>4, UpdateFrame DEF EndedPcs, Live, Pcs
<1>5. CASE CommitDirectly(t)  BY <1>0, <1>5, CommitDirectlyFrame DEF EndedPcs, Live, Pcs
<1>6. CASE CommitThroughWAL(t)  BY <1>0, <1>6 DEF CommitThroughWAL, Running, Goto, EndedPcs, Live, Pcs
<1>7. CASE WriteToWAL(t)  BY <1>0, <1>7 DEF WriteToWAL, Goto, EndedPcs, Live, Pcs
<1>8. CASE TakeTimestamp(t)  BY <1>0, <1>8, TakeTimestampFrame DEF EndedPcs, Live, Pcs
<1>9. CASE CommitEntry(t)  BY <1>0, <1>9 DEF CommitEntry, EndedPcs, Live, Pcs
<1>10. CASE CommitDone(t)  BY <1>0, <1>10 DEF CommitDone, Goto, EndedPcs, Live, Pcs
<1>11. CASE FlushFails(t)  BY <1>0, <1>11 DEF FlushFails, Goto, GotoRollback, EndedPcs, Live, Pcs
<1>12. CASE Rollback(t)  BY <1>0, <1>12 DEF Rollback, Goto, GotoRollback, EndedPcs, Live, Pcs
<1>13. CASE RollbackEntry(t)  BY <1>0, <1>13 DEF RollbackEntry, EndedPcs, Live, Pcs
<1>14. CASE Leave(t)
  BY <1>14
<1>15. CASE PopCleanup(t)
  BY <1>15
<1>16. CASE CleanupEntry(t)  BY <1>0, <1>16 DEF CleanupEntry, EndedPcs, Live, Pcs
<1>17. CASE CleanupDone(t)
  BY <1>17
<1>18. CASE StartCheckpoint(t)  BY <1>0, <1>18 DEF StartCheckpoint, Goto, EndedPcs, Live, Pcs
<1>19. CASE FinishCheckpoint(t)  BY <1>0, <1>19 DEF FinishCheckpoint, Goto, EndedPcs, Live, Pcs
<1> QED
  BY <1>1, <1>2, <1>3, <1>4, <1>5, <1>6, <1>7, <1>8, <1>9, <1>10,
     <1>11, <1>12, <1>13, <1>14, <1>15, <1>16, <1>17, <1>18, <1>19 DEF Step

\* Every step keeps what is left of a transaction somewhere.
LEMMA HomeKept ==
  ASSUME IInv, DataTyped, TxnTyped, ManagerTyped, ActiveInv, PlaceInv, WorkInv, HomeInv,
         NEW t \in Txns, Step(t)
  PROVE  HomeInv'
<1>0. /\ DOMAIN cleanup_queue = 1 .. Len(cleanup_queue) /\ Len(cleanup_queue) \in Nat
      /\ pc \in [Txns -> Pcs]
  BY QueueTypes DEF IInv, Typed
<1>1. CASE ~Leave(t) /\ ~PopCleanup(t) /\ ~CleanupDone(t)
  <2>1. /\ UNCHANGED <<recently, cleanup_queue, work>> /\ active \subseteq active'
        /\ \A u \in Txns : u # t \/ pc[u] \in EndedPcs =>
              undo'[u] = undo[u] /\ (u \in sharing' => u \in sharing)
    BY <1>1, ListsKept
  <2>2. pc[t] \notin EndedPcs => t \in active'
    BY <1>1, PlacesQuiet, ActiveKept DEF ActiveInv
  <2>3. ASSUME NEW u \in Txns, u \in sharing' \/ undo'[u] # <<>>
        PROVE  \/ u \in active' \union ToSet(recently') \union ToSet(work'.txns)
               \/ \E i \in DOMAIN cleanup_queue' : u \in InQueue(i)'
    <3>1. CASE u = t /\ pc[t] \notin EndedPcs  BY <2>2, <3>1
    <3>2. CASE u # t \/ pc[u] \in EndedPcs
      <4>1. u \in sharing \/ undo[u] # <<>>  BY <2>1, <2>3, <3>2
      <4>2. \/ u \in active \union ToSet(recently) \union ToSet(work.txns)
            \/ \E i \in DOMAIN cleanup_queue : u \in InQueue(i)
        BY <4>1 DEF HomeInv
      <4>3. ASSUME NEW i \in DOMAIN cleanup_queue, u \in InQueue(i) PROVE u \in InQueue(i)'
        BY <2>1, <4>3 DEF InQueue
      <4> QED BY <2>1, <4>2, <4>3
    <3> QED BY <3>1, <3>2
  <2> QED BY <2>3 DEF HomeInv
<1>2. CASE CleanupDone(t)
  <2>1. /\ UNCHANGED <<active, recently, cleanup_queue>> /\ sharing' = sharing \ ToSet(work.txns)
        /\ \A u \in Txns : undo'[u] = IF u \in ToSet(work.txns) THEN <<>> ELSE undo[u]
    BY <1>2 DEF CleanupDone
  <2>3. ASSUME NEW u \in Txns, u \in sharing' \/ undo'[u] # <<>>
        PROVE  \/ u \in active' \union ToSet(recently') \union ToSet(work'.txns)
               \/ \E i \in DOMAIN cleanup_queue' : u \in InQueue(i)'
    <3>1. u \notin ToSet(work.txns)  BY <2>1, <2>3
    <3>2. u \in sharing \/ undo[u] # <<>>  BY <2>1, <2>3, <3>1
    <3>3. ASSUME NEW i \in DOMAIN cleanup_queue, u \in InQueue(i) PROVE u \in InQueue(i)'
      BY <2>1, <3>3 DEF InQueue
    <3> QED BY <2>1, <3>1, <3>2, <3>3 DEF HomeInv
  <2> QED BY <2>3 DEF HomeInv
<1>3. CASE PopCleanup(t)
  <2>1. UNCHANGED <<active, recently, sharing, undo>> /\ cleanup_lock = None
    BY <1>3 DEF PopCleanup
  <2>2. CASE cleanup_queue = <<>>
    <3>1. UNCHANGED <<cleanup_queue, work>>  BY <1>3, <2>2 DEF PopCleanup
    <3> QED BY <2>1, <3>1 DEF HomeInv, InQueue
  <2>3. CASE cleanup_queue # <<>>
    <3>1. cleanup_queue' = Tail(cleanup_queue) /\ work' = Head(cleanup_queue)
      BY <1>3, <2>3 DEF PopCleanup
    <3>2. /\ DOMAIN cleanup_queue' = 1 .. Len(cleanup_queue) - 1
          /\ \A i \in DOMAIN cleanup_queue' : InQueue(i)' = InQueue(i + 1)
          /\ ToSet(work'.txns) = InQueue(1)
      BY <2>3, <3>1, QueuePopped
    <3>3. ToSet(work.txns) = {}  BY <2>1 DEF WorkInv, NoWork, ToSet
    <3>4. ASSUME NEW u \in Txns, u \in sharing' \/ undo'[u] # <<>>
          PROVE  \/ u \in active' \union ToSet(recently') \union ToSet(work'.txns)
                 \/ \E i \in DOMAIN cleanup_queue' : u \in InQueue(i)'
      <4>1. \/ u \in active \union ToSet(recently)
            \/ \E i \in DOMAIN cleanup_queue : u \in InQueue(i)
        BY <2>1, <3>3, <3>4 DEF HomeInv
      <4>2. ASSUME NEW i \in DOMAIN cleanup_queue, u \in InQueue(i), i # 1
            PROVE  \E k \in DOMAIN cleanup_queue' : u \in InQueue(k)'
        <5> DEFINE k == i - 1
        <5>1. k \in DOMAIN cleanup_queue' /\ k + 1 = i  BY <1>0, <3>2, <4>2
        <5> HIDE DEF k
        <5>2. InQueue(k)' = InQueue(k + 1)  BY <3>2, <5>1
        <5>3. \A x \in DOMAIN cleanup_queue' : x = k => u \in InQueue(x)'
          BY <3>2, <4>2, <5>1
        <5> QED BY <5>1, <5>3
      <4> QED BY <2>1, <3>2, <4>1, <4>2
    <3> QED BY <3>4 DEF HomeInv
  <2> QED BY <2>2, <2>3
<1>4. CASE Leave(t)
  <2>1. /\ work' = work /\ undo' = undo /\ active' = active \ {t}
        /\ sharing' = IF Kept(t) \/ Scheduled(t) THEN sharing ELSE sharing \ {t}
    BY <1>4 DEF Leave, RemoveTransaction
  <2>2. PICK txns \in Seq(Txns) :
           /\ ToSet(recently') \union ToSet(txns)
                = ToSet(recently) \union {u \in {t} : Kept(t) \/ Scheduled(t)}
           /\ \/ txns = <<>> /\ cleanup_queue' = cleanup_queue
              \/ cleanup_queue' = Append(cleanup_queue, [txns |-> txns, lowest |-> LowestActiveStart(t)])
    BY <1>4, LeavePlaces
  <2>3. \A i \in DOMAIN cleanup_queue : i \in DOMAIN cleanup_queue' /\ InQueue(i)' = InQueue(i)
    <3>1. CASE cleanup_queue' = cleanup_queue  BY <3>1 DEF InQueue
    <3>2. CASE cleanup_queue' = Append(cleanup_queue, [txns |-> txns, lowest |-> LowestActiveStart(t)])
      <4>1. [txns |-> txns, lowest |-> LowestActiveStart(t)] \in Works  BY LowestIs DEF Works
      <4>2. \A i \in DOMAIN cleanup_queue : InQueue(i)' = InQueue(i)  BY <3>2, <4>1, QueueAppended
      <4>3. DOMAIN cleanup_queue' = 1 .. Len(cleanup_queue) + 1  BY <3>2, <4>1, QueueAppended
      <4> QED BY <1>0, <4>2, <4>3
    <3> QED BY <2>2, <3>1, <3>2
  <2>4. \A u \in ToSet(txns) : \E i \in DOMAIN cleanup_queue' : u \in InQueue(i)'
    <3>1. CASE txns = <<>>
      <4>1. ToSet(txns) = {}  BY <3>1 DEF ToSet
      <4> QED BY <4>1
    <3>2. CASE cleanup_queue' = Append(cleanup_queue, [txns |-> txns, lowest |-> LowestActiveStart(t)])
      <4> DEFINE w == [txns |-> txns, lowest |-> LowestActiveStart(t)]
                 L == Len(cleanup_queue) + 1
      <4>1. w \in Works /\ w.txns = txns  BY LowestIs DEF Works
      <4> HIDE DEF w
      <4>2. DOMAIN cleanup_queue' = 1 .. L /\ ToSet(cleanup_queue'[L].txns) = ToSet(txns)
        BY <3>2, <4>1, QueueAppended DEF w
      <4>3. L \in DOMAIN cleanup_queue'  BY <1>0, <4>2
      <4> QED BY <4>2, <4>3 DEF InQueue
    <3> QED BY <2>2, <3>1, <3>2
  <2>5. \A u \in ToSet(recently) \union {x \in {t} : Kept(t) \/ Scheduled(t)} :
          u \in ToSet(recently') \/ \E i \in DOMAIN cleanup_queue' : u \in InQueue(i)'
    BY <2>2, <2>4
  <2>6. ASSUME NEW u \in Txns, u \in sharing' \/ undo'[u] # <<>>
        PROVE  \/ u \in active' \union ToSet(recently') \union ToSet(work'.txns)
               \/ \E i \in DOMAIN cleanup_queue' : u \in InQueue(i)'
    <3>1. CASE u = t
      <4>1. Kept(t) \/ Scheduled(t)  BY <2>1, <2>6, <3>1 DEF Scheduled
      <4> QED BY <2>5, <3>1, <4>1
    <3>2. CASE u # t
      <4>1. u \in sharing \/ undo[u] # <<>>  BY <2>1, <2>6
      <4>2. \/ u \in active \union ToSet(recently) \union ToSet(work.txns)
            \/ \E i \in DOMAIN cleanup_queue : u \in InQueue(i)
        BY <4>1 DEF HomeInv
      <4> QED BY <2>1, <2>3, <2>5, <3>2, <4>2
    <3> QED BY <3>1, <3>2
  <2> QED BY <2>6 DEF HomeInv
<1> QED BY <1>1, <1>2, <1>3, <1>4

\* Every step keeps the clean-up lock with the thread that cleans up.
LEMMA WorkKept ==
  ASSUME IInv, DataTyped, TxnTyped, ManagerTyped, PlaceInv, WorkInv, NEW t \in Txns, Step(t)
  PROVE  WorkInv'
<1>0. pc \in [Txns -> Pcs]  BY DEF IInv, Typed
<1>1. CASE ~Leave(t) /\ ~PopCleanup(t) /\ ~CleanupDone(t)
  <2>1. UNCHANGED <<work, cleanup_lock>>  BY <1>1, ListsKept
  <2>2. \A u \in Txns : pc[u] = "cleaning" <=> pc'[u] = "cleaning"
    BY <1>1, PlacesQuiet, PlacesKept
  <2>3. cleanup_lock # None => cleanup_lock \in Txns  BY DEF ManagerTyped
  <2> QED BY <2>1, <2>2, <2>3 DEF WorkInv
<1>2. CASE Leave(t)
  <2>1. /\ UNCHANGED <<work, cleanup_lock>> /\ pc[t] # "cleaning"
        /\ \A u \in Txns : pc'[u] = IF u = t THEN "cleanup" ELSE pc[u]
    BY <1>0, <1>2 DEF Leave, Goto
  <2>2. cleanup_lock # None => cleanup_lock \in Txns  BY DEF ManagerTyped
  <2> QED BY <2>1, <2>2 DEF WorkInv
<1>3. CASE PopCleanup(t)
  <2>1. \A u \in Txns : pc[u] # "cleaning"
    BY <1>3, NoneAssumption DEF PopCleanup, WorkInv
  <2>2. CASE cleanup_queue = <<>>
    <3>1. /\ UNCHANGED <<work, cleanup_lock>> /\ cleanup_lock = None
          /\ pc' = [pc EXCEPT ![t] = AfterCleanup(t)]
      BY <1>3, <2>2 DEF PopCleanup, Goto
    <3>2. AfterCleanup(t) # "cleaning"  BY DEF AfterCleanup
    <3> QED BY <1>0, <2>1, <3>1, <3>2 DEF WorkInv
  <2>3. CASE cleanup_queue # <<>>
    <3>1. cleanup_lock' = t /\ pc' = [pc EXCEPT ![t] = "cleaning"]
      BY <1>3, <2>3 DEF PopCleanup, Goto
    <3> QED BY <1>0, <2>1, <3>1, NoneAssumption DEF WorkInv
  <2> QED BY <2>2, <2>3
<1>4. CASE CleanupDone(t)
  <2>1. /\ work' = NoWork /\ cleanup_lock' = None /\ pc[t] = "cleaning"
        /\ pc' = [pc EXCEPT ![t] = AfterCleanup(t)]
    BY <1>4 DEF CleanupDone, Goto
  <2>2. AfterCleanup(t) # "cleaning"  BY DEF AfterCleanup
  <2>3. \A u \in Txns : u # t => pc[u] # "cleaning"  BY <2>1 DEF WorkInv
  <2> QED BY <1>0, <2>1, <2>2, <2>3 DEF WorkInv
<1> QED BY <1>1, <1>2, <1>3, <1>4

\* Every step keeps at most one entry of the queue per thread still to come.
LEMMA QueueKept ==
  ASSUME IInv, DataTyped, TxnTyped, ManagerTyped, PlaceInv, WorkInv, QueueInv, NEW t \in Txns, Step(t)
  PROVE  QueueInv'
<1> DEFINE S == {u \in Txns : pc[u] = "cleanup"}
           T == {u \in Txns : pc'[u] = "cleanup"}
<1>0. /\ pc \in [Txns -> Pcs] /\ Len(cleanup_queue) \in Nat /\ Cardinality(S) \in Nat
      /\ IsFiniteSet(S) /\ Len(cleanup_queue) <= Cardinality(S)
  BY QueueTypes, FS_CardinalityType DEF IInv, Typed, QueueInv
<1>1. IsFiniteSet(T) /\ Len(cleanup_queue') <= Cardinality(T) => QueueInv'
  BY DEF QueueInv
<1>2. CASE ~Leave(t) /\ ~PopCleanup(t) /\ ~CleanupDone(t)
  <2>1. cleanup_queue' = cleanup_queue  BY <1>2, ListsKept
  <2>2. \A u \in Txns : pc[u] = "cleanup" <=> pc'[u] = "cleanup"
    BY <1>2, PlacesQuiet, PlacesKept
  <2>3. T = S  BY <2>2
  <2> QED BY <1>0, <1>1, <2>1, <2>3
<1>3. CASE Leave(t)
  <2>1. pc[t] # "cleanup" /\ pc' = [pc EXCEPT ![t] = "cleanup"]  BY <1>3 DEF Leave, Goto
  <2>2. T = S \union {t} /\ t \notin S  BY <1>0, <2>1
  <2> HIDE DEF S, T
  <2>3. IsFiniteSet(T) /\ Cardinality(T) = Cardinality(S) + 1  BY <1>0, <2>2, FS_AddElement
  <2>4. PICK txns \in Seq(Txns) : 
           \/ cleanup_queue' = cleanup_queue
           \/ cleanup_queue' = Append(cleanup_queue, [txns |-> txns, lowest |-> LowestActiveStart(t)])
    BY <1>3, LeavePlaces
  <2>5. [txns |-> txns, lowest |-> LowestActiveStart(t)] \in Works  BY LowestIs DEF Works
  <2>6. Len(cleanup_queue') = Len(cleanup_queue) \/ Len(cleanup_queue') = Len(cleanup_queue) + 1
    BY <2>4, <2>5, QueueAppended
  <2> QED BY <1>0, <1>1, <2>3, <2>6
<1>4. CASE PopCleanup(t)
  <2>1. pc[t] = "cleanup" /\ \E l \in {"cleaning", "checkpoint", "done"} : pc' = [pc EXCEPT ![t] = l]
    BY <1>4 DEF PopCleanup, Goto, AfterCleanup
  <2>2. T = S \ {t} /\ t \in S  BY <1>0, <2>1
  <2> HIDE DEF S, T
  <2>3. IsFiniteSet(T) /\ Cardinality(T) = Cardinality(S) - 1  BY <1>0, <2>2, FS_RemoveElement
  <2>4. CASE cleanup_queue = <<>>
    <3>1. Len(cleanup_queue') = 0  BY <1>4, <2>4 DEF PopCleanup
    <3>2. Cardinality(T) \in Nat  BY <2>3, FS_CardinalityType
    <3> QED BY <1>1, <2>3, <3>1, <3>2
  <2>5. CASE cleanup_queue # <<>>
    <3>1. Len(cleanup_queue') = Len(cleanup_queue) - 1
      BY <1>4, <2>5, QueuePopped DEF PopCleanup
    <3> QED BY <1>0, <1>1, <2>3, <3>1
  <2> QED BY <2>4, <2>5
<1>5. CASE CleanupDone(t)
  <2>1. /\ cleanup_queue' = cleanup_queue /\ pc[t] = "cleaning"
        /\ \E l \in {"checkpoint", "done"} : pc' = [pc EXCEPT ![t] = l]
    BY <1>5 DEF CleanupDone, Goto, AfterCleanup
  <2>2. T = S  BY <1>0, <2>1
  <2> QED BY <1>0, <1>1, <2>1, <2>2
<1> QED BY <1>2, <1>3, <1>4, <1>5

-----------------------------------------------------------------------------
(* The chains: every UpdateInfo has its undo entry                         *)

\* The owner, and the version, of each UpdateInfo there is.
LEMMA InfoTypes ==
  ASSUME DataTyped, NEW v \in Rows, NEW i \in DOMAIN chain[v]
  PROVE  chain[v][i].owner \in Txns /\ chain[v][i].version \in Nat /\ i \in Nat
<1>1. chain[v] \in Seq(Infos)  BY DEF DataTyped
<1>2. chain[v][i] \in Infos /\ i \in Nat  BY <1>1
<1> QED BY <1>2 DEF Infos

\* Nothing has happened to u that its UpdateInfos depend on.
LEMMA LinkedFrame ==
  ASSUME NEW u \in Txns, undo'[u] = undo[u], pc'[u] = pc[u], done'[u] = done[u],
         commit_id'[u] = commit_id[u], transaction_id'[u] = transaction_id[u],
         NEW v \in Rows, NEW n \in Nat, Linked(u, v, n)
  PROVE  Linked(u, v, n)'
BY DEF Linked, Committed

\* The chains are as they were.
LEMMA LinkQuiet ==
  ASSUME DataTyped, LinkInv, chain' = chain,
         \A u \in Txns : \A v \in Rows : \A n \in Nat : Linked(u, v, n) => Linked(u, v, n)'
  PROVE  LinkInv'
BY InfoTypes DEF LinkInv

\* Who has not started yet has nothing in his undo buffer.
LEMMA NewIsEmpty ==
  ASSUME IInv, ManagerTyped, ActiveInv, PlaceInv, HomeInv, NEW t \in Txns, pc[t] = "new"
  PROVE  undo[t] = <<>>
<1>1. t \notin active  BY DEF ActiveInv, Live
<1>2. t \notin ToSet(recently)  BY RecentIs DEF EndedPcs
<1>3. t \notin ToSet(work.txns) /\ \A i \in DOMAIN cleanup_queue : t \notin InQueue(i)
  BY DEF PlaceInv, EndedPcs
<1> QED BY <1>1, <1>2, <1>3 DEF HomeInv

\* Steps of t that leave the chains alone: what matters is t's own entries.
LEMMA LinkOwn ==
  ASSUME DataTyped, LinkInv, chain' = chain, NEW t \in Txns,
         \A u \in Txns \ {t} : /\ undo'[u] = undo[u] /\ pc'[u] = pc[u] /\ done'[u] = done[u]
                               /\ commit_id'[u] = commit_id[u] /\ transaction_id'[u] = transaction_id[u],
         \A v \in Rows : \A n \in Nat : Linked(t, v, n) => Linked(t, v, n)'
  PROVE  LinkInv'
<1>1. ASSUME NEW u \in Txns, NEW v \in Rows, NEW n \in Nat, Linked(u, v, n) PROVE Linked(u, v, n)'
  <2>1. CASE u = t  BY <1>1, <2>1
  <2>2. CASE u # t  BY <1>1, <2>2, LinkedFrame
  <2> QED BY <2>1, <2>2
<1> QED BY <1>1, LinkQuiet

\* A transaction that only moves on, and may have recorded something.
LEMMA LinkMoves ==
  ASSUME IInv, DataTyped, TxnTyped, DoneInv, LinkInv, chain' = chain, NEW t \in Txns, NEW l \in Pcs,
         NEW kinds, Recorded(t, kinds), pc' = [pc EXCEPT ![t] = l],
         commit_id' = commit_id, transaction_id' = transaction_id,
         pc[t] \in EarlyPcs \ {"new", "rollback"}, l \in EarlyPcs \ {"new"},
         IF l = "rollback" THEN done' = [done EXCEPT ![t] = Len(undo'[t])] ELSE done' = done
  PROVE  LinkInv'
<1>1. /\ \A u \in Txns : u # t => undo'[u] = undo[u]
      /\ Len(undo[t]) \in Nat /\ Len(undo'[t]) \in {Len(undo[t]), Len(undo[t]) + 1}
      /\ DOMAIN undo[t] = 1 .. Len(undo[t]) /\ DOMAIN undo'[t] = 1 .. Len(undo'[t])
      /\ \A i \in DOMAIN undo[t] : undo'[t][i] = undo[t][i]
  BY RecordedIs
<1>2. \A u \in Txns : pc'[u] = IF u = t THEN l ELSE pc[u]  BY DEF IInv, Typed
<1>3. /\ \A u \in Txns \ {t} : done'[u] = done[u]
      /\ l = "rollback" => done'[t] = Len(undo'[t])
  BY DEF TxnTyped
<1>4. ASSUME NEW v \in Rows, NEW n \in Nat, Linked(t, v, n) PROVE Linked(t, v, n)'
  <2>1. PICK j \in DOMAIN undo[t] : /\ undo[t][j] = [kind |-> "update", at |-> v, rows |-> {}]
                                    /\ n = transaction_id[t]
    BY <1>4 DEF Linked
  <2>2. j \in DOMAIN undo'[t] /\ undo'[t][j] = [kind |-> "update", at |-> v, rows |-> {}]
    BY <1>1, <2>1
  <2>3. l = "rollback" => j <= done'[t]  BY <1>1, <1>3, <2>2
  <2> QED BY <1>2, <2>1, <2>2, <2>3 DEF Linked, EarlyPcs, EndedPcs, StampedPcs
<1> QED BY <1>1, <1>2, <1>3, <1>4, LinkOwn

\* A commit gets its timestamp: none of its entries has it yet.
LEMMA LinkStamped ==
  ASSUME IInv, DataTyped, TxnTyped, DoneInv, LinkInv, chain' = chain, NEW t \in Txns,
         NEW kinds, Recorded(t, kinds), pc' = [pc EXCEPT ![t] = "commit"],
         commit_id' = [commit_id EXCEPT ![t] = clock], transaction_id' = transaction_id,
         pc[t] \in {"running", "written"}, done' = done
  PROVE  LinkInv'
<1>1. /\ \A u \in Txns : u # t => undo'[u] = undo[u]
      /\ Len(undo[t]) \in Nat /\ Len(undo'[t]) \in {Len(undo[t]), Len(undo[t]) + 1}
      /\ DOMAIN undo[t] = 1 .. Len(undo[t]) /\ DOMAIN undo'[t] = 1 .. Len(undo'[t])
      /\ \A i \in DOMAIN undo[t] : undo'[t][i] = undo[t][i]
  BY RecordedIs
<1>2. \A u \in Txns : /\ pc'[u] = IF u = t THEN "commit" ELSE pc[u]
                      /\ commit_id'[u] = IF u = t THEN clock ELSE commit_id[u]
  BY DEF IInv, Typed
<1>3. done'[t] = 0  BY DEF DoneInv
<1>4. ASSUME NEW v \in Rows, NEW n \in Nat, Linked(t, v, n) PROVE Linked(t, v, n)'
  <2>1. PICK j \in DOMAIN undo[t] : undo[t][j] = [kind |-> "update", at |-> v, rows |-> {}]
    BY <1>4 DEF Linked
  <2>2. /\ j \in DOMAIN undo'[t] /\ undo'[t][j] = [kind |-> "update", at |-> v, rows |-> {}]
        /\ j > done'[t]
    BY <1>1, <1>3, <2>1
  <2> QED BY <1>2, <2>2 DEF Linked, EarlyPcs, EndedPcs, StampedPcs
<1> QED BY <1>1, <1>2, <1>4, LinkOwn

\* The steps that leave the chains and the entries alone.
LEMMA LinkPlaces ==
  ASSUME IInv, DataTyped, TxnTyped, ManagerTyped, DoneInv, ActiveInv, StampInv, PlaceInv, HomeInv,
         LinkInv, NEW t \in Txns,
         \/ Start(t) \/ CommitDone(t) \/ Leave(t) \/ PopCleanup(t) \/ StartCheckpoint(t)
         \/ FinishCheckpoint(t)
  PROVE  LinkInv'
<1> USE DEF managerVars, lockVars, listVars, checkpointVars, versionVars, updateVars
<1>0. pc \in [Txns -> Pcs] /\ Len(undo[t]) \in Nat /\ DOMAIN undo[t] = 1 .. Len(undo[t])
  BY DEF IInv, Typed, DataTyped
<1>1. CASE Start(t)
  <2>1. undo[t] = <<>>  BY <1>1, NewIsEmpty DEF Start
  <2>2. \A v \in Rows : \A n \in Nat : ~Linked(t, v, n)  BY <2>1 DEF Linked
  <2>3. /\ chain' = chain
        /\ \A u \in Txns \ {t} : /\ undo'[u] = undo[u] /\ pc'[u] = pc[u] /\ done'[u] = done[u]
                                 /\ commit_id'[u] = commit_id[u] /\ transaction_id'[u] = transaction_id[u]
    BY <1>0, <1>1 DEF Start, Goto, TxnTyped
  <2> QED BY <2>2, <2>3, LinkOwn
<1>2. CASE CommitDone(t)
  <2>1. /\ UNCHANGED <<chain, undo, done, commit_id, transaction_id>> /\ done[t] = Len(undo[t])
        /\ \A u \in Txns : pc'[u] = IF u = t THEN "remove" ELSE pc[u]
        /\ pc[t] = "commit"
    BY <1>0, <1>2 DEF CommitDone, Goto
  <2>2. ASSUME NEW v \in Rows, NEW n \in Nat, Linked(t, v, n) PROVE Linked(t, v, n)'
    BY <1>0, <2>1, <2>2 DEF Linked, EarlyPcs, EndedPcs, StampedPcs
  <2> QED BY <2>1, <2>2, LinkOwn
<1>3. CASE Leave(t)
  <2>1. /\ UNCHANGED <<chain, undo, commit_id>>
        /\ \A u \in Txns : /\ pc'[u] = IF u = t THEN "cleanup" ELSE pc[u]
                           /\ done'[u] = IF u = t THEN 0 ELSE done[u]
        /\ \A u \in Txns \ {t} : transaction_id'[u] = transaction_id[u]
        /\ pc[t] = "remove" \/ (pc[t] = "rollback" /\ done[t] = 0)
    BY <1>0, <1>3 DEF Leave, Goto, TxnTyped
  <2>2. ASSUME NEW v \in Rows, NEW n \in Nat, Linked(t, v, n) PROVE Linked(t, v, n)'
    <3>1. pc[t] = "remove"
      BY <1>0, <2>1, <2>2 DEF Linked
    <3>2. commit_id[t] # 0  BY <3>1 DEF StampInv, StampedPcs
    <3>3. PICK j \in DOMAIN undo[t] : undo[t][j] = [kind |-> "update", at |-> v, rows |-> {}] /\ n = commit_id[t]
      BY <2>2, <3>1 DEF Linked, StampedPcs
    <3>4. j > 0  BY <1>0
    <3> QED BY <2>1, <3>2, <3>3, <3>4 DEF Linked, Committed, EarlyPcs, EndedPcs, StampedPcs
  <2> QED BY <2>1, <2>2, LinkOwn
<1>4. CASE PopCleanup(t) \/ StartCheckpoint(t) \/ FinishCheckpoint(t)
  <2>1. /\ UNCHANGED <<chain, undo, done, commit_id, transaction_id>>
        /\ \A u \in Txns \ {t} : pc'[u] = pc[u]
        /\ pc[t] \in EndedPcs /\ pc'[t] \in EndedPcs
    BY <1>0, <1>4 DEF PopCleanup, StartCheckpoint, FinishCheckpoint, AfterCleanup, Goto, EndedPcs
  <2>2. ASSUME NEW v \in Rows, NEW n \in Nat, Linked(t, v, n) PROVE Linked(t, v, n)'
    BY <2>1, <2>2 DEF Linked, Committed, EarlyPcs, EndedPcs, StampedPcs
  <2> QED BY <2>1, <2>2, LinkOwn
<1> QED BY <1>1, <1>2, <1>3, <1>4

\* The clean-up destroys transactions none of which is linked any more.
LEMMA LinkDestroyed ==
  ASSUME IInv, DataTyped, TxnTyped, ManagerTyped, PlaceInv, LinkInv, NEW t \in Txns, CleanupDone(t)
  PROVE  LinkInv'
<1>0. pc \in [Txns -> Pcs] /\ \A u \in Txns : Len(undo[u]) \in Nat /\ DOMAIN undo[u] = 1 .. Len(undo[u])
  BY DEF IInv, Typed, DataTyped
<1>1. /\ chain' = chain /\ UNCHANGED <<done, commit_id, transaction_id>> /\ Unclean = {}
      /\ \A u \in Txns : undo'[u] = IF u \in ToSet(work.txns) THEN <<>> ELSE undo[u]
      /\ \A u \in Txns \ {t} : pc'[u] = pc[u]
      /\ pc[t] \in EndedPcs /\ pc'[t] \in EndedPcs
  BY <1>0 DEF CleanupDone, AfterCleanup, Goto, EndedPcs, updateVars
<1>2. ASSUME NEW u \in Txns, NEW v \in Rows, NEW n \in Nat, Linked(u, v, n) PROVE Linked(u, v, n)'
  <2>1. CASE u \in ToSet(work.txns)
    <3>1. PICK i \in DOMAIN work.txns : work.txns[i] = u  BY <2>1 DEF ToSet
    <3>2. ~(Committed(u) /\ done[u] < Len(undo[u]))
      <4>1. i \notin Unclean  BY <1>1
      <4> QED BY <3>1, <4>1 DEF Unclean
    <3>3. pc[u] \in EndedPcs  BY <2>1 DEF PlaceInv
    <3>4. done[u] \in Nat  BY DEF TxnTyped
    <3> QED BY <1>0, <1>2, <3>2, <3>3, <3>4 DEF Linked
  <2>2. CASE u \notin ToSet(work.txns)
    <3>1. undo'[u] = undo[u]  BY <1>1, <2>2
    <3>2. pc'[u] = pc[u] \/ (pc[u] \in EndedPcs /\ pc'[u] \in EndedPcs)  BY <1>1
    <3> QED BY <1>1, <1>2, <3>1, <3>2 DEF Linked, Committed, EarlyPcs, EndedPcs, StampedPcs
  <2> QED BY <2>1, <2>2
<1> QED BY <1>1, <1>2, LinkQuiet

\* What holds of an UpdateInfo by its owner and version.
LEMMA LinkedAs ==
  ASSUME NEW v, NEW i, NEW w, NEW m, w = chain'[v][i].owner, m = chain'[v][i].version,
         Linked(w, v, m)'
  PROVE  Linked(chain[v][i].owner, v, chain[v][i].version)'
BY DEF Linked, Committed

\* The UpdateInfos of t in some chains get an id, all keep their places.
LEMMA LinkRenamed ==
  ASSUME DataTyped, LinkInv, NEW t \in Txns, NEW id \in Nat, NEW V \in SUBSET Rows,
         \A v \in Rows : chain'[v] = IF v \in V THEN Renamed(chain[v], t, id) ELSE chain[v],
         \A u \in Txns : \A v \in Rows : \A n \in Nat :
           Linked(u, v, n) => IF u = t /\ v \in V THEN Linked(u, v, id)' ELSE Linked(u, v, n)'
  PROVE  LinkInv'
<1>1. ASSUME NEW v \in Rows
      PROVE  /\ DOMAIN chain'[v] = DOMAIN chain[v]
             /\ \A i \in DOMAIN chain[v] :
                  /\ chain'[v][i].owner = chain[v][i].owner
                  /\ chain'[v][i].version = IF v \in V /\ chain[v][i].owner = t THEN id
                                            ELSE chain[v][i].version
  <2>1. chain[v] \in Seq(Infos)  BY DEF DataTyped
  <2>2. CASE v \in V
    <3>1. chain'[v] = Renamed(chain[v], t, id)  BY <2>2
    <3>2. /\ DOMAIN Renamed(chain[v], t, id) = DOMAIN chain[v]
          /\ \A i \in DOMAIN chain[v] :
              /\ Renamed(chain[v], t, id)[i].owner = chain[v][i].owner
              /\ Renamed(chain[v], t, id)[i].version = IF chain[v][i].owner = t THEN id ELSE chain[v][i].version
      BY <2>1, RenamedIs
    <3> QED BY <2>2, <3>1, <3>2
  <2>3. CASE v \notin V
    <3>1. chain'[v] = chain[v]  BY <2>3
    <3> QED BY <2>3, <3>1
  <2> QED BY <2>2, <2>3
<1>2. ASSUME NEW v \in Rows, NEW i \in DOMAIN chain'[v]
      PROVE  /\ Linked(chain[v][i].owner, v, chain[v][i].version)'
             /\ \A k \in DOMAIN chain'[v] : chain'[v][k].owner = chain'[v][i].owner => k = i
  <2> DEFINE u == chain[v][i].owner
             n == chain[v][i].version
  <2>1. i \in DOMAIN chain[v]  BY <1>1
  <2>2. Linked(u, v, n) /\ \A k \in DOMAIN chain[v] : chain[v][k].owner = u => k = i
    BY <2>1 DEF LinkInv
  <2>3. u \in Txns /\ n \in Nat  BY <2>1, InfoTypes
  <2>4. /\ chain'[v][i].owner = u /\ chain'[v][i].version = IF v \in V /\ u = t THEN id ELSE n
        /\ \A k \in DOMAIN chain'[v] : k \in DOMAIN chain[v] /\ chain'[v][k].owner = chain[v][k].owner
    BY <1>1, <2>1
  <2>5. PICK w \in Txns, m \in Nat : w = u /\ m = n  BY <2>3
  <2>6. Linked(w, v, m)  BY <2>2, <2>5
  <2>7. CASE v \in V /\ w = t
    <3>1. Linked(w, v, id)'  BY <2>6, <2>7
    <3>2. w = chain'[v][i].owner /\ id = chain'[v][i].version  BY <2>4, <2>5, <2>7
    <3>3. Linked(chain[v][i].owner, v, chain[v][i].version)'  BY <3>1, <3>2, LinkedAs
    <3> QED BY <2>2, <2>4, <3>3
  <2>8. CASE ~(v \in V /\ w = t)
    <3>1. Linked(w, v, m)'  BY <2>6, <2>8
    <3>2. w = chain'[v][i].owner /\ m = chain'[v][i].version  BY <2>4, <2>5, <2>8
    <3>3. Linked(chain[v][i].owner, v, chain[v][i].version)'  BY <3>1, <3>2, LinkedAs
    <3> QED BY <2>2, <2>4, <3>3
  <2> QED BY <2>7, <2>8
<1> QED BY <1>2 DEF LinkInv

\* The UpdateInfo of t is taken out of one chain, the others move up.
LEMMA LinkUnlinked ==
  ASSUME DataTyped, LinkInv, NEW t \in Txns, NEW at \in Rows, Unlink(at, t),
         \A u \in Txns : \A v \in Rows : \A n \in Nat :
           Linked(u, v, n) /\ ~(u = t /\ v = at) => Linked(u, v, n)'
  PROVE  LinkInv'
<1>1. PICK i0 \in DOMAIN chain[at] :
              /\ chain[at][i0].owner = t
              /\ DOMAIN chain'[at] = 1 .. Len(chain[at]) - 1
              /\ \A k \in DOMAIN chain'[at] : LET k1 == IF k < i0 THEN k ELSE k + 1
                                              IN  k1 \in DOMAIN chain[at] /\ k1 # i0
                                                  /\ chain'[at][k] = chain[at][k1]
  BY UnlinkIs
<1>2. \A w \in Rows : w # at => chain'[w] = chain[w]  BY UnlinkIs
<1>3. i0 \in Nat /\ Len(chain[at]) \in Nat
  <2>1. chain[at] \in Seq(Infos)  BY DEF DataTyped
  <2> QED BY <2>1
<1>4. ASSUME NEW v \in Rows, NEW i \in DOMAIN chain'[v]
      PROVE  /\ Linked(chain[v][i].owner, v, chain[v][i].version)'
             /\ \A k \in DOMAIN chain'[v] : chain'[v][k].owner = chain'[v][i].owner => k = i
  <2>1. CASE v # at
    <3>1. chain'[v] = chain[v]  BY <1>2, <2>1
    <3>2. /\ Linked(chain[v][i].owner, v, chain[v][i].version)
          /\ \A k \in DOMAIN chain[v] : chain[v][k].owner = chain[v][i].owner => k = i
          /\ chain[v][i].owner \in Txns /\ chain[v][i].version \in Nat
      BY <3>1, InfoTypes DEF LinkInv
    <3>3. \A w \in Txns, m \in Nat : w = chain[v][i].owner /\ m = chain[v][i].version => Linked(w, v, m)'
      BY <2>1, <3>2
    <3>4. Linked(chain[v][i].owner, v, chain[v][i].version)'
      BY <3>1, <3>2, <3>3 DEF Linked, Committed
    <3> QED BY <3>1, <3>2, <3>4
  <2>2. CASE v = at
    <3> DEFINE up(k) == IF k < i0 THEN k ELSE k + 1
    <3>1. \A k \in DOMAIN chain'[at] : up(k) \in DOMAIN chain[at] /\ up(k) # i0 /\ chain'[at][k] = chain[at][up(k)]
      BY <1>1
    <3>2. \A k, m \in DOMAIN chain'[at] : up(k) = up(m) => k = m
      BY <1>1, <1>3
    <3>3. ASSUME NEW k \in DOMAIN chain'[at]
          PROVE  /\ chain[at][up(k)].owner \in Txns /\ chain[at][up(k)].version \in Nat
                 /\ Linked(chain[at][up(k)].owner, at, chain[at][up(k)].version)
                 /\ \A m \in DOMAIN chain[at] : chain[at][m].owner = chain[at][up(k)].owner => m = up(k)
      <4>1. up(k) \in DOMAIN chain[at]  BY <3>1
      <4> HIDE DEF up
      <4> QED BY <4>1, InfoTypes DEF LinkInv
    <3> HIDE DEF up
    <3>4. chain'[at][i].owner # t
      <4>1. up(i) # i0 /\ chain'[at][i] = chain[at][up(i)]  BY <2>2, <3>1
      <4> QED BY <1>1, <2>2, <3>3, <4>1
    <3>5. PICK w \in Txns, m \in Nat :
            w = chain'[v][i].owner /\ m = chain'[v][i].version /\ Linked(w, at, m)
      BY <2>2, <3>1, <3>3
    <3>6. Linked(chain[v][i].owner, v, chain[v][i].version)'
      <4>1. w # t  BY <2>2, <3>4, <3>5
      <4>2. Linked(w, v, m)'  BY <2>2, <3>5, <4>1
      <4> QED BY <3>5, <4>2, LinkedAs
    <3>7. ASSUME NEW k \in DOMAIN chain'[at], chain'[at][k].owner = chain'[at][i].owner PROVE k = i
      <4>1. up(k) = up(i)  BY <2>2, <3>1, <3>3, <3>7
      <4> QED BY <2>2, <3>2, <4>1
    <3> QED BY <2>2, <3>6, <3>7
  <2> QED BY <2>1, <2>2
<1> QED BY <1>4 DEF LinkInv

\* An update puts an UpdateInfo in front, with an entry in the undo buffer.
LEMMA LinkUpdate ==
  ASSUME IInv, DataTyped, TxnTyped, DoneInv, LinkInv, NEW t \in Txns, Update(t)
  PROVE  LinkInv'
<1>0. /\ pc[t] = "running" /\ (pc' = pc \/ pc' = [pc EXCEPT ![t] = "failed"])
      /\ Recorded(t, {"update"}) /\ UNCHANGED <<commit_id, transaction_id, done>>
  BY UpdateFrame
<1>1. PICK r \in Seen(t) : \E rows \in SUBSET {x \in Seen(t) : Vec(x) = Vec(r)} :
         IF Conflicts(t, Vec(r), rows) THEN Goto(t, "failed") /\ UNCHANGED <<updateVars, undo>>
         ELSE MergeUpdate(t, Vec(r), rows) /\ UNCHANGED pc
  BY DEF Update
<1>2. Seen(t) \subseteq Rows /\ Vec(r) \in Rows  BY RowVecs DEF Seen
<1>3. CASE Goto(t, "failed") /\ UNCHANGED <<updateVars, undo>>
  <2>1. chain' = chain /\ pc' = [pc EXCEPT ![t] = "failed"]  BY <1>3 DEF updateVars, Goto
  <2> QED BY <1>0, <2>1, LinkMoves DEF EarlyPcs, Pcs
<1>4. ASSUME NEW rows \in SUBSET {x \in Seen(t) : Vec(x) = Vec(r)}, MergeUpdate(t, Vec(r), rows),
             UNCHANGED pc
      PROVE  LinkInv'
  <2>1. rows \in SUBSET Rows  BY <1>2
  <2>2. PICK v0 \in Rows : MergeUpdate(t, v0, rows)  BY <1>2, <1>4
  <2>3. /\ \A w \in Rows : w # v0 => chain'[w] = chain[w]
        /\ \/ /\ UNCHANGED undo
              /\ DOMAIN chain'[v0] = DOMAIN chain[v0]
              /\ \A i \in DOMAIN chain[v0] : /\ chain'[v0][i].owner = chain[v0][i].owner
                                             /\ chain'[v0][i].version = chain[v0][i].version
           \/ /\ \A i \in DOMAIN chain[v0] : chain[v0][i].version # transaction_id[t]
              /\ Record(t, [kind |-> "update", at |-> v0, rows |-> {}])
              /\ DOMAIN chain'[v0] = 1 .. Len(chain[v0]) + 1
              /\ chain'[v0][1].owner = t /\ chain'[v0][1].version = transaction_id[t]
              /\ \A i \in DOMAIN chain[v0] : chain'[v0][i + 1] = chain[v0][i]
    BY <2>1, <2>2, MergeUpdateIs
  <2>4. /\ \A u \in Txns : u # t => undo'[u] = undo[u]
        /\ DOMAIN undo[t] = 1 .. Len(undo[t]) /\ DOMAIN undo'[t] = 1 .. Len(undo'[t])
        /\ Len(undo[t]) \in Nat /\ Len(undo'[t]) \in {Len(undo[t]), Len(undo[t]) + 1}
        /\ \A i \in DOMAIN undo[t] : undo'[t][i] = undo[t][i]
    BY <1>0, RecordedIs
  <2>5. ASSUME NEW u \in Txns, NEW v \in Rows, NEW n \in Nat, Linked(u, v, n) PROVE Linked(u, v, n)'
    <3>1. PICK j \in DOMAIN undo[u] :
        /\ undo[u][j] = [kind |-> "update", at |-> v, rows |-> {}]
        /\ pc[u] = "rollback" => j <= done[u]
        /\ pc[u] \in EndedPcs => Committed(u) /\ j > done[u]
        /\ pc[u] \in StampedPcs \union EndedPcs =>
             n = commit_id[u] \/ (pc[u] = "commit" /\ j > done[u])
        /\ pc[u] \in EarlyPcs => n = transaction_id[u]
      BY <2>5 DEF Linked
    <3>2. j \in DOMAIN undo'[u] /\ undo'[u][j] = undo[u][j]  BY <2>4, <3>1
    <3> QED BY <1>0, <1>4, <3>1, <3>2 DEF Linked, Committed
  <2>6. ASSUME NEW v \in Rows, NEW i \in DOMAIN chain'[v]
        PROVE  /\ Linked(chain[v][i].owner, v, chain[v][i].version)'
               /\ \A k \in DOMAIN chain'[v] : chain'[v][k].owner = chain'[v][i].owner => k = i
    <3>1. ASSUME NEW k \in DOMAIN chain[v], chain'[v][i].owner = chain[v][k].owner,
                 chain'[v][i].version = chain[v][k].version
          PROVE  Linked(chain[v][i].owner, v, chain[v][i].version)'
      <4>1. /\ Linked(chain[v][k].owner, v, chain[v][k].version)
            /\ chain[v][k].owner \in Txns /\ chain[v][k].version \in Nat
        BY InfoTypes DEF LinkInv
      <4>2. PICK w \in Txns, m \in Nat : w = chain[v][k].owner /\ m = chain[v][k].version /\ Linked(w, v, m)
        BY <4>1
      <4>3. Linked(w, v, m)'  BY <2>5, <4>2
      <4>4. w = chain'[v][i].owner /\ m = chain'[v][i].version  BY <3>1, <4>2
      <4> QED BY <4>3, <4>4, LinkedAs
    <3>2. CASE /\ DOMAIN chain'[v] = DOMAIN chain[v]
               /\ \A k \in DOMAIN chain[v] : /\ chain'[v][k].owner = chain[v][k].owner
                                             /\ chain'[v][k].version = chain[v][k].version
      BY <3>1, <3>2 DEF LinkInv
    <3>3. CASE v = v0 /\ Record(t, [kind |-> "update", at |-> v0, rows |-> {}])
      <4>1. /\ \A k \in DOMAIN chain[v0] : chain[v0][k].version # transaction_id[t]
            /\ DOMAIN chain'[v0] = 1 .. Len(chain[v0]) + 1 /\ Len(chain[v0]) \in Nat
            /\ DOMAIN chain[v0] = 1 .. Len(chain[v0])
            /\ chain'[v0][1].owner = t /\ chain'[v0][1].version = transaction_id[t]
            /\ \A k \in DOMAIN chain[v0] : chain'[v0][k + 1] = chain[v0][k]
        <5>1. chain[v0] \in Seq(Infos) /\ v0 \in Rows  BY <2>2 DEF DataTyped
        <5>2. undo' # undo
          <6>1. [kind |-> "update", at |-> v0, rows |-> {}] \in Records
            BY <2>2, ConstantTypes DEF Records
          <6>2. Len(undo'[t]) = Len(undo[t]) + 1 /\ Len(undo[t]) \in Nat
            BY <3>3, <6>1, RecordIs
          <6> QED BY <6>2
        <5> QED BY <2>3, <5>1, <5>2
      <4>2. \A k \in DOMAIN chain[v0] : chain[v0][k].owner # t
        <5> SUFFICES ASSUME NEW k \in DOMAIN chain[v0], chain[v0][k].owner = t PROVE FALSE
          OBVIOUS
        <5>1. Linked(t, v0, chain[v0][k].version)  BY <2>2 DEF LinkInv
        <5> QED BY <1>0, <4>1, <5>1 DEF Linked, EarlyPcs
      <4>3. \A k \in DOMAIN chain'[v0] : k = 1 \/ (k - 1 \in DOMAIN chain[v0] /\ chain'[v0][k] = chain[v0][k - 1])
        <5> SUFFICES ASSUME NEW k \in DOMAIN chain'[v0], k # 1
                     PROVE  k - 1 \in DOMAIN chain[v0] /\ chain'[v0][k] = chain[v0][k - 1]
          OBVIOUS
        <5>1. k - 1 \in DOMAIN chain[v0] /\ (k - 1) + 1 = k  BY <4>1
        <5> QED BY <4>1, <5>1
      <4>4. CASE i = 1
        <5>1. [kind |-> "update", at |-> v0, rows |-> {}] \in Records
          BY <2>2, ConstantTypes DEF Records
        <5>2. /\ DOMAIN undo'[t] = 1 .. Len(undo[t]) + 1 /\ Len(undo[t]) \in Nat
              /\ undo'[t][Len(undo[t]) + 1] = [kind |-> "update", at |-> v0, rows |-> {}]
          BY <3>3, <5>1, RecordIs
        <5>3. Len(undo[t]) + 1 \in DOMAIN undo'[t]  BY <5>2
        <5>4. PICK m \in Nat : m = transaction_id[t]  BY DEF TxnTyped
        <5>5. Linked(t, v0, m)'
          <6>1. pc'[t] = "running" /\ transaction_id'[t] = m  BY <1>0, <1>4, <5>4
          <6> QED BY <5>2, <5>3, <6>1 DEF Linked, EarlyPcs, EndedPcs, StampedPcs
        <5>6. Linked(chain[v][i].owner, v, chain[v][i].version)'
          <6>1. t = chain'[v][i].owner /\ m = chain'[v][i].version  BY <3>3, <4>1, <4>4, <5>4
          <6>2. Linked(t, v, m)'  BY <3>3, <5>5
          <6> QED BY <6>1, <6>2, LinkedAs
        <5>7. \A k \in DOMAIN chain'[v] : chain'[v][k].owner = chain'[v][i].owner => k = i
          BY <3>3, <4>1, <4>2, <4>3, <4>4
        <5> QED BY <5>6, <5>7
      <4>5. CASE i # 1
        <5>1. i - 1 \in DOMAIN chain[v] /\ chain'[v][i] = chain[v][i - 1]  BY <3>3, <4>3, <4>5
        <5>2. Linked(chain[v][i].owner, v, chain[v][i].version)'  BY <3>1, <5>1
        <5>3. ASSUME NEW k \in DOMAIN chain'[v], chain'[v][k].owner = chain'[v][i].owner PROVE k = i
          <6>1. k # 1  BY <3>3, <4>1, <4>2, <5>1, <5>3
          <6>2. k - 1 \in DOMAIN chain[v] /\ chain'[v][k] = chain[v][k - 1]  BY <3>3, <4>3, <6>1
          <6>3. k - 1 = i - 1  BY <5>1, <5>3, <6>2 DEF LinkInv
          <6>4. k \in Nat /\ i \in Nat  BY <3>3, <4>1
          <6> QED BY <6>3, <6>4
        <5> QED BY <5>2, <5>3
      <4> QED BY <4>4, <4>5
    <3> QED BY <2>3, <3>2, <3>3
  <2> QED BY <2>6 DEF LinkInv
<1> QED BY <1>1, <1>3, <1>4

\* The indices of a transaction's undo entries.
LEMMA EntryIndex ==
  ASSUME DataTyped, TxnTyped, NEW u \in Txns
  PROVE  /\ done[u] \in Nat /\ Len(undo[u]) \in Nat /\ DOMAIN undo[u] = 1 .. Len(undo[u])
         /\ \A j \in DOMAIN undo[u] : j \in Nat /\ j > 0 /\ j <= Len(undo[u])
<1>1. undo[u] \in Seq(Records) /\ done[u] \in Nat  BY DEF DataTyped, TxnTyped
<1> QED BY <1>1

\* A commit gives the UpdateInfo of one entry its timestamp.
LEMMA LinkCommitEntry ==
  ASSUME IInv, DataTyped, TxnTyped, LinkInv, NEW t \in Txns, CommitEntry(t)
  PROVE  LinkInv'
<1> DEFINE rec == undo[t][done[t] + 1]
<1>1. /\ pc[t] = "commit" /\ done[t] < Len(undo[t]) /\ Mark(t, rec, commit_id[t])
      /\ UNCHANGED <<pc, undo, commit_id, transaction_id>>
      /\ \A u \in Txns : done'[u] = IF u = t THEN done[t] + 1 ELSE done[u]
  BY DEF CommitEntry, TxnTyped
<1>2. done[t] + 1 \in DOMAIN undo[t] /\ done[t] \in Nat  BY <1>1, EntryIndex
<1>3. rec \in Records  BY <1>1, <1>2, EntryTyped
<1>4. ASSUME NEW v \in Rows, NEW n \in Nat, Linked(t, v, n),
             ~(rec.kind = "update" /\ rec.at = v)
      PROVE  Linked(t, v, n)'
  <2>1. PICK j \in DOMAIN undo[t] :
              /\ undo[t][j] = [kind |-> "update", at |-> v, rows |-> {}]
              /\ n = commit_id[t] \/ j > done[t]
    BY <1>1, <1>4 DEF Linked, StampedPcs
  <2>2. undo[t][j].kind = "update" /\ undo[t][j].at = v  BY <2>1
  <2>3. j # done[t] + 1  BY <1>4, <2>2
  <2>4. n = commit_id[t] \/ j > done[t] + 1  BY <1>2, <2>1, <2>3, EntryIndex
  <2>5. /\ pc'[t] = "commit" /\ undo'[t] = undo[t] /\ commit_id'[t] = commit_id[t]
        /\ done'[t] = done[t] + 1
    BY <1>1
  <2> QED BY <2>1, <2>4, <2>5 DEF Linked, EarlyPcs, EndedPcs, StampedPcs
<1>5. CASE rec.kind = "update"
  <2>1. PICK at \in Rows, id \in Nat : at = rec.at /\ id = commit_id[t]
    BY <1>3, <1>5 DEF Records, IInv, Typed
  <2> PICK V \in SUBSET Rows : V = {at}  OBVIOUS
  <2>2. \A v \in Rows : chain'[v] = IF v \in V THEN Renamed(chain[v], t, id) ELSE chain[v]
    BY <1>1, <1>5, <2>1 DEF Mark, DataTyped
  <2>3. ASSUME NEW u \in Txns, NEW v \in Rows, NEW n \in Nat, Linked(u, v, n)
        PROVE  IF u = t /\ v \in V THEN Linked(u, v, id)' ELSE Linked(u, v, n)'
    <3>1. CASE u # t
      <4>1. Linked(u, v, n)'  BY <1>1, <2>3, <3>1, LinkedFrame
      <4> QED BY <3>1, <4>1
    <3>2. CASE u = t /\ v = at
      <4>1. PICK j \in DOMAIN undo[t] : undo[t][j] = [kind |-> "update", at |-> v, rows |-> {}]
        BY <2>3, <3>2 DEF Linked
      <4>2. pc'[t] = "commit" /\ undo'[t] = undo[t] /\ id = commit_id'[t]
        BY <1>1, <2>1
      <4>3. Linked(t, v, id)'  BY <4>1, <4>2 DEF Linked, EarlyPcs, EndedPcs, StampedPcs
      <4> QED BY <3>2, <4>3
    <3>3. CASE u = t /\ v # at
      <4>1. Linked(t, v, n)'  BY <1>4, <2>1, <2>3, <3>3
      <4> QED BY <3>3, <4>1
    <3> QED BY <3>1, <3>2, <3>3
  <2> QED BY <2>2, <2>3, LinkRenamed
<1>6. CASE rec.kind # "update"
  <2>1. chain' = chain  BY <1>1, <1>6 DEF Mark
  <2>2. \A v \in Rows : \A n \in Nat : Linked(t, v, n) => Linked(t, v, n)'  BY <1>4, <1>6
  <2> QED BY <1>1, <2>1, <2>2, LinkOwn
<1> QED BY <1>5, <1>6

\* A failed flush gives all UpdateInfos of the transaction its id again.
LEMMA LinkFlushFails ==
  ASSUME IInv, DataTyped, TxnTyped, LinkInv, NEW t \in Txns, FlushFails(t)
  PROVE  LinkInv'
<1>1. PICK id \in Nat : id = transaction_id[t]  BY DEF TxnTyped
<1>2. /\ undo' = undo /\ transaction_id' = transaction_id
      /\ chain' = [v \in Rows |-> Renamed(chain[v], t, transaction_id[t])]
      /\ \A u \in Txns : /\ pc'[u] = IF u = t THEN "rollback" ELSE pc[u]
                         /\ commit_id'[u] = IF u = t THEN 0 ELSE commit_id[u]
                         /\ done'[u] = IF u = t THEN Len(undo[t]) ELSE done[u]
  BY DEF FlushFails, GotoRollback, Goto, IInv, Typed, TxnTyped
<1>3. \A v \in Rows : chain'[v] = IF v \in Rows THEN Renamed(chain[v], t, id) ELSE chain[v]
  BY <1>1, <1>2
<1>4. ASSUME NEW u \in Txns, NEW v \in Rows, NEW n \in Nat, Linked(u, v, n)
      PROVE  IF u = t /\ v \in Rows THEN Linked(u, v, id)' ELSE Linked(u, v, n)'
  <2>1. CASE u # t
    <3>1. Linked(u, v, n)'  BY <1>2, <1>4, <2>1, LinkedFrame
    <3> QED BY <2>1, <3>1
  <2>2. CASE u = t
    <3>1. PICK j \in DOMAIN undo[t] : undo[t][j] = [kind |-> "update", at |-> v, rows |-> {}]
      BY <1>4, <2>2 DEF Linked
    <3>2. /\ pc'[t] = "rollback" /\ undo'[t] = undo[t] /\ done'[t] = Len(undo[t])
          /\ j <= Len(undo[t]) /\ id = transaction_id'[t]
      BY <1>1, <1>2, EntryIndex
    <3>3. Linked(t, v, id)'  BY <3>1, <3>2 DEF Linked, EarlyPcs, EndedPcs, StampedPcs
    <3> QED BY <2>2, <3>3
  <2> QED BY <2>1, <2>2
<1> QED BY <1>3, <1>4, LinkRenamed

\* One entry is rolled back, from the last to the first.
LEMMA LinkRollbackEntry ==
  ASSUME IInv, DataTyped, TxnTyped, DoneInv, LinkInv, NEW t \in Txns, RollbackEntry(t)
  PROVE  LinkInv'
<1> DEFINE rec == undo[t][done[t]]
<1>1. /\ pc[t] = "rollback" /\ done[t] > 0 /\ done[t] <= Len(undo[t])
      /\ UNCHANGED <<pc, undo, commit_id, transaction_id>>
      /\ \A u \in Txns : done'[u] = IF u = t THEN done[t] - 1 ELSE done[u]
      /\ \/ rec.kind # "update" /\ UNCHANGED chain
         \/ rec.kind = "update" /\ Unlink(rec.at, t)
  BY DEF RollbackEntry, TxnTyped, DoneInv, updateVars
<1>2. done[t] \in DOMAIN undo[t] /\ done[t] \in Nat  BY <1>1, EntryIndex
<1>3. rec \in Records  BY <1>1, <1>2, EntryTyped
<1>4. ASSUME NEW v \in Rows, NEW n \in Nat, Linked(t, v, n),
             ~(rec.kind = "update" /\ rec.at = v)
      PROVE  Linked(t, v, n)'
  <2>1. PICK j \in DOMAIN undo[t] :
              /\ undo[t][j] = [kind |-> "update", at |-> v, rows |-> {}]
              /\ n = transaction_id[t] /\ j <= done[t]
    BY <1>1, <1>4 DEF Linked, EarlyPcs
  <2>2. undo[t][j].kind = "update" /\ undo[t][j].at = v  BY <2>1
  <2>3. j # done[t]  BY <1>4, <2>2
  <2>4. j <= done[t] - 1  BY <1>2, <2>1, <2>3, EntryIndex
  <2>5. /\ pc'[t] = "rollback" /\ undo'[t] = undo[t] /\ transaction_id'[t] = transaction_id[t]
        /\ done'[t] = done[t] - 1
    BY <1>1
  <2> QED BY <2>1, <2>4, <2>5 DEF Linked, EarlyPcs, EndedPcs, StampedPcs
<1>5. CASE rec.kind = "update"
  <2>1. PICK at \in Rows : at = rec.at  BY <1>3, <1>5 DEF Records
  <2>2. Unlink(at, t)  BY <1>1, <1>5, <2>1
  <2>3. ASSUME NEW u \in Txns, NEW v \in Rows, NEW n \in Nat, Linked(u, v, n), ~(u = t /\ v = at)
        PROVE  Linked(u, v, n)'
    <3>1. CASE u # t  BY <1>1, <2>3, <3>1, LinkedFrame
    <3>2. CASE u = t  BY <1>4, <2>1, <2>3, <3>2
    <3> QED BY <3>1, <3>2
  <2> QED BY <2>2, <2>3, LinkUnlinked
<1>6. CASE rec.kind # "update"
  <2>1. chain' = chain  BY <1>1, <1>6
  <2>2. \A v \in Rows : \A n \in Nat : Linked(t, v, n) => Linked(t, v, n)'  BY <1>4, <1>6
  <2> QED BY <1>1, <2>1, <2>2, LinkOwn
<1> QED BY <1>5, <1>6

\* One entry of a transaction that is over is cleaned up, from the first to the last.
LEMMA LinkCleanupEntry ==
  ASSUME IInv, DataTyped, TxnTyped, ManagerTyped, PlaceInv, LinkInv, NEW t \in Txns, CleanupEntry(t)
  PROVE  LinkInv'
<1>1. PICK w \in ToSet(work.txns) \cap Txns :
           /\ Committed(w) /\ done[w] < Len(undo[w])
           /\ done' = [done EXCEPT ![w] = @ + 1]
           /\ LET rec == undo[w][done[w] + 1]
              IN  /\ rec \in Records
                  /\ \/ rec.kind = "append" /\ CleanupAppend(rec.rows, work.lowest) /\ UNCHANGED chain
                     \/ rec.kind = "update" /\ Unlink(rec.at, w) /\ UNCHANGED inserted
                     \/ rec.kind = "delete" /\ UNCHANGED <<chain, inserted>>
  BY CleanupEntryIs
<1> DEFINE rec == undo[w][done[w] + 1]
<1>2. /\ w \in Txns /\ pc[w] \in EndedPcs /\ rec \in Records
      /\ \/ rec.kind # "update" /\ UNCHANGED chain
         \/ rec.kind = "update" /\ Unlink(rec.at, w)
      /\ UNCHANGED <<pc, undo, commit_id, transaction_id>>
      /\ \A u \in Txns : done'[u] = IF u = w THEN done[w] + 1 ELSE done[u]
  BY <1>1 DEF PlaceInv, CleanupEntry, TxnTyped
<1>4. ASSUME NEW v \in Rows, NEW n \in Nat, Linked(w, v, n),
             ~(rec.kind = "update" /\ rec.at = v)
      PROVE  Linked(w, v, n)'
  <2>1. PICK j \in DOMAIN undo[w] :
              /\ undo[w][j] = [kind |-> "update", at |-> v, rows |-> {}]
              /\ Committed(w) /\ j > done[w] /\ n = commit_id[w]
    BY <1>2, <1>4 DEF Linked, EndedPcs
  <2>2. undo[w][j].kind = "update" /\ undo[w][j].at = v  BY <2>1
  <2>3. j # done[w] + 1  BY <1>4, <2>2
  <2>4. j > done[w] + 1  BY <1>2, <2>1, <2>3, EntryIndex
  <2>5. /\ pc'[w] = pc[w] /\ undo'[w] = undo[w] /\ commit_id'[w] = commit_id[w]
        /\ done'[w] = done[w] + 1
    BY <1>2
  <2> QED BY <1>2, <2>1, <2>4, <2>5 DEF Linked, EarlyPcs, EndedPcs, StampedPcs, Committed
<1>5. CASE rec.kind = "update"
  <2>1. PICK at \in Rows : at = rec.at  BY <1>2, <1>5 DEF Records
  <2>2. Unlink(at, w)  BY <1>2, <1>5, <2>1
  <2>3. ASSUME NEW u \in Txns, NEW v \in Rows, NEW n \in Nat, Linked(u, v, n), ~(u = w /\ v = at)
        PROVE  Linked(u, v, n)'
    <3>1. CASE u # w  BY <1>2, <2>3, <3>1, LinkedFrame
    <3>2. CASE u = w  BY <1>4, <2>1, <2>3, <3>2
    <3> QED BY <3>1, <3>2
  <2> QED BY <1>2, <2>2, <2>3, LinkUnlinked
<1>6. CASE rec.kind # "update"
  <2>1. chain' = chain  BY <1>2, <1>6
  <2>2. \A v \in Rows : \A n \in Nat : Linked(w, v, n) => Linked(w, v, n)'  BY <1>4, <1>6
  <2> QED BY <1>2, <2>1, <2>2, LinkOwn
<1> QED BY <1>5, <1>6

-----------------------------------------------------------------------------
(* CleanInv is an invariant                                                *)

\* What is linked has its entry, whatever t does.
LEMMA LinkKept ==
  ASSUME IInv, DataTyped, TxnTyped, ManagerTyped, DoneInv, ActiveInv, StampInv, PlaceInv, HomeInv,
         LinkInv, NEW t \in Txns, Step(t)
  PROVE  LinkInv'
<1> USE DEF managerVars, lockVars, listVars, checkpointVars, versionVars, updateVars
<1>0. pc \in [Txns -> Pcs]  BY DEF IInv, Typed
<1>p. {"running", "failed", "wal", "written", "rollback"} \subseteq Pcs  BY DEF Pcs
<1>1. CASE \/ Start(t) \/ CommitDone(t) \/ Leave(t) \/ PopCleanup(t) \/ StartCheckpoint(t)
           \/ FinishCheckpoint(t)
  BY <1>1, LinkPlaces
<1>2. CASE Insert(t)
  <2>1. UNCHANGED <<chain, undo, pc, done, commit_id, transaction_id>>  BY <1>2 DEF Insert
  <2>2. ASSUME NEW u \in Txns, NEW v \in Rows, NEW n \in Nat, Linked(u, v, n) PROVE Linked(u, v, n)'
    BY <2>1, <2>2, LinkedFrame
  <2> QED BY <2>1, <2>2, LinkQuiet
<1>3. CASE Delete(t)
  <2>1. /\ pc[t] = "running" /\ (pc' = pc \/ pc' = [pc EXCEPT ![t] = "failed"])
        /\ Recorded(t, {"delete"}) /\ UNCHANGED <<chain, done, commit_id, transaction_id>>
    BY <1>3, DeleteFrame
  <2>2. PICK l \in {"running", "failed"} : pc' = [pc EXCEPT ![t] = l]  BY <1>0, <2>1
  <2> QED BY <1>p, <2>1, <2>2, LinkMoves DEF EarlyPcs
<1>4. CASE Update(t)  BY <1>4, LinkUpdate
<1>5. CASE CommitDirectly(t)
  <2>1. /\ pc[t] = "running" /\ Recorded(t, {"append"}) /\ UNCHANGED <<chain, transaction_id>>
        /\ \/ /\ commit_id' = [commit_id EXCEPT ![t] = clock]
              /\ pc' = [pc EXCEPT ![t] = "commit"] /\ done' = done
           \/ /\ pc' = [pc EXCEPT ![t] = "rollback"] /\ UNCHANGED commit_id
              /\ done' = [done EXCEPT ![t] = Len(undo'[t])]
    BY <1>5, CommitDirectlyFrame
  <2>2. CASE pc' = [pc EXCEPT ![t] = "commit"]
    <3>1. pc'[t] = "commit"  BY <1>0, <2>2
    <3>2. pc' # [pc EXCEPT ![t] = "rollback"]  BY <1>0, <3>1
    <3> QED BY <2>1, <3>2, LinkStamped
  <2>3. CASE pc' # [pc EXCEPT ![t] = "commit"]
    BY <1>p, <2>1, <2>3, LinkMoves DEF EarlyPcs
  <2> QED BY <2>2, <2>3
<1>6. CASE CommitThroughWAL(t)
  <2>1. /\ pc[t] = "running" /\ pc' = [pc EXCEPT ![t] = "wal"] /\ Recorded(t, {})
        /\ UNCHANGED <<chain, done, commit_id, transaction_id>>
    BY <1>6 DEF CommitThroughWAL, Running, Goto, Recorded
  <2> QED BY <1>p, <2>1, LinkMoves DEF EarlyPcs
<1>7. CASE WriteToWAL(t)
  <2>1. /\ pc[t] = "wal" /\ pc' = [pc EXCEPT ![t] = "written"]
        /\ UNCHANGED <<chain, done, commit_id, transaction_id>>
    BY <1>7 DEF WriteToWAL, Goto
  <2>2. Recorded(t, {"append"})  BY <1>7, AppendRecorded DEF WriteToWAL
  <2> QED BY <1>p, <2>1, <2>2, LinkMoves DEF EarlyPcs
<1>8. CASE TakeTimestamp(t)
  <2>1. /\ pc[t] = "written" /\ undo' = undo /\ UNCHANGED <<chain, transaction_id>>
        /\ \/ /\ pc' = [pc EXCEPT ![t] = "rollback"] /\ UNCHANGED commit_id
              /\ done' = [done EXCEPT ![t] = Len(undo[t])]
           \/ /\ pc' = [pc EXCEPT ![t] = "commit"] /\ UNCHANGED done
              /\ commit_id' = [commit_id EXCEPT ![t] = clock]
    BY <1>8, TakeTimestampFrame
  <2>2. Recorded(t, {})  BY <2>1 DEF Recorded
  <2>3. CASE /\ pc' = [pc EXCEPT ![t] = "rollback"] /\ UNCHANGED commit_id
             /\ done' = [done EXCEPT ![t] = Len(undo[t])]
    <3>1. done' = [done EXCEPT ![t] = Len(undo'[t])]  BY <2>1, <2>3
    <3> QED BY <1>p, <2>1, <2>2, <2>3, <3>1, LinkMoves DEF EarlyPcs
  <2>4. CASE /\ pc' = [pc EXCEPT ![t] = "commit"] /\ UNCHANGED done
             /\ commit_id' = [commit_id EXCEPT ![t] = clock]
    BY <2>1, <2>2, <2>4, LinkStamped
  <2> QED BY <2>1, <2>3, <2>4
<1>9. CASE CommitEntry(t)  BY <1>9, LinkCommitEntry
<1>10. CASE FlushFails(t)  BY <1>10, LinkFlushFails
<1>11. CASE Rollback(t)
  <2>1. /\ pc[t] \in {"running", "failed"} /\ pc' = [pc EXCEPT ![t] = "rollback"] /\ undo' = undo
        /\ done' = [done EXCEPT ![t] = Len(undo[t])] /\ UNCHANGED <<chain, commit_id, transaction_id>>
    BY <1>11 DEF Rollback, GotoRollback, Goto
  <2>2. Recorded(t, {}) /\ done' = [done EXCEPT ![t] = Len(undo'[t])]  BY <2>1 DEF Recorded
  <2> QED BY <1>p, <2>1, <2>2, LinkMoves DEF EarlyPcs
<1>12. CASE RollbackEntry(t)  BY <1>12, LinkRollbackEntry
<1>13. CASE CleanupEntry(t)  BY <1>13, LinkCleanupEntry
<1>14. CASE CleanupDone(t)  BY <1>14, LinkDestroyed
<1> QED
  BY <1>1, <1>2, <1>3, <1>4, <1>5, <1>6, <1>7, <1>8, <1>9, <1>10, <1>11, <1>12, <1>13, <1>14 DEF Step

\* Every operation keeps all of them.
LEMMA CleanStep ==
  ASSUME IInv, CleanInv, NEW t \in Txns, Step(t)
  PROVE  CleanInv'
<1> USE DEF CleanInv
<1>1. DataTyped' /\ TxnTyped' /\ ManagerTyped' /\ DoneInv'
  BY DataTypedKept, TxnTypedKept, ManagerTypedKept, DoneKept
<1>2. ActiveInv' /\ ErrorInv' /\ StampInv' /\ SharingInv' /\ ExclusiveInv' /\ HolderInv'
  BY ActiveKept, ErrorKept, StampKept, SharingKept, ExclusiveKept, HolderKept
<1>3. CheckpointInv' /\ AloneInv'  BY CheckpointKept, AloneKept
<1>4. PlaceInv' /\ KeptInv' /\ HomeInv' /\ EmptyInv'
  BY PlaceKept, KeptKept, HomeKept, EmptyKept
<1>5. QueueInv' /\ WorkInv' /\ ClockInv' /\ LinkInv'
  BY QueueKept, WorkKept, ClockKept, LinkKept
<1> QED BY <1>1, <1>2, <1>3, <1>4, <1>5

\* A step that changes nothing.
LEMMA CleanStill ==
  ASSUME CleanInv, UNCHANGED vars
  PROVE  CleanInv'
<1> USE DEF vars, managerVars, lockVars, listVars, checkpointVars, versionVars, updateVars, txnVars
<1>1. DataTyped' /\ TxnTyped' /\ ManagerTyped' /\ DoneInv'
  BY DEF CleanInv, DataTyped, TxnTyped, ManagerTyped, DoneInv
<1>2. ActiveInv' /\ ErrorInv' /\ StampInv' /\ SharingInv' /\ ExclusiveInv'
  BY DEF CleanInv, ActiveInv, ErrorInv, StampInv, SharingInv, ExclusiveInv, HasUpdates
<1>3. HolderInv' /\ CheckpointInv' /\ AloneInv'
  BY DEF CleanInv, HolderInv, HoldsCheckpointLock, CheckpointInv, AloneInv, HasUpdates, Committed
<1>4. PlaceInv' /\ KeptInv' /\ HomeInv' /\ EmptyInv'
  BY DEF CleanInv, PlaceInv, KeptInv, HomeInv, EmptyInv, InQueue
<1>5. QueueInv' /\ WorkInv' /\ ClockInv'
  BY DEF CleanInv, QueueInv, WorkInv, ClockInv, Begun, Ending
<1>6. LinkInv'  BY DEF CleanInv, LinkInv, Linked, Committed
<1> QED BY <1>1, <1>2, <1>3, <1>4, <1>5, <1>6 DEF CleanInv

\* Initially nobody is active and nothing is kept, queued or linked.
LEMMA InitCleanInv == Init => CleanInv
<1> SUFFICES ASSUME Init PROVE CleanInv
  OBVIOUS
<1>0. /\ \A t \in Txns : /\ pc[t] \in {"new", "done"} /\ undo[t] = <<>> /\ commit_id[t] = 0
                         /\ error[t] = FALSE /\ checkpoints[t] = FALSE /\ done[t] = 0
      /\ \A v \in Rows : chain[v] = <<>>
      /\ recently = <<>> /\ cleanup_queue = <<>> /\ work = NoWork /\ active = {} /\ sharing = {}
      /\ checkpoint_lock = None /\ cleanup_lock = None /\ active_checkpoint = NoCheckpoint
  BY DEF Init
<1>1. DataTyped
  <2>1. setup \in Setups /\ count \in Nat /\ groups \subseteq Nat  BY ConstantTypes, RowsAssumption DEF Init
  <2>2. inserted \in [Rows -> Nat] /\ deleted \in [Rows -> Nat]  BY IdsAssumption DEF Init
  <2>3. current \in [Rows -> Values]  BY DEF Init, Values
  <2>4. undo \in [Txns -> Seq(Records)]  BY DEF Init
  <2>5. chain \in [Rows -> Seq(Infos)]  BY DEF Init
  <2> QED BY <2>1, <2>2, <2>3, <2>4, <2>5 DEF DataTyped
<1>2. TxnTyped  BY DEF Init, TxnTyped
<1>3. ManagerTyped
  <2>1. NoWork \in Works /\ cleanup_queue \in Seq(Works)  BY DEF Init, NoWork, Works
  <2> QED BY <2>1, IdsAssumption DEF Init, ManagerTyped, NoCheckpoint
<1>4. DoneInv /\ ActiveInv /\ ErrorInv /\ StampInv
  BY <1>0 DEF DoneInv, ActiveInv, ErrorInv, StampInv, Live, StampedPcs
<1>5. SharingInv /\ ExclusiveInv /\ HolderInv /\ CheckpointInv /\ AloneInv
  BY <1>0 DEF SharingInv, ExclusiveInv, HolderInv, CheckpointInv, AloneInv, HasUpdates,
              HoldsCheckpointLock
<1>6. PlaceInv /\ KeptInv /\ HomeInv /\ EmptyInv
  <2>1. ToSet(recently) = {} /\ ToSet(work.txns) = {} /\ DOMAIN cleanup_queue = {}
    BY <1>0 DEF ToSet, NoWork
  <2> QED BY <1>0, <2>1 DEF PlaceInv, KeptInv, HomeInv, EmptyInv
<1>7. QueueInv /\ WorkInv
  <2>1. {t \in Txns : pc[t] = "cleanup"} = {}  BY <1>0
  <2>2. IsFiniteSet({}) /\ Cardinality({}) = 0  BY FS_EmptySet
  <2>3. Len(cleanup_queue) = 0  BY <1>0
  <2>4. QueueInv
    <3>1. /\ IsFiniteSet({t \in Txns : pc[t] = "cleanup"})
          /\ Cardinality({t \in Txns : pc[t] = "cleanup"}) = 0
      BY <2>1, <2>2
    <3> QED BY <2>3, <3>1 DEF QueueInv
  <2>5. WorkInv  BY <1>0 DEF WorkInv
  <2> QED BY <2>4, <2>5
<1>8. ClockInv
  <2>1. Begun \subseteq Txns /\ Ending \subseteq Txns  BY DEF Begun, Ending
  <2>2. Cardinality(Begun) \in Nat /\ Cardinality(Ending) \in Nat
    BY <2>1, TxnsAssumption, FS_Subset, FS_CardinalityType
  <2> QED BY <2>2 DEF ClockInv, Init
<1>9. LinkInv  BY <1>0 DEF LinkInv
<1> QED BY <1>1, <1>2, <1>3, <1>4, <1>5, <1>6, <1>7, <1>8, <1>9 DEF CleanInv

\* Every step of the system keeps CleanInv.
LEMMA StepCleanInv == IInv /\ CleanInv /\ [Next]_vars => CleanInv'
<1> SUFFICES ASSUME IInv, CleanInv, [Next]_vars PROVE CleanInv'
  OBVIOUS
<1>1. CASE UNCHANGED vars  BY <1>1, CleanStill
<1>2. CASE AllDone  BY <1>2, CleanStill DEF AllDone
<1>3. ASSUME NEW t \in Txns, Step(t) PROVE CleanInv'
  BY <1>3, CleanStep
<1>4. [Next]_vars => UNCHANGED vars \/ AllDone \/ \E t \in Txns : Step(t)
  BY DEF Next, Step
<1> QED BY <1>1, <1>2, <1>3, <1>4

\* Where everything that is left of a transaction has its place, nothing is left
\* once the places are empty.
LEMMA CleanIsExact == IInv /\ CleanInv => CleanupExact
<1> SUFFICES ASSUME IInv, CleanInv PROVE CleanupExact
  OBVIOUS
<1>1. NoDanglingVersion
  BY DEF CleanInv, LinkInv, Linked, NoDanglingVersion
<1>2. ASSUME \A t \in Txns : pc[t] = "done"
      PROVE  sharing = {} /\ (\A v \in Rows : chain[v] = <<>>) /\ (\A t \in Txns : undo[t] = <<>>)
  <2>1. active = {}  BY <1>2 DEF CleanInv, ActiveInv, Live
  <2>2. recently = <<>>  BY <2>1 DEF CleanInv, EmptyInv
  <2>3. cleanup_queue = <<>>
    <3>1. {t \in Txns : pc[t] = "cleanup"} = {}  BY <1>2
    <3>2. Len(cleanup_queue) <= 0  BY <3>1, FS_EmptySet DEF CleanInv, QueueInv
    <3> QED BY <3>2 DEF CleanInv, ManagerTyped
  <2>4. work = NoWork
    <3>1. cleanup_lock = None
      BY <1>2 DEF CleanInv, WorkInv, ManagerTyped
    <3> QED BY <3>1 DEF CleanInv, WorkInv
  <2>5. ToSet(recently) = {} /\ ToSet(work.txns) = {} /\ DOMAIN cleanup_queue = {}
    BY <2>2, <2>3, <2>4 DEF ToSet, NoWork
  <2>6. \A t \in Txns : t \notin sharing /\ undo[t] = <<>>
    BY <2>1, <2>5 DEF CleanInv, HomeInv
  <2>7. sharing = {}  BY <2>6 DEF CleanInv, ManagerTyped
  <2>8. ASSUME NEW v \in Rows PROVE chain[v] = <<>>
    <3>1. chain[v] \in Seq(Infos)  BY DEF CleanInv, DataTyped
    <3>2. DOMAIN chain[v] = {}
      <4> SUFFICES ASSUME NEW i \in DOMAIN chain[v] PROVE FALSE
        OBVIOUS
      <4>1. Linked(chain[v][i].owner, v, chain[v][i].version)  BY DEF CleanInv, LinkInv
      <4>2. chain[v][i].owner \in Txns  BY InfoTypes DEF CleanInv
      <4> QED BY <2>6, <4>1, <4>2 DEF Linked
    <3>3. Len(chain[v]) = 0
      <4>1. Len(chain[v]) \in Nat /\ DOMAIN chain[v] = 1 .. Len(chain[v])  BY <3>1
      <4>2. Len(chain[v]) # 0 => 1 \in 1 .. Len(chain[v])  BY <4>1
      <4> QED BY <3>2, <4>1, <4>2
    <3> QED BY <3>1, <3>3
  <2> QED BY <2>6, <2>7, <2>8
<1>3. NoGarbage
  BY <1>2 DEF NoGarbage, CleanInv, QueueInv, EmptyInv
<1> QED BY <1>1, <1>3 DEF CleanupExact

\* Old versions are cleaned up in time and not too early, for any number of
\* transactions, rows and changes, whatever fails and whoever checkpoints: no undo
\* buffer is destroyed with an UpdateInfo still linked, the queue has no entry that no
\* thread comes for, and with all transactions over nothing of them is left.
THEOREM SpecCleanupExact == Spec => []CleanupExact
<1>1. Init => IInv /\ CleanInv  BY InitIInv, InitCleanInv
<1>2. IInv /\ CleanInv /\ [Next]_vars => IInv' /\ CleanInv'  BY StepIInv, StepCleanInv
<1> QED BY <1>1, <1>2, CleanIsExact, PTL DEF Spec

-----------------------------------------------------------------------------
(* The checkpoint: the ids of rows, and what writes them                   *)

\* Commits that do not fail, DELETEs that name a row once.
Sound == ~setup.fail /\ ~setup.duplicates

AppendedPcs == {"written", "commit", "remove"} \union EndedPcs

\* Ids lie above all timestamps, and are somebody's while he lives.
IdsInv ==
  /\ TRANSACTION_ID_START <= nextId
  /\ nextId <= TRANSACTION_ID_START + Cardinality(Begun)
  /\ \A t \in Txns : pc[t] \in Live =>
       /\ TRANSACTION_ID_START <= transaction_id[t] /\ transaction_id[t] < nextId
       /\ \A u \in Txns : pc[u] \in Live /\ transaction_id[u] = transaction_id[t] => u = t
\* The last commit that is over, and the one that is not; it is younger than who is active.
TimesInv ==
  /\ last_commit < clock
  /\ \A t \in Txns : /\ pc[t] = "commit" => last_commit < commit_id[t]
                     /\ pc[t] = "remove" => commit_id[t] = last_commit
                     /\ pc[t] \in EndedPcs => commit_id[t] <= last_commit
                     /\ pc[t] \in Live => start_time[t] < clock
                     /\ pc[t] \in StampedPcs => \A u \in active \ {t} : start_time[u] < commit_id[t]
\* Who has appended rows has the WAL lock, or a checkpoint.
WalInv ==
  \A t \in Txns : /\ ~error[t]
                  /\ pc[t] = "written" => wal_lock = t
                  /\ pc[t] = "commit" /\ undo[t] # <<>> => wal_lock = t \/ checkpoints[t]
\* No more rows than insertions: the bound of the model.
Placed == {x \in Insertions : pc[x[1]] \in AppendedPcs}
RoomInv == /\ IsFiniteSet(Insertions)
           /\ count <= LoadedRows + Cardinality(Placed)
           /\ LoadedRows + Cardinality(Insertions) <= MaxRows
\* Appends follow each other, one of a transaction, each within one row group.
AppendInv ==
  /\ groups \subseteq 1 .. count
  /\ \A t \in Txns : \A i \in Appends(t) :
       /\ pc[t] \in AppendedPcs /\ local[t] > 0
       /\ undo[t][i].rows = undo[t][i].at .. undo[t][i].at + local[t] - 1
       /\ undo[t][i].at + local[t] - 1 <= count
       /\ \A g \in groups : g <= undo[t][i].at \/ g > undo[t][i].at + local[t] - 1
       /\ \A u \in Txns : \A j \in Appends(u) :
            t = u \/ undo[t][i].rows \cap undo[u][j].rows # {} => t = u /\ i = j
\* The ids of the rows of a commit, until one that follows cleans them up; the last
\* row of a vector keeps its id until the commit itself is cleaned up.
PendingInv ==
  \A t \in Txns : \A i \in Appends(t) : \A r \in undo[t][i].rows :
    /\ pc[t] = "written" => inserted[r] = transaction_id[t]
    /\ pc[t] = "commit" => inserted[r] = IF i <= done[t] THEN commit_id[t] ELSE transaction_id[t]
    /\ (pc[t] = "remove" \/ (pc[t] \in EndedPcs /\ i > done[t])) /\ r = Vec(r) + VectorSize - 1
         => inserted[r] = commit_id[t]
PendingRow(r) ==
  \E t \in Txns : pc[t] \in {"written", "commit"} /\ \E i \in Appends(t) : r \in undo[t][i].rows
RowInv == \A r \in 1 .. count : inserted[r] <= last_commit \/ PendingRow(r)

\* Every row up to the last that t has appended was there when t committed;
Full(t) ==
  \A i \in Appends(t) : \A r \in 1 .. undo[t][i].at + local[t] - 1 : inserted[r] <= commit_id[t]
\* or t has updated nothing, and somebody is about to commit rows before those of t.
Behind(t, r) == /\ ~HasUpdates(t)
                /\ \E u \in active \ {t} : pc[u] = "written" /\ \E i \in Appends(u) : r \in undo[u][i].rows
BehindInv ==
  \A t \in Txns : pc[t] \in StampedPcs => \A i \in Appends(t) : \A r \in 1 .. undo[t][i].at - 1 :
    inserted[r] <= commit_id[t] \/ Behind(t, r)
\* What a clean-up may take the ids from.
Ripe(w) ==
  \A u \in ToSet(w.txns) : commit_id[u] <= w.lowest => Full(u) /\ commit_id[u] <= active_checkpoint
RipeInv ==
  /\ \A u \in ToSet(recently) : Full(u)
  /\ \A i \in DOMAIN cleanup_queue : Ripe(cleanup_queue[i])
  /\ Ripe(work)

\* A row that t has deleted has its id until t is over.
Deletes(t) == {i \in DOMAIN undo[t] : undo[t][i].kind = "delete"}
DeleteInv ==
  \A t \in Txns : pc[t] \in Live \ {"remove"} => \A i \in Deletes(t) :
    (pc[t] = "rollback" => i <= done[t]) => \A r \in undo[t][i].rows :
       /\ r \in Rows
       /\ deleted[r] = transaction_id[t] \/ (pc[t] = "commit" /\ deleted[r] = commit_id[t])
       /\ \A j \in Deletes(t) : r \in undo[t][j].rows => i = j

\* Who is about to checkpoint has committed since the last one.
SeenInv ==
  /\ seen.checkpoint \in Nat
  /\ seen.checkpoint = NoCheckpoint \/ seen.checkpoint <= last_commit
  /\ \A t \in Txns : HoldsCheckpointLock(t) /\ pc[t] \in StampedPcs \union {"cleanup", "cleaning", "checkpoint"} =>
       seen.checkpoint = NoCheckpoint \/ seen.checkpoint < commit_id[t]
\* The rows of later commits start a row group.
NewFrom(g) == \A r \in 1 .. count : r < g <=> inserted[r] <= active_checkpoint
GroupInv ==
  active_checkpoint # NoCheckpoint =>
    /\ active_checkpoint <= last_commit
    /\ \/ seen.checkpoint # active_checkpoint /\ NewFrom(count + 1)
       \/ seen.checkpoint = active_checkpoint /\ \E g \in groups : NewFrom(g)
ImageInv ==
  active_checkpoint # NoCheckpoint =>
    \A r \in Rows : image[r] = IF Visible(active_checkpoint, active_checkpoint, r)
                               THEN current[r] ELSE Absent
SoundInv ==
  /\ IdsInv /\ TimesInv /\ WalInv /\ RoomInv /\ AppendInv /\ PendingInv /\ RowInv /\ BehindInv
  /\ RipeInv /\ DeleteInv /\ SeenInv /\ GroupInv /\ ImageInv

\* Steps that leave the fields of the other transactions alone.
LEMMA OthersStay ==
  ASSUME IInv, CleanInv, NEW t \in Txns, Step(t)
  PROVE  \A u \in Txns \ {t} :
           /\ pc'[u] = pc[u] /\ commit_id'[u] = commit_id[u] /\ transaction_id'[u] = transaction_id[u]
           /\ start_time'[u] = start_time[u] /\ local'[u] = local[u] /\ checkpoints'[u] = checkpoints[u]
<1> USE DEF managerVars, lockVars, listVars, checkpointVars, versionVars, updateVars
<1>0. /\ pc \in [Txns -> Pcs] /\ commit_id \in [Txns -> Nat] /\ DataTyped /\ TxnTyped
      /\ transaction_id \in [Txns -> Nat] /\ start_time \in [Txns -> Nat]
      /\ local \in [Txns -> Nat] /\ checkpoints \in [Txns -> BOOLEAN]
  BY DEF IInv, Typed, CleanInv, TxnTyped
<1>1. CASE Start(t)  BY <1>0, <1>1 DEF Start, Goto
<1>2. CASE Insert(t)  BY <1>0, <1>2 DEF Insert
<1>3. CASE Delete(t)  BY <1>0, <1>3, DeleteFrame
<1>4. CASE Update(t)  BY <1>0, <1>4, UpdateFrame
<1>5. CASE CommitDirectly(t)
  <2>1. /\ pc' = [pc EXCEPT ![t] = "commit"] \/ pc' = [pc EXCEPT ![t] = "rollback"]
        /\ commit_id' = [commit_id EXCEPT ![t] = clock] \/ commit_id' = commit_id
        /\ checkpoints' = [checkpoints EXCEPT ![t] = TRUE] \/ checkpoints' = checkpoints
        /\ UNCHANGED <<transaction_id, start_time, local>>
    BY <1>0, <1>5, CommitDirectlyFrame
  <2> QED BY <1>0, <2>1
<1>6. CASE CommitThroughWAL(t)  BY <1>0, <1>6 DEF CommitThroughWAL, Goto
<1>7. CASE WriteToWAL(t)  BY <1>0, <1>7 DEF WriteToWAL, Goto
<1>8. CASE TakeTimestamp(t)  BY <1>0, <1>8, TakeTimestampFrame
<1>9. CASE CommitEntry(t)  BY <1>0, <1>9 DEF CommitEntry
<1>10. CASE CommitDone(t)  BY <1>0, <1>10 DEF CommitDone, Goto
<1>11. CASE FlushFails(t)  BY <1>0, <1>11 DEF FlushFails, Goto, GotoRollback
<1>12. CASE Rollback(t)  BY <1>0, <1>12 DEF Rollback, Goto, GotoRollback
<1>13. CASE RollbackEntry(t)  BY <1>0, <1>13 DEF RollbackEntry
<1>14. CASE Leave(t)  BY <1>0, <1>14 DEF Leave, Goto
<1>15. CASE PopCleanup(t)  BY <1>0, <1>15 DEF PopCleanup, Goto
<1>16. CASE CleanupEntry(t)  BY <1>0, <1>16 DEF CleanupEntry
<1>17. CASE CleanupDone(t)  BY <1>0, <1>17 DEF CleanupDone, Goto
<1>18. CASE StartCheckpoint(t)  BY <1>0, <1>18 DEF StartCheckpoint, Goto
<1>19. CASE FinishCheckpoint(t)  BY <1>0, <1>19 DEF FinishCheckpoint, Goto
<1> QED
  BY <1>1, <1>2, <1>3, <1>4, <1>5, <1>6, <1>7, <1>8, <1>9, <1>10,
     <1>11, <1>12, <1>13, <1>14, <1>15, <1>16, <1>17, <1>18, <1>19 DEF Step

\* Without failures a commit appends its rows, takes its timestamp, and is over.
LEMMA SoundCommit ==
  ASSUME IInv, CleanInv, Sound, WalInv, NEW t \in Txns, Step(t)
  PROVE  /\ setup' = setup /\ error' = error /\ ~FlushFails(t)
         /\ CommitDirectly(t) =>
              /\ AppendLocal(t) /\ UNCHANGED done
              /\ commit_id' = [commit_id EXCEPT ![t] = clock] /\ pc' = [pc EXCEPT ![t] = "commit"]
         /\ WriteToWAL(t) => AppendLocal(t) /\ pc' = [pc EXCEPT ![t] = "written"]
         /\ TakeTimestamp(t) =>
              /\ commit_id' = [commit_id EXCEPT ![t] = clock] /\ pc' = [pc EXCEPT ![t] = "commit"]
              /\ UNCHANGED done
<1> USE DEF managerVars, lockVars, listVars, checkpointVars, versionVars, updateVars
<1>0. ~setup.fail /\ ~error[t] /\ DataTyped /\ TxnTyped  BY DEF Sound, WalInv, CleanInv
<1>1. CASE CommitDirectly(t)
  <2>1. ~AppendRefused(t)  BY <1>0 DEF AppendRefused
  <2>2. setup' = setup /\ ~(WriteToWAL(t) \/ TakeTimestamp(t) \/ FlushFails(t))
    BY <1>0, <1>1, CommitDirectlyFrame DEF WriteToWAL, TakeTimestamp, FlushFails
  <2> QED BY <1>0, <1>1, <2>1, <2>2, CommitDirectlyFrame
<1>2. CASE WriteToWAL(t)
  <2>1. ~AppendRefused(t)  BY <1>0 DEF AppendRefused
  <2>2. ~(CommitDirectly(t) \/ TakeTimestamp(t) \/ FlushFails(t))
    BY <1>2 DEF WriteToWAL, TakeTimestamp, FlushFails, CommitDirectly, Running
  <2> QED BY <1>0, <1>2, <2>1, <2>2 DEF WriteToWAL, Goto
<1>3. CASE TakeTimestamp(t)
  <2>1. ~(CommitDirectly(t) \/ WriteToWAL(t) \/ FlushFails(t))
    BY <1>3 DEF WriteToWAL, TakeTimestamp, FlushFails, CommitDirectly, Running
  <2> QED BY <1>0, <1>3, <2>1, TakeTimestampFrame
<1>4. CASE ~CommitDirectly(t) /\ ~WriteToWAL(t) /\ ~TakeTimestamp(t)
  <2>1. ~FlushFails(t)  BY <1>0 DEF FlushFails
  <2>2. setup' = setup /\ error' = error
    <3>1. CASE Delete(t)  BY <1>0, <3>1, DeleteFrame
    <3>2. CASE Update(t)  BY <1>0, <3>2, UpdateFrame
    <3>3. CASE Start(t) \/ Insert(t) \/ CommitThroughWAL(t) \/ CommitEntry(t) \/ CommitDone(t)
      BY <3>3 DEF Start, Insert, CommitThroughWAL, CommitEntry, CommitDone
    <3>4. CASE Rollback(t) \/ RollbackEntry(t) \/ Leave(t) \/ PopCleanup(t) \/ CleanupEntry(t)
      BY <3>4 DEF Rollback, RollbackEntry, Leave, PopCleanup, CleanupEntry
    <3>5. CASE CleanupDone(t) \/ StartCheckpoint(t) \/ FinishCheckpoint(t)
      BY <3>5 DEF CleanupDone, StartCheckpoint, FinishCheckpoint
    <3> QED BY <1>4, <2>1, <3>1, <3>2, <3>3, <3>4, <3>5 DEF Step
  <2> QED BY <1>4, <2>1, <2>2
<1> QED BY <1>1, <1>2, <1>3, <1>4

\* Where a transaction without failures goes next.
LEMMA SoundMove ==
  ASSUME IInv, CleanInv, Sound, WalInv, NEW t \in Txns, Step(t)
  PROVE  \/ pc' = pc
         \/ \E l \in Pcs :
              /\ pc' = [pc EXCEPT ![t] = l]
              /\ \/ pc[t] = "new" /\ l = "running" /\ Start(t)
                 \/ pc[t] = "running" /\ l = "failed" /\ (Delete(t) \/ Update(t))
                 \/ pc[t] = "running" /\ l = "commit" /\ CommitDirectly(t)
                 \/ pc[t] = "running" /\ l = "wal" /\ CommitThroughWAL(t)
                 \/ pc[t] = "wal" /\ l = "written" /\ WriteToWAL(t)
                 \/ pc[t] = "written" /\ l = "commit" /\ TakeTimestamp(t)
                 \/ pc[t] = "commit" /\ l = "remove" /\ CommitDone(t)
                 \/ pc[t] \in {"running", "failed"} /\ l = "rollback" /\ Rollback(t)
                 \/ pc[t] \in {"remove", "rollback"} /\ l = "cleanup" /\ Leave(t)
                 \/ pc[t] = "cleanup" /\ l \in {"cleaning", "checkpoint", "done"} /\ PopCleanup(t)
                 \/ pc[t] = "cleaning" /\ l \in {"checkpoint", "done"} /\ CleanupDone(t)
                 \/ pc[t] = "checkpoint" /\ l = "checkpointing" /\ StartCheckpoint(t)
                 \/ pc[t] = "checkpointing" /\ l = "done" /\ FinishCheckpoint(t)
<1> USE DEF Pcs
<1>0. DataTyped /\ TxnTyped  BY DEF CleanInv
<1>1. CASE Start(t)  BY <1>1 DEF Start, Goto
<1>2. CASE Insert(t)  BY <1>2 DEF Insert
<1>3. CASE Delete(t)  BY <1>0, <1>3, DeleteFrame
<1>4. CASE Update(t)  BY <1>0, <1>4, UpdateFrame
<1>5. CASE CommitDirectly(t)  BY <1>5, SoundCommit DEF CommitDirectly, Running
<1>6. CASE CommitThroughWAL(t)  BY <1>6 DEF CommitThroughWAL, Goto, Running
<1>7. CASE WriteToWAL(t)  BY <1>7 DEF WriteToWAL, Goto
<1>8. CASE TakeTimestamp(t)  BY <1>8, SoundCommit DEF TakeTimestamp
<1>9. CASE CommitEntry(t)  BY <1>9 DEF CommitEntry
<1>10. CASE CommitDone(t)  BY <1>10 DEF CommitDone, Goto
<1>12. CASE Rollback(t)  BY <1>12 DEF Rollback, Goto, GotoRollback
<1>13. CASE RollbackEntry(t)  BY <1>13 DEF RollbackEntry
<1>14. CASE Leave(t)  BY <1>14 DEF Leave, Goto
<1>15. CASE PopCleanup(t)  BY <1>15 DEF PopCleanup, Goto, AfterCleanup
<1>16. CASE CleanupEntry(t)  BY <1>16 DEF CleanupEntry
<1>17. CASE CleanupDone(t)  BY <1>17 DEF CleanupDone, Goto, AfterCleanup
<1>18. CASE StartCheckpoint(t)  BY <1>18 DEF StartCheckpoint, Goto
<1>19. CASE FinishCheckpoint(t)  BY <1>19 DEF FinishCheckpoint, Goto
<1> QED
  BY <1>1, <1>2, <1>3, <1>4, <1>5, <1>6, <1>7, <1>8, <1>9, <1>10, SoundCommit,
     <1>12, <1>13, <1>14, <1>15, <1>16, <1>17, <1>18, <1>19 DEF Step

\* Whoever has begun stays so.
LEMMA BegunGrows ==
  ASSUME IInv, NEW t \in Txns, NEW l \in Pcs, pc' = [pc EXCEPT ![t] = l],
         pc[t] \in Live \union EndedPcs => l \in Live \union EndedPcs
  PROVE  /\ Cardinality(Begun) <= Cardinality(Begun') /\ Cardinality(Begun') <= Cardinality(Txns)
         /\ Cardinality(Begun) \in Nat /\ Cardinality(Begun') \in Nat
         /\ t \notin Begun /\ l \in Live \union EndedPcs => Cardinality(Begun') = Cardinality(Begun) + 1
<1> DEFINE B == Begun'
<1>1. \A u \in Txns : pc'[u] = IF u = t THEN l ELSE pc[u]  BY DEF IInv, Typed
<1>2. B = {u \in Txns : pc'[u] \in Live \union EndedPcs}  BY DEF Begun
<1>3. Begun \subseteq B /\ B \subseteq Txns  BY <1>1, <1>2 DEF Begun
<1>4. t \notin Begun /\ l \in Live \union EndedPcs => B = Begun \union {t}  BY <1>1, <1>2 DEF Begun
<1> HIDE DEF B
<1>5. IsFiniteSet(B) /\ IsFiniteSet(Begun)  BY <1>3, TxnsAssumption, FS_Subset
<1>6. /\ Cardinality(Begun) <= Cardinality(B) /\ Cardinality(B) <= Cardinality(Txns)
      /\ Cardinality(Begun) \in Nat /\ Cardinality(B) \in Nat
  BY <1>3, <1>5, TxnsAssumption, FS_Subset, FS_CardinalityType
<1>7. t \notin Begun /\ l \in Live \union EndedPcs => Cardinality(B) = Cardinality(Begun) + 1
  BY <1>4, <1>5, FS_AddElement
<1> QED BY <1>6, <1>7 DEF B

\* Every step keeps what is said of the ids of transactions.
LEMMA IdsKept ==
  ASSUME IInv, CleanInv, Sound, WalInv, IdsInv, NEW t \in Txns, Step(t)
  PROVE  IdsInv'
<1> USE DEF managerVars, lockVars, listVars, checkpointVars, versionVars, updateVars
<1>0. /\ pc \in [Txns -> Pcs] /\ transaction_id \in [Txns -> Nat] /\ nextId \in Nat
      /\ TRANSACTION_ID_START \in Nat
  BY ConstantTypes DEF IInv, Typed, CleanInv, TxnTyped, ManagerTyped
<1>1. \A u \in Txns \ {t} : pc'[u] = pc[u] /\ transaction_id'[u] = transaction_id[u]
  BY OthersStay
<1>2. CASE Start(t)
  <2>1. /\ pc[t] = "new" /\ pc' = [pc EXCEPT ![t] = "running"] /\ nextId' = nextId + 1
        /\ transaction_id'[t] = nextId /\ pc'[t] = "running"
    BY <1>0, <1>2 DEF Start, Goto
  <2>2. t \notin Begun /\ "running" \in Live \union EndedPcs /\ "running" \in Pcs
    BY <2>1 DEF Begun, Live, EndedPcs, Pcs
  <2>3. Cardinality(Begun') = Cardinality(Begun) + 1 /\ Cardinality(Begun) \in Nat
    BY <2>1, <2>2, BegunGrows
  <2>4. TRANSACTION_ID_START <= nextId' /\ nextId' <= TRANSACTION_ID_START + Cardinality(Begun')
    BY <1>0, <2>1, <2>3 DEF IdsInv
  <2>5. ASSUME NEW u \in Txns, pc'[u] \in Live
        PROVE  /\ TRANSACTION_ID_START <= transaction_id'[u] /\ transaction_id'[u] < nextId'
               /\ \A v \in Txns : pc'[v] \in Live /\ transaction_id'[v] = transaction_id'[u] => v = u
    <3>1. \A v \in Txns \ {t} : pc'[v] \in Live => transaction_id'[v] < nextId
      BY <1>1 DEF IdsInv
    <3>2. CASE u = t  BY <1>0, <2>1, <3>1, <3>2 DEF IdsInv
    <3>3. CASE u # t  BY <1>0, <1>1, <2>1, <2>5, <3>1, <3>3 DEF IdsInv
    <3> QED BY <3>2, <3>3
  <2> QED BY <2>4, <2>5 DEF IdsInv
<1>3. CASE ~Start(t)
  <2>1. nextId' = nextId
    <3>1. CASE Delete(t)  BY <3>1, DeleteFrame DEF CleanInv
    <3>2. CASE Update(t)  BY <3>2, UpdateFrame DEF CleanInv
    <3>3. CASE Insert(t) \/ CommitThroughWAL(t) \/ CommitEntry(t) \/ CommitDone(t)
      BY <3>3 DEF Insert, CommitThroughWAL, CommitEntry, CommitDone
    <3>4. CASE Rollback(t) \/ RollbackEntry(t) \/ Leave(t) \/ PopCleanup(t) \/ CleanupEntry(t)
      BY <3>4 DEF Rollback, RollbackEntry, Leave, PopCleanup, CleanupEntry
    <3>5. CASE CleanupDone(t) \/ StartCheckpoint(t) \/ FinishCheckpoint(t)
      BY <3>5 DEF CleanupDone, StartCheckpoint, FinishCheckpoint
    <3>6. CASE CommitDirectly(t) \/ WriteToWAL(t) \/ TakeTimestamp(t) \/ FlushFails(t)
      BY <3>6 DEF CommitDirectly, WriteToWAL, TakeTimestamp, FlushFails
    <3> QED BY <1>3, <3>1, <3>2, <3>3, <3>4, <3>5, <3>6 DEF Step
  <2>2. transaction_id'[t] = transaction_id[t] \/ pc'[t] \notin Live
    <3>1. CASE Delete(t)  BY <3>1, DeleteFrame DEF CleanInv
    <3>2. CASE Update(t)  BY <3>2, UpdateFrame DEF CleanInv
    <3>3. CASE Insert(t) \/ CommitThroughWAL(t) \/ CommitEntry(t) \/ CommitDone(t)
      BY <3>3 DEF Insert, CommitThroughWAL, CommitEntry, CommitDone
    <3>4. CASE Rollback(t) \/ RollbackEntry(t) \/ PopCleanup(t) \/ CleanupEntry(t)
      BY <3>4 DEF Rollback, RollbackEntry, PopCleanup, CleanupEntry
    <3>5. CASE CleanupDone(t) \/ StartCheckpoint(t) \/ FinishCheckpoint(t)
      BY <3>5 DEF CleanupDone, StartCheckpoint, FinishCheckpoint
    <3>6. CASE CommitDirectly(t) \/ WriteToWAL(t) \/ TakeTimestamp(t) \/ FlushFails(t)
      BY <3>6 DEF CommitDirectly, WriteToWAL, TakeTimestamp, FlushFails
    <3>7. CASE Leave(t)  BY <1>0, <3>7 DEF Leave, Goto, Live
    <3> QED BY <1>3, <3>1, <3>2, <3>3, <3>4, <3>5, <3>6, <3>7 DEF Step
  <2>3. \/ pc' = pc
        \/ \E l \in Pcs : /\ pc' = [pc EXCEPT ![t] = l] /\ pc[t] \in Live \union EndedPcs
                          /\ l \in Live => pc[t] \in Live
                          /\ l \in Live \union EndedPcs
    <3> USE DEF Live, EndedPcs
    <3>1. \/ pc' = pc
          \/ \E l \in Pcs : /\ pc' = [pc EXCEPT ![t] = l]
                            /\ \/ pc[t] = "running" /\ l \in {"failed", "commit", "wal", "rollback"}
                               \/ pc[t] = "wal" /\ l = "written"
                               \/ pc[t] = "written" /\ l = "commit"
                               \/ pc[t] = "commit" /\ l = "remove"
                               \/ pc[t] = "failed" /\ l = "rollback"
                               \/ pc[t] \in {"remove", "rollback"} /\ l = "cleanup"
                               \/ pc[t] = "cleanup" /\ l \in {"cleaning", "checkpoint", "done"}
                               \/ pc[t] = "cleaning" /\ l \in {"checkpoint", "done"}
                               \/ pc[t] = "checkpoint" /\ l = "checkpointing"
                               \/ pc[t] = "checkpointing" /\ l = "done"
      BY <1>3, SoundMove, Zenon
    <3> QED BY <3>1
  <2>4. pc'[t] \in Live => pc[t] \in Live  BY <1>0, <2>3
  <2>5. Cardinality(Begun) <= Cardinality(Begun') /\ Cardinality(Begun) \in Nat /\ Cardinality(Begun') \in Nat
    <3>1. CASE pc' = pc
      <4>1. Begun' = Begun  BY <3>1 DEF Begun
      <4>2. Begun \subseteq Txns  BY DEF Begun
      <4>3. Cardinality(Begun) \in Nat  BY <4>2, TxnsAssumption, FS_Subset, FS_CardinalityType
      <4> QED BY <4>1, <4>3
    <3>2. CASE pc' # pc  BY <2>3, <3>2, BegunGrows
    <3> QED BY <3>1, <3>2
  <2>6. TRANSACTION_ID_START <= nextId' /\ nextId' <= TRANSACTION_ID_START + Cardinality(Begun')
    BY <1>0, <2>1, <2>5 DEF IdsInv
  <2>7. \A u \in Txns : pc'[u] \in Live => pc[u] \in Live /\ transaction_id'[u] = transaction_id[u]
    BY <1>1, <2>2, <2>4
  <2>8. ASSUME NEW u \in Txns, pc'[u] \in Live
        PROVE  /\ TRANSACTION_ID_START <= transaction_id'[u] /\ transaction_id'[u] < nextId'
               /\ \A v \in Txns : pc'[v] \in Live /\ transaction_id'[v] = transaction_id'[u] => v = u
    BY <2>1, <2>7, <2>8 DEF IdsInv
  <2> QED BY <2>6, <2>8 DEF IdsInv
<1> QED BY <1>2, <1>3

\* What the ids and timestamps are to each other.
LEMMA IdsAre ==
  ASSUME IInv, CleanInv, IdsInv, TimesInv
  PROVE  /\ last_commit \in Nat /\ clock \in Nat /\ last_commit < clock /\ clock <= TRANSACTION_ID_START
         /\ TRANSACTION_ID_START \in Nat /\ NOT_DELETED_ID \in Nat /\ TRANSACTION_ID_START < NOT_DELETED_ID
         /\ last_commit < NoCheckpoint /\ NoCheckpoint \in Nat
         /\ \A u \in Txns : /\ commit_id[u] \in Nat /\ transaction_id[u] \in Nat /\ commit_id[u] < clock
                            /\ pc[u] \in Live => /\ TRANSACTION_ID_START <= transaction_id[u]
                                                 /\ transaction_id[u] < NOT_DELETED_ID
<1>1. /\ last_commit \in Nat /\ clock \in Nat /\ nextId \in Nat
      /\ \A u \in Txns : commit_id[u] \in Nat /\ transaction_id[u] \in Nat /\ commit_id[u] < clock
  BY DEF IInv, Typed, Clocked, CleanInv, TxnTyped, ManagerTyped
<1>2. clock <= TRANSACTION_ID_START  BY ClockBound DEF CleanInv
<1>3. last_commit < clock  BY DEF TimesInv
<1>4. TRANSACTION_ID_START \in Nat /\ NOT_DELETED_ID \in Nat /\ TRANSACTION_ID_START < NOT_DELETED_ID
      /\ NoCheckpoint = NOT_DELETED_ID + 1
  BY IdsAssumption DEF NoCheckpoint
<1>5. nextId < NOT_DELETED_ID
  <2>1. Begun \subseteq Txns  BY DEF Begun
  <2>2. Cardinality(Begun) <= Cardinality(Txns) /\ Cardinality(Begun) \in Nat /\ Cardinality(Txns) \in Nat
    BY <2>1, TxnsAssumption, FS_Subset, FS_CardinalityType
  <2> QED BY <1>1, <1>4, <2>2, TxnsAssumption DEF IdsInv
<1>6. \A u \in Txns : pc[u] \in Live => TRANSACTION_ID_START <= transaction_id[u] /\ transaction_id[u] < NOT_DELETED_ID
  BY <1>1, <1>4, <1>5 DEF IdsInv
<1> QED BY <1>1, <1>2, <1>3, <1>4, <1>6

\* Every step keeps what is said of the timestamps.
LEMMA TimesKept ==
  ASSUME IInv, CleanInv, Sound, WalInv, IdsInv, TimesInv, NEW t \in Txns, Step(t)
  PROVE  TimesInv'
<1> USE DEF managerVars, lockVars, listVars, checkpointVars, versionVars, updateVars
<1>0. /\ pc \in [Txns -> Pcs] /\ commit_id \in [Txns -> Nat] /\ start_time \in [Txns -> Nat]
      /\ clock \in Nat /\ last_commit \in Nat /\ DataTyped /\ TxnTyped
      /\ active = {u \in Txns : pc[u] \in Live}
  BY DEF IInv, Typed, CleanInv, TxnTyped, ManagerTyped, ActiveInv
<1>1. \A u \in Txns \ {t} : pc'[u] = pc[u] /\ commit_id'[u] = commit_id[u] /\ start_time'[u] = start_time[u]
  BY OthersStay
<1>2. /\ transaction_lock = None => \A u \in Txns : pc[u] \notin LockPcs
      /\ \A u \in Txns : pc[u] \in LockPcs => \A v \in Txns : pc[v] \in LockPcs => u = v
  BY NoneAssumption DEF IInv, Locked
<1>3. \A u \in Txns : pc[u] = "rollback" => commit_id[u] = 0
  BY DEF IInv, Unstamped, EarlyPcs
<1> USE DEF Live, LockPcs, StampedPcs, EndedPcs
<1>4. CASE UNCHANGED <<pc, commit_id, start_time, clock, last_commit, active>>
  BY <1>4 DEF TimesInv
<1>5. CASE Insert(t) \/ CommitEntry(t) \/ RollbackEntry(t) \/ CleanupEntry(t)
  BY <1>4, <1>5 DEF Insert, CommitEntry, RollbackEntry, CleanupEntry
<1>6. CASE Start(t)
  <2>1. /\ pc[t] = "new" /\ pc'[t] = "running" /\ clock' = clock + 1 /\ start_time'[t] = clock
        /\ last_commit' = last_commit /\ active' = active \union {t} /\ transaction_lock = None
        /\ commit_id' = commit_id
    BY <1>0, <1>6 DEF Start, Goto
  <2>2. \A u \in Txns : pc'[u] \notin StampedPcs  BY <1>1, <1>2, <2>1
  <2> QED BY <1>0, <1>1, <2>1, <2>2 DEF TimesInv
<1>7. CASE Delete(t) \/ Update(t)
  <2>1. /\ pc[t] = "running" /\ pc'[t] \in {"running", "failed"}
        /\ UNCHANGED <<commit_id, start_time, clock, last_commit, active>>
    <3>1. CASE Delete(t)  BY <1>0, <3>1, DeleteFrame
    <3>2. CASE Update(t)  BY <1>0, <3>2, UpdateFrame
    <3> QED BY <1>7, <3>1, <3>2
  <2> QED BY <1>0, <1>1, <2>1 DEF TimesInv
<1>8. CASE CommitDirectly(t) \/ TakeTimestamp(t)
  <2>1. /\ pc[t] \in {"running", "written"} /\ pc'[t] = "commit" /\ commit_id'[t] = clock /\ clock' = clock + 1
        /\ UNCHANGED <<start_time, last_commit, active>> /\ transaction_lock = None
    <3>1. /\ pc' = [pc EXCEPT ![t] = "commit"] /\ commit_id' = [commit_id EXCEPT ![t] = clock]
      BY <1>8, SoundCommit
    <3>2. /\ pc[t] \in {"running", "written"} /\ clock' = clock + 1 /\ transaction_lock = None
          /\ UNCHANGED <<start_time, last_commit, active>>
      BY <1>8 DEF CommitDirectly, TakeTimestamp, Running
    <3> QED BY <1>0, <3>1, <3>2
  <2>2. \A u \in active : start_time[u] < clock  BY <1>0 DEF TimesInv
  <2>3. \A u \in Txns \ {t} : pc'[u] \notin StampedPcs  BY <1>1, <1>2, <2>1
  <2> QED BY <1>0, <1>1, <2>1, <2>2, <2>3 DEF TimesInv
<1>9. CASE CommitThroughWAL(t) \/ WriteToWAL(t) \/ Rollback(t)
  <2>1. /\ pc[t] \in {"running", "wal", "failed"} /\ pc'[t] \in {"wal", "written", "rollback"}
        /\ UNCHANGED <<commit_id, start_time, clock, last_commit, active>>
    BY <1>0, <1>9 DEF CommitThroughWAL, WriteToWAL, Rollback, Goto, GotoRollback, Running
  <2> QED BY <1>0, <1>1, <2>1 DEF TimesInv
<1>10. CASE CommitDone(t)
  <2>1. /\ pc[t] = "commit" /\ pc'[t] = "remove" /\ last_commit' = commit_id[t]
        /\ UNCHANGED <<commit_id, start_time, clock, active>>
    BY <1>0, <1>10 DEF CommitDone, Goto
  <2>2. last_commit < commit_id[t] /\ commit_id[t] < clock  BY <2>1 DEF TimesInv, IInv, Clocked
  <2>3. \A u \in Txns \ {t} : pc'[u] \notin StampedPcs  BY <1>1, <1>2, <2>1
  <2> QED BY <1>0, <1>1, <2>1, <2>2, <2>3 DEF TimesInv
<1>11. CASE Leave(t)
  <2>1. /\ pc[t] \in {"remove", "rollback"} /\ pc'[t] = "cleanup"
        /\ UNCHANGED <<commit_id, clock, last_commit>> /\ active' = active \ {t}
    BY <1>0, <1>11 DEF Leave, RemoveTransaction, Goto
  <2>2. \A u \in Txns \ {t} : pc'[u] \notin StampedPcs  BY <1>1, <1>2, <2>1
  <2>3. commit_id[t] <= last_commit  BY <1>0, <1>3, <2>1 DEF TimesInv
  <2> QED BY <1>0, <1>1, <2>1, <2>2, <2>3 DEF TimesInv
<1>12. CASE PopCleanup(t) \/ CleanupDone(t) \/ StartCheckpoint(t) \/ FinishCheckpoint(t)
  <2>1. /\ pc[t] \in EndedPcs /\ pc'[t] \in EndedPcs
        /\ UNCHANGED <<commit_id, start_time, clock, last_commit, active>>
    BY <1>0, <1>12 DEF PopCleanup, CleanupDone, StartCheckpoint, FinishCheckpoint, AfterCleanup, Goto
  <2> QED BY <1>0, <1>1, <2>1 DEF TimesInv
<1>13. ~FlushFails(t)  BY SoundCommit
<1> QED BY <1>5, <1>6, <1>7, <1>8, <1>9, <1>10, <1>11, <1>12, <1>13 DEF Step

\* Every step keeps the WAL lock with who has appended.
LEMMA WalKept ==
  ASSUME IInv, CleanInv, Sound, WalInv, NEW t \in Txns, Step(t)
  PROVE  WalInv'
<1> USE DEF managerVars, lockVars, listVars, checkpointVars, versionVars, updateVars
<1>0. /\ pc \in [Txns -> Pcs] /\ DataTyped /\ TxnTyped /\ ManagerTyped /\ checkpoints \in [Txns -> BOOLEAN]
  BY DEF IInv, Typed, CleanInv, TxnTyped
<1>1. \A u \in Txns \ {t} : pc'[u] = pc[u] /\ checkpoints'[u] = checkpoints[u]
  BY OthersStay
<1>2. \A u \in Txns : ~error'[u]  BY SoundCommit DEF WalInv
<1>3. ASSUME \A u \in Txns \ {t} : undo'[u] = undo[u] \/ pc[u] \in EndedPcs, wal_lock' = wal_lock,
             \/ pc'[t] \notin {"written", "commit"}
             \/ pc'[t] = pc[t] /\ undo'[t] = undo[t] /\ checkpoints'[t] = checkpoints[t]
      PROVE  WalInv'
  BY <1>1, <1>2, <1>3 DEF WalInv, EndedPcs
<1>4. CASE Start(t) \/ Insert(t) \/ CommitThroughWAL(t) \/ CommitEntry(t) \/ CommitDone(t)
  BY <1>0, <1>3, <1>4 DEF Start, Insert, CommitThroughWAL, CommitEntry, CommitDone, Goto
<1>5. CASE Delete(t)
  <2>1. pc'[t] \in {"running", "failed"} /\ wal_lock' = wal_lock /\ \A u \in Txns \ {t} : undo'[u] = undo[u]
    BY <1>0, <1>5, DeleteFrame, RecordedIs
  <2> QED BY <1>3, <2>1
<1>6. CASE Update(t)
  <2>1. pc'[t] \in {"running", "failed"} /\ wal_lock' = wal_lock /\ \A u \in Txns \ {t} : undo'[u] = undo[u]
    BY <1>0, <1>6, UpdateFrame, RecordedIs
  <2> QED BY <1>3, <2>1
<1>7. CASE CommitDirectly(t)
  <2>1. /\ pc' = [pc EXCEPT ![t] = "commit"] /\ wal_lock' = wal_lock /\ AppendLocal(t)
        /\ \/ ~ChangesMade(t)
           \/ checkpoints' = [checkpoints EXCEPT ![t] = TRUE]
    BY <1>0, <1>7, SoundCommit, CommitDirectlyFrame
  <2>2. \A u \in Txns \ {t} : undo'[u] = undo[u]  BY <1>0, <2>1, AppendRecorded, RecordedIs
  <2>3. ~ChangesMade(t) => undo'[t] = <<>>
    BY <1>0, <2>1 DEF ChangesMade, AppendLocal, TxnTyped
  <2> QED BY <1>0, <1>1, <1>2, <2>1, <2>2, <2>3 DEF WalInv
<1>8. CASE WriteToWAL(t)
  <2>1. /\ pc' = [pc EXCEPT ![t] = "written"] /\ wal_lock = None /\ wal_lock' = t /\ AppendLocal(t)
        /\ checkpoints' = checkpoints
    BY <1>8, SoundCommit DEF WriteToWAL
  <2>2. \A u \in Txns \ {t} : undo'[u] = undo[u]  BY <1>0, <2>1, AppendRecorded, RecordedIs
  <2>3. \A u \in Txns : wal_lock # u  BY <2>1, NoneAssumption
  <2> QED BY <1>0, <1>1, <1>2, <2>1, <2>2, <2>3 DEF WalInv
<1>9. CASE TakeTimestamp(t)
  <2>1. /\ pc[t] = "written" /\ pc' = [pc EXCEPT ![t] = "commit"] /\ UNCHANGED <<wal_lock, undo, checkpoints>>
    BY <1>9, SoundCommit DEF TakeTimestamp
  <2> QED BY <1>0, <1>1, <1>2, <2>1 DEF WalInv
<1>10. CASE Rollback(t) \/ RollbackEntry(t) \/ PopCleanup(t) \/ CleanupEntry(t) \/ StartCheckpoint(t) \/ FinishCheckpoint(t)
  BY <1>0, <1>3, <1>10 DEF Rollback, GotoRollback, Goto, RollbackEntry, PopCleanup, AfterCleanup, CleanupEntry,
    StartCheckpoint, FinishCheckpoint
<1>11. CASE Leave(t)
  <2>1. /\ pc' = [pc EXCEPT ![t] = "cleanup"] /\ UNCHANGED <<undo, checkpoints>>
        /\ wal_lock' = wal_lock \/ wal_lock = t
    BY <1>11 DEF Leave, Goto
  <2> QED BY <1>0, <1>1, <1>2, <2>1 DEF WalInv
<1>12. CASE CleanupDone(t)
  <2>1. /\ pc'[t] \notin {"written", "commit"} /\ wal_lock' = wal_lock
    BY <1>0, <1>12 DEF CleanupDone, Goto, AfterCleanup
  <2>2. \A u \in Txns : undo'[u] = undo[u] \/ u \in ToSet(work.txns)  BY <1>12 DEF CleanupDone
  <2>3. \A u \in ToSet(work.txns) : pc[u] \in EndedPcs  BY DEF CleanInv, PlaceInv
  <2> QED BY <1>3, <2>1, <2>2, <2>3
<1>13. ~FlushFails(t)  BY SoundCommit
<1> QED BY <1>4, <1>5, <1>6, <1>7, <1>8, <1>9, <1>10, <1>11, <1>12, <1>13 DEF Step

\* Division: what it says of the remainder, and that there is one only.
LEMMA Quotient ==
  ASSUME NEW x \in Nat, NEW n \in Nat \ {0}
  PROVE  x = n * (x \div n) + (x % n) /\ x \div n \in Nat /\ x % n \in 0 .. n - 1
OBVIOUS

\* A number has one remainder.
LEMMA RemainderIs ==
  ASSUME NEW n \in Nat \ {0}, NEW k \in Nat, NEW q \in Nat, NEW c \in 0 .. n - 1, NEW d \in 0 .. n - 1,
         n * k + c = n * q + d
  PROVE  c = d
<1>1. CASE k = q  BY <1>1
<1>2. CASE k < q
  <2>1. PICK m \in Nat : q = k + 1 + m
    <3>1. q - k - 1 \in Nat /\ q = k + 1 + (q - k - 1)  BY <1>2
    <3> QED BY <3>1
  <2>2. n * q = n * k + n + n * m  BY <2>1
  <2>3. n * m \in Nat /\ n * k \in Nat  OBVIOUS
  <2> QED BY <2>2, <2>3
<1>3. CASE q < k
  <2>1. PICK m \in Nat : k = q + 1 + m
    <3>1. k - q - 1 \in Nat /\ k = q + 1 + (k - q - 1)  BY <1>3
    <3> QED BY <3>1
  <2>2. n * k = n * q + n + n * m  BY <2>1
  <2>3. n * m \in Nat /\ n * q \in Nat  OBVIOUS
  <2> QED BY <2>2, <2>3
<1> QED BY <1>1, <1>2, <1>3

\* Within a vector, remainders are added.
LEMMA ModuloPlus ==
  ASSUME NEW x \in Nat, NEW d \in Nat, NEW n \in Nat \ {0}, (x % n) + d < n
  PROVE  (x + d) % n = (x % n) + d
<1>1. x = n * (x \div n) + (x % n) /\ x \div n \in Nat /\ x % n \in 0 .. n - 1  BY Quotient
<1>2. x + d \in Nat  OBVIOUS
<1>3. x + d = n * ((x + d) \div n) + ((x + d) % n) /\ (x + d) \div n \in Nat /\ (x + d) % n \in 0 .. n - 1
  BY <1>2, Quotient
<1> DEFINE a == x % n  b == (x + d) % n  k == x \div n  q == (x + d) \div n
<1> HIDE DEF a, b, k, q
<1>4. a \in 0 .. n - 1 /\ b \in 0 .. n - 1 /\ k \in Nat /\ q \in Nat /\ a + d < n
  BY <1>1, <1>3 DEF a, b, k, q
<1>5. x = n * k + a /\ x + d = n * q + b  BY <1>1, <1>3 DEF a, b, k, q
<1>6. n * k \in Nat /\ n * q \in Nat  BY <1>4
<1>7. n * k + (a + d) = n * q + b /\ a + d \in 0 .. n - 1  BY <1>4, <1>5, <1>6
<1>8. a + d = b  BY <1>4, <1>7, RemainderIs
<1> QED BY <1>8 DEF a, b

\* A row's vector counts from the first row of its row group.
LEMMA VecFrom ==
  ASSUME groups \subseteq Nat, NEW r \in Nat \ {0}
  PROVE  \E g \in Nat \ {0} :
           /\ g <= r /\ (g = 1 \/ g \in groups) /\ \A x \in groups : x <= r => x <= g
           /\ Vec(r) = r - ((r - g) % VectorSize)
<1> DEFINE S == {1} \union {x \in groups : x <= r}
           g == Max(S)
<1>1. S \subseteq Nat /\ 1 \in S
  <2>1. 1 \in S  OBVIOUS
  <2>2. \A x \in S : x \in Nat  OBVIOUS
  <2> QED BY <2>1, <2>2
<1>2. \A x \in S : x <= r  OBVIOUS
<1>3. \A x \in S : x = 1 \/ x \in groups  OBVIOUS
<1>4. \A x \in groups : x <= r => x \in S  OBVIOUS
<1>5. Vec(r) = r - ((r - g) % VectorSize)  BY Zenon DEF Vec, g, S
<1> HIDE DEF S
<1>6. g \in S /\ \A x \in S : x <= g  BY <1>1, <1>2, GreatestExists
<1>7. g \in Nat /\ 1 <= g /\ g <= r  BY <1>1, <1>2, <1>6
<1> HIDE DEF g
<1>8. g \in Nat \ {0}  BY <1>7
<1>9. (g = 1 \/ g \in groups) /\ \A x \in groups : x <= r => x <= g  BY <1>3, <1>4, <1>6
<1> QED BY <1>5, <1>7, <1>8, <1>9

\* There is only one such row.
LEMMA VecUnique ==
  ASSUME NEW G, G \subseteq Nat, NEW r \in Nat, NEW g \in Nat \ {0}, NEW h \in Nat \ {0}, g <= r, h <= r,
         g = 1 \/ g \in G, h = 1 \/ h \in G,
         \A x \in G : x <= r => x <= g, \A x \in G : x <= r => x <= h
  PROVE  g = h
<1>1. g <= h  OBVIOUS
<1>2. h <= g  OBVIOUS
<1> QED BY <1>1, <1>2

\* It is at most as many rows away as a vector has.
LEMMA VecEnd ==
  ASSUME groups \subseteq Nat, NEW r \in Nat \ {0}
  PROVE  r <= Vec(r) + VectorSize - 1 /\ Vec(r) \in Nat /\ 1 <= Vec(r) /\ Vec(r) <= r
<1>0. VectorSize \in Nat \ {0}  BY RowsAssumption
<1>1. PICK g \in Nat \ {0} : g <= r /\ Vec(r) = r - ((r - g) % VectorSize)  BY VecFrom
<1> DEFINE d == r - g
<1>2. d \in Nat  BY <1>1
<1>3. Vec(r) = r - (d % VectorSize)  BY <1>1
<1> HIDE DEF d
<1>4. d % VectorSize \in 0 .. VectorSize - 1  BY <1>0, <1>2, Modulo
<1>5. Vec(r) \in 1 .. r  BY VecIn
<1> QED BY <1>0, <1>3, <1>4, <1>5

\* Rows of a vector that no row group starts between.
LEMMA VecSame ==
  ASSUME groups \subseteq Nat, NEW x \in Nat \ {0}, NEW e \in Nat \ {0}, x <= e,
         e <= Vec(x) + VectorSize - 1, \A g \in groups : g <= x \/ g > e
  PROVE  Vec(e) = Vec(x)
<1>0. VectorSize \in Nat \ {0}  BY RowsAssumption
<1>1. PICK g \in Nat \ {0} : /\ g <= x /\ (g = 1 \/ g \in groups) /\ \A y \in groups : y <= x => y <= g
                             /\ Vec(x) = x - ((x - g) % VectorSize)
  BY VecFrom
<1>2. PICK h \in Nat \ {0} : /\ h <= e /\ (h = 1 \/ h \in groups) /\ \A y \in groups : y <= e => y <= h
                             /\ Vec(e) = e - ((e - h) % VectorSize)
  BY VecFrom
<1>3. h = g
  <2>1. g <= e /\ \A y \in groups : y <= e => y <= g  BY <1>1
  <2> QED BY <1>1, <1>2, <2>1, VecUnique
<1> DEFINE a == x - g  d == e - x
<1>4. a \in Nat /\ d \in Nat /\ a + d = e - g  BY <1>1
<1>5. Vec(x) = x - (a % VectorSize) /\ Vec(e) = e - ((a + d) % VectorSize)  BY <1>1, <1>2, <1>3, <1>4
<1>6. d = e - x  OBVIOUS
<1> HIDE DEF a, d
<1>7. a % VectorSize \in 0 .. VectorSize - 1  BY <1>0, <1>4, Modulo
<1>8. (a % VectorSize) + d < VectorSize  BY <1>0, <1>4, <1>5, <1>6, <1>7
<1>9. (a + d) % VectorSize = (a % VectorSize) + d  BY <1>0, <1>4, <1>8, ModuloPlus
<1> QED BY <1>4, <1>5, <1>6, <1>7, <1>9

\* The vectors of rows stay when row groups start behind them.
LEMMA VecOld ==
  ASSUME groups \subseteq Nat, groups' \subseteq Nat, NEW r \in Nat \ {0},
         groups \subseteq groups', \A g \in groups' : g \in groups \/ g > r
  PROVE  Vec(r)' = Vec(r)
<1> DEFINE S == {1} \union {x \in groups : x <= r}
           T == {1} \union {x \in groups' : x <= r}
<1>1. \A x \in groups' : x <= r => x \in groups  OBVIOUS
<1>2. S = T  BY <1>1
<1>3. Vec(r)' = r - ((r - Max(T)) % VectorSize)  BY DEF Vec
<1>4. Vec(r) = r - ((r - Max(S)) % VectorSize)  BY DEF Vec
<1> QED BY <1>2, <1>3, <1>4

-----------------------------------------------------------------------------
(* The checkpoint: what a step does to the rows and to who has appended them *)

\* The appends stay as they are, but for those of undo buffers that are destroyed.
SameAppends ==
  \A u \in Txns : /\ Appends(u)' \subseteq Appends(u)
                  /\ pc[u] \notin EndedPcs => Appends(u)' = Appends(u)
                  /\ \A i \in Appends(u)' : undo'[u][i] = undo[u][i] /\ local'[u] = local[u]
Grows(t) == local[t] > 0 /\ AppendLocal(t)

\* Who is not there yet has appended nothing.
LEMMA NoAppends ==
  ASSUME AppendInv, NEW t \in Txns, pc[t] \notin AppendedPcs
  PROVE  Appends(t) = {}
BY DEF AppendInv

\* Where nothing is recorded but entries of another kind, the appends stay.
LEMMA AppendsStay ==
  ASSUME DataTyped, NEW t \in Txns, NEW kinds, Recorded(t, kinds), "append" \notin kinds,
         \A u \in Txns : Appends(u) # {} => local'[u] = local[u]
  PROVE  SameAppends
<1>1. \A u \in Txns \ {t} : undo'[u] = undo[u]  BY RecordedIs
<1>2. \A u \in Txns \ {t} : Appends(u)' = Appends(u)  BY <1>1 DEF Appends
<1>3. Appends(t)' = Appends(t) /\ \A i \in Appends(t) : undo'[t][i] = undo[t][i]
  <2>1. /\ DOMAIN undo[t] \subseteq DOMAIN undo'[t]
        /\ \A i \in DOMAIN undo[t] : undo'[t][i] = undo[t][i]
        /\ \A i \in DOMAIN undo'[t] : i \in DOMAIN undo[t] \/ undo'[t][i].kind \in kinds
    <3>1. /\ Len(undo[t]) \in Nat /\ Len(undo'[t]) \in {Len(undo[t]), Len(undo[t]) + 1}
          /\ DOMAIN undo[t] = 1 .. Len(undo[t]) /\ DOMAIN undo'[t] = 1 .. Len(undo'[t])
          /\ \A i \in DOMAIN undo[t] : undo'[t][i] = undo[t][i]
          /\ \A i \in DOMAIN undo'[t] : i \in DOMAIN undo[t] \/ undo'[t][i].kind \in kinds
      BY RecordedIs
    <3> QED BY <3>1
  <2> QED BY <2>1 DEF Appends
<1> QED BY <1>1, <1>2, <1>3 DEF SameAppends

\* What an append makes of the table.
LEMMA GrowIs ==
  ASSUME CleanInv, AppendInv, NEW t \in Txns, pc[t] \in {"running", "wal"}, Grows(t)
  PROVE  /\ Appends(t) = {} /\ local[t] \in Nat \ {0} /\ count \in Nat
         /\ count' = count + local[t]
         /\ groups' = groups \/ groups' = groups \union {count + 1}
         /\ active_checkpoint # NoCheckpoint /\ seen.checkpoint # active_checkpoint =>
              groups' = groups \union {count + 1}
         /\ SeeCheckpoint
         /\ inserted' = [r \in Rows |-> IF r \in count + 1 .. count + local[t]
                                        THEN transaction_id[t] ELSE inserted[r]]
         /\ current' = [r \in Rows |-> IF r \in count + 1 .. count + local[t] THEN t ELSE current[r]]
         /\ \A u \in Txns \ {t} : undo'[u] = undo[u] /\ Appends(u)' = Appends(u)
         /\ Appends(t)' = {Len(undo[t]) + 1} /\ Len(undo[t]) \in Nat
         /\ undo'[t][Len(undo[t]) + 1] = Appended(t)
         /\ Deletes(t)' = Deletes(t) /\ \A i \in DOMAIN undo[t] : undo'[t][i] = undo[t][i]
         /\ HasUpdates(t)' <=> HasUpdates(t)
<1>0. DataTyped /\ TxnTyped  BY DEF CleanInv
<1>1. Appends(t) = {}  BY NoAppends DEF AppendedPcs, EndedPcs
<1>2. local[t] \in Nat \ {0} /\ count \in Nat  BY <1>0 DEF Grows, DataTyped, TxnTyped
<1>3. /\ Record(t, Appended(t)) /\ SeeCheckpoint /\ count' = count + local[t]
      /\ groups' = IF groups = {} \/ RequiresNewRowGroup THEN groups \union {count + 1} ELSE groups
      /\ inserted' = [r \in Rows |-> IF r \in count + 1 .. count + local[t]
                                     THEN transaction_id[t] ELSE inserted[r]]
      /\ current' = [r \in Rows |-> IF r \in count + 1 .. count + local[t] THEN t ELSE current[r]]
  BY <1>2 DEF Grows, AppendLocal, Appended
<1>4. active_checkpoint # NoCheckpoint /\ seen.checkpoint # active_checkpoint => RequiresNewRowGroup
  BY DEF RequiresNewRowGroup
<1>5. Appended(t) \in Records /\ Appended(t).kind = "append"
  <2>1. count + 1 \in Nat \ {0} /\ count + 1 .. count + local[t] \subseteq Nat  BY <1>2
  <2> QED BY <2>1 DEF Appended, Records
<1>6. /\ \A u \in Txns : u # t => undo'[u] = undo[u]
      /\ undo'[t][Len(undo[t]) + 1] = Appended(t)
      /\ DOMAIN undo'[t] = 1 .. Len(undo[t]) + 1
      /\ DOMAIN undo[t] = 1 .. Len(undo[t]) /\ Len(undo[t]) \in Nat
      /\ \A i \in DOMAIN undo[t] : undo'[t][i] = undo[t][i]
  BY <1>0, <1>3, <1>5, RecordIs
<1>7. \A u \in Txns \ {t} : Appends(u)' = Appends(u)  BY <1>6 DEF Appends
<1>8. DOMAIN undo'[t] = DOMAIN undo[t] \union {Len(undo[t]) + 1} /\ Len(undo[t]) + 1 \notin DOMAIN undo[t]
  BY <1>6
<1>9. Appends(t)' = {Len(undo[t]) + 1} /\ Deletes(t)' = Deletes(t)
  BY <1>1, <1>5, <1>6, <1>8 DEF Appends, Deletes
<1>10. HasUpdates(t)' <=> HasUpdates(t)  BY <1>5, <1>6, <1>8 DEF HasUpdates
<1> QED BY <1>1, <1>2, <1>3, <1>4, <1>6, <1>7, <1>9, <1>10

\* All other steps keep the rows there are.
LEMMA AppendsFrame ==
  ASSUME IInv, CleanInv, Sound, WalInv, AppendInv, NEW t \in Txns, Step(t)
  PROVE  \/ Grows(t) /\ (CommitDirectly(t) \/ WriteToWAL(t)) /\ pc[t] \in {"running", "wal"}
         \/ /\ UNCHANGED <<count, groups, seen>> /\ SameAppends
            /\ inserted' = inserted \/ CommitEntry(t) \/ CleanupEntry(t)
<1> USE DEF managerVars, lockVars, listVars, checkpointVars, versionVars, updateVars
<1>0. DataTyped /\ TxnTyped  BY DEF CleanInv
<1>1. ASSUME UNCHANGED <<undo, local>> PROVE SameAppends
  BY <1>1 DEF SameAppends, Appends
<1>2. CASE Start(t) \/ CommitThroughWAL(t) \/ TakeTimestamp(t) \/ CommitEntry(t) \/ CommitDone(t)
  BY <1>1, <1>2 DEF Start, CommitThroughWAL, TakeTimestamp, CommitEntry, CommitDone
<1>3. CASE Leave(t) \/ PopCleanup(t) \/ CleanupEntry(t) \/ StartCheckpoint(t) \/ FinishCheckpoint(t)
  BY <1>1, <1>3 DEF Leave, PopCleanup, CleanupEntry, StartCheckpoint, FinishCheckpoint
<1>4. CASE Insert(t) \/ Rollback(t)
  <2>1. /\ pc[t] \in {"running", "failed"} /\ UNCHANGED <<undo, count, groups, seen, inserted>>
        /\ \A u \in Txns \ {t} : local'[u] = local[u]
    BY <1>0, <1>4 DEF Insert, Rollback, CanChange, Running, TxnTyped
  <2>2. Appends(t) = {}  BY <2>1, NoAppends DEF AppendedPcs, EndedPcs
  <2> QED BY <2>1, <2>2 DEF SameAppends, Appends
<1>5. CASE Delete(t)
  <2>1. Recorded(t, {"delete"}) /\ UNCHANGED <<local, count, groups, seen, inserted>>
    BY <1>0, <1>5, DeleteFrame
  <2> QED BY <1>0, <2>1, AppendsStay
<1>6. CASE Update(t)
  <2>1. Recorded(t, {"update"}) /\ UNCHANGED <<local, count, groups, seen, inserted>>
    BY <1>0, <1>6, UpdateFrame
  <2> QED BY <1>0, <2>1, AppendsStay
<1>7. CASE CommitDirectly(t) \/ WriteToWAL(t)
  <2>1. AppendLocal(t) /\ pc[t] \in {"running", "wal"} /\ local' = local
    BY <1>7, SoundCommit DEF CommitDirectly, WriteToWAL, Running
  <2>2. CASE local[t] = 0
    <3>1. UNCHANGED <<count, groups, seen, inserted, undo>>  BY <2>1, <2>2 DEF AppendLocal
    <3> QED BY <1>1, <2>1, <3>1
  <2>3. CASE local[t] # 0
    <3>1. local[t] \in Nat  BY <1>0 DEF TxnTyped
    <3>2. local[t] > 0  BY <2>3, <3>1
    <3> QED BY <1>7, <2>1, <3>2 DEF Grows
  <2> QED BY <2>2, <2>3
<1>8. CASE RollbackEntry(t)
  <2>1. pc[t] = "rollback" /\ done[t] > 0 /\ UNCHANGED <<undo, local, seen>>  BY <1>8 DEF RollbackEntry
  <2>2. undo[t][done[t]].kind # "append"
    <3>1. done[t] \in 1 .. Len(undo[t])
      BY <1>0, <2>1, EntryIndex DEF CleanInv, DoneInv
    <3>2. done[t] \in DOMAIN undo[t]  BY <1>0, <3>1, EntryIndex
    <3>3. Appends(t) = {}  BY <2>1, NoAppends DEF AppendedPcs, EndedPcs
    <3> QED BY <3>2, <3>3 DEF Appends
  <2>3. UNCHANGED <<count, groups, inserted>>  BY <1>8, <2>2 DEF RollbackEntry
  <2> QED BY <1>1, <2>1, <2>3
<1>9. CASE CleanupDone(t)
  <2>1. UNCHANGED <<local, count, groups, seen, inserted>>  BY <1>9 DEF CleanupDone
  <2>2. \A u \in Txns : undo'[u] = IF u \in ToSet(work.txns) THEN <<>> ELSE undo[u]  BY <1>9 DEF CleanupDone
  <2>3. \A u \in ToSet(work.txns) : pc[u] \in EndedPcs  BY DEF CleanInv, PlaceInv
  <2>4. ASSUME NEW u \in Txns, u \in ToSet(work.txns) PROVE Appends(u)' = {}
    BY <2>2, <2>4 DEF Appends
  <2>5. ASSUME NEW u \in Txns, u \notin ToSet(work.txns) PROVE Appends(u)' = Appends(u) /\ undo'[u] = undo[u]
    BY <2>2, <2>5 DEF Appends
  <2> QED BY <2>1, <2>3, <2>4, <2>5 DEF SameAppends
<1>10. ~FlushFails(t)  BY SoundCommit
<1> QED BY <1>2, <1>3, <1>4, <1>5, <1>6, <1>7, <1>8, <1>9, <1>10 DEF Step

\* As many pairs as rows.
LEMMA PairsAre ==
  ASSUME NEW t, NEW n \in Nat
  PROVE  IsFiniteSet({t} \X (1 .. n)) /\ Cardinality({t} \X (1 .. n)) = n
<1>1. IsFiniteSet(1 .. n) /\ Cardinality(1 .. n) = n  BY FS_Interval
<1>2. IsFiniteSet({t}) /\ Cardinality({t}) = 1  BY FS_Singleton
<1> DEFINE P == {t} \X (1 .. n)
<1>3. IsFiniteSet(P) /\ Cardinality(P) = Cardinality({t}) * Cardinality(1 .. n)
  BY <1>1, <1>2, FS_Product
<1> QED BY <1>1, <1>2, <1>3

\* There are no more rows than the bound.
LEMMA RoomIs ==
  ASSUME DataTyped, RoomInv
  PROVE  /\ count \in Nat /\ count <= MaxRows /\ \A r \in 1 .. count : r \in Rows
         /\ IsFiniteSet(Placed) /\ Cardinality(Placed) \in Nat /\ Cardinality(Insertions) \in Nat
<1>1. Placed \subseteq Insertions /\ IsFiniteSet(Insertions)  BY DEF Placed, RoomInv
<1>2. /\ IsFiniteSet(Placed) /\ Cardinality(Placed) <= Cardinality(Insertions)
      /\ Cardinality(Placed) \in Nat /\ Cardinality(Insertions) \in Nat
  BY <1>1, FS_Subset, FS_CardinalityType
<1>3. count \in Nat /\ count <= MaxRows  BY <1>2, ConstantTypes DEF RoomInv, DataTyped
<1> QED BY <1>2, <1>3, ConstantTypes DEF Rows

\* With at least as many insertions placed, and no new ones, there is room.
LEMMA RoomStays ==
  ASSUME DataTyped, RoomInv, count' = count, Insertions' \subseteq Insertions, Placed \subseteq Placed'
  PROVE  RoomInv'
<1> DEFINE I == Insertions'  P == Placed'
<1>1. P \subseteq I  BY DEF Placed
<1>2. I \subseteq Insertions /\ Placed \subseteq P /\ IsFiniteSet(Insertions)  BY DEF RoomInv
<1> HIDE DEF I, P
<1>3. IsFiniteSet(I) /\ IsFiniteSet(P)  BY <1>1, <1>2, FS_Subset
<1>4. Cardinality(I) <= Cardinality(Insertions) /\ Cardinality(Placed) <= Cardinality(P)
  BY <1>2, <1>3, FS_Subset
<1>5. Cardinality(I) \in Nat /\ Cardinality(P) \in Nat /\ Cardinality(Insertions) \in Nat /\ Cardinality(Placed) \in Nat
  BY <1>3, RoomIs, FS_CardinalityType
<1>6. count \in Nat /\ LoadedRows \in Nat /\ MaxRows \in Nat  BY ConstantTypes DEF DataTyped
<1>7. count' <= LoadedRows + Cardinality(P) /\ LoadedRows + Cardinality(I) <= MaxRows
  BY <1>4, <1>5, <1>6 DEF RoomInv
<1> QED BY <1>3, <1>7 DEF RoomInv, I, P

\* What a local storage has put, or will put, into the table.
LEMMA InsertionsAre ==
  \A x : x \in Insertions <=> \E u \in Txns : \E k \in 1 .. local[u] : x = <<u, k>>
BY DEF Insertions

\* Every step leaves room.
LEMMA RoomKept ==
  ASSUME IInv, CleanInv, Sound, WalInv, AppendInv, RoomInv, NEW t \in Txns, Step(t)
  PROVE  RoomInv'
<1> USE DEF managerVars, lockVars, listVars, checkpointVars, versionVars, updateVars
<1>0. /\ DataTyped /\ TxnTyped /\ pc \in [Txns -> Pcs] /\ local \in [Txns -> Nat]
  BY DEF CleanInv, TxnTyped, IInv, Typed
<1>1. \A u \in Txns \ {t} : pc'[u] = pc[u] /\ local'[u] = local[u]  BY OthersStay
<1>2. pc[t] \in AppendedPcs => pc'[t] \in AppendedPcs
  BY <1>0, SoundMove DEF AppendedPcs, EndedPcs
<1>3. \A x : x \in Insertions' <=> \E u \in Txns : \E k \in 1 .. local'[u] : x = <<u, k>>
  BY DEF Insertions
<1>4. \A x : x \in Placed <=> \E u \in Txns : \E k \in 1 .. local[u] : x = <<u, k>> /\ pc[u] \in AppendedPcs
  BY InsertionsAre DEF Placed
<1>5. \A x : x \in Placed' <=> \E u \in Txns : \E k \in 1 .. local'[u] : x = <<u, k>> /\ pc'[u] \in AppendedPcs
  BY <1>3 DEF Placed
<1>6. CASE Insert(t)
  <2>1. /\ pc[t] = "running" /\ local'[t] = local[t] + 1 /\ count' = count
        /\ LoadedRows + Cardinality(Insertions) < MaxRows
    BY <1>0, <1>6 DEF Insert, CanChange, Running
  <2> DEFINE I == Insertions'  P == Placed'  x == <<t, local[t] + 1>>
  <2>2. I = Insertions \union {x}
    <3>1. \A k : k \in 1 .. local'[t] <=> k \in 1 .. local[t] \/ k = local[t] + 1  BY <1>0, <2>1
    <3> QED BY <1>1, <1>3, <3>1, InsertionsAre
  <2>3. Placed \subseteq P /\ P \subseteq I
    <3>1. pc[t] \notin AppendedPcs  BY <2>1 DEF AppendedPcs, EndedPcs
    <3>2. Placed \subseteq P  BY <1>1, <1>4, <1>5, <3>1
    <3> QED BY <3>2 DEF Placed
  <2> HIDE DEF I, P, x
  <2>4. IsFiniteSet(I) /\ Cardinality(I) <= Cardinality(Insertions) + 1
    <3>1. IsFiniteSet(Insertions) /\ Cardinality(Insertions) \in Nat  BY <1>0, RoomIs DEF RoomInv
    <3>2. IsFiniteSet(I) /\ Cardinality(I) = IF x \in Insertions THEN Cardinality(Insertions) ELSE Cardinality(Insertions) + 1
      BY <2>2, <3>1, FS_AddElement
    <3> QED BY <3>1, <3>2
  <2>5. IsFiniteSet(P) /\ Cardinality(Placed) <= Cardinality(P)
    BY <2>3, <2>4, FS_Subset
  <2>6. /\ Cardinality(I) \in Nat /\ Cardinality(P) \in Nat /\ count \in Nat /\ LoadedRows \in Nat /\ MaxRows \in Nat
        /\ Cardinality(Placed) \in Nat /\ Cardinality(Insertions) \in Nat
    BY <1>0, <2>4, <2>5, RoomIs, FS_CardinalityType, ConstantTypes
  <2>7. count' <= LoadedRows + Cardinality(P) /\ LoadedRows + Cardinality(I) <= MaxRows
    BY <2>1, <2>4, <2>5, <2>6 DEF RoomInv
  <2> QED BY <2>4, <2>7 DEF RoomInv, I, P
<1>7. CASE Rollback(t)
  <2>1. pc[t] \in {"running", "failed"} /\ local'[t] = 0 /\ count' = count  BY <1>0, <1>7 DEF Rollback
  <2>2. pc[t] \notin AppendedPcs  BY <2>1 DEF AppendedPcs, EndedPcs
  <2>3. Insertions' \subseteq Insertions  BY <1>1, <1>3, <2>1, InsertionsAre
  <2>4. Placed \subseteq Placed'  BY <1>1, <1>4, <1>5, <2>2
  <2> QED BY <1>0, <2>1, <2>3, <2>4, RoomStays
<1>8. CASE Grows(t) /\ (CommitDirectly(t) \/ WriteToWAL(t)) /\ pc[t] \in {"running", "wal"}
  <2>1. count' = count + local[t] /\ local[t] \in Nat \ {0} /\ count \in Nat  BY <1>8, GrowIs
  <2>2. local'[t] = local[t]  BY <1>8 DEF CommitDirectly, WriteToWAL
  <2>3. pc'[t] \in AppendedPcs /\ pc[t] \notin AppendedPcs
    BY <1>0, <1>8, SoundCommit DEF AppendedPcs, EndedPcs
  <2> DEFINE I == Insertions'  P == Placed'  N == {t} \X (1 .. local[t])
  <2>4. I = Insertions  BY <1>1, <1>3, <2>2, InsertionsAre
  <2>5. \A x : x \in N <=> \E k \in 1 .. local[t] : x = <<t, k>>  OBVIOUS
  <2>6. P = Placed \union N /\ Placed \cap N = {}
    <3>1. \A x : x \in P <=> x \in Placed \/ x \in N  BY <1>1, <1>4, <1>5, <2>2, <2>3, <2>5
    <3>2. \A x \in Placed : x \notin N  BY <1>4, <2>3, <2>5
    <3> QED BY <3>1, <3>2
  <2>7. IsFiniteSet(N) /\ Cardinality(N) = local[t]  BY <2>1, PairsAre
  <2> HIDE DEF I, P, N
  <2>8. Cardinality(P) = Cardinality(Placed) + Cardinality(N)
    <3>1. IsFiniteSet(Placed) /\ Cardinality(Placed) \in Nat  BY <1>0, RoomIs
    <3>2. Cardinality(P) = Cardinality(Placed) + Cardinality(N) - Cardinality({})
      BY <2>6, <2>7, <3>1, FS_Union
    <3>3. Cardinality({}) = 0  BY FS_EmptySet
    <3> QED BY <2>1, <2>7, <3>1, <3>2, <3>3
  <2>9. count' <= LoadedRows + Cardinality(P)
    <3>1. Cardinality(Placed) \in Nat /\ LoadedRows \in Nat  BY <1>0, RoomIs, ConstantTypes
    <3> QED BY <2>1, <2>7, <2>8, <3>1 DEF RoomInv
  <2> QED BY <2>4, <2>9 DEF RoomInv, I, P
<1>9. CASE ~Insert(t) /\ ~Rollback(t) /\ ~(Grows(t) /\ (CommitDirectly(t) \/ WriteToWAL(t)) /\ pc[t] \in {"running", "wal"})
  <2>1. count' = count  BY <1>9, AppendsFrame
  <2>2. local' = local
    <3>1. CASE Delete(t)  BY <1>0, <3>1, DeleteFrame
    <3>2. CASE Update(t)  BY <1>0, <3>2, UpdateFrame
    <3>3. CASE Start(t) \/ CommitThroughWAL(t) \/ CommitEntry(t) \/ CommitDone(t) \/ RollbackEntry(t)
      BY <3>3 DEF Start, CommitThroughWAL, CommitEntry, CommitDone, RollbackEntry
    <3>4. CASE CommitDirectly(t) \/ WriteToWAL(t) \/ TakeTimestamp(t) \/ FlushFails(t)
      BY <3>4 DEF CommitDirectly, WriteToWAL, TakeTimestamp, FlushFails
    <3>5. CASE Leave(t) \/ PopCleanup(t) \/ CleanupEntry(t)
      BY <3>5 DEF Leave, PopCleanup, CleanupEntry
    <3>6. CASE CleanupDone(t) \/ StartCheckpoint(t) \/ FinishCheckpoint(t)
      BY <3>6 DEF CleanupDone, StartCheckpoint, FinishCheckpoint
    <3> QED BY <1>9, <3>1, <3>2, <3>3, <3>4, <3>5, <3>6 DEF Step
  <2>3. Insertions' \subseteq Insertions  BY <1>3, <2>2, InsertionsAre
  <2>4. Placed \subseteq Placed'  BY <1>1, <1>2, <1>4, <1>5, <2>2
  <2> QED BY <1>0, <2>1, <2>3, <2>4, RoomStays
<1> QED BY <1>6, <1>7, <1>8, <1>9

\* Every step keeps the appends one after the other.
LEMMA AppendKept ==
  ASSUME IInv, CleanInv, Sound, WalInv, AppendInv, NEW t \in Txns, Step(t)
  PROVE  AppendInv'
<1>0. /\ DataTyped /\ TxnTyped /\ pc \in [Txns -> Pcs] /\ count \in Nat
  BY DEF CleanInv, DataTyped, IInv, Typed
<1>1. \A u \in Txns : pc[u] \in AppendedPcs => pc'[u] \in AppendedPcs
  <2>1. pc[t] \in AppendedPcs => pc'[t] \in AppendedPcs
    BY <1>0, SoundMove DEF AppendedPcs, EndedPcs
  <2> QED BY <2>1, OthersStay
<1>2. CASE UNCHANGED <<count, groups, seen>> /\ SameAppends
  <2>1. \A u \in Txns : \A i \in Appends(u)' : i \in Appends(u) /\ undo'[u][i] = undo[u][i] /\ local'[u] = local[u]
    BY <1>2 DEF SameAppends
  <2>2. groups' \subseteq 1 .. count'  BY <1>2 DEF AppendInv
  <2>3. ASSUME NEW u \in Txns, NEW i \in Appends(u)'
        PROVE  /\ pc'[u] \in AppendedPcs /\ local'[u] > 0
               /\ undo'[u][i].rows = undo'[u][i].at .. undo'[u][i].at + local'[u] - 1
               /\ undo'[u][i].at + local'[u] - 1 <= count'
               /\ \A g \in groups' : g <= undo'[u][i].at \/ g > undo'[u][i].at + local'[u] - 1
               /\ \A w \in Txns : \A j \in Appends(w)' :
                    u = w \/ undo'[u][i].rows \cap undo'[w][j].rows # {} => u = w /\ i = j
    <3>1. i \in Appends(u) /\ undo'[u][i] = undo[u][i] /\ local'[u] = local[u]  BY <2>1, <2>3
    <3>2. /\ pc[u] \in AppendedPcs /\ local[u] > 0
          /\ undo[u][i].rows = undo[u][i].at .. undo[u][i].at + local[u] - 1
          /\ undo[u][i].at + local[u] - 1 <= count
          /\ \A g \in groups : g <= undo[u][i].at \/ g > undo[u][i].at + local[u] - 1
          /\ \A w \in Txns : \A j \in Appends(w) :
               u = w \/ undo[u][i].rows \cap undo[w][j].rows # {} => u = w /\ i = j
      BY <3>1 DEF AppendInv
    <3> QED BY <1>1, <1>2, <2>1, <3>1, <3>2
  <2> QED BY <2>2, <2>3 DEF AppendInv
<1>3. CASE Grows(t) /\ (CommitDirectly(t) \/ WriteToWAL(t)) /\ pc[t] \in {"running", "wal"}
  <2> DEFINE n == Len(undo[t]) + 1
  <2>1. /\ Appends(t) = {} /\ local[t] \in Nat \ {0} /\ count' = count + local[t]
        /\ groups' = groups \/ groups' = groups \union {count + 1}
        /\ \A u \in Txns \ {t} : undo'[u] = undo[u] /\ Appends(u)' = Appends(u)
        /\ Appends(t)' = {n} /\ undo'[t][n] = Appended(t)
    BY <1>3, GrowIs
  <2>2. local' = local  BY <1>3 DEF CommitDirectly, WriteToWAL
  <2>3. pc'[t] \in AppendedPcs  BY <1>0, <1>3, SoundCommit DEF AppendedPcs
  <2>4. /\ undo'[t][n].at = count + 1 /\ undo'[t][n].rows = count + 1 .. count + local[t]
    BY <2>1 DEF Appended
  <2>5. groups' \subseteq 1 .. count' /\ \A g \in groups : g <= count
    <3>1. \A g \in groups : g \in Nat /\ 1 <= g /\ g <= count  BY <1>0 DEF AppendInv
    <3>2. \A g \in groups' : g \in groups \/ g = count + 1  BY <2>1
    <3>3. \A g \in groups' : g \in 1 .. count'  BY <1>0, <2>1, <3>1, <3>2
    <3> QED BY <3>1, <3>3
  <2> HIDE DEF n
  <2>6. ASSUME NEW u \in Txns \ {t}, NEW i \in Appends(u)
        PROVE  /\ pc'[u] \in AppendedPcs /\ local[u] > 0
               /\ undo[u][i].rows = undo[u][i].at .. undo[u][i].at + local[u] - 1
               /\ undo[u][i].at + local[u] - 1 <= count'
               /\ \A g \in groups' : g <= undo[u][i].at \/ g > undo[u][i].at + local[u] - 1
               /\ undo[u][i].rows \cap undo'[t][n].rows = {}
               /\ \A w \in Txns \ {t} : \A j \in Appends(w) :
                    u = w \/ undo[u][i].rows \cap undo[w][j].rows # {} => u = w /\ i = j
    <3>1. /\ pc[u] \in AppendedPcs /\ local[u] > 0
          /\ undo[u][i].rows = undo[u][i].at .. undo[u][i].at + local[u] - 1
          /\ undo[u][i].at + local[u] - 1 <= count
          /\ \A g \in groups : g <= undo[u][i].at \/ g > undo[u][i].at + local[u] - 1
          /\ \A w \in Txns : \A j \in Appends(w) :
               u = w \/ undo[u][i].rows \cap undo[w][j].rows # {} => u = w /\ i = j
      BY <2>6 DEF AppendInv
    <3>2. undo[u][i].at \in Nat /\ local[u] \in Nat
      <4>1. i \in DOMAIN undo[u]  BY <2>6 DEF Appends
      <4> QED BY <1>0, <4>1, EntryIndex, EntryTyped DEF TxnTyped
    <3>3. \A r \in undo[u][i].rows : r <= count  BY <1>0, <3>1, <3>2
    <3>4. undo[u][i].rows \cap undo'[t][n].rows = {}  BY <1>0, <2>1, <2>4, <3>3
    <3>5. undo[u][i].at + local[u] - 1 <= count'  BY <1>0, <2>1, <3>1, <3>2
    <3>6. \A g \in groups' : g <= undo[u][i].at \/ g > undo[u][i].at + local[u] - 1
      BY <1>0, <2>1, <3>1, <3>2
    <3> QED BY <1>1, <3>1, <3>4, <3>5, <3>6
  <2>7. ASSUME NEW u \in Txns, NEW i \in Appends(u)'
        PROVE  /\ pc'[u] \in AppendedPcs /\ local'[u] > 0
               /\ undo'[u][i].rows = undo'[u][i].at .. undo'[u][i].at + local'[u] - 1
               /\ undo'[u][i].at + local'[u] - 1 <= count'
               /\ \A g \in groups' : g <= undo'[u][i].at \/ g > undo'[u][i].at + local'[u] - 1
               /\ \A w \in Txns : \A j \in Appends(w)' :
                    u = w \/ undo'[u][i].rows \cap undo'[w][j].rows # {} => u = w /\ i = j
    <3>1. CASE u = t
      <4>1. i = n  BY <2>1, <2>7, <3>1
      <4>2. \A g \in groups' : g <= count + 1  BY <1>0, <2>1, <2>5
      <4>3. /\ local[t] > 0 /\ undo'[t][n].rows = undo'[t][n].at .. undo'[t][n].at + local[t] - 1
            /\ undo'[t][n].at + local[t] - 1 <= count'
        BY <1>0, <2>1, <2>4
      <4>4. \A w \in Txns : \A j \in Appends(w)' :
              t = w \/ undo'[t][n].rows \cap undo'[w][j].rows # {} => t = w /\ n = j
        BY <2>1, <2>6
      <4> QED BY <2>2, <2>3, <2>4, <3>1, <4>1, <4>2, <4>3, <4>4
    <3>2. CASE u # t
      <4>1. u \in Txns \ {t} /\ i \in Appends(u) /\ undo'[u] = undo[u]  BY <2>1, <2>7, <3>2
      <4>2. \A w \in Txns : \A j \in Appends(w)' :
              u = w \/ undo'[u][i].rows \cap undo'[w][j].rows # {} => u = w /\ i = j
        <5>1. \A j \in Appends(t)' : j = n  BY <2>1
        <5>2. undo[u][i].rows \cap undo'[t][n].rows = {}  BY <2>6, <4>1
        <5>3. \A w \in Txns \ {t} : \A j \in Appends(w)' : j \in Appends(w) /\ undo'[w] = undo[w]  BY <2>1
        <5>4. \A w \in Txns \ {t} : \A j \in Appends(w) :
                u = w \/ undo[u][i].rows \cap undo[w][j].rows # {} => u = w /\ i = j
          BY <2>6, <4>1
        <5> QED BY <3>2, <4>1, <5>1, <5>2, <5>3, <5>4
      <4> QED BY <2>2, <2>6, <4>1, <4>2
    <3> QED BY <3>1, <3>2
  <2> QED BY <2>5, <2>7 DEF AppendInv
<1> QED BY <1>2, <1>3, AppendsFrame

\* An append has the rows from its first one on, and they are there.
LEMMA AppendIs ==
  ASSUME DataTyped, TxnTyped, AppendInv, NEW t \in Txns, NEW i \in Appends(t)
  PROVE  /\ i \in DOMAIN undo[t] /\ i \in Nat /\ i > 0 /\ i <= Len(undo[t]) /\ undo[t][i].kind = "append"
         /\ undo[t][i].at \in Nat /\ undo[t][i].at > 0 /\ local[t] \in Nat /\ local[t] > 0 /\ count \in Nat
         /\ undo[t][i].rows = undo[t][i].at .. undo[t][i].at + local[t] - 1
         /\ undo[t][i].at + local[t] - 1 <= count /\ \A r \in undo[t][i].rows : r \in 1 .. count
         /\ Max(undo[t][i].rows) = undo[t][i].at + local[t] - 1
<1>1. i \in DOMAIN undo[t] /\ i \in Nat /\ i > 0 /\ i <= Len(undo[t]) /\ undo[t][i].kind = "append"
  BY EntryIndex DEF Appends
<1>2. undo[t][i].at \in Nat /\ undo[t][i].at > 0 /\ local[t] \in Nat /\ local[t] > 0 /\ count \in Nat
  BY <1>1, EntryIndex, EntryTyped DEF AppendInv, TxnTyped, DataTyped
<1>3. /\ undo[t][i].rows = undo[t][i].at .. undo[t][i].at + local[t] - 1
      /\ undo[t][i].at + local[t] - 1 <= count
  BY DEF AppendInv
<1>4. \A r \in undo[t][i].rows : r \in 1 .. count  BY <1>2, <1>3
<1> DEFINE S == undo[t][i].rows  n == undo[t][i].at + local[t] - 1
<1>5. S \subseteq Nat /\ n \in S /\ n \in Nat /\ \A x \in S : x <= n  BY <1>2, <1>3
<1> HIDE DEF S, n
<1>6. Max(S) \in S /\ \A x \in S : x <= Max(S)  BY <1>5, GreatestExists
<1>7. Max(S) = n
  <2>1. n <= Max(S) /\ Max(S) <= n /\ Max(S) \in Nat /\ n \in Nat  BY <1>5, <1>6
  <2> QED BY <2>1
<1> QED BY <1>1, <1>2, <1>3, <1>4, <1>7 DEF S, n

\* Committing an entry gives the rows it has appended the id of the commit.
LEMMA CommitEntryIs ==
  ASSUME DataTyped, TxnTyped, AppendInv, RoomInv, NEW t \in Txns, CommitEntry(t)
  PROVE  /\ pc[t] = "commit" /\ done[t] \in Nat /\ done[t] + 1 \in DOMAIN undo[t]
         /\ done' = [done EXCEPT ![t] = done[t] + 1]
         /\ \A r \in 1 .. count :
              inserted'[r] = IF done[t] + 1 \in Appends(t) /\ r \in undo[t][done[t] + 1].rows
                             THEN commit_id[t] ELSE inserted[r]
<1>1. pc[t] = "commit" /\ done[t] < Len(undo[t]) /\ done' = [done EXCEPT ![t] = done[t] + 1]
      /\ Mark(t, undo[t][done[t] + 1], commit_id[t])
  BY DEF CommitEntry
<1>2. done[t] \in Nat /\ done[t] + 1 \in DOMAIN undo[t]  BY <1>1, EntryIndex
<1>3. \A r \in 1 .. count : r \in Rows  BY RoomIs
<1> QED BY <1>1, <1>2, <1>3 DEF Mark, Appends

\* Cleaning up an entry takes ids that are not younger than its commit, and that of
\* the last row of a vector only with the entry that has appended it.
CleanedUp(u, r) ==
  /\ pc[u] \in EndedPcs /\ done' = [done EXCEPT ![u] = done[u] + 1] /\ done[u] + 1 \in Appends(u)
  /\ u \in ToSet(work.txns) /\ commit_id[u] <= work.lowest
  /\ inserted[r] <= commit_id[u] /\ commit_id[u] <= active_checkpoint
  /\ r = Vec(r) + VectorSize - 1 => r \in undo[u][done[u] + 1].rows

\* It takes them of such rows only.
LEMMA CleanupEntryTakes ==
  ASSUME IInv, CleanInv, AppendInv, RoomInv, PendingInv, RipeInv, NEW t \in Txns, CleanupEntry(t)
  PROVE  /\ \E u \in Txns : pc[u] \in EndedPcs /\ done[u] \in Nat /\ done' = [done EXCEPT ![u] = done[u] + 1]
         /\ \A r \in 1 .. count : \/ inserted'[r] = inserted[r]
                                  \/ inserted'[r] = 0 /\ \E u \in Txns : CleanedUp(u, r)
<1>0. DataTyped /\ TxnTyped /\ ManagerTyped /\ groups \subseteq Nat  BY DEF CleanInv, DataTyped
<1>1. PICK u \in ToSet(work.txns) \cap Txns :
           /\ Committed(u) /\ done[u] < Len(undo[u])
           /\ done' = [done EXCEPT ![u] = @ + 1]
           /\ LET rec == undo[u][done[u] + 1]
              IN  /\ rec \in Records
                  /\ \/ rec.kind = "append" /\ CleanupAppend(rec.rows, work.lowest) /\ UNCHANGED chain
                     \/ rec.kind = "update" /\ Unlink(rec.at, u) /\ UNCHANGED inserted
                     \/ rec.kind = "delete" /\ UNCHANGED <<chain, inserted>>
  BY <1>0, CleanupEntryIs
<1> DEFINE i == done[u] + 1
<1>2. pc[u] \in EndedPcs /\ done' = [done EXCEPT ![u] = i] /\ u \in Txns /\ u \in ToSet(work.txns)
  BY <1>1 DEF CleanInv, PlaceInv
<1>3. done[u] \in Nat /\ i \in DOMAIN undo[u] /\ i > done[u]  BY <1>0, <1>1, EntryIndex
<1>4. ASSUME NEW r \in 1 .. count, inserted'[r] # inserted[r]
      PROVE  inserted'[r] = 0 /\ CleanedUp(u, r)
  <2> DEFINE rows == undo[u][i].rows  v == Vec(r)  e == v + VectorSize - 1
             last == undo[u][i].at + local[u] - 1
  <2>0. r \in Rows /\ r \in Nat \ {0}  BY <1>0, <1>4, RoomIs
  <2>1. undo[u][i].kind = "append" /\ CleanupAppend(rows, work.lowest)  BY <1>1, <1>4
  <2>2. i \in Appends(u)  BY <1>3, <2>1 DEF Appends
  <2>3. /\ inserted'[r] = 0 /\ Vec(r) \in {Vec(y) : y \in rows}
        /\ Compressible(Vec(r), Max(rows), work.lowest)
    BY <1>4, <2>0, <2>1 DEF CleanupAppend
  <2>4. PICK x \in rows : Vec(x) = v  BY <2>3
  <2>5. /\ undo[u][i].at \in Nat /\ undo[u][i].at > 0 /\ local[u] \in Nat /\ local[u] > 0
        /\ rows = undo[u][i].at .. last /\ Max(rows) = last /\ x \in Nat \ {0} /\ last \in Nat
    <3>1. /\ undo[u][i].at \in Nat /\ undo[u][i].at > 0 /\ local[u] \in Nat /\ local[u] > 0
          /\ rows = undo[u][i].at .. last /\ Max(rows) = last
      BY <1>0, <1>2, <2>2, AppendIs
    <3> QED BY <2>4, <3>1
  <2>6. x <= e /\ r <= e /\ v \in Nat /\ 1 <= v /\ VectorSize \in Nat /\ VectorSize >= 2
    <3>1. VectorSize \in Nat /\ VectorSize >= 2  BY RowsAssumption
    <3>2. x <= Vec(x) + VectorSize - 1  BY <1>0, <2>5, VecEnd
    <3>3. r <= v + VectorSize - 1 /\ v \in Nat /\ 1 <= v  BY <1>0, <2>0, VecEnd
    <3> QED BY <2>4, <3>1, <3>2, <3>3
  <2>7. e <= last /\ \A y \in v + 1 .. e : inserted[y] <= work.lowest
    BY <2>3, <2>5 DEF Compressible
  <2> HIDE DEF i, v, e, last, rows
  <2>8. e \in Nat \ {0} /\ e = v + VectorSize - 1 /\ e \in v + 1 .. e  BY <2>6 DEF e
  <2>9. e \in rows  BY <2>5, <2>6, <2>7, <2>8
  <2>10. Vec(e) = v
    <3>1. \A g \in groups : g <= undo[u][i].at \/ g > last  BY <2>2 DEF AppendInv, last, i
    <3>2. \A g \in groups : g <= x \/ g > e  BY <1>0, <2>4, <2>5, <2>7, <2>8, <3>1
    <3>3. e <= Vec(x) + VectorSize - 1  BY <2>4, <2>8
    <3> QED BY <1>0, <2>4, <2>5, <2>6, <2>8, <3>2, <3>3, VecSame
  <2>11. inserted[e] = commit_id[u]
    BY <1>2, <1>3, <2>2, <2>8, <2>9, <2>10 DEF PendingInv, rows, i
  <2>12. commit_id[u] <= work.lowest  BY <2>7, <2>8, <2>11
  <2>13. Full(u) /\ commit_id[u] <= active_checkpoint  BY <1>2, <2>12 DEF RipeInv, Ripe
  <2>14. inserted[r] <= commit_id[u]
    <3>1. r \in 1 .. last  BY <2>0, <2>5, <2>6, <2>7, <2>8
    <3> QED BY <2>2, <2>13, <3>1 DEF Full, last, i
  <2>15. r = Vec(r) + VectorSize - 1 => r \in rows  BY <2>9 DEF e, v
  <2> QED BY <1>2, <2>2, <2>3, <2>12, <2>13, <2>14, <2>15 DEF CleanedUp, rows, i
<1> QED BY <1>2, <1>3, <1>4

\* All in all, the id of a row that is there changes twice: when its commit
\* takes effect, and when it is cleaned up.
LEMMA InsertedIs ==
  ASSUME IInv, CleanInv, Sound, WalInv, AppendInv, RoomInv, PendingInv, RipeInv,
         NEW t \in Txns, Step(t), NEW r \in 1 .. count
  PROVE  \/ inserted'[r] = inserted[r]
         \/ /\ CommitEntry(t) /\ done[t] + 1 \in Appends(t) /\ r \in undo[t][done[t] + 1].rows
            /\ inserted'[r] = commit_id[t]
         \/ /\ CleanupEntry(t) /\ inserted'[r] = 0 /\ \E u \in Txns : CleanedUp(u, r)
<1>0. DataTyped /\ TxnTyped /\ r \in Rows  BY RoomIs DEF CleanInv
<1>1. CASE Grows(t) /\ pc[t] \in {"running", "wal"}
  <2>1. inserted' = [x \in Rows |-> IF x \in count + 1 .. count + local[t] THEN transaction_id[t] ELSE inserted[x]]
    BY <1>1, GrowIs
  <2>2. r \notin count + 1 .. count + local[t]  BY <1>0 DEF DataTyped
  <2> QED BY <1>0, <2>1, <2>2
<1>2. CASE CommitEntry(t)  BY <1>0, <1>2, CommitEntryIs
<1>3. CASE CleanupEntry(t)  BY <1>3, CleanupEntryTakes
<1> QED BY <1>1, <1>2, <1>3, AppendsFrame

\* Which steps change what a transaction has of its own.
LEMMA FieldsStay ==
  ASSUME IInv, CleanInv, Sound, WalInv, NEW t \in Txns, Step(t)
  PROVE  /\ Start(t) \/ Leave(t) \/ (transaction_id'[t] = transaction_id[t] /\ start_time'[t] = start_time[t])
         /\ CommitDirectly(t) \/ TakeTimestamp(t) \/ commit_id' = commit_id
         /\ \/ last_commit' = last_commit /\ ~CommitDone(t)
            \/ last_commit' = commit_id[t] /\ CommitDone(t)
         /\ CleanupEntry(t) \/ \A u \in Txns \ {t} : done'[u] = done[u]
         /\ \/ CommitEntry(t) \/ CleanupEntry(t) \/ Leave(t) \/ Rollback(t) \/ RollbackEntry(t)
            \/ done' = done
<1> USE DEF managerVars, lockVars, listVars, checkpointVars, versionVars, updateVars
<1>0. /\ DataTyped /\ TxnTyped /\ done \in [Txns -> Nat] /\ ~FlushFails(t)
  BY SoundCommit DEF CleanInv, TxnTyped
<1>1. CASE Start(t) \/ Insert(t)
  BY <1>1 DEF Start, Insert, CommitDone, Running, CanChange
<1>2. CASE Delete(t)
  <2>1. pc[t] = "running" /\ UNCHANGED <<transaction_id, start_time, commit_id, last_commit, done>>
    BY <1>0, <1>2, DeleteFrame
  <2> QED BY <2>1 DEF CommitDone
<1>3. CASE Update(t)
  <2>1. pc[t] = "running" /\ UNCHANGED <<transaction_id, start_time, commit_id, last_commit, done>>
    BY <1>0, <1>3, UpdateFrame
  <2> QED BY <2>1 DEF CommitDone
<1>4. CASE CommitDirectly(t) \/ TakeTimestamp(t)
  <2>1. pc[t] # "commit" /\ UNCHANGED <<transaction_id, start_time, last_commit>>
    BY <1>4 DEF CommitDirectly, TakeTimestamp, Running
  <2>2. done' = done  BY <1>4, SoundCommit
  <2> QED BY <1>4, <2>1, <2>2 DEF CommitDone
<1>5. CASE CommitThroughWAL(t) \/ WriteToWAL(t)
  BY <1>5 DEF CommitThroughWAL, WriteToWAL, CommitDone, Running
<1>6. CASE CommitEntry(t)
  BY <1>0, <1>6 DEF CommitEntry, CommitDone
<1>7. CASE CommitDone(t)  BY <1>7 DEF CommitDone
<1>8. CASE Rollback(t) \/ RollbackEntry(t)
  BY <1>0, <1>8 DEF Rollback, RollbackEntry, GotoRollback, CommitDone
<1>9. CASE Leave(t)  BY <1>0, <1>9 DEF Leave, CommitDone
<1>10. CASE CleanupEntry(t)  BY <1>10 DEF CleanupEntry, CommitDone
<1>11. CASE PopCleanup(t) \/ CleanupDone(t) \/ StartCheckpoint(t) \/ FinishCheckpoint(t)
  BY <1>11 DEF PopCleanup, CleanupDone, StartCheckpoint, FinishCheckpoint, CommitDone
<1> QED BY <1>0, <1>1, <1>2, <1>3, <1>4, <1>5, <1>6, <1>7, <1>8, <1>9, <1>10, <1>11 DEF Step

\* A row belongs to one append.
LEMMA RowOnce ==
  ASSUME AppendInv, NEW u \in Txns, NEW w \in Txns, NEW i \in Appends(u), NEW j \in Appends(w), NEW r,
         r \in undo[u][i].rows, r \in undo[w][j].rows
  PROVE  u = w /\ i = j
<1>1. undo[u][i].rows \cap undo[w][j].rows # {}  OBVIOUS
<1> QED BY <1>1 DEF AppendInv

\* The rows of a commit keep the ids that are said to be theirs.
LEMMA PendingStays ==
  ASSUME IInv, CleanInv, Sound, IdsInv, TimesInv, WalInv, AppendInv, RoomInv, PendingInv, RipeInv,
         NEW t \in Txns, Step(t), NEW u \in Txns, NEW i \in Appends(u), NEW r \in undo[u][i].rows
  PROVE  /\ pc'[u] = "written" => inserted'[r] = transaction_id'[u]
         /\ pc'[u] = "commit" => inserted'[r] = IF i <= done'[u] THEN commit_id'[u] ELSE transaction_id'[u]
         /\ (pc'[u] = "remove" \/ (pc'[u] \in EndedPcs /\ i > done'[u])) /\ r = Vec(r) + VectorSize - 1
              => inserted'[r] = commit_id'[u]
<1>0. /\ DataTyped /\ TxnTyped /\ pc \in [Txns -> Pcs] /\ done \in [Txns -> Nat] /\ inserted \in [Rows -> Nat]
      /\ commit_id \in [Txns -> Nat] /\ transaction_id \in [Txns -> Nat]
  BY DEF CleanInv, DataTyped, TxnTyped, IInv, Typed
<1>1. r \in 1 .. count /\ i \in Nat /\ i > 0 /\ i <= Len(undo[u])  BY <1>0, AppendIs
<1>2. \/ inserted'[r] = inserted[r]
      \/ /\ CommitEntry(t) /\ done[t] + 1 \in Appends(t) /\ r \in undo[t][done[t] + 1].rows
         /\ inserted'[r] = commit_id[t]
      \/ /\ CleanupEntry(t) /\ inserted'[r] = 0 /\ \E w \in Txns : CleanedUp(w, r)
  BY <1>1, InsertedIs
<1>3. \A w \in Txns : CleanedUp(w, r) =>
        /\ pc[w] \in EndedPcs /\ inserted[r] <= commit_id[w] /\ commit_id[w] <= last_commit
        /\ r = Vec(r) + VectorSize - 1 => w = u /\ i = done[u] + 1 /\ done' = [done EXCEPT ![u] = done[u] + 1]
  BY RowOnce DEF CleanedUp, TimesInv
<1>4. /\ pc[u] = "written" => inserted[r] = transaction_id[u]
      /\ pc[u] = "commit" => inserted[r] = IF i <= done[u] THEN commit_id[u] ELSE transaction_id[u]
      /\ (pc[u] = "remove" \/ (pc[u] \in EndedPcs /\ i > done[u])) /\ r = Vec(r) + VectorSize - 1
           => inserted[r] = commit_id[u]
  BY DEF PendingInv
<1>5. pc[u] \in AppendedPcs  BY DEF AppendInv
<1>6. /\ \A w \in Txns \ {t} : pc'[w] = pc[w] /\ commit_id'[w] = commit_id[w] /\ transaction_id'[w] = transaction_id[w]
      /\ Start(t) \/ Leave(t) \/ transaction_id'[t] = transaction_id[t]
      /\ CommitDirectly(t) \/ TakeTimestamp(t) \/ commit_id' = commit_id
      /\ CleanupEntry(t) \/ \A w \in Txns \ {t} : done'[w] = done[w]
      /\ CommitEntry(t) \/ CleanupEntry(t) \/ Leave(t) \/ Rollback(t) \/ RollbackEntry(t) \/ done' = done
  BY OthersStay, FieldsStay
<1>7. \A w \in Txns : commit_id[w] \in Nat /\ (pc[w] \in Live => \A x \in Txns : commit_id[x] < transaction_id[w])
  BY IdsAre, ConstantTypes
<1>8. last_commit \in Nat /\ (pc[u] \in {"written", "commit"} => last_commit < transaction_id[u])
      /\ (pc[u] = "commit" => last_commit < commit_id[u])
  BY IdsAre, ConstantTypes DEF TimesInv, Live
<1>9. /\ CommitEntry(t) => pc[t] = "commit" /\ pc' = pc
      /\ CleanupEntry(t) => pc[t] = "cleaning" /\ pc' = pc
      /\ Leave(t) => pc[t] \in {"remove", "rollback"} /\ pc'[t] = "cleanup"
      /\ Rollback(t) => pc[t] \in {"running", "failed"}
      /\ RollbackEntry(t) => pc[t] = "rollback"
      /\ Start(t) => pc[t] = "new"
      /\ CommitDirectly(t) => pc[t] = "running"
      /\ TakeTimestamp(t) => pc[t] = "written"
  BY <1>0 DEF CommitEntry, CleanupEntry, Leave, Rollback, RollbackEntry, Start, CommitDirectly, TakeTimestamp,
    Running, Goto
<1> USE DEF AppendedPcs, EndedPcs, Live
<1>10. CASE pc[u] = "written"
  <2>1. inserted'[r] = inserted[r]
    <3>1. ~(CommitEntry(t) /\ done[t] + 1 \in Appends(t) /\ r \in undo[t][done[t] + 1].rows)
      BY <1>9, <1>10, RowOnce
    <3>2. \A w \in Txns : ~CleanedUp(w, r)  BY <1>0, <1>1, <1>3, <1>4, <1>7, <1>8, <1>10
    <3> QED BY <1>2, <3>1, <3>2
  <2>2. transaction_id'[u] = transaction_id[u]  BY <1>6, <1>9, <1>10
  <2>3. done[u] = 0 /\ done'[u] = 0
    <3>1. done[u] = 0  BY <1>10 DEF CleanInv, DoneInv
    <3>2. CleanupEntry(t) => done'[u] = done[u]
      <4>1. CleanupEntry(t) => \E w \in Txns : pc[w] \in EndedPcs /\ done' = [done EXCEPT ![w] = done[w] + 1]
        BY CleanupEntryTakes
      <4> QED BY <1>0, <1>10, <4>1
    <3> QED BY <1>6, <1>9, <1>10, <3>1, <3>2
  <2>4. pc'[u] \in {"written", "commit"}
    <3>1. u = t => pc'[u] \in {"written", "commit"}  BY <1>0, <1>10, SoundMove
    <3> QED BY <1>6, <1>10, <3>1
  <2> QED BY <1>1, <1>4, <1>10, <2>1, <2>2, <2>3, <2>4
<1>11. CASE pc[u] = "commit"
  <2>1. \A w \in Txns : ~CleanedUp(w, r)  BY <1>0, <1>1, <1>3, <1>4, <1>7, <1>8, <1>11
  <2>2. transaction_id'[u] = transaction_id[u] /\ commit_id'[u] = commit_id[u]  BY <1>6, <1>9, <1>11
  <2>3. CASE CommitEntry(t)
    <3>1. u = t  BY <1>9, <1>11, <2>3, LockIsExclusive DEF LockPcs
    <3>2. done'[u] = done[u] + 1  BY <1>0, <2>3, <3>1, CommitEntryIs DEF CleanInv
    <3>3. \A x \in 1 .. count :
              inserted'[x] = IF done[u] + 1 \in Appends(u) /\ x \in undo[u][done[u] + 1].rows
                             THEN commit_id[u] ELSE inserted[x]
      BY <1>0, <2>3, <3>1, CommitEntryIs
    <3>4. CASE i = done[u] + 1
      <4>1. inserted'[r] = commit_id[u]  BY <1>1, <3>3, <3>4
      <4> QED BY <1>9, <1>11, <2>2, <2>3, <3>2, <3>4, <4>1, <1>1
    <3>5. CASE i # done[u] + 1
      <4>1. inserted'[r] = inserted[r]  BY <1>1, <3>3, <3>5, RowOnce
      <4>2. i <= done'[u] <=> i <= done[u]  BY <1>0, <1>1, <3>2, <3>5
      <4> QED BY <1>4, <1>9, <1>11, <2>2, <2>3, <4>1, <4>2
    <3> QED BY <3>4, <3>5
  <2>4. CASE ~CommitEntry(t)
    <3>1. inserted'[r] = inserted[r]  BY <1>2, <2>1, <2>4
    <3>2. done'[u] = done[u]
      <4>1. CleanupEntry(t) => \E w \in Txns : pc[w] \in EndedPcs /\ done' = [done EXCEPT ![w] = done[w] + 1]
        BY CleanupEntryTakes
      <4>2. CleanupEntry(t) => done'[u] = done[u]  BY <1>0, <1>11, <4>1
      <4> QED BY <1>6, <1>9, <1>11, <2>4, <4>2
    <3>3. CASE pc'[u] = "commit"  BY <1>4, <1>11, <2>2, <3>1, <3>2, <3>3
    <3>4. CASE pc'[u] # "commit"
      <4>1. u = t /\ pc'[u] = "remove" /\ CommitDone(t)  BY <1>0, <1>6, <1>11, <3>4, SoundMove
      <4>2. done[u] = Len(undo[u])  BY <4>1 DEF CommitDone
      <4> QED BY <1>1, <1>4, <1>11, <2>2, <3>1, <4>1, <4>2
    <3> QED BY <3>3, <3>4
  <2> QED BY <2>3, <2>4
<1>12. CASE pc[u] = "remove" \/ pc[u] \in EndedPcs
  <2>1. pc'[u] \in {"remove"} \union EndedPcs /\ (pc[u] \in EndedPcs => pc'[u] \in EndedPcs)
    <3>1. u = t => pc'[u] \in {"remove"} \union EndedPcs /\ (pc[u] \in EndedPcs => pc'[u] \in EndedPcs)
      BY <1>0, <1>12, SoundMove
    <3> QED BY <1>6, <1>12, <3>1
  <2>2. commit_id'[u] = commit_id[u]  BY <1>6, <1>9, <1>12
  <2>3. ASSUME r = Vec(r) + VectorSize - 1, pc'[u] = "remove" \/ (pc'[u] \in EndedPcs /\ i > done'[u])
        PROVE  inserted'[r] = commit_id'[u]
    <3>1. ~(CommitEntry(t) /\ done[t] + 1 \in Appends(t) /\ r \in undo[t][done[t] + 1].rows)
      BY <1>9, <1>12, RowOnce
    <3>2. CASE pc[u] = "remove"
      <4>1. \A w \in Txns : ~CleanedUp(w, r)  BY <1>3, <2>3, <3>2
      <4> QED BY <1>2, <1>4, <2>2, <2>3, <3>1, <3>2, <4>1
    <3>3. CASE pc[u] \in EndedPcs
      <4>1. i > done'[u] /\ done[u] \in Nat  BY <1>0, <2>1, <2>3, <3>3
      <4>2. \A w \in Txns : ~CleanedUp(w, r)  BY <1>0, <1>3, <2>3, <4>1
      <4>3. inserted'[r] = inserted[r]  BY <1>2, <3>1, <4>2
      <4>4. i > done[u]
        <5>1. done'[u] = done[u] \/ done'[u] = done[u] + 1
          <6>1. CleanupEntry(t) => \E w \in Txns : pc[w] \in EndedPcs /\ done' = [done EXCEPT ![w] = done[w] + 1]
            BY CleanupEntryTakes
          <6>2. CleanupEntry(t) => done'[u] = done[u] \/ done'[u] = done[u] + 1  BY <1>0, <6>1
          <6>3. ~CleanupEntry(t) => done'[u] = done[u]  BY <1>6, <1>9, <3>3
          <6> QED BY <6>2, <6>3
        <5> QED BY <1>1, <4>1, <5>1
      <4> QED BY <1>4, <2>2, <2>3, <3>3, <4>3, <4>4
    <3> QED BY <1>12, <3>2, <3>3
  <2> QED BY <2>1, <2>3
<1> QED BY <1>5, <1>10, <1>11, <1>12

\* The vectors of the rows there are stay.
LEMMA VecsStay ==
  ASSUME IInv, CleanInv, Sound, WalInv, AppendInv, NEW t \in Txns, Step(t), NEW r \in 1 .. count
  PROVE  Vec(r)' = Vec(r)
<1>0. groups \subseteq Nat /\ count \in Nat /\ r \in Nat \ {0}  BY DEF CleanInv, DataTyped
<1>1. groups' = groups \/ groups' = groups \union {count + 1}
  BY AppendsFrame, GrowIs
<1>2. groups' \subseteq Nat /\ groups \subseteq groups' /\ \A g \in groups' : g \in groups \/ g > r
  <2>1. \A g \in groups' : g \in groups \/ g = count + 1  BY <1>1
  <2>2. \A g \in groups' : g \in Nat
    <3>1. \A g \in groups : g \in Nat  BY <1>0
    <3>2. count + 1 \in Nat  BY <1>0
    <3> QED BY <2>1, <3>1, <3>2
  <2>3. count + 1 > r  BY <1>0
  <2> QED BY <1>1, <2>1, <2>2, <2>3
<1> QED BY <1>0, <1>2, VecOld

\* Who has appended before has done so now.
LEMMA OldOrNew ==
  ASSUME IInv, CleanInv, Sound, WalInv, AppendInv, NEW t \in Txns, Step(t),
         NEW u \in Txns, NEW i \in Appends(u)'
  PROVE  \/ i \in Appends(u) /\ undo'[u][i] = undo[u][i] /\ local'[u] = local[u]
         \/ u = t /\ i = Len(undo[t]) + 1 /\ Grows(t) /\ (CommitDirectly(t) \/ WriteToWAL(t)) /\ pc[t] \in {"running", "wal"}
<1>1. CASE SameAppends  BY <1>1 DEF SameAppends
<1>2. CASE Grows(t) /\ (CommitDirectly(t) \/ WriteToWAL(t)) /\ pc[t] \in {"running", "wal"}
  <2>1. Appends(t)' = {Len(undo[t]) + 1} /\ \A w \in Txns \ {t} : undo'[w] = undo[w] /\ Appends(w)' = Appends(w)
    BY <1>2, GrowIs
  <2>2. local' = local  BY <1>2 DEF CommitDirectly, WriteToWAL
  <2> QED BY <1>2, <2>1, <2>2
<1> QED BY <1>1, <1>2, AppendsFrame

\* Every step keeps the ids of the rows of a commit.
LEMMA PendingKept ==
  ASSUME IInv, CleanInv, Sound, IdsInv, TimesInv, WalInv, AppendInv, RoomInv, RoomInv', PendingInv, RipeInv,
         NEW t \in Txns, Step(t)
  PROVE  PendingInv'
<1>0. /\ DataTyped /\ TxnTyped /\ pc \in [Txns -> Pcs] /\ done \in [Txns -> Nat] /\ count \in Nat
      /\ DataTyped' /\ transaction_id \in [Txns -> Nat]
  BY DataTypedKept DEF CleanInv, DataTyped, TxnTyped, IInv, Typed
<1>1. ASSUME NEW u \in Txns, NEW i \in Appends(u)', NEW r \in undo'[u][i].rows
      PROVE  /\ pc'[u] = "written" => inserted'[r] = transaction_id'[u]
             /\ pc'[u] = "commit" => inserted'[r] = IF i <= done'[u] THEN commit_id'[u] ELSE transaction_id'[u]
             /\ (pc'[u] = "remove" \/ (pc'[u] \in EndedPcs /\ i > done'[u])) /\ r = Vec(r)' + VectorSize - 1
                  => inserted'[r] = commit_id'[u]
  <2>1. CASE i \in Appends(u) /\ undo'[u][i] = undo[u][i]
    <3>1. r \in undo[u][i].rows  BY <1>1, <2>1
    <3>2. r \in 1 .. count  BY <1>0, <2>1, <3>1, AppendIs
    <3>3. Vec(r)' = Vec(r)  BY <3>2, VecsStay
    <3> QED BY <2>1, <3>1, <3>3, PendingStays
  <2>2. CASE u = t /\ i = Len(undo[t]) + 1 /\ Grows(t) /\ (CommitDirectly(t) \/ WriteToWAL(t)) /\ pc[t] \in {"running", "wal"}
    <3>1. /\ undo'[t][i] = Appended(t) /\ count' = count + local[t] /\ Len(undo[t]) \in Nat
          /\ inserted' = [x \in Rows |-> IF x \in count + 1 .. count + local[t] THEN transaction_id[t] ELSE inserted[x]]
          /\ local[t] \in Nat \ {0}
      BY <2>2, GrowIs
    <3>2. r \in count + 1 .. count + local[t]  BY <1>1, <2>2, <3>1 DEF Appended
    <3>3. r \in Rows
      <4>1. \A x \in 1 .. count' : x \in Rows
        <5>1. count' \in Nat /\ count' <= MaxRows
          <6>1. (DataTyped /\ RoomInv => count \in Nat /\ count <= MaxRows)'  BY RoomIs, PTL
          <6> QED BY <1>0, <6>1
        <5> QED BY <5>1, ConstantTypes DEF Rows
      <4>2. r \in 1 .. count'  BY <1>0, <3>1, <3>2
      <4> QED BY <4>1, <4>2
    <3>4. inserted'[r] = transaction_id[t]  BY <3>1, <3>2, <3>3
    <3>5. pc'[t] \in {"written", "commit"} /\ transaction_id'[t] = transaction_id[t] /\ done'[t] = done[t]
      <4>1. pc'[t] \in {"written", "commit"}  BY <1>0, <2>2, SoundCommit
      <4>2. transaction_id' = transaction_id  BY <2>2 DEF CommitDirectly, WriteToWAL
      <4>3. done' = done  BY <2>2, SoundCommit DEF WriteToWAL
      <4> QED BY <4>1, <4>2, <4>3
    <3>6. done[t] = 0  BY <2>2 DEF CleanInv, DoneInv
    <3> QED BY <2>2, <3>1, <3>4, <3>5, <3>6 DEF EndedPcs
  <2> QED BY <2>1, <2>2, OldOrNew
<1> QED BY <1>1 DEF PendingInv

\* Every step keeps that all other rows are committed.
LEMMA RowKept ==
  ASSUME IInv, CleanInv, Sound, IdsInv, TimesInv, WalInv, AppendInv, RoomInv, PendingInv, RipeInv, RowInv,
         NEW t \in Txns, Step(t)
  PROVE  RowInv'
<1>0. /\ DataTyped /\ TxnTyped /\ pc \in [Txns -> Pcs] /\ count \in Nat /\ last_commit \in Nat
      /\ inserted \in [Rows -> Nat]
  BY DEF CleanInv, DataTyped, ManagerTyped, IInv, Typed
<1>1. ASSUME NEW r \in 1 .. count PROVE inserted'[r] <= last_commit' \/ PendingRow(r)'
  <2>0. r \in Rows /\ inserted[r] \in Nat  BY <1>0, RoomIs
  <2>1. ASSUME NEW u \in Txns, NEW i \in Appends(u), r \in undo[u][i].rows, pc[u] \in {"written", "commit"}
        PROVE  PendingRow(r)' \/ (u = t /\ CommitDone(t))
    <3>1. i \in Appends(u)' /\ undo'[u][i] = undo[u][i]
      <4>1. CASE SameAppends  BY <2>1, <4>1 DEF SameAppends, EndedPcs
      <4>2. CASE Grows(t) /\ pc[t] \in {"running", "wal"}  BY <2>1, <4>2, GrowIs
      <4> QED BY <4>1, <4>2, AppendsFrame
    <3>2. pc'[u] \in {"written", "commit"} \/ (u = t /\ CommitDone(t))
      <4>1. u = t => pc'[u] \in {"written", "commit"} \/ CommitDone(t)  BY <1>0, <2>1, SoundMove
      <4> QED BY <2>1, <4>1, OthersStay
    <3> QED BY <2>1, <3>1, <3>2 DEF PendingRow
  <2>2. last_commit <= last_commit' /\ last_commit' \in Nat
    <3>1. CommitDone(t) => last_commit < commit_id[t] /\ commit_id[t] \in Nat
      BY IdsAre DEF CommitDone, TimesInv
    <3> QED BY <1>0, <3>1, FieldsStay
  <2>3. \/ inserted'[r] = inserted[r]
        \/ /\ CommitEntry(t) /\ done[t] + 1 \in Appends(t) /\ r \in undo[t][done[t] + 1].rows
           /\ inserted'[r] = commit_id[t]
        \/ /\ CleanupEntry(t) /\ inserted'[r] = 0
    BY InsertedIs
  <2>4. CASE CleanupEntry(t) /\ inserted'[r] = 0  BY <1>0, <2>2, <2>4
  <2>5. CASE CommitEntry(t) /\ done[t] + 1 \in Appends(t) /\ r \in undo[t][done[t] + 1].rows
    <3>1. pc[t] = "commit" /\ ~CommitDone(t)
      <4>1. done[t] < Len(undo[t]) /\ pc[t] = "commit"  BY <2>5 DEF CommitEntry
      <4>2. done[t] \in Nat /\ Len(undo[t]) \in Nat  BY <1>0, EntryIndex
      <4> QED BY <4>1, <4>2 DEF CommitDone
    <3> QED BY <2>1, <2>5, <3>1
  <2>6. CASE inserted'[r] = inserted[r]
    <3>1. CASE inserted[r] <= last_commit  BY <1>0, <2>0, <2>2, <2>6, <3>1
    <3>2. CASE PendingRow(r)
      <4>1. PICK u \in Txns : pc[u] \in {"written", "commit"} /\ \E i \in Appends(u) : r \in undo[u][i].rows
        BY <3>2 DEF PendingRow
      <4>2. PICK i \in Appends(u) : r \in undo[u][i].rows  BY <4>1
      <4>3. CASE u = t /\ CommitDone(t)
        <5>1. pc[t] = "commit" /\ done[t] = Len(undo[t]) /\ last_commit' = commit_id[t]  BY <4>3 DEF CommitDone
        <5>2. i <= done[t]  BY <1>0, <4>2, <4>3, <5>1, AppendIs
        <5>3. inserted[r] = commit_id[t]  BY <4>2, <4>3, <5>1, <5>2 DEF PendingInv
        <5> QED BY <2>2, <2>6, <5>1, <5>3
      <4>4. CASE ~(u = t /\ CommitDone(t))  BY <2>1, <4>1, <4>2, <4>4
      <4> QED BY <4>3, <4>4
    <3> QED BY <3>1, <3>2 DEF RowInv
  <2> QED BY <2>3, <2>4, <2>5, <2>6
<1>2. CASE count' = count  BY <1>1, <1>2 DEF RowInv
<1>3. CASE Grows(t) /\ (CommitDirectly(t) \/ WriteToWAL(t)) /\ pc[t] \in {"running", "wal"}
  <2>1. /\ count' = count + local[t] /\ Appends(t)' = {Len(undo[t]) + 1} /\ undo'[t][Len(undo[t]) + 1] = Appended(t)
        /\ local[t] \in Nat \ {0}
    BY <1>3, GrowIs
  <2>2. pc'[t] \in {"written", "commit"}  BY <1>0, <1>3, SoundCommit
  <2>3. ASSUME NEW r \in count + 1 .. count + local[t] PROVE PendingRow(r)'
    <3>1. r \in undo'[t][Len(undo[t]) + 1].rows  BY <2>1 DEF Appended
    <3>2. Len(undo[t]) + 1 \in Appends(t)'  BY <2>1
    <3>3. \E i \in Appends(t)' : r \in undo'[t][i].rows  BY <3>1, <3>2
    <3> QED BY <2>2, <3>3 DEF PendingRow
  <2>4. \A r \in 1 .. count' : r \in 1 .. count \/ r \in count + 1 .. count + local[t]
    BY <1>0, <2>1
  <2> QED BY <1>1, <2>3, <2>4 DEF RowInv
<1> QED BY <1>2, <1>3, AppendsFrame

\* A commit that has its timestamp records nothing more.
LEMMA UndoStays ==
  ASSUME IInv, CleanInv, Sound, WalInv, NEW t \in Txns, Step(t), NEW u \in Txns, pc[u] \in StampedPcs
  PROVE  undo'[u] = undo[u]
<1> USE DEF managerVars, lockVars, listVars, checkpointVars, versionVars, updateVars
<1>0. DataTyped /\ TxnTyped /\ ManagerTyped /\ PlaceInv  BY DEF CleanInv
<1>1. CASE Leave(t) \/ PopCleanup(t)  BY <1>1 DEF Leave, PopCleanup
<1>2. CASE CleanupDone(t)
  <2>1. \A w \in ToSet(work.txns) : pc[w] \in EndedPcs  BY <1>0 DEF PlaceInv
  <2> QED BY <1>2, <2>1 DEF CleanupDone, StampedPcs, EndedPcs
<1>3. CASE u # t /\ ~Leave(t) /\ ~PopCleanup(t) /\ ~CleanupDone(t)  BY <1>0, <1>3, ListsKept
<1>4. CASE u = t /\ ~Leave(t) /\ ~PopCleanup(t) /\ ~CleanupDone(t)
  <2>1. ~(Delete(t) \/ Update(t) \/ CommitDirectly(t) \/ WriteToWAL(t))
    BY <1>0, <1>4, DeleteFrame, UpdateFrame DEF StampedPcs, CommitDirectly, Running, WriteToWAL
  <2>2. CASE Start(t) \/ Insert(t) \/ CommitThroughWAL(t) \/ TakeTimestamp(t) \/ CommitEntry(t) \/ CommitDone(t)
    BY <2>2 DEF Start, Insert, CommitThroughWAL, TakeTimestamp, CommitEntry, CommitDone
  <2>3. CASE Rollback(t) \/ RollbackEntry(t) \/ CleanupEntry(t) \/ StartCheckpoint(t) \/ FinishCheckpoint(t)
    BY <2>3 DEF Rollback, RollbackEntry, CleanupEntry, StartCheckpoint, FinishCheckpoint
  <2>4. ~FlushFails(t)  BY SoundCommit
  <2> QED BY <1>4, <2>1, <2>2, <2>3, <2>4 DEF Step
<1> QED BY <1>1, <1>2, <1>3, <1>4

\* Who is about to commit has the rows he has appended.
LEMMA WrittenStays ==
  ASSUME IInv, CleanInv, Sound, WalInv, AppendInv, NEW t \in Txns, Step(t), NEW w \in Txns, pc[w] = "written",
         ~TakeTimestamp(t)
  PROVE  pc'[w] = "written" /\ \A i \in Appends(w) : i \in Appends(w)' /\ undo'[w][i] = undo[w][i]
<1>0. pc \in [Txns -> Pcs]  BY DEF IInv, Typed
<1>1. pc'[w] = "written"
  <2>1. w = t => pc'[w] = "written"  BY <1>0, SoundMove
  <2> QED BY <2>1, OthersStay
<1>2. CASE SameAppends  BY <1>1, <1>2 DEF SameAppends, EndedPcs
<1>3. CASE Grows(t) /\ pc[t] \in {"running", "wal"}  BY <1>1, <1>3, GrowIs
<1> QED BY <1>1, <1>2, <1>3, AppendsFrame

\* Every step keeps what is in front of the rows of a commit.
LEMMA BehindKept ==
  ASSUME IInv, CleanInv, CleanInv', Sound, IdsInv, TimesInv, WalInv, AppendInv, RoomInv, PendingInv, RipeInv, RowInv, BehindInv,
         NEW t \in Txns, Step(t)
  PROVE  BehindInv'
<1>0. /\ DataTyped /\ TxnTyped /\ pc \in [Txns -> Pcs] /\ count \in Nat /\ last_commit \in Nat /\ clock \in Nat
      /\ inserted \in [Rows -> Nat] /\ commit_id \in [Txns -> Nat]
  BY DEF CleanInv, DataTyped, ManagerTyped, IInv, Typed
<1>1. active = {u \in Txns : pc[u] \in Live} /\ active' = {u \in Txns : pc'[u] \in Live}
  BY DEF CleanInv, ActiveInv
<1>2. ASSUME NEW u \in Txns, pc'[u] \in StampedPcs, NEW i \in Appends(u)', NEW r \in 1 .. undo'[u][i].at - 1
      PROVE  inserted'[r] <= commit_id'[u] \/ Behind(u, r)'
  <2>1. CASE u = t /\ (CommitDirectly(t) \/ TakeTimestamp(t))
    <3>1. transaction_lock = None /\ pc[t] \in {"running", "written"}
      BY <2>1 DEF CommitDirectly, TakeTimestamp, Running
    <3>2. commit_id'[t] = clock  BY <1>0, <2>1, SoundCommit
    <3>3. /\ r \in 1 .. count
          /\ i \in Appends(t) => /\ undo'[t][i] = undo[t][i] /\ pc[t] = "written"
                                 /\ TakeTimestamp(t)
          /\ i \notin Appends(t) => Grows(t) /\ CommitDirectly(t)
      <4>1. CASE i \in Appends(t) /\ undo'[t][i] = undo[t][i]
        <5>1. undo[t][i].at \in Nat /\ local[t] > 0 /\ local[t] \in Nat /\ undo[t][i].at + local[t] - 1 <= count
          BY <1>0, <4>1, AppendIs
        <5>2. r \in 1 .. count  BY <1>0, <1>2, <2>1, <4>1, <5>1
        <5>3. pc[t] \in AppendedPcs  BY <4>1 DEF AppendInv
        <5>4. pc[t] = "written"  BY <3>1, <5>3 DEF AppendedPcs, EndedPcs
        <5>5. ~CommitDirectly(t)  BY <5>4 DEF CommitDirectly, Running
        <5> QED BY <2>1, <4>1, <5>2, <5>4, <5>5
      <4>2. CASE i = Len(undo[t]) + 1 /\ Grows(t) /\ (CommitDirectly(t) \/ WriteToWAL(t)) /\ pc[t] \in {"running", "wal"}
        <5>1. undo'[t][i] = Appended(t) /\ Appends(t) = {}  BY <4>2, GrowIs
        <5>2. r \in 1 .. count  BY <1>0, <1>2, <2>1, <5>1 DEF Appended
        <5>3. ~TakeTimestamp(t)  BY <4>2 DEF TakeTimestamp
        <5> QED BY <2>1, <4>2, <5>1, <5>2, <5>3
      <4> QED BY <1>2, <2>1, <4>1, <4>2, OldOrNew
    <3>4. inserted'[r] = inserted[r] /\ inserted[r] \in Nat
      <4>1. ~CommitEntry(t) /\ ~CleanupEntry(t)  BY <3>1 DEF CommitEntry, CleanupEntry
      <4>2. r \in Rows  BY <1>0, <3>3, RoomIs
      <4> QED BY <1>0, <3>3, <4>1, <4>2, InsertedIs
    <3>5. CASE inserted[r] <= last_commit
      <4>1. last_commit < clock  BY DEF TimesInv
      <4> QED BY <1>0, <2>1, <3>2, <3>4, <3>5, <4>1
    <3>6. CASE PendingRow(r)
      <4>1. PICK w \in Txns : pc[w] \in {"written", "commit"} /\ \E j \in Appends(w) : r \in undo[w][j].rows
        BY <3>6 DEF PendingRow
      <4>2. PICK j \in Appends(w) : r \in undo[w][j].rows  BY <4>1
      <4>3. w # t
        <5> SUFFICES ASSUME w = t PROVE FALSE  OBVIOUS
        <5>1. pc[t] = "written" /\ TakeTimestamp(t)
          BY <2>1, <3>1, <4>1 DEF CommitDirectly, Running
        <5>2. ~CommitDirectly(t)  BY <5>1 DEF CommitDirectly, Running
        <5>3. i \in Appends(t) /\ undo'[t][i] = undo[t][i]  BY <3>3, <5>2
        <5>4. i = j  BY <4>2, <5>3 DEF AppendInv
        <5>5. undo[t][i].at \in Nat /\ undo[t][i].rows = undo[t][i].at .. undo[t][i].at + local[t] - 1 /\ local[t] \in Nat
          BY <1>0, <5>3, AppendIs
        <5> QED BY <1>2, <2>1, <4>2, <5>3, <5>4, <5>5
      <4>4. pc[w] = "written"
        <5>1. pc[w] \notin LockPcs  BY <3>1, <4>3, LockIsExclusive
        <5> QED BY <4>1, <5>1 DEF LockPcs
      <4>5. ~TakeTimestamp(t)
        <5>1. wal_lock = w  BY <4>4 DEF WalInv
        <5>2. TakeTimestamp(t) => wal_lock = t  BY DEF TakeTimestamp, WalInv
        <5> QED BY <4>3, <5>1, <5>2
      <4>6. Grows(t) /\ CommitDirectly(t)  BY <3>3, <4>5
      <4>7. ~HasUpdates(t)
        <5>1. local[t] > 0  BY <4>6 DEF Grows
        <5>2. MayCheckpoint(t)  BY <1>0, <4>6, <5>1, CommitDirectlyFrame DEF ChangesMade
        <5>3. w \in active  BY <1>1, <4>4 DEF Live
        <5> QED BY <4>3, <5>2, <5>3 DEF MayCheckpoint
      <4>8. ~HasUpdates(t)'  BY <3>1, <4>6, <4>7, GrowIs DEF CommitDirectly, Running
      <4>9. pc'[w] = "written" /\ j \in Appends(w)' /\ undo'[w][j] = undo[w][j]
        BY <4>2, <4>4, <4>5, WrittenStays
      <4>10. w \in active'  BY <1>1, <4>9 DEF Live
      <4> QED BY <2>1, <4>2, <4>3, <4>8, <4>9, <4>10 DEF Behind
    <3> QED BY <3>3, <3>5, <3>6 DEF RowInv
  <2>2. CASE ~(u = t /\ (CommitDirectly(t) \/ TakeTimestamp(t)))
    <3>1. pc[u] \in StampedPcs
      <4>1. u = t => pc[u] \in StampedPcs  BY <1>0, <1>2, <2>2, SoundMove DEF StampedPcs
      <4> QED BY <1>2, <4>1, OthersStay
    <3>2. ~CommitDirectly(t) /\ ~TakeTimestamp(t)
      <4>1. transaction_lock = u  BY <3>1 DEF IInv, Locked, StampedPcs, LockPcs
      <4> QED BY <4>1, NoneAssumption DEF CommitDirectly, TakeTimestamp
    <3>3. commit_id'[u] = commit_id[u] /\ commit_id[u] \in Nat  BY <1>0, <3>2, FieldsStay
    <3>4. i \in Appends(u) /\ undo'[u][i] = undo[u][i]
      BY <1>2, <3>1, OldOrNew DEF StampedPcs
    <3>5. /\ r \in 1 .. count /\ r < undo[u][i].at
      <4>1. undo[u][i].at \in Nat /\ local[u] > 0 /\ local[u] \in Nat /\ undo[u][i].at + local[u] - 1 <= count
        BY <1>0, <3>4, AppendIs
      <4> QED BY <1>0, <1>2, <3>4, <4>1
    <3>6. inserted'[r] = inserted[r] \/ inserted'[r] = 0
      <4>1. ASSUME CommitEntry(t), done[t] + 1 \in Appends(t), r \in undo[t][done[t] + 1].rows PROVE FALSE
        <5>1. u = t
          <6>1. pc[t] \in LockPcs  BY <4>1 DEF CommitEntry, LockPcs
          <6> QED BY <3>1, <6>1, LockIsExclusive DEF StampedPcs, LockPcs
        <5>2. done[t] + 1 = i  BY <3>4, <4>1, <5>1 DEF AppendInv
        <5>3. undo[t][i].at \in Nat /\ undo[t][i].rows = undo[t][i].at .. undo[t][i].at + local[t] - 1 /\ local[t] \in Nat
          BY <1>0, <3>4, <5>1, AppendIs
        <5> QED BY <3>5, <4>1, <5>1, <5>2, <5>3
      <4> QED BY <3>5, <4>1, InsertedIs
    <3>7. CASE inserted[r] <= commit_id[u]  BY <3>3, <3>6, <3>7
    <3>8. CASE Behind(u, r)
      <4>1. PICK w \in active \ {u} : pc[w] = "written" /\ \E j \in Appends(w) : r \in undo[w][j].rows
        BY <3>8 DEF Behind
      <4>2. w \in Txns /\ w # u  BY <1>1, <4>1
      <4>3. pc'[w] = "written" /\ \A j \in Appends(w) : j \in Appends(w)' /\ undo'[w][j] = undo[w][j]
        BY <3>2, <4>1, <4>2, WrittenStays
      <4>4. w \in active'  BY <1>1, <4>2, <4>3 DEF Live
      <4>5. ~HasUpdates(u)'
        <5>1. undo'[u] = undo[u]  BY <3>1, UndoStays
        <5>2. ~HasUpdates(u)  BY <3>8 DEF Behind
        <5> QED BY <5>1, <5>2 DEF HasUpdates
      <4> QED BY <4>1, <4>2, <4>3, <4>4, <4>5 DEF Behind
    <3> QED BY <3>1, <3>4, <3>5, <3>7, <3>8, <1>2 DEF BehindInv
  <2> QED BY <2>1, <2>2
<1> QED BY <1>2 DEF BehindInv

\* Which commit the running checkpoint writes.
LEMMA CheckpointMoves ==
  ASSUME DataTyped, TxnTyped, NEW t \in Txns, Step(t)
  PROVE  \/ UNCHANGED <<active_checkpoint, image>> /\ ~StartCheckpoint(t)
         \/ StartCheckpoint(t) /\ active_checkpoint' = last_commit /\ last_commit' = last_commit
         \/ FinishCheckpoint(t) /\ active_checkpoint' = NoCheckpoint /\ last_commit' = last_commit
<1> USE DEF managerVars, lockVars, listVars, checkpointVars, versionVars, updateVars
<1>1. CASE Delete(t)  BY <1>1, DeleteFrame DEF StartCheckpoint
<1>2. CASE Update(t)  BY <1>2, UpdateFrame DEF StartCheckpoint
<1>3. CASE Start(t) \/ Insert(t) \/ CommitDirectly(t) \/ CommitThroughWAL(t) \/ WriteToWAL(t) \/ TakeTimestamp(t)
  BY <1>3 DEF Start, Insert, CommitDirectly, CommitThroughWAL, WriteToWAL, TakeTimestamp, StartCheckpoint,
    Running, CanChange
<1>4. CASE CommitEntry(t) \/ CommitDone(t) \/ FlushFails(t) \/ Rollback(t) \/ RollbackEntry(t)
  BY <1>4 DEF CommitEntry, CommitDone, FlushFails, Rollback, RollbackEntry, StartCheckpoint
<1>5. CASE Leave(t) \/ PopCleanup(t) \/ CleanupEntry(t) \/ CleanupDone(t)
  BY <1>5 DEF Leave, PopCleanup, CleanupEntry, CleanupDone, StartCheckpoint
<1>6. CASE StartCheckpoint(t) \/ FinishCheckpoint(t)
  BY <1>6 DEF StartCheckpoint, FinishCheckpoint
<1> QED BY <1>1, <1>2, <1>3, <1>4, <1>5, <1>6 DEF Step

\* The rows up to those of a commit that is over stay those that were there.
LEMMA FullKept ==
  ASSUME IInv, CleanInv, Sound, IdsInv, TimesInv, WalInv, AppendInv, RoomInv, PendingInv, RipeInv,
         NEW t \in Txns, Step(t), NEW u \in Txns, pc[u] \in EndedPcs, Full(u)
  PROVE  Full(u)'
<1>0. /\ DataTyped /\ TxnTyped /\ count \in Nat /\ last_commit \in Nat /\ commit_id[u] \in Nat
  BY DEF CleanInv, DataTyped, ManagerTyped, IInv, Typed
<1>1. commit_id'[u] = commit_id[u] /\ commit_id[u] <= last_commit
  <2>1. u = t => ~CommitDirectly(t) /\ ~TakeTimestamp(t)
    BY DEF EndedPcs, CommitDirectly, Running, TakeTimestamp
  <2> QED BY <2>1, OthersStay, FieldsStay DEF TimesInv
<1>2. ASSUME NEW i \in Appends(u)', NEW r \in 1 .. undo'[u][i].at + local'[u] - 1
      PROVE  inserted'[r] <= commit_id'[u]
  <2>1. i \in Appends(u) /\ undo'[u][i] = undo[u][i] /\ local'[u] = local[u]
    BY <1>2, OldOrNew DEF EndedPcs
  <2>2. r \in 1 .. count
    <3>1. undo[u][i].at \in Nat /\ local[u] \in Nat /\ undo[u][i].at + local[u] - 1 <= count
      BY <1>0, <2>1, AppendIs
    <3> QED BY <1>0, <1>2, <2>1, <3>1
  <2>3. inserted[r] <= commit_id[u]  BY <1>2, <2>1 DEF Full
  <2>4. ASSUME CommitEntry(t), done[t] + 1 \in Appends(t), r \in undo[t][done[t] + 1].rows PROVE FALSE
    <3>1. pc[t] = "commit" /\ done[t] \in Nat  BY <1>0, <2>4 DEF CommitEntry, TxnTyped
    <3>2. inserted[r] = transaction_id[t]  BY <2>4, <3>1 DEF PendingInv
    <3>3. commit_id[u] < transaction_id[t] /\ transaction_id[t] \in Nat  BY <3>1, IdsAre, ConstantTypes DEF Live
    <3> QED BY <1>0, <2>3, <3>2, <3>3
  <2>5. inserted'[r] = inserted[r] \/ inserted'[r] = 0  BY <2>2, <2>4, InsertedIs
  <2> QED BY <1>0, <1>1, <2>3, <2>5
<1> QED BY <1>2 DEF Full

\* What may be cleaned up still may.
LEMMA RipeStays ==
  ASSUME IInv, CleanInv, Sound, IdsInv, TimesInv, WalInv, AppendInv, RoomInv, PendingInv, RipeInv,
         NEW t \in Txns, Step(t), NEW w, Ripe(w), \A u \in ToSet(w.txns) : u \in Txns /\ pc[u] \in EndedPcs
  PROVE  Ripe(w)'
<1>1. ASSUME NEW u \in ToSet(w.txns), commit_id'[u] <= w.lowest PROVE Full(u)' /\ commit_id'[u] <= active_checkpoint'
  <2>0. u \in Txns /\ pc[u] \in EndedPcs  BY <1>1
  <2>1. commit_id'[u] = commit_id[u] /\ commit_id[u] <= last_commit
    <3>1. u = t => ~CommitDirectly(t) /\ ~TakeTimestamp(t)
      BY <2>0 DEF EndedPcs, CommitDirectly, Running, TakeTimestamp
    <3> QED BY <2>0, <3>1, OthersStay, FieldsStay DEF TimesInv
  <2>2. Full(u) /\ commit_id[u] <= active_checkpoint  BY <1>1, <2>1 DEF Ripe
  <2>3. Full(u)'  BY <2>0, <2>2, FullKept
  <2>4. commit_id[u] < NoCheckpoint  BY <2>0, <2>1, IdsAre
  <2>5. commit_id[u] <= active_checkpoint'
    <3>1. DataTyped /\ TxnTyped  BY DEF CleanInv
    <3>2. commit_id[u] \in Nat /\ NoCheckpoint \in Nat  BY <2>0, IdsAre
    <3> QED BY <2>1, <2>2, <2>4, <3>1, <3>2, CheckpointMoves
  <2> QED BY <2>1, <2>3, <2>5
<1>2. Ripe(w)' <=> \A u \in ToSet(w.txns) : commit_id'[u] <= w.lowest => Full(u)' /\ commit_id'[u] <= active_checkpoint'
  BY DEF Ripe
<1> QED BY <1>1, <1>2

\* A commit leaves the rows up to its own as it has found them, or who comes before
\* it is still active.
LEMMA FullAtLeave ==
  ASSUME IInv, CleanInv, Sound, IdsInv, TimesInv, AppendInv, RoomInv, RowInv, BehindInv,
         NEW t \in Txns, pc[t] \in {"remove", "rollback"}, HasUpdates(t) \/ commit_id[t] <= LowestActiveStart(t)
  PROVE  Full(t)
<1>0. /\ DataTyped /\ TxnTyped /\ ManagerTyped /\ count \in Nat /\ commit_id[t] \in Nat
      /\ active = {u \in Txns : pc[u] \in Live}
  BY DEF CleanInv, DataTyped, IInv, Typed, ActiveInv
<1>1. CASE pc[t] = "rollback"
  <2>1. Appends(t) = {}  BY <1>1, NoAppends DEF AppendedPcs, EndedPcs
  <2> QED BY <2>1 DEF Full
<1>2. CASE pc[t] = "remove"
  <2>1. ASSUME NEW i \in Appends(t), NEW r \in 1 .. undo[t][i].at + local[t] - 1
        PROVE  inserted[r] <= commit_id[t]
    <3>1. /\ undo[t][i].at \in Nat /\ local[t] \in Nat /\ undo[t][i].at + local[t] - 1 <= count
          /\ undo[t][i].rows = undo[t][i].at .. undo[t][i].at + local[t] - 1
      BY <1>0, AppendIs
    <3>2. r \in 1 .. count  BY <1>0, <2>1, <3>1
    <3>3. CASE r < undo[t][i].at
      <4>1. r \in 1 .. undo[t][i].at - 1  BY <2>1, <3>1, <3>3
      <4>2. inserted[r] <= commit_id[t] \/ Behind(t, r)
        BY <1>2, <4>1 DEF BehindInv, StampedPcs
      <4>3. ASSUME Behind(t, r) PROVE FALSE
        <5>1. PICK u \in active \ {t} : ~HasUpdates(t)  BY <4>3 DEF Behind
        <5>2. start_time[u] < commit_id[t]  BY <1>2, <5>1 DEF TimesInv, StampedPcs
        <5>3. LowestActiveStart(t) <= start_time[u] /\ LowestActiveStart(t) \in Nat /\ start_time[u] \in Nat
          BY <1>0, <5>1, LowestIs DEF TxnTyped
        <5> QED BY <1>0, <5>1, <5>2, <5>3
      <4> QED BY <4>2, <4>3
    <3>4. CASE r >= undo[t][i].at
      <4>1. r \in undo[t][i].rows  BY <2>1, <3>1, <3>4
      <4>2. ~PendingRow(r)  BY <1>2, <4>1, RowOnce DEF PendingRow
      <4>3. commit_id[t] = last_commit  BY <1>2 DEF TimesInv
      <4> QED BY <3>2, <4>2, <4>3 DEF RowInv
    <3> QED BY <3>1, <3>2, <3>3, <3>4
  <2> QED BY <2>1 DEF Full
<1> QED BY <1>1, <1>2

\* What holds of an entry of the queue, whatever it is called.
LEMMA RipeAs ==
  ASSUME NEW w, NEW i, w = cleanup_queue'[i], Ripe(w)'
  PROVE  Ripe(cleanup_queue[i])'
BY DEF Ripe

\* ... and of the entry that is cleaned up.
LEMMA RipeWork ==
  ASSUME NEW w, w = work', Ripe(w)'
  PROVE  Ripe(work)'
BY DEF Ripe

\* Every step keeps what may be cleaned up.
LEMMA RipeKept ==
  ASSUME IInv, CleanInv, CleanInv', Sound, IdsInv, TimesInv, WalInv, AppendInv, RoomInv, PendingInv, RipeInv, RowInv, BehindInv,
         NEW t \in Txns, Step(t)
  PROVE  RipeInv'
<1>0. /\ DataTyped /\ TxnTyped /\ ManagerTyped /\ PlaceInv /\ ErrorInv /\ pc \in [Txns -> Pcs]
      /\ commit_id \in [Txns -> Nat]
  BY DEF CleanInv, IInv, Typed
<1>1. /\ DOMAIN cleanup_queue = 1 .. Len(cleanup_queue) /\ Len(cleanup_queue) \in Nat
      /\ \A i \in DOMAIN cleanup_queue : \A u \in ToSet(cleanup_queue[i].txns) : u \in Txns /\ pc[u] \in EndedPcs
      /\ \A u \in ToSet(work.txns) : u \in Txns /\ pc[u] \in EndedPcs
      /\ \A u \in ToSet(recently) : u \in Txns /\ pc[u] \in EndedPcs
  BY <1>0, QueueTypes, RecentIs DEF PlaceInv, InQueue
<1>2. ASSUME NEW w, \E i \in DOMAIN cleanup_queue : w = cleanup_queue[i] PROVE Ripe(w)'
  <2>1. Ripe(w) /\ \A u \in ToSet(w.txns) : u \in Txns /\ pc[u] \in EndedPcs  BY <1>1, <1>2 DEF RipeInv
  <2> QED BY <2>1, RipeStays
<1>3. ASSUME NEW w, w = work PROVE Ripe(w)'
  <2>1. Ripe(w) /\ \A u \in ToSet(w.txns) : u \in Txns /\ pc[u] \in EndedPcs  BY <1>1, <1>3 DEF RipeInv
  <2> QED BY <2>1, RipeStays
<1>4. \A u \in ToSet(recently) : Full(u)'  BY <1>1, FullKept DEF RipeInv
<1>5. ASSUME cleanup_queue' = cleanup_queue PROVE \A i \in DOMAIN cleanup_queue' : Ripe(cleanup_queue[i])'
  <2> SUFFICES ASSUME NEW i \in DOMAIN cleanup_queue' PROVE Ripe(cleanup_queue[i])'
    OBVIOUS
  <2>1. PICK w : w = cleanup_queue'[i]  OBVIOUS
  <2>2. Ripe(w)'  BY <1>2, <1>5, <2>1
  <2> QED BY <2>1, <2>2, RipeAs
<1>6. ASSUME work' = work PROVE Ripe(work)'
  <2>1. PICK w : w = work'  OBVIOUS
  <2>2. Ripe(w)'  BY <1>3, <1>6, <2>1
  <2> QED BY <2>1, <2>2, RipeWork
<1>7. CASE ~Leave(t) /\ ~PopCleanup(t) /\ ~CleanupDone(t)
  <2>1. UNCHANGED <<recently, cleanup_queue, work>>  BY <1>0, <1>7, ListsKept
  <2> QED BY <1>4, <1>5, <1>6, <2>1 DEF RipeInv
<1>8. CASE CleanupDone(t)
  <2>1. recently' = recently /\ cleanup_queue' = cleanup_queue /\ work' = NoWork  BY <1>8 DEF CleanupDone
  <2>2. Ripe(work)'  BY <2>1 DEF Ripe, NoWork, ToSet
  <2> QED BY <1>4, <1>5, <2>1, <2>2 DEF RipeInv
<1>9. CASE PopCleanup(t)
  <2>1. recently' = recently  BY <1>9 DEF PopCleanup
  <2>2. CASE work' = work /\ cleanup_queue' = cleanup_queue  BY <1>4, <1>5, <1>6, <2>1, <2>2 DEF RipeInv
  <2>3. CASE cleanup_queue # <<>> /\ work' = Head(cleanup_queue) /\ cleanup_queue' = Tail(cleanup_queue)
    <3>1. cleanup_queue \in Seq(Works)  BY <1>0 DEF ManagerTyped
    <3>2. /\ 1 \in DOMAIN cleanup_queue /\ work' = cleanup_queue[1]
          /\ \A i \in DOMAIN cleanup_queue' : i + 1 \in DOMAIN cleanup_queue /\ cleanup_queue'[i] = cleanup_queue[i + 1]
      BY <2>3, <3>1
    <3>3. Ripe(work)'
      <4>1. PICK w : w = work'  OBVIOUS
      <4>2. Ripe(w)'  BY <1>2, <3>2, <4>1
      <4> QED BY <4>1, <4>2, RipeWork
    <3>4. ASSUME NEW i \in DOMAIN cleanup_queue' PROVE Ripe(cleanup_queue[i])'
      <4>1. PICK w : w = cleanup_queue'[i]  OBVIOUS
      <4>2. Ripe(w)'  BY <1>2, <3>2, <4>1
      <4> QED BY <4>1, <4>2, RipeAs
    <3> QED BY <1>4, <2>1, <3>3, <3>4 DEF RipeInv
  <2> QED BY <1>9, <2>2, <2>3 DEF PopCleanup
<1>10. CASE Leave(t)
  <2>0. /\ pc[t] \in {"remove", "rollback"} /\ work' = work
        /\ UNCHANGED <<undo, local, inserted, commit_id, active_checkpoint>>
    BY <1>10 DEF Leave, versionVars, checkpointVars
  <2>1. \A u : Full(u)' <=> Full(u)  BY <2>0 DEF Full, Appends
  <2>2. PICK txns \in Seq(Txns) :
           /\ ToSet(recently') \intersect ToSet(txns) = {}
           /\ ToSet(recently') \union ToSet(txns)
                = ToSet(recently) \union {u \in {t} : Kept(t) \/ Scheduled(t)}
           /\ \A u \in {t} : Scheduled(u) => u \in ToSet(txns)
           /\ \/ txns = <<>> /\ cleanup_queue' = cleanup_queue
              \/ cleanup_queue' = Append(cleanup_queue, [txns |-> txns, lowest |-> LowestActiveStart(t)])
    BY <1>0, <1>10, LeavePlaces
  <2>3. HasUpdates(t) \/ commit_id[t] <= LowestActiveStart(t) => Full(t)
    BY <2>0, FullAtLeave
  <2>4. ASSUME NEW u \in ToSet(recently') PROVE Full(u)'
    <3>1. u \in ToSet(recently) \/ (u = t /\ ~Scheduled(t) /\ (Kept(t) \/ Scheduled(t)))
      <4>1. u \in ToSet(recently) \/ (u = t /\ (Kept(t) \/ Scheduled(t)))  BY <2>2, <2>4
      <4>2. u = t => ~Scheduled(t)  BY <2>2, <2>4
      <4> QED BY <4>1, <4>2
    <3>2. CASE u \in ToSet(recently)  BY <1>4, <3>2
    <3>3. CASE u = t /\ Kept(t)
      <4>1. HasUpdates(t)  BY <1>0, <3>3, KeptIs
      <4> QED BY <2>1, <2>3, <3>3, <4>1
    <3> QED BY <3>1, <3>2, <3>3
  <2>5. PICK lowest \in Nat : lowest = LowestActiveStart(t) /\ lowest <= active_checkpoint
    BY <1>0, LowestIs
  <2> DEFINE w == [txns |-> txns, lowest |-> lowest]
  <2>6. ASSUME NEW u \in ToSet(txns), commit_id[u] <= lowest PROVE Full(u) /\ commit_id[u] <= active_checkpoint
    <3>1. u \in ToSet(recently) \/ u = t  BY <2>2, <2>6
    <3>2. u \in Txns  BY <1>1, <3>1
    <3>3. commit_id[u] \in Nat /\ active_checkpoint \in Nat  BY <1>0, <3>2 DEF ManagerTyped
    <3>4. commit_id[u] <= active_checkpoint  BY <2>5, <2>6, <3>3
    <3> QED BY <2>3, <2>5, <2>6, <3>1, <3>4 DEF RipeInv
  <2>7. Ripe(w)'
    <3>1. w.txns = txns /\ w.lowest = lowest  OBVIOUS
    <3> HIDE DEF w
    <3> QED BY <2>0, <2>1, <2>6, <3>1 DEF Ripe
  <2>8. CASE cleanup_queue' = cleanup_queue  BY <1>5, <1>6, <2>0, <2>4, <2>8 DEF RipeInv
  <2>9. CASE cleanup_queue' = Append(cleanup_queue, w)
    <3>1. cleanup_queue \in Seq(Works)  BY <1>0 DEF ManagerTyped
    <3> HIDE DEF w
    <3>2. /\ \A i \in DOMAIN cleanup_queue' : i \in DOMAIN cleanup_queue \/ i = Len(cleanup_queue) + 1
          /\ \A i \in DOMAIN cleanup_queue : cleanup_queue'[i] = cleanup_queue[i]
          /\ cleanup_queue'[Len(cleanup_queue) + 1] = w
      BY <2>9, <3>1
    <3>3. ASSUME NEW i \in DOMAIN cleanup_queue' PROVE Ripe(cleanup_queue[i])'
      <4>1. PICK x : x = cleanup_queue'[i]  OBVIOUS
      <4>2. Ripe(x)'
        <5>1. CASE i \in DOMAIN cleanup_queue  BY <1>2, <3>2, <4>1, <5>1
        <5>2. CASE i = Len(cleanup_queue) + 1  BY <2>7, <3>2, <4>1, <5>2
        <5> QED BY <3>2, <5>1, <5>2
      <4> QED BY <4>1, <4>2, RipeAs
    <3> QED BY <1>6, <2>0, <2>4, <3>3 DEF RipeInv
  <2> QED BY <2>2, <2>5, <2>8, <2>9
<1> QED BY <1>7, <1>8, <1>9, <1>10

\* A DELETE that names each row once marks rows that nobody has marked, or none.
LEMMA DeleteMarks ==
  ASSUME DataTyped, Sound, NEW t \in Txns, Delete(t)
  PROVE  \/ deleted' = deleted /\ undo' = undo /\ pc' = [pc EXCEPT ![t] = "failed"]
         \/ \E fresh \in SUBSET Rows : \E v \in Nat \ {0} :
              /\ fresh # {} /\ fresh \subseteq Seen(t) /\ pc' = pc
              /\ \A r \in fresh : deleted[r] = NOT_DELETED_ID
              /\ deleted' = [r \in Rows |-> IF r \in fresh THEN transaction_id[t] ELSE deleted[r]]
              /\ Record(t, [kind |-> "delete", at |-> v, rows |-> fresh])
<1>0. deleted \in [Rows -> Nat]  BY DEF DataTyped
<1>1. PICK rows \in Chunks(t) : DeleteRows(t, rows)  BY DEF Delete
<1>2. PICK r1, r2 \in Seen(t) : rows = <<r1>> \/ rows = <<r1, r2>>
  BY <1>1 DEF Chunks, Sound
<1>3. \A r \in Seen(t) : r \in Rows /\ deleted[r] # transaction_id[t]  BY DEF Seen, Visible, UseVersion
<1>4. /\ Len(rows) \in Nat /\ DOMAIN rows = 1 .. Len(rows) /\ 1 \in DOMAIN rows
      /\ \A i \in DOMAIN rows : /\ rows[i] \in Rows /\ rows[i] \in Seen(t)
                               /\ deleted[rows[i]] # transaction_id[t]
  <2>1. CASE rows = <<r1>>  BY <1>3, <2>1
  <2>2. CASE rows = <<r1, r2>>  BY <1>3, <2>2
  <2> QED BY <1>2, <2>1, <2>2
<1> DEFINE id == transaction_id[t]
           conflicts == {i \in DOMAIN rows : deleted[rows[i]] \notin {NOT_DELETED_ID, id}}
           upto == IF conflicts = {} THEN Len(rows) ELSE Min(conflicts) - 1
           fresh == {r \in {rows[i] : i \in 1 .. upto} : deleted[r] = NOT_DELETED_ID}
           unset == fresh \union {rows[k] : k \in Cardinality(fresh) + 1 .. upto}
<1>5. IF conflicts = {}
      THEN /\ deleted' = [r \in Rows |-> IF r \in fresh THEN id ELSE deleted[r]]
           /\ IF fresh = {} THEN UNCHANGED undo
              ELSE Record(t, [kind |-> "delete", at |-> Vec(rows[1]), rows |-> fresh])
           /\ UNCHANGED pc
      ELSE /\ deleted' = [r \in Rows |-> IF r \in unset THEN NOT_DELETED_ID ELSE deleted[r]]
           /\ UNCHANGED undo
           /\ pc' = [pc EXCEPT ![t] = "failed"]
  BY <1>1 DEF DeleteRows, Goto
<1>6. /\ upto \in Nat \union {-1} /\ upto <= Len(rows)
      /\ \A i \in 1 .. upto : i \in DOMAIN rows /\ i \notin conflicts
  <2>1. CASE conflicts = {}  BY <1>4, <2>1
  <2>2. CASE conflicts # {}
    <3>1. conflicts \subseteq Nat  BY <1>4
    <3> DEFINE c == conflicts
    <3>2. c \subseteq DOMAIN rows /\ c # {} /\ upto = Min(c) - 1  BY <2>2
    <3> HIDE DEF conflicts, c
    <3>3. Min(c) \in c /\ \A x \in c : Min(c) <= x  BY <3>1, <3>2, LeastExists DEF c
    <3>4. Min(c) \in Nat /\ 1 <= Min(c) /\ Min(c) <= Len(rows)  BY <1>4, <3>2, <3>3
    <3> QED BY <1>4, <3>2, <3>3, <3>4 DEF c
  <2> QED BY <2>1, <2>2
<1>7. \A i \in 1 .. upto : rows[i] \in Rows /\ rows[i] \in Seen(t) /\ deleted[rows[i]] = NOT_DELETED_ID
  BY <1>4, <1>6
<1>8. \A r \in fresh : r \in Rows /\ r \in Seen(t) /\ deleted[r] = NOT_DELETED_ID  BY <1>7
<1>9. ASSUME conflicts = {} PROVE fresh # {}
  <2>1. upto = Len(rows) /\ 1 \in 1 .. upto  BY <1>4, <1>9
  <2>2. rows[1] \in fresh  BY <1>7, <2>1
  <2> QED BY <2>2
<1>10. CASE conflicts = {}
  <2>0. fresh # {} /\ fresh \subseteq Seen(t) /\ pc' = pc  BY <1>5, <1>8, <1>9, <1>10
  <2>1. /\ deleted' = [r \in Rows |-> IF r \in fresh THEN transaction_id[t] ELSE deleted[r]]
        /\ Record(t, [kind |-> "delete", at |-> Vec(rows[1]), rows |-> fresh])
    BY <1>5, <1>10, <2>0
  <2>2. Vec(rows[1]) \in Nat \ {0}  BY <1>4, RowVecs
  <2>3. fresh \in SUBSET Rows  BY <1>8
  <2> HIDE DEF fresh
  <2> QED BY <1>8, <2>0, <2>1, <2>2, <2>3
<1>11. CASE conflicts # {}
  <2>1. deleted' = [r \in Rows |-> IF r \in unset THEN NOT_DELETED_ID ELSE deleted[r]] /\ undo' = undo
        /\ pc' = [pc EXCEPT ![t] = "failed"]
    BY <1>5, <1>11
  <2>2. Cardinality(fresh) \in Nat
    <3>1. fresh \subseteq Rows  BY <1>8
    <3>2. IsFiniteSet(Rows)  BY FS_Interval, ConstantTypes DEF Rows
    <3> HIDE DEF fresh
    <3> QED BY <3>1, <3>2, FS_Subset, FS_CardinalityType
  <2>3. \A r \in unset : deleted[r] = NOT_DELETED_ID
    <3> DEFINE n == Cardinality(fresh)
    <3>1. n \in Nat  BY <2>2
    <3>2. \A r \in unset : r \in fresh \/ \E k \in n + 1 .. upto : r = rows[k]  OBVIOUS
    <3> HIDE DEF n, unset, fresh
    <3>3. \A k \in n + 1 .. upto : k \in 1 .. upto  BY <1>6, <3>1
    <3> QED BY <1>7, <1>8, <3>2, <3>3
  <2> HIDE DEF unset
  <2>4. \A r \in Rows : deleted'[r] = deleted[r]  BY <2>1, <2>3
  <2>5. deleted' = [r \in Rows |-> deleted[r]]  BY <2>1, <2>4
  <2> QED BY <1>0, <2>1, <2>5
<1> QED BY <1>10, <1>11

\* Other steps record no rows deleted.
LEMMA DeletesStay ==
  ASSUME IInv, CleanInv, NEW t \in Txns, Step(t), ~Delete(t), NEW u \in Txns, NEW i \in Deletes(u)'
  PROVE  i \in Deletes(u) /\ undo'[u][i] = undo[u][i]
<1>0. DataTyped /\ TxnTyped  BY DEF CleanInv
<1>1. ASSUME NEW kinds, Recorded(t, kinds), "delete" \notin kinds PROVE i \in Deletes(u) /\ undo'[u][i] = undo[u][i]
  <2>1. CASE u # t
    <3>1. undo'[u] = undo[u]  BY <1>0, <1>1, <2>1, RecordedIs
    <3> QED BY <3>1 DEF Deletes
  <2>2. CASE u = t
    <3>1. /\ \A j \in DOMAIN undo[t] : undo'[t][j] = undo[t][j]
          /\ \A j \in DOMAIN undo'[t] : j \in DOMAIN undo[t] \/ undo'[t][j].kind \in kinds
      BY <1>0, <1>1, RecordedIs
    <3> QED BY <1>1, <2>2, <3>1 DEF Deletes
  <2> QED BY <2>1, <2>2
<1>2. ASSUME undo' = undo PROVE i \in Deletes(u) /\ undo'[u][i] = undo[u][i]
  BY <1>2 DEF Deletes
<1>3. CASE Update(t)
  <2>1. Recorded(t, {"update"})  BY <1>0, <1>3, UpdateFrame
  <2> QED BY <1>1, <2>1
<1>4. CASE CommitDirectly(t) \/ WriteToWAL(t)
  <2>1. Recorded(t, {"append"})  BY <1>0, <1>4, AppendRecorded, CommitDirectlyFrame DEF WriteToWAL
  <2> QED BY <1>1, <2>1
<1>5. CASE CleanupDone(t)
  <2>1. undo'[u] = undo[u] \/ undo'[u] = <<>>  BY <1>5 DEF CleanupDone
  <2> QED BY <2>1 DEF Deletes
<1>6. CASE Start(t) \/ Insert(t) \/ CommitThroughWAL(t) \/ TakeTimestamp(t) \/ CommitEntry(t) \/ CommitDone(t)
  BY <1>2, <1>6 DEF Start, Insert, CommitThroughWAL, TakeTimestamp, CommitEntry, CommitDone
<1>7. CASE FlushFails(t) \/ Rollback(t) \/ RollbackEntry(t)
  BY <1>2, <1>7 DEF FlushFails, Rollback, RollbackEntry
<1>8. CASE Leave(t) \/ PopCleanup(t) \/ CleanupEntry(t) \/ StartCheckpoint(t) \/ FinishCheckpoint(t)
  BY <1>2, <1>8 DEF Leave, PopCleanup, CleanupEntry, StartCheckpoint, FinishCheckpoint
<1> QED BY <1>3, <1>4, <1>5, <1>6, <1>7, <1>8 DEF Step

\* Rows that t has marked, and has not unmarked yet.
Marking(t, i) ==
  pc[t] \in Live \ {"remove"} /\ i \in Deletes(t) /\ (pc[t] = "rollback" => i <= done[t])

\* Nobody else has marked them, nor has another of its entries.
LEMMA MarkedOnce ==
  ASSUME IInv, CleanInv, IdsInv, TimesInv, DeleteInv, NEW t \in Txns, NEW i, Marking(t, i),
         NEW u \in Txns, NEW j, Marking(u, j), NEW r, r \in undo[t][i].rows, r \in undo[u][j].rows
  PROVE  t = u /\ i = j
<1>1. /\ deleted[r] = transaction_id[t] \/ (pc[t] = "commit" /\ deleted[r] = commit_id[t])
      /\ deleted[r] = transaction_id[u] \/ (pc[u] = "commit" /\ deleted[r] = commit_id[u])
  BY DEF Marking, DeleteInv
<1>2. /\ commit_id[t] < clock /\ commit_id[u] < clock /\ clock <= TRANSACTION_ID_START
      /\ TRANSACTION_ID_START <= transaction_id[t] /\ TRANSACTION_ID_START <= transaction_id[u]
      /\ {commit_id[t], commit_id[u], transaction_id[t], transaction_id[u], clock, TRANSACTION_ID_START} \subseteq Nat
  BY IdsAre DEF Marking
<1>3. t = u
  <2>1. CASE deleted[r] = transaction_id[t] /\ deleted[r] = transaction_id[u]
    BY <2>1 DEF IdsInv, Marking
  <2>2. CASE pc[t] = "commit" /\ pc[u] = "commit"  BY <2>2, LockIsExclusive DEF LockPcs
  <2>3. CASE deleted[r] = transaction_id[t] /\ deleted[r] = commit_id[u]  BY <1>2, <2>3
  <2>4. CASE deleted[r] = commit_id[t] /\ deleted[r] = transaction_id[u]  BY <1>2, <2>4
  <2> QED BY <1>1, <2>1, <2>2, <2>3, <2>4
<1> QED BY <1>3 DEF Marking, DeleteInv

\* Who marks rows deleted, and who takes marks back.
LEMMA DeletedIs ==
  ASSUME IInv, CleanInv, Sound, WalInv, AppendInv, NEW t \in Txns, Step(t), ~Delete(t)
  PROVE  \/ deleted' = deleted
         \/ /\ CommitEntry(t) /\ Marking(t, done[t] + 1)
            /\ deleted' = [r \in Rows |-> IF r \in undo[t][done[t] + 1].rows THEN commit_id[t] ELSE deleted[r]]
         \/ /\ RollbackEntry(t) /\ Marking(t, done[t]) /\ done'[t] < done[t]
            /\ deleted' = [r \in Rows |-> IF r \in undo[t][done[t]].rows THEN NOT_DELETED_ID ELSE deleted[r]]
<1> USE DEF versionVars
<1>0. /\ DataTyped /\ TxnTyped /\ DoneInv  BY DEF CleanInv
<1>1. CASE CommitEntry(t)
  <2>1. /\ pc[t] = "commit" /\ done[t] < Len(undo[t])
        /\ deleted' = IF undo[t][done[t] + 1].kind # "delete" THEN deleted
             ELSE [r \in Rows |-> IF r \in undo[t][done[t] + 1].rows THEN commit_id[t] ELSE deleted[r]]
    BY <1>1 DEF CommitEntry, Mark
  <2>2. done[t] + 1 \in DOMAIN undo[t]  BY <1>0, <2>1, EntryIndex
  <2>3. CASE undo[t][done[t] + 1].kind = "delete"
    <3>1. Marking(t, done[t] + 1)  BY <2>1, <2>2, <2>3 DEF Marking, Deletes, Live
    <3> QED BY <1>1, <2>1, <2>3, <3>1
  <2> QED BY <2>1, <2>3
<1>2. CASE RollbackEntry(t)
  <2>1. pc[t] = "rollback" /\ done[t] > 0 /\ done' = [done EXCEPT ![t] = @ - 1]  BY <1>2 DEF RollbackEntry
  <2>2. done[t] \in DOMAIN undo[t] /\ done[t] \in Nat /\ done'[t] < done[t]  BY <1>0, <2>1, EntryIndex DEF DoneInv, TxnTyped
  <2>3. undo[t][done[t]].kind # "append"
    <3>1. Appends(t) = {}  BY <2>1, NoAppends DEF AppendedPcs, EndedPcs
    <3> QED BY <2>2, <3>1 DEF Appends
  <2>4. CASE undo[t][done[t]].kind = "update"  BY <1>2, <2>4 DEF RollbackEntry
  <2>5. CASE undo[t][done[t]].kind = "delete"
    <3>1. Marking(t, done[t])  BY <2>1, <2>2, <2>5 DEF Marking, Deletes, Live
    <3>2. deleted' = [r \in Rows |-> IF r \in undo[t][done[t]].rows THEN NOT_DELETED_ID ELSE deleted[r]]
      BY <1>2, <2>5 DEF RollbackEntry
    <3> QED BY <1>2, <2>2, <3>1, <3>2
  <2> QED BY <1>2, <2>3, <2>4, <2>5 DEF RollbackEntry
<1>3. CASE Update(t)  BY <1>0, <1>3, UpdateFrame
<1>4. CASE CommitDirectly(t) \/ TakeTimestamp(t)  BY <1>0, <1>4, CommitDirectlyFrame, TakeTimestampFrame
<1>5. CASE Start(t) \/ Insert(t) \/ CommitThroughWAL(t) \/ WriteToWAL(t) \/ CommitDone(t)
  BY <1>5 DEF Start, Insert, CommitThroughWAL, WriteToWAL, CommitDone
<1>6. CASE Rollback(t) \/ Leave(t) \/ PopCleanup(t) \/ CleanupEntry(t)
  BY <1>6 DEF Rollback, Leave, PopCleanup, CleanupEntry
<1>7. CASE CleanupDone(t) \/ StartCheckpoint(t) \/ FinishCheckpoint(t)
  BY <1>7 DEF CleanupDone, StartCheckpoint, FinishCheckpoint
<1> QED BY <1>1, <1>2, <1>3, <1>4, <1>5, <1>6, <1>7, SoundCommit DEF Step

\* Entries that mark rows are old ones, or the one a DELETE has just recorded.
LEMMA MarkingIs ==
  ASSUME IInv, CleanInv, Sound, NEW t \in Txns, Step(t), NEW u \in Txns, NEW i \in Deletes(u)'
  PROVE  \/ i \in Deletes(u) /\ undo'[u][i] = undo[u][i]
         \/ /\ u = t /\ Delete(t) /\ i = Len(undo[t]) + 1
            /\ \A r \in undo'[u][i].rows :
                 r \in Rows /\ deleted[r] = NOT_DELETED_ID /\ deleted'[r] = transaction_id[t]
<1>0. DataTyped /\ TxnTyped  BY DEF CleanInv
<1>1. CASE ~Delete(t)  BY <1>1, DeletesStay
<1>2. CASE undo' = undo  BY <1>2 DEF Deletes
<1>3. ASSUME Delete(t),
             NEW fresh \in SUBSET Rows, NEW v \in Nat \ {0},
             \A r \in fresh : deleted[r] = NOT_DELETED_ID,
             deleted' = [r \in Rows |-> IF r \in fresh THEN transaction_id[t] ELSE deleted[r]],
             Record(t, [kind |-> "delete", at |-> v, rows |-> fresh])
      PROVE  \/ i \in Deletes(u) /\ undo'[u][i] = undo[u][i]
             \/ /\ u = t /\ Delete(t) /\ i = Len(undo[t]) + 1
                /\ \A r \in undo'[u][i].rows :
                     r \in Rows /\ deleted[r] = NOT_DELETED_ID /\ deleted'[r] = transaction_id[t]
  <2> DEFINE rec == [kind |-> "delete", at |-> v, rows |-> fresh]
  <2>1. rec \in Records
    <3>1. fresh \in SUBSET Nat  BY <1>3, ConstantTypes
    <3> QED BY <3>1 DEF Records
  <2>2. Record(t, rec) /\ rec.rows = fresh  BY <1>3
  <2> HIDE DEF rec
  <2>3. CASE u # t
    <3>1. undo'[u] = undo[u]  BY <1>0, <2>1, <2>2, <2>3, RecordIs
    <3> QED BY <3>1 DEF Deletes
  <2>4. CASE u = t
    <3>1. /\ undo'[t][Len(undo[t]) + 1] = rec /\ DOMAIN undo'[t] = 1 .. Len(undo[t]) + 1
          /\ DOMAIN undo[t] = 1 .. Len(undo[t]) /\ Len(undo[t]) \in Nat
          /\ \A k \in DOMAIN undo[t] : undo'[t][k] = undo[t][k]
      BY <1>0, <2>1, <2>2, RecordIs
    <3>2. i \in DOMAIN undo'[t] /\ undo'[t][i].kind = "delete"  BY <2>4 DEF Deletes
    <3>3. CASE i \in DOMAIN undo[t]  BY <2>4, <3>1, <3>2, <3>3 DEF Deletes
    <3>4. CASE i = Len(undo[t]) + 1
      <4>1. undo'[u][i].rows = fresh  BY <2>2, <2>4, <3>1, <3>4
      <4> QED BY <1>3, <2>4, <3>4, <4>1
    <3> QED BY <3>1, <3>2, <3>3, <3>4
  <2> QED BY <2>3, <2>4
<1>4. CASE Delete(t)
  <2>1. \/ undo' = undo
        \/ \E fresh \in SUBSET Rows : \E v \in Nat \ {0} :
              /\ \A r \in fresh : deleted[r] = NOT_DELETED_ID
              /\ deleted' = [r \in Rows |-> IF r \in fresh THEN transaction_id[t] ELSE deleted[r]]
              /\ Record(t, [kind |-> "delete", at |-> v, rows |-> fresh])
    BY <1>0, <1>4, DeleteMarks
  <2> QED BY <1>2, <1>3, <1>4, <2>1
<1> QED BY <1>1, <1>4

\* A row that is marked stays so, as long as the entry is not undone.
LEMMA MarkStays ==
  ASSUME IInv, CleanInv, Sound, WalInv, IdsInv, TimesInv, AppendInv, DeleteInv, NEW t \in Txns, Step(t),
         NEW u \in Txns, NEW i \in Nat, Marking(u, i), pc'[u] \in Live \ {"remove"}, pc'[u] = "rollback" => i <= done'[u],
         NEW r \in undo[u][i].rows
  PROVE  /\ r \in Rows
         /\ deleted'[r] = transaction_id'[u] \/ (pc'[u] = "commit" /\ deleted'[r] = commit_id'[u])
<1>0. /\ DataTyped /\ TxnTyped /\ deleted \in [Rows -> Nat] /\ done \in [Txns -> Nat] /\ pc \in [Txns -> Pcs]
  BY DEF CleanInv, DataTyped, TxnTyped, IInv, Typed
<1>1. /\ r \in Rows /\ pc[u] \in Live \ {"remove"} /\ i \in Deletes(u)
      /\ deleted[r] = transaction_id[u] \/ (pc[u] = "commit" /\ deleted[r] = commit_id[u])
  BY DEF Marking, DeleteInv
<1>2. /\ deleted[r] # NOT_DELETED_ID
      /\ commit_id[u] \in Nat
  BY <1>1, IdsAre DEF Marking
<1>3. deleted'[r] = deleted[r] \/ (CommitEntry(t) /\ u = t /\ deleted'[r] = commit_id[t])
  <2>1. CASE Delete(t)
    <3>1. \/ deleted' = deleted
          \/ \E fresh \in SUBSET Rows :
              /\ \A x \in fresh : deleted[x] = NOT_DELETED_ID
              /\ deleted' = [x \in Rows |-> IF x \in fresh THEN transaction_id[t] ELSE deleted[x]]
      BY <1>0, <2>1, DeleteMarks
    <3> QED BY <1>1, <1>2, <3>1
  <2>2. CASE deleted' = deleted  BY <2>2
  <2>3. CASE /\ CommitEntry(t) /\ Marking(t, done[t] + 1)
             /\ deleted' = [x \in Rows |-> IF x \in undo[t][done[t] + 1].rows THEN commit_id[t] ELSE deleted[x]]
    BY <1>1, <2>3, MarkedOnce
  <2>4. CASE /\ RollbackEntry(t) /\ Marking(t, done[t]) /\ done'[t] < done[t]
             /\ deleted' = [x \in Rows |-> IF x \in undo[t][done[t]].rows THEN NOT_DELETED_ID ELSE deleted[x]]
    <3>1. CASE r \in undo[t][done[t]].rows
      <4>1. t = u /\ done[t] = i  BY <2>4, <3>1, MarkedOnce
      <4>2. pc' = pc /\ pc[t] = "rollback" /\ done' = [done EXCEPT ![t] = @ - 1]  BY <2>4 DEF RollbackEntry
      <4>3. i <= done'[t] /\ done'[t] = i - 1  BY <1>0, <4>1, <4>2
      <4> QED BY <4>3
    <3>2. CASE r \notin undo[t][done[t]].rows  BY <1>1, <2>4, <3>2
    <3> QED BY <3>1, <3>2
  <2> QED BY <2>1, <2>2, <2>3, <2>4, DeletedIs
<1>4. pc'[u] = pc[u] \/ (u = t /\ pc[u] # "commit")
  <2>1. CASE u # t  BY <2>1, OthersStay
  <2>2. CASE u = t  BY <1>0, <1>1, <2>2, SoundMove DEF Live
  <2> QED BY <2>1, <2>2
<1>5. transaction_id'[u] = transaction_id[u]
  <2>1. CASE u # t  BY <2>1, OthersStay
  <2>2. CASE u = t
    <3>1. ~Start(t)  BY <1>1, <2>2 DEF Start, Live
    <3>2. ~Leave(t)  BY <1>0, <2>2 DEF Leave, Goto, Live
    <3> QED BY <2>2, <3>1, <3>2, FieldsStay
  <2> QED BY <2>1, <2>2
<1>6. pc[u] = "commit" => commit_id'[u] = commit_id[u]
  <2>1. CASE u # t  BY <2>1, OthersStay
  <2>2. CASE u = t  BY <2>2, FieldsStay DEF CommitDirectly, Running, TakeTimestamp
  <2> QED BY <2>1, <2>2
<1>7. CASE deleted'[r] = deleted[r]  BY <1>1, <1>4, <1>5, <1>6, <1>7
<1>8. CASE CommitEntry(t) /\ u = t /\ deleted'[r] = commit_id[t]
  BY <1>1, <1>6, <1>8 DEF CommitEntry
<1> QED BY <1>1, <1>3, <1>7, <1>8

\* Where an entry still marks its rows, it did before.
LEMMA MarkingWas ==
  ASSUME IInv, CleanInv, Sound, WalInv, NEW t \in Txns, Step(t),
         NEW u \in Txns, NEW i \in Deletes(u), pc'[u] \in Live \ {"remove"}, pc'[u] = "rollback" => i <= done'[u]
  PROVE  Marking(u, i)
<1>0. /\ DataTyped /\ TxnTyped /\ ManagerTyped /\ ActiveInv /\ PlaceInv /\ HomeInv
      /\ done \in [Txns -> Nat] /\ pc \in [Txns -> Pcs]
      /\ i \in Nat
  <2>1. /\ DataTyped /\ TxnTyped /\ ManagerTyped /\ ActiveInv /\ PlaceInv /\ HomeInv
        /\ done \in [Txns -> Nat] /\ pc \in [Txns -> Pcs]
    BY DEF CleanInv, TxnTyped, IInv, Typed
  <2>2. i \in DOMAIN undo[u]  BY DEF Deletes
  <2> QED BY <2>1, <2>2, EntryIndex
<1>1. CASE u # t
  <2>1. pc'[u] = pc[u]  BY <1>1, OthersStay
  <2>2. pc[u] \notin EndedPcs  BY <2>1 DEF Live, EndedPcs
  <2>3. done'[u] = done[u]
    <3>1. CASE CleanupEntry(t)
      <4>1. PICK w \in ToSet(work.txns) : w \in Txns /\ done' = [done EXCEPT ![w] = @ + 1]
        BY <1>0, <3>1, CleanupEntryIs
      <4>2. pc[w] \in EndedPcs  BY <1>0, <4>1 DEF PlaceInv
      <4> QED BY <1>0, <2>2, <4>1, <4>2
    <3> QED BY <1>1, <3>1, FieldsStay
  <2> QED BY <2>1, <2>3 DEF Marking
<1>2. CASE u = t
  <2>1. pc[t] # "new"
    <3>1. SUFFICES ASSUME pc[t] = "new" PROVE FALSE
      OBVIOUS
    <3>2. undo[t] = <<>>  BY <1>0, <3>1, NewIsEmpty
    <3> QED BY <1>2, <3>2 DEF Deletes
  <2>2. /\ pc[t] \in Live \ {"remove"}
        /\ pc[t] = "rollback" => pc'[t] = "rollback" /\ ~Leave(t)
    <3>1. CASE pc' = pc
      BY <1>0, <1>2, <3>1 DEF Leave, Goto, Live
    <3>2. CASE pc' # pc
      BY <1>0, <1>2, <2>1, <3>2, SoundMove DEF Live, Leave, Goto
    <3> QED BY <3>1, <3>2
  <2>3. CASE pc[t] = "rollback"
    <3>1. done'[t] <= done[t]
      <4>1. CASE done' = done  BY <1>0, <4>1
      <4>2. CASE RollbackEntry(t)
        <5>1. done' = [done EXCEPT ![t] = @ - 1] /\ done[t] > 0  BY <4>2 DEF RollbackEntry
        <5> QED BY <1>0, <5>1
      <4>3. CASE CleanupEntry(t) \/ CommitEntry(t) \/ Rollback(t)
        BY <2>3, <4>3 DEF CleanupEntry, CommitEntry, Rollback
      <4> QED BY <2>2, <2>3, <4>1, <4>2, <4>3, FieldsStay
    <3>2. i <= done'[t] /\ done'[t] \in Nat
      <4>1. TxnTyped'  BY <1>0, TxnTypedKept
      <4> QED BY <1>2, <2>2, <2>3, <4>1 DEF TxnTyped
    <3> QED BY <1>0, <1>2, <2>2, <3>1, <3>2 DEF Marking
  <2> QED BY <1>2, <2>2, <2>3 DEF Marking
<1> QED BY <1>1, <1>2

\* Every step keeps the marks.
LEMMA DeleteKept ==
  ASSUME IInv, CleanInv, Sound, WalInv, IdsInv, TimesInv, AppendInv, DeleteInv, NEW t \in Txns, Step(t)
  PROVE  DeleteInv'
<1>0. /\ DataTyped /\ TxnTyped /\ pc \in [Txns -> Pcs]  BY DEF CleanInv, IInv, Typed
<1>1. SUFFICES ASSUME NEW u \in Txns, pc'[u] \in Live \ {"remove"}, NEW i \in Deletes(u)',
                      pc'[u] = "rollback" => i <= done'[u], NEW r \in undo'[u][i].rows
               PROVE  /\ r \in Rows
                      /\ deleted'[r] = transaction_id'[u] \/ (pc'[u] = "commit" /\ deleted'[r] = commit_id'[u])
                      /\ \A j \in Deletes(u)' : r \in undo'[u][j].rows => i = j
  BY DEF DeleteInv
<1>2. CASE i \in Deletes(u) /\ undo'[u][i] = undo[u][i]
  <2>1. Marking(u, i) /\ i \in Nat /\ r \in undo[u][i].rows
    BY <1>0, <1>1, <1>2, MarkingWas DEF Deletes, DataTyped
  <2>2. /\ r \in Rows
        /\ deleted'[r] = transaction_id'[u] \/ (pc'[u] = "commit" /\ deleted'[r] = commit_id'[u])
    BY <1>1, <2>1, MarkStays
  <2>3. ASSUME NEW j \in Deletes(u)', r \in undo'[u][j].rows PROVE i = j
    <3>1. deleted[r] # NOT_DELETED_ID
      <4>1. deleted[r] \in {transaction_id[u], commit_id[u]} /\ pc[u] \in Live
        BY <2>1 DEF Marking, DeleteInv
      <4> QED BY <4>1, IdsAre
    <3>2. j \in Deletes(u) /\ undo'[u][j] = undo[u][j]  BY <2>3, <3>1, MarkingIs
    <3> QED BY <2>1, <2>3, <3>2 DEF Marking, DeleteInv
  <2> QED BY <2>2, <2>3
<1>3. CASE u = t /\ Delete(t) /\ i = Len(undo[t]) + 1
           /\ \A x \in undo'[u][i].rows :
                 x \in Rows /\ deleted[x] = NOT_DELETED_ID /\ deleted'[x] = transaction_id[t]
  <2>1. pc[t] = "running"  BY <1>3 DEF Delete, CanChange, Running
  <2>2. transaction_id'[t] = transaction_id[t]
    <3>1. ~Start(t) /\ ~Leave(t)  BY <2>1 DEF Start, Leave
    <3> QED BY <3>1, FieldsStay
  <2>3. ASSUME NEW j \in Deletes(u)', r \in undo'[u][j].rows PROVE i = j
    <3>1. CASE j \in Deletes(u) /\ undo'[u][j] = undo[u][j]
      <4>1. deleted[r] = transaction_id[t]
        BY <1>3, <2>1, <2>3, <3>1 DEF DeleteInv, Live
      <4>2. transaction_id[t] # NOT_DELETED_ID  BY <2>1, IdsAre DEF Live
      <4> QED BY <1>1, <1>3, <4>1, <4>2
    <3> QED BY <1>3, <2>3, <3>1, MarkingIs
  <2> QED BY <1>1, <1>3, <2>2, <2>3
<1> QED BY <1>1, <1>2, <1>3, MarkingIs

\* Who commits is the only one who may come to checkpoint.
LEMMA CheckpointsStay ==
  ASSUME IInv, CleanInv, NEW t \in Txns, Step(t), ~CommitDirectly(t)
  PROVE  checkpoints' = checkpoints
<1>0. DataTyped /\ TxnTyped  BY DEF CleanInv
<1>1. CASE Delete(t) \/ Update(t) \/ TakeTimestamp(t)
  BY <1>0, <1>1, DeleteFrame, UpdateFrame, TakeTimestampFrame
<1>2. CASE Start(t) \/ Insert(t) \/ CommitThroughWAL(t) \/ WriteToWAL(t) \/ CommitEntry(t) \/ CommitDone(t)
  BY <1>2 DEF Start, Insert, CommitThroughWAL, WriteToWAL, CommitEntry, CommitDone
<1>3. CASE FlushFails(t) \/ Rollback(t) \/ RollbackEntry(t) \/ Leave(t) \/ PopCleanup(t)
  BY <1>3 DEF FlushFails, Rollback, RollbackEntry, Leave, PopCleanup
<1>4. CASE CleanupEntry(t) \/ CleanupDone(t) \/ StartCheckpoint(t) \/ FinishCheckpoint(t)
  BY <1>4 DEF CleanupEntry, CleanupDone, StartCheckpoint, FinishCheckpoint
<1> QED BY <1>1, <1>2, <1>3, <1>4 DEF Step

\* Commits are over in the order of their timestamps.
LEMMA LastGrows ==
  ASSUME IInv, CleanInv, Sound, WalInv, IdsInv, TimesInv, NEW t \in Txns, Step(t)
  PROVE  last_commit' \in Nat /\ last_commit <= last_commit'
<1>1. last_commit \in Nat /\ commit_id[t] \in Nat  BY IdsAre
<1>2. CASE last_commit' = last_commit  BY <1>1, <1>2
<1>3. CASE last_commit' = commit_id[t] /\ CommitDone(t)
  <2>1. last_commit < commit_id[t]  BY <1>3 DEF CommitDone, TimesInv
  <2> QED BY <1>1, <1>3, <2>1
<1> QED BY <1>2, <1>3, FieldsStay

\* An append that meets a checkpoint is not by who is going to checkpoint next.
LEMMA SeenMoves ==
  ASSUME IInv, CleanInv, CleanInv', Sound, WalInv, AppendInv, NEW t \in Txns, Step(t), seen' # seen
  PROVE  /\ active_checkpoint # NoCheckpoint /\ seen'.checkpoint = active_checkpoint
         /\ \A u \in Txns : HoldsCheckpointLock(u)' => pc'[u] = "checkpointing"
<1>0. DataTyped /\ TxnTyped /\ HolderInv /\ CheckpointInv /\ ExclusiveInv /\ HolderInv'  BY DEF CleanInv
<1>1. /\ Grows(t) /\ pc[t] \in {"running", "wal"}
      /\ CommitDirectly(t) \/ WriteToWAL(t)
  BY AppendsFrame
<1>2. SeeCheckpoint  BY <1>1, GrowIs
<1>3. active_checkpoint # NoCheckpoint /\ seen'.checkpoint = active_checkpoint  BY <1>2 DEF SeeCheckpoint
<1>4. PICK c \in Txns : pc[c] = "checkpointing" /\ checkpoint_lock = c  BY <1>0, <1>3, CheckpointerIs
<1>5. checkpoint_lock' = checkpoint_lock
  <2>1. checkpoint_lock # None  BY <1>4, NoneAssumption
  <2>2. CASE CommitDirectly(t)  BY <1>0, <2>1, <2>2, CommitDirectlyFrame DEF CheckpointLockFree
  <2>3. CASE WriteToWAL(t)  BY <2>3 DEF WriteToWAL
  <2> QED BY <1>1, <2>2, <2>3
<1>6. pc'[c] = "checkpointing"  BY <1>1, <1>4, OthersStay
<1>7. ASSUME NEW u \in Txns, HoldsCheckpointLock(u)' PROVE pc'[u] = "checkpointing"
  <2>1. checkpoint_lock' = u  BY <1>0, <1>7 DEF HolderInv
  <2> QED BY <1>4, <1>5, <1>6, <2>1
<1> QED BY <1>3, <1>7

\* Who is about to checkpoint has committed since the last checkpoint that was met.
LEMMA SeenKept ==
  ASSUME IInv, CleanInv, CleanInv', Sound, WalInv, IdsInv, TimesInv, AppendInv, GroupInv, SeenInv,
         NEW t \in Txns, Step(t)
  PROVE  SeenInv'
<1>0. /\ DataTyped /\ TxnTyped /\ pc \in [Txns -> Pcs] /\ commit_id \in [Txns -> Nat] /\ Unstamped
      /\ checkpoints \in [Txns -> BOOLEAN] /\ active_checkpoint \in Nat
  BY DEF CleanInv, IInv, Typed, TxnTyped, ManagerTyped
<1>1. /\ last_commit \in Nat /\ last_commit' \in Nat /\ last_commit <= last_commit' /\ NoCheckpoint \in Nat
      /\ last_commit < clock /\ clock \in Nat
  BY LastGrows, IdsAre
<1>2. CASE seen' # seen
  <2>1. seen'.checkpoint \in Nat /\ seen'.checkpoint <= last_commit'
    BY <1>0, <1>1, <1>2, SeenMoves DEF GroupInv
  <2>2. ASSUME NEW u \in Txns, HoldsCheckpointLock(u)' PROVE pc'[u] \notin StampedPcs \union {"cleanup", "cleaning", "checkpoint"}
    <3>1. pc'[u] = "checkpointing"  BY <1>2, <2>2, SeenMoves
    <3> QED BY <3>1 DEF StampedPcs
  <2> QED BY <2>1, <2>2 DEF SeenInv
<1>3. CASE seen' = seen
  <2> DEFINE s == seen.checkpoint
  <2>1. s \in Nat /\ (s = NoCheckpoint \/ s <= last_commit)  BY DEF SeenInv
  <2>2. s = NoCheckpoint \/ s <= last_commit'  BY <1>1, <2>1
  <2>3. ASSUME NEW u \in Txns, HoldsCheckpointLock(u)',
               pc'[u] \in StampedPcs \union {"cleanup", "cleaning", "checkpoint"}
        PROVE  s = NoCheckpoint \/ s < commit_id'[u]
    <3>1. CASE u # t
      <4>1. pc'[u] = pc[u] /\ checkpoints'[u] = checkpoints[u] /\ commit_id'[u] = commit_id[u]  BY <3>1, OthersStay
      <4>2. HoldsCheckpointLock(u)  BY <2>3, <4>1 DEF HoldsCheckpointLock, Committed
      <4> QED BY <2>3, <4>1, <4>2 DEF SeenInv
    <3>2. CASE u = t /\ (CommitDirectly(t) \/ TakeTimestamp(t))
      <4>1. commit_id'[t] = clock  BY <1>0, <3>2, SoundCommit
      <4> QED BY <1>1, <2>1, <3>2, <4>1
    <3>3. CASE u = t /\ ~CommitDirectly(t) /\ ~TakeTimestamp(t)
      <4>1. checkpoints' = checkpoints /\ commit_id' = commit_id  BY <3>3, CheckpointsStay, FieldsStay
      <4>2. checkpoints[t]  BY <2>3, <3>3, <4>1 DEF HoldsCheckpointLock
      <4>3. \/ pc[t] \in StampedPcs
            \/ pc[t] \in {"cleanup", "cleaning", "checkpoint"} /\ Committed(t)
        <5>1. CASE pc' = pc  BY <2>3, <3>3, <4>1, <5>1 DEF HoldsCheckpointLock, Committed, StampedPcs, LockPcs
        <5>2. CASE pc' # pc
          <6>1. PICK l \in Pcs :
                  /\ pc'[t] = l
                  /\ \/ l \in {"running", "failed", "wal", "written", "rollback", "done", "checkpointing"}
                     \/ pc[t] = "commit" /\ l = "remove"
                     \/ pc[t] \in {"remove", "rollback"} /\ l = "cleanup"
                     \/ pc[t] \in {"cleanup", "cleaning"} /\ l \in {"cleaning", "checkpoint"}
            BY <1>0, <3>3, <5>2, SoundMove
          <6>2. pc[t] = "rollback" => ~Committed(t)  BY <1>0 DEF Unstamped, EarlyPcs, Committed
          <6> QED BY <2>3, <3>3, <4>1, <6>1, <6>2 DEF HoldsCheckpointLock, Committed, StampedPcs, LockPcs
        <5> QED BY <5>1, <5>2
      <4>4. HoldsCheckpointLock(t)  BY <4>2, <4>3 DEF HoldsCheckpointLock, StampedPcs, LockPcs
      <4> QED BY <3>3, <4>1, <4>3, <4>4 DEF SeenInv
    <3> QED BY <3>1, <3>2, <3>3
  <2> QED BY <1>3, <2>1, <2>2, <2>3 DEF SeenInv
<1> QED BY <1>2, <1>3

\* The rows of a commit are above the checkpoint, until and unless they were below.
LEMMA AboveKept ==
  ASSUME IInv, CleanInv, Sound, WalInv, IdsInv, TimesInv, AppendInv, RoomInv, PendingInv, RipeInv, GroupInv,
         NEW t \in Txns, Step(t), active_checkpoint # NoCheckpoint, NEW r \in 1 .. count
  PROVE  inserted'[r] <= active_checkpoint <=> inserted[r] <= active_checkpoint
<1>0. /\ active_checkpoint \in Nat /\ active_checkpoint <= last_commit /\ last_commit \in Nat
      /\ last_commit < TRANSACTION_ID_START /\ TRANSACTION_ID_START \in Nat
  <2>1. active_checkpoint \in Nat /\ active_checkpoint <= last_commit  BY DEF CleanInv, ManagerTyped, GroupInv
  <2>2. last_commit < clock /\ clock <= TRANSACTION_ID_START /\ {last_commit, clock, TRANSACTION_ID_START} \subseteq Nat
    BY IdsAre
  <2> QED BY <2>1, <2>2
<1>1. CASE inserted'[r] = inserted[r]  BY <1>1
<1>2. CASE /\ CommitEntry(t) /\ done[t] + 1 \in Appends(t) /\ r \in undo[t][done[t] + 1].rows
           /\ inserted'[r] = commit_id[t]
  <2>1. pc[t] = "commit"  BY <1>2 DEF CommitEntry
  <2>2. done[t] \in Nat /\ ~(done[t] + 1 <= done[t])
    <3>1. done[t] \in Nat  BY DEF CleanInv, TxnTyped
    <3> QED BY <3>1
  <2>3. inserted[r] = transaction_id[t]  BY <1>2, <2>1, <2>2 DEF PendingInv
  <2>4. /\ TRANSACTION_ID_START <= transaction_id[t] /\ last_commit < commit_id[t]
        /\ transaction_id[t] \in Nat /\ commit_id[t] \in Nat
    BY <2>1, IdsAre DEF Live, TimesInv
  <2>5. ~(inserted'[r] <= active_checkpoint) /\ ~(inserted[r] <= active_checkpoint)  BY <1>0, <1>2, <2>3, <2>4
  <2> QED BY <2>5
<1>3. CASE /\ CleanupEntry(t) /\ inserted'[r] = 0 /\ \E u \in Txns : CleanedUp(u, r)
  <2>1. PICK u \in Txns : CleanedUp(u, r)  BY <1>3
  <2>2. inserted[r] <= commit_id[u] /\ commit_id[u] <= active_checkpoint /\ commit_id[u] \in Nat
    BY <2>1, IdsAre DEF CleanedUp
  <2>3. inserted[r] \in Nat
    <3>1. DataTyped  BY DEF CleanInv
    <3>2. r \in Rows  BY <3>1, RoomIs
    <3> QED BY <3>1, <3>2 DEF DataTyped
  <2> QED BY <1>0, <1>3, <2>2, <2>3
<1> QED BY <1>1, <1>2, <1>3, InsertedIs

\* When a checkpoint starts, all rows are those of commits that are over.
LEMMA StartsOver ==
  ASSUME IInv, CleanInv, IdsInv, TimesInv, WalInv, RowInv, SeenInv, NEW t \in Txns, StartCheckpoint(t)
  PROVE  /\ \A r \in 1 .. count : inserted[r] <= last_commit
         /\ seen.checkpoint # last_commit
         /\ sharing \subseteq {t}
<1>0. HolderInv /\ ExclusiveInv /\ pc[t] = "checkpoint" /\ wal_lock = None
  BY DEF CleanInv, StartCheckpoint
<1>1. HoldsCheckpointLock(t) /\ checkpoint_lock = t  BY <1>0 DEF HolderInv, HoldsCheckpointLock
<1>2. sharing \subseteq {t}  BY <1>0, <1>1, NoneAssumption DEF ExclusiveInv
<1>3. ASSUME NEW r, PendingRow(r) PROVE FALSE
  <2>1. PICK u \in Txns : pc[u] \in {"written", "commit"} /\ \E i \in Appends(u) : r \in undo[u][i].rows
    BY <1>3 DEF PendingRow
  <2>2. undo[u] # <<>>  BY <2>1 DEF Appends
  <2>3. wal_lock = u \/ (pc[u] = "commit" /\ checkpoints[u])  BY <2>1, <2>2 DEF WalInv
  <2>4. CASE wal_lock = u  BY <1>0, <2>4, NoneAssumption
  <2>5. CASE pc[u] = "commit" /\ checkpoints[u]
    <3>1. checkpoint_lock = u  BY <1>0, <2>5 DEF HolderInv, HoldsCheckpointLock, LockPcs
    <3> QED BY <1>0, <1>1, <2>5, <3>1
  <2> QED BY <2>3, <2>4, <2>5
<1>4. seen.checkpoint # last_commit
  <2>1. seen.checkpoint = NoCheckpoint \/ seen.checkpoint < commit_id[t]  BY <1>0, <1>1 DEF SeenInv
  <2>2. commit_id[t] <= last_commit  BY <1>0 DEF TimesInv, EndedPcs
  <2>3. last_commit \in Nat /\ commit_id[t] \in Nat /\ last_commit < NoCheckpoint /\ NoCheckpoint \in Nat  BY IdsAre
  <2>4. seen.checkpoint \in Nat  BY DEF SeenInv
  <2> QED BY <2>1, <2>2, <2>3, <2>4
<1> QED BY <1>2, <1>3, <1>4 DEF RowInv

\* What a commit appends beside a checkpoint, the checkpoint does not see.
LEMMA GrownRows ==
  ASSUME IInv, CleanInv, Sound, WalInv, IdsInv, TimesInv, AppendInv, RoomInv, RoomInv', GroupInv,
         NEW t \in Txns, Step(t), Grows(t), pc[t] \in {"running", "wal"}, active_checkpoint # NoCheckpoint,
         NEW r \in Nat, r > count, r <= count'
  PROVE  r \in Rows /\ ~(inserted'[r] <= active_checkpoint)
<1>0. DataTyped /\ TxnTyped /\ DataTyped'
  BY CleanStep DEF CleanInv
<1>1. r \in Rows
  <2>1. (DataTyped /\ RoomInv => count \in Nat /\ count <= MaxRows)'  BY RoomIs, PTL
  <2>3. count' \in Nat /\ count' <= MaxRows /\ MaxRows \in Nat  BY <1>0, <2>1, ConstantTypes
  <2>2. count \in Nat  BY <1>0 DEF DataTyped
  <2> QED BY <2>2, <2>3 DEF Rows
<1>2. inserted'[r] = transaction_id[t]
  <2>1. /\ count' = count + local[t] /\ local[t] \in Nat /\ count \in Nat
        /\ inserted' = [x \in Rows |-> IF x \in count + 1 .. count + local[t]
                                        THEN transaction_id[t] ELSE inserted[x]]
    BY GrowIs
  <2> QED BY <1>1, <2>1
<1>3. /\ TRANSACTION_ID_START <= transaction_id[t] /\ transaction_id[t] \in Nat
      /\ last_commit < clock /\ clock <= TRANSACTION_ID_START
      /\ {last_commit, clock, TRANSACTION_ID_START} \subseteq Nat
  BY IdsAre DEF Live
<1>4. active_checkpoint \in Nat /\ active_checkpoint <= last_commit  BY DEF CleanInv, ManagerTyped, GroupInv
<1> QED BY <1>1, <1>2, <1>3, <1>4

\* Every step keeps the rows of later commits in row groups of their own.
LEMMA GroupKept ==
  ASSUME IInv, CleanInv, Sound, WalInv, IdsInv, TimesInv, AppendInv, RoomInv, RoomInv', PendingInv, RipeInv,
         RowInv, SeenInv, GroupInv, NEW t \in Txns, Step(t)
  PROVE  GroupInv'
<1>0. /\ DataTyped /\ TxnTyped /\ active_checkpoint \in Nat /\ count \in Nat
      /\ last_commit \in Nat /\ last_commit' \in Nat /\ last_commit <= last_commit'
  BY LastGrows, IdsAre DEF CleanInv, ManagerTyped, DataTyped
<1>1. CASE StartCheckpoint(t) /\ active_checkpoint' = last_commit /\ last_commit' = last_commit
  <2>1. UNCHANGED <<count, groups, seen, inserted>>  BY <1>1 DEF StartCheckpoint, versionVars
  <2>2. (\A r \in 1 .. count : inserted[r] <= last_commit) /\ seen.checkpoint # last_commit  BY <1>1, StartsOver
  <2>3. NewFrom(count + 1)'
    <3>1. \A r \in 1 .. count' : r < count' + 1 /\ inserted'[r] <= active_checkpoint'  BY <1>0, <1>1, <2>1, <2>2
    <3> QED BY <3>1 DEF NewFrom
  <2> QED BY <1>0, <1>1, <2>1, <2>2, <2>3 DEF GroupInv
<1>2. CASE active_checkpoint' = NoCheckpoint  BY <1>2 DEF GroupInv
<1>3. CASE active_checkpoint' = active_checkpoint /\ active_checkpoint # NoCheckpoint
  <2>0. active_checkpoint <= last_commit'  BY <1>0, <1>3 DEF GroupInv
  <2>1. \A r \in 1 .. count : inserted'[r] <= active_checkpoint <=> inserted[r] <= active_checkpoint  BY <1>3, AboveKept
  <2>2. CASE UNCHANGED <<count, groups, seen>>
    <3>1. ASSUME NEW g, NewFrom(g) PROVE NewFrom(g)'
      BY <1>3, <2>1, <2>2, <3>1 DEF NewFrom
    <3>2. NewFrom(count + 1) => NewFrom(count + 1)'
      BY <1>3, <2>1, <2>2 DEF NewFrom
    <3> QED BY <1>3, <2>0, <2>2, <3>1, <3>2 DEF GroupInv
  <2>3. CASE Grows(t) /\ pc[t] \in {"running", "wal"}
    <3>1. /\ local[t] \in Nat \ {0} /\ count' = count + local[t] /\ groups \subseteq groups'
          /\ seen.checkpoint # active_checkpoint => count + 1 \in groups'
          /\ SeeCheckpoint
      BY <1>3, <2>3, GrowIs
    <3>2. seen'.checkpoint = active_checkpoint  BY <1>3, <3>1 DEF SeeCheckpoint
    <3>3. \A r \in Nat : r > count /\ r <= count' => ~(inserted'[r] <= active_checkpoint)
      BY <1>3, <2>3, GrownRows
    <3>4. ASSUME NEW g \in Nat, g <= count + 1, NewFrom(g) PROVE NewFrom(g)'
      <4>1. SUFFICES ASSUME NEW r \in 1 .. count' PROVE r < g <=> inserted'[r] <= active_checkpoint
        BY <1>3 DEF NewFrom
      <4>2. CASE r <= count
        <5>1. r \in 1 .. count  BY <1>0, <4>2
        <5> QED BY <2>1, <3>4, <5>1 DEF NewFrom
      <4>3. CASE r > count
        <5>1. r \in Nat /\ r <= count' /\ ~(r < g)  BY <1>0, <3>1, <3>4, <4>3
        <5> QED BY <3>3, <4>3, <5>1
      <4> QED BY <1>0, <4>2, <4>3
    <3>5. CASE seen.checkpoint # active_checkpoint
      <4>1. NewFrom(count + 1)  BY <1>3, <3>5 DEF GroupInv
      <4>2. PICK g : g = count + 1  OBVIOUS
      <4>3. NewFrom(g)  BY <4>1, <4>2 DEF NewFrom
      <4>4. NewFrom(g)' /\ g \in groups'  BY <1>0, <3>1, <3>4, <3>5, <4>2, <4>3
      <4> QED BY <1>3, <2>0, <3>2, <4>4 DEF GroupInv
    <3>6. CASE seen.checkpoint = active_checkpoint
      <4>1. PICK g \in groups : NewFrom(g)  BY <1>3, <3>6 DEF GroupInv
      <4>2. g \in Nat /\ g <= count + 1
        <5>1. g \in 1 .. count  BY DEF AppendInv
        <5> QED BY <1>0, <5>1
      <4>3. NewFrom(g)' /\ g \in groups'  BY <3>1, <3>4, <4>1, <4>2
      <4> QED BY <1>3, <2>0, <3>2, <4>3 DEF GroupInv
    <3> QED BY <3>5, <3>6
  <2> QED BY <2>2, <2>3, AppendsFrame
<1> QED BY <1>0, <1>1, <1>2, <1>3, CheckpointMoves

\* Beside a checkpoint nobody updates rows, or takes updates back.
LEMMA CurrentStays ==
  ASSUME IInv, CleanInv, Sound, WalInv, AppendInv, RoomInv, NEW t \in Txns, Step(t),
         active_checkpoint # NoCheckpoint, NEW r \in 1 .. count
  PROVE  current'[r] = current[r]
<1> USE DEF updateVars
<1>0. /\ DataTyped /\ TxnTyped /\ DoneInv /\ SharingInv /\ HolderInv /\ CheckpointInv /\ ExclusiveInv
      /\ r \in Rows /\ count \in Nat
  BY RoomIs DEF CleanInv
<1>1. PICK c \in Txns : pc[c] = "checkpointing" /\ checkpoint_lock = c /\ sharing \subseteq {c}
  BY <1>0, CheckpointerIs
<1>2. CASE Update(t)
  <2>1. pc[t] = "running" /\ (checkpoint_lock = None \/ t \in sharing)  BY <1>2 DEF Update, CanChange, Running
  <2> QED BY <1>1, <2>1, NoneAssumption
<1>3. CASE RollbackEntry(t)
  <2>1. pc[t] = "rollback" /\ done[t] > 0  BY <1>3 DEF RollbackEntry
  <2>2. done[t] \in DOMAIN undo[t]  BY <1>0, <2>1, EntryIndex DEF DoneInv
  <2>3. undo[t][done[t]].kind # "update"
    <3>1. SUFFICES ASSUME undo[t][done[t]].kind = "update" PROVE FALSE
      OBVIOUS
    <3>2. HasUpdates(t)  BY <2>2, <3>1 DEF HasUpdates
    <3> QED BY <1>0, <1>1, <2>1, <3>2 DEF SharingInv
  <2> QED BY <1>3, <2>3 DEF RollbackEntry
<1>4. CASE AppendLocal(t) /\ (CommitDirectly(t) \/ WriteToWAL(t))
  <2>1. CASE local[t] = 0  BY <1>4, <2>1 DEF AppendLocal
  <2>2. CASE local[t] # 0
    <3>1. local[t] > 0  BY <1>0, <2>2 DEF TxnTyped
    <3>2. Grows(t) /\ pc[t] \in {"running", "wal"}  BY <1>4, <3>1 DEF Grows, CommitDirectly, Running, WriteToWAL
    <3>3. current' = [x \in Rows |-> IF x \in count + 1 .. count + local[t] THEN t ELSE current[x]]
      BY <3>2, GrowIs
    <3> QED BY <1>0, <3>3
  <2> QED BY <2>1, <2>2
<1>5. CASE Delete(t) \/ TakeTimestamp(t)  BY <1>0, <1>5, DeleteFrame, TakeTimestampFrame
<1>6. CASE Start(t) \/ Insert(t) \/ CommitThroughWAL(t) \/ CommitEntry(t) \/ CommitDone(t) \/ Rollback(t)
  BY <1>6 DEF Start, Insert, CommitThroughWAL, CommitEntry, CommitDone, Rollback
<1>7. CASE Leave(t) \/ PopCleanup(t) \/ CleanupEntry(t) \/ CleanupDone(t)
  BY <1>7 DEF Leave, PopCleanup, CleanupEntry, CleanupDone
<1>8. CASE StartCheckpoint(t) \/ FinishCheckpoint(t)
  BY <1>8 DEF StartCheckpoint, FinishCheckpoint
<1> QED BY <1>2, <1>3, <1>4, <1>5, <1>6, <1>7, <1>8, SoundCommit DEF Step

\* Deletes of later commits stay later, those of the commit and before it stay.
LEMMA DeletedStays ==
  ASSUME IInv, CleanInv, Sound, WalInv, IdsInv, TimesInv, AppendInv, DeleteInv, GroupInv,
         NEW t \in Txns, Step(t), active_checkpoint # NoCheckpoint, NEW r \in Rows
  PROVE  deleted'[r] <= active_checkpoint <=> deleted[r] <= active_checkpoint
<1>0. DataTyped /\ TxnTyped  BY DEF CleanInv
<1>1. /\ active_checkpoint \in Nat /\ active_checkpoint <= last_commit
      /\ last_commit < TRANSACTION_ID_START /\ TRANSACTION_ID_START < NOT_DELETED_ID
      /\ {last_commit, TRANSACTION_ID_START, NOT_DELETED_ID} \subseteq Nat
  <2>1. active_checkpoint \in Nat /\ active_checkpoint <= last_commit  BY DEF CleanInv, ManagerTyped, GroupInv
  <2>2. last_commit < clock /\ clock <= TRANSACTION_ID_START /\ {last_commit, clock, TRANSACTION_ID_START} \subseteq Nat
    BY IdsAre
  <2>3. TRANSACTION_ID_START < NOT_DELETED_ID /\ NOT_DELETED_ID \in Nat  BY IdsAre
  <2> QED BY <2>1, <2>2, <2>3
<1>2. ASSUME pc[t] \in Live PROVE transaction_id[t] \in Nat /\ TRANSACTION_ID_START <= transaction_id[t]
  BY <1>2, IdsAre
<1>3. CASE deleted'[r] = deleted[r]  BY <1>3
<1>4. CASE Delete(t) /\ deleted[r] = NOT_DELETED_ID /\ deleted'[r] = transaction_id[t]
  <2>1. pc[t] = "running"  BY <1>4 DEF Delete, CanChange, Running
  <2>2. ~(deleted'[r] <= active_checkpoint) /\ ~(deleted[r] <= active_checkpoint)
    BY <1>1, <1>2, <1>4, <2>1 DEF Live
  <2> QED BY <2>2
<1>5. CASE CommitEntry(t) /\ Marking(t, done[t] + 1) /\ r \in undo[t][done[t] + 1].rows /\ deleted'[r] = commit_id[t]
  <2>1. pc[t] = "commit"  BY <1>5 DEF CommitEntry
  <2>2. commit_id[t] \in Nat /\ last_commit < commit_id[t]  BY <2>1, IdsAre DEF TimesInv
  <2>3. deleted[r] = transaction_id[t] \/ deleted[r] = commit_id[t]  BY <1>5 DEF Marking, DeleteInv
  <2>4. ~(deleted'[r] <= active_checkpoint) /\ ~(deleted[r] <= active_checkpoint)
    BY <1>1, <1>2, <1>5, <2>1, <2>2, <2>3 DEF Live
  <2> QED BY <2>4
<1>6. CASE RollbackEntry(t) /\ Marking(t, done[t]) /\ r \in undo[t][done[t]].rows /\ deleted'[r] = NOT_DELETED_ID
  <2>1. pc[t] = "rollback"  BY <1>6 DEF RollbackEntry
  <2>2. deleted[r] = transaction_id[t]  BY <1>6, <2>1 DEF Marking, DeleteInv
  <2>3. ~(deleted'[r] <= active_checkpoint) /\ ~(deleted[r] <= active_checkpoint)
    BY <1>1, <1>2, <1>6, <2>1, <2>2 DEF Live
  <2> QED BY <2>3
<1>7. CASE Delete(t)
  <2>1. \/ deleted' = deleted
        \/ \E fresh \in SUBSET Rows :
              /\ \A x \in fresh : deleted[x] = NOT_DELETED_ID
              /\ deleted' = [x \in Rows |-> IF x \in fresh THEN transaction_id[t] ELSE deleted[x]]
    BY <1>0, <1>7, DeleteMarks
  <2> QED BY <1>3, <1>4, <1>7, <2>1
<1>8. CASE ~Delete(t)
  <2>1. CASE CommitEntry(t) /\ Marking(t, done[t] + 1)
             /\ deleted' = [x \in Rows |-> IF x \in undo[t][done[t] + 1].rows THEN commit_id[t] ELSE deleted[x]]
    BY <1>3, <1>5, <2>1
  <2>2. CASE RollbackEntry(t) /\ Marking(t, done[t])
             /\ deleted' = [x \in Rows |-> IF x \in undo[t][done[t]].rows THEN NOT_DELETED_ID ELSE deleted[x]]
    BY <1>3, <1>6, <2>2
  <2> QED BY <1>3, <1>8, <2>1, <2>2, DeletedIs
<1> QED BY <1>7, <1>8

\* The table of the last commit, when it has no versions that are newer.
LEMMA ImageStarts ==
  ASSUME IInv, CleanInv, IdsInv, TimesInv, WalInv, RowInv, SeenInv, NEW t \in Txns, StartCheckpoint(t), NEW r \in Rows
  PROVE  image'[r] = IF Visible(last_commit, last_commit, r) THEN current[r] ELSE Absent
<1>0. DataTyped /\ LinkInv /\ SharingInv /\ pc[t] = "checkpoint"  BY DEF CleanInv, StartCheckpoint
<1>1. PICK now, before :
        /\ now = last_commit + 1 /\ before = now - 1
        /\ image'[r] = IF Visible(now, 0, r) THEN ValueOf(before, 0, r) ELSE Absent
  <2>1. image' = CommittedTable(last_commit + 1)  BY DEF StartCheckpoint
  <2>2. PICK now : now = last_commit + 1  OBVIOUS
  <2>3. image' = CommittedTable(now)  BY <2>1, <2>2
  <2>4. PICK before : before = now - 1  OBVIOUS
  <2>5. image'[r] = IF Visible(now, 0, r) THEN ValueOf(now - 1, 0, r) ELSE Absent
    BY <2>3 DEF CommittedTable
  <2>6. ValueOf(now - 1, 0, r) = ValueOf(before, 0, r)  BY <2>4, Zenon
  <2> QED BY <2>2, <2>4, <2>5, <2>6
<1>2. last_commit \in Nat /\ inserted[r] \in Nat /\ deleted[r] \in Nat /\ now \in Nat /\ before = last_commit
  <2>1. last_commit \in Nat  BY IdsAre
  <2>2. inserted[r] \in Nat /\ deleted[r] \in Nat  BY <1>0 DEF DataTyped
  <2> QED BY <1>1, <2>1, <2>2
<1>3. Visible(now, 0, r) <=> Visible(last_commit, last_commit, r)
  BY <1>1, <1>2 DEF Visible, UseVersion
<1>4. Vec(r) \in Rows  BY <1>0, RowVecs
<1>5. ASSUME NEW i \in DOMAIN chain[Vec(r)] PROVE ~AppliesToTransaction(last_commit, 0, chain[Vec(r)][i])
  <2> DEFINE u == chain[Vec(r)][i].owner
             version == chain[Vec(r)][i].version
  <2>1. u \in Txns /\ version \in Nat /\ Linked(u, Vec(r), version)
    <3>1. PICK v \in Rows : v = Vec(r)  BY <1>4
    <3>2. i \in DOMAIN chain[v] /\ chain[Vec(r)] = chain[v]  BY <1>5, <3>1
    <3>3. chain[v][i].owner \in Txns /\ chain[v][i].version \in Nat  BY <1>0, <3>2, InfoTypes
    <3>4. Linked(chain[v][i].owner, v, chain[v][i].version)  BY <1>0, <3>2 DEF LinkInv
    <3> QED BY <3>1, <3>3, <3>4
  <2> HIDE DEF u, version
  <2>2. HasUpdates(u)
    <3>1. PICK j \in DOMAIN undo[u] : undo[u][j] = [kind |-> "update", at |-> Vec(r), rows |-> {}]
      BY <2>1 DEF Linked
    <3> QED BY <3>1 DEF HasUpdates
  <2>3. u = t  BY <1>0, <2>1, <2>2, StartsOver DEF SharingInv
  <2>4. version = commit_id[t] /\ commit_id[t] \in Nat /\ commit_id[t] <= last_commit
    BY <1>0, <2>1, <2>3, IdsAre DEF Linked, EndedPcs, StampedPcs, TimesInv
  <2>5. ~(version > last_commit)  BY <1>2, <2>4
  <2> QED BY <2>5 DEF AppliesToTransaction, version
<1>6. ValueOf(last_commit, 0, r) = current[r]
  <2>1. {i \in DOMAIN chain[Vec(r)] : /\ r \in DOMAIN chain[Vec(r)][i].old
                                      /\ AppliesToTransaction(last_commit, 0, chain[Vec(r)][i])} = {}
    BY <1>5
  <2> QED BY <2>1 DEF ValueOf
<1> QED BY <1>1, <1>2, <1>3, <1>6

\* Every step leaves the table that the checkpoint has to write.
LEMMA ImageKept ==
  ASSUME IInv, CleanInv, Sound, WalInv, IdsInv, TimesInv, AppendInv, RoomInv, RoomInv', PendingInv, RipeInv,
         RowInv, DeleteInv, SeenInv, GroupInv, ImageInv, NEW t \in Txns, Step(t)
  PROVE  ImageInv'
<1>0. DataTyped /\ TxnTyped /\ ManagerTyped /\ count \in Nat /\ TxnTyped'
  BY CleanStep DEF CleanInv, DataTyped
<1>1. CASE StartCheckpoint(t) /\ active_checkpoint' = last_commit
  <2>1. UNCHANGED <<count, inserted, deleted, current>>  BY <1>1 DEF StartCheckpoint, versionVars, updateVars
  <2>2. \A r \in Rows : Visible(last_commit, last_commit, r) <=> Visible(active_checkpoint, active_checkpoint, r)'
    BY <1>1, <2>1 DEF Visible, UseVersion
  <2>3. \A r \in Rows : image'[r] = IF Visible(last_commit, last_commit, r) THEN current[r] ELSE Absent
    BY <1>1, ImageStarts
  <2> QED BY <2>1, <2>2, <2>3 DEF ImageInv
<1>2. CASE active_checkpoint' = NoCheckpoint  BY <1>2 DEF ImageInv
<1>3. CASE UNCHANGED <<active_checkpoint, image>> /\ active_checkpoint # NoCheckpoint
  <2> SUFFICES ASSUME NEW r \in Rows
               PROVE  image'[r] = IF Visible(active_checkpoint, active_checkpoint, r)' THEN current'[r] ELSE Absent
    BY DEF ImageInv
  <2>0. image[r] = IF Visible(active_checkpoint, active_checkpoint, r) THEN current[r] ELSE Absent
    BY <1>3 DEF ImageInv
  <2>1. /\ {r, active_checkpoint, inserted[r], deleted[r]} \subseteq Nat
        /\ inserted'[r] \in Nat /\ deleted'[r] \in Nat
    <3>1. DataTyped'  BY CleanStep DEF CleanInv
    <3> QED BY <1>0, <3>1, ConstantTypes DEF DataTyped, ManagerTyped
  <2>2. /\ Visible(active_checkpoint, active_checkpoint, r) <=>
             r <= count /\ inserted[r] <= active_checkpoint /\ ~(deleted[r] <= active_checkpoint)
        /\ Visible(active_checkpoint, active_checkpoint, r)' <=>
             r <= count' /\ inserted'[r] <= active_checkpoint /\ ~(deleted'[r] <= active_checkpoint)
    BY <1>3, <2>1 DEF Visible, UseVersion
  <2>3. deleted'[r] <= active_checkpoint <=> deleted[r] <= active_checkpoint  BY <1>3, DeletedStays
  <2>4. CASE r <= count
    <3>1. r \in 1 .. count  BY <2>4 DEF Rows
    <3>2. inserted'[r] <= active_checkpoint <=> inserted[r] <= active_checkpoint  BY <1>3, <3>1, AboveKept
    <3>3. current'[r] = current[r]  BY <1>3, <3>1, CurrentStays
    <3>4. count <= count'
      <4>1. CASE count' = count  BY <1>0, <4>1
      <4>2. CASE Grows(t) /\ pc[t] \in {"running", "wal"}
        <5>1. count' = count + local[t] /\ local[t] \in Nat  BY <4>2, GrowIs
        <5> QED BY <1>0, <5>1
      <4> QED BY <4>1, <4>2, AppendsFrame
    <3>5. r <= count'
      <4>1. DataTyped'  BY CleanStep DEF CleanInv
      <4>2. count' \in Nat  BY <4>1 DEF DataTyped
      <4> QED BY <1>0, <2>1, <2>4, <3>4, <4>2
    <3> QED BY <1>3, <2>0, <2>2, <2>3, <2>4, <3>2, <3>3, <3>5
  <2>5. CASE ~(r <= count)
    <3>1. ~Visible(active_checkpoint, active_checkpoint, r)  BY <2>2, <2>5
    <3>2. ~Visible(active_checkpoint, active_checkpoint, r)'
      <4>1. CASE count' = count  BY <2>2, <2>5, <4>1
      <4>2. CASE Grows(t) /\ pc[t] \in {"running", "wal"}
        <5>1. r > count  BY <1>0, <2>1, <2>5
        <5>2. r <= count' => ~(inserted'[r] <= active_checkpoint)  BY <1>3, <2>1, <4>2, <5>1, GrownRows
        <5> QED BY <2>2, <5>2
      <4> QED BY <4>1, <4>2, AppendsFrame
    <3> QED BY <1>3, <2>0, <3>1, <3>2
  <2> QED BY <2>4, <2>5
<1> QED BY <1>0, <1>1, <1>2, <1>3, CheckpointMoves

\* Every step keeps the checkpoint's invariant.
LEMMA SoundStep ==
  ASSUME IInv, CleanInv, Sound, SoundInv, NEW t \in Txns, Step(t)
  PROVE  SoundInv'
<1> USE DEF SoundInv
<1>0. CleanInv'  BY CleanStep
<1>1. IdsInv' /\ TimesInv' /\ WalInv'  BY IdsKept, TimesKept, WalKept
<1>2. RoomInv' /\ AppendInv'  BY RoomKept, AppendKept
<1>3. PendingInv' /\ RowInv' /\ BehindInv'  BY <1>0, <1>2, PendingKept, RowKept, BehindKept
<1>4. RipeInv' /\ DeleteInv' /\ SeenInv'  BY <1>0, RipeKept, DeleteKept, SeenKept
<1>5. GroupInv' /\ ImageInv'  BY <1>2, GroupKept, ImageKept
<1> QED BY <1>1, <1>2, <1>3, <1>4, <1>5

\* A step that changes nothing.
LEMMA SoundStill ==
  ASSUME SoundInv, UNCHANGED vars
  PROVE  SoundInv'
<1> USE DEF vars, managerVars, lockVars, listVars, checkpointVars, versionVars, updateVars, txnVars
<1> USE DEF SoundInv
<1>1. IdsInv' /\ TimesInv' /\ WalInv'  BY DEF IdsInv, Begun, TimesInv, WalInv
<1>2. RoomInv' /\ AppendInv'  BY DEF RoomInv, Insertions, Placed, AppendInv, Appends
<1>3. PendingInv' /\ RowInv'  BY DEF PendingInv, RowInv, PendingRow, Appends, Vec
<1>4. BehindInv'  BY DEF BehindInv, Behind, HasUpdates, Appends
<1>5. RipeInv'  BY DEF RipeInv, Ripe, Full, Appends
<1>6. DeleteInv' /\ SeenInv'  BY DEF DeleteInv, Deletes, SeenInv, HoldsCheckpointLock, Committed
<1>7. GroupInv' /\ ImageInv'  BY DEF GroupInv, NewFrom, ImageInv, Visible, UseVersion
<1> QED BY <1>1, <1>2, <1>3, <1>4, <1>5, <1>6, <1>7

\* Nobody chooses another setup.
LEMMA SetupStays ==
  ASSUME CleanInv, NEW t \in Txns, Step(t)
  PROVE  setup' = setup
<1>0. DataTyped /\ TxnTyped  BY DEF CleanInv
<1>1. CASE Delete(t) \/ Update(t) \/ CommitDirectly(t) \/ TakeTimestamp(t)
  BY <1>0, <1>1, DeleteFrame, UpdateFrame, CommitDirectlyFrame, TakeTimestampFrame
<1>2. CASE Start(t) \/ Insert(t) \/ CommitThroughWAL(t) \/ WriteToWAL(t) \/ CommitEntry(t) \/ CommitDone(t)
  BY <1>2 DEF Start, Insert, CommitThroughWAL, WriteToWAL, CommitEntry, CommitDone
<1>3. CASE FlushFails(t) \/ Rollback(t) \/ RollbackEntry(t) \/ Leave(t) \/ PopCleanup(t)
  BY <1>3 DEF FlushFails, Rollback, RollbackEntry, Leave, PopCleanup
<1>4. CASE CleanupEntry(t) \/ CleanupDone(t) \/ StartCheckpoint(t) \/ FinishCheckpoint(t)
  BY <1>4 DEF CleanupEntry, CleanupDone, StartCheckpoint, FinishCheckpoint
<1> QED BY <1>1, <1>2, <1>3, <1>4 DEF Step

\* Every step of the system keeps SoundInv.
LEMMA StepSoundInv == IInv /\ CleanInv /\ (Sound => SoundInv) /\ [Next]_vars => (Sound => SoundInv)'
<1> SUFFICES ASSUME IInv, CleanInv, Sound => SoundInv, [Next]_vars, Sound' PROVE SoundInv'
  OBVIOUS
<1>1. CASE UNCHANGED vars
  <2>1. Sound  BY <1>1 DEF vars, Sound
  <2> QED BY <1>1, <2>1, SoundStill
<1>2. CASE AllDone
  <2>1. Sound  BY <1>2 DEF AllDone, vars, Sound
  <2> QED BY <1>2, <2>1, SoundStill DEF AllDone
<1>3. ASSUME NEW t \in Txns, Step(t) PROVE SoundInv'
  <2>1. Sound
    <3>1. setup' = setup  BY <1>3, SetupStays
    <3> QED BY <3>1 DEF Sound
  <2> QED BY <1>3, <2>1, SoundStep
<1>4. [Next]_vars => UNCHANGED vars \/ AllDone \/ \E t \in Txns : Step(t)
  BY DEF Next, Step
<1> QED BY <1>1, <1>2, <1>3, <1>4

\* Initially nobody has an id, appended rows, deleted or updated any.
LEMMA InitSoundInv == Init => SoundInv
<1> SUFFICES ASSUME Init PROVE SoundInv
  OBVIOUS
<1>0. /\ \A t \in Txns : /\ pc[t] \in {"new", "done"} /\ undo[t] = <<>> /\ commit_id[t] = 0
                         /\ error[t] = FALSE /\ checkpoints[t] = FALSE /\ local[t] = 0
      /\ \A r \in Rows : inserted[r] = 0
      /\ recently = <<>> /\ cleanup_queue = <<>> /\ work = NoWork
      /\ clock = 2 /\ nextId = TRANSACTION_ID_START /\ last_commit = 0 /\ count = LoadedRows
      /\ active_checkpoint = NoCheckpoint /\ seen.checkpoint = NoCheckpoint
  BY DEF Init
<1>1. \A t \in Txns : Appends(t) = {} /\ Deletes(t) = {}
  <2>1. \A t \in Txns : DOMAIN undo[t] = {}  BY <1>0
  <2> QED BY <2>1 DEF Appends, Deletes
<1>2. IdsInv
  <2>1. Begun \subseteq Txns  BY DEF Begun
  <2>2. Cardinality(Begun) \in Nat  BY <2>1, TxnsAssumption, FS_Subset, FS_CardinalityType
  <2> QED BY <1>0, <2>2, ConstantTypes DEF IdsInv, Live
<1>3. TimesInv /\ WalInv
  BY <1>0 DEF TimesInv, WalInv, Live, StampedPcs
<1>4. RoomInv
  <2>1. Insertions = {}
    <3>1. \A t \in Txns : {t} \X (1 .. local[t]) = {}  BY <1>0
    <3> QED BY <3>1 DEF Insertions
  <2>2. Placed = {}  BY <2>1 DEF Placed
  <2>3. IsFiniteSet({}) /\ Cardinality({}) = 0  BY FS_EmptySet
  <2>4. IsFiniteSet(Insertions) /\ Cardinality(Insertions) = 0 /\ Cardinality(Placed) = 0  BY <2>1, <2>2, <2>3
  <2> QED BY <1>0, <2>4, RowsAssumption, ConstantTypes DEF RoomInv
<1>5. AppendInv
  <2>1. groups \subseteq 1 .. count  BY RowsAssumption DEF Init
  <2> QED BY <1>1, <2>1 DEF AppendInv
<1>6. PendingInv /\ BehindInv  BY <1>1 DEF PendingInv, BehindInv
<1>7. RowInv
  <2>1. \A r \in 1 .. count : r \in Rows  BY <1>0, RowsAssumption DEF Rows
  <2> QED BY <1>0, <2>1 DEF RowInv
<1>8. RipeInv
  <2>1. ToSet(recently) = {} /\ ToSet(work.txns) = {} /\ DOMAIN cleanup_queue = {}
    BY <1>0 DEF ToSet, NoWork
  <2> QED BY <2>1 DEF RipeInv, Ripe
<1>9. DeleteInv  BY <1>1 DEF DeleteInv
<1>10. SeenInv  BY <1>0, ConstantTypes DEF SeenInv, HoldsCheckpointLock
<1>11. GroupInv /\ ImageInv  BY <1>0 DEF GroupInv, ImageInv
<1> QED BY <1>2, <1>3, <1>4, <1>5, <1>6, <1>7, <1>8, <1>9, <1>10, <1>11 DEF SoundInv

\* Row groups that are all old, or all new, are written whole or not at all.
LEMMA SoundWrites == IInv /\ CleanInv /\ SoundInv => CheckpointWritesCommit
<1> SUFFICES ASSUME IInv, CleanInv, SoundInv, active_checkpoint # NoCheckpoint,
                    NEW g \in groups, NEW r \in g .. count, \A h \in groups : h <= r => h <= g
             PROVE  UseVersion(active_checkpoint, active_checkpoint, inserted[r])
                      <=> UseVersion(active_checkpoint, active_checkpoint, inserted[g])
  BY DEF CheckpointWritesCommit, SoundInv, ImageInv
<1>1. /\ DataTyped /\ count \in Nat /\ g \in 1 .. count /\ r \in 1 .. count /\ g <= r
      /\ \A h \in groups : h \in Nat
  <2>1. DataTyped /\ count \in Nat /\ g \in 1 .. count /\ \A h \in groups : h \in 1 .. count
    BY DEF CleanInv, DataTyped, SoundInv, AppendInv
  <2>2. r \in 1 .. count /\ g <= r  BY <2>1
  <2> QED BY <2>1, <2>2
<1>2. inserted[r] \in Nat /\ inserted[g] \in Nat /\ active_checkpoint \in Nat
  <2>1. r \in Rows /\ g \in Rows  BY <1>1, RoomIs DEF SoundInv
  <2> QED BY <1>1, <2>1 DEF DataTyped, CleanInv, ManagerTyped
<1>3. inserted[r] <= active_checkpoint <=> inserted[g] <= active_checkpoint
  <2>1. ASSUME NEW h \in Nat, NewFrom(h), h <= r => h <= g
        PROVE  inserted[r] <= active_checkpoint <=> inserted[g] <= active_checkpoint
    <3>1. /\ r < h <=> inserted[r] <= active_checkpoint
          /\ g < h <=> inserted[g] <= active_checkpoint
      BY <1>1, <2>1 DEF NewFrom
    <3>2. r < h <=> g < h  BY <1>1, <2>1
    <3> QED BY <3>1, <3>2
  <2>2. CASE NewFrom(count + 1)
    <3>1. \A x \in 1 .. count : x < count + 1 => inserted[x] <= active_checkpoint  BY <2>2 DEF NewFrom
    <3> QED BY <1>1, <3>1
  <2>3. ASSUME NEW h \in groups, NewFrom(h)
        PROVE  inserted[r] <= active_checkpoint <=> inserted[g] <= active_checkpoint
    BY <1>1, <2>1, <2>3
  <2> QED BY <2>2, <2>3 DEF SoundInv, GroupInv
<1> QED BY <1>2, <1>3 DEF UseVersion

\* A checkpoint that runs beside other transactions writes the table of the commit
\* it was started at, for any number of transactions, rows, changes and checkpoints:
\* each row group holds rows of that commit only or none, and what a checkpoint has
\* to write stays as it was (ShouldCheckpointRowGroup, AppendRequiresNewRowGroup).
\* Commits that fail and DELETEs that name a row twice are ruled out (Sound).
THEOREM SpecCheckpointWritesCommit == Spec => [](Sound => CheckpointWritesCommit)
<1>1. Init => IInv /\ CleanInv /\ (Sound => SoundInv)  BY InitIInv, InitCleanInv, InitSoundInv
<1>2. IInv /\ CleanInv /\ (Sound => SoundInv) /\ [Next]_vars => IInv' /\ CleanInv' /\ (Sound => SoundInv)'
  BY StepIInv, StepCleanInv, StepSoundInv
<1>3. IInv /\ CleanInv /\ (Sound => SoundInv) => (Sound => CheckpointWritesCommit)  BY SoundWrites
<1> QED BY <1>1, <1>2, <1>3, PTL DEF Spec
=============================================================================
