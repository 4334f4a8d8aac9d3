-------------------------- MODULE AppenderRowsProofs --------------------------
(***************************************************************************)
(* Proofs about AppenderRows, for any columns, capacity of a chunk, number *)
(* of rows and number of failures.  For the rows: whatever the cursor      *)
(* does, a step of the store moves all rows on, or fails and leaves them   *)
(* where they were, a copy in the native appender or not.  For the cursor: *)
(* what lies ahead of it is unset, and what has to be set and is not yet   *)
(* set lies ahead of it, however deep structs and unions nest.             *)
(***************************************************************************)
EXTENDS AppenderRows, SequenceTheorems, FiniteSetTheorems, WellFoundedInduction, TLAPS

Rows == Seq(Nat)

StoreType ==
  /\ chunk \in Rows /\ collection \in Rows /\ table \in Rows
  /\ ended \in Nat /\ open \in BOOLEAN /\ failures \in Nat

-----------------------------------------------------------------------------
(* Rows in the three places *)

LEMMA RowsUpToNext ==
  ASSUME NEW n \in Nat
  PROVE  /\ RowsUpTo(n) \in Rows /\ Len(RowsUpTo(n)) = n
         /\ Append(RowsUpTo(n), n + 1) = RowsUpTo(n + 1)
<1>1. RowsUpTo(n) \in Rows /\ Len(RowsUpTo(n)) = n  BY DEF RowsUpTo, Rows
<1>2. RowsUpTo(n + 1) \in Rows /\ Len(RowsUpTo(n + 1)) = n + 1  BY DEF RowsUpTo, Rows
<1>3. /\ Append(RowsUpTo(n), n + 1) \in Rows
      /\ Len(Append(RowsUpTo(n), n + 1)) = n + 1
  BY <1>1, AppendProperties DEF Rows
<1>4. \A i \in 1 .. n + 1 : Append(RowsUpTo(n), n + 1)[i] = RowsUpTo(n + 1)[i]
  BY <1>1, AppendProperties DEF Rows, RowsUpTo
<1> QED BY <1>1, <1>2, <1>3, <1>4, SeqEqual DEF Rows

LEMMA ThreePlaces ==
  ASSUME NEW a \in Rows, NEW b \in Rows, NEW c \in Rows
  PROVE  /\ a \o b \in Rows /\ a \o b \o c \in Rows
         /\ (a \o b \o c) \o << >> \o << >> = a \o b \o c
         /\ a \o (b \o c) \o << >> = a \o b \o c
<1>1. a \o b \in Rows /\ b \o c \in Rows  BY ConcatProperties DEF Rows
<1>2. a \o b \o c \in Rows  BY <1>1, ConcatProperties DEF Rows
<1>3. (a \o b) \o c = a \o (b \o c)  BY ConcatAssociative DEF Rows
<1> QED BY <1>1, <1>2, <1>3, ConcatEmptySeq DEF Rows

LEMMA OneMore ==
  ASSUME NEW a \in Rows, NEW b \in Rows, NEW c \in Rows, NEW r \in Nat
  PROVE  /\ Append(c, r) \in Rows
         /\ a \o b \o Append(c, r) = Append(a \o b \o c, r)
<1>1. << r >> \in Rows  BY DEF Rows
<1>2. a \o b \in Rows /\ a \o b \o c \in Rows  BY ThreePlaces
<1>3. Append(c, r) = c \o << r >> /\ Append(a \o b \o c, r) = (a \o b \o c) \o << r >>
  BY <1>2, AppendIsConcat DEF Rows
<1>4. (a \o b \o c) \o << r >> = (a \o b) \o (c \o << r >>)
  BY <1>1, <1>2, ConcatAssociative DEF Rows
<1> QED BY <1>3, <1>4, AppendProperties DEF Rows

LEMMA OccursConcat ==
  ASSUME NEW a \in Rows, NEW b \in Rows, NEW i \in Nat
  PROVE  Occurs(i, a \o b) <=> Occurs(i, a) \/ Occurs(i, b)
<1> USE DEF Rows
<1>1. /\ DOMAIN a = 1 .. Len(a) /\ DOMAIN b = 1 .. Len(b)
      /\ DOMAIN (a \o b) = 1 .. Len(a) + Len(b)
      /\ Len(a) \in Nat /\ Len(b) \in Nat
  BY ConcatProperties, LenProperties
<1>2. \A k \in 1 .. Len(a) + Len(b) : (a \o b)[k] = IF k <= Len(a) THEN a[k] ELSE b[k - Len(a)]
  BY ConcatProperties
<1>3. ASSUME NEW k \in DOMAIN b PROVE b[k] = (a \o b)[Len(a) + k] /\ Len(a) + k \in DOMAIN (a \o b)
  BY <1>1, <1>2
<1>4. ASSUME Occurs(i, a \o b) PROVE Occurs(i, a) \/ Occurs(i, b)
  <2>1. PICK k \in DOMAIN (a \o b) : (a \o b)[k] = i  BY <1>4 DEF Occurs
  <2>2. CASE k <= Len(a)  BY <1>1, <1>2, <2>1, <2>2 DEF Occurs
  <2>3. CASE ~(k <= Len(a))
    <3>1. k - Len(a) \in DOMAIN b  BY <1>1, <2>1, <2>3
    <3> QED BY <1>1, <1>2, <2>1, <2>3, <3>1 DEF Occurs
  <2> QED BY <2>2, <2>3
<1>5. ASSUME Occurs(i, a) PROVE Occurs(i, a \o b)
  <2>1. PICK k \in DOMAIN a : a[k] = i  BY <1>5 DEF Occurs
  <2>2. k \in DOMAIN (a \o b) /\ (a \o b)[k] = i  BY <1>1, <1>2, <2>1
  <2> QED BY <2>2 DEF Occurs
<1>6. ASSUME Occurs(i, b) PROVE Occurs(i, a \o b)
  <2>1. PICK k \in DOMAIN b : b[k] = i  BY <1>6 DEF Occurs
  <2> QED BY <1>3, <2>1 DEF Occurs
<1> QED BY <1>4, <1>5, <1>6

LEMMA OccursAppend ==
  ASSUME NEW a \in Rows, NEW r \in Nat, NEW i \in Nat
  PROVE  Occurs(i, Append(a, r)) <=> Occurs(i, a) \/ i = r
<1>1. << r >> \in Rows /\ Append(a, r) = a \o << r >>  BY AppendIsConcat DEF Rows
<1>2. Occurs(i, << r >>) <=> i = r  BY DEF Occurs
<1> QED BY <1>1, <1>2, OccursConcat

-----------------------------------------------------------------------------
(* The inductive invariant *)

StoreInv == StoreType /\ EachRowOnce /\ NoneLost

\* What a flush of these rows does to the three places.
LEMMA StoredAll ==
  ASSUME StoreType, NEW rows \in Rows, FlushReturns(rows)
  PROVE  /\ table' \in Rows /\ collection' \in Rows /\ chunk' \in Rows /\ failures' = failures
         /\ table' \o collection' \o chunk' = table \o collection \o rows
         /\ \A i \in Nat :
              Occurs(i, table') <=> Occurs(i, table) \/ Occurs(i, collection) \/ Occurs(i, rows)
<1> USE DEF StoreType, FlushReturns, Becomes, Stored
<1>1. /\ table' = table \o collection \o rows /\ collection' = << >> /\ chunk' = << >>
      /\ << >> \in Rows
  BY EmptySeq DEF Rows
<1>2. table \o collection \in Rows /\ table' \in Rows  BY <1>1, ThreePlaces
<1>3. table' \o collection' \o chunk' = table \o collection \o rows
  BY <1>1, <1>2, ConcatEmptySeq DEF Rows
<1>4. ASSUME NEW i \in Nat
      PROVE  Occurs(i, table') <=> Occurs(i, table) \/ Occurs(i, collection) \/ Occurs(i, rows)
  <2>1. Occurs(i, table') <=> Occurs(i, table \o collection) \/ Occurs(i, rows)
    BY <1>1, <1>2, OccursConcat
  <2> QED BY <2>1, OccursConcat
<1>5. failures' = failures  OBVIOUS
<1> QED BY <1>1, <1>2, <1>3, <1>4, <1>5

LEMMA FailedKeepsAll ==
  ASSUME StoreType, NEW rows \in Rows, FlushThrows(rows)
  PROVE  /\ table' \in Rows /\ collection' \in Rows /\ chunk' = chunk
         /\ failures' = failures + 1
         /\ \A i \in Nat : /\ Occurs(i, table) => Occurs(i, table')
                           /\ Occurs(i, collection) => Occurs(i, collection')
<1> USE DEF StoreType, FlushThrows, Becomes, Failures, AppendFailed, FlushFailed, Fails
<1>1. /\ table' = table /\ chunk' = chunk /\ failures' = failures + 1
      /\ collection' = collection \/ collection' = collection \o rows
  OBVIOUS
<1>2. collection' \in Rows  BY <1>1, ConcatProperties DEF Rows
<1>3. ASSUME NEW i \in Nat, Occurs(i, collection) PROVE Occurs(i, collection')
  <2>1. CASE collection' = collection  BY <1>3, <2>1
  <2>2. CASE collection' = collection \o rows
    <3>1. Occurs(i, collection \o rows)  BY <1>3, OccursConcat
    <3> QED BY <2>2, <3>1
  <2> QED BY <1>1, <2>1, <2>2
<1>4. \A i \in Nat : Occurs(i, table) => Occurs(i, table')  BY <1>1
<1> QED BY <1>1, <1>2, <1>3, <1>4

LEMMA CloseTable ==
  ASSUME StoreType, NEW who \in Closers, Close(who)
  PROVE  /\ table' \in Rows /\ collection' \in Rows /\ failures' \in Nat
         /\ who = "owner" /\ readyForANewRowInvariant /\ failures' = failures =>
              table' = table \o collection \o chunk
<1> DEFINE flushes == rowIdx > 0 /\ readyForANewRowInvariant /\ who = "owner"
           Outcomes == IF flushes THEN {Stored(chunk)} \cup Failures(chunk) ELSE {AppendFailed}
<1> USE DEF StoreType
<1>0. << >> \in Rows  BY DEF Rows
<1>1. PICK s \in Outcomes, lost \in BOOLEAN :
        /\ table' = (IF lost THEN s.table ELSE s.table \o s.collection) /\ collection' = << >>
        /\ IF lost \/ (flushes /\ s # Stored(chunk)) THEN Fails ELSE UNCHANGED failures
  BY DEF Close, Becomes
<1>2. table \o collection \o chunk \in Rows /\ collection \o chunk \in Rows
  BY ThreePlaces
<1>3. s.table \in Rows /\ s.collection \in Rows
  <2>1. s = Stored(chunk) \/ s = AppendFailed \/ s = FlushFailed(chunk)
    BY <1>1 DEF Failures
  <2>2. Stored(chunk).table \in Rows /\ Stored(chunk).collection \in Rows
    BY <1>0, <1>2 DEF Stored
  <2>3. AppendFailed.table \in Rows /\ AppendFailed.collection \in Rows  BY DEF AppendFailed
  <2>4. FlushFailed(chunk).table \in Rows /\ FlushFailed(chunk).collection \in Rows
    BY <1>2 DEF FlushFailed
  <2> QED BY <2>1, <2>2, <2>3, <2>4
<1>4. s.table \o s.collection \in Rows  BY <1>3, ThreePlaces
<1>5. table' \in Rows /\ collection' \in Rows /\ failures' \in Nat
  BY <1>0, <1>1, <1>3, <1>4 DEF Fails
<1>6. ASSUME who = "owner", readyForANewRowInvariant, failures' = failures
      PROVE  table' = table \o collection \o chunk
  <2>1. ~(lost \/ (flushes /\ s # Stored(chunk)))  BY <1>1, <1>6 DEF Fails
  <2>2. table' = s.table \o s.collection  BY <1>1, <2>1
  <2>3. CASE flushes
    <3>1. s.table = table \o collection \o chunk /\ s.collection = << >>
      BY <2>1, <2>3 DEF Stored
    <3> QED BY <2>2, <3>1, <1>2, ConcatEmptySeq DEF Rows
  <2>4. CASE ~flushes
    <3>1. chunk = << >>  BY <1>6, <2>4, EmptySeq DEF rowIdx, Rows
    <3>2. s = AppendFailed  BY <1>1, <2>4
    <3>3. s.table = table /\ s.collection = collection  BY <3>2 DEF AppendFailed
    <3>4. table' = table \o collection  BY <2>2, <3>3
    <3> QED BY <3>1, <3>4, ThreePlaces, ConcatEmptySeq DEF Rows
  <2> QED BY <2>3, <2>4
<1> QED BY <1>5, <1>6

LEMMA InitStore == Init => StoreInv
<1> SUFFICES ASSUME Init PROVE StoreInv  OBVIOUS
<1>1. StoreType  BY EmptySeq DEF Init, StoreType, Rows
<1>2. EachRowOnce
  <2>1. RowsUpTo(0) = << >>  BY RowsUpToNext, EmptySeq DEF Rows
  <2> QED BY <2>1, <1>1, ThreePlaces, ConcatEmptySeq DEF Init, EachRowOnce, StoreType, Rows
<1> QED BY <1>1, <1>2 DEF StoreInv, NoneLost, Init

LEMMA StepStore == StoreInv /\ [Next]_vars => StoreInv'
<1> SUFFICES ASSUME StoreInv, [Next]_vars PROVE StoreInv'  OBVIOUS
<1> USE DEF StoreInv, StoreType
<1>1. CASE /\ UNCHANGED << chunk, store, ended, open, failures >>
  BY <1>1 DEF store, EachRowOnce, NoneLost
<1>2. CASE Flush
  <2>1. open = open' /\ ended' = ended  BY <1>2 DEF Flush
  <2>2. CASE FlushReturns(chunk)
    <3>1. StoreType'  BY <2>1, <2>2, StoredAll
    <3>2. EachRowOnce'  BY <2>1, <2>2, StoredAll DEF EachRowOnce
    <3>3. NoneLost'  BY <2>1, <2>2, StoredAll DEF NoneLost
    <3> QED BY <3>1, <3>2, <3>3
  <2>3. CASE FlushThrows(chunk)
    BY <2>1, <2>3, FailedKeepsAll DEF EachRowOnce, NoneLost
  <2> QED BY <1>2, <2>2, <2>3 DEF Flush
<1>3. CASE EndRow
  <2>1. open' = open /\ open /\ ended' = ended + 1  BY <1>3 DEF EndRow, RowDone
  <2> DEFINE rows == Append(chunk, ended + 1)
  <2>2. /\ rows \in Rows
        /\ table \o collection \o rows = Append(table \o collection \o chunk, ended + 1)
    <3>1. ended + 1 \in Nat  OBVIOUS
    <3>2. chunk \in Rows /\ collection \in Rows /\ table \in Rows  OBVIOUS
    <3> HIDE DEF StoreInv, StoreType
    <3> QED BY <3>1, <3>2, OneMore
  <2>3. failures' = failures /\ failures = 0 => table \o collection \o rows = RowsUpTo(ended')
    BY <2>1, <2>2, RowsUpToNext DEF EachRowOnce
  <2>4. ASSUME NEW i \in 1 .. ended'
        PROVE  Occurs(i, table) \/ Occurs(i, collection) \/ Occurs(i, rows)
    BY <2>1, OccursAppend DEF NoneLost
  <2>5. CASE chunk' = rows /\ UNCHANGED << store, failures >>
    BY <2>1, <2>2, <2>3, <2>4, <2>5 DEF EachRowOnce, NoneLost, store
  <2>6. CASE FlushReturns(rows)
    <3>1. StoreType'  BY <2>1, <2>2, <2>6, StoredAll
    <3>2. EachRowOnce'  BY <2>1, <2>2, <2>3, <2>6, StoredAll DEF EachRowOnce
    <3>3. NoneLost'  BY <2>1, <2>2, <2>4, <2>6, StoredAll DEF NoneLost
    <3> QED BY <3>1, <3>2, <3>3
  <2> QED BY <1>3, <2>5, <2>6 DEF EndRow
<1>4. CASE EndRowThrows
  <2>1. open = open' /\ ended' = ended  BY <1>4 DEF EndRowThrows
  <2>2. Append(chunk, ended + 1) \in Rows  BY OneMore
  <2> QED BY <1>4, <2>1, <2>2, FailedKeepsAll DEF EndRowThrows, EachRowOnce, NoneLost
<1>5. CASE \E who \in Closers : Close(who)
  <2>1. open' = FALSE /\ chunk' = chunk /\ ended' = ended  BY <1>5 DEF Close
  <2>2. table' \in Rows /\ collection' \in Rows /\ failures' \in Nat  BY <1>5, CloseTable
  <2> QED BY <2>1, <2>2 DEF EachRowOnce, NoneLost
<1> QED
  BY <1>1, <1>2, <1>3, <1>4, <1>5
  DEF Next, Cursor, Write, Store, BeginRow, BeginStruct, EndStruct, BeginUnion, EndUnion,
      AppendValue, AppendNull, AppendDefault, vars

\* As long as no native call fails, the rows that endRow() accepted are in the
\* table, the native appender or the chunk, once and in their order: flushes
\* by a full chunk, flush() and endRow() neither drop nor repeat one.
THEOREM RowsStoredOnce == Spec => []EachRowOnce
<1>1. StoreInv => EachRowOnce  BY DEF StoreInv
<1> QED BY <1>1, InitStore, StepStore, PTL DEF Spec

\* However many native calls fail, and whichever, no row that endRow() accepted
\* is lost while the appender is open.
THEOREM FailuresLoseNothing == Spec => []NoneLost
<1>1. StoreInv => NoneLost  BY DEF StoreInv
<1> QED BY <1>1, InitStore, StepStore, PTL DEF Spec

\* close() by the owner, between two rows, leaves all rows in the table, unless
\* a native call fails or has failed before.
THEOREM CloseStoresRows ==
  ASSUME Closers \subseteq {"owner"}
  PROVE  Spec => CloseStores
<1>1. ASSUME StoreInv, Next, open, ~open', readyForANewRowInvariant, failures' = 0
      PROVE  table' = RowsUpTo(ended)
  <2>1. PICK who \in Closers : Close(who)
    BY <1>1
    DEF Next, Cursor, Write, Store, BeginRow, BeginStruct, EndStruct, BeginUnion, EndUnion,
        AppendValue, AppendNull, AppendDefault, Flush, EndRow, RowDone, EndRowThrows
  <2>2. failures = 0 /\ failures' = failures
    BY <1>1, <2>1 DEF Close, Fails, StoreInv, StoreType
  <2>3. table' = table \o collection \o chunk  BY <1>1, <2>1, <2>2, CloseTable DEF StoreInv
  <2> QED BY <1>1, <2>2, <2>3 DEF StoreInv, EachRowOnce
<1>2. StoreInv /\ [Next]_vars =>
        [open /\ ~open' /\ readyForANewRowInvariant /\ failures' = 0
           => table' = RowsUpTo(ended)]_vars
  BY <1>1
<1> QED BY <1>2, InitStore, StepStore, PTL DEF Spec, CloseStores

-----------------------------------------------------------------------------
(* The cursor *)

Paths == Seq(Nat \ {0})

\* d comes after c, or within a column after c, on the n-th level.
Later(c, d, n) ==
  /\ n \in 1 .. Len(c) /\ n <= Len(d)
  /\ \A i \in 1 .. n - 1 : d[i] = c[i]
  /\ d[n] > c[n]
  /\ ~InUnion(SubSeq(c, 1, n))

Ahead(c) == Within(c) \cup { d \in Columns : \E n \in 1 .. Len(c) : Later(c, d, n) }

-----------------------------------------------------------------------------
(* Columns as paths *)

LEMMA ColumnPath ==
  ASSUME NEW c \in Columns
  PROVE  /\ c \in Paths /\ c # None
         /\ Len(c) \in Nat \ {0}
         /\ \A i \in 1 .. Len(c) : c[i] \in Nat \ {0}
<1>1. c \in Paths /\ c # None  BY RowsAssumption DEF Paths
<1> QED BY <1>1, EmptySeq, ElementOfSeq DEF Paths, None

LEMMA Prefix ==
  ASSUME NEW c \in Columns, NEW n \in 0 .. Len(c)
  PROVE  /\ SubSeq(c, 1, n) \in Paths /\ Len(SubSeq(c, 1, n)) = n
         /\ \A i \in 1 .. n : SubSeq(c, 1, n)[i] = c[i]
<1>1. n \in Int /\ 1 \in Int /\ \A i \in 1 .. n : c[i] \in Nat \ {0}  BY ColumnPath
<1> QED BY <1>1, SubSeqProperties DEF Paths

LEMMA PathsEqual ==
  ASSUME NEW p \in Paths, NEW q \in Paths, Len(p) = Len(q),
         \A i \in 1 .. Len(p) : p[i] = q[i]
  PROVE  p = q
BY SeqEqual DEF Paths

LEMMA Extended ==
  ASSUME NEW p \in Paths, NEW k \in Nat \ {0}
  PROVE  /\ Append(p, k) \in Paths /\ Len(Append(p, k)) = Len(p) + 1
         /\ \A i \in 1 .. Len(p) : Append(p, k)[i] = p[i]
         /\ Append(p, k)[Len(p) + 1] = k
BY AppendProperties DEF Paths

LEMMA SamePrefix ==
  ASSUME NEW c \in Columns, NEW d \in Columns, NEW n \in Nat, n <= Len(c), n <= Len(d),
         \A i \in 1 .. n : c[i] = d[i]
  PROVE  SubSeq(c, 1, n) = SubSeq(d, 1, n)
<1>1. n \in 0 .. Len(c) /\ n \in 0 .. Len(d)  BY ColumnPath
<1> QED BY <1>1, Prefix, PathsEqual

\* The ancestors of a column, and what is before them, are columns.
LEMMA PrefixIsColumn ==
  ASSUME NEW c \in Columns, NEW n \in 1 .. Len(c), NEW k \in 1 .. c[n]
  PROVE  /\ Append(SubSeq(c, 1, n - 1), k) \in Columns
         /\ SubSeq(c, 1, n) \in Columns
         /\ SubSeq(c, 1, n) = Append(SubSeq(c, 1, n - 1), c[n])
<1>1. \A j \in 1 .. c[n] : Append(SubSeq(c, 1, n - 1), j) \in Columns  BY RowsAssumption
<1>2. c[n] \in Nat \ {0} /\ Len(c) \in Nat \ {0} /\ n - 1 \in 0 .. Len(c) /\ n \in 0 .. Len(c)
  BY ColumnPath
<1>3. SubSeq(c, 1, n) = Append(SubSeq(c, 1, n - 1), c[n])
  <2>1. /\ SubSeq(c, 1, n - 1) \in Paths /\ Len(SubSeq(c, 1, n - 1)) = n - 1
        /\ \A i \in 1 .. n - 1 : SubSeq(c, 1, n - 1)[i] = c[i]
    BY <1>2, Prefix
  <2>2. /\ SubSeq(c, 1, n) \in Paths /\ Len(SubSeq(c, 1, n)) = n
        /\ \A i \in 1 .. n : SubSeq(c, 1, n)[i] = c[i]
    BY <1>2, Prefix
  <2> DEFINE e == Append(SubSeq(c, 1, n - 1), c[n])
  <2>3. /\ e \in Paths /\ Len(e) = n /\ e[n] = c[n]
        /\ \A i \in 1 .. n - 1 : e[i] = c[i]
    BY <1>2, <2>1, Extended
  <2>4. \A i \in 1 .. n : e[i] = SubSeq(c, 1, n)[i]  BY <2>2, <2>3
  <2> QED BY <2>2, <2>3, <2>4, PathsEqual
<1>4. c[n] \in 1 .. c[n]  BY <1>2
<1>5. SubSeq(c, 1, n) \in Columns  BY <1>1, <1>3, <1>4
<1> QED BY <1>1, <1>3, <1>5

LEMMA WithinMeans ==
  ASSUME NEW c \in Columns, NEW d \in Columns
  PROVE  d \in Within(c) <=> Len(d) >= Len(c) /\ \A i \in 1 .. Len(c) : d[i] = c[i]
<1>1. ASSUME Len(d) >= Len(c)
      PROVE  SubSeq(d, 1, Len(c)) = c <=> \A i \in 1 .. Len(c) : d[i] = c[i]
  <2>1. Len(c) \in 0 .. Len(d)  BY <1>1, ColumnPath
  <2>2. /\ SubSeq(d, 1, Len(c)) \in Paths /\ Len(SubSeq(d, 1, Len(c))) = Len(c)
        /\ \A i \in 1 .. Len(c) : SubSeq(d, 1, Len(c))[i] = d[i]
    BY <2>1, Prefix
  <2>3. c \in Paths  BY ColumnPath
  <2> QED BY <2>2, <2>3, PathsEqual
<1> QED BY <1>1 DEF Within

LEMMA ParentMeans ==
  ASSUME NEW c \in Columns
  PROVE  /\ Parent(c) \in Paths /\ Len(Parent(c)) = Len(c) - 1
         /\ \A i \in 1 .. Len(c) - 1 : Parent(c)[i] = c[i]
         /\ Len(c) > 1 => Parent(c) \in Columns
<1>1. Len(c) \in Nat \ {0} /\ Len(c) - 1 \in 0 .. Len(c)  BY ColumnPath
<1>2. Len(c) > 1 => SubSeq(c, 1, Len(c) - 1) \in Columns
  <2> SUFFICES ASSUME Len(c) > 1 PROVE SubSeq(c, 1, Len(c) - 1) \in Columns  OBVIOUS
  <2>1. Len(c) - 1 \in 1 .. Len(c) /\ 1 \in 1 .. c[Len(c) - 1]  BY <1>1, ColumnPath
  <2> QED BY <2>1, PrefixIsColumn
<1> QED BY <1>1, <1>2, Prefix DEF Parent

\* A column is the child of its parent, and what is within a column is the
\* column itself or within one of its children.
LEMMA ChildBelow ==
  ASSUME NEW c \in Columns, NEW d \in Within(c), d # c
  PROVE  /\ Len(c) + 1 <= Len(d)
         /\ SubSeq(d, 1, Len(c) + 1) \in Children(c)
         /\ d \in Within(SubSeq(d, 1, Len(c) + 1))
         /\ SubSeq(d, 1, Len(c) + 1) = Append(c, d[Len(c) + 1])
         /\ Kind[c] \in {"struct", "union"}
<1> DEFINE e == SubSeq(d, 1, Len(c) + 1)
<1>1. d \in Columns /\ Len(d) >= Len(c) /\ \A i \in 1 .. Len(c) : d[i] = c[i]
  BY WithinMeans DEF Within
<1>2. Len(c) \in Nat \ {0} /\ Len(d) \in Nat \ {0}  BY <1>1, ColumnPath
<1>3. Len(d) # Len(c)  BY <1>1, <1>2, ColumnPath, PathsEqual
<1>4. Len(c) + 1 \in 1 .. Len(d) /\ Len(c) + 1 \in 0 .. Len(d)  BY <1>1, <1>2, <1>3
<1>5. 1 \in 1 .. d[Len(c) + 1]  BY <1>1, <1>4, ColumnPath
<1>6. e \in Columns /\ e = Append(SubSeq(d, 1, Len(c)), d[Len(c) + 1])
  BY <1>1, <1>2, <1>4, <1>5, PrefixIsColumn
<1>7. SubSeq(d, 1, Len(c)) = c  BY DEF Within
<1>8. Len(e) = Len(c) + 1 /\ \A i \in 1 .. Len(c) + 1 : e[i] = d[i]  BY <1>1, <1>4, Prefix
<1>9. Parent(e) = c
  <2>1. Parent(e) \in Paths /\ Len(Parent(e)) = Len(c) /\ \A i \in 1 .. Len(c) : Parent(e)[i] = e[i]
    <3>1. Len(e) - 1 = Len(c)  BY <1>2, <1>8
    <3> HIDE DEF e
    <3> QED BY <1>6, <3>1, ParentMeans
  <2>2. \A i \in 1 .. Len(c) : Parent(e)[i] = c[i]  BY <2>1, <1>1, <1>2, <1>8
  <2>3. c \in Paths  BY ColumnPath
  <2> HIDE DEF e
  <2> QED BY <2>1, <2>2, <2>3, PathsEqual
<1>10. d \in Within(e)
  <2> HIDE DEF e
  <2>1. Len(d) >= Len(e) /\ \A i \in 1 .. Len(e) : d[i] = e[i]  BY <1>4, <1>8
  <2> QED BY <1>1, <1>6, <2>1, WithinMeans
<1>11. Kind[c] \in {"struct", "union"}
  <2> HIDE DEF e
  <2>1. Len(e) > 1  BY <1>2, <1>8
  <2>2. InStruct(e) \/ InUnion(e)  BY <2>1, <1>6, RowsAssumption
  <2> QED BY <1>9, <2>2 DEF InStruct, InUnion
<1> QED BY <1>4, <1>6, <1>7, <1>9, <1>10, <1>11 DEF Children

LEMMA SelfWithin == \A c \in Columns : c \in Within(c)
<1> QED BY WithinMeans, ColumnPath

-----------------------------------------------------------------------------
(* Moving on *)

LEMMA SiblingMeans ==
  ASSUME NEW c \in Columns, NEW n \in 1 .. Len(c)
  PROVE  LET e == Sibling(SubSeq(c, 1, n))
         IN  /\ e \in Paths /\ Len(e) = n /\ e[n] = c[n] + 1
             /\ \A i \in 1 .. n - 1 : e[i] = c[i]
<1> DEFINE a == SubSeq(c, 1, n)
<1>1. n \in 0 .. Len(c) /\ 1 \in 1 .. c[n] /\ c[n] + 1 \in Nat \ {0} /\ n \in Nat
  BY ColumnPath
<1>2. a \in Columns  BY <1>1, PrefixIsColumn
<1>3. Len(a) = n /\ \A i \in 1 .. n : a[i] = c[i]  BY <1>1, Prefix
<1> HIDE DEF a
<1>4. /\ Parent(a) \in Paths /\ Len(Parent(a)) = n - 1
      /\ \A i \in 1 .. n - 1 : Parent(a)[i] = a[i]
  BY <1>2, <1>3, ParentMeans
<1>5. Sibling(a) = Append(Parent(a), c[n] + 1)  BY <1>1, <1>3 DEF Sibling, Idx
<1>6. /\ Sibling(a) \in Paths /\ Len(Sibling(a)) = n /\ Sibling(a)[n] = c[n] + 1
      /\ \A i \in 1 .. n - 1 : Sibling(a)[i] = Parent(a)[i]
  <2>1. Len(Parent(a)) + 1 = n  BY <1>1, <1>4
  <2> QED BY <1>1, <1>4, <1>5, <2>1, Extended
<1> QED BY <1>1, <1>3, <1>4, <1>6 DEF a

LEMMA SameUnion ==
  ASSUME NEW c \in Columns, NEW d \in Columns, NEW n \in 1 .. Len(c), n <= Len(d),
         \A i \in 1 .. n - 1 : c[i] = d[i]
  PROVE  InUnion(SubSeq(c, 1, n)) <=> InUnion(SubSeq(d, 1, n))
<1> DEFINE a == SubSeq(c, 1, n)
           b == SubSeq(d, 1, n)
<1>1. /\ n \in 0 .. Len(c) /\ n \in 0 .. Len(d) /\ n \in Nat /\ n \in 1 .. Len(d)
      /\ 1 \in 1 .. c[n] /\ 1 \in 1 .. d[n]
  BY ColumnPath
<1>2. a \in Columns /\ b \in Columns  BY <1>1, PrefixIsColumn
<1>3. /\ Len(a) = n /\ \A i \in 1 .. n : a[i] = c[i]
      /\ Len(b) = n /\ \A i \in 1 .. n : b[i] = d[i]
  BY <1>1, Prefix
<1> HIDE DEF a, b
<1>4. /\ Parent(a) \in Paths /\ Len(Parent(a)) = n - 1
      /\ \A i \in 1 .. n - 1 : Parent(a)[i] = a[i]
      /\ Parent(b) \in Paths /\ Len(Parent(b)) = n - 1
      /\ \A i \in 1 .. n - 1 : Parent(b)[i] = b[i]
  BY <1>2, <1>3, ParentMeans
<1>5. \A i \in 1 .. n - 1 : Parent(a)[i] = Parent(b)[i]  BY <1>1, <1>3, <1>4
<1>6. Parent(a) = Parent(b)  BY <1>4, <1>5, PathsEqual
<1> QED BY <1>3, <1>6 DEF InUnion, a, b

LEMMA LaterContinues ==
  ASSUME NEW c \in Columns, NEW d \in Columns, NEW n \in 1 .. Len(c), Later(c, d, n)
  PROVE  n \in Continuations(c)
<1>1. /\ n \in 0 .. Len(d) /\ n \in 1 .. Len(d) /\ n \in Nat /\ n - 1 \in 0 .. Len(d)
      /\ c[n] + 1 \in 1 .. d[n] /\ c[n] + 1 \in Nat \ {0}
  BY ColumnPath DEF Later
<1> DEFINE p == SubSeq(d, 1, n - 1)
           e == Append(p, c[n] + 1)
           f == Sibling(SubSeq(c, 1, n))
<1>2. e \in Columns  BY <1>1, PrefixIsColumn
<1>3. p \in Paths /\ Len(p) = n - 1 /\ \A i \in 1 .. n - 1 : p[i] = d[i]
  BY <1>1, Prefix
<1> HIDE DEF p
<1>4. /\ e \in Paths /\ Len(e) = n /\ e[n] = c[n] + 1
      /\ \A i \in 1 .. n - 1 : e[i] = d[i]
  <2>1. Len(p) + 1 = n  BY <1>1, <1>3
  <2> QED BY <1>1, <1>3, <2>1, Extended
<1>5. /\ f \in Paths /\ Len(f) = n /\ f[n] = c[n] + 1
      /\ \A i \in 1 .. n - 1 : f[i] = c[i]
  BY SiblingMeans
<1> HIDE DEF e, f
<1>6. \A i \in 1 .. n : e[i] = f[i]  BY <1>1, <1>4, <1>5 DEF Later
<1>7. e = f  BY <1>4, <1>5, <1>6, PathsEqual
<1> QED BY <1>2, <1>7 DEF Continuations, Later, f

LEMMA Greatest ==
  ASSUME NEW n \in Nat, NEW T, T \subseteq 1 .. n, T # {}
  PROVE  Max(T) \in T /\ \A k \in T : k <= Max(T)
<1> DEFINE R == OpToRel(<, Nat)
           D == { n - k : k \in T }
<1>1. D \subseteq Nat /\ D # {}
  <2>1. PICK k \in T : TRUE  OBVIOUS
  <2>2. n - k \in D  BY <2>1
  <2>3. D \subseteq Nat  OBVIOUS
  <2> QED BY <2>2, <2>3
<1>2. PICK x \in D : \A y \in D : ~(<< y, x >> \in R)
  <2> HIDE DEF D, R
  <2>1. IsWellFoundedOn(R, Nat)  BY NatLessThanWellFounded DEF R
  <2> QED BY <1>1, <2>1, WFMin
<1>3. \A y \in D : ~(y < x)  BY <1>1, <1>2 DEF OpToRel
<1>4. PICK k \in T : x = n - k  OBVIOUS
<1>5. ASSUME NEW j \in T PROVE k >= j
  <2>1. n - j \in D  OBVIOUS
  <2>2. ~(n - j < n - k)  BY <1>3, <1>4, <2>1
  <2>3. \A a, b \in Int : ~(n - a < n - b) => b >= a  OBVIOUS
  <2>4. j \in Int /\ k \in Int  OBVIOUS
  <2> HIDE DEF D, R
  <2> QED BY <2>2, <2>3, <2>4
<1> QED BY <1>5 DEF Max

LEMMA NextColumn ==
  ASSUME NEW c \in Columns, Continuations(c) # {}
  PROVE  LET m == Max(Continuations(c))
             e == nextColumn(c)
         IN  /\ m \in 1 .. Len(c) /\ ~InUnion(SubSeq(c, 1, m))
             /\ \A n \in Continuations(c) : n <= m
             /\ e \in Columns /\ Len(e) = m /\ e[m] = c[m] + 1
             /\ \A i \in 1 .. m - 1 : e[i] = c[i]
<1> DEFINE m == Max(Continuations(c))
<1>1. Continuations(c) \subseteq 1 .. Len(c) /\ Len(c) \in Nat
  BY ColumnPath DEF Continuations
<1>2. m \in Continuations(c) /\ \A n \in Continuations(c) : n <= m  BY <1>1, Greatest
<1>3. nextColumn(c) = Sibling(SubSeq(c, 1, m))  BY DEF nextColumn
<1>4. m \in 1 .. Len(c) /\ ~InUnion(SubSeq(c, 1, m)) /\ nextColumn(c) \in Columns
  BY <1>2, <1>3 DEF Continuations
<1> HIDE DEF m
<1>5. /\ Len(nextColumn(c)) = m /\ nextColumn(c)[m] = c[m] + 1
      /\ \A i \in 1 .. m - 1 : nextColumn(c)[i] = c[i]
  BY <1>3, <1>4, SiblingMeans
<1> QED BY <1>2, <1>4, <1>5 DEF m

-----------------------------------------------------------------------------
(* What lies ahead of the cursor as it moves *)

LEMMA AheadMeans ==
  ASSUME NEW c \in Columns, NEW d \in Columns
  PROVE  d \in Ahead(c) <=> d \in Within(c) \/ \E n \in 1 .. Len(c) : Later(c, d, n)
BY DEF Ahead

LEMMA LaterIsOutside ==
  ASSUME NEW c \in Columns, NEW d \in Columns, NEW n \in 1 .. Len(c), Later(c, d, n)
  PROVE  d \notin Within(c)
<1>1. d[n] > c[n] /\ c[n] \in Nat  BY ColumnPath DEF Later
<1>2. d[n] # c[n]
  <2>1. d[n] \in Nat  BY ColumnPath DEF Later
  <2> QED BY <1>1, <2>1
<1> QED BY <1>2, WithinMeans

LEMMA LaterTransfer ==
  ASSUME NEW c \in Columns, NEW e \in Columns, NEW d \in Columns,
         NEW n \in 1 .. Len(c), n <= Len(e), \A i \in 1 .. n : c[i] = e[i]
  PROVE  Later(c, d, n) <=> Later(e, d, n)
<1>1. n \in 1 .. Len(e) /\ n \in Nat /\ n \in 1 .. n /\ 1 .. n - 1 \subseteq 1 .. n
  BY ColumnPath
<1>2. InUnion(SubSeq(c, 1, n)) <=> InUnion(SubSeq(e, 1, n))  BY <1>1, SameUnion
<1> QED BY <1>1, <1>2 DEF Later

LEMMA AheadOfNext ==
  ASSUME NEW c \in Columns, Continuations(c) # {}, NEW d \in Columns
  PROVE  d \in Ahead(nextColumn(c)) <=> d \in Ahead(c) /\ d \notin Within(c)
<1> DEFINE m == Max(Continuations(c))
           e == nextColumn(c)
<1>1. /\ m \in 1 .. Len(c) /\ ~InUnion(SubSeq(c, 1, m))
      /\ \A n \in Continuations(c) : n <= m
      /\ e \in Columns /\ Len(e) = m /\ e[m] = c[m] + 1
      /\ \A i \in 1 .. m - 1 : e[i] = c[i]
  BY NextColumn
<1> HIDE DEF m, e
<1>2. /\ m \in Nat \ {0} /\ m \in 1 .. m /\ c[m] \in Nat /\ Len(c) \in Nat /\ Len(d) \in Nat
      /\ \A i \in 1 .. Len(d) : d[i] \in Nat
  BY <1>1, ColumnPath
<1>3. ~InUnion(SubSeq(e, 1, m))  BY <1>1, <1>2, SameUnion
<1>4. ASSUME NEW n \in 1 .. m - 1 PROVE Later(c, d, n) <=> Later(e, d, n)
  <2>1. n \in 1 .. Len(c) /\ n <= Len(e) /\ \A i \in 1 .. n : c[i] = e[i]  BY <1>1, <1>2
  <2> QED BY <1>1, <2>1, LaterTransfer
<1>5. Later(c, d, m) <=> d \in Within(e) \/ Later(e, d, m)
  <2>1. Later(c, d, m) <=> /\ m <= Len(d) /\ \A i \in 1 .. m - 1 : d[i] = c[i]
                           /\ d[m] > c[m]
    BY <1>1 DEF Later
  <2>2. Later(e, d, m) <=> /\ m <= Len(d) /\ \A i \in 1 .. m - 1 : d[i] = c[i]
                           /\ d[m] > c[m] + 1
    BY <1>1, <1>2, <1>3 DEF Later
  <2>3. d \in Within(e) <=> /\ m <= Len(d) /\ \A i \in 1 .. m - 1 : d[i] = c[i]
                            /\ d[m] = c[m] + 1
    <3>1. (\A i \in 1 .. m : d[i] = e[i]) <=> (\A i \in 1 .. m - 1 : d[i] = c[i]) /\ d[m] = c[m] + 1
      BY <1>1, <1>2
    <3> QED BY <1>1, <1>2, <3>1, WithinMeans
  <2>4. m <= Len(d) => d[m] \in Nat  BY <1>2
  <2> QED BY <1>2, <2>1, <2>2, <2>3, <2>4
<1>6. ASSUME d \in Ahead(e) PROVE d \in Ahead(c) /\ d \notin Within(c)
  <2>1. \E n \in 1 .. Len(c) : Later(c, d, n)
    <3>1. CASE d \in Within(e)  BY <1>1, <1>5, <3>1
    <3>2. CASE \E n \in 1 .. Len(e) : Later(e, d, n)
      <4>1. PICK n \in 1 .. m : Later(e, d, n)  BY <1>1, <3>2
      <4>2. n = m \/ n \in 1 .. m - 1  BY <1>2
      <4>3. n \in 1 .. Len(c)  BY <1>1, <1>2
      <4> QED BY <1>4, <1>5, <4>1, <4>2, <4>3
    <3> QED BY <1>1, <1>6, <3>1, <3>2, AheadMeans
  <2> QED BY <2>1, LaterIsOutside, AheadMeans
<1>7. ASSUME d \in Ahead(c), d \notin Within(c) PROVE d \in Ahead(e)
  <2>1. PICK n \in 1 .. Len(c) : Later(c, d, n)  BY <1>7, AheadMeans
  <2>2. n <= m  BY <1>1, <2>1, LaterContinues
  <2>3. n = m \/ n \in 1 .. m - 1  BY <1>2, <2>2
  <2>4. n \in 1 .. Len(e)  BY <1>1, <2>3, <1>2
  <2> QED BY <1>1, <1>4, <1>5, <2>1, <2>3, <2>4, AheadMeans
<1> QED BY <1>6, <1>7 DEF e

LEMMA AheadOfEnd ==
  ASSUME NEW c \in Columns, Continuations(c) = {}, NEW d \in Ahead(c)
  PROVE  d \in Within(c)
<1>1. d \in Columns  BY DEF Ahead, Within
<1> QED BY <1>1, AheadMeans, LaterContinues

\* c goes down to its child e.
LEMMA AheadOfChild ==
  ASSUME NEW c \in Columns, NEW e \in Children(c), NEW d \in Columns
  PROVE  d \in Ahead(e) <=>
           \/ d \in Ahead(c) /\ d \notin Within(c)
           \/ d \in Within(e)
           \/ Later(e, d, Len(c) + 1)
<1>1. e \in Columns /\ Parent(e) = c  BY DEF Children
<1>2. Len(c) \in Nat \ {0} /\ Len(e) \in Nat \ {0}  BY <1>1, ColumnPath
<1>3. Len(e) = Len(c) + 1 /\ \A i \in 1 .. Len(c) : e[i] = c[i]
  BY <1>1, <1>2, ParentMeans
<1>4. ASSUME NEW n \in 1 .. Len(c) PROVE Later(e, d, n) <=> Later(c, d, n)
  <2>1. n <= Len(e) /\ \A i \in 1 .. n : c[i] = e[i]  BY <1>2, <1>3
  <2> QED BY <1>1, <2>1, LaterTransfer
<1>5. (\E n \in 1 .. Len(e) : Later(e, d, n)) <=>
        (\E n \in 1 .. Len(c) : Later(c, d, n)) \/ Later(e, d, Len(c) + 1)
  <2>1. ASSUME NEW n \in 1 .. Len(e) PROVE n \in 1 .. Len(c) \/ n = Len(c) + 1
    BY <1>2, <1>3
  <2>2. 1 .. Len(c) \subseteq 1 .. Len(e) /\ Len(c) + 1 \in 1 .. Len(e)  BY <1>2, <1>3
  <2> QED BY <1>4, <2>1, <2>2
<1>6. d \in Ahead(c) /\ d \notin Within(c) <=> \E n \in 1 .. Len(c) : Later(c, d, n)
  BY AheadMeans, LaterIsOutside
<1> QED BY <1>1, <1>5, <1>6, AheadMeans

LEMMA ChildMeans ==
  ASSUME NEW c \in Columns, NEW e \in Children(c)
  PROVE  /\ e \in Columns /\ Len(c) \in Nat /\ Len(e) = Len(c) + 1
         /\ \A i \in 1 .. Len(c) : e[i] = c[i]
         /\ e \in Within(c) /\ c \notin Within(e)
         /\ SubSeq(e, 1, Len(c) + 1) = e
         /\ InUnion(e) <=> Kind[c] = "union"
<1>1. e \in Columns /\ Parent(e) = c  BY DEF Children
<1>2. Len(c) \in Nat \ {0} /\ Len(e) \in Nat \ {0}  BY <1>1, ColumnPath
<1>3. Len(e) = Len(c) + 1 /\ \A i \in 1 .. Len(c) : e[i] = c[i]
  BY <1>1, <1>2, ParentMeans
<1>4. e \in Within(c) /\ c \notin Within(e)  BY <1>1, <1>2, <1>3, WithinMeans
<1>5. SubSeq(e, 1, Len(c) + 1) = e  BY <1>1, <1>3, ColumnPath, SubSeqFull DEF Paths
<1>6. InUnion(e) <=> Kind[c] = "union"  BY <1>1, <1>2, <1>3 DEF InUnion
<1> QED BY <1>1, <1>2, <1>3, <1>4, <1>5, <1>6

LEMMA AheadOfField ==
  ASSUME NEW c \in Columns, Kind[c] = "struct", NEW d \in Columns
  PROVE  /\ Append(c, 1) \in Columns
         /\ d \in Ahead(Append(c, 1)) <=> d \in Ahead(c) /\ d # c
<1> DEFINE e == Append(c, 1)
<1>1. e \in Columns  BY RowsAssumption
<1>2. c \in Paths /\ Len(c) \in Nat \ {0}  BY ColumnPath
<1>3. Len(e) = Len(c) + 1 /\ e[Len(c) + 1] = 1 /\ \A i \in 1 .. Len(c) : e[i] = c[i]
  BY <1>2, Extended
<1> HIDE DEF e
<1>4. e \in Children(c)
  <2>1. /\ Parent(e) \in Paths /\ Len(Parent(e)) = Len(c)
        /\ \A i \in 1 .. Len(c) : Parent(e)[i] = e[i]
    BY <1>1, <1>2, <1>3, ParentMeans
  <2>2. \A i \in 1 .. Len(c) : Parent(e)[i] = c[i]  BY <1>3, <2>1
  <2> QED BY <1>1, <1>2, <2>1, <2>2, PathsEqual DEF Children
<1>5. ~InUnion(SubSeq(e, 1, Len(c) + 1))  BY <1>4, ChildMeans
<1>6. Within(e) \subseteq Within(c) /\ c \notin Within(e)
  <2>1. ASSUME NEW x \in Within(e) PROVE x \in Within(c)
    <3>1. x \in Columns  BY DEF Within
    <3>2. Len(x) >= Len(e) /\ \A i \in 1 .. Len(e) : x[i] = e[i]  BY <1>1, <3>1, WithinMeans
    <3>3. Len(x) \in Nat  BY <3>1, ColumnPath
    <3>4. Len(x) >= Len(c) /\ \A i \in 1 .. Len(c) : x[i] = c[i]  BY <1>2, <1>3, <3>2, <3>3
    <3> QED BY <3>1, <3>4, WithinMeans
  <2> QED BY <1>4, <2>1, ChildMeans
<1>7. d \in Within(c) /\ d # c <=> d \in Within(e) \/ Later(e, d, Len(c) + 1)
  <2>1. ASSUME d \in Within(c), d # c PROVE d \in Within(e) \/ Later(e, d, Len(c) + 1)
    <3>1. Len(c) + 1 <= Len(d)  BY <2>1, ChildBelow
    <3>2. \A i \in 1 .. Len(c) : d[i] = e[i]  BY <2>1, <1>3, WithinMeans
    <3>3. d[Len(c) + 1] \in Nat \ {0}  BY <1>2, <3>1, ColumnPath
    <3>4. CASE d[Len(c) + 1] = 1
      <4>1. \A i \in 1 .. Len(c) + 1 : d[i] = e[i]  BY <1>2, <1>3, <3>2, <3>4
      <4> QED BY <1>1, <1>3, <3>1, <4>1, WithinMeans
    <3>5. CASE d[Len(c) + 1] > 1
      BY <1>2, <1>3, <1>5, <3>1, <3>2, <3>5 DEF Later
    <3> QED BY <3>3, <3>4, <3>5
  <2>2. ASSUME Later(e, d, Len(c) + 1) PROVE d \in Within(c) /\ d # c
    <3>1. Len(c) + 1 <= Len(d) /\ \A i \in 1 .. Len(c) : d[i] = c[i]
      BY <2>2, <1>2, <1>3 DEF Later
    <3>2. Len(d) \in Nat  BY ColumnPath
    <3> QED BY <1>2, <3>1, <3>2, WithinMeans
  <2> QED BY <1>6, <2>1, <2>2
<1>8. c \in Within(c)  BY SelfWithin
<1>9. d \in Ahead(e) <=> d \in Ahead(c) /\ d # c
  BY <1>4, <1>7, <1>8, AheadOfChild, AheadMeans
<1> QED BY <1>1, <1>9 DEF e

LEMMA AheadOfMember ==
  ASSUME NEW c \in Columns, Kind[c] = "union", NEW m \in Children(c), NEW d \in Columns
  PROVE  d \in Ahead(m) <=> (d \in Ahead(c) /\ d \notin Within(c)) \/ d \in Within(m)
<1>1. InUnion(SubSeq(m, 1, Len(c) + 1))
  <2>1. SubSeq(m, 1, Len(c) + 1) = m /\ InUnion(m)  BY ChildMeans
  <2> QED BY <2>1
<1>2. ~Later(m, d, Len(c) + 1)  BY <1>1 DEF Later
<1> QED BY <1>2, AheadOfChild

-----------------------------------------------------------------------------
(* Where the cursor is: a row that is traversed can be ended *)

Contents == {"unset", "value", "null", "default"}

CursorType ==
  /\ currentColumn \in Columns \cup {None} /\ prevColumn \in Columns \cup {None}
  /\ cell \in [Columns -> Contents]
  /\ ended \in Nat

\* A row is over only when no column above the last one has a successor.
AtEnd == RowTraversed => Continuations(prevColumn) = {}

CursorInv == CursorType /\ AtEnd

NoneIsNoColumn == None \notin Columns

LEMMA NoneOutside == NoneIsNoColumn
BY ColumnPath DEF NoneIsNoColumn

LEMMA Move ==
  ASSUME currentColumn \in Columns, moveToNextColumn
  PROVE  /\ prevColumn' = currentColumn
         /\ \/ /\ Continuations(currentColumn) # {}
               /\ currentColumn' = nextColumn(currentColumn) /\ currentColumn' \in Columns
            \/ Continuations(currentColumn) = {} /\ currentColumn' = None
<1>1. CASE Continuations(currentColumn) # {}  BY <1>1, NextColumn DEF moveToNextColumn
<1>2. CASE Continuations(currentColumn) = {}  BY <1>2 DEF moveToNextColumn, nextColumn
<1> QED BY <1>1, <1>2

\* Every call that writes the column at the cursor.
LEMMA WriteStep ==
  ASSUME CursorType, Write
  PROVE  /\ currentColumn \in Columns /\ moveToNextColumn /\ ended' = ended
         /\ cell' \in [Columns -> Contents]
<1>1. currentColumn \in Columns /\ moveToNextColumn /\ ended' = ended
  BY RowsAssumption DEF CursorType, Write, AppendValue, AppendNull, AppendDefault
<1>2. cell' \in [Columns -> Contents]
  BY DEF CursorType, Write, AppendValue, AppendNull, AppendDefault, Fill, Contents
<1> QED BY <1>1, <1>2

LEMMA UpStep ==
  ASSUME CursorInv, EndStruct \/ EndUnion
  PROVE  /\ prevColumn \in Columns /\ prevColumn' \in Columns
         /\ currentColumn' = currentColumn /\ cell' = cell /\ ended' = ended
         /\ Continuations(prevColumn) = {} => Continuations(prevColumn') = {}
<1> DEFINE c == prevColumn
           p == Parent(prevColumn)
<1>1. /\ c \in Columns /\ Len(c) > 1 /\ prevColumn' = p
      /\ currentColumn' = currentColumn /\ cell' = cell /\ ended' = ended
  BY DEF CursorInv, CursorType, EndStruct, EndUnion, structCompletedInvariant,
         unionCompletedInvariant, InStruct, InUnion
<1>2. /\ p \in Columns /\ Len(p) = Len(c) - 1 /\ Len(c) \in Nat
      /\ \A i \in 1 .. Len(c) - 1 : p[i] = c[i]
  BY <1>1, ParentMeans, ColumnPath
<1> HIDE DEF c, p
<1>3. ASSUME NEW n \in Continuations(p) PROVE n \in Continuations(c)
  <2>1. n \in 1 .. Len(p) /\ n \in Nat /\ n <= Len(p) /\ n <= Len(c) /\ n \in 1 .. Len(c)
    BY <1>2 DEF Continuations
  <2>2. \A i \in 1 .. n : p[i] = c[i]  BY <1>2, <2>1
  <2>3. SubSeq(p, 1, n) = SubSeq(c, 1, n)  BY <1>1, <1>2, <2>1, <2>2, SamePrefix
  <2> QED BY <1>3, <2>1, <2>3 DEF Continuations
<1> QED BY <1>1, <1>2, <1>3 DEF c, p

\* The steps that leave the cursor and the cells alone.
Elsewhere == UNCHANGED << cursor, cell, ended >>

LEMMA StepKinds ==
  ASSUME [Next]_vars
  PROVE  \/ BeginRow \/ BeginStruct \/ (\E m \in Columns : BeginUnion(m))
         \/ EndStruct \/ EndUnion \/ Write \/ EndRow \/ Elsewhere
BY DEF Next, Cursor, Store, Flush, EndRowThrows, Close, Elsewhere, vars

LEMMA InitCursor == Init => CursorInv
BY DEF Init, CursorInv, CursorType, AtEnd, RowTraversed, Blank, Contents

LEMMA StepCursor == CursorInv /\ [Next]_vars => CursorInv'
<1> SUFFICES ASSUME CursorInv, [Next]_vars PROVE CursorInv'  OBVIOUS
<1> USE NoneOutside DEF NoneIsNoColumn, CursorInv, CursorType, AtEnd, RowTraversed
<1>1. CASE BeginRow  BY <1>1, RowsAssumption DEF BeginRow
<1>2. CASE BeginStruct
  <2>1. currentColumn \in Columns /\ Append(currentColumn, 1) \in Columns
    BY <1>2, RowsAssumption DEF BeginStruct
  <2> QED BY <1>2, <2>1 DEF BeginStruct
<1>3. CASE \E m \in Columns : BeginUnion(m)
  BY <1>3 DEF BeginUnion, putUnionTag, Contents
<1>4. CASE EndStruct \/ EndUnion
  <2> HIDE DEF CursorInv, CursorType
  <2>1. /\ prevColumn' \in Columns /\ currentColumn' = currentColumn /\ cell' = cell
        /\ Continuations(prevColumn) = {} => Continuations(prevColumn') = {}
        /\ prevColumn \in Columns /\ ended' = ended
    BY <1>4, UpStep
  <2> QED BY <2>1 DEF CursorInv, CursorType
<1>5. CASE Write
  <2>1. /\ currentColumn \in Columns /\ moveToNextColumn /\ ended' = ended
        /\ cell' \in [Columns -> Contents]
    BY <1>5, WriteStep
  <2> QED BY <2>1, Move
<1>6. CASE EndRow  BY <1>6 DEF EndRow, RowDone, rowCompletedInvariant, Blank, Contents
<1>7. CASE Elsewhere  BY <1>7 DEF Elsewhere, cursor
<1> QED BY <1>1, <1>2, <1>3, <1>4, <1>5, <1>6, <1>7, StepKinds

LEMMA TopLevelPath ==
  ASSUME NEW c \in Columns, NEW k \in Nat
  PROVE  Append(SubSeq(c, 1, 1 - 1), k) = << k >>
<1>1. SubSeq(c, 1, 1 - 1) = << >>
  <2>1. 1 \in Int /\ 1 - 1 \in Int /\ 1 - 1 < 1  OBVIOUS
  <2> QED BY <2>1, SubSeqEmpty
<1>2. << >> \in Seq(Nat) /\ << k >> \in Seq(Nat)  OBVIOUS
<1>3. Append(<< >>, k) = << >> \o << k >>  BY <1>2, AppendIsConcat
<1>4. << >> \o << k >> = << k >>  BY <1>2, ConcatEmptySeq
<1> QED BY <1>1, <1>3, <1>4

\* The last top-level column has the index that is compared with their number.
LEMMA TopLevelCount ==
  ASSUME NEW c \in Columns, Len(c) = 1, Sibling(c) \notin Columns
  PROVE  Idx(c) = Cardinality(Children(None))
<1> DEFINE N == c[1]
           S == Children(None)
           f == [k \in 1 .. N |-> << k >>]
<1>1. N \in Nat \ {0} /\ Idx(c) = N  BY ColumnPath DEF Idx
<1>2. ASSUME NEW k \in 1 .. N PROVE << k >> \in S
  <2>1. 1 \in 1 .. Len(c) /\ k \in 1 .. c[1]  OBVIOUS
  <2>2. Append(SubSeq(c, 1, 1 - 1), k) \in Columns  BY <2>1, PrefixIsColumn
  <2>3. Append(SubSeq(c, 1, 1 - 1), k) = << k >>  BY <1>1, TopLevelPath
  <2>4. << k >> \in Columns /\ Len(<< k >>) = 1  BY <2>2, <2>3
  <2>5. Parent(<< k >>) = None  BY <2>4, SubSeqEmpty DEF Parent, None
  <2> QED BY <2>4, <2>5 DEF Children
<1>3. ASSUME NEW d \in S PROVE \E k \in 1 .. N : d = << k >>
  <2>1. d \in Columns /\ Parent(d) = None  BY DEF Children
  <2>2. Len(d) \in Nat \ {0} /\ d[1] \in Nat \ {0}  BY <2>1, ColumnPath
  <2>3. Len(d) - 1 = 0  BY <2>1, <2>2, ParentMeans DEF None
  <2>4. Len(d) = 1  BY <2>2, <2>3
  <2>5. d = << d[1] >>
    <3>1. d \in Paths /\ << d[1] >> \in Paths  BY <2>1, <2>2, ColumnPath DEF Paths
    <3> QED BY <2>4, <3>1, PathsEqual
  <2>6. d[1] <= N
    <3> SUFFICES ASSUME ~(d[1] <= N) PROVE FALSE  OBVIOUS
    <3>1. 1 \in 1 .. Len(d) /\ N + 1 \in 1 .. d[1]  BY <1>1, <2>2, <2>4
    <3>2. Append(SubSeq(d, 1, 1 - 1), N + 1) \in Columns  BY <2>1, <3>1, PrefixIsColumn
    <3>3. Append(SubSeq(d, 1, 1 - 1), N + 1) = << N + 1 >>  BY <1>1, <2>1, TopLevelPath
    <3>4. Parent(c) = None  BY SubSeqEmpty DEF Parent, None
    <3>5. Sibling(c) = << N + 1 >>  BY <1>1, <3>4 DEF Sibling, None
    <3> QED BY <3>2, <3>3, <3>5
  <2> QED BY <2>2, <2>5, <2>6
<1>4. f \in Bijection(1 .. N, S)
  <2>1. f \in [1 .. N -> S]  BY <1>2
  <2>2. \A j, k \in 1 .. N : f[j] = f[k] => j = k  OBVIOUS
  <2>3. \A d \in S : \E k \in 1 .. N : f[k] = d  BY <1>3
  <2> HIDE DEF f, S
  <2> QED BY <2>1, <2>2, <2>3 DEF Bijection, Injection, Surjection, IsInjective
<1>5. ExistsBijection(1 .. N, S)  BY <1>4 DEF ExistsBijection
<1> HIDE DEF S
<1>6. Cardinality(S) = N  BY <1>1, <1>5, FS_CountingElements
<1> QED BY <1>1, <1>6 DEF S

LEMMA EndsSomehow == CursorInv => CompletedRowCanEnd
<1> SUFFICES ASSUME CursorInv, RowTraversed
             PROVE  rowCompletedInvariant \/ structCompletedInvariant \/ unionCompletedInvariant
  BY DEF CompletedRowCanEnd
<1> DEFINE c == prevColumn
<1>1. c \in Columns /\ c # None /\ currentColumn = None /\ Continuations(c) = {}
  BY DEF CursorInv, CursorType, AtEnd, RowTraversed
<1>2. Len(c) \in Nat \ {0} /\ Len(c) \in 1 .. Len(c) /\ c \in Paths  BY <1>1, ColumnPath
<1>3. SubSeq(c, 1, Len(c)) = c  BY <1>2, SubSeqFull DEF Paths
<1>4. InUnion(c) \/ Sibling(c) \notin Columns
  BY <1>1, <1>2, <1>3 DEF Continuations
<1>5. CASE InUnion(c)  BY <1>1, <1>5 DEF unionCompletedInvariant
<1>6. CASE ~InUnion(c) /\ Len(c) > 1
  BY <1>1, <1>4, <1>6, RowsAssumption DEF structCompletedInvariant
<1>7. CASE ~InUnion(c) /\ Len(c) = 1
  BY <1>1, <1>4, <1>7, TopLevelCount DEF rowCompletedInvariant
<1>8. Len(c) > 1 \/ Len(c) = 1
  <2>1. \A n \in Nat \ {0} : n > 1 \/ n = 1  OBVIOUS
  <2> QED BY <1>2, <2>1
<1> QED BY <1>5, <1>6, <1>7, <1>8

\* However deep the columns nest, a row whose columns are all written can be
\* ended: endRow(), endStruct() or endUnion() accepts it.
THEOREM RowsCanEnd == Spec => []CompletedRowCanEnd
BY InitCursor, StepCursor, EndsSomehow, PTL DEF Spec

-----------------------------------------------------------------------------
(* What is ahead of the cursor is unset: no column is written twice *)

AheadUnset == currentColumn \in Columns => \A d \in Ahead(currentColumn) : cell[d] = "unset"

NewRowBlank == readyForANewRowInvariant => cell = Blank

AheadInv == CursorInv /\ AheadUnset /\ NewRowBlank

\* A step writes only what was unset before, unless it ends the row.
KeepsWritten == ended' = ended => \A c \in Columns : cell[c] # "unset" => cell'[c] = cell[c]

\* appendDefault() of a top-level column writes that column or nothing.
LEMMA DefaultFills ==
  ASSUME DefaultAt \subseteq Children(None), CursorType, AppendDefault
  PROVE  \/ currentColumn \in Foldable /\ Fill(currentColumn, "default")
         \/ currentColumn \notin Foldable /\ cell' = cell
<1> DEFINE c == currentColumn
<1>1. c \in Columns /\ Parent(c) = None
  BY RowsAssumption DEF AppendDefault, Children
<1>2. Len(c) \in Nat \ {0} /\ Len(c) - 1 = 0 /\ c[1] \in Nat \ {0}
  <2>1. Len(Parent(c)) = Len(c) - 1  BY <1>1, ParentMeans
  <2>2. Len(None) = 0  BY EmptySeq DEF None
  <2> QED BY <1>1, <2>1, <2>2, ColumnPath
<1>3. Len(c) = 1
  <2>1. \A n \in Nat : n - 1 = 0 => n = 1  OBVIOUS
  <2> QED BY <1>2, <2>1
<1>4. << Idx(c) >> = c
  <2>1. c \in Paths /\ << c[1] >> \in Paths  BY <1>1, <1>2, ColumnPath DEF Paths
  <2>2. c = << c[1] >>  BY <1>3, <2>1, PathsEqual
  <2> QED BY <1>3, <2>2 DEF Idx
<1> QED BY <1>4 DEF AppendDefault

LEMMA Written ==
  ASSUME DefaultAt \subseteq Children(None), CursorType, Write
  PROVE  \/ \E content \in Contents \ {"unset"} : Fill(currentColumn, content)
         \/ cell' = cell
<1>1. CASE AppendValue  BY <1>1 DEF AppendValue, Contents
<1>2. CASE AppendNull  BY <1>2 DEF AppendNull, Contents
<1>3. CASE AppendDefault  BY <1>3, DefaultFills DEF Contents
<1> QED BY <1>1, <1>2, <1>3 DEF Write

LEMMA UnionStep ==
  ASSUME AheadInv, NEW m \in Columns, BeginUnion(m)
  PROVE  LET c == currentColumn
         IN  /\ c \in Columns /\ Kind[c] = "union" /\ m \in Children(c) /\ currentColumn' = m
             /\ \A d \in Columns : d \notin Within(c) => cell'[d] = cell[d]
             /\ \A d \in Within(m) : cell'[d] = cell[d]
             /\ \A d \in Children(c) : Kind[d] = "tag" => cell'[d] = "value"
             /\ \A e \in Children(c) \ {m} : \A d \in Within(e) :
                  cell'[d] = "null" \/ (d = e /\ Kind[d] = "tag" /\ cell'[d] = "value")
             /\ \A d \in Within(c) : cell[d] = "unset"
             /\ ended' = ended /\ prevColumn' = prevColumn
<1> DEFINE c == currentColumn
<1>1. /\ c \in Columns /\ Kind[c] = "union" /\ m \in Children(c) /\ currentColumn' = m
      /\ Kind[m] # "tag" /\ ended' = ended /\ prevColumn' = prevColumn
  BY DEF BeginUnion, AheadInv, CursorInv, CursorType
<1>2. \A d \in Within(c) : cell[d] = "unset"  BY <1>1 DEF AheadInv, AheadUnset, Ahead
<1> HIDE DEF c
<1>3. cell' = [d \in Columns |->
                IF d \in Children(c) /\ Kind[d] = "tag" THEN "value"
                ELSE IF \E e \in Children(c) : e # m /\ d \in Within(e) THEN "null"
                ELSE cell[d]]
  BY DEF BeginUnion, putUnionTag, c
<1>4. ASSUME NEW e \in Children(c), NEW d \in Within(e)
      PROVE  d \in Within(c) /\ SubSeq(d, 1, Len(c) + 1) = e
  <2>1. /\ e \in Columns /\ Len(c) \in Nat /\ Len(e) = Len(c) + 1
        /\ \A i \in 1 .. Len(c) : e[i] = c[i]
    BY <1>1, ChildMeans
  <2>2. d \in Columns /\ SubSeq(d, 1, Len(e)) = e  BY DEF Within
  <2>3. Len(d) >= Len(e) /\ Len(d) \in Nat /\ \A i \in 1 .. Len(e) : d[i] = e[i]
    BY <2>1, <2>2, WithinMeans, ColumnPath
  <2>4. Len(d) >= Len(c) /\ \A i \in 1 .. Len(c) : d[i] = c[i]  BY <2>1, <2>3
  <2> QED BY <1>1, <2>1, <2>2, <2>4, WithinMeans
<1>5. ASSUME NEW d \in Columns, d \notin Within(c) PROVE cell'[d] = cell[d]
  <2>1. d \notin Children(c)  BY <1>1, <1>5, ChildMeans
  <2>2. ~\E e \in Children(c) : e # m /\ d \in Within(e)  BY <1>4, <1>5
  <2> QED BY <1>3, <2>1, <2>2
<1>6. ASSUME NEW d \in Within(m) PROVE cell'[d] = cell[d]
  <2>1. d \in Columns  BY DEF Within
  <2>2. ~\E e \in Children(c) : e # m /\ d \in Within(e)  BY <1>1, <1>4
  <2>3. ~(d \in Children(c) /\ Kind[d] = "tag")
    BY <1>1, <2>1, <2>2, SelfWithin
  <2> QED BY <1>3, <2>1, <2>2, <2>3
<1>7. \A d \in Children(c) : Kind[d] = "tag" => cell'[d] = "value"
  BY <1>3 DEF Children
<1>8. ASSUME NEW e \in Children(c) \ {m}, NEW d \in Within(e)
      PROVE  cell'[d] = "null" \/ (d = e /\ Kind[d] = "tag" /\ cell'[d] = "value")
  <2>1. d \in Columns  BY DEF Within
  <2>2. CASE d \in Children(c) /\ Kind[d] = "tag"
    <3>1. d \in Within(d)  BY <2>1, SelfWithin
    <3> QED BY <1>3, <1>4, <2>1, <2>2, <3>1
  <2>3. CASE ~(d \in Children(c) /\ Kind[d] = "tag")  BY <1>3, <2>1, <2>3
  <2> QED BY <2>2, <2>3
<1> QED BY <1>1, <1>2, <1>5, <1>6, <1>7, <1>8 DEF c

LEMMA FillMeans ==
  ASSUME NEW c \in Columns, NEW content, Fill(c, content)
  PROVE  /\ \A d \in Within(c) : cell'[d] = content
         /\ \A d \in Columns : d \notin Within(c) => cell'[d] = cell[d]
BY DEF Fill, Within

LEMMA StepAhead ==
  ASSUME DefaultAt \subseteq Children(None), AheadInv, [Next]_vars
  PROVE  AheadInv' /\ KeepsWritten
<1>0. CursorInv'  BY StepCursor DEF AheadInv
<1> USE NoneOutside DEF NoneIsNoColumn, AheadUnset, NewRowBlank, readyForANewRowInvariant
<1> SUFFICES AheadUnset' /\ NewRowBlank' /\ KeepsWritten  BY <1>0 DEF AheadInv
<1>1. CASE BeginRow
  <2>1. /\ currentColumn' = << 1 >> /\ cell' = Blank /\ cell' = cell /\ << 1 >> \in Columns
    BY <1>1, RowsAssumption DEF BeginRow, AheadInv
  <2>2. \A d \in Columns : Blank[d] = "unset"  BY DEF Blank
  <2>3. Ahead(<< 1 >>) \subseteq Columns  BY DEF Ahead, Within
  <2> QED BY <2>1, <2>2, <2>3 DEF KeepsWritten
<1>2. CASE BeginStruct
  <2>1. /\ currentColumn \in Columns /\ Kind[currentColumn] = "struct"
        /\ currentColumn' = Append(currentColumn, 1) /\ cell' = cell
    BY <1>2 DEF BeginStruct, AheadInv, CursorInv, CursorType
  <2>2. \A d \in Ahead(Append(currentColumn, 1)) : d \in Columns  BY DEF Ahead, Within
  <2>3. \A d \in Ahead(Append(currentColumn, 1)) : d \in Ahead(currentColumn)
    BY <2>1, <2>2, AheadOfField
  <2>4. currentColumn' \in Columns  BY <2>1, AheadOfField
  <2> QED BY <2>1, <2>3, <2>4 DEF KeepsWritten, AheadInv
<1>3. CASE \E m \in Columns : BeginUnion(m)
  <2>1. PICK m \in Columns : BeginUnion(m)  BY <1>3
  <2> DEFINE c == currentColumn
  <2>2. /\ c \in Columns /\ Kind[c] = "union" /\ m \in Children(c) /\ currentColumn' = m
        /\ \A d \in Columns : d \notin Within(c) => cell'[d] = cell[d]
        /\ \A d \in Within(m) : cell'[d] = cell[d]
        /\ \A d \in Within(c) : cell[d] = "unset"
    BY <2>1, UnionStep
  <2>3. KeepsWritten  BY <2>2 DEF KeepsWritten
  <2>4. ASSUME NEW d \in Ahead(m) PROVE cell'[d] = "unset"
    <3>1. d \in Columns  BY DEF Ahead, Within
    <3>2. (d \in Ahead(c) /\ d \notin Within(c)) \/ d \in Within(m)
      BY <2>2, <3>1, AheadOfMember
    <3>3. d \in Within(m) => d \in Ahead(c)
      <4>1. m \in Within(c)  BY <2>2, ChildMeans
      <4>2. ASSUME d \in Within(m) PROVE d \in Within(c)
        <5>1. /\ Len(m) = Len(c) + 1 /\ \A i \in 1 .. Len(c) : m[i] = c[i]
              /\ Len(c) \in Nat
          BY <2>2, ChildMeans
        <5>2. Len(d) >= Len(m) /\ Len(d) \in Nat /\ \A i \in 1 .. Len(m) : d[i] = m[i]
          BY <2>1, <3>1, <4>2, WithinMeans, ColumnPath
        <5>3. Len(d) >= Len(c) /\ \A i \in 1 .. Len(c) : d[i] = c[i]  BY <5>1, <5>2
        <5> QED BY <2>2, <3>1, <5>3, WithinMeans
      <4> QED BY <2>2, <4>2, <3>1, AheadMeans
    <3> QED BY <2>2, <3>1, <3>2, <3>3 DEF AheadInv
  <2> QED BY <2>2, <2>3, <2>4
<1>4. CASE EndStruct \/ EndUnion
  <2>1. /\ currentColumn' = currentColumn /\ cell' = cell /\ prevColumn' \in Columns
    BY <1>4, UpStep DEF AheadInv
  <2> QED BY <2>1 DEF AheadInv, KeepsWritten
<1>5. CASE Write
  <2> DEFINE c == currentColumn
  <2>1. c \in Columns /\ moveToNextColumn  BY <1>5, WriteStep DEF AheadInv, CursorInv
  <2>2. \/ \E content \in Contents \ {"unset"} : Fill(c, content)
        \/ cell' = cell
    BY <1>5, Written DEF AheadInv, CursorInv
  <2>3. \A d \in Columns : d \notin Within(c) => cell'[d] = cell[d]
    BY <2>1, <2>2, FillMeans
  <2>4. \A d \in Within(c) : cell[d] = "unset"  BY <2>1 DEF AheadInv, Ahead
  <2>5. KeepsWritten  BY <2>3, <2>4 DEF KeepsWritten
  <2>6. prevColumn' = c  BY <2>1, Move
  <2>7. ASSUME currentColumn' \in Columns, NEW d \in Ahead(currentColumn')
        PROVE  cell'[d] = "unset"
    <3>1. Continuations(c) # {} /\ currentColumn' = nextColumn(c)  BY <2>1, <2>7, Move
    <3>2. d \in Columns  BY DEF Ahead, Within
    <3>3. d \in Ahead(c) /\ d \notin Within(c)  BY <2>1, <2>7, <3>1, <3>2, AheadOfNext
    <3> QED BY <2>1, <2>3, <3>2, <3>3 DEF AheadInv
  <2> QED BY <2>1, <2>5, <2>6, <2>7
<1>6. CASE EndRow
  <2>1. currentColumn' = None /\ cell' = Blank /\ ended' # ended
    <3>1. \A n \in Nat : n + 1 # n  OBVIOUS
    <3> QED BY <1>6, <3>1
        DEF EndRow, RowDone, rowCompletedInvariant, AheadInv, CursorInv, CursorType
  <2> QED BY <2>1 DEF KeepsWritten, Blank
<1>7. CASE Elsewhere  BY <1>7 DEF Elsewhere, cursor, AheadInv, KeepsWritten
<1> QED BY <1>1, <1>2, <1>3, <1>4, <1>5, <1>6, <1>7, StepKinds

LEMMA InitAhead == Init => AheadInv
<1> SUFFICES ASSUME Init PROVE AheadInv  OBVIOUS
<1>1. CursorInv /\ currentColumn \notin Columns
  BY InitCursor, NoneOutside DEF Init, NoneIsNoColumn
<1> QED BY <1>1 DEF Init, AheadInv, AheadUnset, NewRowBlank

\* When appendDefault() is called for top-level columns only, no call changes
\* what has been written into the row, until the row has ended.
THEOREM ColumnsWrittenOnce ==
  ASSUME DefaultAt \subseteq Children(None)
  PROVE  Spec => NoOverwrite
<1>1. AheadInv /\ [Next]_vars =>
        [ended' = ended => \A c \in Columns : cell[c] # "unset" => cell'[c] = cell[c]]_vars
  BY StepAhead DEF KeepsWritten
<1>2. AheadInv /\ [Next]_vars => AheadInv'  BY StepAhead
<1> QED BY <1>1, <1>2, InitAhead, PTL DEF Spec, NoOverwrite

-----------------------------------------------------------------------------
(* What is unset is ahead of the cursor: no column is forgotten *)

MustBeSet == { d \in Columns : Kind[d] \in {"value", "tag"} }

BehindSet ==
  /\ currentColumn \in Columns =>
       \A d \in MustBeSet : cell[d] = "unset" => d \in Ahead(currentColumn)
  /\ RowTraversed => \A d \in MustBeSet : cell[d] # "unset"

Tag(u) == Append(u, 1)
Others(u, m) == Within(u) \ ({u, Tag(u)} \cup Within(m))

OneMember ==
  \A u \in Columns : Kind[u] = "union" /\ cell[Tag(u)] = "value" =>
    \E m \in Children(u) : \A d \in Others(u, m) : cell[d] = "null"

WholeInv == AheadInv /\ BehindSet /\ OneMember

LEMMA TagMeans ==
  ASSUME NEW u \in Columns, Kind[u] = "union"
  PROVE  /\ Tag(u) \in Columns /\ Kind[Tag(u)] = "tag" /\ Parent(Tag(u)) = u
         /\ \A e \in Children(u) : Kind[e] = "tag" => e = Tag(u)
<1>1. Tag(u) \in Columns  BY RowsAssumption DEF Tag
<1>2. u \in Paths /\ Len(u) \in Nat \ {0}  BY ColumnPath
<1>3. /\ Tag(u) \in Paths /\ Len(Tag(u)) = Len(u) + 1 /\ Tag(u)[Len(u) + 1] = 1
      /\ \A i \in 1 .. Len(u) : Tag(u)[i] = u[i]
  BY <1>2, Extended DEF Tag
<1>4. Parent(Tag(u)) = u
  <2>1. /\ Parent(Tag(u)) \in Paths /\ Len(Parent(Tag(u))) = Len(u)
        /\ \A i \in 1 .. Len(u) : Parent(Tag(u))[i] = u[i]
    BY <1>1, <1>2, <1>3, ParentMeans
  <2> QED BY <1>2, <2>1, PathsEqual
<1>5. Tag(u) \in Children(u)  BY <1>1, <1>4 DEF Children
<1>6. Kind[Tag(u)] = "tag"
  <2>1. InUnion(Tag(u))  BY <1>5, ChildMeans
  <2>2. Idx(Tag(u)) = 1  BY <1>3 DEF Idx
  <2> QED BY <1>1, <2>1, <2>2, RowsAssumption
<1>7. ASSUME NEW e \in Children(u), Kind[e] = "tag" PROVE e = Tag(u)
  <2>1. e \in Columns /\ Len(e) = Len(u) + 1 /\ \A i \in 1 .. Len(u) : e[i] = u[i]
    BY ChildMeans
  <2>2. e[Len(u) + 1] = 1  BY <1>7, <2>1, RowsAssumption DEF Idx
  <2>3. \A i \in 1 .. Len(e) : e[i] = Tag(u)[i]  BY <1>2, <1>3, <2>1, <2>2
  <2>4. e \in Paths  BY <2>1, ColumnPath
  <2> QED BY <1>3, <2>1, <2>3, <2>4, PathsEqual
<1> QED BY <1>1, <1>4, <1>6, <1>7

\* For a union whose tag was set before, what was null stays null.
LEMMA OneMemberKept ==
  ASSUME OneMember, KeepsWritten, ended' = ended,
         NEW u \in Columns, Kind[u] = "union", cell[Tag(u)] = "value"
  PROVE  \E m \in Children(u) : \A d \in Others(u, m) : cell'[d] = "null"
<1>1. PICK m \in Children(u) : \A d \in Others(u, m) : cell[d] = "null"  BY DEF OneMember
<1>2. Others(u, m) \subseteq Columns  BY DEF Others, Within
<1> QED BY <1>1, <1>2 DEF KeepsWritten

LEMMA WholeWritten ==
  ASSUME DefaultAt \subseteq Foldable, CursorType, Write
  PROVE  \E content \in Contents \ {"unset"} :
           /\ Fill(currentColumn, content)
           /\ content = "value" => Kind[currentColumn] = "value"
<1>1. CASE AppendValue  BY <1>1 DEF AppendValue, Contents
<1>2. CASE AppendNull  BY <1>2 DEF AppendNull, Contents
<1>3. CASE AppendDefault
  <2>1. DefaultAt \subseteq Children(None)  BY RowsAssumption
  <2>2. Fill(currentColumn, "default")  BY <1>3, <2>1, DefaultFills DEF AppendDefault
  <2> QED BY <2>2 DEF Contents
<1> QED BY <1>1, <1>2, <1>3 DEF Write

LEMMA StepWhole ==
  ASSUME DefaultAt \subseteq Foldable, WholeInv, [Next]_vars
  PROVE  WholeInv'
<1>0. DefaultAt \subseteq Children(None)  BY RowsAssumption
<1>1. AheadInv' /\ KeepsWritten  BY <1>0, StepAhead DEF WholeInv
<1> SUFFICES BehindSet' /\ OneMember'  BY <1>1 DEF WholeInv
<1> USE NoneOutside DEF NoneIsNoColumn, RowTraversed
<1>2. CASE BeginRow
  <2>1. /\ currentColumn' = << 1 >> /\ cell' = cell /\ ended' = ended /\ prevColumn' = None
        /\ << 1 >> \in Columns
    BY <1>2, RowsAssumption DEF BeginRow, readyForANewRowInvariant
  <2>2. ASSUME NEW d \in Columns PROVE d \in Ahead(<< 1 >>)
    <3> DEFINE c == << 1 >>
    <3>1. c \in Columns /\ Len(c) = 1 /\ c[1] = 1  BY <2>1
    <3>2. Len(d) \in Nat \ {0} /\ d[1] \in Nat \ {0}  BY ColumnPath
    <3>3. ~InUnion(SubSeq(c, 1, 1))
      <4>1. Len(SubSeq(c, 1, 1)) = 1  BY <3>1, Prefix
      <4> QED BY <4>1 DEF InUnion
    <3> HIDE DEF c
    <3>4. CASE d[1] = 1
      <4>1. Len(d) >= Len(c) /\ \A i \in 1 .. Len(c) : d[i] = c[i]  BY <3>1, <3>2, <3>4
      <4> QED BY <3>1, <4>1, WithinMeans DEF Ahead, c
    <3>5. CASE d[1] > 1
      <4>1. Later(c, d, 1)  BY <3>1, <3>2, <3>3, <3>5 DEF Later
      <4> QED BY <3>1, <4>1 DEF Ahead, c
    <3> QED BY <3>2, <3>4, <3>5
  <2>3. BehindSet'  BY <2>1, <2>2 DEF BehindSet, MustBeSet
  <2> QED BY <2>1, <2>3 DEF WholeInv, OneMember
<1>3. CASE BeginStruct
  <2>1. /\ currentColumn \in Columns /\ Kind[currentColumn] = "struct"
        /\ currentColumn' = Append(currentColumn, 1) /\ cell' = cell /\ ended' = ended
        /\ prevColumn' = prevColumn
    BY <1>3 DEF BeginStruct, WholeInv, AheadInv, CursorInv, CursorType
  <2>2. currentColumn' \in Columns  BY <2>1, AheadOfField
  <2>3. ASSUME NEW d \in MustBeSet, cell[d] = "unset" PROVE d \in Ahead(currentColumn')
    <3>1. d \in Columns /\ d # currentColumn  BY <2>1 DEF MustBeSet
    <3>2. d \in Ahead(currentColumn)  BY <2>1, <2>3 DEF WholeInv, BehindSet
    <3> QED BY <2>1, <3>1, <3>2, AheadOfField
  <2>4. BehindSet'  BY <2>1, <2>2, <2>3 DEF BehindSet, MustBeSet
  <2> QED BY <2>1, <2>4 DEF WholeInv, OneMember
<1>4. CASE \E m \in Columns : BeginUnion(m)
  <2>1. PICK m \in Columns : BeginUnion(m)  BY <1>4
  <2> DEFINE c == currentColumn
  <2>2. /\ c \in Columns /\ Kind[c] = "union" /\ m \in Children(c) /\ currentColumn' = m
        /\ \A d \in Columns : d \notin Within(c) => cell'[d] = cell[d]
        /\ \A d \in Within(m) : cell'[d] = cell[d]
        /\ \A d \in Children(c) : Kind[d] = "tag" => cell'[d] = "value"
        /\ \A e \in Children(c) \ {m} : \A d \in Within(e) :
             cell'[d] = "null" \/ (d = e /\ Kind[d] = "tag" /\ cell'[d] = "value")
        /\ \A d \in Within(c) : cell[d] = "unset"
        /\ ended' = ended /\ prevColumn' = prevColumn
    BY <2>1, UnionStep DEF WholeInv
  <2> HIDE DEF c
  <2>3. ASSUME NEW d \in Within(c), d # c, d \notin Within(m)
        PROVE  cell'[d] = "null" \/ (d \in Children(c) /\ Kind[d] = "tag" /\ cell'[d] = "value")
    <3>1. PICK e \in Children(c) : d \in Within(e)  BY <2>2, <2>3, ChildBelow
    <3> QED BY <2>2, <2>3, <3>1
  <2>4. ASSUME NEW d \in MustBeSet, cell'[d] = "unset" PROVE d \in Ahead(m)
    <3>1. d \in Columns /\ d # c  BY <2>2 DEF MustBeSet
    <3>2. CASE d \in Within(c)
      <4>1. d \in Within(m)  BY <2>3, <2>4, <3>1, <3>2
      <4> QED BY <2>2, <3>1, <4>1, AheadOfMember
    <3>3. CASE d \notin Within(c)
      <4>1. d \in Ahead(c)  BY <2>2, <2>4, <3>1, <3>3 DEF WholeInv, BehindSet, c
      <4> QED BY <2>2, <3>1, <3>3, <4>1, AheadOfMember
    <3> QED BY <3>2, <3>3
  <2>5. BehindSet'  BY <2>2, <2>4 DEF BehindSet, MustBeSet
  <2>6. ASSUME NEW u \in Columns, Kind[u] = "union", cell'[Tag(u)] = "value"
        PROVE  \E n \in Children(u) : \A d \in Others(u, n) : cell'[d] = "null"
    <3>1. CASE u = c
      <4>1. ASSUME NEW d \in Others(c, m) PROVE cell'[d] = "null"
        <5>1. d \in Within(c) /\ d # c /\ d \notin Within(m) /\ d # Tag(c)  BY DEF Others
        <5>2. ~(d \in Children(c) /\ Kind[d] = "tag")  BY <2>2, <5>1, TagMeans
        <5> QED BY <2>3, <5>1, <5>2
      <4> QED BY <2>2, <3>1, <4>1
    <3>2. CASE u # c
      <4>1. Tag(u) \in Columns /\ Kind[Tag(u)] = "tag" /\ Parent(Tag(u)) = u
        BY <2>6, TagMeans
      <4>2. Tag(u) \notin Children(c)  BY <3>2, <4>1 DEF Children
      <4>3. cell[Tag(u)] = "value"
        <5>1. CASE Tag(u) \notin Within(c)  BY <2>2, <2>6, <4>1, <5>1
        <5>2. CASE Tag(u) \in Within(c)
          <6>1. Tag(u) # c  BY <2>2, <4>1
          <6>2. Tag(u) \in Within(m)  BY <2>3, <2>6, <4>2, <5>2, <6>1
          <6> QED BY <2>2, <2>6, <6>2
        <5> QED BY <5>1, <5>2
      <4> QED BY <1>1, <2>2, <2>6, <4>3, OneMemberKept DEF WholeInv
    <3> QED BY <3>1, <3>2
  <2> QED BY <2>5, <2>6 DEF OneMember
<1>5. CASE EndStruct \/ EndUnion
  <2>1. /\ currentColumn' = currentColumn /\ cell' = cell
        /\ prevColumn' \in Columns /\ prevColumn \in Columns
    BY <1>5, UpStep DEF WholeInv, AheadInv
  <2> QED BY <2>1 DEF WholeInv, BehindSet, OneMember
<1>6. CASE Write
  <2> DEFINE c == currentColumn
  <2>1. c \in Columns /\ moveToNextColumn /\ ended' = ended
    BY <1>6, WriteStep DEF WholeInv, AheadInv, CursorInv
  <2>2. PICK content \in Contents \ {"unset"} :
          Fill(c, content) /\ (content = "value" => Kind[c] = "value")
    BY <1>6, WholeWritten DEF WholeInv, AheadInv, CursorInv
  <2>3. /\ \A d \in Within(c) : cell'[d] = content
        /\ \A d \in Columns : d \notin Within(c) => cell'[d] = cell[d]
    BY <2>1, <2>2, FillMeans
  <2>4. ASSUME NEW d \in MustBeSet, cell'[d] = "unset"
        PROVE  d \in Columns /\ d \in Ahead(c) /\ d \notin Within(c)
    <3>1. d \in Columns /\ d \notin Within(c)  BY <2>2, <2>3, <2>4 DEF MustBeSet
    <3> QED BY <2>1, <2>3, <2>4, <3>1 DEF WholeInv, BehindSet
  <2>5. BehindSet'
    <3>1. CASE Continuations(c) # {}
      <4>1. currentColumn' = nextColumn(c) /\ currentColumn' \in Columns
        BY <2>1, <3>1, Move
      <4>2. \A d \in MustBeSet : cell'[d] = "unset" => d \in Ahead(nextColumn(c))
        BY <2>1, <2>4, <3>1, AheadOfNext
      <4> QED BY <4>1, <4>2 DEF BehindSet, MustBeSet
    <3>2. CASE Continuations(c) = {}
      <4>1. currentColumn' = None  BY <2>1, <3>2, Move
      <4>2. \A d \in MustBeSet : cell'[d] # "unset"
        BY <2>1, <2>4, <3>2, AheadOfEnd
      <4> QED BY <4>1, <4>2 DEF BehindSet, MustBeSet
    <3> QED BY <3>1, <3>2
  <2>6. ASSUME NEW u \in Columns, Kind[u] = "union", cell'[Tag(u)] = "value"
        PROVE  \E n \in Children(u) : \A d \in Others(u, n) : cell'[d] = "null"
    <3>1. Tag(u) \in Columns /\ Kind[Tag(u)] = "tag"  BY <2>6, TagMeans
    <3>2. Tag(u) \notin Within(c)
      <4> SUFFICES ASSUME Tag(u) \in Within(c) PROVE FALSE  OBVIOUS
      <4>1. Kind[c] = "value"  BY <2>2, <2>3, <2>6
      <4>2. Tag(u) # c  BY <3>1, <4>1
      <4> QED BY <2>1, <4>1, <4>2, ChildBelow
    <3>3. cell[Tag(u)] = "value"  BY <2>3, <2>6, <3>1, <3>2
    <3> QED BY <1>1, <2>1, <2>6, <3>3, OneMemberKept DEF WholeInv
  <2> QED BY <2>5, <2>6 DEF OneMember
<1>7. CASE EndRow
  <2>1. currentColumn' = None /\ prevColumn' = None /\ cell' = Blank
    BY <1>7 DEF EndRow, RowDone, rowCompletedInvariant
  <2>2. BehindSet'  BY <2>1 DEF BehindSet
  <2>3. ASSUME NEW u \in Columns, Kind[u] = "union" PROVE cell'[Tag(u)] # "value"
    BY <2>1, <2>3, TagMeans DEF Blank
  <2> QED BY <2>2, <2>3 DEF OneMember
<1>8. CASE Elsewhere
  BY <1>8 DEF Elsewhere, cursor, WholeInv, BehindSet, OneMember
<1> QED BY <1>2, <1>3, <1>4, <1>5, <1>6, <1>7, <1>8, StepKinds

LEMMA InitWhole == Init => WholeInv
<1> SUFFICES ASSUME Init PROVE WholeInv  OBVIOUS
<1>1. AheadInv /\ currentColumn \notin Columns /\ ~RowTraversed
  BY InitAhead, NoneOutside DEF Init, NoneIsNoColumn, RowTraversed
<1>2. ASSUME NEW u \in Columns, Kind[u] = "union" PROVE cell[Tag(u)] # "value"
  BY <1>2, TagMeans DEF Init, Blank
<1> QED BY <1>1, <1>2 DEF WholeInv, BehindSet, OneMember

LEMMA WholeRow == WholeInv => RowWhole
BY DEF WholeInv, BehindSet, OneMember, RowWhole, MustBeSet, Tag, Others

\* When appendDefault() is called for top-level columns with a constant default
\* only, a traversed row is whole: every value and tag is set, however deep it
\* is, and all members of a union but one are null.
THEOREM TraversedRowsAreWhole ==
  ASSUME DefaultAt \subseteq Foldable
  PROVE  Spec => []RowWhole
<1>1. WholeInv /\ [Next]_vars => WholeInv'  BY StepWhole
<1> QED BY <1>1, InitWhole, WholeRow, PTL DEF Spec

=============================================================================
