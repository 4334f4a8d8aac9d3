----------------------------- MODULE AppenderRows -----------------------------
(***************************************************************************)
(* How DuckDBAppender builds rows and stores them.  A cursor moves through *)
(* the columns of the current row, down into structs and unions and up     *)
(* again.  endRow() adds the row to a chunk; a full chunk, flush() and     *)
(* close() hand the chunk to the native appender, which collects the rows  *)
(* and writes them to the table.                                           *)
(*                                                                         *)
(* A column is its path: <<2, 1>> is the first field of the second column, *)
(* and the empty path stands for null.  A call whose check fails throws    *)
(* without an effect and is no action.                                     *)
(***************************************************************************)
EXTENDS Integers, Sequences, FiniteSetsExt

CONSTANTS
  Columns,    \* the paths of all columns and their fields
  Kind,       \* what each of them is
  DefaultAt,  \* columns for which the application calls appendDefault()
  Foldable,   \* top-level columns whose default is a constant
  Faults,     \* which native calls may fail: "append", "flush"
  Closers,    \* who may call close(): "owner" thread, "other" thread
  MaxRows,    \* the capacity of a chunk (duckdb_vector_size)
  MaxTotal,   \* bound: rows
  MaxFailures \* bound: failing native calls

None == << >>
Kinds == { "value", "struct", "union", "tag" }

Parent(c) == SubSeq(c, 1, Len(c) - 1)
Idx(c) == c[Len(c)]
Sibling(c) == Append(Parent(c), Idx(c) + 1)
Children(c) == { d \in Columns : Parent(d) = c }
Within(c) == { d \in Columns : Len(d) >= Len(c) /\ SubSeq(d, 1, Len(c)) = c }
InStruct(c) == Len(c) > 1 /\ Kind[Parent(c)] = "struct"
InUnion(c) == Len(c) > 1 /\ Kind[Parent(c)] = "union"

ASSUME RowsAssumption ==
  /\ <<1>> \in Columns
  /\ Kind \in [Columns -> Kinds]
  /\ \A c \in Columns :
       /\ c \in Seq(Nat \ {0}) /\ c # None
       /\ Len(c) > 1 => InStruct(c) \/ InUnion(c)
       /\ \A n \in 1 .. Len(c) : \A k \in 1 .. c[n] : Append(SubSeq(c, 1, n - 1), k) \in Columns
       /\ Kind[c] \in {"struct", "union"} => Append(c, 1) \in Columns
       /\ Kind[c] = "tag" <=> InUnion(c) /\ Idx(c) = 1
  /\ DefaultAt \subseteq Columns /\ Foldable \subseteq Children(None)
  /\ Faults \subseteq {"append", "flush"} /\ Closers \subseteq {"owner", "other"}
  /\ MaxRows \in Nat \ {0} /\ MaxTotal \in Nat /\ MaxFailures \in Nat

VARIABLES
  currentColumn, prevColumn,
  cell,           \* what the slot of the current row holds
  chunk,          \* the numbers of the rows in the chunk; rowIdx is its length
  collection,     \* the rows in the native appender
  table,          \* the rows in the table
  ended,          \* the number of rows endRow() has accepted
  open,           \* appenderRef is not null
  failures        \* the number of native calls that have failed

cursor == << currentColumn, prevColumn >>
store == << collection, table >>
vars == << cursor, cell, chunk, store, ended, open, failures >>

rowIdx == Len(chunk)
Blank == [c \in Columns |-> "unset"]

Init ==
  /\ currentColumn = None /\ prevColumn = None
  /\ cell = Blank /\ chunk = << >> /\ collection = << >> /\ table = << >>
  /\ ended = 0 /\ open = TRUE /\ failures = 0

-----------------------------------------------------------------------------
(***************************************************************************)
(* The cursor.                                                             *)
(***************************************************************************)
readyForANewRowInvariant == currentColumn = None /\ prevColumn = None

rowCompletedInvariant ==
  /\ currentColumn = None /\ prevColumn # None
  /\ Idx(prevColumn) = Cardinality(Children(None))

structCompletedInvariant ==
  prevColumn # None /\ InStruct(prevColumn) /\ Sibling(prevColumn) \notin Columns

\* Faulty variant of unionCompletedInvariant: only the last member completes it.
unionCompletedLast ==
  prevColumn # None /\ InUnion(prevColumn) /\ Sibling(prevColumn) \notin Columns

unionCompletedInvariant == prevColumn # None /\ InUnion(prevColumn)

\* The columns above c, and c itself, that have one after them on their level;
\* the members of a union are alternatives and have none.
Continuations(c) ==
  { n \in 1 .. Len(c) : LET a == SubSeq(c, 1, n)
                        IN  ~InUnion(a) /\ Sibling(a) \in Columns }

\* Faulty variants of nextColumn: the row ends with its first struct, and the
\* members of a union are visited one after the other.
nextColumnFlat(c) ==
  IF Len(c) \in Continuations(c) THEN Sibling(c) ELSE None

nextColumnThroughUnion(c) ==
  LET up == { n \in 1 .. Len(c) : Sibling(SubSeq(c, 1, n)) \in Columns }
  IN  IF up = {} THEN None ELSE Sibling(SubSeq(c, 1, Max(up)))

nextColumn(c) ==
  IF Continuations(c) = {} THEN None
  ELSE Sibling(SubSeq(c, 1, Max(Continuations(c))))

moveToNextColumn ==
  /\ prevColumn' = currentColumn
  /\ currentColumn' = nextColumn(currentColumn)

BeginRow ==
  /\ open /\ readyForANewRowInvariant /\ ended < MaxTotal
  /\ currentColumn' = <<1>>
  /\ UNCHANGED << prevColumn, cell, chunk, store, ended, open, failures >>

BeginStruct ==
  /\ open /\ currentColumn # None /\ Kind[currentColumn] = "struct"
  /\ currentColumn' = Append(currentColumn, 1)
  /\ UNCHANGED << prevColumn, cell, chunk, store, ended, open, failures >>

EndStruct ==
  /\ open /\ structCompletedInvariant
  /\ prevColumn' = Parent(prevColumn)
  /\ UNCHANGED << currentColumn, cell, chunk, store, ended, open, failures >>

\* The tag is set, and every other member becomes null.
putUnionTag(m) ==
  cell' = [c \in Columns |->
    IF c \in Children(currentColumn) /\ Kind[c] = "tag" THEN "value"
    ELSE IF \E d \in Children(currentColumn) : d # m /\ c \in Within(d) THEN "null"
    ELSE cell[c]]

BeginUnion(m) ==
  /\ open /\ currentColumn # None /\ Kind[currentColumn] = "union"
  /\ m \in Children(currentColumn) /\ Kind[m] # "tag"
  /\ putUnionTag(m)
  /\ currentColumn' = m
  /\ UNCHANGED << prevColumn, chunk, store, ended, open, failures >>

EndUnion ==
  /\ open /\ unionCompletedInvariant
  /\ prevColumn' = Parent(prevColumn)
  /\ UNCHANGED << currentColumn, cell, chunk, store, ended, open, failures >>

-----------------------------------------------------------------------------
(***************************************************************************)
(* The cells of the current row.                                           *)
(***************************************************************************)
Fill(c, content) ==
  cell' = [d \in Columns |-> IF d \in Within(c) THEN content ELSE cell[d]]

\* append() of a scalar or of a whole array, list or map.
AppendValue ==
  /\ open /\ currentColumn # None /\ Kind[currentColumn] = "value"
  /\ Fill(currentColumn, "value")
  /\ moveToNextColumn
  /\ UNCHANGED << chunk, store, ended, open, failures >>

\* appendNull(), and append() of a null reference.
AppendNull ==
  /\ open /\ currentColumn # None
  /\ Fill(currentColumn, "null")
  /\ moveToNextColumn
  /\ UNCHANGED << chunk, store, ended, open, failures >>

\* appendDefault() passes the index of the column among its siblings to the
\* native call, which takes it for a top-level one, and ignores the outcome.
AppendDefault ==
  /\ open /\ currentColumn \in DefaultAt
  /\ LET top == << Idx(currentColumn) >>
     IN  \/ top \in Foldable /\ Fill(top, "default")
         \/ top \notin Foldable /\ UNCHANGED cell
  /\ moveToNextColumn
  /\ UNCHANGED << chunk, store, ended, open, failures >>

-----------------------------------------------------------------------------
(***************************************************************************)
(* Storing.                                                                *)
(***************************************************************************)
\* What appending rows to the native appender and flushing it leads to.
Stored(rows) == [ table |-> table \o collection \o rows, collection |-> << >> ]
AppendFailed == [ table |-> table, collection |-> collection ]
FlushFailed(rows) == [ table |-> table, collection |-> collection \o rows ]

Failures(rows) == { f \in {AppendFailed} : "append" \in Faults }
                    \cup { f \in {FlushFailed(rows)} : "flush" \in Faults }

Fails == failures < MaxFailures /\ failures' = failures + 1
Becomes(s) == table' = s.table /\ collection' = s.collection

\* Faulty variant of FlushReturns: rowIdx keeps its value.
FlushReturnsNoReset(rows) == Becomes(Stored(rows)) /\ chunk' = rows /\ UNCHANGED failures

FlushReturns(rows) == Becomes(Stored(rows)) /\ chunk' = << >> /\ UNCHANGED failures

\* Faulty variant of FlushThrows: the chunk is given up when the flush fails.
FlushThrowsResets(rows) ==
  Fails /\ (\E s \in Failures(rows) : Becomes(s)) /\ chunk' = << >>

FlushThrows(rows) ==
  Fails /\ (\E s \in Failures(rows) : Becomes(s)) /\ UNCHANGED chunk

\* flush() does nothing when the chunk is empty, whatever the native appender
\* still holds.
Flush ==
  /\ open /\ readyForANewRowInvariant /\ rowIdx > 0
  /\ FlushReturns(chunk) \/ FlushThrows(chunk)
  /\ UNCHANGED << cursor, cell, ended, open >>

RowDone ==
  /\ prevColumn' = None /\ ended' = ended + 1 /\ cell' = Blank
  /\ UNCHANGED << currentColumn, open >>

\* The row is added to the chunk, which is flushed when it is full.
EndRow ==
  /\ open /\ rowCompletedInvariant
  /\ RowDone
  /\ \/ /\ rowIdx + 1 < MaxRows
        /\ chunk' = Append(chunk, ended + 1) /\ UNCHANGED << store, failures >>
     \/ rowIdx + 1 >= MaxRows /\ FlushReturns(Append(chunk, ended + 1))

\* When that flush fails the row is open again.
EndRowThrows ==
  /\ open /\ rowCompletedInvariant
  /\ rowIdx + 1 >= MaxRows /\ FlushThrows(Append(chunk, ended + 1))
  /\ UNCHANGED << cursor, cell, ended, open >>

\* Faulty variant of Close: the rows in the chunk are forgotten.
CloseForgets(who) ==
  /\ open /\ open' = FALSE
  /\ Becomes([ table |-> table \o collection, collection |-> << >> ])
  /\ UNCHANGED << cursor, cell, chunk, ended, failures >>

\* close() flushes the chunk if there is one, and suppresses what flush()
\* throws: in the middle of a row or on another thread it always does.  Then
\* the native appender flushes what it holds as it is closed and destroyed.
Close(who) ==
  LET flushes == rowIdx > 0 /\ readyForANewRowInvariant /\ who = "owner"
  IN  /\ open /\ open' = FALSE
      /\ \E s \in IF flushes THEN {Stored(chunk)} \cup Failures(chunk) ELSE {AppendFailed},
            lost \in BOOLEAN :
           /\ lost => "flush" \in Faults /\ s.collection # << >>
           /\ Becomes([ table |-> IF lost THEN s.table ELSE s.table \o s.collection,
                        collection |-> << >> ])
           /\ IF lost \/ (flushes /\ s # Stored(chunk)) THEN Fails ELSE UNCHANGED failures
      /\ UNCHANGED << cursor, cell, chunk, ended >>

-----------------------------------------------------------------------------
Cursor ==
  \/ BeginRow \/ BeginStruct \/ EndStruct \/ EndUnion
  \/ \E m \in Columns : BeginUnion(m)

Write == AppendValue \/ AppendNull \/ AppendDefault

Store == Flush \/ EndRow \/ EndRowThrows \/ \E who \in Closers : Close(who)

Next == Cursor \/ Write \/ Store

Spec == Init /\ [][Next]_vars

-----------------------------------------------------------------------------
(***************************************************************************)
(* Properties.                                                             *)
(***************************************************************************)
\* All columns of a row are behind the cursor.
RowTraversed == currentColumn = None /\ prevColumn # None

\* When the cursor has passed the last column, every value of the row has been
\* set, and of each union all members but one are null, however deep they nest.
RowWhole ==
  RowTraversed =>
    /\ \A c \in Columns : Kind[c] \in {"value", "tag"} => cell[c] # "unset"
    /\ \A u \in Columns : Kind[u] = "union" /\ cell[Append(u, 1)] = "value" =>
         \E m \in Children(u) :
           \A c \in Within(u) \ ({u, Append(u, 1)} \cup Within(m)) : cell[c] = "null"

\* What has been written into the current row stays until the row has ended: no
\* call writes a column twice or one it was not made for.
NoOverwrite ==
  [][ended' = ended => \A c \in Columns : cell[c] # "unset" => cell'[c] = cell[c]]_vars

\* A row with all columns set can always be ended: endRow() accepts it, or an
\* endStruct() or endUnion() does that takes the cursor a level up.
CompletedRowCanEnd ==
  RowTraversed =>
    rowCompletedInvariant \/ structCompletedInvariant \/ unionCompletedInvariant

RowsUpTo(n) == [i \in 1 .. n |-> i]

\* As long as no native call fails, every row that was ended is in the table,
\* the native appender or the chunk, once, and in order.
EachRowOnce == open /\ failures = 0 => table \o collection \o chunk = RowsUpTo(ended)

Occurs(i, rows) == \E k \in DOMAIN rows : rows[k] = i

\* Whatever fails, no row that was ended gets lost while the appender is open.
NoneLost ==
  open => \A i \in 1 .. ended :
            Occurs(i, table) \/ Occurs(i, collection) \/ Occurs(i, chunk)

\* Closed between two rows by its owner, an appender stores all of them.
CloseStores ==
  [][open /\ ~open' /\ readyForANewRowInvariant /\ failures' = 0
       => table' = RowsUpTo(ended)]_vars

\* A closed appender has stored all rows that were ended.
ClosedMeansStored == ~open /\ failures = 0 => table = RowsUpTo(ended)
=============================================================================
