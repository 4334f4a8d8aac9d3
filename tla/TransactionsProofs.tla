------------------------- MODULE TransactionsProofs -------------------------
(***************************************************************************)
(* Proofs about Transactions: type correctness, and, for a disciplined use *)
(* of the connection, that the driver's flag agrees with the engine, that  *)
(* batches are atomic and that the driver implements JdbcTransactions.     *)
(***************************************************************************)
EXTENDS Transactions, TLAPS

Open == engineTx # "none"

\* The control part: where the flag is ahead of the engine or behind it.
ControlOf(t) ==
  /\ sql[t] # "BEGIN"
  /\ pc[t] \in {"idle", "switched", "run", "batchStart", "batchStarted",
                "batchNext", "batchCatch"} => (transactionRunning <=> Open)
  /\ pc[t] = "mark" => ~transactionRunning /\ ~Open /\ begins[t] = 0
  /\ pc[t] = "check" /\ begins[t] = 0 => (transactionRunning <=> Open)
  /\ pc[t] = "check" /\ begins[t] # 0 => transactionRunning /\ ~Open /\ begins[t] = 1
  /\ pc[t] = "begin" => transactionRunning /\ ~Open /\ begins[t] = 1
  /\ pc[t] = "clear" => ~Open
  /\ pc[t] = "run" => autoCommit \/ transactionRunning
  /\ pc[t] = "batchStarted" => transactionRunning
  /\ pc[t] = "check" /\ begins[t] = 0 => caller[t] # "batchBegin"
  /\ pc[t] = "run" => caller[t] # "batchBegin"
  /\ pc[t] \in {"mark", "begin"} \/ (pc[t] = "check" /\ begins[t] # 0)
     => ~autoCommit \/ caller[t] = "batchBegin"
  /\ pc[t] \in {"check", "mark", "begin", "run"} /\ caller[t] # "batchBegin"
     => /\ sql[t] \in {"COMMIT", "ROLLBACK"} <=> caller[t] \in {"end", "batchCommit"}
        /\ caller[t] = "batchItem" => sql[t] = "write"
        /\ caller[t] = "batchCommit" => sql[t] = "COMMIT"

ControlInv == \A t \in Threads : ControlOf(t)

\* Writes are uncommitted only in a transaction; in auto-commit mode there is
\* one only while a batch runs or a mode switch ends it.
TransactionOf(t) ==
  autoCommit /\ Open =>
    \/ pc[t] \in {"switched", "batchStarted"}
    \/ pc[t] \in {"batchNext", "batchCatch"} /\ tranStarted[t]
    \/ /\ pc[t] \in {"check", "run"} /\ caller[t] \in {"end", "batchCommit"}
       /\ sql[t] \in {"COMMIT", "ROLLBACK"}
    \/ pc[t] \in {"check", "run"} /\ caller[t] = "batchItem" /\ tranStarted[t]

TransactionInv ==
  /\ uncommitted # {} => Open
  /\ \A t \in Threads : TransactionOf(t)

\* A batch that was started in auto-commit mode is atomic: nothing of it is
\* durable while it runs, all of it is uncommitted until something fails, and
\* nothing of it is uncommitted once it has ended.
InBatch(t) ==
  \/ pc[t] \in {"batchStart", "batchStarted", "batchNext", "batchCatch"}
  \/ pc[t] \in {"mark", "check", "begin"} /\ caller[t] = "batchBegin"
  \/ pc[t] \in {"check", "run"} /\ caller[t] \in {"batchItem", "batchCommit"}

\* The items of the batch are being executed, or have been.
InItems(t) ==
  \/ pc[t] = "batchNext"
  \/ pc[t] \in {"check", "run"} /\ caller[t] \in {"batchItem", "batchCommit"}

BatchOf(t) ==
  batchAuto[t] =>
    /\ InBatch(t) => autoCommit /\ batch[t] \cap committed = {}
    /\ pc[t] \in {"batchStart", "batchStarted"} => batch[t] = {}
    /\ pc[t] \in {"mark", "check", "begin"} /\ caller[t] = "batchBegin" => batch[t] = {}
    /\ pc[t] = "batchStart" => ~Open
    /\ pc[t] \in {"mark", "begin"} => caller[t] \notin {"batchItem", "batchCommit"}
    /\ InItems(t) => Open /\ batch[t] \subseteq uncommitted
    /\ pc[t] = "batchCatch" => tranStarted[t] \/ batch[t] = {}
    /\ InItems(t) => tranStarted[t] /\ begins[t] = 0
    /\ ~InBatch(t) /\ ~(pc[t] \in {"check", "mark", "begin", "run"} /\ caller[t] = "end"
                        /\ sql[t] = "ROLLBACK")
       => batch[t] \cap uncommitted = {}
    /\ batch[t] \subseteq committed \/ batch[t] \cap committed = {}

BatchInv == \A t \in Threads : BatchOf(t)

TxInv == TypeOK /\ ControlInv /\ TransactionInv /\ BatchInv

-----------------------------------------------------------------------------
\* The initial states have their types.
LEMMA TypeInit == Init => TypeOK
<1> SUFFICES ASSUME Init
             PROVE  TypeOK
  OBVIOUS
<1>1. issued \in 0 .. MaxWrites /\ committed \subseteq 1 .. issued /\ uncommitted \subseteq 1 .. issued
  BY TransactionsAssumption DEF Init, TransactionsAssumption
<1>2. /\ batch \in [Threads -> SUBSET (1 .. issued)]
      /\ begins \in [Threads -> Nat] /\ left \in [Threads -> Nat]
  BY DEF Init
<1>3. /\ pc \in [Threads -> Labels] /\ caller \in [Threads -> Callers]
      /\ sql \in [Threads -> Statements \cup {"none", "prepare"}]
      /\ \A t \in Threads : pc[t] = "idle" /\ begins[t] = 0
  BY DEF Init, Labels, Callers
<1>4. batchAuto \in [Threads -> BOOLEAN] /\ tranStarted \in [Threads -> BOOLEAN]
  BY DEF Init
<1> QED
  BY <1>1, <1>2, <1>3, <1>4 DEF Init, TypeOK

\* Every step keeps the types.
LEMMA TypeNext ==
  ASSUME TypeOK, [Next]_vars
  PROVE  TypeOK'
<1>1. CASE UNCHANGED vars
  BY <1>1 DEF vars, connVars, engineVars, batchVars, TypeOK, Labels, Callers, Statements, TransactionsAssumption
<1>2. ASSUME NEW t \in Threads, Start(t) \/ DriverStep(t) \/ EngineStep(t)
      PROVE  TypeOK'
  <2> USE DEF Goto, connVars, engineVars, batchVars, TypeOK, Labels, Callers,
              Statements, TransactionsAssumption
  <2>1. ASSUME NEW q \in Statements \cup {"prepare"}, StartExecute(t, q)
        PROVE  TypeOK'
    BY <2>1 DEF StartExecute, Starts, Executes
  <2>2. CASE StartCommit(t)
    BY <2>2 DEF StartCommit, Starts, Executes
  <2>3. CASE StartRollback(t)
    BY <2>3 DEF StartRollback, Starts, Executes
  <2>4. CASE StartSetAutoCommit(t)
    BY <2>4 DEF StartSetAutoCommit, Starts
  <2>5. ASSUME NEW n \in 1 .. MaxBatch, StartBatch(t, n)
        PROVE  TypeOK'
    BY <2>5, TransactionsAssumption DEF StartBatch, Starts
  <2>6. CASE Switched(t)
    BY <2>6 DEF Switched, Executes
  <2>7. CASE Check(t)
    BY <2>7 DEF Check
  <2>8. CASE Mark(t)
    BY <2>8 DEF Mark
  <2>9. CASE Clear(t)
    BY <2>9 DEF Clear
  <2>10. CASE BatchStart(t)
    BY <2>10 DEF BatchStart
  <2>11. CASE BatchStarted(t)
    BY <2>11 DEF BatchStarted
  <2>12. CASE BatchNext(t)
    BY <2>12, SMTT(30) DEF BatchNext, Executes
  <2>13. CASE BatchCatch(t)
    BY <2>13 DEF BatchCatch, Executes
  <2>14. CASE BeginReturns(t)
    <3>1. begins[t] \in Nat /\ begins[t] > 0
      BY <2>14 DEF BeginReturns
    <3>2. /\ begins' \in [Threads -> Nat]
          /\ \A u \in Threads : begins'[u] = IF u = t THEN begins[t] - 1 ELSE begins[u]
      BY <2>14, <3>1 DEF BeginReturns
    <3>3. /\ pc' \in [Threads -> Labels]
          /\ \A u \in Threads \ {t} : pc'[u] = pc[u]
          /\ pc'[t] = "begin" => begins'[t] > 0
          /\ pc'[t] # "begin" => begins'[t] = 0
      <4>1. CASE begins'[t] > 0
        BY <2>14, <4>1 DEF BeginReturns
      <4>2. CASE begins'[t] = 0
        BY <2>14, <4>2 DEF BeginReturns, OnReturn
      <4> QED
        BY <3>1, <3>2, <4>1, <4>2
    <3> QED
      BY <2>14, <3>2, <3>3 DEF BeginReturns
  <2>15. CASE BeginThrows(t)
    BY <2>15 DEF BeginThrows, OnThrow
  <2>16. CASE WriteReturns(t)
    BY <2>16, TransactionsAssumption DEF WriteReturns, NewWrite, OnReturn
  <2>17. CASE WriteThrows(t)
    BY <2>17, TransactionsAssumption DEF WriteThrows, NewWrite, OnThrow
  <2>18. CASE Prepares(t)
    BY <2>18 DEF Prepares
  <2>19. CASE SqlBegin(t)
    BY <2>19 DEF SqlBegin
  <2>20. CASE CommitReturns(t)
    BY <2>20 DEF CommitReturns, OnReturn
  <2>21. CASE CommitThrows(t)
    BY <2>21 DEF CommitThrows, OnThrow
  <2>22. CASE RollsBack(t)
    BY <2>22 DEF RollsBack, OnReturn, OnThrow
  <2> QED
    BY <1>2, <2>1, <2>2, <2>3, <2>4, <2>5, <2>6, <2>7, <2>8, <2>9, <2>10, <2>11, <2>12, <2>13, <2>14, <2>15, <2>16, <2>17, <2>18, <2>19, <2>20, <2>21, <2>22 DEF Start, DriverStep, EngineStep
<1> QED
  BY <1>1, <1>2 DEF Next, Quiescent

\* The driver's and the engine's variables always have their types; in
\* particular no nested BEGIN is outstanding when execute() runs its statement.
THEOREM TypeCorrectness == Spec => []TypeOK
<1>1. TypeOK /\ [Next]_vars => TypeOK'
  BY TypeNext
<1> QED
  BY TypeInit, <1>1, PTL DEF Spec

-----------------------------------------------------------------------------

\* In disciplined use the flag stays in step with the engine.
LEMMA ControlNext ==
  ASSUME TypeOK, TypeOK', Disciplined, ControlInv, [Next]_vars
  PROVE  ControlInv'
<1>1. CASE UNCHANGED vars
  BY <1>1 DEF vars, connVars, engineVars, batchVars, ControlInv, ControlOf, Open
<1>2. ASSUME NEW t \in Threads, Start(t) \/ DriverStep(t) \/ EngineStep(t)
      PROVE  ControlInv'
  <2>a. ControlOf(t) /\ \A u \in Threads : u = t
    BY DEF ControlInv, Disciplined
  <2>b. SUFFICES ControlOf(t)'
    BY <2>a DEF ControlInv
  <2> USE DEF Goto, connVars, engineVars, batchVars, ControlOf, Open, TypeOK
  <2>1. ASSUME NEW q \in Statements \cup {"prepare"}, StartExecute(t, q)
        PROVE  ControlOf(t)'
    <3>1. q \notin {"BEGIN", "COMMIT", "ROLLBACK"}
      BY <2>1, <2>a DEF StartExecute, Starts, Disciplined
    <3> QED
      BY <2>1, <3>1, <2>a DEF StartExecute, Executes, Starts
  <2>2. CASE StartCommit(t)
    BY <2>2, <2>a DEF StartCommit, Starts, Executes
  <2>3. CASE StartRollback(t)
    BY <2>3, <2>a DEF StartRollback, Starts, Executes
  <2>4. CASE StartSetAutoCommit(t)
    BY <2>4, <2>a DEF StartSetAutoCommit, Starts
  <2>5. ASSUME NEW n \in 1 .. MaxBatch, StartBatch(t, n)
        PROVE  ControlOf(t)'
    BY <2>5, <2>a DEF StartBatch, Starts
  <2>6. CASE Switched(t)
    BY <2>6, <2>a DEF Switched, Executes
  <2>7. CASE Check(t)
    BY <2>7, <2>a DEF Check
  <2>8. CASE Mark(t)
    BY <2>8, <2>a DEF Mark
  <2>9. CASE Clear(t)
    BY <2>9, <2>a DEF Clear
  <2>10. CASE BatchStart(t)
    BY <2>10, <2>a DEF BatchStart
  <2>11. CASE BatchStarted(t)
    BY <2>11, <2>a DEF BatchStarted
  <2>12. CASE BatchNext(t)
    BY <2>12, <2>a DEF BatchNext, Executes
  <2>13. CASE BatchCatch(t)
    BY <2>13, <2>a DEF BatchCatch, Executes
  <2>14. CASE BeginReturns(t)
    BY <2>14, <2>a DEF BeginReturns, OnReturn, Callers
  <2>15. CASE BeginThrows(t)
    BY <2>15, <2>a DEF BeginThrows, OnThrow, Callers, Disciplined
  <2>16. CASE WriteReturns(t)
    BY <2>16, <2>a DEF WriteReturns, NewWrite, OnReturn, Callers
  <2>17. CASE WriteThrows(t)
    BY <2>17, <2>a DEF WriteThrows, NewWrite, OnThrow, Callers
  <2>18. CASE Prepares(t)
    BY <2>18, <2>a DEF Prepares
  <2>19. CASE SqlBegin(t)
    BY <2>19, <2>a DEF SqlBegin
  <2>20. CASE CommitReturns(t)
    BY <2>20, <2>a DEF CommitReturns, OnReturn, Callers
  <2>21. CASE CommitThrows(t)
    BY <2>21, <2>a DEF CommitThrows, OnThrow, Callers, Disciplined
  <2>22. CASE RollsBack(t)
    BY <2>22, <2>a DEF RollsBack, OnReturn, OnThrow, Callers
  <2> QED
    BY <1>2, <2>1, <2>2, <2>3, <2>4, <2>5, <2>6, <2>7, <2>8, <2>9, <2>10, <2>11, <2>12, <2>13, <2>14, <2>15, <2>16, <2>17, <2>18, <2>19, <2>20, <2>21, <2>22 DEF Start, DriverStep, EngineStep
<1> QED
  BY <1>1, <1>2 DEF Next, Quiescent


\* Nothing is uncommitted outside a transaction.
LEMMA UncommittedNext ==
  ASSUME TypeOK, Disciplined, ControlInv, TransactionInv, [Next]_vars
  PROVE  (uncommitted # {} => Open)'
<1>1. CASE UNCHANGED vars
  BY <1>1 DEF vars, engineVars, Open, TransactionInv
<1>2. ASSUME NEW t \in Threads, Start(t) \/ DriverStep(t) \/ EngineStep(t)
      PROVE  (uncommitted # {} => Open)'
  <2>a. uncommitted # {} => Open
    BY DEF TransactionInv
  <2> USE DEF Goto, connVars, engineVars, batchVars, Open, TypeOK
  <2>1. ASSUME NEW q \in Statements \cup {"prepare"}, StartExecute(t, q)
        PROVE  (uncommitted # {} => Open)'
    BY <2>1, <2>a DEF StartExecute, Starts, Executes
  <2>2. CASE StartCommit(t)
    BY <2>2, <2>a DEF StartCommit, Starts, Executes
  <2>3. CASE StartRollback(t)
    BY <2>3, <2>a DEF StartRollback, Starts, Executes
  <2>4. CASE StartSetAutoCommit(t)
    BY <2>4, <2>a DEF StartSetAutoCommit, Starts
  <2>5. ASSUME NEW n \in 1 .. MaxBatch, StartBatch(t, n)
        PROVE  (uncommitted # {} => Open)'
    BY <2>5, <2>a DEF StartBatch, Starts
  <2>6. CASE Switched(t)
    BY <2>6, <2>a DEF Switched, Executes
  <2>7. CASE Check(t)
    BY <2>7, <2>a DEF Check
  <2>8. CASE Mark(t)
    BY <2>8, <2>a DEF Mark
  <2>9. CASE Clear(t)
    BY <2>9, <2>a DEF Clear
  <2>10. CASE BatchStart(t)
    BY <2>10, <2>a DEF BatchStart
  <2>11. CASE BatchStarted(t)
    BY <2>11, <2>a DEF BatchStarted
  <2>12. CASE BatchNext(t)
    BY <2>12, <2>a DEF BatchNext, Executes
  <2>13. CASE BatchCatch(t)
    BY <2>13, <2>a DEF BatchCatch, Executes
  <2>14. CASE BeginReturns(t)
    BY <2>14, <2>a DEF BeginReturns, OnReturn, Callers
  <2>15. CASE BeginThrows(t)
    BY <2>15, <2>a DEF BeginThrows, OnThrow, Callers, Disciplined
  <2>16. CASE WriteReturns(t)
    BY <2>16, <2>a DEF WriteReturns, NewWrite, OnReturn, Callers
  <2>17. CASE WriteThrows(t)
    BY <2>17, <2>a DEF WriteThrows, NewWrite, OnThrow, Callers
  <2>18. CASE Prepares(t)
    BY <2>18, <2>a DEF Prepares
  <2>19. CASE SqlBegin(t)
    BY <2>19, <2>a DEF SqlBegin
  <2>20. CASE CommitReturns(t)
    BY <2>20, <2>a DEF CommitReturns, OnReturn, Callers
  <2>21. CASE CommitThrows(t)
    BY <2>21, <2>a DEF CommitThrows, OnThrow, Callers, Disciplined
  <2>22. CASE RollsBack(t)
    BY <2>22, <2>a DEF RollsBack, OnReturn, OnThrow, Callers
  <2> QED
    BY <1>2, <2>1, <2>2, <2>3, <2>4, <2>5, <2>6, <2>7, <2>8, <2>9, <2>10, <2>11, <2>12, <2>13, <2>14, <2>15, <2>16, <2>17, <2>18, <2>19, <2>20, <2>21, <2>22 DEF Start, DriverStep, EngineStep
<1> QED
  BY <1>1, <1>2 DEF Next, Quiescent

\* In auto-commit mode a transaction is open only where it is about to end.
LEMMA TransactionNext ==
  ASSUME TypeOK, TypeOK', Disciplined, ControlInv, TransactionInv, [Next]_vars
  PROVE  \A u \in Threads : TransactionOf(u)'
<1>1. CASE UNCHANGED vars
  BY <1>1 DEF vars, connVars, engineVars, batchVars, TransactionInv, TransactionOf, Open
<1>2. ASSUME NEW t \in Threads, Start(t) \/ DriverStep(t) \/ EngineStep(t)
      PROVE  \A u \in Threads : TransactionOf(u)'
  <2>a. TransactionOf(t) /\ ControlOf(t) /\ \A u \in Threads : u = t
    BY DEF TransactionInv, ControlInv, Disciplined
  <2>b. SUFFICES TransactionOf(t)'
    BY <2>a
  <2> USE DEF Goto, connVars, engineVars, batchVars, TransactionOf,
              ControlOf, Open, TypeOK
  <2>1. ASSUME NEW q \in Statements \cup {"prepare"}, StartExecute(t, q)
        PROVE  TransactionOf(t)'
    <3>1. q \notin {"BEGIN", "COMMIT", "ROLLBACK"}
      BY <2>1, <2>a DEF StartExecute, Starts, Disciplined
    <3> QED
      BY <2>1, <3>1, <2>a DEF StartExecute, Executes, Starts
  <2>2. CASE StartCommit(t)
    BY <2>2, <2>a DEF StartCommit, Starts, Executes
  <2>3. CASE StartRollback(t)
    BY <2>3, <2>a DEF StartRollback, Starts, Executes
  <2>4. CASE StartSetAutoCommit(t)
    BY <2>4, <2>a DEF StartSetAutoCommit, Starts
  <2>5. ASSUME NEW n \in 1 .. MaxBatch, StartBatch(t, n)
        PROVE  TransactionOf(t)'
    BY <2>5, <2>a DEF StartBatch, Starts
  <2>6. CASE Switched(t)
    BY <2>6, <2>a DEF Switched, Executes
  <2>7. CASE Check(t)
    BY <2>7, <2>a DEF Check
  <2>8. CASE Mark(t)
    BY <2>8, <2>a DEF Mark
  <2>9. CASE Clear(t)
    BY <2>9, <2>a DEF Clear
  <2>10. CASE BatchStart(t)
    BY <2>10, <2>a DEF BatchStart
  <2>11. CASE BatchStarted(t)
    BY <2>11, <2>a DEF BatchStarted
  <2>12. CASE BatchNext(t)
    BY <2>12, <2>a DEF BatchNext, Executes
  <2>13. CASE BatchCatch(t)
    BY <2>13, <2>a DEF BatchCatch, Executes
  <2>14. CASE BeginReturns(t)
    BY <2>14, <2>a DEF BeginReturns, OnReturn, Callers
  <2>15. CASE BeginThrows(t)
    BY <2>15, <2>a DEF BeginThrows, OnThrow, Callers, Disciplined
  <2>16. CASE WriteReturns(t)
    BY <2>16, <2>a DEF WriteReturns, NewWrite, OnReturn, Callers
  <2>17. CASE WriteThrows(t)
    BY <2>17, <2>a DEF WriteThrows, NewWrite, OnThrow, Callers
  <2>18. CASE Prepares(t)
    BY <2>18, <2>a DEF Prepares
  <2>19. CASE SqlBegin(t)
    BY <2>19, <2>a DEF SqlBegin
  <2>20. CASE CommitReturns(t)
    BY <2>20, <2>a DEF CommitReturns, OnReturn, Callers
  <2>21. CASE CommitThrows(t)
    BY <2>21, <2>a DEF CommitThrows, OnThrow, Callers, Disciplined
  <2>22. CASE RollsBack(t)
    BY <2>22, <2>a DEF RollsBack, OnReturn, OnThrow, Callers
  <2> QED
    BY <1>2, <2>1, <2>2, <2>3, <2>4, <2>5, <2>6, <2>7, <2>8, <2>9, <2>10, <2>11, <2>12, <2>13, <2>14, <2>15, <2>16, <2>17, <2>18, <2>19, <2>20, <2>21, <2>22 DEF Start, DriverStep, EngineStep
<1> QED
  BY <1>1, <1>2 DEF Next, Quiescent


\* A batch stays atomic.
LEMMA BatchStaysAtomic ==
  ASSUME TypeOK, TypeOK', Disciplined, ControlInv, ControlInv', TransactionInv, BatchInv,
         [Next]_vars
  PROVE  BatchInv'
<1>1. CASE UNCHANGED vars
  BY <1>1 DEF vars, connVars, engineVars, batchVars, BatchInv, BatchOf, InBatch, InItems, Open
<1>2. ASSUME NEW t \in Threads, Start(t) \/ DriverStep(t) \/ EngineStep(t)
      PROVE  BatchInv'
  <2>a. BatchOf(t) /\ ControlOf(t) /\ ControlOf(t)' /\ TransactionOf(t) /\ \A u \in Threads : u = t
    BY DEF BatchInv, TransactionInv, ControlInv, Disciplined
  <2>u. uncommitted # {} => Open
    BY DEF TransactionInv
  <2>b. SUFFICES BatchOf(t)'
    BY <2>a DEF BatchInv
  <2> USE DEF Goto, connVars, engineVars, batchVars, BatchOf, InBatch,
              InItems, ControlOf, TransactionOf, Open, TypeOK
  <2>1. ASSUME NEW q \in Statements \cup {"prepare"}, StartExecute(t, q)
        PROVE  BatchOf(t)'
    <3>1. q \notin {"BEGIN", "COMMIT", "ROLLBACK"}
      BY <2>1, <2>a, <2>u DEF StartExecute, Starts, Disciplined
    <3> QED
      BY <2>1, <3>1, <2>a, <2>u DEF StartExecute, Executes, Starts
  <2>2. CASE StartCommit(t)
    BY <2>2, <2>a, <2>u DEF StartCommit, Starts, Executes
  <2>3. CASE StartRollback(t)
    BY <2>3, <2>a, <2>u DEF StartRollback, Starts, Executes
  <2>4. CASE StartSetAutoCommit(t)
    BY <2>4, <2>a, <2>u DEF StartSetAutoCommit, Starts
  <2>5. ASSUME NEW n \in 1 .. MaxBatch, StartBatch(t, n)
        PROVE  BatchOf(t)'
    BY <2>5, <2>a, <2>u DEF StartBatch, Starts
  <2>6. CASE Switched(t)
    BY <2>6, <2>a, <2>u DEF Switched, Executes
  <2>7. CASE Check(t)
    BY <2>7, <2>a, <2>u DEF Check
  <2>8. CASE Mark(t)
    BY <2>8, <2>a, <2>u DEF Mark
  <2>9. CASE Clear(t)
    BY <2>9, <2>a, <2>u DEF Clear
  <2>10. CASE BatchStart(t)
    BY <2>10, <2>a, <2>u DEF BatchStart
  <2>11. CASE BatchStarted(t)
    BY <2>11, <2>a, <2>u DEF BatchStarted
  <2>12. CASE BatchNext(t)
    BY <2>12, <2>a, <2>u DEF BatchNext, Executes
  <2>13. CASE BatchCatch(t)
    BY <2>13, <2>a, <2>u DEF BatchCatch, Executes
  <2>14. CASE BeginReturns(t)
    BY <2>14, <2>a, <2>u DEF BeginReturns, OnReturn, Callers
  <2>15. CASE BeginThrows(t)
    BY <2>15, <2>a, <2>u DEF BeginThrows, OnThrow, Callers, Disciplined
  <2>16. CASE WriteReturns(t)
    BY <2>16, <2>a, <2>u DEF WriteReturns, NewWrite, OnReturn, Callers
  <2>17. CASE WriteThrows(t)
    BY <2>17, <2>a, <2>u DEF WriteThrows, NewWrite, OnThrow, Callers
  <2>18. CASE Prepares(t)
    BY <2>18, <2>a, <2>u DEF Prepares
  <2>19. CASE SqlBegin(t)
    BY <2>19, <2>a, <2>u DEF SqlBegin
  <2>20. CASE CommitReturns(t)
    BY <2>20, <2>a, <2>u DEF CommitReturns, OnReturn, Callers
  <2>21. CASE CommitThrows(t)
    BY <2>21, <2>a, <2>u DEF CommitThrows, OnThrow, Callers, Disciplined
  <2>22. CASE RollsBack(t)
    BY <2>22, <2>a, <2>u DEF RollsBack, OnReturn, OnThrow, Callers
  <2> QED
    BY <1>2, <2>1, <2>2, <2>3, <2>4, <2>5, <2>6, <2>7, <2>8, <2>9, <2>10, <2>11, <2>12, <2>13, <2>14, <2>15, <2>16, <2>17, <2>18, <2>19, <2>20, <2>21, <2>22 DEF Start, DriverStep, EngineStep
<1> QED
  BY <1>1, <1>2 DEF Next, Quiescent

-----------------------------------------------------------------------------
\* The four parts together are inductive in disciplined use.
LEMMA TxInit ==
  ASSUME Disciplined, Init
  PROVE  TxInv
<1>1. TypeOK
  BY TypeInit
<1>2. ControlInv /\ TransactionInv /\ BatchInv
  BY DEF Init, ControlInv, ControlOf, TransactionInv, TransactionOf, BatchInv, BatchOf, Open
<1> QED
  BY <1>1, <1>2 DEF TxInv

\* Every step of a disciplined application preserves them.
LEMMA TxNext ==
  ASSUME Disciplined, TxInv, [Next]_vars
  PROVE  TxInv'
<1>1. TypeOK'
  BY TypeNext DEF TxInv
<1>2. ControlInv'
  BY <1>1, ControlNext DEF TxInv
<1>3. TransactionInv'
  BY <1>1, UncommittedNext, TransactionNext DEF TxInv, TransactionInv
<1>4. BatchInv'
  BY <1>1, <1>2, BatchStaysAtomic DEF TxInv
<1> QED
  BY <1>1, <1>2, <1>3, <1>4 DEF TxInv

\* They hold in every state of a disciplined application.
LEMMA TxInvariance ==
  ASSUME Disciplined
  PROVE  Spec => []TxInv
<1>1. Init => TxInv
  BY TxInit
<1>2. TxInv /\ [Next]_vars => TxInv'
  BY TxNext
<1> QED
  BY <1>1, <1>2, PTL DEF Spec

\* Between the calls of a disciplined application transactionRunning says
\* whether the engine has a transaction open, whatever statement, batch, commit
\* or mode switch failed before.
THEOREM FlagNeverDrifts ==
  ASSUME Disciplined
  PROVE  Spec => []FlagAgrees
<1>1. TxInv => FlagAgrees
  <2> SUFFICES ASSUME TxInv, Idle
               PROVE  transactionRunning <=> engineTx # "none"
    BY DEF FlagAgrees
  <2>1. PICK t \in Threads : TRUE
    BY TransactionsAssumption DEF TransactionsAssumption
  <2> QED
    BY <2>1 DEF TxInv, ControlInv, ControlOf, Idle, Open
<1> QED
  BY <1>1, TxInvariance, PTL

\* In auto-commit mode no write is left uncommitted between calls.
THEOREM AutoCommitLeavesNothing ==
  ASSUME Disciplined
  PROVE  Spec => []NothingLingers
<1>1. TxInv => NothingLingers
  <2> SUFFICES ASSUME TxInv, Idle, autoCommit
               PROVE  uncommitted = {}
    BY DEF NothingLingers
  <2>1. PICK t \in Threads : TRUE
    BY TransactionsAssumption DEF TransactionsAssumption
  <2>2. pc[t] = "idle"
    BY DEF Idle
  <2>3. ~Open
    BY <2>2 DEF TxInv, TransactionInv, TransactionOf
  <2> QED
    BY <2>3 DEF TxInv, TransactionInv
<1> QED
  BY <1>1, TxInvariance, PTL

\* executeBatch() called in auto-commit mode is all or nothing.
THEOREM BatchesAreAtomic ==
  ASSUME Disciplined
  PROVE  Spec => []BatchAtomic
<1>1. TxInv => BatchAtomic
  BY DEF TxInv, BatchInv, BatchOf, BatchAtomic
<1> QED
  BY <1>1, TxInvariance, PTL

-----------------------------------------------------------------------------
(* The flag is lowered only when the engine has no transaction: COMMIT and *)
(* ROLLBACK end it before they return to commit(), rollback() and a batch. *)

EndOf(t) ==
  /\ pc[t] \in {"check", "mark", "begin", "run"} /\ caller[t] \in {"end", "batchCommit"}
       => sql[t] \in {"COMMIT", "ROLLBACK"}
  /\ pc[t] = "clear" => engineTx = "none"

EndInv == TypeOK /\ \A t \in Threads : EndOf(t)

LEMMA EndNext ==
  ASSUME \A t, u \in Threads : t = u, EndInv, [Next]_vars
  PROVE  EndInv'
<1>1. TypeOK'  BY TypeNext DEF EndInv
<1>2. CASE UNCHANGED vars
  BY <1>1, <1>2 DEF vars, engineVars, EndInv, EndOf
<1>3. ASSUME NEW t \in Threads, Start(t) \/ DriverStep(t) \/ EngineStep(t)
      PROVE  EndOf(t)'
  <2>0. /\ pc \in [Threads -> Labels] /\ sql \in [Threads -> Statements \cup {"none", "prepare"}]
        /\ caller \in [Threads -> Callers] /\ EndOf(t) /\ caller[t] \in Callers
    BY DEF EndInv, TypeOK
  <2> USE <2>0 DEF EndOf, Goto, Executes, connVars, engineVars, batchVars
  <2>1. CASE Start(t)
    BY <2>1 DEF Start, StartExecute, StartCommit, StartRollback, StartSetAutoCommit,
                StartBatch, Starts
  <2>2. CASE Switched(t) \/ Clear(t) \/ BatchStart(t) \/ BatchStarted(t)
    BY <2>2 DEF Switched, Clear, BatchStart, BatchStarted
  <2>a. begins[t] \in Nat /\ (pc[t] = "begin" => begins[t] > 0)
    BY DEF EndInv, TypeOK
  <2>b. CASE Mark(t)  BY <2>b DEF Mark
  <2>3. CASE Check(t)
    <3>1. pc'[t] \in {"mark", "begin", "run"}
      <4>1. CASE ~autoCommit /\ ~transactionRunning  BY <2>3, <4>1 DEF Check
      <4>2. CASE (autoCommit \/ transactionRunning) /\ begins[t] > 0
        BY <2>3, <4>2 DEF Check
      <4>3. CASE (autoCommit \/ transactionRunning) /\ begins[t] = 0
        BY <2>3, <4>3 DEF Check
      <4> QED BY <2>a, <4>1, <4>2, <4>3
    <3> QED BY <2>3, <3>1 DEF Check
  <2>4. CASE BatchNext(t) \/ BatchCatch(t)  BY <2>4 DEF BatchNext, BatchCatch
  <2>5. CASE BeginReturns(t)
    <3>1. begins'[t] \in Nat
      <4>1. begins[t] \in Nat \ {0}  BY <2>5, <2>a DEF BeginReturns
      <4>2. begins'[t] = begins[t] - 1
        BY <2>5 DEF BeginReturns, EndInv, TypeOK
      <4> QED BY <4>1, <4>2
    <3>2. pc'[t] \in {"begin", "batchStarted", "run"}
      <4>1. CASE begins'[t] > 0  BY <2>5, <4>1 DEF BeginReturns
      <4>2. CASE begins'[t] = 0 /\ caller[t] = "batchBegin"
        BY <2>5, <4>2 DEF BeginReturns, OnReturn
      <4>3. CASE begins'[t] = 0 /\ caller[t] # "batchBegin"
        BY <2>5, <4>3 DEF BeginReturns
      <4> QED BY <3>1, <4>1, <4>2, <4>3
    <3> QED BY <2>5, <3>2 DEF BeginReturns
  <2>6. CASE BeginThrows(t) \/ CommitThrows(t)
    BY <2>6 DEF BeginThrows, CommitThrows, OnThrow
  <2>7. CASE WriteReturns(t) \/ WriteThrows(t) \/ Prepares(t) \/ SqlBegin(t)
    BY <2>7 DEF WriteReturns, WriteThrows, Prepares, SqlBegin, OnReturn, OnThrow, Callers
  <2>8. CASE CommitReturns(t) \/ RollsBack(t)
    BY <2>8 DEF CommitReturns, RollsBack, OnReturn, OnThrow, Callers
  <2> QED BY <1>3, <2>1, <2>2, <2>b, <2>3, <2>4, <2>5, <2>6, <2>7, <2>8
      DEF DriverStep, EngineStep
<1>4. ASSUME NEW t \in Threads, EndOf(t)' PROVE EndInv'
  <2>1. \A u \in Threads : u = t  OBVIOUS
  <2> QED BY <1>1, <1>4, <2>1 DEF EndInv
<1> QED BY <1>2, <1>3, <1>4 DEF Next, Quiescent

\* Whatever one thread calls, SQL transaction statements included, and whatever
\* fails: when commit() or rollback() lowers the flag, the transaction is over.
THEOREM FlagIsLoweredAfterTheEnd ==
  ASSUME \A t, u \in Threads : t = u
  PROVE  Spec => []EndedMeansEnded
<1>1. Init => EndInv
  <2> SUFFICES ASSUME Init PROVE EndInv  OBVIOUS
  <2>1. \A t \in Threads : EndOf(t)  BY DEF Init, EndOf
  <2> QED BY <2>1, TypeInit DEF EndInv
<1>2. EndInv /\ [Next]_vars => EndInv'  BY EndNext
<1>3. EndInv => EndedMeansEnded  BY DEF EndInv, EndOf, EndedMeansEnded
<1> QED BY <1>1, <1>2, <1>3, PTL DEF Spec

-----------------------------------------------------------------------------
\* Every step of the driver is a step of JdbcTransactions or leaves its
\* variables alone.
LEMMA StepRefines ==
  ASSUME Disciplined, TxInv, [Next]_vars
  PROVE  [Jdbc!Next]_(Jdbc!vars)
<1> DEFINE Goal == [Jdbc!Next]_(Jdbc!vars)
<1>a. TypeOK /\ (uncommitted # {} => Open)
  BY DEF TxInv, TransactionInv
<1>1. UNCHANGED << autoCommit, uncommitted, committed >> => Goal
  BY DEF Jdbc!vars
<1>2. CASE UNCHANGED vars
  BY <1>1, <1>2 DEF vars, connVars, engineVars
<1>3. ASSUME NEW t \in Threads, Start(t) \/ DriverStep(t) \/ EngineStep(t)
      PROVE  Goal
  <2>1. CASE StartSetAutoCommit(t)
    <3>1. Jdbc!SetAutoCommit(~autoCommit)
      BY <2>1 DEF StartSetAutoCommit, engineVars, Jdbc!SetAutoCommit
    <3> QED
      BY <3>1, <1>a DEF Jdbc!Next, TypeOK
  <2>2. CASE WriteReturns(t)
    <3>1. /\ issued' \in 1 .. MaxWrites
          /\ issued' \notin committed \cup uncommitted
      BY <2>2, <1>a, TransactionsAssumption DEF WriteReturns, NewWrite, TypeOK, TransactionsAssumption
    <3>2. CASE engineTx = "none"
      <4>1. autoCommit /\ uncommitted = {}
        BY <2>2, <3>2, <1>a DEF WriteReturns, TxInv, ControlInv, ControlOf, Open
      <4>2. Jdbc!WriteThrough(issued')
        BY <2>2, <3>1, <3>2, <4>1 DEF WriteReturns, connVars, Jdbc!WriteThrough
      <4> QED
        BY <3>1, <4>2 DEF Jdbc!Next
    <3>3. CASE engineTx = "active"
      <4>1. Jdbc!WriteInTransaction(issued')
        BY <2>2, <3>1, <3>3 DEF WriteReturns, connVars, Jdbc!WriteInTransaction
      <4> QED
        BY <3>1, <4>1 DEF Jdbc!Next
    <3> QED
      BY <2>2, <3>2, <3>3 DEF WriteReturns
  <2>3. CASE CommitReturns(t)
    <3>1. Jdbc!Commit \/ Jdbc!Discard
      BY <2>3 DEF CommitReturns, connVars, Jdbc!Commit, Jdbc!Discard
    <3> QED
      BY <3>1 DEF Jdbc!Next
  <2>4. CASE CommitThrows(t) \/ RollsBack(t)
    <3>1. Jdbc!Discard
      BY <2>4 DEF CommitThrows, RollsBack, connVars, Jdbc!Discard
    <3> QED
      BY <3>1 DEF Jdbc!Next
  <2>5. ASSUME NEW q \in Statements \cup {"prepare"}, StartExecute(t, q)
        PROVE  Goal
    BY <2>5, <1>1 DEF StartExecute, connVars, engineVars
  <2>6. CASE StartCommit(t)
    BY <2>6, <1>1 DEF StartCommit, connVars, engineVars
  <2>7. CASE StartRollback(t)
    BY <2>7, <1>1 DEF StartRollback, connVars, engineVars
  <2>8. ASSUME NEW n \in 1 .. MaxBatch, StartBatch(t, n)
        PROVE  Goal
    BY <2>8, <1>1 DEF StartBatch, connVars, engineVars
  <2>9. CASE Switched(t)
    BY <2>9, <1>1 DEF Switched, connVars, engineVars
  <2>10. CASE Check(t)
    BY <2>10, <1>1 DEF Check, connVars, engineVars
  <2>11. CASE Mark(t)
    BY <2>11, <1>1 DEF Mark, connVars, engineVars
  <2>12. CASE Clear(t)
    BY <2>12, <1>1 DEF Clear, connVars, engineVars
  <2>13. CASE BatchStart(t)
    BY <2>13, <1>1 DEF BatchStart, connVars, engineVars
  <2>14. CASE BatchStarted(t)
    BY <2>14, <1>1 DEF BatchStarted, connVars, engineVars
  <2>15. CASE BatchNext(t)
    BY <2>15, <1>1 DEF BatchNext, connVars, engineVars
  <2>16. CASE BatchCatch(t)
    BY <2>16, <1>1 DEF BatchCatch, connVars, engineVars
  <2>17. CASE BeginReturns(t)
    BY <2>17, <1>1 DEF BeginReturns, connVars, engineVars
  <2>18. CASE BeginThrows(t)
    BY <2>18, <1>1 DEF BeginThrows, connVars, engineVars
  <2>19. CASE WriteThrows(t)
    BY <2>19, <1>1 DEF WriteThrows, connVars, engineVars
  <2>20. CASE Prepares(t)
    BY <2>20, <1>1 DEF Prepares, connVars, engineVars
  <2>21. CASE SqlBegin(t)
    BY <2>21, <1>1 DEF SqlBegin, connVars, engineVars
  <2> QED
    BY <1>3, <2>1, <2>2, <2>3, <2>4, <2>5, <2>6, <2>7, <2>8, <2>9, <2>10, <2>11, <2>12, <2>13, <2>14, <2>15, <2>16, <2>17, <2>18, <2>19, <2>20, <2>21 DEF Start, DriverStep, EngineStep
<1> QED
  BY <1>2, <1>3 DEF Next, Quiescent

\* In disciplined use the driver implements JdbcTransactions.
THEOREM DriverImplementsJdbc ==
  ASSUME Disciplined
  PROVE  Spec => KeepsJdbcPromise
<1>1. Init => Jdbc!Init
  BY DEF Init, Jdbc!Init
<1>2. TxInv /\ [Next]_vars => [Jdbc!Next]_(Jdbc!vars)
  BY StepRefines
<1> QED
  BY <1>1, <1>2, TxInvariance, PTL DEF Spec, KeepsJdbcPromise, Jdbc!Spec
=============================================================================
