-------------------------- MODULE BatchedStreamProofs --------------------------
(***************************************************************************)
(* Proofs about BatchedStream, for any number of tasks, batches and chunks:*)
(* the minimum batch index never overtakes a task, so nothing lies in the  *)
(* buffer at or below it, and what it passes is complete.  The argument    *)
(* follows the indexes: what a task knows as the minimum is at most every  *)
(* task's registered index, that is at most the batch the task is in, and  *)
(* the source never hands out a batch at or below it again.  From there    *)
(* each row has one place, delivered, queued, in the buffer or in the      *)
(* source, and the stream implements the promised one, OrderedStream.      *)
(***************************************************************************)
EXTENDS BatchedStream, FiniteSetTheorems, SequenceTheorems, WellFoundedInduction, TLAPS

\* A task that a thread runs; one that was registered; one that has a new batch
\* but is still registered with the old one; one whose sink knows its batch.
Running == {"start", "top", "again", "next", "oldmin", "register", "sink", "check", "block",
            "append", "deschedule", "combine"}
Registered == (Running \ {"start"}) \union {"descheduled", "held", "finished"}
Between == {"next", "oldmin", "register"}
Settled == {"oldmin", "register", "check", "block", "append"}

ControlType ==
  /\ next \in 1 .. MaxBatchIndex /\ started \subseteq Tasks
  /\ index \in [Tasks -> 0 .. MaxBatchIndex] /\ batch \in [Tasks -> 0 .. MaxBatchIndex]
  /\ minIndex \in [Tasks -> 0 .. MaxBatchIndex] /\ current \in [Tasks -> 0 .. MaxBatchIndex]
  /\ pc \in [Tasks -> PC] /\ runner \in [Tasks -> {None, "worker", "reader"}]
  /\ min_batch \in 0 .. MaxBatchIndex /\ lowest_moved \in 0 .. NBatches
  /\ buffer = [b \in Batches |-> buffer[b]]

StartedInv ==
  \A t \in Tasks :
    /\ pc[t] \in Registered => t \in started
    /\ pc[t] = "start" => t \notin started

\* The task the reader holds is not run by anyone else.
HeldInv ==
  \A t \in Tasks :
    held = t => \/ pc[t] = "held"
                \/ rpc = "running" /\ runner[t] = "reader" /\ pc[t] \in Running

IndexInv ==
  \A t \in started :
    /\ pc[t] \in Between => index[t] < batch[t]
    /\ pc[t] \notin Between => index[t] = batch[t]
    /\ batch[t] < next \/ next = MaxBatchIndex

MinimumInv ==
  /\ \A t \in started : min_batch <= index[t]
  /\ \A t, u \in started : minIndex[t] <= index[u]
  /\ started = {} => min_batch = 0

CurrentInv == \A t \in started : pc[t] \in Settled => current[t] = batch[t]

BufferInv ==
  /\ lowest_moved <= min_batch
  /\ \A b \in Batches : buffer[b] # <<>> => b > min_batch

\* What is not marked complete is still being written.
CompletedInv ==
  \A b \in Batches :
    buffer[b] # <<>> /\ b \notin completed => \E u \in started : index[u] = b /\ current[u] = b

StreamInv ==
  /\ ControlType /\ StartedInv /\ HeldInv
  /\ IndexInv /\ MinimumInv /\ CurrentInv /\ BufferInv /\ CompletedInv

-----------------------------------------------------------------------------
(* Least and greatest batches *)

LEMMA LessThanWellFounded ==
  \E R : IsWellFoundedOn(R, Nat) /\ \A x, y \in Nat : <<x, y>> \in R <=> x < y
<1>1. \A x, y \in Nat : <<x, y>> \in OpToRel(<, Nat) <=> x < y  BY DEF OpToRel
<1> QED BY <1>1, NatLessThanWellFounded, Zenon

\* A set of batches that is not empty has a least element, and a greatest one.
LEMMA LeastExists ==
  ASSUME NEW S, S \subseteq Nat, S # {}
  PROVE  \E m \in S : \A x \in S : m <= x
<1>1. PICK R : IsWellFoundedOn(R, Nat) /\ \A x, y \in Nat : <<x, y>> \in R <=> x < y
  BY LessThanWellFounded, Zenon
<1>2. IsWellFoundedOn(R, Nat)  BY <1>1
<1>3. PICK m \in S : \A y \in S : ~ (<<y, m>> \in R)
  <2>1. \E x \in S : \A y \in S : ~ (<<y, x>> \in R)  BY <1>2, WFMin, Zenon
  <2> QED BY <2>1
<1>4. \A y \in S : ~(y < m)  BY <1>1, <1>3
<1> QED BY <1>4

LEMMA GreatestExists ==
  ASSUME NEW S, S \subseteq Batches, S # {}
  PROVE  \E m \in S : \A x \in S : m >= x
<1> DEFINE D == {NBatches - b : b \in S}
<1>1. D \subseteq Nat /\ D # {}  BY BatchesAssumption DEF Batches
<1>2. PICK d \in D : \A x \in D : d <= x  BY <1>1, LeastExists
<1>3. PICK m \in S : d = NBatches - m  OBVIOUS
<1>4. ASSUME NEW x \in S PROVE m >= x
  <2>1. d <= NBatches - x  BY <1>2, <1>4
  <2> QED BY <1>3, <2>1, BatchesAssumption DEF Batches
<1> QED BY <1>4

\* The least index of the tasks that have started (Pipeline::batch_indexes.begin()).
LEMMA LowestIndexLowest ==
  ASSUME NEW S, S \subseteq Tasks, S # {}, NEW idx, \A u \in S : idx[u] \in Nat
  PROVE  /\ \E u \in S : LowestIndex(S, idx) = idx[u]
         /\ \A u \in S : LowestIndex(S, idx) <= idx[u]
<1> DEFINE V == {idx[u] : u \in S}
<1>1. V \subseteq Nat /\ V # {}  OBVIOUS
<1>2. \E m \in V : \A x \in V : m <= x  BY <1>1, LeastExists
<1>3. \E m \in V : \A u \in S : m <= idx[u]
  <2>1. PICK m \in V : \A x \in V : m <= x  BY <1>2
  <2> QED BY <2>1
<1> QED BY <1>3 DEF LowestIndex

-----------------------------------------------------------------------------
(* The buffer under a new minimum *)

\* UpdateMinBatchIndex keeps the buffer above the minimum and marks nothing.
LEMMA UpdateMinEffect ==
  ASSUME ControlType, BufferInv, NEW m \in 0 .. MaxBatchIndex, UpdateMinBatchIndex(m)
  PROVE  /\ min_batch' \in {m, min_batch} /\ m <= min_batch' /\ min_batch <= min_batch'
         /\ min_batch' \in 0 .. MaxBatchIndex /\ lowest_moved' \in 0 .. NBatches
         /\ buffer' = [b \in Batches |-> buffer'[b]]
         /\ \A b \in Batches : buffer'[b] \in {<<>>, buffer[b]}
         /\ completed' = completed
         /\ BufferInv'
<1> USE BatchesAssumption DEF MaxBatchIndex
<1>1. CASE m <= min_batch
  BY <1>1 DEF UpdateMinBatchIndex, ControlType, BufferInv, bufferVars
<1>2. CASE ~(m <= min_batch)
  <2> DEFINE moved == {b \in Batches : b <= m /\ buffer[b] # <<>>}
  <2>1. /\ min_batch' = m
        /\ buffer' = [b \in Batches |-> IF b <= m THEN <<>> ELSE buffer[b]]
        /\ lowest_moved' = IF moved = {} THEN lowest_moved ELSE Max(moved)
        /\ completed' = completed
    BY <1>2 DEF UpdateMinBatchIndex
  <2>2. lowest_moved' \in 0 .. NBatches /\ lowest_moved' <= m
    <3>1. CASE moved = {}
      <4>1. lowest_moved' = lowest_moved  BY <2>1, <3>1
      <4> QED BY <1>2, <4>1 DEF ControlType, BufferInv
    <3>2. CASE moved # {}
      <4>1. \E x \in moved : \A y \in moved : x >= y  BY <3>2, GreatestExists
      <4>2. Max(moved) \in moved  BY <4>1 DEF Max
      <4> HIDE DEF moved
      <4>3. lowest_moved' \in moved  BY <2>1, <3>2, <4>2
      <4> QED BY <4>3 DEF moved, Batches
    <3> QED BY <3>1, <3>2
  <2>3. \A b \in Batches : buffer'[b] \in {<<>>, buffer[b]} /\ (buffer'[b] # <<>> => b > m)
    BY <2>1 DEF Batches
  <2>4. min_batch' = m  BY <2>1
  <2> HIDE DEF moved
  <2>5. BufferInv'  BY <2>2, <2>3, <2>4 DEF BufferInv
  <2> QED BY <1>2, <2>1, <2>2, <2>3, <2>4, <2>5 DEF ControlType
<1> QED BY <1>1, <1>2

-----------------------------------------------------------------------------
(* Steps that move no batch and no index *)

controlVars == <<next, started, index, batch, minIndex, min_batch, lowest_moved, buffer,
                 completed, current>>

LEMMA FrameStep ==
  ASSUME StreamInv, UNCHANGED controlVars, StartedInv', HeldInv',
         pc' \in [Tasks -> PC], runner' \in [Tasks -> {None, "worker", "reader"}],
         \A t \in started : pc'[t] \in Between <=> pc[t] \in Between,
         \A t \in started : pc'[t] \in Settled => pc[t] \in Settled
  PROVE  StreamInv'
<1> USE DEF StreamInv, controlVars
<1>1. ControlType'  BY DEF ControlType
<1>2. IndexInv'  BY DEF IndexInv
<1>3. MinimumInv'  BY DEF MinimumInv
<1>4. CurrentInv'  BY DEF CurrentInv
<1>5. BufferInv' /\ CompletedInv'  BY DEF BufferInv, CompletedInv
<1> QED BY <1>1, <1>2, <1>3, <1>4, <1>5

\* A task goes on to another place without the reader taking part.
LEMMA TaskFrameStep ==
  ASSUME StreamInv, UNCHANGED controlVars, NEW t \in Tasks, NEW l \in PC, Goto(t, l),
         \/ UNCHANGED runner
         \/ runner' = [runner EXCEPT ![t] = None]
         \/ runner' = [runner EXCEPT ![t] = "worker"] /\ pc[t] = "queued",
         l \in Registered => t \in started, l = "start" => t \notin started,
         t \in started => (l \in Between <=> pc[t] \in Between),
         t \in started /\ l \in Settled => pc[t] \in Settled,
         UNCHANGED rpc,
         \/ /\ held' = held
            /\ held = t => l = "held" \/ (UNCHANGED runner /\ {l, pc[t]} \subseteq Running)
         \/ (held = t /\ held' = None)
  PROVE  StreamInv'
<1> USE DEF StreamInv, ControlType, Goto
<1>1. pc' \in [Tasks -> PC] /\ runner' \in [Tasks -> {None, "worker", "reader"}]
  OBVIOUS
<1>2. StartedInv'  BY DEF StartedInv, controlVars
<1>3. HeldInv'  BY NoneAssumption DEF HeldInv, Running
<1>4. ASSUME NEW u \in started
      PROVE  /\ pc'[u] \in Between <=> pc[u] \in Between
             /\ pc'[u] \in Settled => pc[u] \in Settled
  <2>1. pc'[u] = IF u = t THEN l ELSE pc[u]  OBVIOUS
  <2> QED BY <2>1
<1> QED BY <1>1, <1>2, <1>3, <1>4, FrameStep

LEMMA TaskFrameSteps ==
  ASSUME StreamInv, NEW t \in Tasks,
         \/ WorkerTakes(t) \/ TaskThrows(t) \/ PartialReturns(t)
         \/ ShouldBlockBatch(t) \/ BlockSink(t) \/ Deschedule(t)
  PROVE  StreamInv'
<1> USE DEF bufferVars, taskVars, executorVars, readerVars, taskFrame, Leave
<1>1. CASE WorkerTakes(t)
  <2> DEFINE l == IF t \in started THEN "top" ELSE "start"
  <2>1. l \in PC /\ Goto(t, l) /\ pc[t] = "queued"  BY <1>1 DEF WorkerTakes, PC
  <2>2. l \notin Between /\ pc[t] \notin Between /\ l \notin Settled
    BY <2>1 DEF Between, Settled
  <2>3. held # t  BY <2>1 DEF StreamInv, HeldInv, Running
  <2>4. l \in Registered => t \in started  BY DEF Registered, Running
  <2>5. UNCHANGED controlVars /\ UNCHANGED <<rpc, held>> /\ runner' = [runner EXCEPT ![t] = "worker"]
    BY <1>1 DEF WorkerTakes, controlVars
  <2> QED BY <2>1, <2>2, <2>3, <2>4, <2>5, TaskFrameStep
<1>2. CASE TaskThrows(t)
  <2>1. pc[t] \in {"top", "again"} /\ Goto(t, "freed") /\ "freed" \in PC
        /\ UNCHANGED controlVars /\ UNCHANGED rpc /\ runner' = [runner EXCEPT ![t] = None]
        /\ ((held' = held /\ held # t) \/ (held = t /\ held' = None))
    BY <1>2 DEF TaskThrows, controlVars, PC
  <2>2. {pc[t], "freed"} \cap (Between \union Settled) = {} /\ "freed" \notin Registered
    BY <2>1 DEF Between, Settled, Registered, Running
  <2> QED BY <2>1, <2>2, TaskFrameStep
<1>3. CASE PartialReturns(t)
  <2>1. pc[t] = "again" /\ Goto(t, "held") /\ "held" \in PC
        /\ UNCHANGED controlVars /\ UNCHANGED <<rpc, held>> /\ runner' = [runner EXCEPT ![t] = None]
    BY <1>3 DEF PartialReturns, controlVars, PC
  <2>2. {pc[t], "held"} \cap (Between \union Settled) = {} /\ t \in started
    BY <2>1 DEF Between, Settled, Registered, Running, StreamInv, StartedInv
  <2> QED BY <2>1, <2>2, TaskFrameStep
<1>4. CASE ShouldBlockBatch(t)
  <2> DEFINE l == IF ShouldBlock(batch[t]) THEN "block" ELSE "append"
  <2>1. pc[t] = "check" /\ Goto(t, l) /\ l \in PC /\ l \in Running /\ pc[t] \in Running
        /\ UNCHANGED controlVars /\ UNCHANGED <<rpc, held, runner>>
    BY <1>4 DEF ShouldBlockBatch, controlVars, PC, Running
  <2>2. l \notin Between /\ pc[t] \notin Between /\ pc[t] \in Settled /\ t \in started /\ l # "start"
    BY <2>1 DEF Between, Settled, Registered, Running, StreamInv, StartedInv
  <2> QED BY <2>1, <2>2, TaskFrameStep
<1>5. CASE BlockSink(t)
  <2>1. pc[t] = "block" /\ Goto(t, "deschedule") /\ "deschedule" \in PC
        /\ {"deschedule", pc[t]} \subseteq Running
        /\ UNCHANGED controlVars /\ UNCHANGED <<rpc, held, runner>>
    BY <1>5 DEF BlockSink, controlVars, PC, Running
  <2>2. {pc[t], "deschedule"} \cap Between = {} /\ "deschedule" \notin Settled /\ t \in started
    BY <2>1 DEF Between, Settled, Registered, Running, StreamInv, StartedInv
  <2> QED BY <2>1, <2>2, TaskFrameStep
<1>6. CASE Deschedule(t)
  <2> DEFINE l == IF cancelled THEN "freed" ELSE "descheduled"
  <2>1. pc[t] = "deschedule" /\ Goto(t, l) /\ l \in PC
        /\ UNCHANGED controlVars /\ UNCHANGED rpc /\ runner' = [runner EXCEPT ![t] = None]
        /\ ((held' = held /\ held # t) \/ (held = t /\ held' = None))
    BY <1>6 DEF Deschedule, AddToBeRescheduled, controlVars, PC
  <2>2. l \notin Between /\ pc[t] \notin Between /\ l \notin Settled /\ t \in started /\ l # "start"
    BY <2>1 DEF Between, Settled, Registered, Running, StreamInv, StartedInv
  <2> QED BY <2>1, <2>2, TaskFrameStep
<1> QED BY <1>1, <1>2, <1>3, <1>4, <1>5, <1>6

\* The reader polls, wakes, takes, scans and cancels.
LEMMA ReaderFrameSteps ==
  ASSUME StreamInv, ReaderStep \/ Fetch \/ Close \/ Interrupt
  PROVE  StreamInv'
<1> USE DEF bufferVars, taskVars, executorVars, readerVars, readerFrame
<1>1. CASE Poll \/ UnblockSinks \/ NothingToRun \/ Recheck \/ Scan \/ TasksCancelled
           \/ Fetch \/ Close \/ Interrupt
  <2>1. UNCHANGED controlVars /\ UNCHANGED <<pc, runner, held>> /\ (rpc = "running" => rpc' = rpc)
    BY <1>1 DEF Poll, UnblockSinks, NothingToRun, Recheck, Scan, TasksCancelled, Fetch, Close,
                Interrupt, controlVars
  <2>2. StartedInv' /\ HeldInv'  BY <2>1 DEF StreamInv, StartedInv, HeldInv, controlVars
  <2> QED BY <2>1, <2>2, FrameStep DEF StreamInv, ControlType
<1>2. CASE TaskReturned
  <2>1. UNCHANGED controlVars /\ UNCHANGED <<pc, runner, held>> /\ \A t \in Tasks : runner[t] # "reader"
    BY <1>2 DEF TaskReturned, controlVars
  <2>2. StartedInv' /\ HeldInv'  BY <2>1 DEF StreamInv, StartedInv, HeldInv, controlVars
  <2> QED BY <2>1, <2>2, FrameStep DEF StreamInv, ControlType
<1>3. ASSUME NEW t \in Tasks, RescheduleTask(t) PROVE StreamInv'
  <2>1. pc[t] = "descheduled" /\ pc' = [pc EXCEPT ![t] = "queued"] /\ "queued" \in PC
        /\ UNCHANGED controlVars /\ UNCHANGED <<runner, held>> /\ rpc = "waking"
    BY <1>3 DEF RescheduleTask, Goto, controlVars, PC
  <2>2. StartedInv' /\ HeldInv'
    BY <2>1 DEF StreamInv, ControlType, StartedInv, HeldInv, controlVars, Registered, Running
  <2>3. \A u \in started : (pc'[u] \in Between <=> pc[u] \in Between)
                           /\ (pc'[u] \in Settled => pc[u] \in Settled)
    BY <2>1 DEF StreamInv, ControlType, Between, Settled
  <2> QED BY <2>1, <2>2, <2>3, FrameStep DEF StreamInv, ControlType
<1>4. ASSUME NEW t \in Tasks, ReaderTakes(t) \/ WorkOnTask(t) PROVE StreamInv'
  <2> DEFINE l == IF t \in started THEN "top" ELSE "start"
  <2>1. pc' = [pc EXCEPT ![t] = l] /\ runner' = [runner EXCEPT ![t] = "reader"]
        /\ UNCHANGED controlVars
        /\ ((held' = t /\ rpc' = "running") \/ (held' = held /\ rpc # "running" /\ pc[t] = "queued"))
        /\ (pc[t] = "queued" \/ (t = held /\ rpc = "execute"))
    BY <1>4 DEF ReaderTakes, WorkOnTask, Goto, controlVars
  <2>2. pc[t] \in {"queued", "held"} /\ l \in Running  BY <2>1 DEF StreamInv, HeldInv, Running
  <2>3. pc' \in [Tasks -> PC] /\ runner' \in [Tasks -> {None, "worker", "reader"}]
    BY <2>1 DEF StreamInv, ControlType, PC
  <2>4. StartedInv'
    BY <2>1 DEF StreamInv, ControlType, StartedInv, controlVars, Registered, Running
  <2>5. HeldInv'
    BY <2>1, <2>2 DEF StreamInv, ControlType, HeldInv, Running
  <2>6. \A u \in started : (pc'[u] \in Between <=> pc[u] \in Between)
                           /\ (pc'[u] \in Settled => pc[u] \in Settled)
    BY <2>1, <2>2 DEF StreamInv, ControlType, Between, Settled
  <2> QED BY <2>1, <2>3, <2>4, <2>5, <2>6, FrameStep
<1>5. CASE CancelTasks
  <2>1. pc' = [t \in Tasks |-> IF pc[t] = "descheduled" \/ t = held THEN "freed" ELSE pc[t]]
        /\ UNCHANGED controlVars /\ UNCHANGED runner /\ held' = None /\ rpc = "cancel"
    BY <1>5 DEF CancelTasks, controlVars
  <2>2. \A t \in Tasks : pc'[t] = pc[t] \/ (pc[t] \in {"descheduled", "held"} /\ pc'[t] = "freed")
    BY <2>1 DEF StreamInv, HeldInv
  <2>3. pc' \in [Tasks -> PC]  BY <2>1 DEF StreamInv, ControlType, PC
  <2>4. StartedInv' /\ HeldInv'
    BY <2>1, <2>2, NoneAssumption DEF StreamInv, StartedInv, HeldInv, controlVars, Registered, Running
  <2>5. \A u \in started : (pc'[u] \in Between <=> pc[u] \in Between)
                           /\ (pc'[u] \in Settled => pc[u] \in Settled)
    BY <2>2 DEF StreamInv, ControlType, Between, Settled
  <2> QED BY <2>1, <2>3, <2>4, <2>5, FrameStep DEF StreamInv, ControlType
<1> QED BY <1>1, <1>2, <1>3, <1>4, <1>5 DEF ReaderStep

-----------------------------------------------------------------------------
(* Steps that move batches and indexes, one lemma each *)

\* What a step of a running task leaves of the parts about the reader.
LEMMA RunningStep ==
  ASSUME StreamInv, NEW t \in Tasks, NEW l \in PC, Goto(t, l), pc[t] \in Running, l \in Running,
         l # "start", t \in started', started' \in {started, started \union {t}},
         UNCHANGED <<runner, held, rpc>>
  PROVE  pc' \in [Tasks -> PC] /\ StartedInv' /\ HeldInv'
<1> USE DEF StreamInv, ControlType, Goto
<1>1. pc' \in [Tasks -> PC]  OBVIOUS
<1>2. StartedInv'
  <2>1. \A u \in Tasks : pc'[u] = IF u = t THEN l ELSE pc[u]  OBVIOUS
  <2>2. \A u \in Tasks : u # t => (u \in started' <=> u \in started)  OBVIOUS
  <2> QED BY <2>1, <2>2 DEF StartedInv
<1>3. HeldInv'  BY DEF HeldInv, Running
<1> QED BY <1>1, <1>2, <1>3

LEMMA RegisterKeeps ==
  ASSUME StreamInv, NEW t \in Tasks, RegisterNewBatchIndex(t)
  PROVE  StreamInv'
<1> DEFINE m == IF started = {} THEN 0 ELSE LowestIndex(started, index)
<1> USE BatchesAssumption DEF MaxBatchIndex
<1>1. /\ pc[t] = "start" /\ Goto(t, "top") /\ started' = started \union {t}
      /\ index' = [index EXCEPT ![t] = m] /\ batch' = [batch EXCEPT ![t] = m]
      /\ minIndex' = [minIndex EXCEPT ![t] = m]
      /\ UNCHANGED <<next, runner, held, rpc, min_batch, lowest_moved, buffer, completed, current>>
  BY DEF RegisterNewBatchIndex, bufferVars, taskFrame, executorVars, readerVars
<1>2. started \subseteq Tasks /\ t \notin started /\ index \in [Tasks -> 0 .. MaxBatchIndex]
  BY <1>1 DEF StreamInv, ControlType, StartedInv
<1>3. /\ m \in 0 .. MaxBatchIndex
      /\ \A u \in started : m <= index[u]
      /\ started # {} => \E u \in started : m = index[u]
      /\ started = {} => m = 0
  <2>1. CASE started = {}  BY <2>1
  <2>2. CASE started # {}
    <3>1. \A u \in started : index[u] \in Nat  BY <1>2
    <3>2. \E u \in started : m = index[u]  BY <2>2, <3>1, <1>2, LowestIndexLowest
    <3>3. \A u \in started : m <= index[u]  BY <2>2, <3>1, <1>2, LowestIndexLowest
    <3> QED BY <2>2, <3>2, <3>3, <1>2
  <2> QED BY <2>1, <2>2
<1> HIDE DEF m
<1>4. pc' \in [Tasks -> PC] /\ StartedInv' /\ HeldInv'
  <2>1. "top" \in PC /\ pc[t] \in Running /\ "top" \in Running  BY <1>1 DEF PC, Running
  <2> QED BY <1>1, <2>1, RunningStep
<1>5. ControlType'  BY <1>1, <1>3, <1>4 DEF StreamInv, ControlType
<1>6. IndexInv'
  <2>1. m < next \/ next = MaxBatchIndex
    <3>1. CASE started = {}  BY <1>3, <3>1 DEF StreamInv, ControlType
    <3>2. CASE started # {}
      <4>1. PICK u \in started : m = index[u]  BY <1>3, <3>2
      <4>2. index[u] <= batch[u] /\ (batch[u] < next \/ next = MaxBatchIndex)
        BY <1>2 DEF StreamInv, ControlType, IndexInv
      <4> QED BY <1>2, <4>1, <4>2 DEF StreamInv, ControlType
    <3> QED BY <3>1, <3>2
  <2> QED BY <1>1, <1>2, <2>1 DEF Goto, StreamInv, ControlType, IndexInv, Between
<1>7. MinimumInv'
  <2>1. min_batch <= m /\ \A u \in started : minIndex[u] <= m
    BY <1>3 DEF StreamInv, MinimumInv
  <2>2. \A u \in started' : index'[u] = (IF u = t THEN m ELSE index[u])
                           /\ minIndex'[u] = (IF u = t THEN m ELSE minIndex[u])
    BY <1>1, <1>2 DEF StreamInv, ControlType
  <2> QED BY <1>1, <1>3, <2>1, <2>2 DEF StreamInv, MinimumInv
<1>8. CurrentInv'  BY <1>1, <1>2 DEF Goto, StreamInv, ControlType, CurrentInv, Settled
<1>9. BufferInv' /\ CompletedInv'
  BY <1>1, <1>2 DEF StreamInv, ControlType, BufferInv, CompletedInv
<1> QED BY <1>4, <1>5, <1>6, <1>7, <1>8, <1>9 DEF StreamInv

LEMMA RunLoopKeeps ==
  ASSUME StreamInv, NEW t \in Tasks, RunLoop(t)
  PROVE  StreamInv'
<1> USE BatchesAssumption DEF MaxBatchIndex
<1>1. /\ pc[t] \in {"top", "again"}
      /\ UNCHANGED <<started, runner, held, rpc, index, minIndex, current, min_batch,
                     lowest_moved, buffer, completed>>
  BY DEF RunLoop, bufferVars, taskFrame, executorVars, readerVars
<1>2. t \in started /\ pc[t] \notin Between /\ pc[t] \in Running
  BY <1>1 DEF StreamInv, StartedInv, Registered, Running, Between
<1>3. CASE \E l \in {"sink", "combine"} : Goto(t, l) /\ UNCHANGED <<next, batch>>
  <2>1. PICK l \in {"sink", "combine"} : Goto(t, l) /\ UNCHANGED <<next, batch>>  BY <1>3
  <2>2. l \notin Between /\ l \notin Settled /\ l \in PC /\ l \in Running /\ l # "start"
    BY DEF Between, Settled, PC, Running
  <2> QED BY <1>1, <1>2, <2>1, <2>2, TaskFrameStep DEF controlVars
<1>4. CASE /\ batch[t] < MaxBatchIndex /\ batch' = [batch EXCEPT ![t] = next]
           /\ next' = AfterBatch(next) /\ Goto(t, "next")
  <2>1. pc' \in [Tasks -> PC] /\ StartedInv' /\ HeldInv'
    <3>1. "next" \in PC /\ "next" \in Running  BY DEF PC, Running
    <3> QED BY <1>1, <1>2, <1>4, <3>1, RunningStep
  <2>2. next \in 1 .. MaxBatchIndex /\ next' \in 1 .. MaxBatchIndex /\ next <= next'
        /\ (next < next' \/ next' = MaxBatchIndex)
    BY <1>4 DEF AfterBatch, Min2, StreamInv, ControlType
  <2>3. ControlType'
    <3>1. batch' \in [Tasks -> 0 .. MaxBatchIndex]  BY <1>4, <2>2 DEF StreamInv, ControlType
    <3> QED BY <1>1, <2>1, <2>2, <3>1 DEF StreamInv, ControlType
  <2>4. IndexInv'
    <3>1. index[t] < next
      BY <1>2, <1>4, <2>2 DEF StreamInv, ControlType, IndexInv
    <3>2. "next" \in Between  BY DEF Between
    <3>3. \A u \in started : u # t => batch'[u] = batch[u] /\ pc'[u] = pc[u]
      BY <1>4 DEF Goto, StreamInv, ControlType
    <3>4. batch'[t] = next /\ pc'[t] = "next"  BY <1>4 DEF Goto, StreamInv, ControlType
    <3>5. \A u \in started : batch[u] < next \/ next = MaxBatchIndex  BY DEF StreamInv, IndexInv
    <3>6. \A u \in started : batch'[u] < next' \/ next' = MaxBatchIndex
      BY <2>2, <3>3, <3>4, <3>5 DEF StreamInv, ControlType
    <3> QED BY <1>1, <3>1, <3>2, <3>3, <3>4, <3>6 DEF StreamInv, IndexInv
  <2>5. MinimumInv'  BY <1>1 DEF StreamInv, MinimumInv
  <2>6. CurrentInv'  BY <1>1, <1>4 DEF Goto, StreamInv, ControlType, CurrentInv, Settled
  <2>7. BufferInv' /\ CompletedInv'  BY <1>1 DEF StreamInv, BufferInv, CompletedInv
  <2> QED BY <2>1, <2>3, <2>4, <2>5, <2>6, <2>7 DEF StreamInv
<1> QED BY <1>3, <1>4 DEF RunLoop

LEMMA CompleteBatchKeeps ==
  ASSUME StreamInv, NEW t \in Tasks, CompleteBatch(t)
  PROVE  StreamInv'
<1>1. /\ pc[t] = "next" /\ Goto(t, "oldmin")
      /\ current' = [current EXCEPT ![t] = batch[t]]
      /\ completed \subseteq completed'
      /\ \A b \in Batches : current[t] = b /\ buffer[b] # <<>> => b \in completed'
      /\ UNCHANGED <<next, started, runner, held, rpc, index, batch, minIndex, min_batch,
                     lowest_moved, buffer>>
  BY DEF CompleteBatch, taskFrame, executorVars, readerVars
<1>2. t \in started /\ pc[t] \in Running /\ "oldmin" \in Running /\ "oldmin" \in PC
  BY <1>1 DEF StreamInv, StartedInv, Registered, Running, PC
<1>3. pc' \in [Tasks -> PC] /\ StartedInv' /\ HeldInv'  BY <1>1, <1>2, RunningStep
<1>4. ControlType'  BY <1>1, <1>3 DEF StreamInv, ControlType
<1>5. IndexInv'
  BY <1>1 DEF Goto, StreamInv, ControlType, IndexInv, Between
<1>6. MinimumInv' /\ BufferInv'  BY <1>1 DEF StreamInv, MinimumInv, BufferInv
<1>7. CurrentInv'  BY <1>1 DEF Goto, StreamInv, ControlType, CurrentInv
<1>8. CompletedInv'
  <2> SUFFICES ASSUME NEW b \in Batches, buffer[b] # <<>>, b \notin completed'
               PROVE  \E u \in started : index[u] = b /\ current'[u] = b
    BY <1>1 DEF CompletedInv
  <2>1. PICK u \in started : index[u] = b /\ current[u] = b
    BY <1>1 DEF StreamInv, CompletedInv
  <2>2. u # t  BY <1>1, <2>1
  <2> QED BY <1>1, <2>1, <2>2 DEF StreamInv, ControlType
<1> QED BY <1>3, <1>4, <1>5, <1>6, <1>7, <1>8 DEF StreamInv

LEMMA UpdateBatchIndexKeeps ==
  ASSUME StreamInv, NEW t \in Tasks, UpdateBatchIndex(t)
  PROVE  StreamInv'
<1> DEFINE l == IF todo[t] > 0 THEN "sink" ELSE "again"
<1>1. /\ pc[t] = "register" /\ Goto(t, l)
      /\ index' = [index EXCEPT ![t] = batch[t]]
      /\ minIndex' = [minIndex EXCEPT ![t] = LowestIndex(started, index')]
      /\ UNCHANGED <<next, started, runner, held, rpc, batch, current, min_batch,
                     lowest_moved, buffer, completed>>
  BY DEF UpdateBatchIndex, NewMinimum, bufferVars, taskFrame, executorVars, readerVars
<1>2. /\ t \in started /\ pc[t] \in Running /\ l \in Running /\ l \in PC /\ l # "start"
      /\ pc[t] \in Between /\ l \notin Between /\ l \notin Settled
  BY <1>1 DEF StreamInv, StartedInv, Registered, Running, PC, Between, Settled
<1>3. pc' \in [Tasks -> PC] /\ StartedInv' /\ HeldInv'  BY <1>1, <1>2, RunningStep
<1>4. index[t] < batch[t] /\ current[t] = batch[t]
  BY <1>1, <1>2 DEF StreamInv, IndexInv, CurrentInv, Settled
<1>5. started \subseteq Tasks /\ index' \in [Tasks -> 0 .. MaxBatchIndex]
  BY <1>1 DEF StreamInv, ControlType
<1>6. \A u \in started : index[u] <= index'[u]
  BY <1>1, <1>4, <1>5, BatchesAssumption DEF StreamInv, ControlType, MaxBatchIndex
<1>7. LET m == LowestIndex(started, index')
      IN  m \in 0 .. MaxBatchIndex /\ \A u \in started : m <= index'[u]
  <2>1. \A u \in started : index'[u] \in Nat  BY <1>5, BatchesAssumption DEF MaxBatchIndex
  <2>2. \E u \in started : LowestIndex(started, index') = index'[u]
    BY <1>2, <1>5, <2>1, LowestIndexLowest
  <2>3. \A u \in started : LowestIndex(started, index') <= index'[u]
    BY <1>2, <1>5, <2>1, LowestIndexLowest
  <2> QED BY <1>5, <2>2, <2>3
<1>8. ControlType'  BY <1>1, <1>3, <1>5, <1>7 DEF StreamInv, ControlType
<1>9. IndexInv'
  BY <1>1, <1>2 DEF Goto, StreamInv, ControlType, IndexInv
<1>10. MinimumInv'
  <2>1. \A u \in started : min_batch <= index'[u]
    BY <1>6, <1>5, BatchesAssumption DEF StreamInv, ControlType, MinimumInv, MaxBatchIndex
  <2>2. ASSUME NEW u \in started, NEW v \in started PROVE minIndex'[u] <= index'[v]
    <3>1. CASE u = t  BY <1>1, <1>7, <3>1 DEF StreamInv, ControlType
    <3>2. CASE u # t
      <4>1. minIndex'[u] = minIndex[u]  BY <1>1, <3>2, <1>5 DEF StreamInv, ControlType
      <4> QED BY <4>1, <1>6, <1>5, BatchesAssumption
              DEF StreamInv, ControlType, MinimumInv, MaxBatchIndex
    <3> QED BY <3>1, <3>2
  <2> QED BY <1>1, <1>2, <2>1, <2>2 DEF MinimumInv
<1>11. CurrentInv'  BY <1>1, <1>2 DEF Goto, StreamInv, ControlType, CurrentInv
<1>12. BufferInv'  BY <1>1 DEF StreamInv, BufferInv
<1>13. CompletedInv'
  <2> SUFFICES ASSUME NEW b \in Batches, buffer[b] # <<>>, b \notin completed
               PROVE  \E u \in started : index'[u] = b /\ current[u] = b
    BY <1>1 DEF CompletedInv
  <2>1. PICK u \in started : index[u] = b /\ current[u] = b  BY DEF StreamInv, CompletedInv
  <2>2. u # t  BY <1>4, <2>1, <1>5 DEF StreamInv, ControlType
  <2> QED BY <1>1, <2>1, <2>2, <1>5 DEF StreamInv, ControlType
<1> QED BY <1>3, <1>8, <1>9, <1>10, <1>11, <1>12, <1>13 DEF StreamInv

\* Whoever passes on the minimum it knows of passes on one below every task.
LEMMA PassMinimum ==
  ASSUME StreamInv, NEW t \in started, UpdateMinBatchIndex(minIndex[t]),
         UNCHANGED <<next, started, index, batch, minIndex>>,
         current' \in [Tasks -> 0 .. MaxBatchIndex],
         \A u \in started : current'[u] = current[u] \/ current'[u] = index[u],
         pc' \in [Tasks -> PC], StartedInv', HeldInv',
         runner' \in [Tasks -> {None, "worker", "reader"}],
         \A u \in started : pc'[u] \in Between <=> pc[u] \in Between,
         CurrentInv'
  PROVE  StreamInv'
<1> USE DEF StreamInv
<1>1. started \subseteq Tasks /\ minIndex[t] \in 0 .. MaxBatchIndex  BY DEF ControlType
<1>2. /\ min_batch' \in {minIndex[t], min_batch} /\ min_batch' \in 0 .. MaxBatchIndex
      /\ lowest_moved' \in 0 .. NBatches /\ buffer' = [b \in Batches |-> buffer'[b]]
      /\ \A b \in Batches : buffer'[b] \in {<<>>, buffer[b]}
      /\ completed' = completed /\ BufferInv'
  BY <1>1, UpdateMinEffect
<1>3. ControlType'  BY <1>2 DEF ControlType
<1>4. IndexInv'  BY DEF IndexInv
<1>5. MinimumInv'  BY <1>2 DEF MinimumInv
<1>6. CompletedInv'
  <2> SUFFICES ASSUME NEW b \in Batches, buffer'[b] # <<>>, b \notin completed
               PROVE  \E u \in started : index[u] = b /\ current'[u] = b
    BY <1>2 DEF CompletedInv
  <2>1. PICK u \in started : index[u] = b /\ current[u] = b  BY <1>2 DEF CompletedInv
  <2> QED BY <2>1
<1> QED BY <1>2, <1>3, <1>4, <1>5, <1>6

LEMMA PassMinimumSteps ==
  ASSUME StreamInv, NEW t \in Tasks, PassOldMinimum(t) \/ SinkMinimum(t) \/ Combine(t)
  PROVE  StreamInv'
<1> USE DEF taskVars, taskFrame, executorVars, readerVars
<1>1. CASE PassOldMinimum(t)
  <2>1. /\ pc[t] = "oldmin" /\ Goto(t, "register") /\ UpdateMinBatchIndex(minIndex[t])
        /\ UNCHANGED <<next, started, runner, held, rpc, index, batch, minIndex, current>>
    BY <1>1 DEF PassOldMinimum
  <2>2. t \in started /\ pc[t] \in Running /\ "register" \in Running /\ "register" \in PC
    BY <2>1 DEF StreamInv, StartedInv, Registered, Running, PC
  <2>3. pc' \in [Tasks -> PC] /\ StartedInv' /\ HeldInv'  BY <2>1, <2>2, RunningStep
  <2>4. /\ \A u \in started : pc'[u] \in Between <=> pc[u] \in Between
        /\ CurrentInv'
    BY <2>1 DEF Goto, StreamInv, ControlType, CurrentInv, Between, Settled
  <2> QED BY <2>1, <2>2, <2>3, <2>4, PassMinimum DEF StreamInv, ControlType
<1>2. CASE SinkMinimum(t)
  <2>1. /\ pc[t] = "sink" /\ Goto(t, "check") /\ UpdateMinBatchIndex(minIndex[t])
        /\ current' = [current EXCEPT ![t] = batch[t]]
        /\ UNCHANGED <<next, started, runner, held, rpc, index, batch, minIndex>>
    BY <1>2 DEF SinkMinimum
  <2>2. t \in started /\ pc[t] \in Running /\ "check" \in Running /\ "check" \in PC
    BY <2>1 DEF StreamInv, StartedInv, Registered, Running, PC
  <2>3. pc' \in [Tasks -> PC] /\ StartedInv' /\ HeldInv'  BY <2>1, <2>2, RunningStep
  <2>4. /\ \A u \in started : pc'[u] \in Between <=> pc[u] \in Between
        /\ CurrentInv'
    BY <2>1 DEF Goto, StreamInv, ControlType, CurrentInv, Between, Settled
  <2>5. index[t] = batch[t]  BY <2>1, <2>2 DEF StreamInv, IndexInv, Between
  <2>6. /\ current' \in [Tasks -> 0 .. MaxBatchIndex]
        /\ \A u \in started : current'[u] = current[u] \/ current'[u] = index[u]
    BY <2>1, <2>5 DEF StreamInv, ControlType
  <2>7. runner' \in [Tasks -> {None, "worker", "reader"}]  BY <2>1 DEF StreamInv, ControlType
  <2> QED BY <2>1, <2>2, <2>3, <2>4, <2>6, <2>7, PassMinimum
<1>3. CASE Combine(t)
  <2>1. /\ pc[t] = "combine" /\ Goto(t, "finished") /\ UpdateMinBatchIndex(minIndex[t])
        /\ runner' = [runner EXCEPT ![t] = None] /\ UNCHANGED rpc
        /\ held' = (IF held = t THEN None ELSE held)
        /\ UNCHANGED <<next, started, index, batch, minIndex, current>>
    BY <1>3 DEF Combine, Leave
  <2>2. t \in started  BY <2>1 DEF StreamInv, StartedInv, Registered, Running
  <2>3. pc' \in [Tasks -> PC] /\ runner' \in [Tasks -> {None, "worker", "reader"}]
    BY <2>1 DEF Goto, StreamInv, ControlType, PC
  <2>4. StartedInv' /\ HeldInv'
    BY <2>1, <2>2, NoneAssumption DEF Goto, StreamInv, ControlType, StartedInv, HeldInv
  <2>5. /\ \A u \in started : pc'[u] \in Between <=> pc[u] \in Between
        /\ CurrentInv'
    BY <2>1 DEF Goto, StreamInv, ControlType, CurrentInv, Between, Settled
  <2> QED BY <2>1, <2>2, <2>3, <2>4, <2>5, PassMinimum DEF StreamInv, ControlType
<1> QED BY <1>1, <1>2, <1>3

LEMMA AppendChunkKeeps ==
  ASSUME StreamInv, NEW t \in Tasks, AppendChunk(t)
  PROVE  StreamInv'
<1> DEFINE b == batch[t]
<1>1. /\ pc[t] = "append" /\ Goto(t, "again")
      /\ UNCHANGED <<next, started, runner, held, rpc, index, batch, minIndex, current,
                     min_batch, lowest_moved>>
  BY DEF AppendChunk, taskFrame, executorVars, readerVars
<1>2. /\ t \in started /\ index[t] = b /\ current[t] = b /\ min_batch <= b
      /\ pc[t] \in Running /\ "again" \in Running /\ "again" \in PC
  BY <1>1 DEF StreamInv, StartedInv, IndexInv, CurrentInv, MinimumInv, Registered, Running,
              Between, Settled, PC
<1>3. pc' \in [Tasks -> PC] /\ StartedInv' /\ HeldInv'  BY <1>1, <1>2, RunningStep
<1>4. /\ buffer' = [c \in Batches |-> buffer'[c]]
      /\ \A c \in Batches : c # b => buffer'[c] = buffer[c] /\ (c \in completed => c \in completed')
      /\ b = min_batch => UNCHANGED <<buffer, completed>>
  <2>1. CASE b = min_batch  BY <2>1 DEF AppendChunk, StreamInv, ControlType
  <2>2. CASE b # min_batch
    <3>1. PICK x : buffer' = [buffer EXCEPT ![b] = x]  BY <2>2 DEF AppendChunk
    <3>2. completed' = completed \ {b}  BY <2>2 DEF AppendChunk
    <3> QED BY <2>2, <3>1, <3>2 DEF StreamInv, ControlType
  <2> QED BY <2>1, <2>2
<1>5. ControlType'  BY <1>1, <1>3, <1>4 DEF StreamInv, ControlType
<1>6. IndexInv' /\ CurrentInv'
  BY <1>1, <1>2 DEF Goto, StreamInv, ControlType, IndexInv, CurrentInv, Between, Settled
<1>7. MinimumInv'  BY <1>1 DEF StreamInv, MinimumInv
<1>8. BufferInv'
  BY <1>1, <1>2, <1>4, BatchesAssumption DEF StreamInv, ControlType, BufferInv, Batches, MaxBatchIndex
<1>9. CompletedInv'
  <2> SUFFICES ASSUME NEW c \in Batches, buffer'[c] # <<>>, c \notin completed'
               PROVE  \E u \in started : index[u] = c /\ current[u] = c
    BY <1>1 DEF CompletedInv
  <2>1. CASE c = b  BY <1>2, <2>1
  <2>2. CASE c # b  BY <1>4, <2>2 DEF StreamInv, CompletedInv
  <2> QED BY <2>1, <2>2
<1> QED BY <1>3, <1>5, <1>6, <1>7, <1>8, <1>9 DEF StreamInv

-----------------------------------------------------------------------------
(* The invariant holds, and with it the assertions of the buffer *)

LEMMA InitStreamInv == Init => StreamInv
<1> SUFFICES ASSUME Init PROVE StreamInv  OBVIOUS
<1> USE BatchesAssumption DEF Init, MaxBatchIndex
<1>1. ControlType  BY DEF ControlType, PC
<1>2. StartedInv /\ HeldInv  BY NoneAssumption DEF StartedInv, HeldInv, Registered, Running
<1>3. IndexInv /\ MinimumInv /\ CurrentInv  BY DEF IndexInv, MinimumInv, CurrentInv
<1>4. BufferInv /\ CompletedInv  BY DEF BufferInv, CompletedInv
<1> QED BY <1>1, <1>2, <1>3, <1>4 DEF StreamInv

LEMMA NextKeepsStreamInv == ASSUME StreamInv, [Next]_vars PROVE StreamInv'
<1>1. CASE UNCHANGED vars
  <2>1. UNCHANGED controlVars /\ UNCHANGED <<pc, runner, held, rpc>>
    BY <1>1 DEF vars, taskVars, bufferVars, executorVars, readerVars, controlVars
  <2>2. StartedInv' /\ HeldInv'  BY <2>1 DEF StreamInv, StartedInv, HeldInv, controlVars
  <2> QED BY <2>1, <2>2, FrameStep DEF StreamInv, ControlType
<1>2. ASSUME NEW t \in Tasks, WorkerTakes(t) \/ TaskStep(t) PROVE StreamInv'
  BY <1>2, TaskFrameSteps, RegisterKeeps, RunLoopKeeps, CompleteBatchKeeps, UpdateBatchIndexKeeps,
     PassMinimumSteps, AppendChunkKeeps DEF TaskStep
<1>3. CASE ReaderStep \/ Fetch \/ Close \/ Interrupt  BY <1>3, ReaderFrameSteps
<1> QED BY <1>1, <1>2, <1>3 DEF Next

THEOREM SpecStreamInv == Spec => []StreamInv
BY InitStreamInv, NextKeepsStreamInv, PTL DEF Spec

\* The assertions of BatchedBufferedData about its minimum: nothing in the
\* buffer, or on its way into it, lies at or below the minimum batch index or
\* what was moved out, in whatever order tasks report their indexes.
THEOREM SpecNothingBelowMinimum == Spec => []NothingBelowMinimum
<1>1. ASSUME StreamInv PROVE NothingBelowMinimum
  <2>1. ASSUME NEW b \in Batches, buffer[b] # <<>> PROVE b > min_batch /\ b >= lowest_moved
    BY <1>1, <2>1, BatchesAssumption
    DEF StreamInv, ControlType, BufferInv, Batches, MaxBatchIndex
  <2>2. ASSUME NEW t \in started, pc[t] \in {"sink", "check", "append", "block"}
        PROVE  batch[t] >= min_batch
    BY <1>1, <2>2, BatchesAssumption
    DEF StreamInv, ControlType, IndexInv, MinimumInv, Between, MaxBatchIndex
  <2> QED BY <2>1, <2>2 DEF NothingBelowMinimum
<1> QED BY <1>1, SpecStreamInv, PTL

\* The assertion of MoveCompletedBatches: a batch that a new minimum passes over
\* is complete, its task has gone on to another one.
THEOREM SpecPassedMeansComplete == Spec => []PassedMeansComplete
<1>1. ASSUME StreamInv PROVE PassedMeansComplete
  <2> SUFFICES ASSUME NEW t \in started, NEW b \in Batches, buffer[b] # <<>>, b < minIndex[t],
                      b \notin completed
               PROVE  FALSE
    BY DEF PassedMeansComplete
  <2>1. PICK u \in started : index[u] = b  BY <1>1 DEF StreamInv, CompletedInv
  <2>2. minIndex[t] <= b  BY <1>1, <2>1 DEF StreamInv, MinimumInv
  <2> QED BY <1>1, <2>2, BatchesAssumption DEF StreamInv, ControlType, Batches, MaxBatchIndex
<1> QED BY <1>1, SpecStreamInv, PTL
-----------------------------------------------------------------------------
(* The buffer is bounded.  A task that has seen room in the buffer and not *)
(* appended yet counts as a chunk: so many chunks may the buffer still get *)
(* beyond its capacity, and there are at most as many as tasks.            *)

Pending == {t \in Tasks : pc[t] = "append" /\ batch[t] # min_batch}

ChunkType ==
  /\ chunks \in [Batches -> Nat] /\ todo \in [Tasks -> Int]
  /\ buffer \in [Batches -> Seq(Batches \X Int)]

RoomInv ==
  /\ IsFiniteSet(Buffered)
  /\ BufferCapacity = 0 => Buffered = {} /\ Pending = {}
  /\ BufferCapacity > 0 =>
       BufferCount + Cardinality(Pending) <= BufferCapacity - 1 + Cardinality(Tasks)

\* The tasks that have seen room are among the tasks.
LEMMA PendingFinite == IsFiniteSet(Pending) /\ Cardinality(Pending) \in Nat
<1>1. Pending \subseteq Tasks  BY DEF Pending
<1>2. IsFiniteSet(Pending)  BY <1>1, FS_Subset, TasksAssumption
<1> QED BY <1>2, FS_CardinalityType

\* Fewer chunks in the buffer and fewer tasks on the way into it.
LEMMA RoomKept ==
  ASSUME RoomInv, Buffered' \subseteq Buffered, Pending' \subseteq Pending
  PROVE  RoomInv'
<1>1. /\ IsFiniteSet(Buffered') /\ Cardinality(Buffered') <= Cardinality(Buffered)
      /\ Cardinality(Buffered') \in Nat /\ Cardinality(Buffered) \in Nat
  BY FS_Subset, FS_CardinalityType DEF RoomInv
<1>2. Cardinality(Pending') <= Cardinality(Pending) /\ Cardinality(Pending') \in Nat
      /\ Cardinality(Pending) \in Nat
  BY PendingFinite, FS_Subset, FS_CardinalityType
<1>3. Cardinality(Tasks) \in Nat  BY TasksAssumption, FS_CardinalityType
<1> QED BY <1>1, <1>2, <1>3, CapacityAssumption DEF RoomInv, BufferCount

\* A step that neither appends nor lets a task pass the check.
LEMMA QuietRoom ==
  ASSUME ChunkType, RoomInv, UNCHANGED <<chunks, buffer, min_batch>>, todo' \in [Tasks -> Int],
         \A u \in Tasks : pc'[u] = "append" => pc[u] = "append" /\ batch'[u] = batch[u]
  PROVE  ChunkType' /\ RoomInv'
<1>1. ChunkType'  BY DEF ChunkType
<1>2. Buffered' \subseteq Buffered  BY DEF Buffered
<1>3. Pending' \subseteq Pending  BY DEF Pending
<1> QED BY <1>1, <1>2, <1>3, RoomKept

LEMMA QuietTaskSteps ==
  ASSUME StreamInv, ChunkType, RoomInv, NEW t \in Tasks,
         \/ WorkerTakes(t) \/ RegisterNewBatchIndex(t) \/ RunLoop(t) \/ TaskThrows(t)
         \/ PartialReturns(t) \/ CompleteBatch(t) \/ UpdateBatchIndex(t) \/ BlockSink(t)
         \/ Deschedule(t)
  PROVE  ChunkType' /\ RoomInv'
<1> USE DEF taskVars, taskFrame, bufferVars, Leave, Goto
<1>0. pc \in [Tasks -> PC] /\ batch \in [Tasks -> 0 .. MaxBatchIndex] /\ todo \in [Tasks -> Int]
      /\ chunks \in [Batches -> Nat]
  BY DEF StreamInv, ControlType, ChunkType
<1>1. CASE WorkerTakes(t)  BY <1>0, <1>1, QuietRoom DEF WorkerTakes
<1>2. CASE RegisterNewBatchIndex(t)
  <2>1. PICK x : batch' = [batch EXCEPT ![t] = x]  BY <1>2 DEF RegisterNewBatchIndex
  <2>2. pc' = [pc EXCEPT ![t] = "top"] /\ UNCHANGED <<chunks, buffer, min_batch, todo>>
    BY <1>2 DEF RegisterNewBatchIndex
  <2> QED BY <1>0, <2>1, <2>2, QuietRoom
<1>3. CASE RunLoop(t)
  <2>1. PICK l \in {"sink", "combine", "next"} : pc' = [pc EXCEPT ![t] = l]
    BY <1>3 DEF RunLoop
  <2>2. todo' \in [Tasks -> Int]  BY <1>0, <1>3 DEF RunLoop
  <2>3. batch' = batch \/ batch' = [batch EXCEPT ![t] = next]  BY <1>3 DEF RunLoop
  <2>4. UNCHANGED <<chunks, buffer, min_batch>>  BY <1>3 DEF RunLoop
  <2> QED BY <1>0, <2>1, <2>2, <2>3, <2>4, QuietRoom
<1>4. CASE TaskThrows(t)  BY <1>0, <1>4, QuietRoom DEF TaskThrows
<1>5. CASE PartialReturns(t)  BY <1>0, <1>5, QuietRoom DEF PartialReturns
<1>6. CASE CompleteBatch(t)  BY <1>0, <1>6, QuietRoom DEF CompleteBatch
<1>7. CASE UpdateBatchIndex(t)
  <2>1. PICK l \in {"sink", "again"} : pc' = [pc EXCEPT ![t] = l]
    BY <1>7 DEF UpdateBatchIndex
  <2>2. UNCHANGED <<chunks, buffer, min_batch, todo, batch>>  BY <1>7 DEF UpdateBatchIndex
  <2> QED BY <1>0, <2>1, <2>2, QuietRoom
<1>8. CASE BlockSink(t)  BY <1>0, <1>8, QuietRoom DEF BlockSink
<1>9. CASE Deschedule(t)
  <2>1. PICK l \in {"freed", "descheduled"} : pc' = [pc EXCEPT ![t] = l]
    BY <1>9 DEF Deschedule, AddToBeRescheduled
  <2>2. UNCHANGED <<chunks, buffer, min_batch, todo, batch>>  BY <1>9 DEF Deschedule
  <2> QED BY <1>0, <2>1, <2>2, QuietRoom
<1> QED BY <1>1, <1>2, <1>3, <1>4, <1>5, <1>6, <1>7, <1>8, <1>9

\* The reader takes chunks out of the other queue only.
LEMMA QuietReaderSteps ==
  ASSUME StreamInv, ChunkType, RoomInv, ReaderStep \/ Fetch \/ Close \/ Interrupt
  PROVE  ChunkType' /\ RoomInv'
<1> USE DEF taskVars, bufferVars, readerFrame, readerVars
<1>0. pc \in [Tasks -> PC] /\ todo \in [Tasks -> Int]
  BY DEF StreamInv, ControlType, ChunkType
<1>1. CASE \/ Poll \/ UnblockSinks \/ NothingToRun \/ TaskReturned \/ Recheck \/ Scan
           \/ TasksCancelled \/ Fetch \/ Close \/ Interrupt
  <2>1. UNCHANGED <<chunks, buffer, min_batch, todo, batch, pc>>
    BY <1>1 DEF Poll, UnblockSinks, NothingToRun, TaskReturned, Recheck, Scan, TasksCancelled,
                Fetch, Close, Interrupt
  <2> QED BY <1>0, <2>1, QuietRoom
<1>2. CASE CancelTasks  BY <1>0, <1>2, QuietRoom DEF CancelTasks
<1>3. ASSUME NEW t \in Tasks, RescheduleTask(t) \/ ReaderTakes(t) \/ WorkOnTask(t)
      PROVE  ChunkType' /\ RoomInv'
  <2>1. PICK l \in {"queued", "top", "start"} : pc' = [pc EXCEPT ![t] = l]
    BY <1>3 DEF RescheduleTask, ReaderTakes, WorkOnTask, Goto
  <2>2. UNCHANGED <<chunks, buffer, min_batch, todo, batch>>
    BY <1>3 DEF RescheduleTask, ReaderTakes, WorkOnTask
  <2> QED BY <1>0, <2>1, <2>2, QuietRoom
<1> QED BY <1>1, <1>2, <1>3 DEF ReaderStep

\* A new minimum takes chunks out; no task on its way into the read queue is
\* turned to the buffer by it, for it does not pass the batch of any task.
LEMMA MinimumRoom ==
  ASSUME StreamInv, StreamInv', ChunkType, RoomInv, NEW t \in Tasks,
         PassOldMinimum(t) \/ SinkMinimum(t) \/ Combine(t)
  PROVE  ChunkType' /\ RoomInv'
<1> USE DEF taskVars, taskFrame
<1>1. /\ t \in started /\ UpdateMinBatchIndex(minIndex[t])
      /\ UNCHANGED <<chunks, todo, batch, index, started>>
      /\ \E l \in {"register", "check", "finished"} : pc' = [pc EXCEPT ![t] = l]
  BY DEF PassOldMinimum, SinkMinimum, Combine, Leave, Goto, StreamInv, StartedInv, Registered,
         Running
<1>2. minIndex[t] \in 0 .. MaxBatchIndex  BY <1>1 DEF StreamInv, ControlType
<1>3. /\ \A b \in Batches : buffer'[b] \in {<<>>, buffer[b]}
      /\ buffer' = [b \in Batches |-> buffer'[b]] /\ min_batch <= min_batch'
  BY <1>1, <1>2, UpdateMinEffect DEF StreamInv
<1>4. ChunkType'
  <2>1. <<>> \in Seq(Batches \X Int)  OBVIOUS
  <2>2. \A b \in Batches : buffer'[b] \in Seq(Batches \X Int)  BY <1>3, <2>1 DEF ChunkType
  <2> QED BY <1>1, <1>3, <2>2 DEF ChunkType
<1>5. Buffered' \subseteq Buffered
  <2>1. \A b \in Batches : DOMAIN buffer'[b] \subseteq DOMAIN buffer[b]
    <3>1. DOMAIN <<>> = {}  OBVIOUS
    <3> QED BY <1>3, <3>1
  <2> QED BY <2>1 DEF Buffered
<1>6. Pending' \subseteq Pending
  <2> SUFFICES ASSUME NEW u \in Tasks, pc'[u] = "append", batch'[u] # min_batch'
               PROVE  pc[u] = "append" /\ batch[u] # min_batch
    BY DEF Pending
  <2>1. pc[u] = "append" /\ u \in started
    BY <1>1 DEF StreamInv, ControlType, StartedInv, Registered, Running
  <2>2. index[u] = batch[u]  BY <2>1 DEF StreamInv, IndexInv, Between
  <2>3. min_batch' <= index'[u]  BY <1>1, <2>1 DEF StreamInv, MinimumInv
  <2>4. min_batch \in Nat /\ min_batch' \in Nat /\ batch[u] \in Nat
    BY DEF StreamInv, ControlType
  <2> QED BY <1>1, <1>3, <2>1, <2>2, <2>3, <2>4
<1> QED BY <1>4, <1>5, <1>6, RoomKept

\* Who passes the check adds one to those on the way, when there is room.
LEMMA CheckRoom ==
  ASSUME StreamInv, ChunkType, RoomInv, NEW t \in Tasks, ShouldBlockBatch(t)
  PROVE  ChunkType' /\ RoomInv'
<1> USE DEF taskVars, taskFrame, bufferVars, Goto
<1>0. pc \in [Tasks -> PC] /\ todo \in [Tasks -> Int]
  BY DEF StreamInv, ControlType, ChunkType
<1>1. UNCHANGED <<chunks, buffer, min_batch, todo, batch>>  BY DEF ShouldBlockBatch
<1>2. CASE IsFull(batch[t])
  BY <1>0, <1>1, <1>2, QuietRoom DEF ShouldBlockBatch, ShouldBlock
<1>3. CASE ~IsFull(batch[t]) /\ batch[t] = min_batch
  <2>1. pc' = [pc EXCEPT ![t] = "append"]  BY <1>3 DEF ShouldBlockBatch, ShouldBlock
  <2>2. Pending' \subseteq Pending  BY <1>0, <1>1, <1>3, <2>1 DEF Pending
  <2>3. Buffered' \subseteq Buffered  BY <1>1 DEF Buffered
  <2>4. ChunkType'  BY <1>1 DEF ChunkType
  <2> QED BY <2>2, <2>3, <2>4, RoomKept
<1>4. CASE ~IsFull(batch[t]) /\ batch[t] # min_batch
  <2>1. ~(BufferCount >= BufferCapacity)  BY <1>4 DEF IsFull
  <2>2. BufferCount \in Nat  BY FS_CardinalityType DEF RoomInv, BufferCount
  <2>3. BufferCapacity > 0 /\ BufferCount <= BufferCapacity - 1
    BY <2>1, <2>2, CapacityAssumption
  <2>4. Cardinality(Pending') <= Cardinality(Tasks)
    <3>1. Pending' \subseteq Tasks  BY DEF Pending
    <3> QED BY <3>1, FS_Subset, TasksAssumption
  <2>5. Buffered' = Buffered  BY <1>1 DEF Buffered
  <2>6. Cardinality(Pending') \in Nat /\ Cardinality(Tasks) \in Nat
    <3>1. Pending' \subseteq Tasks  BY DEF Pending
    <3>2. IsFiniteSet(Pending')  BY <3>1, FS_Subset, TasksAssumption
    <3> QED BY <3>2, FS_CardinalityType, TasksAssumption
  <2>7. BufferCount' = BufferCount  BY <2>5 DEF BufferCount
  <2>8. RoomInv'  BY <2>2, <2>3, <2>4, <2>5, <2>6, <2>7, CapacityAssumption DEF RoomInv
  <2> QED BY <1>1, <2>8 DEF ChunkType
<1> QED BY <1>2, <1>3, <1>4

\* An append takes a task off the way and adds at most one chunk.
LEMMA AppendRoom ==
  ASSUME StreamInv, ChunkType, RoomInv, NEW t \in Tasks, AppendChunk(t)
  PROVE  ChunkType' /\ RoomInv'
<1> DEFINE b == batch[t]
           chunk == <<b, chunks[b] - todo[t] + 1>>
           place == <<b, Len(buffer[b]) + 1>>
<1>1. /\ pc[t] = "append" /\ pc' = [pc EXCEPT ![t] = "again"]
      /\ UNCHANGED <<chunks, batch, min_batch>> /\ todo' = [todo EXCEPT ![t] = @ - 1]
  BY DEF AppendChunk, taskFrame, Goto
<1>2. /\ pc \in [Tasks -> PC] /\ todo' \in [Tasks -> Int] /\ chunks \in [Batches -> Nat]
  BY <1>1 DEF StreamInv, ControlType, ChunkType
<1>3. CASE b = min_batch
  <2>1. UNCHANGED buffer  BY <1>3 DEF AppendChunk
  <2> QED BY <1>1, <1>2, <2>1, QuietRoom
<1>4. CASE b # min_batch
  <2>1. buffer' = [buffer EXCEPT ![b] = Append(@, chunk)]  BY <1>4 DEF AppendChunk
  <2>2. t \in Pending  BY <1>1, <1>4 DEF Pending
  <2>3. Pending' = Pending \ {t}
    <3>1. ASSUME NEW u \in Tasks PROVE u \in Pending' <=> u \in Pending /\ u # t
      BY <1>1, <1>2, <1>4 DEF Pending
    <3> QED BY <3>1 DEF Pending
  <2>4. /\ Cardinality(Pending') = Cardinality(Pending) - 1
        /\ IsFiniteSet(Pending)
    BY <2>2, <2>3, PendingFinite, FS_RemoveElement
  <2>5. b \in Batches => buffer[b] \in Seq(Batches \X Int) /\ chunk \in Batches \X Int
    <3> SUFFICES ASSUME b \in Batches
                 PROVE  buffer[b] \in Seq(Batches \X Int) /\ chunk \in Batches \X Int
      OBVIOUS
    <3>1. chunks[b] \in Nat /\ todo[t] \in Int  BY DEF ChunkType
    <3>2. chunks[b] - todo[t] + 1 \in Int  BY <3>1
    <3> QED BY <3>2 DEF ChunkType
  <2> HIDE DEF chunk
  <2>6. buffer' \in [Batches -> Seq(Batches \X Int)]
    <3>1. b \in Batches => Append(buffer[b], chunk) \in Seq(Batches \X Int)  BY <2>5
    <3> QED BY <2>1, <3>1 DEF ChunkType
  <2>7. Buffered' \subseteq Buffered \union {place}
    <3> SUFFICES ASSUME NEW c \in Batches, NEW i \in DOMAIN buffer'[c]
                 PROVE  <<c, i>> \in Buffered \union {place}
      BY DEF Buffered
    <3>1. CASE c # b
      BY <2>1, <3>1 DEF Buffered, ChunkType
    <3>2. CASE c = b
      <4>1. buffer'[b] = Append(buffer[b], chunk)  BY <2>1, <3>2 DEF ChunkType
      <4>2. i \in DOMAIN buffer[b] \/ i = Len(buffer[b]) + 1
        BY <2>5, <3>2, <4>1
      <4> QED BY <3>2, <4>2 DEF Buffered
    <3> QED BY <3>1, <3>2
  <2> HIDE DEF place
  <2>8. /\ IsFiniteSet(Buffered \union {place})
        /\ Cardinality(Buffered \union {place}) <= Cardinality(Buffered) + 1
        /\ Cardinality(Buffered) \in Nat
    BY FS_AddElement, FS_CardinalityType DEF RoomInv
  <2>9. IsFiniteSet(Buffered') /\ Cardinality(Buffered') <= Cardinality(Buffered \union {place})
    BY <2>7, <2>8, FS_Subset
  <2>10. /\ Cardinality(Buffered') \in Nat /\ Cardinality(Tasks) \in Nat
         /\ Cardinality(Buffered \union {place}) \in Nat
    BY <2>8, <2>9, FS_CardinalityType, TasksAssumption
  <2>11. BufferCapacity > 0  BY <2>2, CapacityAssumption DEF RoomInv
  <2>12. RoomInv'
    BY <2>4, <2>8, <2>9, <2>10, <2>11, PendingFinite, CapacityAssumption DEF RoomInv, BufferCount
  <2> QED BY <1>1, <1>2, <2>6, <2>12 DEF ChunkType
<1> QED BY <1>3, <1>4

LEMMA InitRoom == Init => ChunkType /\ RoomInv
<1> SUFFICES ASSUME Init PROVE ChunkType /\ RoomInv  OBVIOUS
<1>1. ChunkType  BY BatchesAssumption DEF Init, ChunkType
<1>2. Buffered = {}  BY DEF Init, Buffered
<1>3. Pending = {}  BY DEF Init, Pending
<1>4. Cardinality(Tasks) \in Nat  BY TasksAssumption, FS_CardinalityType
<1>5. IsFiniteSet(Buffered) /\ Cardinality(Buffered) = 0 /\ Cardinality(Pending) = 0
  BY <1>2, <1>3, FS_EmptySet
<1> QED BY <1>1, <1>2, <1>3, <1>4, <1>5, CapacityAssumption DEF RoomInv, BufferCount

LEMMA NextKeepsRoom ==
  ASSUME StreamInv, StreamInv', ChunkType, RoomInv, [Next]_vars
  PROVE  ChunkType' /\ RoomInv'
<1>1. CASE UNCHANGED vars
  BY <1>1, QuietRoom DEF vars, taskVars, bufferVars, StreamInv, ControlType, ChunkType
<1>2. ASSUME NEW t \in Tasks, WorkerTakes(t) \/ TaskStep(t) PROVE ChunkType' /\ RoomInv'
  BY <1>2, QuietTaskSteps, MinimumRoom, CheckRoom, AppendRoom DEF TaskStep
<1>3. CASE ReaderStep \/ Fetch \/ Close \/ Interrupt  BY <1>3, QuietReaderSteps
<1> QED BY <1>1, <1>2, <1>3 DEF Next

\* ShouldBlockBatch and Append are two critical sections of the buffer's lock,
\* but the buffer outgrows its capacity by one chunk per task at most, for any
\* number of tasks and batches; with no capacity nothing gets into it.
THEOREM SpecBufferBounded == Spec => []BufferBounded
<1>1. ASSUME RoomInv PROVE BufferBounded
  <2>1. BufferCount \in Nat  BY <1>1, FS_CardinalityType DEF RoomInv, BufferCount
  <2>2. CASE BufferCapacity = 0  BY <1>1, <2>2, FS_EmptySet DEF RoomInv, BufferBounded, BufferCount
  <2>3. CASE BufferCapacity # 0
    BY <1>1, <2>1, <2>3, PendingFinite, TasksAssumption, FS_CardinalityType, CapacityAssumption
    DEF RoomInv, BufferBounded
  <2> QED BY <2>2, <2>3
<1>2. Init => StreamInv /\ ChunkType /\ RoomInv  BY InitStreamInv, InitRoom
<1>3. StreamInv /\ ChunkType /\ RoomInv /\ [Next]_vars => (StreamInv /\ ChunkType /\ RoomInv)'
  BY NextKeepsStreamInv, NextKeepsRoom
<1> QED BY <1>1, <1>2, <1>3, PTL DEF Spec

-----------------------------------------------------------------------------
(* Sequences put together from parts *)

\* The first m parts of c, one after the other.
Flat(c, m) == FlattenSeq([b \in 1 .. m |-> c[b]])
AreSeqs(c, m, S) == \A i \in 1 .. m : c[i] \in Seq(S)

\* The function that FlattenSeq defines by recursion on the number of parts, and
\* its values one by one.
Unfolds(f, c, n) == f = [i \in 1 .. n |-> IF i = 1 THEN c[i] ELSE f[i - 1] \o c[i]]

\* Every value of such a function is its part after the values before it.
LEMMA UnfoldsValues ==
  ASSUME NEW n \in Nat, NEW c, NEW f, Unfolds(f, c, n)
  PROVE  \A i \in 1 .. n : (i = 1 => f[i] = c[i]) /\ (i # 1 => f[i] = f[i - 1] \o c[i])
<1> DEFINE e(i) == IF i = 1 THEN c[i] ELSE f[i - 1] \o c[i]
<1>1. f = [i \in 1 .. n |-> e(i)]  BY DEF Unfolds
<1> HIDE DEF e
<1>2. \A i \in 1 .. n : f[i] = e(i)  BY <1>1
<1> QED BY <1>2 DEF e

\* There is such a function for every number of parts: the least number of parts
\* without one would follow a number that has one.
LEMMA FlattenFunction ==
  ASSUME NEW n \in Nat \ {0}, NEW c
  PROVE  \E f : Unfolds(f, c, n)
<1> DEFINE P(m) == \E f : Unfolds(f, c, m)
           S == {m \in Nat : m >= 1 /\ ~P(m)}
<1>1. P(1)
  <2> DEFINE f == [i \in 1 .. 1 |-> c[i]]
  <2>1. f = [i \in 1 .. 1 |-> IF i = 1 THEN c[i] ELSE f[i - 1] \o c[i]]
    <3>1. \A i \in 1 .. 1 : i = 1  OBVIOUS
    <3> QED BY <3>1
  <2> QED BY <2>1 DEF Unfolds
<1>2. ASSUME NEW m \in Nat, m >= 1, P(m) PROVE P(m + 1)
  <2>1. PICK f : Unfolds(f, c, m)  BY <1>2
  <2> DEFINE e(i) == IF i <= m THEN f[i] ELSE f[m] \o c[i]
             g == [i \in 1 .. m + 1 |-> e(i)]
             h == [i \in 1 .. m + 1 |-> IF i = 1 THEN c[i] ELSE g[i - 1] \o c[i]]
  <2>2. \A i \in 1 .. m + 1 : g[i] = e(i)
    <3> HIDE DEF e
    <3> QED OBVIOUS
  <2>3. \A i \in 1 .. m : (i = 1 => f[i] = c[i]) /\ (i # 1 => f[i] = f[i - 1] \o c[i])
    BY <2>1, UnfoldsValues
  <2>4. ASSUME NEW i \in 1 .. m + 1 PROVE g[i] = IF i = 1 THEN c[i] ELSE g[i - 1] \o c[i]
    <3> HIDE DEF g
    <3>1. CASE i = 1
      <4>1. i \in 1 .. m  BY <3>1, <1>2
      <4>2. f[i] = c[i]  BY <2>3, <3>1, <4>1
      <4> QED BY <3>1, <4>1, <4>2, <2>2
    <3>2. CASE i # 1 /\ i <= m
      <4>1. i \in 1 .. m /\ i - 1 \in 1 .. m /\ i - 1 <= m /\ i - 1 \in 1 .. m + 1  BY <3>2
      <4>2. f[i] = f[i - 1] \o c[i]  BY <2>3, <3>2, <4>1
      <4>3. g[i] = f[i] /\ g[i - 1] = f[i - 1]  BY <2>2, <3>2, <4>1
      <4> QED BY <3>2, <4>2, <4>3
    <3>3. CASE i # 1 /\ i > m
      <4>1. i = m + 1 /\ i - 1 = m /\ m \in 1 .. m + 1 /\ ~(i <= m) /\ m <= m  BY <3>3, <1>2
      <4>2. g[m] = f[m]  BY <2>2, <4>1
      <4>3. g[i] = f[m] \o c[i]  BY <2>2, <4>1
      <4> QED BY <3>3, <4>1, <4>2, <4>3
    <3> QED BY <3>1, <3>2, <3>3
  <2>5. g = h
    <3>1. g = [i \in 1 .. m + 1 |-> g[i]]  OBVIOUS
    <3> HIDE DEF g
    <3> QED BY <2>4, <3>1
  <2> HIDE DEF g
  <2> QED BY <2>5 DEF Unfolds
<1>3. S = {}
  <2> SUFFICES ASSUME S # {} PROVE FALSE  OBVIOUS
  <2>1. PICK m \in S : \A x \in S : m <= x  BY LeastExists
  <2> HIDE DEF P
  <2>2. m # 1  BY <1>1
  <2>3. m - 1 \in Nat /\ m - 1 >= 1 /\ m - 1 \notin S  BY <2>1, <2>2
  <2>4. P(m - 1)  BY <2>3
  <2>5. P((m - 1) + 1)  BY <1>2, <2>3, <2>4
  <2> QED BY <2>5
<1> HIDE DEF P
<1>4. P(n)  BY <1>3
<1> QED BY <1>4 DEF P

\* Two such functions agree where both are defined.
LEMMA FlattenUnique ==
  ASSUME NEW n \in Nat, NEW m \in Nat, n <= m, NEW c,
         NEW f, Unfolds(f, c, n), NEW g, Unfolds(g, c, m)
  PROVE  \A i \in 1 .. n : f[i] = g[i]
<1>1. \A i \in 1 .. n : (i = 1 => f[i] = c[i]) /\ (i # 1 => f[i] = f[i - 1] \o c[i])
  BY UnfoldsValues
<1>2. \A i \in 1 .. m : (i = 1 => g[i] = c[i]) /\ (i # 1 => g[i] = g[i - 1] \o c[i])
  BY UnfoldsValues
<1> DEFINE S == {i \in 1 .. n : f[i] # g[i]}
<1> SUFFICES ASSUME S # {} PROVE FALSE  OBVIOUS
<1>3. S \subseteq Nat  OBVIOUS
<1>4. PICK j \in S : \A x \in S : j <= x  BY <1>3, LeastExists
<1>5. j \in 1 .. n /\ j \in 1 .. m /\ f[j] # g[j]  OBVIOUS
<1>6. j # 1  BY <1>1, <1>2, <1>5
<1>7. j - 1 \in 1 .. n /\ j - 1 \notin S  BY <1>4, <1>5, <1>6
<1>8. f[j - 1] = g[j - 1]  BY <1>7
<1> QED BY <1>1, <1>2, <1>5, <1>6, <1>8

\* Flat is that function.
LEMMA FlatIs ==
  ASSUME NEW n \in Nat \ {0}, NEW c
  PROVE  \E f : Unfolds(f, c, n) /\ Flat(c, n) = f[n]
<1> DEFINE s == [b \in 1 .. n |-> c[b]]
           fl == CHOOSE f : f = [i \in 1 .. n |-> IF i = 1 THEN s[i] ELSE f[i - 1] \o s[i]]
<1>1. Len(s) = n /\ n # 0  OBVIOUS
<1>2. \E f : f = [i \in 1 .. n |-> IF i = 1 THEN s[i] ELSE f[i - 1] \o s[i]]
  BY FlattenFunction DEF Unfolds
<1>3. fl = [i \in 1 .. n |-> IF i = 1 THEN s[i] ELSE fl[i - 1] \o s[i]]
  <2> HIDE DEF s
  <2> QED BY <1>2
<1>4. Flat(c, n) = fl[n]
  <2>1. Flat(c, n) = FlattenSeq(s)  BY DEF Flat
  <2> HIDE DEF s
  <2> QED BY <2>1, <1>1 DEF FlattenSeq
<1> HIDE DEF fl
<1>5. \A i \in 1 .. n : s[i] = c[i]  OBVIOUS
<1> HIDE DEF s
<1>6. Unfolds(fl, c, n)  BY <1>3, <1>5 DEF Unfolds
<1> QED BY <1>4, <1>6

\* No parts make the empty sequence.
LEMMA FlatEmpty == ASSUME NEW c PROVE Flat(c, 0) = <<>>
<1> DEFINE s == [b \in 1 .. 0 |-> c[b]]
<1>1. s = <<>> /\ Len(s) = 0  OBVIOUS
<1>2. Flat(c, 0) = FlattenSeq(s)  BY DEF Flat
<1> HIDE DEF s
<1> QED BY <1>1, <1>2 DEF FlattenSeq

\* One part more.
LEMMA FlatNext ==
  ASSUME NEW n \in Nat, NEW c
  PROVE  /\ n = 0 => Flat(c, n + 1) = c[n + 1]
         /\ n > 0 => Flat(c, n + 1) = Flat(c, n) \o c[n + 1]
<1>1. PICK g : Unfolds(g, c, n + 1) /\ Flat(c, n + 1) = g[n + 1]
  <2>1. n + 1 \in Nat \ {0}  OBVIOUS
  <2> QED BY <2>1, FlatIs
<1>2. \A i \in 1 .. n + 1 : (i = 1 => g[i] = c[i]) /\ (i # 1 => g[i] = g[i - 1] \o c[i])
  <2>1. n + 1 \in Nat  OBVIOUS
  <2> QED BY <1>1, <2>1, UnfoldsValues
<1>3. CASE n = 0
  <2>1. 1 \in 1 .. n + 1  BY <1>3
  <2> QED BY <1>1, <1>2, <1>3, <2>1
<1>4. CASE n > 0
  <2>1. n \in Nat \ {0} /\ n + 1 \in Nat /\ n <= n + 1 /\ n \in 1 .. n /\ n + 1 \in 1 .. n + 1
        /\ n + 1 # 1 /\ (n + 1) - 1 = n
    BY <1>4
  <2>2. PICK f : Unfolds(f, c, n) /\ Flat(c, n) = f[n]  BY <2>1, FlatIs
  <2>3. \A i \in 1 .. n : f[i] = g[i]  BY <2>1, <2>2, <1>1, FlattenUnique
  <2>4. g[n + 1] = g[(n + 1) - 1] \o c[n + 1]  BY <1>2, <2>1
  <2> QED BY <1>1, <1>4, <2>1, <2>2, <2>3, <2>4
<1> QED BY <1>3, <1>4

\* Flat is a sequence, and adds one part after the other.
LEMMA FlatStep ==
  ASSUME NEW m \in Nat, NEW S, NEW c, AreSeqs(c, m, S)
  PROVE  /\ Flat(c, 0) = <<>>
         /\ \A n \in 0 .. m : Flat(c, n) \in Seq(S)
         /\ \A n \in 0 .. m - 1 : Flat(c, n + 1) = Flat(c, n) \o c[n + 1]
<1>0. Flat(c, 0) = <<>> /\ <<>> \in Seq(S)  BY FlatEmpty
<1>1. ASSUME NEW n \in 0 .. m - 1, Flat(c, n) \in Seq(S)
      PROVE  Flat(c, n + 1) = Flat(c, n) \o c[n + 1] /\ Flat(c, n + 1) \in Seq(S)
  <2>1. n \in Nat /\ n + 1 \in 1 .. m /\ c[n + 1] \in Seq(S)  BY DEF AreSeqs
  <2>2. (n = 0 => Flat(c, n + 1) = c[n + 1]) /\ (n > 0 => Flat(c, n + 1) = Flat(c, n) \o c[n + 1])
    BY <2>1, FlatNext
  <2>3. <<>> \o c[n + 1] = c[n + 1]  BY <2>1, ConcatEmptySeq
  <2>4. Flat(c, n) \o c[n + 1] \in Seq(S)  BY <2>1, <1>1, ConcatProperties
  <2>5. Flat(c, n + 1) = Flat(c, n) \o c[n + 1]
    <3>1. CASE n = 0  BY <1>0, <2>2, <2>3, <3>1
    <3>2. CASE n > 0  BY <2>2, <3>2
    <3> QED BY <2>1, <3>1, <3>2
  <2> QED BY <2>4, <2>5
<1> DEFINE B == {n \in 0 .. m : Flat(c, n) \notin Seq(S)}
<1>2. B = {}
  <2> SUFFICES ASSUME B # {} PROVE FALSE  OBVIOUS
  <2>1. B \subseteq Nat  OBVIOUS
  <2>2. PICK n \in B : \A x \in B : n <= x  BY <2>1, LeastExists
  <2>3. n # 0  BY <1>0
  <2>4. n - 1 \in 0 .. m - 1 /\ n - 1 \notin B /\ n - 1 \in 0 .. m  BY <2>2, <2>3
  <2>5. Flat(c, (n - 1) + 1) \in Seq(S)  BY <2>4, <1>1
  <2>6. (n - 1) + 1 = n  BY <2>4
  <2> QED BY <2>5, <2>6
<1>3. \A n \in 0 .. m : Flat(c, n) \in Seq(S)  BY <1>2
<1>4. ASSUME NEW n \in 0 .. m - 1 PROVE Flat(c, n + 1) = Flat(c, n) \o c[n + 1]
  <2>1. n \in 0 .. m  OBVIOUS
  <2> QED BY <1>1, <1>3, <2>1
<1> QED BY <1>0, <1>3, <1>4

\* Equal parts make equal sequences.
LEMMA FlatSame ==
  ASSUME NEW n, NEW c, NEW d, \A i \in 1 .. n : c[i] = d[i]
  PROVE  Flat(c, n) = Flat(d, n)
<1>1. [b \in 1 .. n |-> c[b]] = [b \in 1 .. n |-> d[b]]  OBVIOUS
<1> QED BY <1>1 DEF Flat

\* Concatenation is associative.
Regroups(p, q, r) == (p \o q) \o r = p \o (q \o r)

\* Concatenation is associative.
LEMMA Associative == \A S : \A p, q, r \in Seq(S) : Regroups(p, q, r)
BY ConcatAssociative DEF Regroups

\* d has one row more than c in part n, the last.
AddsRow(c, d, n, x) == (\A i \in 1 .. n - 1 : d[i] = c[i]) /\ d[n] = Append(c[n], x)

\* A row more in the last part is a row more at the end.
LEMMA FlatAppend ==
  ASSUME NEW n \in Nat \ {0}, NEW S, NEW c, AreSeqs(c, n, S),
         NEW x \in S, NEW d, AddsRow(c, d, n, x)
  PROVE  Flat(d, n) = Append(Flat(c, n), x)
<1>0. /\ \A i \in 1 .. n - 1 : d[i] = c[i]
      /\ d[n] = Append(c[n], x)
  BY DEF AddsRow
<1>1. n - 1 \in Nat /\ (n - 1) + 1 = n /\ n \in Nat /\ n \in 1 .. n /\ n - 1 \in 0 .. n
      /\ n - 1 \in 0 .. n - 1
  OBVIOUS
<1>2. c[n] \in Seq(S) /\ <<x>> \in Seq(S)  BY <1>1 DEF AreSeqs
<1>3. d[n] = c[n] \o <<x>>  BY <1>0, <1>2, AppendIsConcat
<1>4. AreSeqs(d, n, S)
  <2> SUFFICES ASSUME NEW i \in 1 .. n PROVE d[i] \in Seq(S)  BY DEF AreSeqs
  <2>1. CASE i = n
    <3>1. Append(c[n], x) \in Seq(S)  BY <1>2
    <3> QED BY <1>0, <2>1, <3>1
  <2>2. CASE i # n
    <3>1. i \in 1 .. n - 1  BY <2>2
    <3> QED BY <1>0, <3>1 DEF AreSeqs
  <2> QED BY <2>1, <2>2
<1>5. Flat(d, n - 1) = Flat(c, n - 1)  BY <1>0, FlatSame
<1>6. /\ \A j \in 0 .. n : Flat(c, j) \in Seq(S)
      /\ \A j \in 0 .. n - 1 : Flat(c, j + 1) = Flat(c, j) \o c[j + 1]
  BY FlatStep
<1>7. Flat(c, n - 1) \in Seq(S) /\ Flat(c, n) \in Seq(S)  BY <1>1, <1>6
<1>8. \A j \in 0 .. n - 1 : Flat(d, j + 1) = Flat(d, j) \o d[j + 1]
  BY <1>4, FlatStep
<1>9. Flat(d, n) = Flat(c, n - 1) \o (c[n] \o <<x>>)
  <2>1. Flat(d, (n - 1) + 1) = Flat(d, n - 1) \o d[(n - 1) + 1]  BY <1>1, <1>8
  <2> QED BY <2>1, <1>1, <1>3, <1>5
<1>10. Flat(c, n) = Flat(c, n - 1) \o c[n]
  <2>1. Flat(c, (n - 1) + 1) = Flat(c, n - 1) \o c[(n - 1) + 1]  BY <1>1, <1>6
  <2> QED BY <2>1, <1>1
<1>11. Regroups(Flat(c, n - 1), c[n], <<x>>)  BY <1>2, <1>7, Associative
<1>12. Append(Flat(c, n), x) = Flat(c, n) \o <<x>>  BY <1>7, AppendIsConcat
<1> QED BY <1>9, <1>10, <1>11, <1>12 DEF Regroups

\* The parts up to lo, then those above it: d has nothing up to lo.
LEMMA FlatMoved ==
  ASSUME NEW m \in Nat, NEW lo \in 0 .. m, NEW S,
         NEW c, AreSeqs(c, m, S),
         NEW d, \A i \in 1 .. m : d[i] = IF i <= lo THEN <<>> ELSE c[i]
  PROVE  Flat(c, lo) \o Flat(d, m) = Flat(c, m)
<1>1. AreSeqs(d, m, S)
  <2>1. <<>> \in Seq(S)  OBVIOUS
  <2> QED BY <2>1 DEF AreSeqs
<1>2. /\ \A n \in 0 .. m : Flat(c, n) \in Seq(S)
      /\ \A n \in 0 .. m - 1 : Flat(c, n + 1) = Flat(c, n) \o c[n + 1]
  BY FlatStep
<1>3. /\ Flat(d, 0) = <<>> /\ \A n \in 0 .. m : Flat(d, n) \in Seq(S)
      /\ \A n \in 0 .. m - 1 : Flat(d, n + 1) = Flat(d, n) \o d[n + 1]
  BY <1>1, FlatStep
<1> DEFINE P(n) == IF n <= lo THEN Flat(d, n) = <<>> ELSE Flat(c, lo) \o Flat(d, n) = Flat(c, n)
           B == {n \in 0 .. m : ~P(n)}
<1>4. P(0)  BY <1>3
<1>5. ASSUME NEW n \in 0 .. m - 1, P(n) PROVE P(n + 1)
  <2>1. n + 1 \in 1 .. m /\ n \in 0 .. m /\ lo \in 0 .. m  OBVIOUS
  <2>2. Flat(d, n + 1) = Flat(d, n) \o d[n + 1] /\ Flat(c, n + 1) = Flat(c, n) \o c[n + 1]
    BY <1>2, <1>3
  <2>3. /\ Flat(c, lo) \in Seq(S) /\ Flat(d, n) \in Seq(S) /\ Flat(c, n) \in Seq(S)
        /\ c[n + 1] \in Seq(S) /\ d[n + 1] \in Seq(S)
    BY <1>1, <1>2, <1>3, <2>1 DEF AreSeqs
  <2>4. CASE n + 1 <= lo
    <3>1. Flat(d, n) = <<>> /\ d[n + 1] = <<>>  BY <1>5, <2>1, <2>4
    <3>2. Flat(d, n + 1) = <<>>  BY <2>2, <3>1
    <3> QED BY <2>4, <3>2
  <2>5. CASE n + 1 > lo
    <3>1. d[n + 1] = c[n + 1]  BY <2>1, <2>5
    <3>2. Flat(c, lo) \o Flat(d, n) = Flat(c, n)
      <4>1. CASE n <= lo
        <5>1. n = lo /\ Flat(d, n) = <<>>  BY <1>5, <2>5, <4>1
        <5>2. Flat(c, lo) \o <<>> = Flat(c, lo)  BY <2>3, ConcatEmptySeq
        <5> QED BY <5>1, <5>2
      <4>2. CASE ~(n <= lo)  BY <1>5, <4>2
      <4> QED BY <4>1, <4>2
    <3>3. Regroups(Flat(c, lo), Flat(d, n), c[n + 1])  BY <2>3, Associative
    <3>4. Flat(c, lo) \o Flat(d, n + 1) = Flat(c, n + 1)
      BY <2>2, <3>1, <3>2, <3>3 DEF Regroups
    <3>5. ~(n + 1 <= lo)  BY <2>5
    <3> QED BY <3>4, <3>5
  <2> QED BY <2>4, <2>5
<1> HIDE DEF P
<1>6. B = {}
  <2> SUFFICES ASSUME B # {} PROVE FALSE  OBVIOUS
  <2>1. B \subseteq Nat  OBVIOUS
  <2>2. PICK n \in B : \A x \in B : n <= x  BY <2>1, LeastExists
  <2>3. n # 0 /\ n \in 0 .. m /\ ~P(n)  BY <1>4
  <2>4. n - 1 \in 0 .. m - 1 /\ n - 1 \notin B /\ n - 1 \in 0 .. m /\ (n - 1) + 1 = n
    BY <2>2, <2>3
  <2>5. P((n - 1) + 1)  BY <2>4, <1>5
  <2> QED BY <2>3, <2>4, <2>5
<1>7. P(m)  BY <1>6
<1>8. CASE m <= lo
  <2>1. m = lo /\ Flat(d, m) = <<>> /\ Flat(c, lo) \in Seq(S)  BY <1>2, <1>7, <1>8 DEF P
  <2> QED BY <2>1, ConcatEmptySeq
<1>9. CASE ~(m <= lo)  BY <1>7, <1>9 DEF P
<1> QED BY <1>8, <1>9

\* q begins with p.
Begins(p, q, S) == \E r \in Seq(S) : q = p \o r

\* What agrees before part m and has a beginning of part m is a beginning.
LEMMA FlatPrefix ==
  ASSUME NEW n \in Nat, NEW m \in 0 .. n, NEW S,
         NEW c, AreSeqs(c, m, S),
         NEW d, AreSeqs(d, n, S),
         \A i \in 1 .. m - 1 : c[i] = d[i],
         m > 0 => Begins(c[m], d[m], S)
  PROVE  Begins(Flat(c, m), Flat(d, n), S)
<1>1. m \in Nat /\ m \in 0 .. m  OBVIOUS
<1>2. /\ Flat(c, 0) = <<>> /\ \A j \in 0 .. m : Flat(c, j) \in Seq(S)
      /\ \A j \in 0 .. m - 1 : Flat(c, j + 1) = Flat(c, j) \o c[j + 1]
  BY <1>1, FlatStep
<1>3. /\ Flat(d, 0) = <<>> /\ \A j \in 0 .. n : Flat(d, j) \in Seq(S)
      /\ \A j \in 0 .. n - 1 : Flat(d, j + 1) = Flat(d, j) \o d[j + 1]
  BY FlatStep
<1> DEFINE P(j) == Begins(Flat(c, m), Flat(d, j), S)
           B == {j \in m .. n : ~P(j)}
<1>4. P(m)
  <2>1. CASE m = 0
    <3>1. <<>> \in Seq(S) /\ <<>> \o <<>> = <<>>  BY ConcatEmptySeq
    <3> QED BY <1>2, <1>3, <2>1, <3>1 DEF Begins
  <2>2. CASE m > 0
    <3>1. m - 1 \in 0 .. m - 1 /\ m - 1 \in 0 .. n - 1 /\ m - 1 \in 0 .. m /\ (m - 1) + 1 = m
          /\ m \in 1 .. m
      BY <2>2
    <3>2. PICK r \in Seq(S) : d[m] = c[m] \o r  BY <2>2 DEF Begins
    <3>3. Flat(c, m - 1) = Flat(d, m - 1)  BY FlatSame
    <3>4. Flat(c, (m - 1) + 1) = Flat(c, m - 1) \o c[(m - 1) + 1]
          /\ Flat(d, (m - 1) + 1) = Flat(d, m - 1) \o d[(m - 1) + 1]
      BY <1>2, <1>3, <3>1
    <3>5. Flat(c, m) = Flat(c, m - 1) \o c[m] /\ Flat(d, m) = Flat(d, m - 1) \o d[m]
      BY <3>1, <3>4
    <3>6. Flat(c, m - 1) \in Seq(S) /\ c[m] \in Seq(S)  BY <1>2, <3>1 DEF AreSeqs
    <3>7. Regroups(Flat(c, m - 1), c[m], r)  BY <3>6, Associative
    <3>8. Flat(d, m) = Flat(c, m) \o r  BY <3>2, <3>3, <3>5, <3>7 DEF Regroups
    <3> QED BY <3>8 DEF Begins
  <2> HIDE DEF P
  <2> QED BY <2>1, <2>2
<1>5. ASSUME NEW j \in m .. n - 1, P(j) PROVE P(j + 1)
  <2>1. j \in 0 .. n - 1 /\ j + 1 \in 1 .. n  OBVIOUS
  <2>2. PICK r \in Seq(S) : Flat(d, j) = Flat(c, m) \o r  BY <1>5 DEF Begins
  <2>3. Flat(d, j + 1) = Flat(d, j) \o d[j + 1]  BY <1>3, <2>1
  <2>4. d[j + 1] \in Seq(S) /\ Flat(c, m) \in Seq(S)  BY <1>1, <1>2, <2>1 DEF AreSeqs
  <2>5. Regroups(Flat(c, m), r, d[j + 1])  BY <2>4, Associative
  <2>6. r \o d[j + 1] \in Seq(S)  BY <2>4, ConcatProperties
  <2> QED BY <2>2, <2>3, <2>5, <2>6 DEF Regroups, Begins
<1> HIDE DEF P
<1>6. B = {}
  <2> SUFFICES ASSUME B # {} PROVE FALSE  OBVIOUS
  <2>1. B \subseteq Nat  OBVIOUS
  <2>2. PICK j \in B : \A x \in B : j <= x  BY <2>1, LeastExists
  <2>3. j # m /\ j \in m .. n /\ ~P(j)  BY <1>4
  <2>4. j - 1 \in m .. n - 1 /\ j - 1 \notin B /\ j - 1 \in m .. n /\ (j - 1) + 1 = j
    BY <2>2, <2>3
  <2>5. P((j - 1) + 1)  BY <2>4, <1>5
  <2> QED BY <2>3, <2>4, <2>5
<1>7. n \in m .. n  OBVIOUS
<1>8. P(n)  BY <1>6, <1>7
<1> QED BY <1>8 DEF P

-----------------------------------------------------------------------------
(* Where every row is *)

Row == Nat \X Nat
\* The first n rows of batch b, and those of every batch.
Part(b, n) == [i \in 1 .. n |-> <<b, i>>]
Parts(k) == [b \in Batches |-> Part(b, k[b])]

\* Where a task has a chunk to sink.
Sinking == {"sink", "check", "block", "append"}

\* What a task still has to sink of its batch.
TodoType ==
  /\ chunks \in [Batches -> Nat] /\ todo \in [Tasks -> Nat] /\ remaining \in [Tasks -> BOOLEAN]
TaskTodo(t) ==
  /\ t \notin started => todo[t] = 0 /\ ~remaining[t]
  /\ todo[t] > 0 => batch[t] \in Batches
  /\ pc[t] \in Sinking \/ remaining[t] => todo[t] > 0
  /\ pc[t] \in Sinking \union Between => ~remaining[t]
  /\ pc[t] \in {"combine", "finished"} => batch[t] = MaxBatchIndex
OneOwner ==
  \A t, u \in Tasks : todo[t] > 0 /\ todo[u] > 0 /\ batch[t] = batch[u] => t = u

TodoInv == TodoType /\ OneOwner /\ \A t \in Tasks : TaskTodo(t)

\* k[b] chunks of batch b were sunk, and where they are.
SunkCount(k) ==
  /\ \A b \in Batches : b >= next => k[b] = 0
  /\ \A t \in Tasks : todo[t] > 0 => k[batch[t]] = chunks[batch[t]] - todo[t]
  /\ \A b \in Batches :
       b < next => k[b] = chunks[b] \/ \E t \in Tasks : todo[t] > 0 /\ batch[t] = b
SunkPlace(k) ==
  /\ \A b \in Batches : b > min_batch => buffer[b] = Part(b, k[b])
  /\ delivered \o read_queue = Flat(Parts(k), Min2(min_batch, NBatches))

RowsInv ==
  /\ delivered \in Seq(Row) /\ read_queue \in Seq(Row)
  /\ \E k \in [Batches -> Nat] : SunkCount(k) /\ SunkPlace(k)

\* Who saw that no task has a batch left passes that on before it finishes.
EndInv ==
  started # {} /\ (\A u \in started : index[u] = MaxBatchIndex) =>
    \/ min_batch = MaxBatchIndex
    \/ \E t \in started : minIndex[t] = MaxBatchIndex /\ pc[t] # "finished"

\* The reader looks for a chunk where there is one, or at the end.
ReaderInv ==
  /\ rpc # "done" => outcome = "open"
  /\ last = "finished" => \A t \in Tasks : pc[t] = "finished"
  /\ rpc = "scan" => read_queue # <<>> \/ last = "finished"
  /\ rpc = "recheck" => last \in {"blocked", "not_ready", "finished", "error"}

OrderInv == TodoInv /\ RowsInv /\ EndInv /\ ReaderInv

\* A part is a sequence of rows, and one chunk more is one row more at its end.
LEMMA PartProperties ==
  ASSUME NEW b \in Nat, NEW n \in Nat
  PROVE  /\ Part(b, n) \in Seq(Row) /\ Len(Part(b, n)) = n
         /\ Part(b, n + 1) = Append(Part(b, n), <<b, n + 1>>)
         /\ Part(b, 0) = <<>>
<1>1. Part(b, n) \in Seq(Row) /\ Len(Part(b, n)) = n  BY DEF Part, Row
<1>2. Part(b, n + 1) = Append(Part(b, n), <<b, n + 1>>)  BY DEF Part
<1>3. Part(b, 0) = <<>>  BY DEF Part
<1> QED BY <1>1, <1>2, <1>3

\* Fewer rows of a batch are a beginning of more rows of it.
LEMMA PartBegins ==
  ASSUME NEW b \in Nat, NEW n \in Nat, NEW m \in Nat, n <= m
  PROVE  Begins(Part(b, n), Part(b, m), Row)
<1> DEFINE r == [i \in 1 .. m - n |-> <<b, n + i>>]
<1>1. r \in Seq(Row)  BY DEF Row
<1>2. Len(r) = m - n  OBVIOUS
<1>3. Part(b, n) \in Seq(Row) /\ Len(Part(b, n)) = n /\ Part(b, m) \in Seq(Row) /\ Len(Part(b, m)) = m
  BY PartProperties
<1>4. \A i \in 1 .. m : Part(b, m)[i] = <<b, i>>  BY DEF Part
<1>5. \A i \in 1 .. n : Part(b, n)[i] = <<b, i>>  BY DEF Part
<1>6. \A i \in 1 .. m - n : r[i] = <<b, n + i>>  OBVIOUS
<1> HIDE DEF r
<1>7. /\ Part(b, n) \o r \in Seq(Row) /\ Len(Part(b, n) \o r) = m
      /\ \A i \in 1 .. m : (Part(b, n) \o r)[i] =
            IF i <= n THEN Part(b, n)[i] ELSE r[i - n]
  <2>1. ASSUME NEW p \in Seq(Row), NEW q \in Seq(Row), Len(p) + Len(q) = m, Len(p) = n
        PROVE  /\ p \o q \in Seq(Row) /\ Len(p \o q) = m
               /\ \A i \in 1 .. m : (p \o q)[i] = IF i <= n THEN p[i] ELSE q[i - n]
    BY <2>1, ConcatProperties
  <2>2. n + (m - n) = m  OBVIOUS
  <2> QED BY <1>1, <1>2, <1>3, <2>1, <2>2
<1>8. \A i \in 1 .. m : (Part(b, n) \o r)[i] = Part(b, m)[i]
  <2> SUFFICES ASSUME NEW i \in 1 .. m PROVE (Part(b, n) \o r)[i] = Part(b, m)[i]
    OBVIOUS
  <2>1. CASE i <= n
    <3>1. i \in 1 .. n  BY <2>1
    <3> QED BY <1>4, <1>5, <1>7, <2>1, <3>1
  <2>2. CASE ~(i <= n)
    <3>1. i - n \in 1 .. m - n /\ n + (i - n) = i  BY <2>2
    <3>2. r[i - n] = <<b, i>>  BY <1>6, <3>1
    <3> QED BY <1>4, <1>7, <2>2, <3>2
  <2> QED BY <2>1, <2>2
<1>9. Part(b, m) = Part(b, n) \o r
  <2> DEFINE p == Part(b, m)
             q == Part(b, n) \o r
  <2>1. p \in Seq(Row) /\ q \in Seq(Row) /\ Len(p) = m /\ Len(q) = m /\ \A i \in 1 .. m : p[i] = q[i]
    BY <1>3, <1>7, <1>8
  <2> HIDE DEF p, q
  <2>2. p = q  BY <2>1, SeqEqual
  <2> QED BY <2>2 DEF p, q
<1> QED BY <1>1, <1>9 DEF Begins

\* The parts are sequences of rows.
LEMMA PartsAreSeqs ==
  ASSUME NEW k \in [Batches -> Nat], NEW m \in 0 .. NBatches
  PROVE  AreSeqs(Parts(k), m, Row) /\ \A b \in Batches : Parts(k)[b] = Part(b, k[b])
<1>1. \A b \in Batches : Parts(k)[b] = Part(b, k[b])  BY DEF Parts
<1>2. \A b \in Batches : b \in Nat /\ k[b] \in Nat  BY DEF Batches
<1>3. \A b \in Batches : Part(b, k[b]) \in Seq(Row)  BY <1>2, PartProperties
<1>4. \A b \in 1 .. m : b \in Batches  BY BatchesAssumption DEF Batches
<1>5. \A b \in 1 .. m : Parts(k)[b] \in Seq(Row)  BY <1>1, <1>3, <1>4
<1> QED BY <1>1, <1>5 DEF AreSeqs

\* The rows of the query, as the reader should see them.
LEMMA RowsAre == Rows = Flat(Parts(chunks), NBatches)
<1>1. \A b \in Batches : Parts(chunks)[b] = [i \in 1 .. chunks[b] |-> <<b, i>>]  BY DEF Parts, Part
<1>2. [b \in 1 .. NBatches |-> Parts(chunks)[b]] =
        [b \in Batches |-> [i \in 1 .. chunks[b] |-> <<b, i>>]]
  BY <1>1 DEF Batches
<1> QED BY <1>2 DEF Rows, Flat

-----------------------------------------------------------------------------
(* What is left to sink *)

\* A task goes on without taking or sinking anything.
LEMMA TodoGoes ==
  ASSUME StreamInv, TodoInv, UNCHANGED <<chunks, started, batch, todo>>,
         NEW t \in Tasks, NEW l, Goto(t, l),
         \/ remaining' = remaining
         \/ \E v \in BOOLEAN : remaining' = [remaining EXCEPT ![t] = v] /\ (v => todo[t] > 0)
                               /\ (v => t \in started),
         l \in Sinking => todo[t] > 0,
         l \in Sinking \union Between => ~remaining'[t],
         l \in {"combine", "finished"} => batch[t] = MaxBatchIndex
  PROVE  TodoInv'
<1>1. pc \in [Tasks -> PC]  BY DEF StreamInv, ControlType
<1>2. TodoType'  BY DEF TodoInv, TodoType
<1>3. OneOwner'  BY DEF TodoInv, OneOwner
<1>4. ASSUME NEW u \in Tasks PROVE TaskTodo(u)'
  <2>1. TaskTodo(u)  BY DEF TodoInv
  <2>2. CASE u = t
    <3>1. pc'[u] = l  BY <1>1, <2>2 DEF Goto
    <3>2. (remaining'[u] => todo[u] > 0) /\ (u \notin started => ~remaining'[u])
      BY <2>1, <2>2 DEF TaskTodo, TodoInv, TodoType
    <3> QED BY <2>1, <2>2, <3>1, <3>2 DEF TaskTodo
  <2>3. CASE u # t
    <3>1. pc'[u] = pc[u] /\ remaining'[u] = remaining[u]
      BY <1>1, <2>3 DEF Goto, TodoInv, TodoType
    <3> QED BY <2>1, <3>1 DEF TaskTodo
  <2> QED BY <2>2, <2>3
<1> QED BY <1>2, <1>3, <1>4 DEF TodoInv

\* A task that registers has nothing to sink, and owns no batch yet.
LEMMA TodoRegister ==
  ASSUME StreamInv, TodoInv, NEW t \in Tasks, RegisterNewBatchIndex(t)
  PROVE  TodoInv'
<1>1. pc \in [Tasks -> PC] /\ batch \in [Tasks -> 0 .. MaxBatchIndex]
  BY DEF StreamInv, ControlType
<1>2. /\ pc[t] = "start" /\ pc' = [pc EXCEPT ![t] = "top"] /\ started' = started \union {t}
      /\ UNCHANGED <<chunks, todo, remaining>>
  BY DEF RegisterNewBatchIndex, Goto, taskFrame
<1>3. PICK m : batch' = [batch EXCEPT ![t] = m]  BY DEF RegisterNewBatchIndex
<1>4. t \notin started  BY <1>2 DEF StreamInv, StartedInv
<1>5. todo[t] = 0 /\ ~remaining[t]  BY <1>4 DEF TodoInv, TaskTodo
<1>6. \A u \in Tasks : todo[u] > 0 => batch'[u] = batch[u]  BY <1>1, <1>3, <1>5
<1>7. TodoType'  BY <1>2 DEF TodoInv, TodoType
<1>8. OneOwner'  BY <1>2, <1>6 DEF TodoInv, OneOwner
<1>9. ASSUME NEW u \in Tasks PROVE TaskTodo(u)'
  <2>1. TaskTodo(u)  BY DEF TodoInv
  <2>2. CASE u = t
    <3>1. pc'[u] = "top"  BY <1>1, <1>2, <2>2
    <3> QED BY <1>2, <1>5, <2>2, <3>1 DEF TaskTodo, Sinking, Between
  <2>3. CASE u # t
    <3>1. pc'[u] = pc[u] /\ batch'[u] = batch[u]  BY <1>1, <1>2, <1>3, <2>3
    <3> QED BY <1>2, <2>1, <2>3, <3>1 DEF TaskTodo
  <2> QED BY <2>2, <2>3
<1> QED BY <1>7, <1>8, <1>9 DEF TodoInv

\* A task takes a batch only when it sank all of the one it had, and no other task
\* is given the same.
LEMMA TodoRunLoop ==
  ASSUME StreamInv, TodoInv, NEW t \in Tasks, RunLoop(t)
  PROVE  TodoInv'
<1>1. /\ pc \in [Tasks -> PC] /\ batch \in [Tasks -> 0 .. MaxBatchIndex]
      /\ next \in 1 .. MaxBatchIndex /\ started \subseteq Tasks
  BY DEF StreamInv, ControlType
<1>2. /\ pc[t] \in {"top", "again"} /\ UNCHANGED <<chunks, started>>
      /\ remaining' = [remaining EXCEPT ![t] = FALSE]
  BY DEF RunLoop, taskFrame
<1>3. ~remaining'[t]  BY <1>2 DEF TodoInv, TodoType
<1>4. CASE Goto(t, "sink") /\ UNCHANGED <<batch, todo>> /\ (remaining[t] \/ todo[t] > 0)
  <2>1. todo[t] > 0  BY <1>4 DEF TodoInv, TaskTodo
  <2> QED BY <1>2, <1>3, <1>4, <2>1, TodoGoes
<1>5. CASE Goto(t, "combine") /\ UNCHANGED <<batch, todo>> /\ batch[t] = MaxBatchIndex
  <2>1. "combine" \notin Sinking \union Between  BY DEF Sinking, Between
  <2> QED BY <1>2, <1>5, <2>1, TodoGoes
<1>6. CASE /\ Goto(t, "next") /\ batch' = [batch EXCEPT ![t] = next] /\ todo[t] = 0
           /\ todo' = [todo EXCEPT ![t] = IF next \in Batches THEN chunks[next] ELSE 0]
  <2>1. t \in started  BY <1>2 DEF StreamInv, StartedInv, Registered, Running
  <2>2. /\ pc'[t] = "next" /\ batch'[t] = next /\ todo'[t] \in Nat
        /\ (todo'[t] > 0 => next \in Batches)
    BY <1>1, <1>6 DEF Goto, TodoInv, TodoType
  <2>3. \A u \in Tasks : u # t => /\ pc'[u] = pc[u] /\ batch'[u] = batch[u] /\ todo'[u] = todo[u]
                                  /\ remaining'[u] = remaining[u]
    BY <1>1, <1>2, <1>6 DEF Goto, TodoInv, TodoType
  <2>4. TodoType'  BY <1>2, <1>6 DEF TodoInv, TodoType
  <2>5. \A u \in Tasks : todo[u] > 0 /\ next \in Batches => batch[u] # next
    <3> SUFFICES ASSUME NEW u \in Tasks, todo[u] > 0, next \in Batches PROVE batch[u] # next
      OBVIOUS
    <3>1. u \in started
      <4>1. TaskTodo(u)  BY DEF TodoInv
      <4> QED BY <4>1 DEF TaskTodo
    <3>2. batch[u] < next \/ next = MaxBatchIndex  BY <3>1 DEF StreamInv, IndexInv
    <3>3. next # MaxBatchIndex  BY BatchesAssumption DEF Batches, MaxBatchIndex
    <3>4. batch[u] \in 0 .. MaxBatchIndex  BY <1>1
    <3> QED BY <1>1, <3>2, <3>3, <3>4, BatchesAssumption DEF MaxBatchIndex
  <2>6. OneOwner'
    <3> SUFFICES ASSUME NEW u \in Tasks, NEW v \in Tasks, todo'[u] > 0, todo'[v] > 0,
                        batch'[u] = batch'[v]
                 PROVE  u = v
      BY DEF OneOwner
    <3>1. CASE u = t /\ v # t  BY <2>2, <2>3, <2>5, <3>1
    <3>2. CASE v = t /\ u # t  BY <2>2, <2>3, <2>5, <3>2
    <3>3. CASE u # t /\ v # t  BY <2>3, <3>3 DEF TodoInv, OneOwner
    <3> QED BY <3>1, <3>2, <3>3
  <2>7. ASSUME NEW u \in Tasks PROVE TaskTodo(u)'
    <3>1. TaskTodo(u)  BY DEF TodoInv
    <3>2. CASE u = t
      BY <1>2, <1>3, <2>1, <2>2, <3>2 DEF TaskTodo, Sinking
    <3>3. CASE u # t  BY <1>2, <2>3, <3>1, <3>3 DEF TaskTodo
    <3> QED BY <3>2, <3>3
  <2> QED BY <2>4, <2>6, <2>7 DEF TodoInv
<1> QED BY <1>4, <1>5, <1>6 DEF RunLoop

\* A chunk that was appended to the buffer is one less to sink.
LEMMA TodoAppend ==
  ASSUME StreamInv, TodoInv, NEW t \in Tasks, AppendChunk(t)
  PROVE  TodoInv'
<1>1. pc \in [Tasks -> PC]  BY DEF StreamInv, ControlType
<1>2. /\ pc[t] = "append" /\ pc' = [pc EXCEPT ![t] = "again"]
      /\ todo' = [todo EXCEPT ![t] = @ - 1]
      /\ UNCHANGED <<chunks, started, batch, remaining>>
  BY DEF AppendChunk, Goto, taskFrame
<1>3. TaskTodo(t) /\ t \in started
  BY <1>2 DEF TodoInv, StreamInv, StartedInv, Registered, Running
<1>4. todo[t] > 0 /\ ~remaining[t]  BY <1>2, <1>3 DEF TaskTodo, Sinking
<1>5. todo'[t] = todo[t] - 1 /\ todo[t] \in Nat /\ todo'[t] \in Nat
      /\ \A u \in Tasks : u # t => todo'[u] = todo[u] /\ pc'[u] = pc[u]
  BY <1>1, <1>2, <1>4 DEF TodoInv, TodoType
<1>6. TodoType'  BY <1>2, <1>5 DEF TodoInv, TodoType
<1>7. OneOwner'
  <2>1. \A u \in Tasks : todo'[u] > 0 => todo[u] > 0  BY <1>4, <1>5
  <2> QED BY <1>2, <2>1 DEF TodoInv, OneOwner
<1>8. ASSUME NEW u \in Tasks PROVE TaskTodo(u)'
  <2>1. TaskTodo(u)  BY DEF TodoInv
  <2>2. CASE u = t
    <3>1. pc'[u] = "again"  BY <1>1, <1>2, <2>2
    <3> QED BY <1>2, <1>3, <1>4, <1>5, <2>2, <3>1 DEF TaskTodo, Sinking, Between
  <2>3. CASE u # t  BY <1>2, <1>5, <2>1, <2>3 DEF TaskTodo
  <2> QED BY <2>2, <2>3
<1> QED BY <1>6, <1>7, <1>8 DEF TodoInv

\* Every step of a task keeps what is left to sink.
LEMMA TodoTaskSteps ==
  ASSUME StreamInv, TodoInv, NEW t \in Tasks, WorkerTakes(t) \/ TaskStep(t)
  PROVE  TodoInv'
<1> USE DEF taskVars, taskFrame, Leave
<1>0. TaskTodo(t)  BY DEF TodoInv
<1>1. CASE WorkerTakes(t)
  <2>1. PICK l \in {"top", "start"} : Goto(t, l)  BY <1>1 DEF WorkerTakes
  <2> QED BY <1>1, <2>1, TodoGoes DEF WorkerTakes, Sinking, Between
<1>2. CASE TaskThrows(t)
  BY <1>2, TodoGoes DEF TaskThrows, Sinking, Between
<1>3. CASE PartialReturns(t)
  BY <1>3, TodoGoes DEF PartialReturns, Sinking, Between
<1>4. CASE CompleteBatch(t)
  <2>1. ~remaining[t]  BY <1>0, <1>4 DEF CompleteBatch, TaskTodo, Between
  <2> QED BY <1>4, <2>1, TodoGoes DEF CompleteBatch, Sinking
<1>5. CASE PassOldMinimum(t)
  <2>1. ~remaining[t]  BY <1>0, <1>5 DEF PassOldMinimum, TaskTodo, Between
  <2> QED BY <1>5, <2>1, TodoGoes DEF PassOldMinimum, Sinking
<1>6. CASE UpdateBatchIndex(t)
  <2>1. ~remaining[t]  BY <1>0, <1>6 DEF UpdateBatchIndex, TaskTodo, Between
  <2>2. PICK l \in {"sink", "again"} : Goto(t, l) /\ (l = "sink" => todo[t] > 0)
    BY <1>6 DEF UpdateBatchIndex
  <2> QED BY <1>6, <2>1, <2>2, TodoGoes DEF UpdateBatchIndex, Sinking
<1>7. CASE SinkMinimum(t)
  <2>1. ~remaining[t] /\ todo[t] > 0  BY <1>0, <1>7 DEF SinkMinimum, TaskTodo, Sinking
  <2> QED BY <1>7, <2>1, TodoGoes DEF SinkMinimum
<1>8. CASE ShouldBlockBatch(t)
  <2>1. ~remaining[t] /\ todo[t] > 0  BY <1>0, <1>8 DEF ShouldBlockBatch, TaskTodo, Sinking
  <2>2. PICK l \in {"block", "append"} : Goto(t, l)  BY <1>8 DEF ShouldBlockBatch
  <2> QED BY <1>8, <2>1, <2>2, TodoGoes DEF ShouldBlockBatch
<1>9. CASE BlockSink(t)
  <2>1. todo[t] > 0 /\ t \in started
    BY <1>0, <1>9 DEF BlockSink, TaskTodo, Sinking, StreamInv, StartedInv, Registered, Running
  <2>2. "deschedule" \notin Sinking \union Between  BY DEF Sinking, Between
  <2> QED BY <1>9, <2>1, <2>2, TodoGoes DEF BlockSink
<1>10. CASE Deschedule(t)
  <2>1. PICK l \in {"freed", "descheduled"} : Goto(t, l)  BY <1>10 DEF Deschedule, AddToBeRescheduled
  <2> QED BY <1>10, <2>1, TodoGoes DEF Deschedule, Sinking, Between
<1>11. CASE Combine(t)
  <2>1. batch[t] = MaxBatchIndex  BY <1>0, <1>11 DEF Combine, TaskTodo
  <2> QED BY <1>11, <2>1, TodoGoes DEF Combine, Sinking, Between
<1> QED BY <1>1, <1>2, <1>3, <1>4, <1>5, <1>6, <1>7, <1>8, <1>9, <1>10, <1>11,
           TodoRegister, TodoRunLoop, TodoAppend DEF TaskStep

\* Every step of the reader keeps what is left to sink.
LEMMA TodoReaderSteps ==
  ASSUME StreamInv, TodoInv, ReaderStep \/ Fetch \/ Close \/ Interrupt
  PROVE  TodoInv'
<1> USE DEF taskVars, readerFrame
<1>1. CASE Poll \/ UnblockSinks \/ NothingToRun \/ TaskReturned \/ Recheck \/ Scan \/ TasksCancelled
           \/ Fetch \/ Close \/ Interrupt \/ CancelTasks
  <2>1. UNCHANGED <<chunks, started, batch, todo, remaining>>
        /\ \A t \in Tasks : pc'[t] = pc[t] \/ pc'[t] = "freed"
    <3>1. CASE CancelTasks  BY <3>1 DEF CancelTasks
    <3>2. CASE ~CancelTasks
      BY <1>1, <3>2 DEF Poll, UnblockSinks, NothingToRun, TaskReturned, Recheck, Scan,
                        TasksCancelled, Fetch, Close, Interrupt
    <3> QED BY <3>1, <3>2
  <2>2. ASSUME NEW t \in Tasks PROVE TaskTodo(t)'
    <3>1. TaskTodo(t)  BY DEF TodoInv
    <3> QED BY <2>1, <3>1 DEF TaskTodo, Sinking, Between
  <2>3. TodoType' /\ OneOwner'  BY <2>1 DEF TodoInv, TodoType, OneOwner
  <2> QED BY <2>2, <2>3 DEF TodoInv
<1>2. ASSUME NEW t \in Tasks, RescheduleTask(t) \/ ReaderTakes(t) \/ WorkOnTask(t)
      PROVE  TodoInv'
  <2>1. PICK l \in {"queued", "top", "start"} : Goto(t, l)
    BY <1>2 DEF RescheduleTask, ReaderTakes, WorkOnTask
  <2>2. UNCHANGED <<chunks, started, batch, todo, remaining>>
    BY <1>2 DEF RescheduleTask, ReaderTakes, WorkOnTask
  <2> QED BY <2>1, <2>2, TodoGoes DEF Sinking, Between
<1> QED BY <1>1, <1>2 DEF ReaderStep

\* What is left to sink is kept by every step.
LEMMA NextKeepsTodo == ASSUME StreamInv, TodoInv, [Next]_vars PROVE TodoInv'
<1>1. CASE UNCHANGED vars
  <2>1. UNCHANGED <<chunks, started, batch, todo, remaining, pc>>  BY <1>1 DEF vars, taskVars
  <2>2. ASSUME NEW t \in Tasks PROVE TaskTodo(t)'
    <3>1. TaskTodo(t)  BY DEF TodoInv
    <3> QED BY <2>1, <3>1 DEF TaskTodo
  <2>3. TodoType' /\ OneOwner'  BY <2>1 DEF TodoInv, TodoType, OneOwner
  <2> QED BY <2>2, <2>3 DEF TodoInv
<1> QED BY <1>1, TodoTaskSteps, TodoReaderSteps DEF Next

\* Before the query starts nothing is taken from the source.
LEMMA InitTodo == Init => TodoInv
<1> SUFFICES ASSUME Init PROVE TodoInv  OBVIOUS
<1>1. TodoType  BY BatchesAssumption DEF Init, TodoType
<1>2. OneOwner  BY DEF Init, OneOwner
<1>3. \A t \in Tasks : TaskTodo(t)  BY DEF Init, TaskTodo, Sinking, Between
<1> QED BY <1>1, <1>2, <1>3 DEF TodoInv

-----------------------------------------------------------------------------
(* The end *)

\* A step that finishes no task and changes no index keeps the end.
LEMMA EndKept ==
  ASSUME EndInv, UNCHANGED <<started, index, minIndex, min_batch>>,
         \A u \in started : pc'[u] = "finished" => pc[u] = "finished"
  PROVE  EndInv'
BY DEF EndInv

\* A task that registers takes the minimum of those before it: when that is the
\* last, one of them knew it already.
LEMMA EndRegister ==
  ASSUME StreamInv, EndInv, NEW t \in Tasks, RegisterNewBatchIndex(t)
  PROVE  EndInv'
<1>1. /\ pc \in [Tasks -> PC] /\ started \subseteq Tasks
      /\ index \in [Tasks -> 0 .. MaxBatchIndex] /\ minIndex \in [Tasks -> 0 .. MaxBatchIndex]
  BY DEF StreamInv, ControlType
<1>2. /\ pc[t] = "start" /\ pc' = [pc EXCEPT ![t] = "top"] /\ started' = started \union {t}
      /\ UNCHANGED min_batch
  BY DEF RegisterNewBatchIndex, Goto, bufferVars
<1>3. PICK m : /\ m = (IF started = {} THEN 0 ELSE LowestIndex(started, index))
               /\ index' = [index EXCEPT ![t] = m] /\ minIndex' = [minIndex EXCEPT ![t] = m]
  BY DEF RegisterNewBatchIndex
<1>4. t \notin started  BY <1>2 DEF StreamInv, StartedInv
<1> SUFFICES ASSUME \A u \in started' : index'[u] = MaxBatchIndex
             PROVE  \/ min_batch' = MaxBatchIndex
                    \/ \E u \in started' : minIndex'[u] = MaxBatchIndex /\ pc'[u] # "finished"
  BY DEF EndInv
<1>5. m = MaxBatchIndex  BY <1>1, <1>2, <1>3
<1>6. started # {}  BY <1>3, <1>5, BatchesAssumption DEF MaxBatchIndex
<1>7. \A u \in started : index'[u] = index[u] /\ minIndex'[u] = minIndex[u] /\ pc'[u] = pc[u]
  BY <1>1, <1>2, <1>3, <1>4
<1>8. \A u \in started : index[u] = MaxBatchIndex  BY <1>2, <1>7
<1>9. \/ min_batch = MaxBatchIndex
      \/ \E u \in started : minIndex[u] = MaxBatchIndex /\ pc[u] # "finished"
  BY <1>6, <1>8 DEF EndInv
<1> QED BY <1>2, <1>7, <1>9

\* The task that finds every registered index at the last knows the last minimum,
\* and has yet to pass it on.
LEMMA EndUpdate ==
  ASSUME StreamInv, EndInv, NEW t \in Tasks, UpdateBatchIndex(t)
  PROVE  EndInv'
<1>1. /\ pc \in [Tasks -> PC] /\ started \subseteq Tasks
      /\ index \in [Tasks -> 0 .. MaxBatchIndex] /\ minIndex \in [Tasks -> 0 .. MaxBatchIndex]
      /\ batch \in [Tasks -> 0 .. MaxBatchIndex]
  BY DEF StreamInv, ControlType
<1>2. /\ pc[t] = "register" /\ UNCHANGED started
      /\ index' = [index EXCEPT ![t] = batch[t]]
      /\ minIndex' = [minIndex EXCEPT ![t] = LowestIndex(started, index')]
  BY DEF UpdateBatchIndex, NewMinimum
<1>3. PICK l \in {"sink", "again"} : pc' = [pc EXCEPT ![t] = l]
  BY DEF UpdateBatchIndex, Goto
<1>4. t \in started  BY <1>2 DEF StreamInv, StartedInv, Registered, Running
<1> SUFFICES ASSUME \A u \in started : index'[u] = MaxBatchIndex
             PROVE  minIndex'[t] = MaxBatchIndex /\ pc'[t] # "finished"
  BY <1>2, <1>4 DEF EndInv
<1>5. \E u \in started : LowestIndex(started, index') = index'[u]
  <2>1. \A u \in started : index'[u] \in Nat  BY BatchesAssumption DEF MaxBatchIndex
  <2> QED BY <1>1, <1>4, <2>1, LowestIndexLowest
<1>6. LowestIndex(started, index') = MaxBatchIndex  BY <1>5
<1>7. minIndex'[t] = LowestIndex(started, index')  BY <1>1, <1>2
<1>8. pc'[t] = l  BY <1>1, <1>3
<1> QED BY <1>6, <1>7, <1>8

\* A task that passes a minimum on raises the minimum to what it knows, and a task
\* that combines passes on the last.
LEMMA EndPass ==
  ASSUME StreamInv, EndInv, NEW t \in Tasks,
         PassOldMinimum(t) \/ SinkMinimum(t) \/ Combine(t)
  PROVE  EndInv'
<1>1. pc \in [Tasks -> PC] /\ minIndex[t] \in 0 .. MaxBatchIndex /\ min_batch \in 0 .. MaxBatchIndex
  BY DEF StreamInv, ControlType
<1>2. UpdateMinBatchIndex(minIndex[t]) /\ UNCHANGED <<started, index, minIndex>>
  BY DEF PassOldMinimum, SinkMinimum, Combine, taskVars
<1>3. minIndex[t] <= min_batch' /\ min_batch <= min_batch' /\ min_batch' \in 0 .. MaxBatchIndex
  BY <1>1, <1>2, UpdateMinEffect DEF StreamInv
<1>4. PICK l \in {"register", "check", "finished"} : pc' = [pc EXCEPT ![t] = l]
  BY DEF PassOldMinimum, SinkMinimum, Combine, Goto, Leave
<1>5. (min_batch = MaxBatchIndex => min_batch' = MaxBatchIndex)
      /\ (minIndex[t] = MaxBatchIndex => min_batch' = MaxBatchIndex)
  BY <1>1, <1>3, BatchesAssumption DEF MaxBatchIndex
<1>6. \A u \in Tasks : u # t => pc'[u] = pc[u]  BY <1>1, <1>4
<1>7. started \subseteq Tasks  BY DEF StreamInv, ControlType
<1> QED BY <1>2, <1>5, <1>6, <1>7 DEF EndInv

\* When all tasks have finished the minimum is the last: kept by every step.
LEMMA NextKeepsEnd == ASSUME StreamInv, EndInv, [Next]_vars PROVE EndInv'
<1> USE DEF taskVars, bufferVars, Goto, Leave
<1>0. pc \in [Tasks -> PC] /\ started \subseteq Tasks  BY DEF StreamInv, ControlType
<1>1. CASE UNCHANGED vars  BY <1>1, EndKept DEF vars
<1>2. ASSUME NEW t \in Tasks,
             \/ WorkerTakes(t) \/ TaskThrows(t) \/ PartialReturns(t) \/ CompleteBatch(t)
             \/ ShouldBlockBatch(t) \/ BlockSink(t) \/ AppendChunk(t) \/ Deschedule(t) \/ RunLoop(t)
      PROVE  EndInv'
  <2>1. UNCHANGED <<started, index, minIndex, min_batch>>
    BY <1>2 DEF WorkerTakes, TaskThrows, PartialReturns, CompleteBatch, ShouldBlockBatch, BlockSink,
                AppendChunk, Deschedule, RunLoop
  <2>2. PICK l \in {"top", "start", "freed", "held", "oldmin", "block", "append", "deschedule",
                    "again", "descheduled", "sink", "combine", "next"} : pc' = [pc EXCEPT ![t] = l]
    BY <1>2 DEF WorkerTakes, TaskThrows, PartialReturns, CompleteBatch, ShouldBlockBatch, BlockSink,
                AppendChunk, Deschedule, AddToBeRescheduled, RunLoop
  <2> QED BY <1>0, <2>1, <2>2, EndKept
<1>3. CASE ReaderStep \/ Fetch \/ Close \/ Interrupt
  <2>1. CASE \/ Poll \/ UnblockSinks \/ NothingToRun \/ TaskReturned \/ Recheck \/ Scan
             \/ TasksCancelled \/ Fetch \/ Close \/ Interrupt
    <3>1. UNCHANGED <<started, index, minIndex, min_batch, pc>>
      BY <2>1 DEF Poll, UnblockSinks, NothingToRun, TaskReturned, Recheck, Scan, TasksCancelled,
                  Fetch, Close, Interrupt, readerFrame
    <3> QED BY <3>1, EndKept
  <2>2. CASE CancelTasks
    BY <1>0, <2>2, EndKept DEF CancelTasks, readerFrame
  <2>3. ASSUME NEW t \in Tasks, RescheduleTask(t) \/ ReaderTakes(t) \/ WorkOnTask(t)
        PROVE  EndInv'
    <3>1. UNCHANGED <<started, index, minIndex, min_batch>>
      BY <2>3 DEF RescheduleTask, ReaderTakes, WorkOnTask, readerFrame
    <3>2. PICK l \in {"queued", "top", "start"} : pc' = [pc EXCEPT ![t] = l]
      BY <2>3 DEF RescheduleTask, ReaderTakes, WorkOnTask
    <3> QED BY <1>0, <3>1, <3>2, EndKept
  <2> QED BY <1>3, <2>1, <2>2, <2>3 DEF ReaderStep
<1> QED BY <1>1, <1>2, <1>3, EndRegister, EndUpdate, EndPass DEF Next, TaskStep

-----------------------------------------------------------------------------
(* The reader *)

\* A step of a task never empties the queue, so what the reader has found stays so.
LEMMA ReaderTaskSteps ==
  ASSUME StreamInv, ReaderInv, NEW t \in Tasks, WorkerTakes(t) \/ TaskStep(t),
         read_queue = <<>> \/ read_queue' # <<>>
  PROVE  ReaderInv'
<1> USE DEF taskFrame, readerVars, Goto, Leave
<1>1. UNCHANGED <<rpc, last, outcome>>
  BY DEF WorkerTakes, TaskStep, RegisterNewBatchIndex, RunLoop, TaskThrows, PartialReturns,
         CompleteBatch, PassOldMinimum, UpdateBatchIndex, SinkMinimum, ShouldBlockBatch, BlockSink,
         AppendChunk, Deschedule, Combine
<1>2. pc[t] # "finished" /\ \E l : pc' = [pc EXCEPT ![t] = l]
  BY DEF WorkerTakes, TaskStep, RegisterNewBatchIndex, RunLoop, TaskThrows, PartialReturns,
         CompleteBatch, PassOldMinimum, UpdateBatchIndex, SinkMinimum, ShouldBlockBatch, BlockSink,
         AppendChunk, Deschedule, AddToBeRescheduled, Combine
<1>3. last # "finished"  BY <1>2 DEF ReaderInv
<1> QED BY <1>1, <1>3 DEF ReaderInv

\* Every step of the reader keeps what it has found.
LEMMA ReaderReaderSteps ==
  ASSUME StreamInv, ReaderInv, ReaderStep \/ Fetch \/ Close \/ Interrupt
  PROVE  ReaderInv'
<1> USE DEF bufferVars, readerFrame, readerVars
<1>0. pc \in [Tasks -> PC]  BY DEF StreamInv, ControlType
<1>1. CASE Poll  BY <1>1 DEF Poll, ReaderInv
<1>2. CASE UnblockSinks  BY <1>2 DEF UnblockSinks, afterUnblock, ReaderInv
<1>3. CASE NothingToRun  BY <1>3 DEF NothingToRun, ReaderInv, Finished
<1>4. CASE TaskReturned  BY <1>4 DEF TaskReturned, ReaderInv
<1>5. CASE Recheck
  <2>1. rpc = "recheck" /\ outcome' = (IF rpc' = "done" THEN "failed" ELSE outcome)
        /\ UNCHANGED <<read_queue, last, pc>>
    BY <1>5 DEF Recheck
  <2>2. last \in {"blocked", "not_ready", "finished", "error"} /\ outcome = "open"
    BY <2>1 DEF ReaderInv
  <2>3. \/ rpc' = "scan" /\ (read_queue # <<>> \/ last = "finished")
        \/ rpc' \in {"unblock", "poll", "done"}
    <3>1. CASE read_queue # <<>>  BY <1>5, <3>1 DEF Recheck
    <3>2. CASE read_queue = <<>> /\ last = "blocked"  BY <1>5, <3>2 DEF Recheck
    <3>3. CASE read_queue = <<>> /\ last = "not_ready"  BY <1>5, <3>3 DEF Recheck
    <3>4. CASE read_queue = <<>> /\ last = "finished"  BY <1>5, <3>4 DEF Recheck
    <3>5. CASE read_queue = <<>> /\ last = "error"  BY <1>5, <3>5 DEF Recheck
    <3> QED BY <2>2, <3>1, <3>2, <3>3, <3>4, <3>5
  <2> QED BY <2>1, <2>2, <2>3 DEF ReaderInv
<1>6. CASE Scan  BY <1>6 DEF Scan, ReaderInv
<1>7. CASE TasksCancelled  BY <1>7 DEF TasksCancelled, ReaderInv
<1>8. CASE CancelTasks
  <2>1. /\ rpc' = "cancelling" /\ rpc = "cancel" /\ UNCHANGED <<last, outcome>>
        /\ \A t \in Tasks : pc'[t] = "freed" => pc[t] = "freed" \/ pc[t] = "descheduled" \/ t = held
        /\ \A t \in Tasks : pc'[t] \in {"freed", pc[t]}
    BY <1>8 DEF CancelTasks
  <2>2. \A t \in Tasks : pc[t] = "finished" => pc'[t] = "finished"
    BY <2>1 DEF StreamInv, HeldInv, Running
  <2> QED BY <2>1, <2>2 DEF ReaderInv
<1>9. CASE Fetch \/ Close  BY <1>9 DEF Fetch, Close, ReaderInv
<1>10. CASE Interrupt  BY <1>10 DEF Interrupt, ReaderInv
<1>11. ASSUME NEW t \in Tasks, RescheduleTask(t) \/ ReaderTakes(t) \/ WorkOnTask(t)
       PROVE  ReaderInv'
  <2>1. /\ rpc # "done" /\ rpc' \notin {"scan", "recheck"} /\ UNCHANGED <<last, outcome>>
    BY <1>11 DEF RescheduleTask, ReaderTakes, WorkOnTask, afterUnblock
  <2>2. pc[t] # "finished"
    BY <1>11 DEF RescheduleTask, ReaderTakes, WorkOnTask, StreamInv, HeldInv, Running
  <2>3. last # "finished"  BY <2>2 DEF ReaderInv
  <2> QED BY <2>1, <2>3 DEF ReaderInv
<1> QED BY <1>1, <1>2, <1>3, <1>4, <1>5, <1>6, <1>7, <1>8, <1>9, <1>10, <1>11 DEF ReaderStep

-----------------------------------------------------------------------------
(* The rows *)

\* A batch below the minimum was sunk to its last chunk.
LEMMA Passed ==
  ASSUME StreamInv, TodoInv, NEW k \in [Batches -> Nat], SunkCount(k)
  PROVE  /\ \A b \in Batches : b < min_batch => k[b] = chunks[b]
         /\ \A b \in Batches : k[b] <= chunks[b]
<1>1. /\ min_batch \in Nat /\ next \in Nat /\ started \subseteq Tasks
      /\ \A t \in Tasks : batch[t] \in Nat /\ index[t] \in Nat
  BY BatchesAssumption DEF StreamInv, ControlType, MaxBatchIndex
<1>2. \A t \in started : min_batch <= batch[t] /\ (batch[t] < next \/ next = MaxBatchIndex)
  BY <1>1 DEF StreamInv, IndexInv, MinimumInv
<1>3. \A t \in Tasks : todo[t] > 0 => t \in started
  <2>1. \A t \in Tasks : TaskTodo(t)  BY DEF TodoInv
  <2> QED BY <2>1 DEF TaskTodo
<1>4. \A b \in Batches : b \in Nat /\ b >= 1 /\ b < MaxBatchIndex
  BY BatchesAssumption DEF Batches, MaxBatchIndex
<1>5. ASSUME NEW b \in Batches, b < min_batch PROVE k[b] = chunks[b]
  <2>1. started # {}
    <3>1. min_batch # 0  BY <1>1, <1>4, <1>5
    <3> QED BY <3>1 DEF StreamInv, MinimumInv
  <2>2. PICK u \in started : TRUE  BY <2>1
  <2>3. b < next  BY <1>1, <1>2, <1>4, <1>5, <2>2
  <2>4. k[b] = chunks[b] \/ \E t \in Tasks : todo[t] > 0 /\ batch[t] = b  BY <2>3 DEF SunkCount
  <2>5. \A t \in Tasks : todo[t] > 0 => batch[t] # b
    <3> SUFFICES ASSUME NEW t \in Tasks, todo[t] > 0, batch[t] = b PROVE FALSE  OBVIOUS
    <3>1. min_batch <= batch[t]  BY <1>2, <1>3
    <3> QED BY <3>1, <1>1, <1>4, <1>5
  <2> QED BY <2>4, <2>5
<1>6. ASSUME NEW b \in Batches PROVE k[b] <= chunks[b]
  <2>1. chunks[b] \in Nat /\ k[b] \in Nat  BY DEF TodoInv, TodoType
  <2>2. CASE b >= next  BY <2>1, <2>2 DEF SunkCount
  <2>3. CASE b < next
    <3>1. CASE k[b] = chunks[b]  BY <2>1, <3>1
    <3>2. CASE k[b] # chunks[b]
      <4>1. PICK t \in Tasks : todo[t] > 0 /\ batch[t] = b  BY <2>3, <3>2 DEF SunkCount
      <4>2. k[b] = chunks[b] - todo[t] /\ todo[t] \in Nat
        BY <4>1 DEF SunkCount, TodoInv, TodoType
      <4> QED BY <2>1, <4>1, <4>2
    <3> QED BY <3>1, <3>2
  <2> QED BY <2>2, <2>3, <1>1, <1>4
<1> QED BY <1>5, <1>6

\* What was put out so far is a beginning of the rows of the query.
LEMMA RowsBegin ==
  ASSUME StreamInv, TodoInv, RowsInv
  PROVE  /\ Begins(delivered \o read_queue, Rows, Row)
         /\ min_batch = MaxBatchIndex => Rows = delivered \o read_queue
<1>1. PICK k \in [Batches -> Nat] : SunkCount(k) /\ SunkPlace(k)  BY DEF RowsInv
<1>2. /\ \A b \in Batches : b < min_batch => k[b] = chunks[b]
      /\ \A b \in Batches : k[b] <= chunks[b]
  BY <1>1, Passed
<1>3. chunks \in [Batches -> Nat] /\ min_batch \in 0 .. MaxBatchIndex
  BY DEF TodoInv, TodoType, StreamInv, ControlType
<1> DEFINE m == Min2(min_batch, NBatches)
           c == Parts(k)
           d == Parts(chunks)
<1>4. m \in 0 .. NBatches /\ NBatches \in Nat /\ NBatches \in 0 .. NBatches
      /\ m \in 0 .. NBatches /\ m <= min_batch
  BY <1>3, BatchesAssumption DEF Min2, MaxBatchIndex
<1>5. Rows = Flat(d, NBatches) /\ delivered \o read_queue = Flat(c, m)
  BY <1>1, RowsAre DEF SunkPlace
<1>6. AreSeqs(c, m, Row) /\ (\A b \in Batches : c[b] = Part(b, k[b]))
      /\ AreSeqs(d, NBatches, Row) /\ (\A b \in Batches : d[b] = Part(b, chunks[b]))
  BY <1>3, <1>4, PartsAreSeqs
<1> HIDE DEF c, d, m
<1>7. ASSUME NEW i \in 1 .. NBatches, i < min_batch PROVE c[i] = d[i]
  BY <1>2, <1>6, <1>7 DEF Batches
<1>8. \A i \in 1 .. m - 1 : c[i] = d[i]
  <2> SUFFICES ASSUME NEW i \in 1 .. m - 1 PROVE c[i] = d[i]  OBVIOUS
  <2>1. i \in 1 .. NBatches /\ i < min_batch  BY <1>3, <1>4, BatchesAssumption DEF MaxBatchIndex
  <2> QED BY <2>1, <1>7
<1>9. m > 0 => Begins(c[m], d[m], Row)
  <2> SUFFICES ASSUME m > 0 PROVE Begins(c[m], d[m], Row)  OBVIOUS
  <2>1. m \in Batches /\ m \in Nat  BY <1>4 DEF Batches
  <2>2. k[m] \in Nat /\ chunks[m] \in Nat /\ k[m] <= chunks[m]  BY <1>2, <1>3, <2>1
  <2>3. Begins(Part(m, k[m]), Part(m, chunks[m]), Row)  BY <2>1, <2>2, PartBegins
  <2> QED BY <1>6, <2>1, <2>3
<1>10. Begins(Flat(c, m), Flat(d, NBatches), Row)
  BY <1>4, <1>6, <1>8, <1>9, FlatPrefix
<1>11. ASSUME min_batch = MaxBatchIndex PROVE Rows = delivered \o read_queue
  <2>1. m = NBatches  BY <1>11, BatchesAssumption DEF m, Min2, MaxBatchIndex
  <2>2. \A i \in 1 .. NBatches : c[i] = d[i]
    <3>1. \A i \in 1 .. NBatches : i < min_batch  BY <1>11, BatchesAssumption DEF MaxBatchIndex
    <3> QED BY <3>1, <1>7
  <2>3. Flat(c, NBatches) = Flat(d, NBatches)  BY <2>2, FlatSame
  <2> QED BY <1>5, <2>1, <2>3
<1> QED BY <1>5, <1>10, <1>11

\* A step that takes no chunk from the source and moves none.
LEMMA RowsFrame ==
  ASSUME RowsInv,
         UNCHANGED <<chunks, next, todo, min_batch, buffer, delivered, read_queue>>,
         \A t \in Tasks : todo[t] > 0 => batch'[t] = batch[t]
  PROVE  RowsInv'
<1>1. PICK k \in [Batches -> Nat] : SunkCount(k) /\ SunkPlace(k)  BY DEF RowsInv
<1>2. SunkCount(k)'
  <2>1. \A t \in Tasks : todo[t] > 0 => k[batch'[t]] = chunks[batch'[t]] - todo[t]
    BY <1>1 DEF SunkCount
  <2>2. ASSUME NEW b \in Batches, b < next
        PROVE  k[b] = chunks[b] \/ \E t \in Tasks : todo[t] > 0 /\ batch'[t] = b
    <3>1. CASE k[b] = chunks[b]  BY <3>1
    <3>2. CASE k[b] # chunks[b]
      <4>1. PICK t \in Tasks : todo[t] > 0 /\ batch[t] = b  BY <1>1, <2>2, <3>2 DEF SunkCount
      <4> QED BY <4>1
    <3> QED BY <3>1, <3>2
  <2> QED BY <1>1, <2>1, <2>2 DEF SunkCount
<1>3. SunkPlace(k)'  BY <1>1 DEF SunkPlace
<1> QED BY <1>2, <1>3 DEF RowsInv

\* A task that takes a batch from the source has sunk none of it.
LEMMA RowsRunLoop ==
  ASSUME StreamInv, TodoInv, RowsInv, NEW t \in Tasks, RunLoop(t)
  PROVE  RowsInv'
<1>1. /\ batch \in [Tasks -> 0 .. MaxBatchIndex] /\ todo \in [Tasks -> Nat]
      /\ next \in 1 .. MaxBatchIndex /\ chunks \in [Batches -> Nat]
  BY DEF StreamInv, ControlType, TodoInv, TodoType
<1>2. UNCHANGED <<chunks, min_batch, buffer, delivered, read_queue>>
  BY DEF RunLoop, taskFrame, readerVars, bufferVars
<1>3. CASE UNCHANGED <<next, batch, todo>>  BY <1>2, <1>3, RowsFrame
<1>4. CASE /\ todo[t] = 0 /\ batch' = [batch EXCEPT ![t] = next] /\ next' = AfterBatch(next)
           /\ todo' = [todo EXCEPT ![t] = IF next \in Batches THEN chunks[next] ELSE 0]
  <2>1. PICK k \in [Batches -> Nat] : SunkCount(k) /\ SunkPlace(k)  BY DEF RowsInv
  <2>2. batch'[t] = next /\ todo'[t] = (IF next \in Batches THEN chunks[next] ELSE 0)
        /\ \A u \in Tasks : u # t => batch'[u] = batch[u] /\ todo'[u] = todo[u]
    BY <1>1, <1>4
  <2>3. next' \in 1 .. MaxBatchIndex /\ next <= next' /\ next' <= next + 1
    BY <1>1, <1>4, BatchesAssumption DEF AfterBatch, Min2, MaxBatchIndex
  <2>4. SunkCount(k)'
    <3>1. \A b \in Batches : b >= next' => k[b] = 0
      <4> SUFFICES ASSUME NEW b \in Batches, b >= next' PROVE k[b] = 0  OBVIOUS
      <4>1. b \in Nat /\ next' \in Nat /\ next \in Nat
        BY <1>1, <2>3, BatchesAssumption DEF Batches, MaxBatchIndex
      <4>2. b >= next  BY <2>3, <4>1
      <4> QED BY <2>1, <4>2 DEF SunkCount
    <3>2. ASSUME NEW u \in Tasks, todo'[u] > 0
          PROVE  k[batch'[u]] = chunks[batch'[u]] - todo'[u]
      <4>1. CASE u = t
        <5>1. next \in Batches /\ todo'[u] = chunks[next] /\ batch'[u] = next
          BY <2>2, <3>2, <4>1
        <5>2. k[next] = 0
          <6>1. next >= next  BY <1>1, BatchesAssumption DEF MaxBatchIndex
          <6> QED BY <2>1, <5>1, <6>1 DEF SunkCount
        <5>3. chunks[next] \in Nat  BY <1>1, <5>1
        <5> QED BY <5>1, <5>2, <5>3
      <4>2. CASE u # t  BY <2>1, <2>2, <3>2, <4>2 DEF SunkCount
      <4> QED BY <4>1, <4>2
    <3>3. ASSUME NEW b \in Batches, b < next'
          PROVE  k[b] = chunks[b] \/ \E u \in Tasks : todo'[u] > 0 /\ batch'[u] = b
      <4>1. b \in Nat /\ next \in Nat /\ next' \in Nat
        BY <1>1, <2>3, BatchesAssumption DEF Batches, MaxBatchIndex
      <4>2. CASE b = next
        <5>1. k[b] = 0
          <6>1. b >= next  BY <4>1, <4>2
          <6> QED BY <2>1, <6>1 DEF SunkCount
        <5>2. todo'[t] = chunks[b] /\ batch'[t] = b /\ chunks[b] \in Nat  BY <1>1, <2>2, <4>2
        <5>3. CASE chunks[b] = 0  BY <5>1, <5>3
        <5>4. CASE chunks[b] > 0  BY <5>2, <5>4
        <5> QED BY <5>2, <5>3, <5>4
      <4>3. CASE b # next
        <5>1. b < next  BY <2>3, <3>3, <4>1, <4>3
        <5>2. CASE k[b] = chunks[b]  BY <5>2
        <5>3. CASE k[b] # chunks[b]
          <6>1. PICK u \in Tasks : todo[u] > 0 /\ batch[u] = b  BY <2>1, <5>1, <5>3 DEF SunkCount
          <6>2. u # t  BY <1>4, <6>1
          <6> QED BY <2>2, <6>1, <6>2
        <5> QED BY <5>2, <5>3
      <4> QED BY <4>2, <4>3
    <3> QED BY <1>2, <3>1, <3>2, <3>3 DEF SunkCount
  <2>5. SunkPlace(k)'  BY <1>2, <2>1 DEF SunkPlace
  <2> QED BY <1>2, <2>4, <2>5 DEF RowsInv
<1> QED BY <1>3, <1>4 DEF RunLoop

\* A chunk that is appended is the next of its batch, behind those the buffer has
\* of it, or behind the queue for the batch at the minimum.
LEMMA RowsAppend ==
  ASSUME StreamInv, TodoInv, RowsInv, NEW t \in Tasks, AppendChunk(t)
  PROVE  RowsInv'
<1> DEFINE b == batch[t]
           x == <<b, chunks[b] - todo[t] + 1>>
<1>1. /\ pc[t] = "append" /\ todo' = [todo EXCEPT ![t] = @ - 1]
      /\ UNCHANGED <<chunks, next, batch, min_batch, delivered>>
      /\ IF b = min_batch THEN read_queue' = Append(read_queue, x) /\ UNCHANGED buffer
         ELSE buffer' = [buffer EXCEPT ![b] = Append(@, x)] /\ UNCHANGED read_queue
  BY DEF AppendChunk, taskFrame, readerVars
<1>2. TaskTodo(t) /\ todo \in [Tasks -> Nat] /\ chunks \in [Batches -> Nat]
      /\ min_batch \in 0 .. MaxBatchIndex /\ next \in 1 .. MaxBatchIndex
      /\ buffer = [c \in Batches |-> buffer[c]]
  BY DEF TodoInv, TodoType, StreamInv, ControlType
<1>3. todo[t] > 0 /\ b \in Batches  BY <1>1, <1>2 DEF TaskTodo, Sinking
<1>4. b \in Nat /\ b >= 1 /\ b <= NBatches /\ b < MaxBatchIndex
  BY <1>3, BatchesAssumption DEF Batches, MaxBatchIndex
<1>5. b >= min_batch /\ b < next
  <2>1. t \in started  BY <1>1 DEF StreamInv, StartedInv, Registered, Running
  <2>2. index[t] = b  BY <1>1, <2>1 DEF StreamInv, IndexInv, Between
  <2>3. min_batch <= index[t] /\ (b < next \/ next = MaxBatchIndex)
    BY <2>1 DEF StreamInv, MinimumInv, IndexInv
  <2> QED BY <1>2, <1>4, <2>2, <2>3, BatchesAssumption DEF MaxBatchIndex
<1>6. PICK k \in [Batches -> Nat] : SunkCount(k) /\ SunkPlace(k)  BY DEF RowsInv
<1>7. k[b] = chunks[b] - todo[t] /\ k[b] \in Nat /\ todo[t] \in Nat /\ chunks[b] \in Nat
  BY <1>2, <1>3, <1>6 DEF SunkCount
<1>8. x = <<b, k[b] + 1>> /\ x \in Row  BY <1>4, <1>7 DEF Row
<1>9. PICK l \in [Batches -> Nat] : l[b] = k[b] + 1 /\ \A c \in Batches : c # b => l[c] = k[c]
  <2> DEFINE l == [k EXCEPT ![b] = @ + 1]
  <2>1. l \in [Batches -> Nat] /\ l[b] = k[b] + 1 /\ \A c \in Batches : c # b => l[c] = k[c]
    BY <1>3, <1>7
  <2> QED BY <2>1
<1>10. todo'[t] = todo[t] - 1 /\ \A u \in Tasks : u # t => todo'[u] = todo[u]
  BY <1>1, <1>2
<1>11. Part(b, l[b]) = Append(Part(b, k[b]), x)  BY <1>4, <1>7, <1>8, <1>9, PartProperties
<1> HIDE DEF x
<1>12. SunkCount(l)'
  <2>1. \A c \in Batches : c >= next => l[c] = 0
    <3> SUFFICES ASSUME NEW c \in Batches, c >= next PROVE l[c] = 0  OBVIOUS
    <3>1. c \in Nat /\ next \in Nat  BY <1>2, BatchesAssumption DEF Batches, MaxBatchIndex
    <3>2. c # b  BY <1>4, <1>5, <3>1
    <3> QED BY <1>6, <1>9, <3>2 DEF SunkCount
  <2>2. ASSUME NEW u \in Tasks, todo'[u] > 0 PROVE l[batch[u]] = chunks[batch[u]] - todo'[u]
    <3>1. CASE u = t  BY <1>7, <1>9, <1>10, <3>1
    <3>2. CASE u # t
      <4>1. todo[u] > 0 /\ todo'[u] = todo[u]  BY <1>10, <2>2, <3>2
      <4>2. batch[u] # b /\ batch[u] \in Batches
        <5>1. TaskTodo(u)  BY DEF TodoInv
        <5> QED BY <1>3, <3>2, <4>1, <5>1 DEF TodoInv, OneOwner, TaskTodo
      <4> QED BY <1>6, <1>9, <4>1, <4>2 DEF SunkCount
    <3> QED BY <3>1, <3>2
  <2>3. ASSUME NEW c \in Batches, c < next
        PROVE  l[c] = chunks[c] \/ \E u \in Tasks : todo'[u] > 0 /\ batch[u] = c
    <3>1. CASE c = b
      <4>1. CASE todo'[t] > 0  BY <3>1, <4>1
      <4>2. CASE ~(todo'[t] > 0)
        <5>1. todo[t] = 1  BY <1>3, <1>7, <1>10, <4>2
        <5> QED BY <1>7, <1>9, <3>1, <5>1
      <4> QED BY <4>1, <4>2
    <3>2. CASE c # b
      <4>1. CASE k[c] = chunks[c]  BY <1>9, <3>2, <4>1
      <4>2. CASE k[c] # chunks[c]
        <5>1. PICK u \in Tasks : todo[u] > 0 /\ batch[u] = c  BY <1>6, <2>3, <4>2 DEF SunkCount
        <5>2. u # t  BY <3>2, <5>1
        <5> QED BY <1>10, <5>1, <5>2
      <4> QED BY <4>1, <4>2
    <3> QED BY <3>1, <3>2
  <2> QED BY <1>1, <2>1, <2>2, <2>3 DEF SunkCount
<1>13. delivered \in Seq(Row) /\ read_queue \in Seq(Row)  BY DEF RowsInv
<1>14. CASE b = min_batch
  <2>1. read_queue' = Append(read_queue, x) /\ UNCHANGED buffer  BY <1>1, <1>14
  <2>2. read_queue' \in Seq(Row)  BY <1>8, <1>13, <2>1
  <2>3. \A c \in Batches : c > min_batch => buffer[c] = Part(c, l[c])
    <3> SUFFICES ASSUME NEW c \in Batches, c > min_batch PROVE buffer[c] = Part(c, l[c])  OBVIOUS
    <3>1. c # b  BY <1>4, <1>14 DEF Batches
    <3> QED BY <1>6, <1>9, <3>1 DEF SunkPlace
  <2>4. Min2(min_batch, NBatches) = b /\ b \in Nat \ {0} /\ b \in 0 .. NBatches
    BY <1>4, <1>14 DEF Min2
  <2>5. Flat(Parts(l), b) = Append(Flat(Parts(k), b), x)
    <3>1. AreSeqs(Parts(k), b, Row) /\ (\A c \in Batches : Parts(k)[c] = Part(c, k[c]))
          /\ (\A c \in Batches : Parts(l)[c] = Part(c, l[c]))
      BY <1>9, <2>4, PartsAreSeqs
    <3>2. \A c \in 1 .. b - 1 : Parts(l)[c] = Parts(k)[c]
      <4> SUFFICES ASSUME NEW c \in 1 .. b - 1 PROVE Parts(l)[c] = Parts(k)[c]  OBVIOUS
      <4>1. c \in Batches /\ c # b  BY <1>4, BatchesAssumption DEF Batches
      <4> QED BY <1>9, <3>1, <4>1
    <3>3. Parts(l)[b] = Append(Parts(k)[b], x)  BY <1>3, <1>11, <3>1
    <3>4. AddsRow(Parts(k), Parts(l), b, x)  BY <3>2, <3>3 DEF AddsRow
    <3> QED BY <1>8, <2>4, <3>1, <3>4, FlatAppend
  <2>6. delivered \o read_queue = Flat(Parts(k), b)  BY <1>6, <2>4 DEF SunkPlace
  <2>7. delivered \o Append(read_queue, x) = Append(delivered \o read_queue, x)
    BY <1>8, <1>13
  <2>8. SunkPlace(l)'  BY <1>1, <2>1, <2>3, <2>4, <2>5, <2>6, <2>7 DEF SunkPlace
  <2> QED BY <1>1, <1>9, <1>12, <1>13, <2>2, <2>8 DEF RowsInv
<1>15. CASE b # min_batch
  <2>1. buffer' = [buffer EXCEPT ![b] = Append(@, x)] /\ UNCHANGED read_queue  BY <1>1, <1>15
  <2>2. b > min_batch  BY <1>2, <1>4, <1>5, <1>15
  <2>3. ASSUME NEW c \in Batches, c > min_batch PROVE buffer'[c] = Part(c, l[c])
    <3>1. buffer[c] = Part(c, k[c])  BY <1>6, <2>3 DEF SunkPlace
    <3>2. CASE c = b  BY <1>2, <1>11, <2>1, <3>1, <3>2
    <3>3. CASE c # b  BY <1>2, <1>9, <2>1, <3>1, <3>3
    <3> QED BY <3>2, <3>3
  <2>4. Flat(Parts(l), Min2(min_batch, NBatches)) = Flat(Parts(k), Min2(min_batch, NBatches))
    <3>1. \A c \in 1 .. Min2(min_batch, NBatches) : c \in Batches /\ c # b
      BY <1>2, <2>2, BatchesAssumption DEF Min2, Batches, MaxBatchIndex
    <3>2. \A c \in Batches : c # b => Parts(l)[c] = Parts(k)[c]  BY <1>9 DEF Parts
    <3> QED BY <3>1, <3>2, FlatSame
  <2>5. SunkPlace(l)'  BY <1>1, <1>6, <2>1, <2>3, <2>4 DEF SunkPlace
  <2> QED BY <1>1, <1>9, <1>12, <1>13, <2>1, <2>5 DEF RowsInv
<1> QED BY <1>14, <1>15

\* A new minimum moves whole parts, in their order.
LEMMA RowsMinimum ==
  ASSUME StreamInv, TodoInv, RowsInv, NEW t \in Tasks,
         PassOldMinimum(t) \/ SinkMinimum(t) \/ Combine(t)
  PROVE  RowsInv' /\ (read_queue # <<>> => read_queue' # <<>>)
<1> DEFINE m == minIndex[t]
           lo == Min2(min_batch, NBatches)
           hi == Min2(m, NBatches)
<1>1. m \in 0 .. MaxBatchIndex /\ min_batch \in 0 .. MaxBatchIndex  BY DEF StreamInv, ControlType
<1>2. /\ UpdateMinBatchIndex(m)
      /\ UNCHANGED <<chunks, next, todo, batch, delivered>>
  BY DEF PassOldMinimum, SinkMinimum, Combine, taskVars, taskFrame, readerVars
<1>3. CASE m <= min_batch
  <2>1. UNCHANGED <<min_batch, buffer, read_queue>>
    BY <1>2, <1>3 DEF UpdateMinBatchIndex, bufferVars
  <2> QED BY <1>2, <2>1, RowsFrame
<1>4. CASE ~(m <= min_batch)
  <2>1. /\ min_batch' = m /\ read_queue' = read_queue \o Flat(buffer, hi)
        /\ buffer' = [b \in Batches |-> IF b <= m THEN <<>> ELSE buffer[b]]
    BY <1>2, <1>4 DEF UpdateMinBatchIndex, Flat
  <2>2. PICK k \in [Batches -> Nat] : SunkCount(k) /\ SunkPlace(k)  BY DEF RowsInv
  <2>3. /\ hi \in 0 .. NBatches /\ lo \in 0 .. hi /\ lo \in 0 .. NBatches /\ hi \in Nat
        /\ (lo = min_batch \/ lo = NBatches) /\ lo <= min_batch
    BY <1>1, <1>4, BatchesAssumption DEF Min2, MaxBatchIndex
  <2>4. AreSeqs(Parts(k), hi, Row) /\ \A b \in Batches : Parts(k)[b] = Part(b, k[b])
    BY <2>3, PartsAreSeqs
  <2> HIDE DEF lo, hi
  <2>5. ASSUME NEW i \in 1 .. hi PROVE buffer[i] = IF i <= lo THEN <<>> ELSE Parts(k)[i]
    <3>1. i \in Batches /\ i <= NBatches /\ i \in Nat
      BY <2>3, BatchesAssumption DEF Batches
    <3>2. CASE i <= lo
      <4>1. ~(i > min_batch)  BY <1>1, <2>3, <3>1, <3>2, BatchesAssumption DEF MaxBatchIndex
      <4> QED BY <3>1, <3>2, <4>1 DEF StreamInv, BufferInv
    <3>3. CASE ~(i <= lo)
      <4>1. i > min_batch  BY <1>1, <2>3, <3>1, <3>3, BatchesAssumption DEF MaxBatchIndex
      <4> QED BY <2>2, <2>4, <3>1, <3>3, <4>1 DEF SunkPlace
    <3> QED BY <3>2, <3>3
  <2>6. Flat(Parts(k), lo) \o Flat(buffer, hi) = Flat(Parts(k), hi)
    BY <2>3, <2>4, <2>5, FlatMoved
  <2>7. Flat(buffer, hi) \in Seq(Row)
    <3>1. AreSeqs(buffer, hi, Row)
      <4>1. <<>> \in Seq(Row)  OBVIOUS
      <4> QED BY <2>4, <2>5, <4>1 DEF AreSeqs
    <3>2. \A n \in 0 .. hi : Flat(buffer, n) \in Seq(Row)  BY <2>3, <3>1, FlatStep
    <3>3. hi \in 0 .. hi  BY <2>3
    <3> QED BY <3>2, <3>3
  <2>8. delivered \in Seq(Row) /\ read_queue \in Seq(Row)  BY DEF RowsInv
  <2>9. read_queue' \in Seq(Row) /\ (read_queue # <<>> => read_queue' # <<>>)
    BY <2>1, <2>7, <2>8, ConcatProperties
  <2>10. Regroups(delivered, read_queue, Flat(buffer, hi))  BY <2>7, <2>8, Associative
  <2>11. delivered \o read_queue' = Flat(Parts(k), hi)
    BY <2>1, <2>2, <2>6, <2>10 DEF Regroups, SunkPlace, lo
  <2>12. SunkCount(k)'  BY <1>2, <2>2 DEF SunkCount
  <2>13. ASSUME NEW b \in Batches, b > m PROVE buffer'[b] = Part(b, k[b])
    <3>1. b \in Nat /\ ~(b <= m) /\ b > min_batch
      BY <1>1, <1>4, <2>13, BatchesAssumption DEF Batches, MaxBatchIndex
    <3> QED BY <2>1, <2>2, <3>1 DEF SunkPlace
  <2>14. SunkPlace(k)'  BY <1>2, <2>1, <2>11, <2>13 DEF SunkPlace, hi
  <2> QED BY <1>2, <2>8, <2>9, <2>12, <2>14 DEF RowsInv
<1> QED BY <1>3, <1>4

\* The reader takes the first chunk of the queue.
LEMMA RowsScan ==
  ASSUME RowsInv, TodoInv, Scan
  PROVE  RowsInv'
<1>1. PICK k \in [Batches -> Nat] : SunkCount(k) /\ SunkPlace(k)  BY DEF RowsInv
<1>2. UNCHANGED <<chunks, next, todo, batch, min_batch, buffer>>
  BY DEF Scan, readerFrame, taskVars
<1>3. delivered \in Seq(Row) /\ read_queue \in Seq(Row)  BY DEF RowsInv
<1>4. CASE read_queue = <<>>
  <2>1. UNCHANGED <<delivered, read_queue>>  BY <1>4 DEF Scan
  <2> QED BY <1>2, <2>1, RowsFrame
<1>5. CASE read_queue # <<>>
  <2>1. delivered' = Append(delivered, Head(read_queue)) /\ read_queue' = Tail(read_queue)
    BY <1>5 DEF Scan
  <2>2. Head(read_queue) \in Row /\ Tail(read_queue) \in Seq(Row)
    BY <1>3, <1>5, HeadTailProperties
  <2>3. delivered' \in Seq(Row) /\ read_queue' \in Seq(Row)  BY <1>3, <2>1, <2>2
  <2>4. delivered' \o read_queue' = delivered \o read_queue
    BY <1>3, <1>5, <2>1, <2>2
  <2>5. SunkCount(k)'  BY <1>1, <1>2 DEF SunkCount
  <2>6. SunkPlace(k)'  BY <1>1, <1>2, <2>4 DEF SunkPlace
  <2> QED BY <2>3, <2>5, <2>6 DEF RowsInv
<1> QED BY <1>4, <1>5

\* Every step of a task keeps the rows where they belong, and none empties the queue.
LEMMA RowsTaskSteps ==
  ASSUME StreamInv, TodoInv, RowsInv, NEW t \in Tasks, WorkerTakes(t) \/ TaskStep(t)
  PROVE  RowsInv' /\ (read_queue # <<>> => read_queue' # <<>>)
<1> USE DEF bufferVars, taskVars, taskFrame, readerVars
<1>1. CASE \/ WorkerTakes(t) \/ TaskThrows(t) \/ PartialReturns(t) \/ CompleteBatch(t)
           \/ UpdateBatchIndex(t) \/ ShouldBlockBatch(t) \/ BlockSink(t) \/ Deschedule(t)
  <2>1. UNCHANGED <<chunks, next, todo, batch, min_batch, buffer, delivered, read_queue>>
    BY <1>1 DEF WorkerTakes, TaskThrows, PartialReturns, CompleteBatch, UpdateBatchIndex,
                ShouldBlockBatch, BlockSink, Deschedule
  <2> QED BY <2>1, RowsFrame
<1>2. CASE RegisterNewBatchIndex(t)
  <2>1. UNCHANGED <<chunks, next, todo, min_batch, buffer, delivered, read_queue>>
    BY <1>2 DEF RegisterNewBatchIndex
  <2>2. todo[t] = 0
    <3>1. TaskTodo(t)  BY DEF TodoInv
    <3> QED BY <1>2, <3>1 DEF RegisterNewBatchIndex, TaskTodo, StreamInv, StartedInv
  <2>3. PICK x : batch' = [batch EXCEPT ![t] = x]  BY <1>2 DEF RegisterNewBatchIndex
  <2>4. \A u \in Tasks : todo[u] > 0 => batch'[u] = batch[u]
    BY <2>2, <2>3 DEF StreamInv, ControlType
  <2> QED BY <2>1, <2>4, RowsFrame
<1>3. CASE RunLoop(t)
  <2>1. UNCHANGED read_queue  BY <1>3 DEF RunLoop
  <2> QED BY <1>3, <2>1, RowsRunLoop
<1>4. CASE AppendChunk(t)
  <2>1. read_queue' = read_queue \/ \E x : read_queue' = Append(read_queue, x)
    BY <1>4 DEF AppendChunk
  <2>2. \A x : Append(read_queue, x) # <<>>  BY DEF RowsInv
  <2> QED BY <1>4, <2>1, <2>2, RowsAppend
<1> QED BY <1>1, <1>2, <1>3, <1>4, RowsMinimum DEF TaskStep

\* Every step of the reader keeps the rows where they belong.
LEMMA RowsReaderSteps ==
  ASSUME StreamInv, TodoInv, RowsInv, ReaderStep \/ Fetch \/ Close \/ Interrupt
  PROVE  RowsInv'
<1> USE DEF bufferVars, taskVars, readerFrame, readerVars
<1>1. CASE Scan  BY <1>1, RowsScan
<1>2. CASE ~Scan
  <2>1. UNCHANGED <<chunks, next, todo, batch, min_batch, buffer, delivered, read_queue>>
    BY <1>2 DEF ReaderStep, Poll, UnblockSinks, NothingToRun, TaskReturned, Recheck, TasksCancelled,
                CancelTasks, Fetch, Close, Interrupt, RescheduleTask, ReaderTakes, WorkOnTask
  <2> QED BY <2>1, RowsFrame
<1> QED BY <1>1, <1>2

\* Before the query starts all rows are in the source.
LEMMA InitOrder == Init => OrderInv
<1> SUFFICES ASSUME Init PROVE OrderInv  OBVIOUS
<1>1. TodoInv  BY InitTodo
<1>2. EndInv  BY DEF Init, EndInv
<1>3. ReaderInv  BY DEF Init, ReaderInv
<1>4. RowsInv
  <2> DEFINE z == [b \in Batches |-> 0]
  <2>1. z \in [Batches -> Nat] /\ \A b \in Batches : z[b] = 0  OBVIOUS
  <2>2. /\ next = 1 /\ todo = [t \in Tasks |-> 0] /\ min_batch = 0
        /\ buffer = [b \in Batches |-> <<>>] /\ delivered = <<>> /\ read_queue = <<>>
    BY DEF Init
  <2> HIDE DEF z
  <2>3. SunkCount(z)  BY <2>1, <2>2 DEF SunkCount, Batches
  <2>4. SunkPlace(z)
    <3>1. \A b \in Batches : Part(b, z[b]) = <<>>
      BY <2>1, PartProperties DEF Batches
    <3>2. Min2(min_batch, NBatches) = 0  BY <2>2, BatchesAssumption DEF Min2
    <3>3. Flat(Parts(z), 0) = <<>>  BY FlatEmpty
    <3>4. <<>> \o <<>> = <<>>  BY ConcatEmptySeq
    <3> QED BY <2>2, <3>1, <3>2, <3>3, <3>4 DEF SunkPlace
  <2>5. delivered \in Seq(Row) /\ read_queue \in Seq(Row)  BY <2>2
  <2> QED BY <2>1, <2>3, <2>4, <2>5 DEF RowsInv
<1> QED BY <1>1, <1>2, <1>3, <1>4 DEF OrderInv

\* The order is kept by every step.
LEMMA NextKeepsOrder == ASSUME StreamInv, OrderInv, [Next]_vars PROVE OrderInv'
<1> USE DEF OrderInv
<1>1. TodoInv' /\ EndInv'  BY NextKeepsTodo, NextKeepsEnd
<1>2. CASE UNCHANGED vars
  <2>1. RowsInv'  BY <1>2, RowsFrame DEF vars, bufferVars, taskVars, readerVars
  <2>2. ReaderInv'  BY <1>2 DEF vars, bufferVars, readerVars, ReaderInv
  <2> QED BY <1>1, <2>1, <2>2
<1>3. ASSUME NEW t \in Tasks, WorkerTakes(t) \/ TaskStep(t) PROVE OrderInv'
  <2>1. RowsInv' /\ (read_queue # <<>> => read_queue' # <<>>)  BY <1>3, RowsTaskSteps
  <2>2. ReaderInv'  BY <1>3, <2>1, ReaderTaskSteps
  <2> QED BY <1>1, <2>1, <2>2
<1>4. CASE ReaderStep \/ Fetch \/ Close \/ Interrupt
  BY <1>1, <1>4, RowsReaderSteps, ReaderReaderSteps
<1> QED BY <1>2, <1>3, <1>4 DEF Next

\* The end is reached with all rows.
LEMMA AllFinishedAllRows ==
  ASSUME StreamInv, OrderInv, \A t \in Tasks : pc[t] = "finished"
  PROVE  Rows = delivered \o read_queue
<1>1. \A t \in Tasks : t \in started  BY DEF StreamInv, StartedInv, Registered
<1>2. started # {}  BY <1>1, TasksAssumption
<1>3. \A t \in Tasks : TaskTodo(t)  BY DEF OrderInv, TodoInv
<1>4. \A t \in started : t \in Tasks  BY DEF StreamInv, ControlType
<1>5. \A t \in started : index[t] = MaxBatchIndex
  BY <1>3, <1>4 DEF TaskTodo, StreamInv, IndexInv, Between
<1>6. min_batch = MaxBatchIndex  BY <1>2, <1>4, <1>5 DEF OrderInv, EndInv
<1> QED BY <1>6, RowsBegin DEF OrderInv

\* A step of the reader delivers the next row, ends the stream, or neither.
LEMMA OrderedStep ==
  ASSUME StreamInv, OrderInv, [Next]_vars
  PROVE  [Stream!Next]_(Stream!vars)
<1> USE DEF OrderInv
<1>1. UNCHANGED chunks
  BY DEF vars, Next, TaskStep, ReaderStep, taskFrame, readerFrame, WorkerTakes, RegisterNewBatchIndex,
         RunLoop, TaskThrows, PartialReturns, CompleteBatch, PassOldMinimum, UpdateBatchIndex,
         SinkMinimum, ShouldBlockBatch, BlockSink, AppendChunk, Deschedule, Combine, Poll,
         UnblockSinks, NothingToRun, TaskReturned, Recheck, Scan, CancelTasks, TasksCancelled,
         RescheduleTask, ReaderTakes, WorkOnTask, Fetch, Close, Interrupt
<1>2. Rows' = Rows  BY <1>1 DEF Rows
<1>3. CASE Scan
  <2>1. rpc = "scan" /\ outcome = "open"  BY <1>3 DEF Scan, ReaderInv
  <2>2. delivered \in Seq(Row) /\ read_queue \in Seq(Row)  BY DEF RowsInv
  <2>3. CASE read_queue # <<>>
    <3>1. /\ delivered' = Append(delivered, Head(read_queue))
          /\ outcome' \in {"open", "failed"}
      BY <1>3, <2>1, <2>3 DEF Scan
    <3>2. PICK r \in Seq(Row) : Rows = (delivered \o read_queue) \o r
      BY RowsBegin DEF Begins
    <3>3. /\ Len(delivered) < Len(Rows)
          /\ Rows[Len(delivered) + 1] = Head(read_queue)
      <4> DEFINE n == Len(delivered)
      <4>1. n \in Nat /\ Len(read_queue) \in Nat /\ Len(read_queue) >= 1 /\ Len(r) \in Nat
        BY <2>2, <2>3, EmptySeq, LenProperties
      <4>2. delivered \o read_queue \in Seq(Row) /\ Len(delivered \o read_queue) = n + Len(read_queue)
            /\ (delivered \o read_queue)[n + 1] = read_queue[1]
        BY <2>2, <4>1, ConcatProperties
      <4>3. Len(Rows) = n + Len(read_queue) + Len(r)
            /\ Rows[n + 1] = (delivered \o read_queue)[n + 1]
        <5> DEFINE p == delivered \o read_queue
        <5>1. p \in Seq(Row) /\ Len(p) = n + Len(read_queue) /\ Rows = p \o r  BY <3>2, <4>2
        <5>2. n + 1 \in 1 .. Len(p) + Len(r) /\ n + 1 <= Len(p)  BY <4>1, <5>1
        <5> HIDE DEF p, n
        <5>3. Len(p \o r) = Len(p) + Len(r) /\ (p \o r)[n + 1] = p[n + 1]
          BY <5>1, <5>2, ConcatProperties
        <5> QED BY <5>1, <5>3 DEF p
      <4>4. Head(read_queue) = read_queue[1]  OBVIOUS
      <4> QED BY <4>1, <4>2, <4>3, <4>4
    <3> QED BY <1>2, <2>1, <3>1, <3>3 DEF Stream!Next, Stream!Deliver
  <2>4. CASE read_queue = <<>>
    <3>1. \A t \in Tasks : pc[t] = "finished"  BY <2>1, <2>4 DEF ReaderInv
    <3>2. Rows = delivered \o read_queue  BY <3>1, AllFinishedAllRows
    <3>3. Rows = delivered  BY <2>2, <2>4, <3>2, ConcatEmptySeq
    <3>4. UNCHANGED delivered /\ outcome' = "exhausted"  BY <1>3, <2>4 DEF Scan
    <3> QED BY <1>2, <2>1, <3>3, <3>4 DEF Stream!Next, Stream!Exhaust
  <2> QED BY <2>3, <2>4
<1>4. CASE Recheck \/ TasksCancelled
  <2>1. outcome = "open" /\ outcome' \in {outcome, "failed", "closed"} /\ UNCHANGED delivered
    BY <1>4 DEF Recheck, TasksCancelled, ReaderInv
  <2> QED BY <1>2, <2>1 DEF Stream!Next, Stream!Stop, Stream!vars
<1>5. CASE ~(Scan \/ Recheck \/ TasksCancelled)
  <2>1. UNCHANGED <<delivered, outcome>>
    BY <1>5 DEF vars, readerVars, Next, TaskStep, ReaderStep, taskFrame, WorkerTakes,
         RegisterNewBatchIndex, RunLoop, TaskThrows, PartialReturns, CompleteBatch, PassOldMinimum,
         UpdateBatchIndex, SinkMinimum, ShouldBlockBatch, BlockSink, AppendChunk, Deschedule, Combine,
         Poll, UnblockSinks, NothingToRun, TaskReturned, CancelTasks, RescheduleTask, ReaderTakes,
         WorkOnTask, Fetch, Close, Interrupt
  <2> QED BY <1>2, <2>1 DEF Stream!vars
<1> QED BY <1>3, <1>4, <1>5

\* The stream starts as the promised one does.
LEMMA OrderedInit == Init => Stream!Init
<1> SUFFICES ASSUME Init PROVE Stream!Init  OBVIOUS
<1>1. StreamInv /\ OrderInv  BY InitStreamInv, InitOrder
<1>2. PICK r \in Seq(Row) : Rows = (delivered \o read_queue) \o r
  BY <1>1, RowsBegin DEF Begins, OrderInv
<1>3. delivered = <<>> /\ read_queue = <<>> /\ outcome = "open"  BY DEF Init
<1>4. Rows = r  BY <1>2, <1>3, ConcatEmptySeq
<1> QED BY <1>3, <1>4 DEF Stream!Init, Row

\* A stream that many tasks fill, each with batches of its own, delivers to its reader
\* what one task would: the rows of the query in their order, none lost and none
\* twice, whatever of them was sunk, moved or held back meanwhile, and it reports the
\* end only when all were delivered (SimpleBatchedBufferedData: Append, MoveCompletedBatches,
\* Scan).  BatchedStream implements OrderedStream.
THEOREM SpecRowsInOrder == Spec => RowsInOrder
<1>1. Init => StreamInv /\ OrderInv  BY InitStreamInv, InitOrder
<1>2. StreamInv /\ OrderInv /\ [Next]_vars => (StreamInv /\ OrderInv)'
  BY NextKeepsStreamInv, NextKeepsOrder
<1>3. StreamInv /\ OrderInv /\ [Next]_vars => [Stream!Next]_(Stream!vars)  BY OrderedStep
<1>4. Init => Stream!Init  BY OrderedInit
<1> QED BY <1>1, <1>2, <1>3, <1>4, PTL DEF Spec, RowsInOrder, Stream!Spec
=============================================================================
