----------------------------- MODULE BatchedStream -----------------------------
(***************************************************************************)
(* A streaming result whose order matters (jdbc_stream_results): pipeline  *)
(* tasks run by worker threads push chunks into BatchedBufferedData, and   *)
(* the reader, inside fetch(), wakes tasks that blocked on a full buffer,  *)
(* runs tasks itself and takes chunks out.  A chunk is <<batch, number>>   *)
(* and has size 1; a batch is what one task gets from the source at once.  *)
(* The last pipeline only: its tasks block on nothing but the buffer.      *)
(***************************************************************************)
EXTENDS Naturals, Sequences, FiniteSets, SequencesExt

CONSTANTS Tasks, None,        \* the tasks of the pipeline
          Workers,            \* number of background threads
          NBatches,           \* batches of the source
          Workloads,          \* chunks left of each batch by the operators
          ReadQueueCapacity,  \* 60% of streaming_buffer_size
          BufferCapacity,     \* 40% of streaming_buffer_size
          MayFail             \* operators may throw, conn.interrupt() is called

Batches == 1 .. NBatches
MaxBatchIndex == NBatches + 1   \* max_batch_index, taken by a finished task

ASSUME NoneAssumption == None \notin Tasks
\* A pipeline launches at least one task (ScheduleSequentialTask, LaunchScanTasks).
ASSUME TasksAssumption == IsFiniteSet(Tasks) /\ Tasks # {}
ASSUME WorkersAssumption == Workers \in Nat
ASSUME BatchesAssumption == NBatches \in Nat /\ Workloads \subseteq [Batches -> Nat]
\* With a capacity of 0 (streaming_buffer_size of 0 or 1 byte) no chunk is
\* ever let into the read queue and fetch() does not return.
ASSUME CapacityAssumption == ReadQueueCapacity \in Nat \ {0} /\ BufferCapacity \in Nat

VARIABLES
  chunks,       \* the workload
  \* source and pipeline
  next,         \* the next batch the source hands out
  started,      \* tasks in Pipeline::batch_indexes
  index,        \* their batch index there
  \* tasks: PipelineExecutor and the sink's local state
  pc, runner,   \* where a task is, and who runs it
  batch,        \* partition_info.batch_index
  minIndex,     \* partition_info.min_batch_index
  current,      \* BufferedBatchCollectorLocalState::current_batch
  todo,         \* chunks of the batch not sunk yet
  remaining,    \* remaining_sink_chunk
  \* BatchedBufferedData
  min_batch, lowest_moved, buffer, completed, read_queue, blocked_sinks,
  \* Executor
  cancelled, hasError, interrupted, held,
  \* reader
  rpc,          \* where fetch() is
  waking,       \* sinks UnblockSinks still has to call back, under glock
  last,         \* what Executor::ExecuteTask returned
  delivered, outcome

taskVars == <<index, batch, minIndex, current, todo, remaining>>
bufferVars == <<min_batch, lowest_moved, buffer, completed, read_queue>>
executorVars == <<cancelled, hasError, interrupted, held>>
readerVars == <<rpc, waking, last, delivered, outcome>>
vars == <<chunks, next, started, pc, runner, taskVars, bufferVars, blocked_sinks,
          executorVars, readerVars>>

Min2(a, b) == IF a <= b THEN a ELSE b
glockFree == rpc # "waking"
Finished(t) == pc[t] = "finished"
Freed(t) == pc[t] \in {"finished", "freed"}

-----------------------------------------------------------------------------
(* BatchedBufferedData *)

\* Every chunk has its place in the part of its batch.
Buffered == UNION {{b} \X DOMAIN buffer[b] : b \in Batches}
BufferCount == Cardinality(Buffered)

\* IsMinimumBatchIndex and the capacity that goes with it; used by
\* ShouldBlockBatch and by UnblockSinks.
IsFull(b) == IF b = min_batch THEN Len(read_queue) >= ReadQueueCapacity
             ELSE BufferCount >= BufferCapacity

\* UpdateMinBatchIndex and MoveCompletedBatches: what is at or below a new
\* minimum moves to the read queue, in batch order.
UpdateMinBatchIndex(m) ==
  IF m <= min_batch THEN UNCHANGED bufferVars
  ELSE LET moved == {b \in Batches : b <= m /\ buffer[b] # <<>>}
       IN  /\ min_batch' = m
           /\ read_queue' = read_queue \o
                FlattenSeq([b \in 1 .. Min2(m, NBatches) |-> buffer[b]])
           /\ buffer' = [b \in Batches |-> IF b <= m THEN <<>> ELSE buffer[b]]
           /\ lowest_moved' = IF moved = {} THEN lowest_moved ELSE Max(moved)
           /\ UNCHANGED completed

-----------------------------------------------------------------------------
(* A task: PipelineExecutor::Execute and the buffered collector's sink *)

Goto(t, l) == pc' = [pc EXCEPT ![t] = l]
Leave(t, l) == Goto(t, l) /\ runner' = [runner EXCEPT ![t] = None]
LowestIndex(S, idx) == CHOOSE m \in {idx[u] : u \in S} : \A u \in S : m <= idx[u]
taskFrame == UNCHANGED <<chunks, executorVars, readerVars>>

\* ExecuteForever: a background thread takes a task from the queue.
WorkerTakes(t) ==
  /\ pc[t] = "queued"
  /\ Cardinality({u \in Tasks : runner[u] = "worker"}) < Workers
  /\ Goto(t, IF t \in started THEN "top" ELSE "start")
  /\ runner' = [runner EXCEPT ![t] = "worker"]
  /\ UNCHANGED <<next, started, taskVars, bufferVars, blocked_sinks>> /\ taskFrame

\* Pipeline::RegisterNewBatchIndex: a new task stands at the lowest index, so
\* that it does not hold up or overtake anyone.
RegisterNewBatchIndex(t) ==
  /\ pc[t] = "start"
  /\ LET m == IF started = {} THEN 0 ELSE LowestIndex(started, index)
     IN  /\ index' = [index EXCEPT ![t] = m]
         /\ batch' = [batch EXCEPT ![t] = m]
         /\ minIndex' = [minIndex EXCEPT ![t] = m]
  /\ started' = started \union {t}
  /\ Goto(t, "top")
  /\ UNCHANGED <<next, runner, current, todo, remaining, bufferVars, blocked_sinks>>
  /\ taskFrame

\* What the source hands out after a batch: the next, or that it is exhausted.
AfterBatch(b) == Min2(b + 1, MaxBatchIndex)

\* The loop of Execute, unless it is interrupted: sink the chunk that was
\* blocked, finish when the source is exhausted, or fetch from the source.
RunLoop(t) ==
  /\ pc[t] \in {"top", "again"} /\ ~interrupted
  /\ remaining' = [remaining EXCEPT ![t] = FALSE]
  /\ \/ /\ remaining[t] \/ todo[t] > 0
        /\ Goto(t, "sink")
        /\ UNCHANGED <<next, batch, todo>>
     \/ /\ ~remaining[t] /\ todo[t] = 0 /\ batch[t] = MaxBatchIndex
        /\ Goto(t, "combine")
        /\ UNCHANGED <<next, batch, todo>>
     \/ /\ ~remaining[t] /\ todo[t] = 0 /\ batch[t] < MaxBatchIndex
        /\ batch' = [batch EXCEPT ![t] = next]
        /\ next' = AfterBatch(next)
        /\ todo' = [todo EXCEPT ![t] = IF next \in Batches THEN chunks[next] ELSE 0]
        /\ Goto(t, "next")
  /\ UNCHANGED <<started, runner, index, minIndex, current, bufferVars, blocked_sinks>>
  /\ taskFrame

\* The task throws: PushError records it and interrupts all others.
TaskThrows(t) ==
  /\ pc[t] \in {"top", "again"} /\ (interrupted \/ MayFail)
  /\ hasError' = TRUE /\ interrupted' = TRUE
  /\ Leave(t, "freed")
  /\ held' = IF held = t THEN None ELSE held
  /\ UNCHANGED <<chunks, next, started, taskVars, bufferVars, blocked_sinks, cancelled,
                 readerVars>>

\* PROCESS_PARTIAL: the reader gives up its task after some chunks.
PartialReturns(t) ==
  /\ pc[t] = "again" /\ runner[t] = "reader" /\ ~cancelled
  /\ Leave(t, "held")
  /\ UNCHANGED <<next, started, taskVars, bufferVars, blocked_sinks>> /\ taskFrame

\* Faulty variant of CompleteBatch: the batch left behind is not marked.
NotCompleted(t) ==
  /\ pc[t] = "next"
  /\ current' = [current EXCEPT ![t] = batch[t]]
  /\ Goto(t, "oldmin")
  /\ UNCHANGED <<next, started, runner, index, batch, minIndex, todo, remaining,
                 bufferVars, blocked_sinks>> /\ taskFrame

\* NextBatch of the sink: the batch that was left is complete ...
CompleteBatch(t) ==
  /\ pc[t] = "next" /\ glockFree
  /\ completed' = IF current[t] \in Batches /\ buffer[current[t]] # <<>>
                  THEN completed \union {current[t]} ELSE completed
  /\ current' = [current EXCEPT ![t] = batch[t]]
  /\ Goto(t, "oldmin")
  /\ UNCHANGED <<next, started, runner, index, batch, minIndex, todo, remaining,
                 min_batch, lowest_moved, buffer, read_queue, blocked_sinks>>
  /\ taskFrame

\* ... and the minimum the task knew of is passed on.
PassOldMinimum(t) ==
  /\ pc[t] = "oldmin" /\ glockFree
  /\ UpdateMinBatchIndex(minIndex[t])
  /\ Goto(t, "register")
  /\ UNCHANGED <<next, started, runner, taskVars, blocked_sinks>> /\ taskFrame

\* Faulty variant of NewMinimum: the task's own index.
OwnIndex(idx, t) == idx[t]
NewMinimum(idx, t) == LowestIndex(started, idx)

\* Pipeline::UpdateBatchIndex, after the sink saw the old minimum.
UpdateBatchIndex(t) ==
  /\ pc[t] = "register"
  /\ index' = [index EXCEPT ![t] = batch[t]]
  /\ minIndex' = [minIndex EXCEPT ![t] = NewMinimum(index', t)]
  /\ Goto(t, IF todo[t] > 0 THEN "sink" ELSE "again")
  /\ UNCHANGED <<next, started, runner, batch, current, todo, remaining, bufferVars,
                 blocked_sinks>> /\ taskFrame

\* Sink: pass on the minimum, ...
SinkMinimum(t) ==
  /\ pc[t] = "sink" /\ glockFree
  /\ current' = [current EXCEPT ![t] = batch[t]]
  /\ UpdateMinBatchIndex(minIndex[t])
  /\ Goto(t, "check")
  /\ UNCHANGED <<next, started, runner, index, batch, minIndex, todo, remaining,
                 blocked_sinks>> /\ taskFrame

\* Faulty variant of ShouldBlock: only the read queue is bounded.
OnlyMinimumBlocks(b) == b = min_batch /\ IsFull(b)
ShouldBlock(b) == IsFull(b)

\* ... look whether there is room, ...
ShouldBlockBatch(t) ==
  /\ pc[t] = "check" /\ glockFree
  /\ Goto(t, IF ShouldBlock(batch[t]) THEN "block" ELSE "append")
  /\ UNCHANGED <<next, started, runner, taskVars, bufferVars, blocked_sinks>>
  /\ taskFrame

\* ... and block, or append; the lock was free in between.
BlockSink(t) ==
  /\ pc[t] = "block" /\ glockFree
  /\ blocked_sinks' = blocked_sinks \union {t}
  /\ remaining' = [remaining EXCEPT ![t] = TRUE]
  /\ Goto(t, "deschedule")
  /\ UNCHANGED <<next, started, runner, index, batch, minIndex, current, todo, bufferVars>>
  /\ taskFrame

AppendChunk(t) ==
  /\ pc[t] = "append" /\ glockFree
  /\ LET b == batch[t]
         chunk == <<b, chunks[b] - todo[t] + 1>>
     IN  IF b = min_batch
         THEN /\ read_queue' = Append(read_queue, chunk)
              /\ UNCHANGED <<buffer, completed>>
         ELSE /\ buffer' = [buffer EXCEPT ![b] = Append(@, chunk)]
              /\ completed' = completed \ {b}
              /\ UNCHANGED read_queue
  /\ todo' = [todo EXCEPT ![t] = @ - 1]
  /\ Goto(t, "again")
  /\ UNCHANGED <<next, started, runner, index, batch, minIndex, current, remaining,
                 min_batch, lowest_moved, blocked_sinks>> /\ taskFrame

\* Faulty variant of AddToBeRescheduled: also when the query is cancelled.
AddAlways(t) == Leave(t, "descheduled")
\* A blocked task waits in to_be_rescheduled, unless the query is cancelled:
\* then the last reference to it is gone.
AddToBeRescheduled(t) == Leave(t, IF cancelled THEN "freed" ELSE "descheduled")

Deschedule(t) ==
  /\ pc[t] = "deschedule"
  /\ AddToBeRescheduled(t)
  /\ held' = IF held = t THEN None ELSE held
  /\ UNCHANGED <<chunks, next, started, taskVars, bufferVars, blocked_sinks, cancelled,
                 hasError, interrupted, readerVars>>

\* PushFinalize: Combine passes on the last minimum; the task is finished.
Combine(t) ==
  /\ pc[t] = "combine" /\ glockFree
  /\ UpdateMinBatchIndex(minIndex[t])
  /\ Leave(t, "finished")
  /\ held' = IF held = t THEN None ELSE held
  /\ UNCHANGED <<chunks, next, started, taskVars, blocked_sinks, cancelled, hasError,
                 interrupted, readerVars>>

-----------------------------------------------------------------------------
(* The reader: StreamQueryResult::FetchInternal, holding the context lock *)

readerFrame == UNCHANGED <<chunks, next, started, taskVars, interrupted>>

Fetch ==
  /\ rpc = "idle"
  /\ rpc' = "poll"
  /\ UNCHANGED <<pc, runner, bufferVars, blocked_sinks, cancelled, hasError, held,
                 waking, last, delivered, outcome>> /\ readerFrame

\* BatchedBufferedData::ExecuteTaskInternal: BufferIsEmpty.
Poll ==
  /\ rpc = "poll"
  /\ rpc' = IF read_queue # <<>> THEN "scan" ELSE "unblock"
  /\ last' = "none"
  /\ UNCHANGED <<pc, runner, bufferVars, blocked_sinks, cancelled, hasError, held,
                 waking, delivered, outcome>> /\ readerFrame

\* Faulty variant of CanWake: the minimum batch waits for room in the buffer too.
WakesByBuffer(t) == t \in blocked_sinks /\ BufferCount < BufferCapacity
CanWake(t) == t \in blocked_sinks /\ ~IsFull(batch[t])

afterUnblock == IF last = "blocked" THEN "poll" ELSE "execute"

\* UnblockSinks: the sinks for which there is room again, under glock.
UnblockSinks ==
  /\ rpc = "unblock"
  /\ waking' = {t \in blocked_sinks : CanWake(t)}
  /\ rpc' = IF waking' = {} THEN afterUnblock ELSE "waking"
  /\ UNCHANGED <<pc, runner, bufferVars, blocked_sinks, cancelled, hasError, held, last,
                 delivered, outcome>> /\ readerFrame

\* RescheduleTask spins, holding glock, until the task is descheduled.
RescheduleTask(t) ==
  /\ rpc = "waking" /\ t \in waking
  /\ pc[t] = "descheduled"
  /\ Goto(t, "queued")
  /\ waking' = waking \ {t}
  /\ blocked_sinks' = blocked_sinks \ {t}
  /\ rpc' = IF waking' = {} THEN afterUnblock ELSE "waking"
  /\ UNCHANGED <<runner, bufferVars, cancelled, hasError, held, last, delivered, outcome>>
  /\ readerFrame

\* Executor::ExecuteTask: take a task and run it ...
ReaderTakes(t) ==
  /\ rpc = "execute"
  /\ IF held # None THEN t = held ELSE pc[t] = "queued"
  /\ Goto(t, IF t \in started THEN "top" ELSE "start")
  /\ runner' = [runner EXCEPT ![t] = "reader"]
  /\ held' = t
  /\ rpc' = "running"
  /\ UNCHANGED <<bufferVars, blocked_sinks, cancelled, hasError, waking, last, delivered,
                 outcome>> /\ readerFrame

\* ... or report that all pipelines are finished, or that there is no task.
NothingToRun ==
  /\ rpc = "execute" /\ held = None /\ \A t \in Tasks : pc[t] # "queued"
  /\ \/ /\ \A t \in Tasks : Finished(t)
        /\ last' = "finished" /\ rpc' = "recheck"
     \/ /\ \E t \in Tasks : ~Finished(t)
        /\ IF hasError THEN rpc' = "cancel" /\ last' = "error"
           ELSE /\ rpc' = "recheck"
                /\ last' = IF \E t \in Tasks : pc[t] = "descheduled"
                           THEN "blocked" ELSE "not_ready"
  /\ UNCHANGED <<pc, runner, bufferVars, blocked_sinks, cancelled, hasError, held, waking,
                 delivered, outcome>> /\ readerFrame

\* The task came back to the reader.
TaskReturned ==
  /\ rpc = "running" /\ \A t \in Tasks : runner[t] # "reader"
  /\ IF hasError THEN rpc' = "cancel" /\ last' = "error"
     ELSE rpc' = "recheck" /\ last' = "not_ready"
  /\ UNCHANGED <<pc, runner, bufferVars, blocked_sinks, cancelled, hasError, held, waking,
                 delivered, outcome>> /\ readerFrame

\* The buffer is looked at again: a chunk may have come meanwhile.
Recheck ==
  /\ rpc = "recheck"
  /\ rpc' = CASE read_queue # <<>> -> "scan"
              [] read_queue = <<>> /\ last = "blocked"   -> "unblock"
              [] read_queue = <<>> /\ last = "not_ready" -> "poll"
              [] read_queue = <<>> /\ last = "finished"  -> "scan"
              [] read_queue = <<>> /\ last = "error"     -> "done"
  /\ outcome' = IF rpc' = "done" THEN "failed" ELSE outcome
  /\ UNCHANGED <<pc, runner, bufferVars, blocked_sinks, cancelled, hasError, held, waking,
                 last, delivered>> /\ readerFrame

\* Scan: the next chunk, the last one of a query that failed meanwhile; or
\* nothing, and the result is complete and cleaned up.
Scan ==
  /\ rpc = "scan"
  /\ IF read_queue # <<>>
     THEN /\ delivered' = Append(delivered, Head(read_queue))
          /\ read_queue' = Tail(read_queue)
          /\ IF last = "error" THEN rpc' = "done" /\ outcome' = "failed"
             ELSE rpc' = "idle" /\ UNCHANGED outcome
     ELSE /\ rpc' = "done" /\ outcome' = "exhausted"
          /\ UNCHANGED <<delivered, read_queue>>
  /\ UNCHANGED <<pc, runner, min_batch, lowest_moved, buffer, completed, blocked_sinks,
                 cancelled, hasError, held, waking, last>> /\ readerFrame

\* close(), or another query on the connection: CleanupInternal.
Close ==
  /\ rpc = "idle"
  /\ rpc' = "cancel" /\ last' = "closed"
  /\ UNCHANGED <<pc, runner, bufferVars, blocked_sinks, cancelled, hasError, held, waking,
                 delivered, outcome>> /\ readerFrame

\* CancelTasks: tasks that wait are dropped at once ...
CancelTasks ==
  /\ rpc = "cancel"
  /\ cancelled' = TRUE
  /\ pc' = [t \in Tasks |-> IF pc[t] = "descheduled" \/ t = held THEN "freed" ELSE pc[t]]
  /\ held' = None
  /\ rpc' = "cancelling"
  /\ UNCHANGED <<runner, bufferVars, blocked_sinks, hasError, waking, last, delivered,
                 outcome>> /\ readerFrame

\* ... and those in the queue are run to their end or until they block ...
WorkOnTask(t) ==
  /\ rpc = "cancelling" /\ pc[t] = "queued"
  /\ \A u \in Tasks : runner[u] # "reader"
  /\ Goto(t, IF t \in started THEN "top" ELSE "start")
  /\ runner' = [runner EXCEPT ![t] = "reader"]
  /\ UNCHANGED <<bufferVars, blocked_sinks, cancelled, hasError, held, readerVars>>
  /\ readerFrame

\* ... until no task is left.
TasksCancelled ==
  /\ rpc = "cancelling" /\ \A t \in Tasks : Freed(t)
  /\ IF last = "error" THEN rpc' = "recheck" /\ UNCHANGED outcome
     ELSE rpc' = "done" /\ outcome' = "closed"
  /\ UNCHANGED <<pc, runner, bufferVars, blocked_sinks, cancelled, hasError, held, waking,
                 last, delivered>> /\ readerFrame

\* conn.interrupt() from any thread.
Interrupt ==
  /\ MayFail /\ ~interrupted /\ outcome = "open"
  /\ interrupted' = TRUE
  /\ UNCHANGED <<chunks, next, started, pc, runner, taskVars, bufferVars, blocked_sinks,
                 cancelled, hasError, held, readerVars>>

-----------------------------------------------------------------------------
Init ==
  /\ chunks \in Workloads /\ next = 1 /\ started = {}
  /\ index = [t \in Tasks |-> 0] /\ batch = index /\ minIndex = index
  /\ current = index /\ todo = index
  /\ pc = [t \in Tasks |-> "queued"] /\ runner = [t \in Tasks |-> None]
  /\ remaining = [t \in Tasks |-> FALSE]
  /\ min_batch = 0 /\ lowest_moved = 0 /\ buffer = [b \in Batches |-> <<>>]
  /\ completed = {} /\ read_queue = <<>> /\ blocked_sinks = {}
  /\ cancelled = FALSE /\ hasError = FALSE /\ interrupted = FALSE /\ held = None
  /\ rpc = "idle" /\ waking = {} /\ last = "none"
  /\ delivered = <<>> /\ outcome = "open"

TaskStep(t) ==
  \/ RegisterNewBatchIndex(t) \/ RunLoop(t) \/ TaskThrows(t) \/ PartialReturns(t)
  \/ CompleteBatch(t) \/ PassOldMinimum(t) \/ UpdateBatchIndex(t)
  \/ SinkMinimum(t) \/ ShouldBlockBatch(t) \/ BlockSink(t) \/ AppendChunk(t)
  \/ Deschedule(t) \/ Combine(t)

ReaderStep ==
  \/ Poll \/ UnblockSinks \/ NothingToRun \/ TaskReturned \/ Recheck \/ Scan
  \/ CancelTasks \/ TasksCancelled
  \/ \E t \in Tasks : RescheduleTask(t) \/ ReaderTakes(t) \/ WorkOnTask(t)

Next ==
  \/ \E t \in Tasks : WorkerTakes(t) \/ TaskStep(t)
  \/ ReaderStep \/ Fetch \/ Close \/ Interrupt

Spec == Init /\ [][Next]_vars

\* Threads that can run do run; whether the reader fetches again is its choice.
Fairness ==
  /\ WF_vars(ReaderStep)
  /\ \A t \in Tasks : WF_vars(TaskStep(t)) /\ WF_vars(WorkerTakes(t))

FairSpec == Spec /\ Fairness

-----------------------------------------------------------------------------
(* Properties *)

Chunk == Batches \X (Nat \ {0})
PC == {"queued", "start", "top", "again", "next", "oldmin", "register", "sink",
       "check", "block", "append", "deschedule", "descheduled", "combine", "held",
       "finished", "freed"}

TypeOK ==
  /\ chunks \in Workloads /\ next \in 1 .. MaxBatchIndex /\ started \subseteq Tasks
  /\ {index, batch, minIndex, current} \subseteq [Tasks -> 0 .. MaxBatchIndex]
  /\ todo \in [Tasks -> Nat] /\ remaining \in [Tasks -> BOOLEAN]
  /\ pc \in [Tasks -> PC] /\ runner \in [Tasks -> {None, "worker", "reader"}]
  /\ min_batch \in 0 .. MaxBatchIndex /\ lowest_moved \in 0 .. NBatches
  /\ buffer \in [Batches -> Seq(Chunk)] /\ completed \subseteq Batches
  /\ read_queue \in Seq(Chunk) /\ blocked_sinks \subseteq Tasks
  /\ cancelled \in BOOLEAN /\ hasError \in BOOLEAN /\ interrupted \in BOOLEAN
  /\ held \in Tasks \union {None} /\ waking \subseteq Tasks
  /\ rpc \in {"idle", "poll", "unblock", "waking", "execute", "running", "recheck",
              "scan", "cancel", "cancelling", "done"}
  /\ last \in {"none", "not_ready", "blocked", "finished", "error", "closed"}
  /\ delivered \in Seq(Chunk)
  /\ outcome \in {"open", "exhausted", "failed", "closed"}

\* "There should not be any batches in the buffer that are lower or equal to
\* the minimum batch index", "We should never find any chunks with a smaller
\* batch index than the minimum": what lies in the buffer, and every chunk on
\* its way into it, is at or above the minimum, whatever the order in which
\* tasks report their indexes.
NothingBelowMinimum ==
  /\ \A b \in Batches : buffer[b] # <<>> => b > min_batch /\ b >= lowest_moved
  /\ \A t \in started : pc[t] \in {"sink", "check", "append", "block"}
                          => batch[t] >= min_batch

\* D_ASSERT(in_progress_batch.completed || batch_index == min_batch): a batch
\* is passed over by a new minimum only when its task has left it.
PassedMeansComplete ==
  \A t \in started, b \in Batches :
    buffer[b] # <<>> /\ b < minIndex[t] => b \in completed

\* ShouldBlockBatch and Append are two critical sections: the buffer outgrows
\* its capacity by one chunk per task at most.
BufferBounded ==
  BufferCount <= (IF BufferCapacity = 0 THEN 0 ELSE BufferCapacity - 1 + Cardinality(Tasks))

\* "The maximum memory to buffer between fetching from a streaming result"
\* (streaming_buffer_size): both queues together, one chunk per task allowed.
WithinBufferSize ==
  Len(read_queue) + BufferCount
    <= ReadQueueCapacity + BufferCapacity + Cardinality(Tasks)

\* No lost wakeup: a fetch() returns, with a chunk, the end or an error.
FetchReturns == (rpc = "poll") ~> (rpc \in {"idle", "done"})

\* Closing a result ends: no task is left behind, blocked or waiting.
CloseReturns == (rpc = "cancel") ~> (rpc = "done")

\* The reader gets the rows in order, and never the end before the last row.
Rows == FlattenSeq([b \in Batches |-> [i \in 1 .. chunks[b] |-> <<b, i>>]])
Stream == INSTANCE OrderedStream WITH expected <- Rows
RowsInOrder == Stream!Spec
=============================================================================
