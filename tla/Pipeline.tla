------------------------------ MODULE Pipeline ------------------------------
(***************************************************************************)
(* PipelineParallel (src/fastsafetensors/parallel_loader.py): one producer *)
(* thread copies the batches of a checkpoint to the device, one consumer   *)
(* generator yields their tensors to the caller.  They share a bounded     *)
(* queue, two events (stop_event, error_event) and, when queue_size <= 0,  *)
(* a third one (consumer_processed) that hands the turn back and forth.    *)
(*                                                                         *)
(* A batch is its position in weight_files_batches (1 .. NumBatches); a    *)
(* device buffer is known by the batch it holds.  Every call the code can  *)
(* see raise may raise here: add_filenames, copy_files_to_device, the      *)
(* access to a tensor of a batch still in flight, FilesBufferOnDevice.close*)
(* The caller may close the generator at any yield.                        *)
(***************************************************************************)
EXTENDS Integers, Sequences, FiniteSets

CONSTANTS
    NumBatches,   \* len(weight_files_batches)
    QueueSizes    \* the queue_size values callers pass and the memory plan
                  \* may clamp to

ASSUME NumBatchesAssumption == NumBatches \in Nat
ASSUME QueueSizesAssumption == QueueSizes \subseteq Int

VARIABLES
    requested,    \* the queue_size parameter of __init__
    queueSize,    \* self.queue_size: the parameter, or less if _create_batches
                  \* clamped it to fit device_memory_budget
    queue,        \* batch_queue: what the producer put and nobody took
    stop,         \* stop_event.is_set()
    error,        \* error_event.is_set()
    processed,    \* consumer_processed.is_set(); unused when queueSize > 0
    buf,          \* buf[b]: the device buffer of batch b
    staged,       \* batches whose files are registered with the loader
    prod,         \* where the producer thread is
    batch,        \* batch_id of the producer's loop
    item,         \* the item _put_cancellable is offering
    cons,         \* where the consumer generator is
    taken,        \* batch the consumer holds, 0 for none
    count,        \* processed_batches of _consumer_worker
    delivered,    \* number of batches whose every tensor was yielded
    exc           \* what is propagating out of the generator

events       == <<stop, error, processed>>
producerVars == <<prod, batch, item, staged>>
consumerVars == <<cons, taken, count, delivered, exc>>
sizes == <<requested, queueSize>>
vars == <<sizes, queue, events, buf, producerVars, consumerVars>>

Batches == 1 .. NumBatches

\* consumer_processed is not None
Handshake == queueSize <= 0

\* _planner.pipeline_depth: the number of buffers the memory plan charges
PipelineDepth == IF queueSize < 0 THEN 1 ELSE queueSize + 2

\* Items of the queue: a FileBatch, the exception of a batch, or the final None
BatchItem(b) == [kind |-> "batch", id |-> b]
ErrorItem(b) == [kind |-> "error", id |-> b]
EndItem      == [kind |-> "end", id |-> NumBatches + 1]
Items == [kind : {"batch", "error"}, id : Batches] \cup {EndItem}

ProducerPoints == {"unborn", "loop", "add", "wait", "waiting", "woken",
                   "clear", "copy", "copying", "offer", "blocked", "reset",
                   "drop", "fail", "exited"}
ConsumerPoints == {"idle", "loop", "got", "yield", "release", "sync",
                   "except", "stop", "wake", "drain1", "close1", "join",
                   "drain2", "close2", "done"}

-----------------------------------------------------------------------------
(* Decisions of the code that the actions below use, each after the slip a *)
(* maintainer could make in it (Slip...: used by no action, they show that *)
(* the properties would notice).                                           *)

\* queue.Queue(maxsize=max(1, self.queue_size))
AtLeastOne(n) == IF n > 1 THEN n ELSE 1
SlipMaxSize == AtLeastOne(requested)
MaxSize == AtLeastOne(queueSize)

\* _producer_worker: one round for each batch
SlipMoreBatches == batch <= NumBatches + 1
MoreBatches == batch <= NumBatches

\* __init__: the first batch may be copied without waiting
SlipFirstMayGo == FALSE
FirstMayGo == Handshake

\* _load_single_batch: a batch is skipped once the pipeline is stopping
SlipSkips == stop
Skips == stop \/ error

\* _wait_consumer_processed: a wake-up counts unless cleanup has begun
SlipWakeUpCounts == TRUE
WakeUpCounts == ~stop

\* _put_cancellable: stop_event ends the retry loop
SlipGivesUp == FALSE
GivesUp == stop

\* _load_single_batch: an undelivered batch is closed, not left behind
SlipAfterGivingUp == [batch |-> "reset", error |-> "loop", end |-> "exited"]
AfterGivingUp     == [batch |-> "drop", error |-> "loop", end |-> "exited"]
AfterPut          == [batch |-> "reset", error |-> "loop", end |-> "exited"]

\* _load_single_batch: what the consumer is sent when the batch failed
SlipFailureNotice(b) == EndItem
FailureNotice(b) == ErrorItem(b)

\* _consume_single_batch: an unbuffered pipeline hands the turn back on get,
\* a serial one only after the buffer is closed
SignalsOnGet == queueSize = 0
SignalsOnClose == queueSize < 0

\* iterate_weights: the queue is drained again after the join
SlipAfterJoin == "done"
AfterJoin == "drain2"

\* iterate_weights: cleanup waits for the producer thread
SlipJoined == TRUE
Joined == prod = "exited"

-----------------------------------------------------------------------------
Init ==
    /\ requested \in QueueSizes
    /\ queueSize \in {q \in QueueSizes : q <= requested}
    /\ queue = <<>>
    /\ stop = FALSE
    /\ error = FALSE
    /\ processed = FirstMayGo
    /\ buf = [b \in Batches |-> "none"]
    /\ staged = {}
    /\ prod = "unborn" /\ batch = 1 /\ item = EndItem
    /\ cons = "idle" /\ taken = 0 /\ count = 0 /\ delivered = 0
    /\ exc = "none"

-----------------------------------------------------------------------------
(* The producer thread: _producer_worker and _load_single_batch.           *)

ProducerGoes(from, to) == prod = from /\ prod' = to

\* The loop over weight_files_batches is over: offer the final None.
OfferEnd ==
    /\ ProducerGoes("loop", "offer")
    /\ ~MoreBatches
    /\ item' = EndItem
    /\ UNCHANGED <<sizes, queue, events, buf, batch, staged, consumerVars>>

SkipBatch ==
    /\ ProducerGoes("loop", "loop")
    /\ MoreBatches
    /\ Skips
    /\ batch' = batch + 1
    /\ UNCHANGED <<sizes, queue, events, buf, item, staged, consumerVars>>

StartBatch ==
    /\ ProducerGoes("loop", "add")
    /\ MoreBatches
    /\ ~Skips
    /\ UNCHANGED <<sizes, queue, events, buf, batch, item, staged,
                   consumerVars>>

\* loader.add_filenames and _set_chunk_plan.  When one raises, the files
\* registered before the failing one stay with the loader.
AddFilenames ==
    /\ \/ ProducerGoes("add", IF Handshake THEN "wait" ELSE "copy")
       \/ ProducerGoes("add", "fail")
    /\ staged' = staged \cup {batch}
    /\ UNCHANGED <<sizes, queue, events, buf, batch, item, consumerVars>>

\* _load_single_batch returns without an item: on to the next batch.
AbandonBatch ==
    /\ prod' = "loop"
    /\ batch' = batch + 1
    /\ UNCHANGED <<sizes, queue, events, buf, item, staged, consumerVars>>

\* _wait_consumer_processed: the loop tests stop_event, then waits up to
\* 0.1 s for consumer_processed; a timeout returns to the test.
WaitCancelled ==
    /\ prod = "wait"
    /\ stop
    /\ AbandonBatch

WaitBegins ==
    /\ ProducerGoes("wait", "waiting")
    /\ ~stop
    /\ UNCHANGED <<sizes, queue, events, buf, batch, item, staged,
                   consumerVars>>

WaitEvent ==
    /\ ProducerGoes("waiting", IF processed THEN "woken" ELSE "wait")
    /\ UNCHANGED <<sizes, queue, events, buf, batch, item, staged,
                   consumerVars>>

WokenTooLate ==
    /\ prod = "woken"
    /\ ~WakeUpCounts
    /\ AbandonBatch

WokenInTime ==
    /\ ProducerGoes("woken", "clear")
    /\ WakeUpCounts
    /\ UNCHANGED <<sizes, queue, events, buf, batch, item, staged,
                   consumerVars>>

ClearProcessed ==
    /\ ProducerGoes("clear", "copy")
    /\ processed' = FALSE
    /\ UNCHANGED <<sizes, queue, stop, error, buf, batch, item, staged,
                   consumerVars>>

\* loader.copy_files_to_device allocates the batch's buffers and submits IO
BeginCopy ==
    /\ ProducerGoes("copy", "copying")
    /\ buf' = [buf EXCEPT ![batch] = "live"]
    /\ UNCHANGED <<sizes, queue, events, batch, item, staged, consumerVars>>

EndCopy ==
    /\ ProducerGoes("copying", "offer")
    /\ item' = BatchItem(batch)
    /\ UNCHANGED <<sizes, queue, events, buf, batch, staged, consumerVars>>

\* ... or raises, after it freed what it had allocated (the files of a batch
\* hold tensors of different names)
CopyRaises ==
    /\ ProducerGoes("copying", "fail")
    /\ buf' = [buf EXCEPT ![batch] = "closed"]
    /\ UNCHANGED <<sizes, queue, events, batch, item, staged, consumerVars>>

\* _put_cancellable(item) returned, having put the item or given up
PutReturns(next) ==
    /\ prod' = next
    /\ batch' = IF next = "loop" THEN batch + 1 ELSE batch
    /\ UNCHANGED <<sizes, events, buf, item, staged, consumerVars>>

OfferCancelled ==
    /\ prod = "offer"
    /\ GivesUp
    /\ PutReturns(AfterGivingUp[item.kind])
    /\ UNCHANGED queue

OfferGoesOn ==
    /\ ProducerGoes("offer", "blocked")
    /\ ~GivesUp
    /\ UNCHANGED <<sizes, queue, events, buf, batch, item, staged,
                   consumerVars>>

\* batch_queue.put(item, timeout=0.1)
Put ==
    /\ prod = "blocked"
    /\ Len(queue) < MaxSize
    /\ queue' = Append(queue, item)
    /\ PutReturns(AfterPut[item.kind])

PutTimesOut ==
    /\ ProducerGoes("blocked", "offer")
    /\ Len(queue) >= MaxSize
    /\ UNCHANGED <<sizes, queue, events, buf, batch, item, staged,
                   consumerVars>>

LoaderReset ==
    /\ ProducerGoes("reset", "loop")
    /\ staged' = {}
    /\ batch' = batch + 1
    /\ UNCHANGED <<sizes, queue, events, buf, item, consumerVars>>

\* The consumer is gone: fb.close(), which frees even when it raises.
DropBatch ==
    /\ \/ ProducerGoes("drop", "loop") /\ batch' = batch + 1
       \/ ProducerGoes("drop", "fail") /\ UNCHANGED batch
    /\ buf' = [buf EXCEPT ![batch] = "closed"]
    /\ UNCHANGED <<sizes, queue, events, item, staged, consumerVars>>

\* except Exception: record the error, then notify the consumer
Fail ==
    /\ ProducerGoes("fail", "offer")
    /\ error' = TRUE
    /\ item' = FailureNotice(batch)
    /\ UNCHANGED <<sizes, queue, stop, processed, buf, batch, staged,
                   consumerVars>>

Producer ==
    \/ OfferEnd \/ SkipBatch \/ StartBatch \/ AddFilenames
    \/ WaitCancelled \/ WaitBegins \/ WaitEvent
    \/ WokenTooLate \/ WokenInTime \/ ClearProcessed
    \/ BeginCopy \/ EndCopy \/ CopyRaises
    \/ OfferCancelled \/ OfferGoesOn \/ Put \/ PutTimesOut
    \/ LoaderReset \/ DropBatch \/ Fail

-----------------------------------------------------------------------------
(* The consumer: iterate_weights, _consumer_worker, _consume_single_batch, *)
(* _drain_queue.  The generator runs when the caller asks for a tensor; it *)
(* is suspended only in "yield".                                           *)

ConsumerGoes(from, to) == cons = from /\ cons' = to

\* The first next(): iterate_weights starts the producer thread.
StartIteration ==
    /\ ConsumerGoes("idle", "loop")
    /\ prod' = "loop"
    /\ UNCHANGED <<sizes, queue, events, buf, batch, item, staged,
                   taken, count, delivered, exc>>

\* batch_queue.get()
Get ==
    /\ ConsumerGoes("loop", "got")
    /\ count < NumBatches
    /\ queue # <<>>
    /\ queue' = Tail(queue)
    /\ LET got == Head(queue) IN
       /\ taken' = IF got.kind = "batch" THEN got.id ELSE 0
       /\ exc' = IF got.kind = "error" THEN "error" ELSE exc
    /\ UNCHANGED <<sizes, events, buf, producerVars, count, delivered>>

\* An unbuffered pipeline hands the turn back.  Then a batch is yielded from,
\* an exception is raised, and None makes _consume_single_batch return, which
\* the loop counts as a batch.
HandTurn ==
    /\ cons = "got"
    /\ processed' = (processed \/ SignalsOnGet)
    /\ cons' = IF taken # 0 THEN "yield"
               ELSE IF exc = "error" THEN "except" ELSE "loop"
    /\ count' = IF cons' = "loop" THEN count + 1 ELSE count
    /\ UNCHANGED <<sizes, queue, stop, error, buf, producerVars, taken,
                   delivered, exc>>

\* The caller asked past the batch's last tensor.
Exhausted ==
    /\ ConsumerGoes("yield", "release")
    /\ delivered' = delivered + 1
    /\ UNCHANGED <<sizes, queue, events, buf, producerVars, taken, count,
                   exc>>

\* get_tensor raised, for instance because an in-flight read failed.
TensorRaises ==
    /\ ConsumerGoes("yield", "release")
    /\ exc' = "error"
    /\ UNCHANGED <<sizes, queue, events, buf, producerVars, taken, count,
                   delivered>>

\* The caller closed the generator: GeneratorExit at the yield.
CallerCloses ==
    /\ ConsumerGoes("yield", "release")
    /\ exc' = "exit"
    /\ UNCHANGED <<sizes, queue, events, buf, producerVars, taken, count,
                   delivered>>

\* batch.fb.close() in the finally block, which frees even when it raises;
\* an exception it raises replaces the one that was propagating
Release ==
    /\ cons = "release"
    /\ buf' = [buf EXCEPT ![taken] = "closed"]
    /\ taken' = 0
    /\ exc' \in {exc, "error"}
    /\ cons' = [none |-> "sync", exit |-> "stop", error |-> "except"][exc']
    /\ UNCHANGED <<sizes, queue, events, producerVars, count, delivered>>

Sync ==
    /\ ConsumerGoes("sync", "loop")
    /\ processed' = (processed \/ SignalsOnClose)
    /\ count' = count + 1
    /\ UNCHANGED <<sizes, queue, stop, error, buf, producerVars, taken,
                   delivered, exc>>

\* All batches were processed.
EndIteration ==
    /\ ConsumerGoes("loop", "stop")
    /\ count = NumBatches
    /\ UNCHANGED <<sizes, queue, events, buf, producerVars, taken, count,
                   delivered, exc>>

\* except Exception of _consumer_worker, then the finally of iterate_weights
SetStop ==
    /\ ConsumerGoes("except", "stop") \/ ConsumerGoes("stop", "wake")
    /\ stop' = TRUE
    /\ UNCHANGED <<sizes, queue, error, processed, buf, producerVars,
                   taken, count, delivered, exc>>

WakeProducer ==
    /\ ConsumerGoes("wake", "drain1")
    /\ processed' = (processed \/ Handshake)
    /\ UNCHANGED <<sizes, queue, stop, error, buf, producerVars, taken,
                   count, delivered, exc>>

\* _drain_queue, called before and after the join: get_nowait() until Empty
DrainGet ==
    /\ cons \in {"drain1", "drain2"}
    /\ queue # <<>>
    /\ queue' = Tail(queue)
    /\ IF Head(queue).kind = "batch"
       THEN /\ taken' = Head(queue).id
            /\ cons' = IF cons = "drain1" THEN "close1" ELSE "close2"
       ELSE UNCHANGED <<cons, taken>>
    /\ UNCHANGED <<sizes, events, buf, producerVars, count, delivered, exc>>

\* item.fb.close(): its error is kept, and raised once the cleanup is over
DrainClose ==
    /\ ConsumerGoes("close1", "drain1") \/ ConsumerGoes("close2", "drain2")
    /\ buf' = [buf EXCEPT ![taken] = "closed"]
    /\ taken' = 0
    /\ exc' \in {exc, "error"}
    /\ UNCHANGED <<sizes, queue, events, producerVars, count, delivered>>

DrainEmpty ==
    /\ ConsumerGoes("drain1", "join") \/ ConsumerGoes("drain2", "done")
    /\ queue = <<>>
    /\ UNCHANGED <<sizes, queue, events, buf, producerVars, taken, count,
                   delivered, exc>>

Join ==
    /\ ConsumerGoes("join", AfterJoin)
    /\ Joined
    /\ UNCHANGED <<sizes, queue, events, buf, producerVars, taken, count,
                   delivered, exc>>

\* Steps the consumer takes on its own; the others are the caller's to ask.
Consumer ==
    \/ Get \/ HandTurn \/ Release \/ Sync \/ EndIteration
    \/ SetStop \/ WakeProducer \/ DrainGet \/ DrainClose \/ DrainEmpty \/ Join

Caller == StartIteration \/ Exhausted \/ TensorRaises \/ CallerCloses

\* PipelineParallel.close: loader.close() once the iterator is finished,
\* which resets the loader and may be repeated
CloseLoader ==
    /\ cons = "done"
    /\ staged' = {}
    /\ UNCHANGED <<sizes, queue, events, buf, prod, batch, item,
                   consumerVars>>

Next == Producer \/ Consumer \/ Caller \/ CloseLoader

\* Both threads are scheduled by the operating system; the caller may stop
\* asking for tensors at any time, so its steps are not fair.
Fairness == WF_vars(Producer) /\ WF_vars(Consumer)

Spec == Init /\ [][Next]_vars /\ Fairness

-----------------------------------------------------------------------------
(* Properties.                                                             *)

Resident == {b \in Batches : buf[b] = "live"}

\* Batches whose buffer the producer thread is responsible for
InProducer ==
    IF \/ prod \in {"copying", "drop"}
       \/ prod \in {"offer", "blocked"} /\ item.kind = "batch"
    THEN {batch} ELSE {}

InQueue == {i \in 1 .. Len(queue) : queue[i].kind = "batch"}
QueuedIds == {queue[i].id : i \in InQueue}

InConsumer == IF taken = 0 THEN {} ELSE {taken}

\* Types of the variables.
TypeOK ==
    /\ requested \in QueueSizes /\ queueSize \in QueueSizes
    /\ queue \in Seq(Items)
    /\ stop \in BOOLEAN /\ error \in BOOLEAN /\ processed \in BOOLEAN
    /\ buf \in [Batches -> {"none", "live", "closed"}]
    /\ staged \in SUBSET Batches
    /\ prod \in ProducerPoints
    /\ batch \in 1 .. NumBatches + 1
    /\ item \in Items
    /\ cons \in ConsumerPoints
    /\ taken \in 0 .. NumBatches
    /\ count \in 0 .. NumBatches
    /\ delivered \in Nat
    /\ exc \in {"none", "exit", "error"}

\* At no time, cleanup included, do more device buffers exist than
\* pipeline_depth lets the memory planner charge for this queue_size.
DepthBound == Cardinality(Resident) <= PipelineDepth

\* Every live buffer is in the hands of exactly one party, which will close
\* it: the producer thread, one place of the queue, or the consumer; and what
\* they hold is live (no closed buffer is yielded, none is closed twice).
SingleOwner ==
    /\ Resident = InProducer \cup QueuedIds \cup InConsumer
    /\ InProducer \cap QueuedIds = {}
    /\ InProducer \cap InConsumer = {}
    /\ QueuedIds \cap InConsumer = {}
    /\ \A i, j \in InQueue : queue[i].id = queue[j].id => i = j

\* When iterate_weights has ended, normally or not, the producer thread is
\* gone and no device buffer is left behind.
NothingLeftBehind ==
    cons = "done" => prod = "exited" /\ queue = <<>> /\ Resident = {}

\* A generator that ends without an exception delivered every batch, and no
\* batch failed.
NoSilentLoss ==
    cons = "done" /\ exc = "none" => delivered = NumBatches /\ ~error

\* A copy only sees the files of its own batch: the loader was reset after
\* every batch that added files, or nothing is copied any more.
CopyIsolation == prod = "copying" => staged = {batch}

\* What a live consumer takes from the queue is about the batch it waits for:
\* batches arrive in order without a gap, the error of a batch after all the
\* batches before it, and the end marker is never taken for a batch.
InOrder ==
    [][(cons = "loop" /\ queue # <<>> /\ queue' = Tail(queue))
       => /\ Head(queue).kind # "end"
          /\ Head(queue).id = delivered + 1]_vars

\* Once stop_event is set, a producer that has not passed its check of it
\* never allocates another buffer.
NoWorkAfterStop ==
    []((stop /\ prod \in {"loop", "wait", "waiting", "woken"})
        => [](prod # "copying"))

\* A consumer that waits on the queue gets a batch or ends: the producer
\* never leaves it waiting for an item nobody will put.
ConsumerServed == (cons = "loop") ~> (cons \in {"yield", "done"})

\* Once the generator is on its way out (closed early, failed, or exhausted),
\* it ends: the join cannot hang on a producer parked on the queue or on
\* consumer_processed.
CleanupEnds == (cons = "release" /\ exc # "none") ~> (cons = "done")

\* What the caller sees: the buffers that were ever created, the batch being
\* yielded, and how the iteration ended.
Acquired == {b \in Batches : buf[b] # "none"}
Current  == IF cons \in {"got", "yield"} THEN taken ELSE 0
Outcome  == IF cons # "done" THEN "running"
            ELSE [none |-> "complete", exit |-> "closed",
                  error |-> "failed"][exc]

\* The threads, the queue and the events implement what iterate_weights
\* promises (BatchDelivery).
Promise == INSTANCE BatchDelivery WITH
    depth    <- PipelineDepth,
    acquired <- Cardinality(Acquired),
    resident <- Resident,
    current  <- Current,
    given    <- delivered,
    outcome  <- Outcome
KeepsPromise == Promise!Spec

=============================================================================
