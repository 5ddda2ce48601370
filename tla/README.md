# TLA+ development of fastsafetensors

fastsafetensors copies safetensors files to an accelerator: files are split
into batches, the files of a batch are read by a copier (buffered reads through
bounce buffers, GDS, pinned DMA, ...) into device buffers, and tensors are
handed out as views of those buffers, possibly while reads are still in flight.
This directory holds the specifications of its concurrent and failure-prone
parts, the TLC configurations that check them on small instances, and proofs.
Paths below are relative to `src/fastsafetensors/` of the repository.

    tlc -config MCPipeline.cfg MCPipeline                10 s
    tlc -config MCNogdsReader.cfg MCNogdsReader          60 s
    tlc -config MCNogdsLive.cfg MCNogdsReader           120 s
    tlc -config MCLoadBatch.cfg MCLoadBatch              10 s
    tlc -config MCLoadBatchShared.cfg MCLoadBatch         2 s  (violation)
    tlc -config MCSaver.cfg MCSaver                     100 s
    tlc -config MCRankBuffers.cfg MCRankBuffers          60 s
    tlc -config MCRankMulti.cfg MCRankBuffers             2 s  (violation)
    tlc -config MCBudgetedLoad.cfg MCBudgetedLoad        20 s
    tlc -config MCBudgetedReceives.cfg MCBudgetedLoad     4 s  (violation)
    tlc -config MCCopiers.cfg MCCopiers                  12 s
    tlc -config MCCopiersShort.cfg MCCopiers              2 s  (violation)
    tlapm PipelineProofs.tla                            100 s
    tlapm NogdsProofs.tla                               100 s
    tlapm LoadBatchProofs.tla                            90 s
    tlapm CopierProofs.tla                               90 s
    tlapm SaverProofs.tla                                60 s
    tlapm RankProofs.tla                                 90 s
    tlapm ChunkPlanProofs.tla                           170 s
    tlapm BudgetProofs.tla                              280 s

## 1. Inventory

| Component | State it keeps | Operations | Hard behaviour | What makes it correct |
|---|---|---|---|---|
| `PipelineParallel` (parallel_loader.py) | bounded queue, `stop_event`, `error_event`, `consumer_processed`, loop counters, the loader's staged files | `iterate_weights`, `_producer_worker`, `_load_single_batch`, `_consume_single_batch`, `_drain_queue`, `close` | two threads, three events, early close of a generator, failures of any call | memory bound, one owner per buffer, order, no silent loss, cleanup ends and leaves nothing |
| nogds reader (cpp/ext.cpp 851-1142) and `NoGdsFileCopier` | request table, deque, bounce buffers, streams, per-request prefix; fd, request ids | `submit_read`, `wait_read_prefix`, `wait_read`, destructor; `submit_io`, `wait_tensor`, `finish_io` | worker threads, asynchronous copies, blocks out of order, partial failure | bytes ready before use, no reuse under a copy, drain before close and free, waits end |
| GDS reader (1200-1351), `GdsFileCopier` | job queue, request table, registered buffers, readiness state | same protocol, realignment after the reads | partial reads, registration undo | as above; registrations balanced |
| FGDS reader (1395-1473), `FgdsFileCopier` | slots of threads, results by id | `submit_read`, `wait_read`, atexit cleanup | slot reuse by id modulo size | every result read once, by its own waiter |
| Unified memory (1501-1710), `UnifiedMemCopier` | completion ranges, DMA threads, pinned pages | `dma_load_runs`, readiness thread, mmap fallback | ranges completed out of order, short reads, failure of one thread | ready ranges hold file bytes |
| DirectStorage, 3FS | request queue, fence; external reader | submit, wait | error paths | no leak, no use before the fence |
| `SharedDeviceAllocation`, DLPack | reference count, base buffer, capsules | `acquire`, `release`, deleters | releases from foreign threads, repeated close | freed once, never while a tensor lives |
| `FilesBufferOnDevice`, `LazyTensorFactory` | key table, instantiated tensors, copier, views | `get_tensor`, `_get_tensor`, `iter_local_tensors`, `close`, `free_dev_ptrs` | automatic delete, borrowed tensors, close with reads in flight | drained before freed, not freed while wanted |
| loader (loader.py) | staged metadata, chunk plan | `add_filenames`, `copy_files_to_device`, `reset`, `close` | one file of several fails | all or nothing: everything freed on failure |
| planner, byte ranges (_planner.py, common.py) | none (pure) | `plan_chunks`, `plan_file_budgets`, `fit_queue_size`, coalescing | boundaries | plans cover everything once and fit |
| saver (saver.py) | temporary files, maps | `write_shards`, `save_sharded`, `ParallelSaver` | failure or crash between renames | no partial file under a final name |
| broadcast of runs (file_buffer.py 208-304) | position in the run list | `_broadcast_runs`, `_iter_tensors` | ranks in lockstep without talking | all ranks issue the same collectives |
| registry, config, EP slice, frameworks, library loading | tables set once | look-ups | fallback order | - |

Interactions: the pipeline's producer calls the loader, the loader builds one
copier per file and submits its reads, a copier calls the reader it shares with
other copiers, the pipeline's consumer takes tensors from
`FilesBufferOnDevice`, which asks the copier to wait (`wait_tensor`) and, on
close, to drain (`finish_io`) before the allocation is released.  PROJECT.json
lists the hazards of this code at their lines, with the property that covers
each one, or why none does.

## 2. Structure and plan

| Modules | Model |
|---|---|
| `Pipeline`, `BatchDelivery` | the two threads of `iterate_weights`, and what they promise |
| `NogdsReader` | the default reader, with the copiers that share it |
| `CopierContract` | what every copier promises to the factory that drives it |
| `CopierBase`, `GdsReader`, `FgdsReader`, `UnifiedReader`, `Copiers` | the other copiers, each an implementation of `CopierContract` |
| `LoadBatch` | `copy_files_to_device` over abstract copiers, and the life of the memory it returns, on one rank |
| `RankBuffers` | the same buffers in a group of ranks: collectives, streams, `auto_mem_delete` |
| `ChunkPlan`, `BudgetedLoad` | the memory planner as operators, and a load that follows a plan |
| `ShardPlan`, `Saver` | saving shards: temporary files, renames, failures, deaths, losses of power |
| `PipelineProofs`, `NogdsProofs`, `LoadBatchProofs`, `CopierProofs`, `SaverProofs`, `RankProofs`, `ChunkPlanProofs`, `BudgetProofs` | the theorems |

`Pipeline` takes from the planner one number, the depth; `BudgetedLoad` takes
from the pipeline one fact, that at most `pipeline_depth` batches are alive, and
`MemoryBound` (section 5) proves it.  `LoadBatch` drives copiers as abstract as
`CopierContract`; `Copiers` shows that three of them keep the contract,
`NogdsReader` states the same promises for the fourth (`BytesReady`,
`NoLateUse`).

No module declares a RECURSIVE operator.

## 3. What the modules say

**Pipeline.**  State: the queue (`queue`), the events (`stop`, `error`,
`processed`), the loader's staged files (`staged`), the device buffer of each
batch (`buf`), and where each thread is (`prod`, `cons`) with its locals
(`batch`, `item`; `taken`, `count`, `exc`).  An action is what a thread does
between two points where the other could be seen: each test, set or clear of an
event, each put and get, and each call that may raise is a step of its own
(`Get` takes from the queue, `HandTurn` sets `consumer_processed` after it), so
`_wait_consumer_processed` is four steps (test, wait, wake-up test, clear) and
`_put_cancellable` alternates test and timed put.  The 0.1 s timeouts are steps
that may happen whenever the condition they wait for is false.  A generator runs
only when asked: `Caller` has the caller's choices (first `next`, exhaust a
batch, close the generator, or see `get_tensor` raise), `Consumer` the rest.
`queue_size` is any of `QueueSizes`, and the effective size any smaller one,
because `_create_batches` may clamp it.  `copy_files_to_device` is one call
that allocates at its start, and returns or raises after it freed.

**BatchDelivery.**  What `iterate_weights` promises: batches brought in order
within the depth, served in order and released before the next one, and an end
with nothing left, complete only if everything was served.  `Pipeline`
implements it under the mapping at its end (`KeepsPromise`): a batch is
resident while its buffer is live, current while the generator is in its yields.

**NogdsReader.**  Reader state: the deque (`queue`), the request table (`req`
with next, remaining, completed, prefix, failed), `stopping`; per worker its
point, the block in hand, the pending block of each bounce buffer; the memory:
what each bounce buffer holds, the copy on each stream (`dma`), what each
destination block holds (`dst`); per copier the point of its thread and
`wait_tensor`'s and `finish_io`'s progress.  Mutex sections are single actions,
everything the code does outside the mutex is a step of its own.  The device
takes the bounce buffer's bytes when the copy runs, not when it is submitted, so
that a buffer filled too early really corrupts.  The condition variables are
states "asleep", left only on a notify.  Bytes are blocks: the bytes of block b
are the value b, wherever they are.  A copier follows the order in which the
loader uses it: submit, then (with readiness) tensors, then `finish_io`; its
buffer may also be dropped without a close, which is how the reader can be
destroyed with reads queued.

Abstracted: ids of requests (a copier and a position instead of a counter),
zero-length reads (`submit_io` issues none), realignment for O_DIRECT, spurious
wake-ups (the waits re-test their condition), logging and metrics.

**LoadBatch.**  The caller's thread (`pc`, and `file`, the file its loop is at)
goes through the two loops of `copy_files_to_device`, the registration of the
tensor names, the user's calls and `close`; a call that can raise has a second
action that starts the undo.  Per file: the fields of its factory that
`free_dev_ptrs` tests (`copier`, `gbuf`, `alloc`), whether the factory is in the
list that the undo goes through (`listed`), its descriptor (`open`), its reads
(`io`) and the tensors whose bytes landed (`ready`), its device memory (`mem`)
with the reference count, and who keeps each storage alive (`held`).  A storage
is what one DLPack capsule exports: the tensors of a file that have a common
type are views of one (`iter_buffer_views`), and its deleter runs when the last
view is dropped, on any thread.  `release` decides under the lock and frees
outside it, hence `freer`: who is about to free.  Python keeps the frames of an
exception, and so the tensors that they hold, until the exception is dropped
(`"trace"`, `DropTrace`).  The options `inflight` (readiness) and `borrowed` are
arbitrary and fixed.  The copier is abstract: reads that land tensor by tensor
in any order and may fail, a submission that undoes itself when it raises (as
`NogdsReader` models it), a `finish_io` that waits.

**CopierContract, Copiers.**  The abstract copier has four variables: the pieces
of the file that may still be written, those that have landed, the tensors the
user may look at and what is held.  `Start` must not touch what was given, `Give`
needs all of a tensor's pieces, `Release` needs no write under way
(`CopierInterface`: "drain all inflight writes before buffer or file descriptor
release").  `CopierBase` has the state of one concrete copier and the factory
that drives it: with readiness the tensors exist at once, the user asks for
them in any order (`Ask`) and closes at any time (`Close`); without it `wait_io`
calls `finish_io` and then makes them.

- `GdsReader`: the queue of requests, taken block by block by a pool of workers
  (`GdsTake`, `GdsRead`), the prefix of a request, one condition variable for
  both kinds of wait, registered regions, the realignment after the reads.  A
  handle that cannot be made ends in `"delegated"`: the nogds copier takes over.
- `FgdsReader`: one thread for each request in slot `id % max_threads`; a
  submission joins the thread it finds there, `wait_read` joins whatever thread
  is in its slot, which may be that of a later request, and takes its result.
- `UnifiedReader`: the threads of `dma_load_runs` over the concatenated runs,
  `dma_completion` with its blocks, the Python thread behind them (readiness),
  and the fallback to mapped and pinned pages when the blocking read fails.

Calls that fail are actions of their own and lead into the undo of the code
(`"undo"`, `"free"`).  Restrictions, each at a place where the code leaves what
the model can say: a mapping that raises leaks the buffer (`"leaked"`,
unified.py:325), which `ReturnsEverything` leaves out; `memcpy_h2d_async` fails
for the first run only, since for a later one the buffer is freed with copies in
flight (unified.py:335); the thread of an fgds request cannot fail to start in a
slot that was just joined, which would leave a dangling pointer (ext.cpp:1454);
the buffer for the realignment of gds is not counted (gds.py leaks it when a
memmove raises); the gate of the DMA and the pool of bounce buffers are left out.

**RankBuffers.**  Ranks run the same program of calls, each at its own pace.  A
call turns into collectives (`Items`) that follow from the headers alone; to
issue one, the owner first waits for the bytes (`Awaited`).  The device work is
a stream per rank: the copy out of the owner's buffer, then the collective,
which runs when all of its members have come to it (`Join`).  The host waits for
the stream after most calls, at the end of an iteration over runs, and not
between its runs unless `drain_runs`.  `taken` is `instantiated`, counted by each
rank for itself (`Counts` says which names a call counts where); `Free` is
`free_dev_ptrs` at the owner.  A tensor may be asked for again after its file was
freed.  Then every call but `get_tensor` raises on the owner (`Gone`, `Raise`;
tensor_factory.py 208-211), whose program ends there, while `get_tensor` allocates
an empty tensor and broadcasts it (174-179), so that every rank gets memory that
nobody filled.  `CorrectTensors` excepts that tensor, from that call of its owner
on (`AskedLate`), and nothing else.  `UseAssumption` leaves out one use: a push from a rank
to itself only clones, and the model wants a call in which that rank waits before
it frees a file or closes (tensor_factory.py:130).  The programs of the runs ask
for a cached tensor in one way only (the cache is by name), and reads do not fail
(one rank would raise, the others wait for the process group's timeout).

**ChunkPlan, BudgetedLoad.**  `ChunkPlan` has `plan_chunks`, `plan_file_budgets`,
`fit_queue_size` and the expert filter as operators; a tensor is its offsets, its
expert and whether it stays.  `BudgetedLoad` plans a load as `_create_batches`
does and carries the plan out one tensor at a time: `resident` bytes, the tensor
the consumer's loop still holds (`held`), the one being received or cloned
(`fresh`), and the chunk buffers between `gone` and `made`.  The promise that
the planner makes in words, that the budget holds at every moment, is
`WithinBudget`.

**ShardPlan, Saver.**  Each save fills its own temporary files through maps and
renames them one by one.  `final` is what each name shows now, `past` what a loss
of power could leave under it, `durable` the files that were fsynced; a reader
opens files by name at any moment and asks `validate_shard_set`.  Processes die
anywhere (a sparse map on a full disk kills), and power is lost once.  An
`unlink` that fails for another reason than a missing file raises out of the
cleanup, which catches only `FileNotFoundError` (saver.py 297-301) and stays where
it was (`"cutShort"`): the files before it are gone, that one and those after it
are not, although the docstring says "A failed fill removes temporary files."
(230) and the later ones could have been removed.  `NoLitter` asks in that state
for the files before it.  The directory fsync is the POSIX one, and a custom
`fill` is taken not to keep its views, as `ParallelSaver` asks of it.

## 4. Runs

| Run | Instance | Shows |
|---|---|---|
| `pipeline` | 5 batches; `queue_size` in -1..2 and any clamp of it; every call may raise, the caller may stop anywhere | `TypeOK`; `DepthBound` (never more live buffers than the planner charged); `SingleOwner`; `NothingLeftBehind`; `NoSilentLoss`; `CopyIsolation` (no file of a failed batch in a later copy); `InOrder`; `NoWorkAfterStop`; `ConsumerServed`; `CleanupEnds`; `KeepsPromise` (refinement). Deadlock is checked: only `close` remains possible in the end |
| `nogds` | 2 workers, files of 2 and 1 blocks sharing the reader | `TypeOK`; `BytesReady`; `BounceIntact`; `NoLateUse` |
| `nogds_live` | 2 workers, one file in reads of 2 blocks and 1 | `BytesReady`, `NoLateUse` when `finish_io` drains several requests; `AskAnswered`, `FinishEnds`, `DestroyEnds` |
| `load_batch` | 2 files of 3 tensors in 2 storages; any options; any call may raise; names in common or not | `TypeOK` (memory is freed once); `TensorsStayValid`; `NoWriteAfterFree`; `ReadyWhenGiven`; `UndoneOtherwise`: with no name in common, a load that raised and a closed buffer leave no open file and no unowned memory |
| `load_batch_shared` | the same | violates `NothingKept`, which is the same with names in common: finding 1 |
| `saver` | 2 processes, 2 shards in 2 directories, 2 entries | `TypeOK`; `AcceptedIsWhole` (what is accepted is one save, whole); `NoLitter` (no temporary file after a return or a raise; after an `unlink` that failed, none of the shards before it); `SavedIsDurable` |
| `ranks` | 3 ranks, 2 files, 9 programs (one of which asks again for tensors of a freed file, with `get_tensor` and with a call that raises), cache and drains on and off | `CorrectTensors` (no copy read a buffer too early or too late, a late `get_tensor` excepted); `FreedWhenTaken` and `KeptUntilTaken` (`auto_mem_delete` frees a file when its owner was given all of it, and not before); `RanksEnd` |
| `ranks_multi` | a file taken by one `get_multi_cols` | violates `FreedWhenTaken`: finding 4 |
| `budget` | 3306 loads of 2 or 3 files, local, filtered and in a group of 2 | `WithinBudget`; `FitIsExact`; `ReadsItsShare` (each rank's bytes once, in order, within the budget of the chunk) |
| `budget_receives` | groups that move each tensor away and receive them one by one | violates `WithinBudget`: finding 2 |
| `copiers` | gds, fgds, unified; 5 pieces, 3 requests on 2 slots or workers, 3 runs in 2 threads, 3 blocks, 2 tensors | `KeepsContract` (refinement of `CopierContract`); `ReturnsEverything`; `WaitsEnd` |
| `copiers_short` | unified, and short reads in the blocking call | violates `GivenHaveBytes`: finding 3 |

Findings.

1. `copy_files_to_device` frees what it did when a call raises, except the last
call: the constructor of `FilesBufferOnDevice` raises when two files have a
tensor of the same name (file_buffer.py 68-71), after the block with the handler
(loader.py 309).  No `free_dev_ptrs` follows, so each allocation keeps its
factory's reference when factory and tensors are gone, and its memory is never
freed (with readiness, the descriptors stay open too).  docs/overview.md 65 says
that "the allocation is released when its last owner disappears", and
`iterate_weights` that the buffers are freed when the iterator is exhausted or
closed (parallel_loader.py 739-740).  `UndoneOtherwise` shows that it is the only
such case of the model.

2. In a group of ranks whose tensors are received one by one and do not
accumulate, the consumer's loop variable holds the tensor it received before
while the next one is received (parallel_loader.py 672-677): two of them are
alive.  `load_depth` charges one ("plus, under broadcast, one in-flight receive
tensor", _planner.py 171-172), so a load whose plan just fits is for a moment
above the budget that _planner.py 13-15 promises "at every moment of the load".

3. When a `pread` of `dma_load_runs` comes back short before the end of the file,
the loop goes on a whole chunk further (ext.cpp 1662-1666), and the bytes in
between are never read.  With readiness `dma_completion` counts bytes and refuses
(test_tensor_readiness.py 456-457); the blocking call returns success, though
its comment promises every byte of the runs at its place (ext.cpp 1481-1483).
`copiers` is run without short reads in the blocking call, and with them in the
other.

4. `get_multi_cols` over names of one file takes a fast path that counts the first
name only (file_buffer.py 353-357); over several files it counts them all
(359-363).  A file that is taken in this way is not released before `close`,
though `auto_mem_delete` is to "automatically release device buffers when all the
tensors are shuffled" (file_buffer.py 34).  A push to another rank has the same
effect: `push_tensor` counts where it returns a tensor (323), which is not at the
rank that has the buffer.

Bounds.  Five batches exceed the deepest pipeline checked (queue of two, one
batch in the producer's hands, one in the consumer's) by one, so the queue fills,
the producer blocks, and there is a batch left to skip or drain.  Two blocks in
one request are the least that can complete out of order; two workers can each
hold one.  A worker has two buffers, so the third block that it takes is the
first that reuses one: both instances have three blocks, which makes it happen
when one worker does all the work.  Two files are the least for which one fails while the other
is read or materialised; three tensors in two storages have a storage that is
shared and one that is not.  Symmetry (of the workers, and of the two tensors
of a storage) is used in the safety runs only.
Three requests on two slots make a slot be reused; a request of two blocks can
complete out of order and one that reaches past the end of the file is padded; a
tensor that crosses requests, spans and blocks needs all three kinds of wait.
Three ranks are the least in which one is neither root nor target; the frames of
the two files give every reason for which a run is split (file, gap, size,
number, alignment, empty tensor), the programs every kind of call in an order
that frees a file in the middle.  The budgets of the loads go from one that
nothing fits to one that fits the deepest queue asked for, with steps between at
which the queue is clamped or the load refused.  Two savers over an older checkpoint are the least that mix three
saves; with two shards there is a moment between the renames, and with two
directories one between their fsyncs.  All integers are those of Python or
sizes far below 2^64: no width is modelled.
Only the pipeline run checks deadlock.  The other systems do stop: after the
destructor, when a buffer is closed and its tensors are dropped, when all ranks
have closed, when a load, a copier or a save is over; `RanksEnd` and `WaitsEnd`
say that they stop there and nowhere else (`RanksEnd` asks nothing of the other
ranks once a call raised on one: nobody tells them).

Fairness.  Both threads of the pipeline are weakly fair, and so are the workers,
the copiers' own steps and the device: the operating system schedules threads
and a started copy ends, well or not.  What the caller chooses (`Caller`,
`User`, the destructor) is not fair; the liveness properties start from a state
in which it has chosen.  Weak fairness of a whole thread suffices, as a thread
has one step to take at any point.  In `RankBuffers` and `Copiers` every step is
progress that is made once, so weak fairness of `Next` is enough: somebody who
can go on does.  There the caller is among those who go on, as its program, or
the load that asks for tensors and closes, is finite.  `Saver` and `BudgetedLoad`
state no liveness.

Mutants.  Each decision that could be got wrong is an operator (for instance
`MaxSize`), preceded by the slip that a maintainer could make in it
(`SlipMaxSize`, the queue_size before the clamp).  No action uses a slip; put in
place of its decision it makes the property of PROJECT.json fail.

## 5. What is proved

`PipelineProofs`, for any number of batches and any set of integer queue sizes:

- `TypeCorrect`: `Spec => []TypeOK`;
- `MemoryBound`: `Spec => []DepthBound`;
- `Ownership`: `Spec => []SingleOwner`;
- `CleanEnd`: `Spec => []NothingLeftBehind`;
- `Inductive`: `Spec => []IInv`, from which they follow.

None of them is inductive.  `IInv` adds to `TypeOK`:

- `LoopInv`: what the producer offers is about the batch its loop is at;
- `QueueInv`: the queue is within its size, and holds only batches while the
  producer has one on its way (an error or the end is the last thing put);
- `OrderInv`: the ids in the queue increase, the consumer's is below them and the
  producer's above, so that no two parties can own the same batch;
- `ConsumerInv`: when the consumer holds a batch, and that the second drain runs
  after the producer exited, which is why it is enough;
- `Owned`: the live buffers are exactly those somebody holds;
- `TurnInv`: with `queue_size <= 0`, an unconsumed `consumer_processed`, or a
  producer that took it, means an empty queue (and, when serial, an idle
  consumer), and so does a consumer that took a batch and has not handed the turn
  over yet.  The memory bound of the serial and unbuffered pipelines needs it;
- `FailedInv`: what the producer has reported when it stopped early, which
  `TurnInv` needs for a consumer that hands over its turn late.
  For a buffered pipeline the bound is a count: at most one batch in each
  thread's hands and at most `queue_size` in the queue.

The assumptions are those of `Pipeline`: `NumBatches` is a natural number and
`QueueSizes` are integers.  TLC checked each conjunct of `IInv` before the proof.

And, in the second half of the module:

- `NothingLost`: `Spec => []NoSilentLoss`;
- `IsolatedCopies`: `Spec => []CopyIsolation`;
- `OrderedDelivery`: `Spec => InOrder`;
- `StopHolds`: `Spec => NoWorkAfterStop`;
- `PromiseKept`: `Spec => KeepsPromise`, the refinement of `BatchDelivery`.

`IInv` orders the ids but lets a batch be missing between two of them.  `OInv`
adds that none is, while the consumer serves (`RunInv`): the queue holds the run
of batches that begins with the one wanted next, the producer is at the batch
after that run, and an error or the end in the queue is about this place.  This
is no longer so once the generator is being closed, as the drains take what
they find; hence `CountInv`, `FinishedInv` and, of `IInv`, `FailedInv`, which say what each
exit of the loop has seen.  `AcquiredInv` and `StagedInv` are about the loader:
each batch before the producer's was given a buffer unless the producer skips,
and the files staged are those of its batch.  `PromiseKept` maps each action
to one of `Acquire`, `Serve`, `Leave`, `Discard` and `End` or to a stutter.

`NogdsProofs`, for any number of workers, copiers, reads and blocks:

- `NogdsTypes`: `Spec => []TypeOK`;
- `BytesAreThere`: `Spec => []BytesReady`;
- `BouncesIntact`: `Spec => []BounceIntact`;
- `NothingLate`: `Spec => []NoLateUse`.

The reader only counts; that the counts mean something is `NInv`.  `CountInv`:
the blocks which remain of a request are those nobody took yet and those that
are out, in the hand of a worker or pending on one of its streams (`Out`), so
that `remaining = 0` says that no worker will touch the file or the buffer
again, for a failed request too.  `LandedInv`: each block that was taken is out,
is where it belongs, or its request failed.  `OneHolder`: no block is out twice,
without which `remaining` could reach 0 too early.  `DmaInv` ties a busy stream to
the block its buffer holds; a refused copy that was queued all the same is the
case that makes it more than a matter of types.  `PrefixInv` and `ReadyInv` carry
this over to the completed blocks that make the prefix and to what a copier
remembers of it.  Assumptions: every copier has reads, each of at least one
block (`submit_io` issues no empty read), and the mark of an empty place is no
block.

`LoadBatchProofs`, for any number of files and any storages and tensors:

- `LoadBatchTypes`: `Spec => []TypeOK`, with it that nothing is freed twice;
- `TensorsStay`: `Spec => []TensorsStayValid`;
- `ReadsWriteLiveMemory`: `Spec => []NoWriteAfterFree`;
- `GivenIsReady`: `Spec => []ReadyWhenGiven`;
- `ErrorsUndone`: `Spec => []UndoneOtherwise`.

`LInv` rests on two parts.  `RefsInv`: the references of an allocation are
exactly one of its factory, while that has it, and one for each storage that
somebody keeps alive and that owns its memory.  `MemInv`: memory is valid while
the factory has the buffer or a reference is left, and who is about to free it
outside the lock is the only one to do so.  The others (`SubmitInv`, `MakeInv`,
`FreeInv`) say, for each loop of the caller, what the files before and after the
one it is at have: an undo that frees the wrong ones is caught there.

`CopierProofs`, for any division of a file into requests, runs, spans and
blocks:

- `ContractKept`: `~ShortReads => (Spec => KeepsContract)`, the refinement of
  `CopierContract` by the three copiers;
- `AllReturned`: `Spec => []ReturnsEverything`;
- `BytesThere`: a tensor handed out has its bytes, for every copier but the
  unified one that waits in `submit_io` while reads may be short.

The hypothesis on `ShortReads` is finding 3, and `BytesThere` says that it
concerns no other copier and no other mode.  `CInv` has what the factory and
every copier share (`HeldInv`, what is held at each point; `QuietInv`, where no
read may be under way; `LandedInv`) and one part for each copier.  `GdsInv`: a block
that was missed is that of a failed request, and a request that was waited for
is over and its failure remembered.  `FgdsInv`: a thread that runs is the one
in its slot, which is why joining the slot of a later request is enough to know
that the earlier one stopped.  `UnifiedInv`: the blocking read is good only if all
of it landed, and otherwise the runs before the one that is mapped have.  The
assumptions say that each of these lists cuts the file into disjoint parts, in
order, and that padding lies behind the data.

`SaverProofs`, for any number of savers, shards, directories and tensors:

- `PlanIsAPartition`: `plan_shards` puts each tensor into one shard, no two of a
  shard share a byte, and each ends within the data of its shard;
- `SaverTypes`: `Spec => []TypeOK`;
- `NothingLeftBehind`: `Spec => []NoLitter`, for a cleanup that was cut short too;
- `AcceptedSetsAreWhole`: `Spec => []AcceptedIsWhole`;
- `ReturnedIsDurable`: `Spec => []SavedIsDurable`.

`PlanShards` is a recursive function over the tensors.  That it has a value and
keeps its promise at each step is an induction, made by the least counterexample
(`<` on the naturals is well-founded), since a theorem that takes a predicate
cannot be instantiated with these provers.  `SInv` says which temporary names a
call still has (`TempsInv`), what it has written and synced (`WrittenInv`), and
that a save which published one shard had written and synced all
(`PublishedInv`).  `DirsInv` is what durability hangs on: once a call has
synced a directory, what a loss of power may bring back under a name in it is
one of the saves, and only this one while it is the one that the name shows.  `ReaderInv`: what the reader
has opened was under a final name then.

`RankProofs`, for any group of ranks, any files and tensors and any programs:

- `GoodCopies`: `Spec => []CorrectTensors`, for any program;
- `FreedInTime`: `Spec => [](CountsAll(program) => FreedWhenTaken)`;
- `NotFreedTooSoon`: `Spec => []KeptUntilTaken`, for any program.

A program may ask for a tensor of a file that its owner has freed: a `get_tensor`
makes a copy that `CorrectTensors` excepts, any other call raises.  `CountsAll`
leaves out the programs of finding 4: no `get_multi_cols` of several tensors of
one file, no push to another rank.  `KeptUntilTaken` needs neither, since a rank
counts only names of calls that it returned from.

`RInv` connects three things that the code keeps apart: what a rank has counted,
what its stream still has to do, and when a buffer goes.  `TakenInv` and
`FreedInv`: each rank has counted what its calls so far say, and a buffer is freed
exactly when its owner has counted all of it or has closed.  `StreamInv`: a
clone that is queued has its bytes in a buffer that is still live, and a
collective at the rank with the data comes right after its clone, or the clone
has run and was good, or is of a tensor that was asked for late (`GoodInv`,
`Excused`).  That no free may come in between is `QuietInv`: outside a
call, only a push of a rank to itself leaves work in a stream, since any other
call waits for what it issued (a call of runs at its end).  `ItemsInv` says what
a collective may be about.  Assumptions: every file has a tensor and each tensor
is in one file, calls have names and all but two kinds have one, and
`UseAssumption` of section 3; TLC evaluates them for the programs of the run.
`Among` and `Runs` are recursive functions; that they only select and split what
they are given (`AmongFacts`, `RunsFacts`) is shown by induction from the least
number (`Induction`).  Nothing in these proofs needs the ranks to agree, which is
what `RanksEnd` is about.

`ChunkPlanProofs` and `BudgetProofs`, for any set of loads (checkpoints of any
files and tensors, any filter, budget, group, copier cost, cap and queue size):

- `FitExact`: `Spec => []FitIsExact`, that `fit_queue_size` is the exact inverse
  of `plan_file_budgets`: what it returns can be planned, the next deeper queue
  cannot, and None means that not even a serial load can;
- `ReadsItsShareHolds`: `Spec => []ReadsItsShare`, that the batches of a load
  hold each kept tensor of each file once and in its order, in chunks within the
  budget of the file whose ranges hold the tensors;
- `WithinBudgetHolds`: `Spec => [](SinglyHeld => WithinBudget)`, that the memory
  of a load is within its budget at every step.

`SinglyHeld` is the case without finding 2: a load of one rank, or a group in
which every tensor with bytes stays on the device.  Every load of `budget` is of
this kind, every load of `budget_receives` is not, and there `WithinBudget`
fails.

The only assumption is `LoadsAssumption`, what callers may pass and what a header
that was accepted looks like (its tensors follow one another,
common.py:336-345).  TLC evaluates it on every load of the runs.

*Recursion.*  What the planner computes it computes in loops, which the model
writes as recursive functions: sums (`SumTo`), selection (`Among`),
concatenation (`Joined`) and cutting (`Bounds`).  `ChunkPlanProofs`
first shows that such a function has a value (`Recursion`) and that a set of
numbers with 0 and each successor is all of them (`Induction`), both from the
least number of a set, since the library's theorems that take a predicate cannot
be used.  On these stand
the facts that a reader expects of loops: a part of a sum is no more than the
sum, the sum over a concatenation is the sum of the sums, the pieces of a
sequence joined again are the sequence, each byte range of a chunk holds the
tensors pushed to it.

*`FitExact`.*  For one file the chunk budget at depth d covers its largest tensor
exactly if d is at most its `DepthLimit`, by the inverse of division
(`FloorDivision`, `Inversion`, `FileFits`); a file without bytes fits whenever
its charge is covered (`EmptyFits`); so a plan is feasible exactly up to the
least of the limits (`FeasibleUpto`, `LeastLimit`), which is what
`fit_queue_size` turns into a queue size, minus the receive buffer and with the
serial pipeline as a case of its own (`FitQueueSizeInverts`, `ClampInverts`).

*`ReadsItsShareHolds`.*  The inductive invariant `PlanInv` only says that the
state holds what the plan of its load says; the work is in `Batches`.  A file is
in one group, at one rank, and its chunks are those of this rank's column of the
group's batches, in order and with nothing else between them, so the batches of
all groups one after the other deliver the file's chunks, and these joined are
the kept tensors.

*`WithinBudgetHolds`.*  `WithinBudget` says nothing of how many batches are behind,
so it is not inductive.  `MemoryInv` adds to `PlanInv`:

- `CountsInv`: at most `PipelineDepth(size)` batches are alive (what `MemoryBound`
  shows of `Pipeline`), and the loop is within the tensors of the oldest;
- `ResidentInv`: the bytes that stayed, with the tensor in hand if it will stay,
  are no more than what stays of the batches behind and of the open one so far;
- `ClonesInv`: with a clone, `held` and `fresh` are one copy of one tensor;
- `ReceivesInv`: in a `SinglyHeld` load without one, nothing that must go is held.

Then the parts of the memory are compared with what the plan set aside.  What
stays of the batches up to any that is alive is no more than what
`_group_resident` charges to each file of that batch (`DoneCharged`).  So the
budget of each buffer alive, and of the tensor that is cloned, is at most
`Spare`: the device budget less the bytes that stayed and the copier's padding,
divided by the effective depth (`SpareFacts`).  There are at most
`pipeline_depth` buffers and one clone, and as many times `Spare`, with
multiplier and overhead, is no more than what it was taken from (`SpareHolds`).
In a group each rank has at most one file of a batch, and in a `SinglyHeld` load
without a clone the tensor being received already counts among the bytes that
will stay.

Model-checked only: the liveness properties (`ConsumerServed`, `CleanupEnds`,
`AskAnswered`, `FinishEnds`, `DestroyEnds`, `RanksEnd`, `WaitsEnd`), as liveness
under fairness is outside the prover's reach.

## 6. What is not modelled

The components of PROJECT.json marked `not_modelled`, with their reasons:
DirectStorage (Windows only; one thread drives a queue synchronously, and its one
hazard, a device-to-device `cudaMemcpy` that may return before the copy is done,
is a matter of the CUDA runtime), 3FS (a synchronous call of an external reader,
which leaks its buffer when the read is short), configuration, library loading
and the benchmark tool.

In the pipeline: a second `iterate_weights` on the same object, the contents of
tensors, and a batch in which two files have a tensor of the same name
(`LoadBatch` has it; for `Pipeline`, a copy that raises freed what it allocated).
In `LoadBatch`: conversion of the type while loading, and tensors of size zero,
which own no device memory of the buffer.  In the nogds reader: a constructor
that throws, the overflow of the id counter, and NUMA placement.  In
`RankBuffers`: `as_dict`, reads that fail, what a rank whose call raised does
next (its `close` included), ranks with different limits on runs.  In
`BudgetedLoad`: interleavings of the producer with the consumer other than those
`Pipeline` allows, the allocator's own rounding, and one path listed twice in a
load (`per_file_budget` is a dict by path, so the second budget would stand for
both).  In `Saver`: `ParallelSaver`, which holds settings and calls
`write_shards`, and the bytes of a header.  The restrictions that section 3 names
at each module.
