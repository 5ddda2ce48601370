---------------------------- MODULE BudgetedLoad ----------------------------
(***************************************************************************)
(* A load within a device memory budget: PipelineParallel._create_batches  *)
(* (src/fastsafetensors/parallel_loader.py) plans it with ChunkPlan, then  *)
(* the pipeline carries it out.  The producer copies chunk-batches, the    *)
(* consumer gets their tensors one by one, as copies of its own, and closes*)
(* each batch after its last tensor; Pipeline shows that at most           *)
(* pipeline_depth buffers of a rank are alive, which is all that is left   *)
(* of the two threads here.  Memory is counted on every rank.              *)
(***************************************************************************)
EXTENDS ChunkPlan, FiniteSets

CONSTANTS
    Loads       \* what callers may ask for: a set of records
                \*   files       the checkpoint, one file after the other
                \*   ep          [experts, size, rank] of the tensor filter
                \*   group       pg.size()
                \*   limited     device_memory_budget is given, and is
                \*   memory      this many bytes
                \*   fixed, multiplier, overhead   the copier's costs
                \*   cap         max_batch_bytes, or more than any file has
                \*   asBudget    use_chunk_budget_as_allocation_size
                \*   accumulate  accumulate_resident
                \*   borrowed    borrowed_tensors
                \*   queue       queue_size
                \*   mergeGap, runTensors   read and broadcast coalescing

VARIABLES
    load,        \* the parameters
    phase,       \* "new", "refused" or "loading"
    size,        \* self.queue_size
    budgets,     \* the chunk budget of each file
    batches,     \* chunk-batches: one chunk per rank, or one with no names
    made, gone,  \* batches copied so far, and closed so far
    pos,         \* tensors of the open batch the consumer has got
    resident,    \* bytes of tensors that stay on the device
    held,        \* bytes of the last tensor got, which the loop still holds
    fresh        \* bytes of the tensor being got

plan == <<load, size, budgets, batches>>
vars == <<plan, phase, made, gone, pos, resident, held, fresh>>

-----------------------------------------------------------------------------
(* Planning.                                                               *)

KeepTensor(l, t) == Keep(t, l.ep.experts, l.ep.size, l.ep.rank)
Kept(l, file) == Among(file, {file[k] : k \in {k \in DOMAIN file : KeepTensor(l, file[k])}})
Stats(l) == [i \in DOMAIN l.files |-> FileStats(Kept(l, l.files[i]))]

\* _consume_single_batch clones what it yields unless tensors are borrowed or
\* broadcast made a copy anyway
NeedsClone(l) == l.group = 1 /\ ~l.borrowed
Params(l) ==
    [budget |-> l.memory - l.fixed, cap |-> l.cap, accumulate |-> l.accumulate,
     multiplier |-> l.multiplier, overhead |-> l.overhead, group |-> l.group,
     clone |-> NeedsClone(l) /\ (~l.accumulate \/ HasNonResident(Stats(l)))]

\* What callers pass, less what __init__ refuses: a filter or borrowed tensors
\* in a group, borrowed tensors that accumulate.  A header is refused unless its
\* tensors follow one another (common.py:336-345).
ASSUME LoadsAssumption ==
    \A l \in Loads :
        /\ l.limited \in BOOLEAN /\ l.accumulate \in BOOLEAN /\ l.borrowed \in BOOLEAN
        /\ l.memory \in Int /\ l.queue \in Int /\ l.cap \in Nat
        /\ l.fixed \in Nat /\ l.overhead \in Nat /\ l.mergeGap \in Nat
        /\ l.multiplier \in Nat \ {0} /\ l.group \in Nat \ {0}
        /\ l.ep.experts \in Nat /\ l.ep.size \in Nat \ {0} /\ l.ep.rank \in 0 .. l.ep.size - 1
        /\ l.group > 1 => l.ep.size = 1 /\ ~l.borrowed
        /\ l.borrowed => ~l.accumulate
        /\ l.files \in Seq(Seq(TensorFrames))
        /\ \A i \in DOMAIN l.files : \A k \in DOMAIN l.files[i] :
             LET t == l.files[i][k] IN
             /\ t.start <= t.stop /\ t.expert \in -1 .. l.ep.experts - 1
             /\ t.start = IF k = 1 THEN 0 ELSE l.files[i][k - 1].stop

\* The clamp: None means that a serial load is tried, to report its shortfall
Clamped(l) ==
    LET fitted == FitQueueSize(l.queue, Stats(l), Params(l))
    IN  IF fitted = {} THEN -1 ELSE CHOOSE q \in fitted : TRUE

\* ... and self.queue_size, which the threads follow, is clamped with the plan
QueueSize(l) == IF l.limited THEN Clamped(l) ELSE l.queue

Depth(l) == LoadDepth(Clamped(l), l.group)

\* _create_batches goes through
Plannable(l) ==
    IF l.limited THEN Feasible(Stats(l), Depth(l), Params(l))
    ELSE \A i \in DOMAIN l.files : Divides(Kept(l, l.files[i]), l.cap)

\* per_file_budget, which is by path: no path is listed twice
Budgets(l) ==
    IF l.limited THEN PlanFileBudgets(Stats(l), Depth(l), Params(l))
    ELSE [i \in DOMAIN l.files |-> l.cap]

\* Batch j of a group holds the j-th chunk of each of its files
Tagged(i, names) == [k \in DOMAIN names |-> <<i, names[k]>>]
NoChunk == [names |-> <<>>, ranges |-> <<>>]
GroupBatches(l, bs, g) ==
    LET file(r) == (g - 1) * l.group + r
        chunks == [r \in 1 .. l.group |->
                     IF file(r) \in DOMAIN l.files
                     THEN PlanChunks(Kept(l, l.files[file(r)]), bs[file(r)], l.mergeGap)
                     ELSE <<>>]
        most == CHOOSE n \in {Len(chunks[r]) : r \in 1 .. l.group} :
                    \A r \in 1 .. l.group : Len(chunks[r]) <= n
    IN  [j \in 1 .. most |->
           [r \in 1 .. l.group |->
              IF j <= Len(chunks[r])
              THEN [names |-> Tagged(file(r), chunks[r][j].names),
                    ranges |-> chunks[r][j].ranges]
              ELSE NoChunk]]
Groups(l) == (Len(l.files) + l.group - 1) \div l.group
Batches(l, bs) == Joined([g \in 1 .. Groups(l) |-> GroupBatches(l, bs, g)])

Init ==
    /\ load \in Loads
    /\ phase = "new" /\ size = load.queue
    /\ budgets = <<>> /\ batches = <<>>
    /\ made = 0 /\ gone = 0 /\ pos = 0
    /\ resident = 0 /\ held = 0 /\ fresh = 0

CreateBatches ==
    /\ phase = "new"
    /\ size' = QueueSize(load)
    /\ IF Plannable(load)
       THEN LET bs == Budgets(load) IN
            /\ phase' = "loading" /\ budgets' = bs /\ batches' = Batches(load, bs)
       ELSE phase' = "refused" /\ UNCHANGED <<budgets, batches>>
    /\ UNCHANGED <<load, made, gone, pos, resident, held, fresh>>

-----------------------------------------------------------------------------
(* Loading.                                                                *)

\* _load_single_batch, when the pipeline lets the producer copy
CopyBatch ==
    /\ phase = "loading" /\ made < Len(batches)
    /\ made - gone < PipelineDepth(size)
    /\ made' = made + 1
    /\ UNCHANGED <<plan, phase, gone, pos, resident, held, fresh>>

\* batch.keys: the tensors of rank 0, then those of rank 1, ...
Keys(b) == Joined([r \in 1 .. load.group |-> batches[b][r].names])

Staying(key) == load.accumulate /\ key[2].stays

\* Broadcast runs join tensors of one file, but none without bytes;
\* resident_tensor turns them off
Coalesces == load.group > 1 /\ (load.accumulate => ~HasNonResident(Stats(load)))
IsRun(keys) ==
    Len(keys) > 1 =>
        /\ Coalesces /\ Len(keys) <= load.runTensors
        /\ \A k \in DOMAIN keys : keys[k][1] = keys[1][1] /\ Bytes(keys[k][2]) > 0

\* The consumer's loop asks for a tensor, or a run.  A local one is a view
\* that replaces the last clone and is then cloned; a broadcast one is
\* received while the loop still holds the one before.
GetTensor(n) ==
    LET keys == SubSeq(Keys(gone + 1), pos + 1, pos + n)
        got == Total([k \in DOMAIN keys |-> Bytes(keys[k][2])])
    IN  /\ phase = "loading" /\ gone < made /\ fresh = 0
        /\ pos + n <= Len(Keys(gone + 1)) /\ IsRun(keys)
        /\ pos' = pos + n
        /\ fresh' = IF load.borrowed THEN 0 ELSE got
        /\ held' = IF load.group > 1 /\ got > 0 THEN held ELSE 0
        /\ UNCHANGED <<plan, phase, made, gone, resident>>

\* yield: the caller keeps the tensor, or moves it away before it asks for
\* the next; the loop holds it until then.
Yield ==
    /\ phase = "loading" /\ fresh > 0
    /\ IF Staying(Keys(gone + 1)[pos])
       THEN resident' = resident + fresh /\ held' = 0
       ELSE held' = fresh /\ UNCHANGED resident
    /\ fresh' = 0
    /\ UNCHANGED <<plan, phase, made, gone, pos>>

\* batch.fb.close(), and the generator of the batch ends
CloseBatch ==
    /\ phase = "loading" /\ gone < made /\ fresh = 0
    /\ pos = Len(Keys(gone + 1))
    /\ gone' = gone + 1 /\ pos' = 0 /\ held' = 0
    /\ UNCHANGED <<plan, phase, made, resident, fresh>>

Next ==
    \/ CreateBatches
    \/ CopyBatch
    \/ \E n \in 1 .. load.runTensors : GetTensor(n)
    \/ Yield
    \/ CloseBatch

Spec == Init /\ [][Next]_vars

-----------------------------------------------------------------------------
(* Properties.                                                             *)

\* The device buffer of a chunk with all its copier holds for it
Cost(chunk) ==
    IF chunk.ranges = <<>> THEN 0
    ELSE load.multiplier *
             (IF load.asBudget THEN budgets[chunk.names[1][1]] ELSE Span(chunk))
         + load.overhead
LiveBuffers(r) == Total([k \in 1 .. made - gone |-> Cost(batches[gone + k][r])])

\* At every moment of a load, and on every rank, the resident tensors, the
\* live chunk buffers with what the copier adds, and the copies of yielded
\* tensors stay within the budget (the promise of _planner.py:11-15).
WithinBudget ==
    phase = "loading" /\ load.limited =>
        \A r \in 1 .. load.group :
            load.fixed + resident + held + fresh + LiveBuffers(r) <= load.memory

\* fit_queue_size inverts plan_file_budgets (its docstring): the queue size it
\* returns can be planned and the next deeper one cannot; if it returns None
\* not even a serial load can.
FitIsExact ==
    phase # "new" /\ load.limited =>
        LET plans(q) == Feasible(Stats(load), LoadDepth(q, load.group), Params(load))
        IN  /\ phase = "refused" => ~plans(-1)
            /\ phase = "loading" => plans(size)
            /\ phase = "loading" /\ size < load.queue => ~plans(size + 1)

\* The chunk-batches deliver every tensor of this rank's share once, in file
\* order; each lies within one range that is read, ranges do not touch, and a
\* chunk spans no more than its budget.  Every tensor is in some rank's share,
\* an expert in one only.
RankOf(i) == ((i - 1) % load.group) + 1
Share(i) ==
    Joined([b \in DOMAIN batches |->
        LET names == batches[b][RankOf(i)].names
        IN  IF names # <<>> /\ names[1][1] = i THEN names ELSE <<>>])
ReadsItsShare ==
    phase = "loading" =>
        /\ \A i \in DOMAIN load.files :
             LET share == Share(i)
             IN  [k \in DOMAIN share |-> share[k][2]] = Kept(load, load.files[i])
        /\ \A b \in DOMAIN batches : \A r \in 1 .. load.group :
             LET chunk == batches[b][r] IN
             /\ \A k \in DOMAIN chunk.names :
                  Bytes(chunk.names[k][2]) > 0 =>
                    \E n \in DOMAIN chunk.ranges :
                        InRange(chunk.names[k][2], chunk.ranges[n])
             /\ \A n \in DOMAIN chunk.ranges : n > 1 =>
                  chunk.ranges[n - 1][2] + load.mergeGap < chunk.ranges[n][1]
             /\ chunk.names # <<>> => Span(chunk) <= budgets[chunk.names[1][1]]
        /\ \A i \in DOMAIN load.files : \A k \in DOMAIN load.files[i] :
             LET t == load.files[i][k]
                 keepers == {r \in 0 .. load.ep.size - 1 :
                               Keep(t, load.ep.experts, load.ep.size, r)}
             IN  IF t.expert = -1 THEN keepers = 0 .. load.ep.size - 1
                 ELSE Cardinality(keepers) = 1

=============================================================================
