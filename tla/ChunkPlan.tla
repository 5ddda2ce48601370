------------------------------ MODULE ChunkPlan ------------------------------
(***************************************************************************)
(* The planners of a load with bounded memory                              *)
(* (src/fastsafetensors/_planner.py) and the expert filter                 *)
(* (src/fastsafetensors/ep_slice.py), as functions of a checkpoint.  A     *)
(* tensor is [start, stop, expert, stays]: its data_offsets, the index of  *)
(* the expert it belongs to (-1 for none) and whether resident_tensor      *)
(* leaves it on the device.  A file is the sequence of its tensors in the  *)
(* order of their offsets; the header, which is not loaded, has no length. *)
(***************************************************************************)
EXTENDS Integers, Sequences

TensorFrames == [start : Nat, stop : Nat, expert : Int, stays : BOOLEAN]
Bytes(t) == t.stop - t.start
Lesser(a, b) == IF a < b THEN a ELSE b

\* The sum of the first n of a sequence of numbers
SumTo(s, n) ==
    LET Sum[k \in 0 .. Len(s)] == IF k = 0 THEN 0 ELSE Sum[k - 1] + s[k]
    IN  Sum[n]
Total(s) == SumTo(s, Len(s))

\* The elements of s that are in S, in their order
Among(s, S) ==
    LET Upto[k \in 0 .. Len(s)] ==
            IF k = 0 THEN <<>>
            ELSE IF s[k] \in S THEN Append(Upto[k - 1], s[k]) ELSE Upto[k - 1]
    IN  Upto[Len(s)]

\* The sequences in ss, one after the other
Joined(ss) ==
    LET Upto[k \in 0 .. Len(ss)] == IF k = 0 THEN <<>> ELSE Upto[k - 1] \o ss[k]
    IN  Upto[Len(ss)]

\* The bytes of the largest tensor of s
LargestOf(s) ==
    IF s = <<>> THEN 0
    ELSE LET k == CHOOSE k \in DOMAIN s :
                      \A j \in DOMAIN s : Bytes(s[j]) <= Bytes(s[k])
         IN  Bytes(s[k])

-----------------------------------------------------------------------------
(* ep_slice.                                                               *)

\* owned_expert_range: the first experts % size ranks own one more.
Remainder(experts, size, rank) == Lesser(rank, experts % size)
OwnedExperts(experts, size, rank) ==
    LET base == experts \div size
        local == base + (IF rank < experts % size THEN 1 ELSE 0)
        start == rank * base + Remainder(experts, size, rank)
    IN  start .. start + local - 1

\* expert_parallel_filter
Keep(t, experts, size, rank) ==
    t.expert = -1 \/ t.expert \in OwnedExperts(experts, size, rank)

-----------------------------------------------------------------------------
(* plan_chunks.                                                            *)

\* 1 .. n in pieces <<first, last>>: <<i, k>> \in cuts says that k does not join
\* the piece that began at i.
Bounds(n, cuts) ==
    LET Extend(bounds, k) ==
            IF bounds = <<>> \/ <<bounds[Len(bounds)][1], k>> \in cuts
            THEN Append(bounds, <<k, k>>)
            ELSE [bounds EXCEPT ![Len(bounds)] = <<@[1], k>>]
        Upto[k \in 0 .. n] == IF k = 0 THEN <<>> ELSE Extend(Upto[k - 1], k)
    IN  Upto[n]
Pieces(s, cuts) ==
    LET bounds == Bounds(Len(s), cuts)
    IN  [n \in DOMAIN bounds |-> SubSeq(s, bounds[n][1], bounds[n][2])]

\* _push: neighbours at most mergeGap apart are read together; a tensor
\* without bytes needs no read.
SlipApart(s, k, mergeGap) == s[k].start - s[k - 1].start > mergeGap
Apart(s, k, mergeGap) == s[k].start - s[k - 1].stop > mergeGap
ByteRanges(names, mergeGap) ==
    LET full == Among(names, {names[k] : k \in {k \in DOMAIN names : Bytes(names[k]) > 0}})
        cuts == {c \in (DOMAIN full) \X (DOMAIN full) :
                    c[1] < c[2] /\ Apart(full, c[2], mergeGap)}
        runs == Pieces(full, cuts)
    IN  [n \in DOMAIN runs |-> <<runs[n][1].start, runs[n][Len(runs[n])].stop>>]

\* The kept tensors in pieces that span at most maxBytes, with what to read
TooFar(s, i, k, maxBytes) == s[k].stop - s[i].start > maxBytes
PlanChunks(kept, maxBytes, mergeGap) ==
    LET cuts == {c \in (DOMAIN kept) \X (DOMAIN kept) : TooFar(kept, c[1], c[2], maxBytes)}
        pieces == Pieces(kept, cuts)
    IN  [n \in DOMAIN pieces |->
           [names |-> pieces[n], ranges |-> ByteRanges(pieces[n], mergeGap)]]

\* plan_chunks raises ValueError unless
Divides(kept, maxBytes) == LargestOf(kept) <= maxBytes

\* The bytes between the ends of what a chunk reads: its device buffer
Span(chunk) ==
    IF chunk.ranges = <<>> THEN 0
    ELSE chunk.ranges[Len(chunk.ranges)][2] - chunk.ranges[1][1]

InRange(t, range) == range[1] <= t.start /\ t.stop <= range[2]

-----------------------------------------------------------------------------
(* The fit plan.  stats is a sequence of FileWeightStats, one per file; p  *)
(* holds what plan_file_budgets and fit_queue_size are given alike.        *)

\* collect_file_stats
Sizes(s) == [k \in DOMAIN s |-> Bytes(s[k])]
StayingSizes(s) == [k \in DOMAIN s |-> IF s[k].stays THEN Bytes(s[k]) ELSE 0]
FileStats(kept) ==
    [kept |-> Total(Sizes(kept)), largest |-> LargestOf(kept),
     resident |-> Total(StayingSizes(kept))]

HasNonResident(stats) == \E i \in DOMAIN stats : stats[i].resident < stats[i].kept

\* _group_resident: what is resident when the whole group of file i is loaded
SlipGroupEnd(i, group, n) == i
GroupEnd(i, group, n) == Lesser(((i - 1) \div group + 1) * group, n)
GroupResident(stats, group) ==
    [i \in DOMAIN stats |->
       SumTo([j \in DOMAIN stats |-> stats[j].resident],
             GroupEnd(i, group, Len(stats)))]

PipelineDepth(queueSize) == IF queueSize < 0 THEN 1 ELSE queueSize + 2

\* load_depth: broadcast adds the tensor being received.
Receives(group) == IF group > 1 THEN 1 ELSE 0
LoadDepth(queueSize, group) == PipelineDepth(queueSize) + Receives(group)

\* _effective_depth
Clones(p) == IF p.clone THEN 1 ELSE 0
EffectiveDepth(depth, p) == depth * p.multiplier + Clones(p)

\* What plan_file_budgets charges file i for tensors that stay
Charge(stats, p) ==
    IF p.accumulate THEN GroupResident(stats, p.group) ELSE [i \in DOMAIN stats |-> 0]

FileBudget(st, charge, depth, p) ==
    LET padding == IF st.kept > 0 THEN depth * p.overhead ELSE 0
    IN  Lesser((p.budget - charge - padding) \div EffectiveDepth(depth, p), p.cap)

PlanFileBudgets(stats, depth, p) ==
    LET charge == Charge(stats, p)
    IN  [i \in DOMAIN stats |-> FileBudget(stats[i], charge[i], depth, p)]

\* plan_file_budgets returns, instead of raising BudgetInfeasibleError
Feasible(stats, depth, p) ==
    /\ p.budget > 0
    /\ \A i \in DOMAIN stats :
         PlanFileBudgets(stats, depth, p)[i] >= stats[i].largest

\* fit_queue_size: the load depth file i can afford
DepthLimit(st, charge, p) ==
    (p.budget - charge - Clones(p) * st.largest)
        \div (p.multiplier * st.largest + p.overhead)

\* the queue size of a load depth without the receive buffer, which is >= 1
SlipQueueSizeOf(base) == base - 1
QueueSizeOf(base) == IF base = 1 THEN -1 ELSE base - 2

\* The set of the queue size that fit_queue_size returns, empty for None
FitQueueSize(requested, stats, p) ==
    LET loaded == {i \in DOMAIN stats : stats[i].largest > 0}
        charge == Charge(stats, p)
        limits == {DepthLimit(stats[i], charge[i], p) : i \in loaded}
        cap == CHOOSE c \in limits : \A d \in limits : c <= d
        base == cap - Receives(p.group)
    IN  IF \/ p.budget <= 0
           \/ \E i \in loaded : p.cap < stats[i].largest
        THEN {}
        ELSE IF loaded = {} THEN {requested}
        ELSE IF base < 1 THEN {}
        ELSE {Lesser(requested, QueueSizeOf(base))}

=============================================================================
