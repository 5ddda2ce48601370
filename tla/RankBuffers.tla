----------------------------- MODULE RankBuffers -----------------------------
(***************************************************************************)
(* FilesBufferOnDevice (src/fastsafetensors/file_buffer.py) and            *)
(* LazyTensorFactory (src/fastsafetensors/tensor_factory.py) in a process  *)
(* group of several ranks.  Each file was read by one rank, its owner;     *)
(* every rank calls the same methods in the same order, at its own pace,   *)
(* and each call turns into collectives that start when every rank they    *)
(* concern has reached them.  A rank's calls are queued on the stream of   *)
(* its device: a copy out of the owner's buffer, then the collective.      *)
(* Most calls wait for the stream; the runs of _iter_tensors do not.       *)
(***************************************************************************)
EXTENDS Naturals, Sequences, FiniteSets

CONSTANTS
    Ranks,
    Files,       \* in the order of their (rank, index)
    Owner,       \* Owner[f]: the rank that read file f
    Contents,    \* Contents[f]: the tensors of f
    Frame,       \* Frame[t]: [file, start, stop, itemsize]
    Programs,    \* sequences of calls a user may make on every rank
    MaxBytes, MaxTensors

SetOf(s) == {s[k] : k \in DOMAIN s}

\* No file is empty, and each tensor is in one.
ASSUME FileAssumption ==
    /\ Files \in Seq(SetOf(Files)) /\ Owner \in [SetOf(Files) -> Ranks]
    /\ \A f \in SetOf(Files) :
          Contents[f] # {} /\ \A t \in Contents[f] : Frame[t].file = f

Tensors == UNION {Contents[f] : f \in SetOf(Files)}

\* Calls of get_tensor, get_sharded, push_tensor, get_multi_cols, _iter_tensors
Kinds == {"broadcast", "scatter", "push", "multi", "iter"}
ASSUME ProgramAssumption ==
    \A p \in Programs :
        /\ p \in Seq([kind : Kinds, names : Seq(Tensors), to : Ranks, upto : Nat])
        /\ \A k \in DOMAIN p :
              /\ p[k].names # <<>>
              /\ p[k].kind \in {"broadcast", "scatter", "push"} => Len(p[k].names) = 1

VARIABLES
    program, cached, drains,   \* the calls, not disable_cache, drain_runs
    step,        \* step[r]: the call rank r is in, or is about to make
    items,       \* items[r]: collectives that call has still to issue
    phase,       \* phase[r]: "idle" between calls, "issue" or "sync" in one,
                 \* "raised" when one failed, "closed"
    tag,         \* tag[r][f]: next_tag of r's factory for f
    shuffled,    \* shuffled[r]: tensors in the factories' caches
    taken,       \* taken[r]: self.instantiated, over all files
    stream,      \* stream[r]: device operations r queued, oldest first
    staged,      \* staged[r]: the copy that the last clone made is good
    landed,      \* tensors whose bytes are in their owner's buffer
    buffer,      \* buffer[f]: "live" or "freed", at the owner
    out          \* out[r][t]: "none", "good" or "bad" in rank r's copy of t

options == <<program, cached, drains>>
host == <<step, items, phase, tag, shuffled, taken>>
device == <<stream, staged, landed, buffer, out>>
vars == <<options, host, device>>

-----------------------------------------------------------------------------
(* Pure parts.                                                             *)

Bytes(t) == Frame[t].stop - Frame[t].start
Home(t) == Owner[Frame[t].file]

\* A run has no gaps: its size is what it spans.
Span(first, last) == Frame[last].stop - Frame[first].start

\* _broadcast_runs on rank r: t does not join the run before it.  A rank
\* decides on the headers alone, which every rank has.
SlipSplits(r, run, t) == r = Home(t) /\ Frame[run[Len(run)]].stop # Frame[t].start
Splits(r, run, t) ==
    LET last == run[Len(run)] IN
    \/ Frame[last].file # Frame[t].file
    \/ Frame[last].stop # Frame[t].start
    \/ Span(run[1], last) + Bytes(t) > MaxBytes
    \/ Len(run) >= MaxTensors
    \/ Span(run[1], last) % Frame[t].itemsize # 0
    \/ Bytes(t) = 0 \/ Bytes(last) = 0

\* The runs of a list of names, an empty tensor being a run of its own
Runs(r, names) ==
    LET Extend(runs, t) ==
            IF runs = <<>> \/ Splits(r, runs[Len(runs)], t) THEN Append(runs, <<t>>)
            ELSE [runs EXCEPT ![Len(runs)] = Append(@, t)]
        Upto[k \in 0 .. Len(names)] ==
            IF k = 0 THEN <<>> ELSE Extend(Upto[k - 1], names[k])
    IN  Upto[Len(names)]

\* The elements of s that are in S, in their order
Among(s, S) ==
    LET Upto[k \in 0 .. Len(s)] ==
            IF k = 0 THEN <<>>
            ELSE IF s[k] \in S THEN Append(Upto[k - 1], s[k]) ELSE Upto[k - 1]
    IN  Upto[Len(s)]

\* The runs of each call of _iter_tensors, as rank r forms them; the caller
\* takes call.upto of them (at most all) and then leaves the iteration.
Calls == UNION {SetOf(p) : p \in Programs}
RunsOf ==
    [r \in Ranks |-> [call \in {c \in Calls : c.kind = "iter"} |->
       LET runs == Runs(r, call.names)
       IN  SubSeq(runs, 1, IF call.upto < Len(runs) THEN call.upto ELSE Len(runs))]]

\* A collective: its kind, the rank with the data, the tensors, the ranks
\* that take part, and for a push its tag
Collective(kind, names, members, id) ==
    [kind |-> kind, root |-> Home(names[1]), names |-> names,
     members |-> members, tag |-> id]

\* What a call issues on rank r
TakesPart(r, call) == r \in {call.to, Home(call.names[1])}

\* The names a call asks the factory for one by one, which may cache them
Fetched(r, call) ==
    CASE call.kind \in {"broadcast", "scatter"} -> {call.names[1]}
      [] call.kind = "iter" ->
           {t \in SetOf(call.names) : Bytes(t) = 0 /\ <<t>> \in SetOf(RunsOf[r][call])}
      [] OTHER -> {}

FilesIn(names) == Among(Files, {f \in SetOf(Files) : SetOf(names) \cap Contents[f] # {}})
Items(r, call) ==
    CASE call.kind \in {"broadcast", "scatter"} ->
           IF call.names[1] \in shuffled[r] THEN <<>>
           ELSE <<Collective(call.kind, call.names, Ranks, 0)>>
      [] call.kind = "multi" ->
           [k \in DOMAIN FilesIn(call.names) |->
              LET f == FilesIn(call.names)[k] IN
              Collective("scatter", Among(call.names, Contents[f]), Ranks, 0)]
      [] call.kind = "push" ->
           LET t == call.names[1] IN
           IF TakesPart(r, call)
           THEN <<Collective("push", call.names, {call.to, Home(t)},
                             tag[r][Frame[t].file])>>
           ELSE <<>>
      [] call.kind = "iter" ->
           LET open == Among(RunsOf[r][call],
                             {run \in SetOf(RunsOf[r][call]) :
                                Bytes(run[1]) = 0 => run[1] \notin shuffled[r]})
           IN  [k \in DOMAIN open |->
                  Collective(IF Bytes(open[k][1]) = 0 THEN "broadcast" ELSE "run",
                             open[k], Ranks, 0)]

\* The calls that wait for the stream: all but a run that is not drained and
\* a push to the owner itself, which only clones
Local(item) == item.kind = "push" /\ Cardinality(item.members) = 1
Blocks(item) == ~Local(item) /\ (item.kind = "run" => drains)

\* The names a call adds to self.instantiated on rank r; _iter_tensors has
\* auto_mem_delete switched off, and a push counts where it returns a tensor
SlipCounts(r, call) ==
    IF call.kind = "iter" \/ (call.kind = "push" /\ r # call.to) THEN {}
    ELSE {call.names[1]}
Counts(r, call) ==
    CASE call.kind \in {"broadcast", "scatter"} -> {call.names[1]}
      [] call.kind = "multi" ->
           IF Len(FilesIn(call.names)) = 1 THEN {call.names[1]}
           ELSE SetOf(call.names)
      [] call.kind = "push" -> IF r = call.to THEN {call.names[1]} ELSE {}
      [] call.kind = "iter" -> {}

\* _iter_tensors: the current streams are drained before it ends
DrainsAtEnd(call) == call.kind = "iter"

\* the names of a run that wait_tensor is called for, on the owner
SlipAwaited(item) == {item.names[1]}
Awaited(item) == SetOf(item.names)

\* _get_tensor: every tensor of the file was taken
SlipAllTaken(f, names) == Cardinality(names \cap Contents[f]) + 1 >= Cardinality(Contents[f])
AllTaken(f, names) == Contents[f] \subseteq names

-----------------------------------------------------------------------------
(* What a program may ask for.                                             *)

\* What the first k calls count, and what they can leave in the caches
Took(r, p, k) == UNION {Counts(r, p[j]) : j \in 1 .. k}
Kept(r, p, k) == UNION {Fetched(r, p[j]) : j \in 1 .. k}

\* A push of a rank to itself only clones, and does not wait.
OwnPush(r, call) ==
    call.kind = "push" /\ call.to = r /\ Home(call.names[1]) = r

\* Rank r cannot return from the k-th call with work in its stream.
Waits(r, p, k) ==
    \/ p[k].kind \in {"multi", "iter"}
    \/ p[k].kind = "push" /\ TakesPart(r, p[k]) /\ ~OwnPush(r, p[k])
    \/ p[k].kind \in {"broadcast", "scatter"} /\ p[k].names[1] \notin Kept(r, p, k - 1)

\* The first k calls leave a clone behind that nothing waited for.
Unwaited(r, p, k) ==
    \E j \in 1 .. k : OwnPush(r, p[j]) /\ \A i \in j + 1 .. k : ~Waits(r, p, i)

\* The k-th call is the one after which rank r frees f.
Frees(r, p, k, f) ==
    /\ Owner[f] = r
    /\ Contents[f] \subseteq Took(r, p, k)
    /\ ~(Contents[f] \subseteq Took(r, p, k - 1))

\* A program lets no rank free or close a buffer right after a push to itself.
ASSUME UseAssumption ==
    \A p \in Programs : \A r \in Ranks, k \in DOMAIN p :
        k = Len(p) \/ (\E f \in SetOf(Files) : Frees(r, p, k, f))
            => ~Unwaited(r, p, k)

\* The k-th call is a get_tensor for a tensor of a file that auto_mem_delete
\* has freed by then.
AsksLate(p, k) ==
    /\ p[k].kind = "broadcast"
    /\ LET f == Frame[p[k].names[1]].file
       IN  Contents[f] \subseteq Took(Owner[f], p, k - 1)

\* A program in which every call counts all the tensors it asks for at their
\* owner: no get_multi_cols of several tensors of one file, no push to another.
CountsAll(p) ==
    \A k \in DOMAIN p :
        /\ p[k].kind = "multi" =>
              Len(FilesIn(p[k].names)) > 1 \/ Len(p[k].names) = 1
        /\ p[k].kind = "push" => p[k].to = Home(p[k].names[1])

-----------------------------------------------------------------------------
Init ==
    /\ program \in Programs
    /\ cached \in BOOLEAN /\ drains \in BOOLEAN
    /\ step = [r \in Ranks |-> 1]
    /\ items = [r \in Ranks |-> <<>>]
    /\ phase = [r \in Ranks |-> "idle"]
    /\ tag = [r \in Ranks |-> [f \in SetOf(Files) |-> 1]]
    /\ shuffled = [r \in Ranks |-> {}]
    /\ taken = [r \in Ranks |-> {}]
    /\ stream = [r \in Ranks |-> <<>>]
    /\ staged = [r \in Ranks |-> FALSE]
    /\ landed = {}
    /\ buffer = [f \in SetOf(Files) |-> "live"]
    /\ out = [r \in Ranks |-> [t \in Tensors |-> "none"]]

Call(r) == program[step[r]]

\* A call begins: its collectives follow from the call and the headers.
Begin(r) ==
    /\ phase[r] = "idle" /\ step[r] <= Len(program)
    /\ items' = [items EXCEPT ![r] = Items(r, Call(r))]
    /\ phase' = [phase EXCEPT ![r] = "issue"]
    /\ tag' = IF Call(r).kind = "push"
              THEN [tag EXCEPT ![r][Frame[Call(r).names[1]].file] = @ + 1]
              ELSE tag
    /\ UNCHANGED <<options, step, shuffled, taken, device>>

\* The owner has freed the file: shuffle to scatter, shuffle_multi_cols, push
\* and a run raise.  shuffle to broadcast sends a tensor nobody filled.
Gone(r, item) ==
    /\ r = item.root /\ item.kind # "broadcast"
    /\ \E t \in SetOf(item.names) : buffer[Frame[t].file] = "freed"

\* The owner waits for the bytes of the tensors and clones them; every member
\* queues the collective.
Issue(r) ==
    LET item == Head(items[r])
        clone == <<[op |-> "clone", item |-> item]>>
        join == IF Local(item) THEN <<>> ELSE <<[op |-> "join", item |-> item]>>
    IN  /\ phase[r] = "issue" /\ items[r] # <<>> /\ ~Gone(r, item)
        /\ r = item.root => Awaited(item) \subseteq landed
        /\ stream' = [stream EXCEPT ![r] =
                        @ \o (IF r = item.root THEN clone ELSE <<>>) \o join]
        /\ phase' = [phase EXCEPT ![r] = IF Blocks(item) THEN "sync" ELSE "issue"]
        /\ items' = [items EXCEPT ![r] = Tail(@)]
        /\ UNCHANGED <<options, step, tag, shuffled, taken, staged, landed,
                       buffer, out>>

\* The call fails on the owner, and its program with it.
Raise(r) ==
    /\ phase[r] = "issue" /\ items[r] # <<>> /\ Gone(r, Head(items[r]))
    /\ DrainsAtEnd(Call(r)) => stream[r] = <<>>
    /\ phase' = [phase EXCEPT ![r] = "raised"]
    /\ items' = [items EXCEPT ![r] = <<>>]
    /\ UNCHANGED <<options, step, tag, shuffled, taken, device>>

\* torch.cuda.synchronize, or the drain of a run
Synchronize(r) ==
    /\ phase[r] = "sync" /\ stream[r] = <<>>
    /\ phase' = [phase EXCEPT ![r] = "issue"]
    /\ UNCHANGED <<options, step, items, tag, shuffled, taken, device>>

\* The files whose last tensor a call took on rank r; free_dev_ptrs drains
\* the reads of such a file before it frees the buffer, if r has one
Freed(r, names) == {f \in SetOf(Files) : AllTaken(f, names)}
Free(r, fs) ==
    LET mine == {f \in fs : Owner[f] = r} IN
    /\ \A f \in mine : Contents[f] \subseteq landed
    /\ buffer' = [f \in SetOf(Files) |-> IF f \in mine THEN "freed" ELSE buffer[f]]

\* The call returns: it is accounted for, and files are freed by auto_mem_delete.
Return(r) ==
    LET call == Call(r)
        names == taken[r] \cup Counts(r, call)
    IN  /\ phase[r] = "issue" /\ items[r] = <<>>
        /\ DrainsAtEnd(call) => stream[r] = <<>>
        /\ taken' = [taken EXCEPT ![r] = names]
        /\ Free(r, Freed(r, names))
        /\ shuffled' = IF cached
                       THEN [shuffled EXCEPT ![r] = @ \cup Fetched(r, call)]
                       ELSE shuffled
        /\ phase' = [phase EXCEPT ![r] = "idle"]
        /\ step' = [step EXCEPT ![r] = @ + 1]
        /\ UNCHANGED <<options, items, tag, stream, staged, landed, out>>

\* close() after the last call
Close(r) ==
    /\ phase[r] = "idle" /\ step[r] > Len(program)
    /\ Free(r, SetOf(Files))
    /\ phase' = [phase EXCEPT ![r] = "closed"]
    /\ UNCHANGED <<options, step, items, tag, shuffled, taken, stream, staged,
                   landed, out>>

Rank(r) ==
    Begin(r) \/ Issue(r) \/ Raise(r) \/ Synchronize(r) \/ Return(r) \/ Close(r)

-----------------------------------------------------------------------------
(* The devices and the reads.                                              *)

\* A clone copies what the buffer holds when it runs; an empty tensor has no
\* bytes to miss.
Clone(r) ==
    /\ stream[r] # <<>> /\ Head(stream[r]).op = "clone"
    /\ LET item == Head(stream[r]).item
           good == \A t \in SetOf(item.names) :
                     \/ Bytes(t) = 0
                     \/ t \in landed /\ buffer[Frame[t].file] = "live"
       IN  /\ staged' = [staged EXCEPT ![r] = good]
           /\ out' = IF Local(item)
                     THEN [out EXCEPT ![r][item.names[1]] =
                             IF good THEN "good" ELSE "bad"]
                     ELSE out
    /\ stream' = [stream EXCEPT ![r] = Tail(@)]
    /\ UNCHANGED <<options, host, landed, buffer>>

\* A collective runs when all its members have come to it.
AtHead(r, item) == stream[r] # <<>> /\ Head(stream[r]) = [op |-> "join", item |-> item]
Join(item) ==
    /\ \A r \in item.members : AtHead(r, item)
    /\ stream' = [r \in Ranks |->
                    IF r \in item.members THEN Tail(stream[r]) ELSE stream[r]]
    /\ out' = [r \in Ranks |-> [t \in Tensors |->
                 IF /\ r \in item.members /\ t \in SetOf(item.names)
                    /\ item.kind = "push" => r # item.root
                 THEN IF staged[item.root] THEN "good" ELSE "bad"
                 ELSE out[r][t]]]
    /\ UNCHANGED <<options, host, staged, landed, buffer>>

JoinAny == \E r \in Ranks : stream[r] # <<>> /\ Join(Head(stream[r]).item)

\* The reads of the owners deliver their files in any order.
Land(t) ==
    /\ t \notin landed
    /\ landed' = landed \cup {t}
    /\ UNCHANGED <<options, host, stream, staged, buffer, out>>

Next ==
    \/ \E r \in Ranks : Rank(r) \/ Clone(r)
    \/ JoinAny
    \/ \E t \in Tensors : Land(t)

\* Every step is progress and none is taken twice, so it is enough that the
\* ranks, devices and reads do not all stop while one of them can go on.
Fairness == WF_vars(Next)

Spec == Init /\ [][Next]_vars /\ Fairness

-----------------------------------------------------------------------------
(* Properties.                                                             *)

\* The owner of t has come to a get_tensor for it after it freed the file: it
\* broadcasts a tensor that nobody filled (tensor_factory.py:174).
AskedLate(t) ==
    \E k \in DOMAIN program :
        k <= step[Home(t)] /\ AsksLate(program, k) /\ program[k].names[1] = t

\* Every tensor a rank was given, once the work queued for it has run, has
\* the bytes of the file: no copy read a buffer before its bytes landed or
\* after it was freed, a get_tensor that comes too late for its file excepted.
CorrectTensors ==
    \A r \in Ranks, t \in Tensors : out[r][t] = "bad" => AskedLate(t)

\* Rank r has returned from a call for t other than _iter_tensors, which
\* switches auto_mem_delete off.
Given(r, t) ==
    \E k \in 1 .. step[r] - 1 :
        program[k].kind # "iter" /\ t \in SetOf(program[k].names)
AllGiven(f) == \A t \in Contents[f] : Given(Owner[f], t)

\* auto_mem_delete: the buffer of a file is released when all its tensors were
\* shuffled, whichever calls did it.
FreedWhenTaken == \A f \in SetOf(Files) : AllGiven(f) => buffer[f] = "freed"

\* auto_mem_delete takes no buffer away before its owner has been given every
\* tensor in it: until close, none of its calls finds the file released while
\* there is a tensor of it that was never asked for.
KeptUntilTaken ==
    \A f \in SetOf(Files) :
        buffer[f] = "freed" => phase[Owner[f]] = "closed" \/ AllGiven(f)

\* No rank waits for ever for a collective that another issues in another
\* order, with other tensors, or not at all: every rank ends its program,
\* unless a call raised on an owner, of which the others are told nothing.
RanksEnd ==
    <>(\/ \E r \in Ranks : phase[r] = "raised"
       \/ \A r \in Ranks : phase[r] = "closed" /\ stream[r] = <<>>)

=============================================================================
