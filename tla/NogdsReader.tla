---------------------------- MODULE NogdsReader ----------------------------
(***************************************************************************)
(* nogds_file_reader (src/fastsafetensors/cpp/ext.cpp) and the copiers     *)
(* that share it (NoGdsFileCopier, src/fastsafetensors/copier/nogds.py).   *)
(*                                                                         *)
(* Worker threads take one block at a time from the request at the head of *)
(* a queue, read it into one of two bounce buffers of their own and start  *)
(* a copy of it to the device.  A request counts the blocks it still       *)
(* misses and, when progress is tracked, publishes the prefix that has     *)
(* landed.  A copier submits the reads of one file, may wait for a prefix  *)
(* when a tensor is asked for, and drains every request before it closes   *)
(* the file and frees the destination.                                     *)
(*                                                                         *)
(* A request is named by its copier and its place among the copier's; its  *)
(* length is a number of blocks.  Any read, any copy and any submission    *)
(* may fail.                                                               *)
(***************************************************************************)
EXTENDS Naturals, Sequences, FiniteSets

CONSTANTS
    Workers,    \* the reader's threads
    Copiers,    \* NoGdsFileCopier objects, one per file
    Length,     \* Length[c]: the lengths of c's reads, in blocks
    NoBlock

ASSUME LengthAssumption ==
    Length \in [Copiers -> Seq(Nat \ {0}) \ {<<>>}]

VARIABLES
    streams,    \* the runtime has streams and asynchronous copies
    tracked,    \* the copiers' enable_tensor_readiness was called
    queue,      \* requests with blocks nobody has taken yet
    req,        \* req[id]: the request
    stopping,   \* the destructor has begun
    at,         \* at[w]: where worker w is
    slot,       \* slot[w]: its next bounce buffer
    hand,       \* hand[w]: the block it took
    pending,    \* pending[w][s]: the block whose copy from buffer s it started
    bounce,     \* bounce[w][s]: the block whose bytes are in buffer s, until
                \* it is accounted for
    dma,        \* dma[w][s]: the copy on the stream of buffer s
    dst,        \* dst[b]: the block whose bytes are where b belongs
    caller,     \* caller[c]: where the thread that uses copier c is
    sent,       \* sent[c]: requests submitted, len(self.reqs)
    waited,     \* waited[c]: of those, requests finish_io has waited for
    want,       \* want[c]: the prefix wait_tensor waits for
    ready,      \* ready[c][k]: _ready_prefix, in blocks
    raised      \* raised[c]: an error was reported to the caller

reader  == <<queue, req, stopping>>
worker  == <<at, slot, hand, pending>>
memory  == <<bounce, dma, dst>>
copier  == <<caller, sent, waited, want, ready, raised>>
options == <<streams, tracked>>
vars == <<options, reader, worker, memory, copier>>

BuffersPerThread == 2
Slots == 0 .. BuffersPerThread - 1

Requests == UNION {{c} \X (1 .. Len(Length[c])) : c \in Copiers}
Blocks(id) == {id} \X (0 .. Length[id[1]][id[2]] - 1)
AllBlocks == UNION {Blocks(id) : id \in Requests}
ASSUME BlockAssumption == NoBlock \notin AllBlocks

Id(b) == b[1]
Position(b) == b[2]
Owner(b) == Id(b)[1]

-----------------------------------------------------------------------------
(* Decisions of the code, each after the slip a maintainer could make.     *)

\* wait_read: all blocks are accounted for
SlipDrained(r) == r.remaining = 0 \/ r.failed
Drained(r) == r.remaining = 0

\* complete: who waits is told when the request is over, has failed, or its
\* prefix has grown
SlipWorthTelling(old, new) == new.prefix # old.prefix
WorthTelling(old, new) ==
    new.remaining = 0 \/ new.failed \/ new.prefix # old.prefix

\* worker: the request leaves the queue with its last block
SlipIsLast(position, n) == position = n
IsLast(position, n) == position + 1 = n

\* worker: the copy from a buffer is over before the buffer is filled again
SlipMustDrain(b) == FALSE
MustDrain(b) == b # NoBlock

\* worker: a worker drains its buffers before it sleeps
SlipBeforeSleep == "wait"
BeforeSleep == "drain"

\* worker: it exits only when no block is left
SlipMayExit == stopping
MayExit == stopping /\ queue = <<>>

\* complete: the longest prefix of blocks that have landed
SlipPrefix(n, done) == Cardinality(done)
Prefix(n, done) ==
    CHOOSE m \in 0 .. n : m \notin done /\ \A p \in 0 .. m - 1 : p \in done

-----------------------------------------------------------------------------
NewRequest(n) == [next |-> 0, remaining |-> n, completed |-> {},
                  prefix |-> 0, failed |-> FALSE]

Init ==
    /\ streams \in BOOLEAN
    /\ tracked \in BOOLEAN
    /\ queue = <<>>
    /\ req = [id \in Requests |-> NewRequest(Length[id[1]][id[2]])]
    /\ stopping = FALSE
    /\ at = [w \in Workers |-> "look"]
    /\ slot = [w \in Workers |-> 0]
    /\ hand = [w \in Workers |-> NoBlock]
    /\ pending = [w \in Workers |-> [s \in Slots |-> NoBlock]]
    /\ bounce = [w \in Workers |-> [s \in Slots |-> NoBlock]]
    /\ dma = [w \in Workers |-> [s \in Slots |-> "none"]]
    /\ dst = [b \in AllBlocks |-> NoBlock]
    /\ caller = [c \in Copiers |-> "submit"]
    /\ sent = [c \in Copiers |-> 0]
    /\ waited = [c \in Copiers |-> 0]
    /\ want = [c \in Copiers |-> <<0, 0>>]
    /\ ready = [c \in Copiers |-> [k \in 1 .. Len(Length[c]) |-> 0]]
    /\ raised = [c \in Copiers |-> FALSE]

-----------------------------------------------------------------------------
(* Worker threads (state::worker).                                         *)

\* Under the mutex: take the next block of the request at the head.
Take(w) ==
    LET id == Head(queue)
        position == req[id].next
        last == IsLast(position, Length[id[1]][id[2]])
        busy == MustDrain(pending[w][slot[w]])
    IN  /\ hand' = [hand EXCEPT ![w] = <<id, position>>]
        /\ req' = [req EXCEPT ![id].next = position + 1]
        /\ queue' = IF last THEN Tail(queue) ELSE queue
        /\ at' = [at EXCEPT ![w] = IF busy THEN "reuse" ELSE "read"]
        /\ UNCHANGED <<options, stopping, slot, pending, memory, copier>>

WorkerGoes(w, from, to) == at[w] = from /\ at' = [at EXCEPT ![w] = to]

FindWork(w) ==
    /\ at[w] \in {"look", "wait"}
    /\ queue # <<>>
    /\ Take(w)

NoWork(w) ==
    /\ WorkerGoes(w, "look", BeforeSleep)
    /\ queue = <<>>
    /\ UNCHANGED <<options, reader, slot, hand, pending, memory, copier>>

\* complete(): account for a block, tell the callers that wait for it.
Complete(b, failed) ==
    LET id == Id(b)
        old == req[id]
        done == IF tracked /\ ~failed
                THEN old.completed \cup {Position(b)} ELSE old.completed
        new == [next      |-> old.next,
                remaining |-> old.remaining - 1,
                completed |-> done,
                prefix    |-> IF done = old.completed THEN old.prefix
                              ELSE Prefix(Length[id[1]][id[2]], done),
                failed    |-> old.failed \/ failed]
    IN  /\ req' = [req EXCEPT ![id] = new]
        /\ caller' = IF WorthTelling(old, new)
                     THEN [c \in Copiers |->
                             CASE caller[c] = "prefix asleep" -> "prefix"
                               [] caller[c] = "finish asleep" -> "finish"
                               [] OTHER -> caller[c]]
                     ELSE caller
        /\ UNCHANGED <<options, queue, stopping, sent, waited, want, ready,
                       raised>>

\* drain(s): cudaStreamSynchronize, then complete with its result.
Drain(w, s) ==
    /\ dma[w][s] # "flying"
    /\ Complete(pending[w][s], dma[w][s] = "broken")
    /\ pending' = [pending EXCEPT ![w][s] = NoBlock]
    /\ dma' = [dma EXCEPT ![w][s] = "none"]
    /\ bounce' = [bounce EXCEPT ![w][s] = NoBlock]
    /\ UNCHANGED <<slot, hand, dst>>

\* No work: drain both buffers, without the mutex, then look again.
DrainIdle(w) ==
    /\ at[w] = "drain"
    /\ \E s \in Slots :
        /\ pending[w][s] # NoBlock
        /\ \A r \in 0 .. s - 1 : pending[w][r] = NoBlock
        /\ Drain(w, s)
    /\ UNCHANGED at

BuffersDrained(w) ==
    /\ WorkerGoes(w, "drain", "wait")
    /\ \A s \in Slots : pending[w][s] = NoBlock
    /\ UNCHANGED <<options, reader, slot, hand, pending, memory, copier>>

\* ready.wait: asleep until notified, out when stopping
Sleep(w) ==
    /\ WorkerGoes(w, "wait", "asleep")
    /\ queue = <<>> /\ ~stopping
    /\ UNCHANGED <<options, reader, slot, hand, pending, memory, copier>>

Exit(w) ==
    /\ WorkerGoes(w, "wait", "exited")
    /\ MayExit
    /\ UNCHANGED <<options, reader, slot, hand, pending, memory, copier>>

\* drain(slot) before the buffer is used again
DrainReuse(w) ==
    /\ WorkerGoes(w, "reuse", "read")
    /\ Drain(w, slot[w])

\* read(): the bytes are in the bounce buffer ...
Read(w) ==
    /\ WorkerGoes(w, "read", "copy")
    /\ bounce' = [bounce EXCEPT ![w][slot[w]] = hand[w]]
    /\ UNCHANGED <<options, reader, slot, hand, pending, dma, dst, copier>>

\* ... or it raised: truncated input, an IO error, no device
ReadFails(w) ==
    /\ WorkerGoes(w, "read", "abort")
    /\ bounce' = [bounce EXCEPT ![w][slot[w]] = NoBlock]
    /\ UNCHANGED <<options, reader, slot, hand, pending, dma, dst, copier>>

NextSlot(w) == [slot EXCEPT ![w] = (slot[w] + 1) % BuffersPerThread]

\* cudaMemcpyAsync; the block stays pending on the buffer's stream
StartCopy(w) ==
    /\ WorkerGoes(w, "copy", "look")
    /\ streams
    /\ dma' = [dma EXCEPT ![w][slot[w]] = "flying"]
    /\ pending' = [pending EXCEPT ![w][slot[w]] = hand[w]]
    /\ hand' = [hand EXCEPT ![w] = NoBlock]
    /\ slot' = NextSlot(w)
    /\ UNCHANGED <<options, reader, bounce, dst, copier>>

\* cudaMemcpy and cudaDeviceSynchronize
CopyNow(w) ==
    /\ WorkerGoes(w, "copy", "look")
    /\ ~streams
    /\ dst' = [dst EXCEPT ![hand[w]] = bounce[w][slot[w]]]
    /\ Complete(hand[w], FALSE)
    /\ hand' = [hand EXCEPT ![w] = NoBlock]
    /\ bounce' = [bounce EXCEPT ![w][slot[w]] = NoBlock]
    /\ slot' = NextSlot(w)
    /\ UNCHANGED <<pending, dma>>

\* The copy was refused, with or without having been queued.
CopyFails(w) ==
    /\ WorkerGoes(w, "copy", "abort")
    /\ dma' \in {dma, [dma EXCEPT ![w][slot[w]] = "flying"]}
    /\ UNCHANGED <<options, reader, slot, hand, pending, bounce, dst, copier>>

\* catch: synchronize, then account for the block as failed
Abort(w) ==
    /\ WorkerGoes(w, "abort", "look")
    /\ dma[w][slot[w]] # "flying"
    /\ Complete(hand[w], TRUE)
    /\ dma' = [dma EXCEPT ![w][slot[w]] = "none"]
    /\ hand' = [hand EXCEPT ![w] = NoBlock]
    /\ bounce' = [bounce EXCEPT ![w][slot[w]] = NoBlock]
    /\ slot' = NextSlot(w)
    /\ UNCHANGED <<pending, dst>>

Work(w) ==
    \/ FindWork(w) \/ NoWork(w) \/ DrainIdle(w) \/ BuffersDrained(w) \/ Sleep(w)
    \/ Exit(w) \/ DrainReuse(w) \/ Read(w)
    \/ ReadFails(w) \/ StartCopy(w) \/ CopyNow(w) \/ CopyFails(w) \/ Abort(w)

-----------------------------------------------------------------------------
(* The device: a started copy takes the bytes the bounce buffer holds when *)
(* it runs, or breaks.                                                     *)

Flying(w, s) == IF pending[w][s] # NoBlock THEN pending[w][s] ELSE hand[w]

Land(w, s) ==
    /\ dma[w][s] = "flying"
    /\ dma' = [dma EXCEPT ![w][s] = "landed"]
    /\ dst' = [dst EXCEPT ![Flying(w, s)] = bounce[w][s]]
    /\ UNCHANGED <<options, reader, worker, bounce, copier>>

Break(w, s) ==
    /\ dma[w][s] = "flying"
    /\ dma' = [dma EXCEPT ![w][s] = "broken"]
    /\ UNCHANGED <<options, reader, worker, bounce, dst, copier>>

Device(w) == \E s \in Slots : Land(w, s) \/ Break(w, s)

-----------------------------------------------------------------------------
(* The copiers: submit_io, wait_tensor, finish_io, and the free that       *)
(* follows it.                                                             *)

CallerGoes(c, from, to) ==
    caller[c] = from /\ caller' = [caller EXCEPT ![c] = to]

Notify == at' = [w \in Workers |-> IF at[w] = "asleep" THEN "wait" ELSE at[w]]

\* submit_read, until the file's last read is submitted.  With readiness the
\* tensors are then used while reads are in flight; without it wait_io is
\* next.
Submit(c) ==
    LET k == sent[c] + 1 IN
    /\ caller[c] = "submit"
    /\ sent' = [sent EXCEPT ![c] = k]
    /\ queue' = Append(queue, <<c, k>>)
    /\ caller' = IF k < Len(Length[c]) THEN caller
                 ELSE [caller EXCEPT ![c] = IF tracked THEN "use" ELSE "finish"]
    /\ Notify
    /\ UNCHANGED <<options, req, stopping, slot, hand, pending, memory,
                   waited, want, ready, raised>>

\* submit_read raised: what was submitted is drained before the buffer is
\* freed
SubmitRaises(c) ==
    /\ CallerGoes(c, "submit", "finish")
    /\ raised' = [raised EXCEPT ![c] = TRUE]
    /\ UNCHANGED <<options, reader, worker, memory, sent, waited, want, ready>>

\* wait_tensor: the part of the tensor in request k that is not known ready
Ask(c) ==
    /\ CallerGoes(c, "use", "prefix")
    /\ \E k \in 1 .. Len(Length[c]) : \E n \in ready[c][k] + 1 .. Length[c][k] :
          want' = [want EXCEPT ![c] = <<k, n>>]
    /\ UNCHANGED <<options, reader, worker, memory, sent, waited, ready, raised>>

Asked(c) == req[<<c, want[c][1]>>]

\* wait_read_prefix
PrefixReady(c) ==
    /\ CallerGoes(c, "prefix", "use")
    /\ ~Asked(c).failed /\ Asked(c).prefix >= want[c][2]
    /\ ready' = [ready EXCEPT ![c][want[c][1]] = Asked(c).prefix]
    /\ want' = [want EXCEPT ![c] = <<0, 0>>]
    /\ UNCHANGED <<options, reader, worker, memory, sent, waited, raised>>

PrefixRaises(c) ==
    /\ CallerGoes(c, "prefix", "finish")
    /\ Asked(c).failed
    /\ raised' = [raised EXCEPT ![c] = TRUE]
    /\ want' = [want EXCEPT ![c] = <<0, 0>>]
    /\ UNCHANGED <<options, reader, worker, memory, sent, waited, ready>>

PrefixSleeps(c) ==
    /\ CallerGoes(c, "prefix", "prefix asleep")
    /\ ~Asked(c).failed /\ Asked(c).prefix < want[c][2]
    /\ UNCHANGED <<options, reader, worker, memory, sent, waited, want, ready,
                   raised>>

\* The buffer is closed (free_dev_ptrs), with any of its reads in flight ...
CloseBuffer(c) ==
    /\ CallerGoes(c, "use", "finish")
    /\ UNCHANGED <<options, reader, worker, memory, sent, waited, want, ready,
                   raised>>

\* ... or dropped without a close: nothing drains its reads, nor frees it.
Abandon(c) ==
    /\ CallerGoes(c, "use", "dropped")
    /\ UNCHANGED <<options, reader, worker, memory, sent, waited, want, ready,
                   raised>>

\* finish_io: wait_read for each request in turn
WaitRead(c) ==
    LET r == req[<<c, waited[c] + 1>>] IN
    /\ caller[c] = "finish"
    /\ waited[c] < sent[c]
    /\ IF Drained(r)
       THEN /\ waited' = [waited EXCEPT ![c] = @ + 1]
            /\ raised' = [raised EXCEPT ![c] = @ \/ r.failed]
            /\ UNCHANGED caller
       ELSE /\ caller' = [caller EXCEPT ![c] = "finish asleep"]
            /\ UNCHANGED <<waited, raised>>
    /\ UNCHANGED <<options, reader, worker, memory, sent, want, ready>>

\* ... then os.close(fd), after which the buffer may be freed
CloseFile(c) ==
    /\ CallerGoes(c, "finish", "closed")
    /\ waited[c] = sent[c]
    /\ UNCHANGED <<options, reader, worker, memory, sent, waited, want, ready,
                   raised>>

\* Steps of a copier that is not waiting for its user
Copier(c) ==
    \/ Submit(c) \/ SubmitRaises(c)
    \/ PrefixReady(c) \/ PrefixRaises(c) \/ PrefixSleeps(c)
    \/ WaitRead(c) \/ CloseFile(c)

User(c) == Ask(c) \/ CloseBuffer(c) \/ Abandon(c)

\* ~state: the last copier that held the reader is gone.  The join that
\* follows waits for every worker to exit.
Destroy ==
    /\ \A c \in Copiers : caller[c] \in {"closed", "dropped"}
    /\ ~stopping
    /\ stopping' = TRUE
    /\ Notify
    /\ UNCHANGED <<options, queue, req, slot, hand, pending, memory, copier>>

Next ==
    \/ \E w \in Workers : Work(w) \/ Device(w)
    \/ \E c \in Copiers : Copier(c) \/ User(c)
    \/ Destroy

\* Threads are scheduled, and the device finishes what it was given; the user
\* of a copier may do nothing for ever.
Fairness ==
    /\ \A w \in Workers : WF_vars(Work(w)) /\ WF_vars(Device(w))
    /\ \A c \in Copiers : WF_vars(Copier(c))

Spec == Init /\ [][Next]_vars /\ Fairness

-----------------------------------------------------------------------------
(* Properties.                                                             *)

\* Types of the variables.
TypeOK ==
    /\ streams \in BOOLEAN /\ tracked \in BOOLEAN
    /\ queue \in Seq(Requests)
    /\ \A id \in Requests :
          LET n == Length[id[1]][id[2]] IN
          req[id] \in [next : 0 .. n, remaining : 0 .. n,
                       completed : SUBSET (0 .. n - 1), prefix : 0 .. n,
                       failed : BOOLEAN]
    /\ stopping \in BOOLEAN
    /\ at \in [Workers -> {"look", "drain", "wait", "asleep", "exited",
                           "reuse", "read", "copy", "abort"}]
    /\ slot \in [Workers -> Slots]
    /\ hand \in [Workers -> AllBlocks \cup {NoBlock}]
    /\ pending \in [Workers -> [Slots -> AllBlocks \cup {NoBlock}]]
    /\ bounce \in [Workers -> [Slots -> AllBlocks \cup {NoBlock}]]
    /\ dma \in [Workers -> [Slots -> {"none", "flying", "landed", "broken"}]]
    /\ dst \in [AllBlocks -> AllBlocks \cup {NoBlock}]
    /\ caller \in [Copiers -> {"submit", "use", "prefix", "prefix asleep",
                               "finish", "finish asleep", "closed", "dropped"}]
    /\ \A c \in Copiers :
          /\ sent[c] \in 0 .. Len(Length[c])
          /\ waited[c] \in 0 .. sent[c]
    /\ raised \in [Copiers -> BOOLEAN]

\* A block a caller may look at, because wait_read_prefix covered it or
\* because finish_io ended without an error, is where it belongs, whole.
MayUse(b) ==
    LET c == Owner(b) IN
    \/ Position(b) < ready[c][Id(b)[2]]
    \/ caller[c] = "closed" /\ ~raised[c]
BytesReady == \A b \in AllBlocks : MayUse(b) => dst[b] = b

\* A bounce buffer is never filled again while the device copies from it.
BounceIntact ==
    \A w \in Workers, s \in Slots :
        dma[w][s] = "flying" => bounce[w][s] = Flying(w, s)

\* Once a copier has closed its file and may free its buffer, no thread will
\* read that file and no copy will write that buffer.
Touched(w) == {hand[w]} \cup {pending[w][s] : s \in Slots}
NoLateUse ==
    \A c \in Copiers :
        caller[c] = "closed" =>
            /\ \A w \in Workers : \A b \in Touched(w) \ {NoBlock} : Owner(b) # c
            /\ \A i \in 1 .. Len(queue) : queue[i][1] # c

\* A caller that waits for a tensor is answered.
AskAnswered ==
    \A c \in Copiers : (caller[c] = "prefix") ~> (caller[c] \in {"use", "finish"})

\* finish_io ends, so that no buffer is kept for ever.
FinishEnds == \A c \in Copiers : (caller[c] = "finish") ~> (caller[c] = "closed")

\* The destructor's join returns, and every block was accounted for before,
\* those of a copier that was dropped while its reads were queued included.
DestroyEnds ==
    stopping ~> /\ \A w \in Workers : at[w] = "exited"
                /\ \A id \in Requests :
                      id[2] <= sent[id[1]] => req[id].remaining = 0

=============================================================================
