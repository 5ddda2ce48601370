----------------------------- MODULE CopierBase -----------------------------
(***************************************************************************)
(* What the copiers of the repository (src/fastsafetensors/copier) have in *)
(* common: the state of one copier, and the tensor factory that drives it. *)
(* submit_io allocates the device buffer and starts the reads.  With       *)
(* tensor readiness the tensors exist at once, wait_tensor waits for the   *)
(* bytes of one, and finish_io is called when the buffer is closed;        *)
(* without it wait_io calls finish_io and then makes the tensors.          *)
(*                                                                         *)
(* The file's data is cut in pieces, numbered from 1 in file order, that   *)
(* are read one by one.                                                    *)
(***************************************************************************)
EXTENDS Naturals, Sequences, FiniteSets

CONSTANTS
    Kinds,       \* the copiers of this instance: "gds", "fgds", "unified"
    Parts,       \* Parts[r]: the pieces of request r of gds and of fgds
    Padding,        \* pieces past the end of the file, which fgds reads as padding
    Runs,        \* Runs[i]: the pieces of byte range i (unified)
    Spans,       \* Spans[w]: the pieces that thread w of dma_load_runs reads
    Blocks,      \* the pieces of each PIN_CHUNK of the device buffer
    Tensors,     \* the pieces of each tensor
    Threads,     \* max_threads of the readers
    ShortReads   \* a pread of the blocking dma_load_runs may come back short

Requests == DOMAIN Parts
Pieces == UNION {Parts[r] : r \in Requests}

Data == Pieces \ Padding

Cuts(S, D) == UNION S = D /\ \A x, y \in S : x # y => x \cap y = {}
Sets(f) == {f[i] : i \in DOMAIN f}
InOrder(f) == \A i, j \in DOMAIN f : i < j => \A p \in f[i], q \in f[j] : p < q

ASSUME KindsAssumption == Kinds \subseteq {"gds", "fgds", "unified"}

ASSUME LayoutAssumption ==
    /\ Parts \in Seq(SUBSET Nat) /\ Runs \in Seq(SUBSET Nat)
    /\ Pieces = 1 .. Cardinality(Pieces)
    /\ \A p \in Padding, q \in Data : q < p
    /\ Cuts(Sets(Parts), Pieces) /\ InOrder(Parts)
    /\ \A f \in {Runs, Spans} : Cuts(Sets(f), Data) /\ InOrder(f)
    /\ Cuts(Blocks, Data)
    /\ \A t \in Tensors : t # {} /\ t \subseteq Data
    /\ Threads \in Nat \ {0} /\ ShortReads \in BOOLEAN

VARIABLES
    kind,        \* the copier
    ready,       \* _readiness: tensors exist before their bytes
    aligned,     \* metadata.aligned, or only parts of the file are read
    direct,      \* the file can be read with O_DIRECT (unified)
    pc,          \* where the copier and its factory are
    sent,        \* requests submitted, or runs mapped, so far
    waited,      \* of those, how many finish_io has waited for
    piece,       \* piece[p]: "idle", "queued", "busy", "landed" or "missed"
    failed,      \* requests that failed (gds, fgds)
    slot,        \* slot[k]: the request whose thread _threads[k] is, or 0 (fgds)
    rc,          \* dma_load_runs: "none", "reading", "failing", "ok", "error"
    held,        \* what the copier holds
    want,        \* what wait_tensor waits for: <<tensor, next request>>, or <<>>
    seen,        \* what is known to have landed: _ready_prefix, _ready_blocks
    asleep,      \* the caller sleeps on the reader's condition variable
    given,       \* tensors whose bytes the user may look at
    broken       \* an error goes to the caller

options == <<kind, ready, aligned, direct>>
reader == <<sent, piece, failed, slot, rc>>
caller == <<pc, waited, want, seen, asleep, given, broken>>
vars == <<options, reader, caller, held>>

Buffer == <<"buffer", 0>>
File == <<"file", 0>>
Region(r) == <<"region", r>>

Writing == {p \in Pieces : piece[p] \in {"queued", "busy"}}
Landed == {p \in Pieces : piece[p] = "landed"}
Over == {"closed", "raised", "delegated", "leaked"}

Least(S) == CHOOSE p \in S : \A q \in S : p <= q

\* The pieces S become v.
Becomes(S, v) == [p \in Pieces |-> IF p \in S THEN v ELSE piece[p]]

Init ==
    /\ kind \in Kinds
    /\ ready \in BOOLEAN /\ aligned \in BOOLEAN /\ direct \in BOOLEAN
    /\ ready => CASE kind = "gds" -> aligned
                  [] kind = "fgds" -> FALSE
                  [] kind = "unified" -> direct
    /\ pc = "open" /\ sent = 0 /\ waited = 0
    /\ piece = [p \in Pieces |-> "idle"]
    /\ failed = {} /\ slot = [k \in 0 .. Threads - 1 |-> 0] /\ rc = "none"
    /\ held = {} /\ want = <<>> /\ seen = {} /\ asleep = FALSE
    /\ given = {} /\ broken = FALSE

-----------------------------------------------------------------------------
(* LazyTensorFactory and the user.                                         *)

\* submit_io goes on to l, and has come to hold more.
Acquired(l, more) ==
    /\ pc' = l /\ held' = held \cup more
    /\ UNCHANGED <<options, reader, waited, want, seen, asleep, given, broken>>

\* An error in submit_io, or in what wait_io does after finish_io: go on to l.
Fails(l) ==
    /\ pc' = l /\ broken' = TRUE
    /\ UNCHANGED <<options, reader, held, waited, want, seen, asleep, given>>

\* The user asks for a tensor it has not looked at yet.
Ask(t) ==
    /\ pc = "use" /\ want = <<>> /\ t \notin given
    /\ want' = <<t, 1>>
    /\ UNCHANGED <<options, reader, held, pc, waited, seen, asleep, given, broken>>

\* wait_tensor returns
Answer ==
    /\ given' = given \cup {want[1]} /\ want' = <<>>
    /\ UNCHANGED <<options, reader, held, pc, waited, asleep, broken>>

\* wait_tensor raises, and the load is given up
Refuse ==
    /\ want' = <<>> /\ broken' = TRUE /\ pc' = "drain"
    /\ UNCHANGED <<options, reader, held, waited, seen, asleep, given>>

\* wait_tensor blocks
Sleep ==
    /\ asleep' = TRUE
    /\ UNCHANGED <<options, reader, held, pc, waited, want, seen, given, broken>>

\* close(), or an early end of the load: free_dev_ptrs calls finish_io
Close ==
    /\ pc = "use" /\ want = <<>>
    /\ pc' = "drain"
    /\ UNCHANGED <<options, reader, held, waited, want, seen, asleep, given,
                   broken>>

\* finish_io has drained the reads: it keeps the buffer only.  What comes next
\* depends on who called it.
Drained(error) ==
    /\ held' = held \cap {Buffer} /\ broken' = error
    /\ pc' = IF pc = "undo" \/ error \/ ready THEN "free" ELSE "move"
    /\ UNCHANGED <<options, reader, waited, want, seen, asleep, given>>

\* wait_io makes the tensors.
Materialize ==
    /\ pc = "move" /\ pc' = "served"
    /\ given' = Tensors
    /\ UNCHANGED <<options, reader, held, waited, want, seen, asleep, broken>>

Served ==
    /\ pc = "served" /\ pc' = "free"
    /\ UNCHANGED <<options, reader, held, waited, want, seen, asleep, given,
                   broken>>

\* The buffer is freed: by the copier when submit_io raises, by the factory
\* otherwise.
Free ==
    /\ pc = "free"
    /\ held' = held \ {Buffer}
    /\ pc' = IF broken THEN "raised" ELSE "closed"
    /\ UNCHANGED <<options, reader, waited, want, seen, asleep, given, broken>>

Factory ==
    \/ \E t \in Tensors : Ask(t)
    \/ Close \/ Materialize \/ Served \/ Free

=============================================================================
