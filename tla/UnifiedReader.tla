---------------------------- MODULE UnifiedReader ----------------------------
(***************************************************************************)
(* UnifiedMemCopier (src/fastsafetensors/copier/unified.py) and its reader *)
(* dma_load_runs (src/fastsafetensors/cpp/ext.cpp): threads that each read *)
(* a span of the runs with O_DIRECT.  With tensor readiness they work      *)
(* behind a Python thread and tell a dma_completion what has landed;       *)
(* without it submit_io waits for them, and maps the runs and copies them  *)
(* instead when they fail.                                                 *)
(***************************************************************************)
EXTENDS CopierBase

Reading == rc \in {"reading", "failing"}

-----------------------------------------------------------------------------
(* Decisions of the code, each after the slip a maintainer could make.     *)

\* dma_completion: callers are told when a block has become readable
Completes(p) ==
    \E b \in Blocks : p \in b /\ \A q \in b \ {p} : piece[q] = "landed"

\* dma_completion::finish: a read is good when nothing failed and no byte is
\* pending; dma_load_runs alone looks at the failures only
Result == IF rc = "failing" \/ (ready /\ ~(Data \subseteq Landed))
          THEN "error" ELSE "ok"

\* finish_io waits for the thread, or for the copies of the mapped runs
SlipSettled == rc # "reading"
Settled == ~Reading /\ Writing = {}

-----------------------------------------------------------------------------
\* submit_io allocates the buffer; without O_DIRECT the runs are mapped.
UnifiedAlloc ==
    /\ pc = "open"
    /\ \/ Acquired(IF direct THEN "read" ELSE "map", {Buffer})
       \/ Fails("free")

\* The threads are started.  With readiness the Python thread that does so may
\* fail to start, and submit_io returns at once.
UnifiedRead ==
    /\ pc = "read" /\ rc = "none"
    /\ rc' = "reading"
    /\ piece' = Becomes(Data, "queued")
    /\ pc' = IF ready THEN "use" ELSE "read"
    /\ UNCHANGED <<options, sent, failed, slot, held, waited, want, seen, asleep,
                   given, broken>>
UnifiedStartFails == pc = "read" /\ rc = "none" /\ ready /\ Fails("free")

\* The Python thread cannot use the device: completion.finish(-6)
UnifiedReadRaises ==
    /\ ready /\ rc = "reading" /\ \A p \in Data : piece[p] = "queued"
    /\ rc' = "error"
    /\ piece' = Becomes(Data, "missed") /\ asleep' = FALSE
    /\ UNCHANGED <<options, sent, failed, slot, held, pc, waited, want, seen,
                   given, broken>>

-----------------------------------------------------------------------------
(* The threads of dma_load_runs.                                           *)

Ahead(w) == {p \in Spans[w] : piece[p] = "queued"}

\* The thread is about to begin another run.
AtBoundary(w) ==
    \A i \in DOMAIN Runs : Least(Ahead(w)) \in Runs[i]
                           => Runs[i] \cap Spans[w] \subseteq Ahead(w)

\* A thread reads and copies its next piece.
DmaCopy(w) ==
    LET p == Least(Ahead(w)) IN
    /\ Reading /\ Ahead(w) # {}
    /\ rc = "failing" => ~AtBoundary(w)
    /\ piece' = Becomes({p}, "landed")
    /\ asleep' = (asleep /\ ~(ready /\ Completes(p)))
    /\ UNCHANGED <<options, sent, failed, slot, rc, held, pc, waited, want, seen,
                   given, broken>>

\* The pread comes back short: the bytes it lacks are skipped.
DmaShort(w) ==
    /\ Reading /\ Ahead(w) # {} /\ (ready \/ ShortReads)
    /\ rc = "failing" => ~AtBoundary(w)
    /\ piece' = Becomes({Least(Ahead(w))}, "missed")
    /\ UNCHANGED <<options, caller, sent, failed, slot, rc, held>>

\* The thread cannot be set up, or a pread or a copy fails,
DmaFail(w) ==
    /\ Reading /\ Ahead(w) # {}
    /\ rc' = "failing"
    /\ piece' = Becomes(Ahead(w), "missed")
    /\ UNCHANGED <<options, caller, sent, failed, slot, held>>

\* and the others stop before their next run.
DmaStop(w) ==
    /\ rc = "failing" /\ Ahead(w) # {} /\ AtBoundary(w)
    /\ piece' = Becomes(Ahead(w), "missed")
    /\ UNCHANGED <<options, caller, sent, failed, slot, rc, held>>

\* The last synchronization of a thread fails.
DmaLateFail ==
    /\ rc = "reading" /\ \E w \in DOMAIN Spans : Ahead(w) = {}
    /\ rc' = "failing"
    /\ UNCHANGED <<options, caller, sent, piece, failed, slot, held>>

\* All threads have been joined.  submit_io, if it waited for them, maps the
\* runs when they failed.
DmaReturn ==
    /\ Reading /\ Writing = {}
    /\ rc' = Result /\ asleep' = FALSE
    /\ pc' = IF ready THEN pc ELSE IF rc' = "ok" THEN "drain" ELSE "map"
    /\ UNCHANGED <<options, sent, piece, failed, slot, held, waited, want, seen,
                   given, broken>>

-----------------------------------------------------------------------------
(* The mapped runs, copied one after the other on the default stream.      *)

MapRun ==
    /\ pc = "map" /\ sent < Len(Runs)
    /\ sent' = sent + 1
    /\ piece' = Becomes(Runs[sent + 1], "busy")
    /\ UNCHANGED <<options, caller, failed, slot, rc, held>>

\* memcpy_h2d_async refuses the first copy
MapCopyFails == pc = "map" /\ sent = 0 /\ sent < Len(Runs) /\ Fails("free")

\* mmap_file_pinned raises: nobody frees the buffer
MapFails == pc = "map" /\ sent < Len(Runs) /\ Fails("lost")

Mapped == pc = "map" /\ sent = Len(Runs) /\ Acquired("drain", {})

Copied ==
    LET busy == {p \in Data : piece[p] = "busy"} IN
    /\ busy # {}
    /\ piece' = Becomes({Least(busy)}, "landed")
    /\ UNCHANGED <<options, caller, sent, failed, slot, rc, held>>

-----------------------------------------------------------------------------
(* The caller.                                                             *)

\* The pieces of the blocks that hold bytes of a tensor
BlocksWith(t) == UNION {b \in Blocks : b \cap t # {}}

\* wait_tensor: wait_range, unless earlier waits have seen those blocks
UnifiedWaitRange ==
    /\ pc = "use" /\ want # <<>> /\ ~asleep
    /\ \/ BlocksWith(want[1]) \subseteq seen /\ Answer /\ UNCHANGED seen
       \/ /\ ~(BlocksWith(want[1]) \subseteq seen)
          /\ \/ /\ BlocksWith(want[1]) \subseteq Landed
                /\ seen' = seen \cup BlocksWith(want[1])
                /\ Answer
             \/ ~(BlocksWith(want[1]) \subseteq Landed) /\ ~Reading /\ Refuse
             \/ ~(BlocksWith(want[1]) \subseteq Landed) /\ Reading /\ Sleep

\* finish_io
UnifiedFinish ==
    /\ pc \in {"drain", "undo"} /\ Settled
    /\ Drained(broken \/ (ready /\ rc = "error"))

\* ... called by free_dev_ptrs after a mapping has failed
UnifiedLost ==
    /\ pc = "lost" /\ Settled
    /\ Acquired("leaked", {})

Unified ==
    \/ UnifiedAlloc \/ UnifiedRead \/ UnifiedStartFails \/ UnifiedReadRaises
    \/ \E w \in DOMAIN Spans :
          DmaCopy(w) \/ DmaShort(w) \/ DmaFail(w) \/ DmaStop(w)
    \/ DmaLateFail \/ DmaReturn
    \/ MapRun \/ MapCopyFails \/ MapFails \/ Mapped \/ Copied
    \/ UnifiedWaitRange \/ UnifiedFinish \/ UnifiedLost

=============================================================================
