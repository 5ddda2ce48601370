------------------------------ MODULE GdsReader ------------------------------
(***************************************************************************)
(* GdsFileCopier (src/fastsafetensors/copier/gds.py) and its reader        *)
(* gds_file_reader (src/fastsafetensors/cpp/ext.cpp): requests in a queue, *)
(* taken block by block by the workers of a pool, each read straight into  *)
(* device memory that may be registered with cuFile.                       *)
(***************************************************************************)
EXTENDS CopierBase

-----------------------------------------------------------------------------
(* Decisions of the code, each after the slip a maintainer could make.     *)

\* worker: callers are told when the request is over, when it has failed, and
\* when its prefix has grown
SlipTells(left, bad, grown) == bad \/ grown
Tells(left, bad, grown) == left = {} \/ bad \/ grown

BlocksOf(r) == Parts[r] \cap Data

\* wait_read: every block is accounted for, those of a failed request too
SlipDone(r) == r \in failed \/ BlocksOf(r) \cap Writing = {}
Done(r) == BlocksOf(r) \cap Writing = {}

-----------------------------------------------------------------------------
\* The handle cannot be set up: the copier hands everything to a nogds copier.
GdsOpenFails == pc = "open" /\ Acquired("delegated", {})

GdsOpen == pc = "open" /\ Acquired("alloc", {File})

\* alloc_tensor_memory
GdsAlloc ==
    /\ pc = "alloc"
    /\ Acquired("submit", {Buffer}) \/ Fails("undo")

\* The next request is registered, if it is aligned and the caller asked for it,
GdsRegister ==
    LET r == sent + 1 IN
    /\ pc = "submit" /\ r \in Requests /\ Region(r) \notin held
    /\ Acquired("submit", {Region(r)})

\* and put in the queue.
GdsSubmit ==
    LET r == sent + 1 IN
    /\ pc = "submit" /\ r \in Requests
    /\ sent' = r
    /\ piece' = Becomes(BlocksOf(r), "queued")
    /\ UNCHANGED <<options, caller, failed, slot, rc, held>>

\* cufile_register or submit_read fails
GdsSubmitFails == pc = "submit" /\ sent + 1 \in Requests /\ Fails("undo")

GdsSubmitted ==
    /\ pc = "submit" /\ sent + 1 \notin Requests
    /\ Acquired(IF ready THEN "use" ELSE "drain", {})

-----------------------------------------------------------------------------
(* The workers.                                                            *)

RequestOf(p) == CHOOSE r \in Requests : p \in Parts[r]

\* The blocks of a request that landed before its first gap
Prefix(r) ==
    {p \in BlocksOf(r) : \A q \in BlocksOf(r) : q <= p => piece[q] = "landed"}

\* A worker takes the next block of the request at the head of the queue,
GdsTake ==
    LET queued == {p \in Pieces : piece[p] = "queued"} IN
    /\ queued # {} /\ Cardinality(Writing \ queued) < Threads
    /\ piece' = Becomes({Least(queued)}, "busy")
    /\ UNCHANGED <<options, caller, sent, failed, slot, rc, held>>

\* reads it, and accounts for it.
GdsRead(p, ok) ==
    LET r == RequestOf(p) IN
    /\ piece[p] = "busy"
    /\ piece' = Becomes({p}, IF ok THEN "landed" ELSE "missed")
    /\ failed' = IF ok THEN failed ELSE failed \cup {r}
    /\ asleep' = (asleep /\ ~Tells((BlocksOf(r) \cap Writing) \ {p}, r \in failed',
                                   ready /\ Prefix(r)' # Prefix(r)))
    /\ UNCHANGED <<options, sent, slot, rc, held, pc, waited, want, seen, given,
                   broken>>

-----------------------------------------------------------------------------
(* The caller.                                                             *)

\* wait_tensor: for each request the tensor has bytes in, wait_read_prefix up
\* to the last of them, unless an earlier wait has seen that prefix
GdsAwaits(t, r) == {p \in BlocksOf(r) : \E q \in BlocksOf(r) \cap t : p <= q}

GdsNextRequest ==
    /\ want' = <<want[1], want[2] + 1>>
    /\ UNCHANGED <<options, reader, held, pc, waited, asleep, given, broken>>

GdsWaitPrefix ==
    LET r == want[2] IN
    /\ pc = "use" /\ want # <<>> /\ ~asleep
    /\ \/ /\ r \notin Requests
          /\ Answer /\ UNCHANGED seen
       \/ /\ r \in Requests /\ GdsAwaits(want[1], r) \subseteq seen
          /\ GdsNextRequest /\ UNCHANGED seen
       \/ /\ r \in Requests /\ ~(GdsAwaits(want[1], r) \subseteq seen)
          /\ \/ r \in failed /\ Refuse
             \/ /\ r \notin failed /\ GdsAwaits(want[1], r) \subseteq Prefix(r)
                /\ seen' = seen \cup Prefix(r)
                /\ GdsNextRequest
             \/ /\ r \notin failed /\ ~(GdsAwaits(want[1], r) \subseteq Prefix(r))
                /\ Sleep

\* finish_io: wait_read for every request, whatever became of the others
GdsWaitRead ==
    LET r == waited + 1 IN
    /\ pc \in {"drain", "undo"} /\ waited < sent /\ ~asleep
    /\ \/ /\ Done(r)
          /\ waited' = r /\ broken' = (broken \/ r \in failed)
          /\ UNCHANGED <<options, reader, held, pc, want, seen, asleep, given>>
       \/ ~Done(r) /\ Sleep

\* ... then the regions, which cufile_deregister may refuse, and the file.
GdsFinish ==
    /\ pc \in {"drain", "undo"} /\ waited = sent
    /\ \/ Drained(broken)
       \/ (\E r \in Requests : Region(r) \in held) /\ Drained(TRUE)

\* wait_io moves the bytes of a misaligned file, now that no read writes to
\* them; the buffer for it, or a move, may fail.
GdsMoveFails == pc = "move" /\ ~aligned /\ Fails("free")

Gds ==
    \/ GdsOpenFails \/ GdsOpen \/ GdsAlloc
    \/ GdsRegister \/ GdsSubmit \/ GdsSubmitFails \/ GdsSubmitted
    \/ GdsTake \/ \E p \in Pieces, ok \in BOOLEAN : GdsRead(p, ok)
    \/ GdsWaitPrefix \/ GdsWaitRead \/ GdsFinish \/ GdsMoveFails

=============================================================================
