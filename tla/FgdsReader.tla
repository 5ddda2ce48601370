----------------------------- MODULE FgdsReader -----------------------------
(***************************************************************************)
(* FgdsFileCopier (src/fastsafetensors/copier/fgds.py) and its reader      *)
(* fgds_file_reader (src/fastsafetensors/cpp/ext.cpp): one thread for each *)
(* request, in the slot its number gives modulo max_threads.  A request    *)
(* whose slot is taken first joins the thread that is there.               *)
(***************************************************************************)
EXTENDS CopierBase

SlotOf(r) == (r - 1) % Threads

\* The thread of a request has returned.
Stopped(r) == Parts[r] \cap Writing = {}

-----------------------------------------------------------------------------
(* Decisions of the code, each after the slip a maintainer could make.     *)

\* submit_read: the thread in the slot is joined before the slot is used again
SlipCanJoin(k) == TRUE
CanJoin(k) == slot[k] # 0 => Stopped(slot[k])

\* finish_io: the bytes a request must have read; only those past the end of
\* the file may be missing
Needed(r) == Parts[r] \ Padding

-----------------------------------------------------------------------------
FgdsOpen ==
    /\ pc = "open"
    /\ Acquired("alloc", {File}) \/ Fails("free")

FgdsAlloc ==
    /\ pc = "alloc"
    /\ Acquired("register", {Buffer}) \/ Fails("undo")

\* fgds_regmem registers the whole buffer
FgdsRegister ==
    /\ pc = "register"
    /\ Acquired("submit", {Region(0)}) \/ Fails("undo")

\* submit_read
FgdsSubmit ==
    LET r == sent + 1 IN
    /\ pc = "submit" /\ r \in Requests /\ CanJoin(SlotOf(r))
    /\ sent' = r
    /\ slot' = [slot EXCEPT ![SlotOf(r)] = r]
    /\ piece' = Becomes(Parts[r], "busy")
    /\ UNCHANGED <<options, caller, failed, rc, held>>

\* The thread cannot be created, in a slot that is empty.
FgdsSubmitFails ==
    /\ pc = "submit" /\ sent + 1 \in Requests /\ slot[SlotOf(sent + 1)] = 0
    /\ Fails("undo")

FgdsSubmitted ==
    /\ pc = "submit" /\ sent + 1 \notin Requests
    /\ Acquired("drain", {})

-----------------------------------------------------------------------------
\* fgds_reader_thread: fgds_read brings the next piece, returns what it has read
\* so far, or fails.
FgdsRead(r) ==
    LET busy == {p \in Parts[r] : piece[p] = "busy"} IN
    /\ busy # {}
    /\ \/ piece' = Becomes({Least(busy)}, "landed") /\ UNCHANGED failed
       \/ piece' = Becomes(busy, "missed") /\ failed' \in {failed, failed \cup {r}}
    /\ UNCHANGED <<options, caller, sent, slot, rc, held>>

-----------------------------------------------------------------------------
\* finish_io, or the undoing of submit_io: wait_read joins the thread in the
\* slot, which may be that of a later request, and takes the result of r.
FgdsWaitRead ==
    LET r == waited + 1
        k == SlotOf(r)
    IN  /\ pc \in {"drain", "undo"} /\ waited < sent
        /\ slot[k] # 0 => Stopped(slot[k])
        /\ slot' = [slot EXCEPT ![k] = 0]
        /\ waited' = r
        /\ broken' = (broken \/ r \in failed \/ ~(Needed(r) \subseteq Landed))
        /\ UNCHANGED <<options, sent, piece, failed, rc, held, pc, want, seen,
                       asleep, given>>

\* _cleanup
FgdsFinish ==
    /\ pc \in {"drain", "undo"} /\ waited = sent
    /\ Drained(broken)

Fgds ==
    \/ FgdsOpen \/ FgdsAlloc \/ FgdsRegister
    \/ FgdsSubmit \/ FgdsSubmitFails \/ FgdsSubmitted
    \/ \E r \in Requests : FgdsRead(r)
    \/ FgdsWaitRead \/ FgdsFinish

=============================================================================
