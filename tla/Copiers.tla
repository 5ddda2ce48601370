------------------------------- MODULE Copiers -------------------------------
(***************************************************************************)
(* The copiers that read straight into device memory, each with the tensor *)
(* factory that drives it, against the contract of CopierInterface.        *)
(***************************************************************************)
EXTENDS GdsReader, FgdsReader, UnifiedReader

Next ==
    \/ Factory
    \/ kind = "gds" /\ Gds
    \/ kind = "fgds" /\ Fgds
    \/ kind = "unified" /\ Unified

\* Threads, workers and callers all go on while they can.
Spec == Init /\ [][Next]_vars /\ WF_vars(Next)

-----------------------------------------------------------------------------
(* Properties.                                                             *)

Contract == INSTANCE CopierContract WITH writing <- Writing, landed <- Landed

\* Whatever fails and in whatever order the reads end, a copier keeps what
\* CopierInterface promises: no tensor is handed out before all of its bytes
\* are in the device buffer, none is written to afterwards, and the buffer, the
\* registered regions and the file are given back only when no read, thread or
\* copy can still use them.
KeepsContract == Contract!Spec

\* However a load ends, it has given back the file, the regions and the device
\* buffer, and no thread is left that writes to it.  The exception, "leaked", is
\* the unified copier when a mapping fails: its buffer stays (unified.py:325).
ReturnsEverything == pc \in {"closed", "raised"} => held = {} /\ Writing = {}

\* A tensor that was handed out holds the file's bytes, in all of its pieces.
GivenHaveBytes == \A t \in given : t \subseteq Landed

\* Every wait ends: wait_tensor, finish_io and wait_io are told of what they
\* wait for, whether it comes, fails, or came before they looked.
WaitsEnd == <>(pc \in Over)

=============================================================================
