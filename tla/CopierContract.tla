--------------------------- MODULE CopierContract ---------------------------
(***************************************************************************)
(* What a copier promises to the tensor factory that drives it             *)
(* (CopierInterface, src/fastsafetensors/copier/base.py): a tensor is      *)
(* readable once wait_tensor or wait_io has returned, and every write is   *)
(* over before the memory or the file it uses is given back.               *)
(***************************************************************************)
CONSTANTS
    Pieces,      \* pieces of the file's data
    Tensors      \* a tensor is the set of its pieces

VARIABLES
    writing,     \* pieces that may still be written to the device buffer
    landed,      \* pieces whose bytes are in the device buffer
    given,       \* tensors whose bytes the user may look at
    held         \* the device buffer, the file and the registered regions

vars == <<writing, landed, given, held>>

Init ==
    /\ writing = {} /\ landed = {} /\ given = {} /\ held = {}

Acquire ==
    /\ held \subseteq held'
    /\ UNCHANGED <<writing, landed, given>>

\* Reads are submitted, nobody looking at their bytes.
Start(S) ==
    /\ held # {} /\ \A t \in given : t \cap S = {}
    /\ writing' = writing \cup S
    /\ landed' = landed \ S
    /\ UNCHANGED <<given, held>>

\* Some reads end: their bytes have come, or will never come.
End(S, good) ==
    /\ S \subseteq writing /\ good \subseteq S
    /\ writing' = writing \ S
    /\ landed' = landed \cup good
    /\ UNCHANGED <<given, held>>

\* wait_tensor or wait_io returns
Give(T) ==
    /\ \A t \in T : t \subseteq landed
    /\ given' = given \cup T
    /\ UNCHANGED <<writing, landed, held>>

\* finish_io: "Drain all inflight writes before buffer or file descriptor
\* release."
Release ==
    /\ writing = {}
    /\ held' \subseteq held
    /\ UNCHANGED <<writing, landed, given>>

Next ==
    \/ Acquire
    \/ \E S \in SUBSET Pieces : Start(S)
    \/ \E S \in SUBSET writing : \E good \in SUBSET S : End(S, good)
    \/ \E T \in SUBSET Tensors : Give(T)
    \/ Release

Spec == Init /\ [][Next]_vars

=============================================================================
