---------------------------- MODULE BatchDelivery ----------------------------
(***************************************************************************)
(* What iterate_weights promises its caller, whatever the threads, the     *)
(* queue and the events behind it do (docstring of                         *)
(* PipelineParallel.iterate_weights and the queue_size comment of          *)
(* __init__, src/fastsafetensors/parallel_loader.py):                      *)
(*   - batches are brought to the device in order, never more than `depth` *)
(*     at once;                                                            *)
(*   - batches are served in order, each at most once, each from a buffer  *)
(*     that stays on the device while it is served, and a batch is served  *)
(*     only after the buffer of the one before it was released;            *)
(*   - the iteration ends with nothing left on the device, and without an  *)
(*     exception only if every batch was served to its end.                *)
(***************************************************************************)
EXTENDS Naturals, FiniteSets

CONSTANT NumBatches

VARIABLES
    depth,      \* buffers the caller's memory plan charges
    acquired,   \* number of batches that were given a device buffer
    resident,   \* batches that have one now
    current,    \* batch being served, 0 for none
    given,      \* number of batches served to their end
    outcome     \* how the iteration ended, "running" before that

vars == <<depth, acquired, resident, current, given, outcome>>

Init ==
    /\ depth \in Nat
    /\ acquired = 0
    /\ resident = {}
    /\ current = 0
    /\ given = 0
    /\ outcome = "running"

Acquire ==
    /\ outcome = "running"
    /\ acquired < NumBatches
    /\ Cardinality(resident) < depth
    /\ acquired' = acquired + 1
    /\ resident' = resident \cup {acquired + 1}
    /\ UNCHANGED <<depth, current, given, outcome>>

Serve ==
    /\ outcome = "running"
    /\ current = 0
    /\ given + 1 \in resident
    /\ \A b \in resident : b > given
    /\ current' = given + 1
    /\ UNCHANGED <<depth, acquired, resident, given, outcome>>

\* The caller has seen the whole batch, or gives it up.
Leave ==
    /\ current # 0
    /\ current' = 0
    /\ given' \in {given, current}
    /\ UNCHANGED <<depth, acquired, resident, outcome>>

\* A buffer that is not being served is released.
Discard ==
    /\ \E b \in resident \ {current} : resident' = resident \ {b}
    /\ UNCHANGED <<depth, acquired, current, given, outcome>>

End ==
    /\ outcome = "running"
    /\ current = 0
    /\ resident = {}
    /\ \/ outcome' = "complete" /\ given = NumBatches
       \/ outcome' = "closed" /\ given < NumBatches
       \/ outcome' = "failed"
    /\ UNCHANGED <<depth, acquired, resident, current, given>>

Next == Acquire \/ Serve \/ Leave \/ Discard \/ End

Spec == Init /\ [][Next]_vars

=============================================================================
