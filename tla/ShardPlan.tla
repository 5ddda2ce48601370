------------------------------ MODULE ShardPlan ------------------------------
(***************************************************************************)
(* plan_shards (src/fastsafetensors/saver.py): the tensors of a save are   *)
(* placed largest first into the shard that holds least, and lie one       *)
(* behind the other in it.  Tensors are numbered in the order given; a     *)
(* plan is made from their sizes.                                          *)
(***************************************************************************)
EXTENDS Naturals, Sequences, FiniteSets

\* sorted(entries, key=-nbytes) is stable: Before(size, i, j) when i comes first
Before(size, i, j) == size[i] > size[j] \/ (size[i] = size[j] /\ i < j)

\* The entry with r others before it
Nth(size, r) ==
    CHOOSE i \in DOMAIN size :
        Cardinality({j \in DOMAIN size : Before(size, j, i)}) = r

\* loads.index(min(loads)): the first of the emptiest shards
Emptiest(load) ==
    CHOOSE k \in DOMAIN load :
        \A j \in DOMAIN load :
            load[k] < load[j] \/ (load[k] = load[j] /\ k <= j)

\* The plan after the r first entries: the shard of each, where it begins in
\* its shard's data, and the bytes in each shard
PlanShards(size, n) ==
    LET Empty == [shard |-> [i \in DOMAIN size |-> 0],
                  begin |-> [i \in DOMAIN size |-> 0],
                  load  |-> [k \in 1 .. n |-> 0]]
        Step(plan, i) ==
            LET k == Emptiest(plan.load) IN
            [shard |-> [plan.shard EXCEPT ![i] = k],
             begin |-> [plan.begin EXCEPT ![i] = plan.load[k]],
             load  |-> [plan.load EXCEPT ![k] = @ + size[i]]]
        Plan[r \in 0 .. Len(size)] ==
            IF r = 0 THEN Empty ELSE Step(Plan[r - 1], Nth(size, r - 1))
    IN  Plan[Len(size)]

EntriesOf(plan, k) == {i \in DOMAIN plan.shard : plan.shard[i] = k}

=============================================================================
