--------------------------- MODULE MCBudgetedLoad ---------------------------
(* Instances of BudgetedLoad for TLC.                                      *)
EXTENDS BudgetedLoad

\* Three files: an empty tensor in the first, tensors that do not stay in the
\* first two, experts in all of them
T(i, j, e, s) == [start |-> i, stop |-> j, expert |-> e, stays |-> s]
FileA == <<T(0, 2, -1, TRUE), T(2, 2, -1, TRUE), T(2, 3, 0, TRUE), T(3, 6, -1, FALSE)>>
FileB == <<T(0, 1, 1, FALSE), T(1, 3, 2, TRUE), T(3, 4, -1, TRUE)>>
FileC == <<T(0, 3, -1, TRUE), T(3, 4, 0, TRUE), T(4, 5, 1, TRUE), T(5, 6, 2, TRUE)>>
Even(n, bytes) == [k \in 1 .. n |-> T((k - 1) * bytes, k * bytes, -1, TRUE)]
Stay(f) == [k \in DOMAIN f |-> [f[k] EXCEPT !.stays = TRUE]]

NoFilter == [experts |-> 3, size |-> 1, rank |-> 0]
L(files, ep, group, limited, memory, copier, cap, alloc, mode, queue) ==
    [files |-> files, ep |-> ep, group |-> group, limited |-> limited,
     memory |-> memory, fixed |-> copier[1], multiplier |-> copier[2],
     overhead |-> copier[3], cap |-> cap, asBudget |-> alloc,
     accumulate |-> mode = "keep", borrowed |-> mode = "borrow",
     queue |-> queue, mergeGap |-> 1, runTensors |-> 2]

\* fixed, multiplier and overhead of nogds, gds and unified
Copiers == {<<0, 1, 0>>, <<1, 1, 1>>, <<1, 2, 0>>}
Many == 100

Local ==
    { L(fs, ep, 1, TRUE, m, c, cap, alloc, mode, q) :
        fs \in {<<FileA, FileB>>, <<FileC, FileB, FileA>>},
        ep \in {NoFilter, [experts |-> 3, size |-> 2, rank |-> 0]},
        m \in {3, 9, 13, 16, 17, 22, 30}, c \in Copiers, cap \in {3, Many},
        alloc \in BOOLEAN, mode \in {"keep", "move", "borrow"}, q \in {-1, 0, 1} }
Unlimited ==
    { L(fs, [experts |-> 3, size |-> 2, rank |-> 1], 1, FALSE, 0, <<0, 1, 0>>,
        cap, FALSE, "keep", q) :
        fs \in {<<FileA, FileB>>, <<FileC, FileA>>}, cap \in {2, 3, 5}, q \in {-1, 0} }
Group(mode) ==
    { L(fs, NoFilter, 2, TRUE, m, c, Many, alloc, mode, q) :
        fs \in {<<Stay(FileA), Stay(FileB)>>, <<FileC, Stay(FileB), Stay(FileA)>>,
               <<Even(4, 3), Even(4, 1)>>},
        m \in {9, 14, 18, 22, 26}, c \in Copiers, alloc \in BOOLEAN, q \in {-1, 0, 1} }

MCLoads == Local \cup Unlimited \cup Group("keep")
\* Tensors that are received one by one
MCReceives == { [l EXCEPT !.runTensors = 1] : l \in Group("move") }

=============================================================================
