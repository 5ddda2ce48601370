--------------------------- MODULE MCRankBuffers ---------------------------
(* Instances of RankBuffers for TLC.                                       *)
EXTENDS RankBuffers

\* File "A" of rank 0 with three tensors, the last of them empty; file "B" of
\* rank 1 with two, between which there is a gap
MCRanks == 0 .. 2
MCFiles == <<"A", "B">>
MCOwner == [A |-> 0, B |-> 1]
MCContents == [A |-> {"a1", "a2", "a3"}, B |-> {"b1", "b2"}]
F(f, i, j, size) == [file |-> f, start |-> i, stop |-> j, itemsize |-> size]
MCFrame ==
    [a1 |-> F("A", 0, 2, 1), a2 |-> F("A", 2, 4, 2), a3 |-> F("A", 4, 4, 1),
     b1 |-> F("B", 0, 2, 1), b2 |-> F("B", 3, 5, 1)]

C(kind, names, to, upto) == [kind |-> kind, names |-> names, to |-> to, upto |-> upto]
Get(t) == C("broadcast", <<t>>, 0, 0)
Shard(t) == C("scatter", <<t>>, 0, 0)
Push(t, to) == C("push", <<t>>, to, 0)
Multi(ts) == C("multi", ts, 0, 0)
Iter(ts, n) == C("iter", ts, 0, n)

All == <<"a1", "a2", "a3", "b1", "b2">>
MCPrograms ==
    { <<Iter(All, 9)>>,
      <<Iter(All, 1)>>,
      <<Iter(<<"b2", "a3", "a2">>, 9), Get("a3")>>,
      <<Get("a1"), Get("a1"), Shard("a2"), Get("a3"), Get("b2"), Get("b1")>>,
      <<Multi(<<"b1", "a1">>), Multi(<<"a2", "b2">>), Get("a3")>>,
      <<Push("a3", 0), Push("a1", 1), Push("b2", 1), Push("b2", 0), Push("a1", 2)>>,
      <<Push("b2", 1), Multi(<<"a1", "a2">>), Get("b1")>>,
      <<Get("b1"), Push("a1", 2), Iter(<<"a2", "a3">>, 9), Get("b2")>>,
      <<Get("b1"), Get("b2"), Get("b2"), Multi(<<"a1", "b1">>)>> }

\* A whole file in one get_multi_cols
MCProgramsMulti == { <<Multi(<<"b1", "b2">>)>> }

=============================================================================
