------------------------------ MODULE MCNBest ------------------------------
(* A vocabulary with two entries for a, and one each for ab and ba; the    *)
(* edges cost differently in every behaviour. A push_back() of b alone fails*)
(* unless an a is in front of it, and may be made good by an a behind it.  *)
EXTENDS NBest

Entry(name, key, cost) == [name |-> name, key |-> key, cost |-> cost]

Vocabulary ==
    (<<"a">> :> <<Entry("alpha", <<"a">>, 2), Entry("alice", <<"a">>, 1)>>)
    @@ (<<"a", "b">> :> <<Entry("ab", <<"a", "b">>, 3)>>)
    @@ (<<"b", "a">> :> <<Entry("ba", <<"b", "a">>, 1)>>)

Names == {"bos/eos", "alpha", "alice", "ab", "ba"}

\* Alice and ba are cheap; an edge costs one of three, by its cheap ends.
Cheap == {"alice", "ba"}

CostsOfEdges ==
    {[e \in Names \X Names |-> c[Cardinality({k \in 1..2 : e[k] \in Cheap})]]
        : c \in [0..2 -> {0, 2, MaxCost}]}

Chunks == {<<>>, <<"a">>, <<"b">>, <<"a", "b">>}

\* The costs of the run are small enough for the theorems of NBestProofs.
ASSUME CostsFitAssumption == CostsFit
=============================================================================
