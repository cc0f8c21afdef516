----------------------------- MODULE MCWasmFlow -----------------------------
(***************************************************************************)
(* Graphs of four blocks, numbered in the order their labels are first     *)
(* mentioned (no step depends on what a label is), and graphs of six with  *)
(* nested loops, shared exits, two-entry loops and blocks out of reach.    *)
(***************************************************************************)
EXTENDS WasmFlow

Cond == ConstInt(1, "i1")
Terminator(to) == CASE Len(to) = 0 -> Ret(<<>>)
                    [] Len(to) = 1 -> Br(to[1])
                    [] Len(to) = 2 -> BrCond(Cond, to[1], to[2])
Graph(edges) == [params |-> <<>>, ret |-> "void",
                 blocks |-> [l \in DOMAIN edges |-> [label |-> l, instrs |-> <<Terminator(edges[l])>>]]]
Shapes(T) == {<<>>} \cup {<<l>> : l \in T} \cup {<<l, m>> : l, m \in T}
FirstMention(e, l) ==
    LET mentions == FlattenSeq(e) IN CHOOSE i \in DOMAIN mentions :
        mentions[i] = l /\ \A j \in 1..(i - 1) : mentions[j] # l
InOrder(e) ==
    /\ \A l \in 2..4 : \E k \in 1..(l - 1) : l \in Range(e[k])
    /\ \A l \in 2..3 : FirstMention(e, l) < FirstMention(e, l + 1)
Small == {Graph(e) : e \in {g \in [1..4 -> Shapes({2, 3, 4})] : InOrder(g)}}
Large ==
    {Graph(<< <<2>>, <<3, 6>>, s, t, u, v >>) :
        s \in {<<4>>, <<4, 5>>, <<2, 4>>}, t \in {<<3>>, <<3, 5>>, <<5, 6>>, <<2, 3>>},
        u \in {<<2>>, <<2, 6>>, <<4>>, <<5, 3>>}, v \in {<<>>, <<5>>, <<2, 4>>}}
AllFunctions == Small \cup Large
=============================================================================
