--------------------------- MODULE SmallFunctions ---------------------------
(***************************************************************************)
(* Small functions for the models of the two checkers: up to three blocks, *)
(* one parameter p and one register x.  Each block is a short body and a   *)
(* terminator; the bodies are the ones the analyses tell apart.            *)
(***************************************************************************)
EXTENDS CIR

DefX == Op("x", "add", "i32", <<Reg("p", "i32"), ConstInt(1, "i32")>>)
UseX == Do("print.i32", "i32", <<Reg("x", "i32")>>)
IncX == Op("x", "add", "i32", <<Reg("x", "i32"), ConstInt(1, "i32")>>)

Cond(l, m) == BrCond(Reg("p", "i1"), l, m)
Terms(L) == {Br(l) : l \in L} \cup {Ret(<<>>)}
            \cup {Cond(l, m) : l, m \in L}

Blk(l, body, term) == [label |-> l, instrs |-> Append(body, term)]
Fun(bs) == [params |-> <<Reg("p", "i32")>>, ret |-> "void", blocks |-> bs]

(* Graphs of three blocks whose entry is not a target: joins, loops, self  *)
(* loops and dead blocks.  The entry is the middle label, so the sorted    *)
(* order and the textual order differ.                                     *)
SoundFunctions ==
    {Fun(<<Blk(1, b0, t0), Blk(0, b1, t1), Blk(2, b2, t2)>>) :
        b0 \in {<<>>, <<DefX>>},
        b1 \in {<<>>, <<DefX>>, <<UseX>>},
        b2 \in {<<>>, <<DefX>>, <<UseX>>, <<UseX, DefX>>, <<IncX>>},
        t0 \in {Br(0), Cond(0, 2), Cond(2, 2)},
        t1 \in {Br(0), Br(2), Cond(0, 2), Cond(2, 0), Ret(<<>>)},
        t2 \in {Br(0), Br(2), Cond(0, 2), Cond(2, 0), Ret(<<>>)}}

(* Graphs checkCFG must turn away, one defect or more each.  *)
BrokenFunctions ==
    {Fun(<<Blk(0, b0, t0), Blk(l1, b1, t1)>>) :
        b0 \in {<<>>, <<Br(1)>>}, t0 \in Terms({1, 3}), l1 \in {0, 1},
        b1 \in {<<>>, <<DefX>>}, t1 \in Terms({0, 1}) \cup {UseX}}
    \cup {Fun(<<>>)}
=============================================================================
