---------------------------- MODULE MCOptimizer ----------------------------
(***************************************************************************)
(* Functions for the optimiser: an entry block that branches on a value,   *)
(* two blocks and an exit, with bodies from a menu of operations that      *)
(* fold, copy, trap, or depend on one another.                             *)
(***************************************************************************)
EXTENDS Optimizer

I32(r) == Reg(r, "i32")
C32(n) == ConstInt(n, "i32")
Blk(l, body, term) == [label |-> l, instrs |-> Append(body, term)]
Fun(bs) == [params |-> <<I32("p")>>, ret |-> "i32", blocks |-> bs]

(* x is a constant, a copy or a value; y is made from x. *)
XBodies == {<<Op("x", "add", "i32", <<C32(1), C32(2)>>)>>,
            <<Op("x", "mul", "i32", <<C32(1), I32("p")>>)>>,
            <<Op("x", "call", "i32", <<I32("p")>>)>>}
YBodies == {<<>>,
            <<Op("y", "add", "i32", <<I32("x"), C32(0)>>)>>,
            <<Op("y", "sub", "i32", <<I32("x"), I32("x")>>), Op("z", "or", "i32", <<I32("y"), C32(0)>>)>>,
            <<Op("y", "sdiv", "i32", <<I32("x"), C32(0)>>)>>,
            <<Op("x", "and", "i32", <<I32("x"), C32(-1)>>)>>,
            <<Op("p", "add", "i32", <<I32("x"), C32(0)>>)>>}
ZBodies == {<<>>,
            <<Do("print.i32", "i32", <<I32("y")>>)>>,
            <<Do("print.i32", "i32", <<I32("x")>>)>>,
            <<Do("print.i32", "i32", <<I32("x")>>), Op("x", "sub", "i32", <<I32("p"), C32(0)>>)>>,
            <<Op("c", "icmp.slt", "i32", <<I32("x"), C32(2)>>)>>}
Conds == {Reg("c", "i1"), ConstInt(1, "i1"), ConstInt(2, "i1")}

(* In path order, with a loop between the second and the third block. *)
Ordered ==
    {Fun(<<Blk(0, x, t0), Blk(1, y, Br(2)), Blk(2, z, t2), Blk(3, <<>>, Ret(<<I32("p")>>))>>) :
        x \in XBodies, y \in YBodies, z \in ZBodies,
        t0 \in {Br(1)} \cup {BrCond(c, 1, 2) : c \in Conds \ {Reg("c", "i1")}},
        t2 \in {Br(3)} \cup {BrCond(c, 1, 3) : c \in Conds}}

(* The block that uses x and y is listed before the ones that define them. *)
Reordered ==
    {Fun(<<Blk(0, <<>>, Br(3)), Blk(1, z, Ret(<<r>>)), Blk(2, y, Br(1)), Blk(3, x, Br(2))>>) :
        x \in XBodies, y \in YBodies, z \in ZBodies,
        r \in {I32("p"), I32("x"), I32("y")}}

(* A branch to a block that is not there, two blocks of one label, and an  *)
(* empty block no path enters.                                             *)
Broken ==
    {Fun(<<Blk(0, x, Ret(<<>>)), [label |-> 1, instrs |-> <<>>]>>) : x \in XBodies} \cup
    {Fun(<<Blk(0, x, BrCond(Reg("c", "i1"), 1, l)), Blk(1, <<>>, Br(2)), Blk(m, <<>>, Ret(<<>>))>>) :
        x \in XBodies, l \in {1, 5}, m \in {1, 2}}

(* Two copies in a ring of blocks no path enters. *)
Rings ==
    {Fun(<<Blk(0, x, Ret(<<>>)),
           Blk(1, <<Op("y", "add", "i32", <<I32("z"), C32(0)>>)>>, Br(2)),
           Blk(2, <<Op("z", "or", "i32", <<C32(0), I32("y")>>)>>, Br(1))>>) : x \in XBodies}

AllFunctions == Ordered \cup Reordered \cup Broken \cup Rings
=============================================================================
