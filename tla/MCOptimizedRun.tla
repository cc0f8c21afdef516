--------------------------- MODULE MCOptimizedRun ---------------------------
(***************************************************************************)
(* Modules whose main reads @g, so that not everything folds, with widths  *)
(* of 4 and 8 bits.                                                        *)
(***************************************************************************)
EXTENDS OptimizedRun, CIR

I32(r) == Reg(r, "i32")
I1(r)  == Reg(r, "i1")
C32(n) == ConstInt(n, "i32")
Bin(d, op, a, b) == Op(d, op, "i32", <<a, b>>)
PrintI(a) == Do("print.i32", "i32", <<a>>)
Blk(l, body, term) == [label |-> l, instrs |-> Append(body, term)]
Fun(params, bs) == [params |-> params, ret |-> "i32", blocks |-> bs]
LoadG == Op("n", "load", "i32", <<GlobalRef("g")>>)

(***************************************************************************)
(* Straight: x from every operation on two operands, some of them @g and   *)
(* some out of their type's range, then a value made from x, a branch on a *)
(* comparison, and a call of a callee that folds too.                      *)
(***************************************************************************)
Xs == {Bin("x", op, a, b) :
          op \in {"add", "mul", "sdiv", "srem", "udiv", "shl", "ashr", "lshr", "and", "xor"},
          a \in {C32(7), C32(-8), C32(16), I32("n")}, b \in {C32(0), C32(1), C32(-1), C32(18)}}
Ys == {Bin("y", "add", I32("x"), C32(0)), Bin("y", "sdiv", C32(3), I32("x")),
       Bin("y", "sub", I32("x"), I32("n")), Call("y", "i32", "f", <<I32("x")>>)}
Callee(n) == Fun(<<I32("a")>>,
                 <<Blk(0, <<Bin("b", "mul", I32("a"), C32(1)), Bin("d", "srem", C32(1), C32(n)),
                            PrintI(I32("b"))>>, Ret(<<I32("b")>>))>>)

Straight ==
    {[funcs |->
        [main |-> Fun(<<>>,
            <<Blk(0, <<LoadG, x, y, PrintI(I32("x")),
                       Op("c", cmp, "i32", <<I32("y"), C32(2)>>)>>, BrCond(I1("c"), 2, 1)),
              Blk(1, <<PrintI(I32("y"))>>, Ret(<<I32("y")>>)),
              Blk(2, <<PrintI(C32(5))>>, Ret(<<C32(5)>>))>>),
         f |-> Callee(IF cmp = "icmp.slt" THEN 0 ELSE 2)],
      globals |-> [g |-> C32(3)]] : x \in Xs, y \in Ys, cmp \in {"icmp.slt", "icmp.ult"}}

(***************************************************************************)
(* Loops: @g counts down; the body folds, traps, or does neither, and some *)
(* conditions are constant once folded.                                    *)
(***************************************************************************)
LoopBodies ==
    {<<>>, <<Bin("t", "sdiv", C32(1), C32(0))>>, <<Bin("t", "udiv", C32(9), C32(2)), PrintI(I32("t"))>>,
     <<Bin("t", "sub", I32("m"), C32(1)), Bin("u", "sdiv", C32(1), I32("t")), PrintI(I32("t"))>>}
Loops ==
    {[funcs |->
        [main |-> Fun(<<>>,
            <<Blk(0, <<Op("k", cmp, "i32", <<C32(a), C32(1)>>)>>, BrCond(I1("k"), 1, 3)),
              Blk(1, <<LoadG, Op("c", "icmp.sgt", "i32", <<I32("n"), C32(0)>>)>>,
                     BrCond(c, 2, 3)),
              Blk(2, <<Bin("m", "sub", I32("n"), C32(1)),
                       Do("store", "i32", <<I32("m"), GlobalRef("g")>>)>> \o body, Br(1)),
              Blk(3, <<PrintI(C32(9))>>, Ret(<<C32(0)>>))>>)],
      globals |-> [g |-> C32(n)]] :
        cmp \in {"icmp.eq", "icmp.uge"}, a \in {1, 17, -1, 0}, n \in {0, 2},
        c \in {I1("c"), ConstInt(0, "i1")}, body \in LoopBodies}

AllModules == Straight \cup Loops
=============================================================================
