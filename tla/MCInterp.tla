------------------------------ MODULE MCInterp ------------------------------
(***************************************************************************)
(* Small modules for the interpreter, in two families.                     *)
(***************************************************************************)
EXTENDS Interp

I32(r)  == Reg(r, "i32")
Ptr(r)  == Reg(r, "ptr")
C32(n)  == ConstInt(n, "i32")
Blk(l, body, term) == [label |-> l, instrs |-> body \o term]
Fun(params, blocks) == [params |-> params, ret |-> "i32", blocks |-> blocks]

(***************************************************************************)
(* DefinednessModules: main has three blocks and a condition read from     *)
(* @g; f has one parameter.  The bodies define and use x, call f with and  *)
(* without its argument and call a function that is not there; some graphs *)
(* branch to a missing block, lack a terminator, or loop.                  *)
(***************************************************************************)
DefX == <<Op("x", "add", "i32", <<C32(1), C32(1)>>)>>
UseX == <<Do("print.i32", "i32", <<I32("x")>>)>>
F    == Fun(<<I32("a")>>, <<Blk(0, <<Do("print.i32", "i32", <<I32("a")>>)>>, <<Ret(<<C32(0)>>)>>)>>)
Cond(l, m) == <<BrCond(Reg("c", "i1"), l, m)>>
LoadC == <<Op("c", "load", "i1", <<GlobalRef("g")>>)>>

DefinednessModules ==
    {[funcs |-> [main |-> Fun(<<>>, <<Blk(0, LoadC \o b0, t0), Blk(1, b1, t1), Blk(2, b2, t2)>>),
                 f |-> F],
      globals |-> [g |-> ConstInt(n, "i1")]] :
        n \in {0, 1},
        b0 \in {<<>>, DefX},
        b1 \in {<<>>, DefX, UseX, <<Call("x", "i32", "f", <<>>)>>,
                <<Call("x", "i32", "f", <<C32(1)>>)>>, <<Call("x", "i32", "nof", <<>>)>>},
        b2 \in {<<>>, UseX},
        t0 \in {<<Br(1)>>, Cond(1, 2)},
        t1 \in {<<Br(1)>>, <<Br(2)>>, <<Br(3)>>, Cond(2, 1), <<>>},
        t2 \in {<<Ret(<<>>)>>, <<Br(1)>>, <<>>}}

(***************************************************************************)
(* MemoryModules: main allocates one element and passes its address to f,  *)
(* which runs up to three of the instructions below and returns an integer *)
(* or a pointer, which main then loads through.                            *)
(***************************************************************************)
MemoryMenu ==
    {Op("q", "alloca", "i32", <<C32(2)>>),
     Op("r", "gep", "i32", <<Ptr("p"), C32(1)>>),
     Op("r", "gep", "i32", <<Ptr("q"), C32(1)>>),
     Do("store", "i32", <<C32(3), Ptr("r")>>),
     Op("x", "load", "i32", <<Ptr("p")>>),
     Op("x", "sdiv", "i32", <<C32(1), I32("x")>>),
     Call("y", "i32", "f", <<Ptr("q")>>),
     Call("y", "i32", "h", <<>>)}

Bodies == {<<i, j>> : i, j \in MemoryMenu} \cup
          {<<i, j, k>> : i \in {x \in MemoryMenu : x.op \in {"alloca", "gep"}},
                         j \in {x \in MemoryMenu : x.op \in {"gep", "load", "store", "call"}},
                         k \in MemoryMenu}

MemoryModules ==
    {[funcs |->
        [main |-> Fun(<<>>,
            <<Blk(0, <<Op("a", "alloca", "i32", <<C32(n)>>),
                       Call("b", ty, "f", <<Ptr("a")>>)>>
                     \o (IF ty = "ptr" THEN <<Op("z", "load", "i32", <<Ptr("b")>>)>> ELSE <<>>)
                     \o <<Op("c", "alloca", "i32", <<>>), Op("z", "load", "i32", <<Ptr("a")>>)>>,
                  <<Ret(<<>>)>>)>>),
         f |-> Fun(<<Ptr("p")>>,
            <<Blk(0, body, <<Ret(<<IF ty = "ptr" THEN ret ELSE C32(0)>>)>>)>>),
         h |-> Fun(<<>>, <<Blk(0, <<Op("w", "alloca", "i32", <<>>), Do("trap", "void", <<>>)>>,
                               <<Ret(<<C32(0)>>)>>)>>)],
      globals |-> [g |-> C32(0)]] :
        n \in {1, 2},
        body \in Bodies,
        ty \in {"i32", "ptr"},
        ret \in {Ptr("p"), Ptr("q")}}

AllModules == DefinednessModules \cup MemoryModules
=============================================================================
