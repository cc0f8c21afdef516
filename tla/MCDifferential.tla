--------------------------- MODULE MCDifferential ---------------------------
(***************************************************************************)
(* Modules of two functions for the back ends: blocks in and out of        *)
(* fallthrough order, values used once, twice, in another block or never,  *)
(* loops with and without a register defined anew, slots of both widths,   *)
(* arrays, calls, recursion and traps.                                     *)
(***************************************************************************)
EXTENDS Differential, CIR

I32(r) == Reg(r, "i32")
I1(r)  == Reg(r, "i1")
I64(r) == Reg(r, "i64")
Ptr(r) == Reg(r, "ptr")
C32(n) == ConstInt(n, "i32")
G      == GlobalRef("g")
Bin(d, op, a, b) == Op(d, op, "i32", <<a, b>>)
PrintI(a) == Do("print.i32", "i32", <<a>>)
Store(ty, v, p) == Do("store", ty, <<v, p>>)
Blk(l, body, term) == [label |-> l, instrs |-> Append(body, term)]
Fun(params, bs) == [params |-> params, ret |-> "i32", blocks |-> bs]
Mod(main, f, init) ==
    [funcs |-> [main |-> main, f |-> f], globals |-> [g |-> init], order |-> <<"main", "f">>]

(* An array indexed by the argument between two other slots, a store       *)
(* through the pointer given, a division.                                  *)
Callee ==
    Fun(<<I32("a"), Ptr("p")>>,
        <<Blk(0, <<Op("w", "alloca", "i64", <<>>), Op("q", "alloca", "i32", <<C32(3)>>),
                   Op("u", "alloca", "i32", <<>>), Store("i32", C32(5), Ptr("u")),
                   Store("i64", ConstInt(-3, "i64"), Ptr("w")),
                   Op("e", "gep", "i32", <<Ptr("q"), I32("a")>>), Store("i32", I32("a"), Ptr("e")),
                   Op("v", "load", "i32", <<Ptr("e")>>), Op("o", "load", "i32", <<Ptr("u")>>),
                   Op("k", "load", "i64", <<Ptr("w")>>),
                   Op("j", "ashr", "i64", <<I64("k"), ConstInt(1, "i64")>>), Op("l", "trunc", "i32", <<I64("j")>>),
                   Bin("t", "sub", I32("v"), I32("o")), Bin("h", "sdiv", I32("l"), I32("t")),
                   Store("i32", I32("h"), Ptr("p"))>>,
               Ret(<<I32("v")>>))>>)

(* x is made and used; n counts down in @g, as m if n is not defined anew. *)
Makes == {Bin("x", "add", I32("n"), C32(1)), Bin("x", "sdiv", C32(1), I32("n")),
          Op("x", "neg", "i32", <<I32("n")>>),
          Call("x", "i32", "f", <<I32("n"), Ptr("s")>>)}
UsedIn == {<<>>, <<PrintI(I32("x"))>>, <<Bin("y", "sub", I32("x"), I32("x")), PrintI(I32("y"))>>,
          <<Call("d", "i32", "f", <<I32("x"), Ptr("s")>>)>>,
          <<Bin("y", "add", C32(3), I32("x")), Store("i32", I32("y"), Ptr("s"))>>}
Later == {<<>>, <<PrintI(I32("x"))>>, <<Op("z", "load", "i32", <<Ptr("s")>>), PrintI(I32("z"))>>}
Orders == {<<1, 2, 3>>, <<3, 2, 1>>}

Body(l, m, make, use, later) ==
    CASE l = 1 -> Blk(1, <<Op("n", "load", "i32", <<G>>), make>> \o use, Br(2))
      [] l = 2 -> Blk(2, <<Bin(m, "sub", I32("n"), C32(1)), Store("i32", I32(m), G),
                           Op("c", "icmp.ne", "i32", <<I32(m), C32(0)>>)>>, BrCond(I1("c"), 1, 3))
      [] l = 3 -> Blk(3, later, Ret(<<I32("n")>>))

Straight(o, m, make, use, later, n) ==
    Mod(Fun(<<>>, <<Blk(0, <<Op("s", "alloca", "i32", <<>>)>>, Br(1))>>
                   \o [i \in 1..3 |-> Body(o[i], m, make, use, later)]), Callee, C32(n))
Loops == {Straight(o, m, make, use, later, n) :
            o \in Orders, m \in {"n"}, make \in Makes, use \in UsedIn, later \in Later, n \in {1, 2}}
     \cup {Straight(o, "m", make, use, later, 2) :
            o \in Orders, make \in Makes, use \in UsedIn, later \in Later \ {<<>>}}

(* f calls itself with a frame of its own until its argument is 0.         *)
Descent(n, down, count) ==
    Mod(Fun(<<>>, <<Blk(0, <<Call("r", "i32", "f", <<C32(n)>>)>>, Ret(<<I32("r")>>))>>),
        Fun(<<I32("a")>>,
            <<Blk(0, <<Op("s", "alloca", "i32", <<C32(count)>>), Store("i32", I32("a"), Ptr("s")),
                       Op("c", "icmp.ne", "i32", <<I32("a"), C32(0)>>), Op("b", "not", "i1", <<I1("c")>>)>>,
                     BrCond(I1("b"), 2, 1)),
              Blk(1, <<Bin("e", "sub", I32("a"), C32(down)), Call("r", "i32", "f", <<I32("e")>>)>>, Br(2)),
              Blk(2, <<Op("v", "load", "i32", <<Ptr("s")>>), PrintI(I32("v"))>>, Ret(<<I32("v")>>))>>), C32(0))
Descents == {Descent(n, down, count) : n \in {0, 1, 3, 5}, down \in {0, 1}, count \in {1, 4}}

(* 64-bit arithmetic and conversions on the edges of both widths.          *)
Wide(op, a, conv) ==
    Mod(Fun(<<>>,
            <<Blk(0, <<Op("n", "load", "i32", <<G>>), Op("x", conv, "i64", <<I32("n")>>),
                       Op("y", op, "i64", <<I64("x"), ConstInt(a, "i64")>>),
                       Op("c", "icmp.ult", "i64", <<I64("y"), I64("x")>>),
                       Op("k", "zext", "i32", <<I1("c")>>), PrintI(I32("k")),
                       Op("l", "trunc", "i32", <<I64("y")>>)>>,
                     Ret(<<I32("l")>>))>>), Callee, C32(-128))
Wides == {Wide(op, a, conv) : op \in {"add", "mul", "shl", "ashr", "lshr", "xor", "urem"},
                              a \in {-1, 3, 127, -32768}, conv \in {"sext", "zext"}}

(* A block without a terminator; a function, a block that is not there; an *)
(* index into a global.                                                    *)
Broken == {Mod(Fun(<<>>, <<[label |-> 0, instrs |-> <<PrintI(C32(1))>>]>>), Callee, C32(0)),
           Mod(Fun(<<>>, <<Blk(0, <<Call("x", "i32", "h", <<>>)>>, Br(7))>>), Callee, C32(0)),
           Mod(Fun(<<>>, <<Blk(0, <<>>, Br(7))>>), Callee, C32(0)),
           Mod(Fun(<<>>, <<Blk(0, <<Op("e", "gep", "i32", <<G, C32(0)>>)>>, Ret(<<C32(1)>>))>>), Callee, C32(0))}

(* f spins while its slot, which it has not stored to, holds a 1 that an   *)
(* earlier call may have left there.                                       *)
Stale ==
    Mod(Fun(<<>>, <<Blk(0, <<Call("x", "i32", "f", <<>>), Call("y", "i32", "f", <<>>)>>, Ret(<<I32("y")>>))>>),
        Fun(<<>>,
            <<Blk(0, <<Op("s", "alloca", "i32", <<>>)>>, Br(1)),
              Blk(1, <<Op("v", "load", "i32", <<Ptr("s")>>), Op("c", "icmp.ne", "i32", <<I32("v"), C32(0)>>)>>,
                     BrCond(I1("c"), 1, 2)),
              Blk(2, <<Store("i32", C32(1), Ptr("s"))>>, Ret(<<I32("v")>>))>>), C32(0))

(* A remainder, and a call of a void function.                             *)
Rem(op, d) ==
    Mod(Fun(<<>>, <<Blk(0, <<Op("n", "load", "i32", <<G>>), PrintI(I32("n")), Bin("r", op, I32("n"), C32(d)),
                             PrintI(I32("r")), Call(NoName, "void", "f", <<>>)>>, Ret(<<I32("r")>>))>>),
        [params |-> <<>>, ret |-> "void", blocks |-> <<Blk(0, <<>>, Ret(<<>>))>>], C32(-128))
Rems == {Rem(op, d) : op \in {"srem", "sdiv"}, d \in {-1, 0, 3}}

(* An array indexed by an i64, as a[n] with n: long is.                    *)
LongIndex ==
    Mod(Fun(<<>>, <<Blk(0, <<Op("q", "alloca", "i32", <<C32(2)>>), Op("n", "load", "i32", <<G>>),
                             Op("l", "sext", "i64", <<I32("n")>>),
                             Op("e", "gep", "i32", <<Ptr("q"), I64("l")>>),
                             Store("i32", I32("n"), Ptr("e")), Op("v", "load", "i32", <<Ptr("e")>>)>>,
                         Ret(<<I32("v")>>))>>), Callee, C32(1))

(* What LLVM leaves undefined: a count as wide as the value, an index past *)
(* either end, written or read.                                            *)
Guarded(body, n) ==
    Mod(Fun(<<>>, <<Blk(0, <<Op("q", "alloca", "i32", <<C32(3)>>), Op("n", "load", "i32", <<G>>)>>
                           \o body \o <<PrintI(I32("x"))>>, Ret(<<I32("x")>>))>>), Callee, C32(n))
Shifts == {Guarded(<<PrintI(I32("n")), Bin("x", op, C32(-100), b)>>, n) :
              op \in {"shl", "ashr", "lshr"}, b \in {I32("n"), C32(9)}, n \in {-1, 3, 8}}
Indexes == {Guarded(<<PrintI(I32("n")), Op("e", "gep", "i32", <<Ptr("q"), i>>), Store("i32", I32("n"), Ptr("e")),
                      Op("h", "gep", "i32", <<Ptr("q"), I32("n")>>), Op("x", "load", "i32", <<Ptr("h")>>)>>, n) :
              i \in {I32("n"), C32(2), C32(-1)}, n \in {-1, 0, 2, 3}}

(* Truth values compared, kept in an array; an array with a guard's name.  *)
Bools(op) ==
    Guarded(<<Op("a", "icmp.eq", "i32", <<I32("n"), C32(0)>>), Op("b", "icmp.ne", "i32", <<I32("n"), C32(0)>>),
              Op("c", op, "i1", <<I1("a"), I1("b")>>), Op("x", "zext", "i32", <<I1("c")>>)>>, 1)
Flags ==
    Guarded(<<Op("t", "alloca", "i1", <<C32(3)>>), Op("e", "gep", "i1", <<Ptr("t"), C32(1)>>),
              Store("i1", ConstInt(1, "i1"), Ptr("e")), Op("c", "load", "i1", <<Ptr("e")>>),
              Op("x", "zext", "i32", <<I1("c")>>)>>, 1)
Namesake == Guarded(<<Op("g.1", "alloca", "i32", <<C32(1)>>), Bin("x", "srem", C32(7), I32("n"))>>, 2)
Truths == {Bools(op) : op \in {"icmp.eq", "icmp.ult", "icmp.slt", "icmp.sge"}} \cup {Flags, Namesake}

(* What the text types anew: the index of an array of i64, a long and a    *)
(* truth value passed as literals, a literal converted; and a register no  *)
(* instruction defines, in a block nothing branches to.                    *)
LongArray ==
    Guarded(<<Op("t", "alloca", "i64", <<C32(2)>>), Op("e", "gep", "i64", <<Ptr("t"), C32(1)>>),
              Op("l", "sext", "i64", <<I32("n")>>), Store("i64", I64("l"), Ptr("e")),
              Op("m", "load", "i64", <<Ptr("e")>>), Op("x", "trunc", "i32", <<I64("m")>>)>>, -5)
PassesLiterals(a, b) ==
    Mod(Fun(<<>>, <<Blk(0, <<Call("x", "i32", "f", <<ConstInt(a, "i64"), ConstInt(b, "i1")>>)>>, Ret(<<I32("x")>>))>>),
        Fun(<<I64("l"), I1("b")>>,
            <<Blk(0, <<>>, BrCond(I1("b"), 1, 2)),
              Blk(1, <<Op("v", "trunc", "i32", <<I64("l")>>), PrintI(I32("v"))>>, Br(2)),
              Blk(2, <<Op("c", "icmp.slt", "i64", <<I64("l"), ConstInt(0, "i64")>>),
                       Op("k", "zext", "i32", <<I1("c")>>)>>, Ret(<<I32("k")>>))>>), C32(0))
ConvertsLiterals(conv, ty, a) ==
    Guarded(<<Op("l", conv, "i64", <<ConstInt(a, ty)>>), Op("x", "trunc", "i32", <<I64("l")>>)>>, 0)
Unreached ==
    Mod(Fun(<<>>, <<Blk(0, <<Bin("x", "add", C32(2), C32(3))>>, Br(2)),
                    Blk(1, <<PrintI(I32("u"))>>, Br(2)),
                    Blk(2, <<PrintI(I32("x"))>>, Ret(<<I32("x")>>))>>), Callee, C32(0))
Typed == {LongArray, Unreached} \cup {PassesLiterals(a, b) : a \in {-3, 100}, b \in {0, 1}}
         \cup {ConvertsLiterals(conv, ty, 1) : conv \in {"sext", "zext"}, ty \in {"i32", "i1"}}
         \cup {ConvertsLiterals("sext", "i32", -7)}

AllModules == Loops \cup Descents \cup Wides \cup Rems \cup Broken \cup {Stale, LongIndex}
                    \cup Shifts \cup Indexes \cup Truths \cup Typed
=============================================================================
