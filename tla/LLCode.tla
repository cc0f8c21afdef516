------------------------------- MODULE LLCode -------------------------------
(***************************************************************************)
(* From CIR to LLVM IR, src/src/backend/llvm/EmitLL.cpp, with the guards   *)
(* of Guards.cpp for what LLVM leaves undefined and CIR traps on.  A line  *)
(* of LLVM is a record of the shape of a CIR instruction: every operand    *)
(* carries the type it is printed with, and a guard ends the block it is   *)
(* in and opens the next.  Temporaries are named g.1, g.2, ... as the code *)
(* names them; "%" and "@" are dropped.                                    *)
(***************************************************************************)
EXTENDS Arith, CFG, SequencesExt

(* Labels: the ones of CIR and the ones of the guards. *)
BlockLabel(l) == <<"block", l>>
TrapLabel(n)  == <<"trap", n>>
ContLabel(n)  == <<"cont", n>>

(* llvmConstant and value(): an operand is spelled as the type it is read  *)
(* as says, a literal reduced to it and one of type i1 as true or false;   *)
(* the instruction prints the type before it, mostly the same.             *)
Spelled(v, context) ==
    CASE v.k # "int"          -> v
      [] context = "i1"       -> [v EXCEPT !.k = "truth", !.v = @ % 2]
      [] context \in IntTypes -> [v EXCEPT !.v = WrapInt(@, context)]
      [] OTHER                -> v
Printed(v, context, ty) ==
    IF v.k = "global" THEN v ELSE [Spelled(v, context) EXCEPT !.ty = ty]
As(v, context) == Printed(v, context, context)

(* FunctionEmitter: the blocks so far, and the counter both temporaries    *)
(* and guard labels are numbered from.                                     *)
Line(em, ins)  == [em EXCEPT !.blocks[Len(em.blocks)].instrs = Append(@, ins)]
Lines(em, seq) == [em EXCEPT !.blocks[Len(em.blocks)].instrs = @ \o seq]
Open(em, l)    == [em EXCEPT !.blocks = Append(@, [label |-> l, instrs |-> <<>>])]
Tmp(em, k)     == "g." \o ToString(em.n + k)
Counted(em, k) == [em EXCEPT !.n = @ + k]

CallTrap    == Do("llvm.trap", "void", <<>>)
Unreachable == Do("unreachable", "void", <<>>)
(* Mutant: the arms of the guard are the wrong way round. *)
TrapBranchOnFalse(em, cond) ==
    LET n == em.n + 1
    IN Open(Lines(Open(Line(Counted(em, 1), BrCond(cond, ContLabel(n), TrapLabel(n))), TrapLabel(n)),
                  <<CallTrap, Unreachable>>), ContLabel(n))
TrapBranch(em, cond) ==
    LET n == em.n + 1
    IN Open(Lines(Open(Line(Counted(em, 1), BrCond(cond, TrapLabel(n), ContLabel(n))), TrapLabel(n)),
                  <<CallTrap, Unreachable>>), ContLabel(n))
-----------------------------------------------------------------------------
(* guardDivision, rows 1 and 2: a divisor known to be neither 0 nor -1     *)
(* needs no guard.  Mutant: one known not to be 0 needs none.              *)
Minimum(ty) == ConstInt(MinSigned(ty), ty)
MinusOne(ty) == ConstInt(-1, ty)
Zero(ty) == ConstInt(0, ty)
GuardDivisionByZero(em, op, ty, lhs, rhs, rhsText) ==
    IF rhs.k = "int" /\ WrapInt(rhs.v, ty) # 0 THEN em
    ELSE TrapBranch(Counted(Line(em, Op(Tmp(em, 1), "icmp.eq", ty, <<rhsText, Zero(ty)>>)), 1),
                    Reg(Tmp(em, 1), "i1"))
GuardDivision(em, op, ty, lhs, rhs, rhsText) ==
    LET zero == Op(Tmp(em, 1), "icmp.eq", ty, <<rhsText, Zero(ty)>>)
        overflow ==
            <<Op(Tmp(em, 2), "icmp.eq", ty, <<lhs, Minimum(ty)>>),
              Op(Tmp(em, 3), "icmp.eq", ty, <<rhsText, MinusOne(ty)>>),
              Op(Tmp(em, 4), "and", "i1", <<Reg(Tmp(em, 2), "i1"), Reg(Tmp(em, 3), "i1")>>),
              Op(Tmp(em, 5), "or", "i1", <<Reg(Tmp(em, 1), "i1"), Reg(Tmp(em, 4), "i1")>>)>>
    IN IF rhs.k = "int" /\ WrapInt(rhs.v, ty) \notin {0, -1} THEN em
       ELSE IF op \in {"sdiv", "srem"}
       THEN TrapBranch(Counted(Lines(em, <<zero>> \o overflow), 5), Reg(Tmp(em, 5), "i1"))
       ELSE TrapBranch(Counted(Line(em, zero), 1), Reg(Tmp(em, 1), "i1"))

(* maskShiftCount, row 3: the count as it is shifted by, and what comes    *)
(* before.                                                                 *)
MaskShift(em, ty, count) ==
    IF count.k = "int"
    THEN [em |-> em, by |-> ConstInt(WrapInt(ShiftCount(count.v, ty), ty), ty)]
    ELSE [em |-> Counted(Line(em, Op(Tmp(em, 1), "and", ty,
                                     <<As(count, ty), ConstInt(IntWidth[ty] - 1, ty)>>)), 1),
          by |-> Reg(Tmp(em, 1), ty)]

(* guardBounds, row 7: the comparison is unsigned, a negative index is a   *)
(* large one.                                                              *)
GuardBounds(em, extent, index) ==
    IF index.k = "int" /\ index.v \in 0..(extent - 1) THEN em
    ELSE TrapBranch(Counted(Line(em, Op(Tmp(em, 1), "icmp.uge", "i32",
                                        <<As(index, "i32"), ConstInt(extent, "i32")>>)), 1),
                    Reg(Tmp(em, 1), "i1"))

(* extents_: the sizes of this function's arrays, the last of a name.      *)
Sized(fn) ==
    SelectSeq(FlattenSeq([i \in DOMAIN fn.blocks |-> fn.blocks[i].instrs]),
              LAMBDA ins : /\ ins.op = "alloca" /\ ins.dest # NoName
                           /\ ins.args # <<>> /\ ins.args[1].k = "int")
HasExtent(fn, v) == v.k = "reg" /\ \E ins \in Range(Sized(fn)) : ins.dest = v.name
Extent(fn, v)    == Last(SelectSeq(Sized(fn), LAMBDA ins : ins.dest = v.name)).args[1].v
-----------------------------------------------------------------------------
(* FunctionEmitter::instruction.  Every operand is read as the type of the *)
(* instruction but for the ones named: addresses, an index, the operand of *)
(* a conversion, the arguments of a call.                                  *)
Plain(ins) == [ins EXCEPT !.args = [i \in DOMAIN ins.args |-> As(ins.args[i], ins.ty)]]
EmitBranch(ins) == [Plain(ins) EXCEPT !.labels = [i \in DOMAIN ins.labels |-> BlockLabel(ins.labels[i])]]
(* The element count is printed as an i32, but read as an element.         *)
EmitAlloca(ins) ==
    [ins EXCEPT !.args = [i \in DOMAIN ins.args |-> Printed(ins.args[i], ins.ty, "i32")]]
EmitLoad(ins)  == [ins EXCEPT !.args = <<Printed(ins.args[1], ins.ty, "ptr")>>]
EmitStore(ins) ==
    [ins EXCEPT !.args = <<As(ins.args[1], ins.ty), Printed(ins.args[2], ins.ty, "ptr")>>]
EmitGep(ins) ==
    [ins EXCEPT !.args = <<Printed(ins.args[1], ins.ty, "ptr"), As(ins.args[2], "i32")>>]
EmitNeg(ins) == Op(ins.dest, "sub", ins.ty, <<Zero(ins.ty), As(ins.args[1], ins.ty)>>)
EmitNot(ins) ==
    Op(ins.dest, "xor", ins.ty,
       <<As(ins.args[1], ins.ty), As(ConstInt(-1, ins.ty), ins.ty)>>)
EmitConversion(ins) ==
    [ins EXCEPT !.args = <<Printed(ins.args[1], ins.ty, ins.args[1].ty)>>]
(* call(): arguments are read as the callee's parameters.                  *)
ParamTypes(m, ins) ==
    IF ins.callee \in DOMAIN m.funcs
    THEN [i \in DOMAIN m.funcs[ins.callee].params |-> m.funcs[ins.callee].params[i].ty]
    ELSE [i \in DOMAIN ins.args |-> ins.args[i].ty]
EmitCall(m, ins) ==
    [ins EXCEPT !.args = [i \in DOMAIN ins.args |-> As(ins.args[i], ParamTypes(m, ins)[i])]]

Rename(em, ins, rhs) == Line(em, Op(ins.dest, ins.op, ins.ty, <<As(ins.args[1], ins.ty), rhs>>))
EmitShift(em, ins) ==
    LET masked == MaskShift(em, ins.ty, ins.args[2]) IN Rename(masked.em, ins, masked.by)
EmitDivision(em, ins) ==
    LET rhs == As(ins.args[2], ins.ty)
    IN Rename(GuardDivision(em, ins.op, ins.ty, As(ins.args[1], ins.ty), ins.args[2], rhs), ins, rhs)

(* What the emitter refuses (LLVM01) among integer instructions, printing  *)
(* nothing for it: a call with the wrong number of arguments, a conversion,*)
(* shift or division that makes no integer.                                *)
Mismatched(m, ins) == ins.op = "call" /\ Len(ParamTypes(m, ins)) # Len(ins.args)
Refused(m, ins) ==
    \/ Mismatched(m, ins)
    \/ ins.op \in ConvOps \cup ShiftOps \cup DivOps /\ ins.ty \notin IntTypes

EmitInstruction(m, fn, em, ins) ==
    CASE Refused(m, ins)       -> em
      [] ins.op \in {"br", "br.cond"} -> Line(em, EmitBranch(ins))
      [] ins.op = "trap"       -> Line(em, CallTrap)
      [] ins.op = "print.i32"  -> Line(em, Do("printf", "i32", <<Printed(ins.args[1], ins.ty, "i32")>>))
      [] ins.op = "call"       -> Line(em, EmitCall(m, ins))
      [] ins.op = "alloca"     -> Line(em, EmitAlloca(ins))
      [] ins.op = "load"       -> Line(em, EmitLoad(ins))
      [] ins.op = "store"      -> Line(em, EmitStore(ins))
      [] ins.op = "gep"        ->
            Line(IF HasExtent(fn, ins.args[1])
                 THEN GuardBounds(em, Extent(fn, ins.args[1]), ins.args[2]) ELSE em, EmitGep(ins))
      [] ins.op = "neg"        -> Line(em, EmitNeg(ins))
      [] ins.op = "not"        -> Line(em, EmitNot(ins))
      [] ins.op \in ConvOps    -> Line(em, EmitConversion(ins))
      [] ins.op \in DivOps     -> EmitDivision(em, ins)
      [] ins.op \in ShiftOps   -> EmitShift(em, ins)
      [] OTHER                 -> Line(em, Plain(ins))

(* emit: the parameters as they are, block after block.                    *)
EmitBlock(m, fn, em, b) ==
    FoldLeft(LAMBDA e, ins : EmitInstruction(m, fn, e, ins), Open(em, BlockLabel(b.label)), b.instrs)
EmitLLFunction(m, fn) ==
    [params |-> fn.params, ret |-> fn.ret,
     blocks |-> FoldLeft(LAMBDA e, b : EmitBlock(m, fn, e, b), [blocks |-> <<>>, n |-> 0], fn.blocks).blocks]

(* emitModule: a global has its initial value reduced to its type.         *)
EmitLL(m) ==
    [ok      |-> \A f \in DOMAIN m.funcs : \A ins \in Instructions(m.funcs[f]) : ~Refused(m, ins),
     funcs   |-> [f \in DOMAIN m.funcs |-> EmitLLFunction(m, m.funcs[f])],
     globals |-> [g \in DOMAIN m.globals |-> As(m.globals[g], m.globals[g].ty)]]
=============================================================================
