-------------------------------- MODULE CIR --------------------------------
(***************************************************************************)
(* The shape of a CIR function (src/src/cir/Function.cpp, Instruction.cpp, *)
(* Value.cpp, Opcode.cpp): a sequence of basic blocks, each a label and a  *)
(* sequence of instructions.  The Python prototype (src/src/cir/ir.py)     *)
(* keeps the same shape.                                                   *)
(*                                                                         *)
(* Labels are natural numbers standing for label names; where code sorts   *)
(* the names (the Python structurer), numeric order is that order.         *)
(* Register, function and global names are any values.  An instruction     *)
(* carries every field of the Instruction struct; the ones an opcode does  *)
(* not use hold NoName or an empty sequence.                               *)
(***************************************************************************)
EXTENDS Integers, Sequences, FiniteSets, Functions

NoName == "none"

(* Operands: a virtual register, an integer literal, or a global's address. *)
Reg(r, ty)      == [k |-> "reg", name |-> r, v |-> 0, ty |-> ty]
ConstInt(n, ty) == [k |-> "int", name |-> NoName, v |-> n, ty |-> ty]
GlobalRef(g)    == [k |-> "global", name |-> g, v |-> 0, ty |-> "ptr"]

(* The opcodes, by the columns of the OpInfo table. *)
IntBinaryOps == {"add", "sub", "mul", "sdiv", "udiv", "srem", "urem",
                 "and", "or", "xor", "shl", "ashr", "lshr"}
FloatBinaryOps == {"fadd", "fsub", "fmul", "fdiv"}
IntCompares == {"icmp.eq", "icmp.ne", "icmp.slt", "icmp.sle", "icmp.sgt",
                "icmp.sge", "icmp.ult", "icmp.ule", "icmp.ugt", "icmp.uge"}
FloatCompares == {"fcmp.oeq", "fcmp.one", "fcmp.olt", "fcmp.ole", "fcmp.ogt", "fcmp.oge"}
Compares == IntCompares \cup FloatCompares
IntConversions == {"sext", "zext", "trunc"}
Conversions == IntConversions \cup {"sitofp", "fptosi"}
Terminators == {"br", "br.cond", "ret"}
Prints == {"print.i32", "print.f64"}

(* hasSideEffect: what dead-code elimination may never delete. *)
SideEffecting == {"store", "call", "trap"} \cup Prints

(* resultType: comparisons define an i1, alloca and gep a pointer. *)
DefinesNothing == Terminators \cup Prints \cup {"store", "trap"}
ResultType(op, printed) ==
    CASE op \in DefinesNothing     -> "void"
      [] op \in Compares           -> "i1"
      [] op \in {"alloca", "gep"}  -> "ptr"
      [] OTHER                     -> printed

(* Instructions.  Op builds a value-producing one, Do one without a result. *)
Op(dest, op, ty, args) ==
    [op |-> op, ty |-> ty, dest |-> dest, dty |-> ResultType(op, ty), args |-> args,
     labels |-> <<>>, callee |-> NoName]
Do(op, ty, args)    == Op(NoName, op, ty, args)
Call(dest, ty, f, args) == [Op(dest, "call", ty, args) EXCEPT !.callee = f]
Br(l)            == [Do("br", "void", <<>>) EXCEPT !.labels = <<l>>]
BrCond(c, l1, l2) == [Do("br.cond", "i1", <<c>>) EXCEPT !.labels = <<l1, l2>>]
Ret(args) == Do("ret", IF args = <<>> THEN "void" ELSE args[1].ty, args)

IsTerminator(ins) == ins.op \in Terminators
ResultTy(ins) == ResultType(ins.op, ins.ty)

(* The register an instruction writes and the registers it reads. *)
Dest(ins) == IF ins.dest = NoName THEN {} ELSE {ins.dest}
Uses(ins) == {a.name : a \in {x \in Range(ins.args) : x.k = "reg"}}

HasTerminator(block) ==
    block.instrs # <<>> /\ IsTerminator(block.instrs[Len(block.instrs)])

(* BasicBlock::successors: the labels of the terminator, none without one. *)
BlockSuccessors(block) ==
    IF HasTerminator(block) THEN block.instrs[Len(block.instrs)].labels ELSE <<>>

Labels(fn) == {fn.blocks[i].label : i \in DOMAIN fn.blocks}
Entry(fn)  == fn.blocks[1].label
EntryLabels(fn) == IF fn.blocks = <<>> THEN {} ELSE {Entry(fn)}
Params(fn) == {p.name : p \in Range(fn.params)}

(* Function::block: the first block with that label. *)
Block(fn, l) ==
    fn.blocks[CHOOSE i \in DOMAIN fn.blocks :
                  /\ fn.blocks[i].label = l
                  /\ \A j \in 1..(i - 1) : fn.blocks[j].label # l]
Instrs(fn, l) == Block(fn, l).instrs

(* The out-edges of a label; a label that names no block has none. *)
Successors(fn, l) ==
    IF l \in Labels(fn) THEN BlockSuccessors(Block(fn, l)) ELSE <<>>

Predecessors(fn, l) ==
    {fn.blocks[i].label :
        i \in {j \in DOMAIN fn.blocks : l \in Range(BlockSuccessors(fn.blocks[j]))}}

(* Every register some instruction of the function defines, and the params. *)
Instructions(fn) == UNION {Range(b.instrs) : b \in Range(fn.blocks)}
AllRegs(fn) ==
    Params(fn) \cup
    UNION {Dest(ins) : ins \in Instructions(fn)}
=============================================================================
