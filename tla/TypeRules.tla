----------------------------- MODULE TypeRules -----------------------------
(***************************************************************************)
(* checkTypes of src/src/cir/Verifier.cpp: rules 6 to 8, per instruction.  *)
(*                                                                         *)
(* `sigs` gives the signature [params, ret] of every function of the       *)
(* module, what module->function(callee) finds.                            *)
(***************************************************************************)
EXTENDS CFG

Types == {"i1", "i32", "i64", "f64", "ptr", "void"}
IsIntTy(ty) == ty \in {"i1", "i32", "i64"}

(* The arity column of the OpInfo table; -1 is kVariadic. *)
Arity(op) ==
    CASE op \in IntBinaryOps \cup FloatBinaryOps \cup Compares -> 2
      [] op \in {"store", "gep"}                               -> 2
      [] op \in Conversions \cup Prints                        -> 1
      [] op \in {"neg", "not", "load", "br.cond"}              -> 1
      [] op \in {"trap", "br"}                                 -> 0
      [] op \in {"alloca", "call", "ret"}                      -> -1

ArityOk(ins) == Arity(ins.op) = -1 \/ Len(ins.args) = Arity(ins.op)

ArgTy(ins, i)  == ins.args[i].ty
ArgIs(ins, i, ty) == ArgTy(ins, i) = ty
BothArgs(ins, ty) == ArgIs(ins, 1, ty) /\ ArgIs(ins, 2, ty)

(* Rule 7 and its generalisation: a result has the type the opcode gives it, *)
(* and an opcode that gives one (a call apart) has a destination.            *)
ResultTypeOk(ins) == ins.dest # NoName => ins.dty = ResultTy(ins)
DestinationOk(ins) ==
    ins.dest = NoName /\ ins.op # "call" => ins.op \in DefinesNothing

(* A call has a result exactly when it is not void, names a function of the *)
(* module, and gives it as many arguments as it has parameters.             *)
CallOk(ins, sigs) ==
    /\ (ins.ty = "void") = (ins.dest = NoName)
    /\ ins.callee \in DOMAIN sigs
    /\ Len(sigs[ins.callee].params) = Len(ins.args)
    /\ sigs[ins.callee].ret = ins.ty

(* Rule 6: the operands each opcode takes, by category of opcode. *)
ArithmeticOk(ins) ==
    CASE ins.op \in IntBinaryOps   -> IsIntTy(ins.ty) /\ BothArgs(ins, ins.ty)
      [] ins.op \in FloatBinaryOps -> ins.ty = "f64" /\ BothArgs(ins, ins.ty)
      [] ins.op = "neg"            -> (IsIntTy(ins.ty) \/ ins.ty = "f64") /\ ArgIs(ins, 1, ins.ty)
      [] ins.op = "not"            -> IsIntTy(ins.ty) /\ ArgIs(ins, 1, ins.ty)
CompareOk(ins) ==
    IF ins.op \in IntCompares
    THEN (IsIntTy(ins.ty) \/ ins.ty = "ptr") /\ BothArgs(ins, ins.ty)
    ELSE ins.ty = "f64" /\ BothArgs(ins, "f64")
ConvertOk(ins) ==
    CASE ins.op \in IntConversions -> IsIntTy(ins.ty) /\ IsIntTy(ArgTy(ins, 1))
      [] ins.op = "sitofp"         -> ins.ty = "f64" /\ IsIntTy(ArgTy(ins, 1))
      [] ins.op = "fptosi"         -> IsIntTy(ins.ty) /\ ArgIs(ins, 1, "f64")
(* Mutant: a load takes any operand for its address. *)
MemoryOkLoadAny(ins) ==
    CASE ins.op = "alloca" -> ins.ty # "void" /\ Len(ins.args) <= 1
      [] ins.op = "load"   -> ins.ty # "void"
      [] ins.op = "store"  -> ArgIs(ins, 1, ins.ty) /\ ArgIs(ins, 2, "ptr")
      [] ins.op = "gep"    -> ArgIs(ins, 1, "ptr") /\ IsIntTy(ArgTy(ins, 2))
MemoryOk(ins) ==
    CASE ins.op = "alloca" -> /\ ins.ty # "void" /\ Len(ins.args) <= 1
                              /\ Len(ins.args) = 1 => IsIntTy(ArgTy(ins, 1))
      [] ins.op = "load"   -> ins.ty # "void" /\ ArgIs(ins, 1, "ptr")
      [] ins.op = "store"  -> ArgIs(ins, 1, ins.ty) /\ ArgIs(ins, 2, "ptr")
      [] ins.op = "gep"    -> ArgIs(ins, 1, "ptr") /\ IsIntTy(ArgTy(ins, 2))
OperandsOk(ins, sigs) ==
    CASE ins.op \in IntBinaryOps \cup FloatBinaryOps \cup {"neg", "not"} -> ArithmeticOk(ins)
      [] ins.op \in Compares                                -> CompareOk(ins)
      [] ins.op \in Conversions                             -> ConvertOk(ins)
      [] ins.op \in {"alloca", "load", "store", "gep"}      -> MemoryOk(ins)
      [] ins.op = "call"                                    -> CallOk(ins, sigs)
      [] ins.op = "print.i32"                               -> ArgIs(ins, 1, "i32")
      [] ins.op = "print.f64"                               -> ArgIs(ins, 1, "f64")
      [] ins.op = "br"                                      -> Len(ins.labels) = 1
      [] ins.op = "br.cond" -> ArgIs(ins, 1, "i1") /\ Len(ins.labels) = 2
      [] ins.op \in {"ret", "trap"}                         -> TRUE

(* Rule 8: a ret prints the type the function returns; its operand has it. *)
RetOk(ret, ins) ==
    IF ret = "void" THEN ins.args = <<>> ELSE ins.args # <<>> /\ ins.ty = ret
RetOperandOk(ret, ins) == ret # "void" /\ RetOk(ret, ins) => ArgIs(ins, 1, ret)

(* checkInstruction: a wrong arity ends the check of the instruction. *)
InstrErrors(ret, ins, sigs) ==
    IF ~ArityOk(ins) THEN {"CIR06"}
    ELSE {e \in {"CIR06", "CIR07", "CIR08"} :
            \/ e = "CIR06" /\ \/ ~DestinationOk(ins) \/ ~OperandsOk(ins, sigs)
                              \/ ins.op = "ret" /\ ~RetOperandOk(ret, ins)
                              \/ ~ResultTypeOk(ins) /\ ins.op \notin Compares
            \/ e = "CIR07" /\ ~ResultTypeOk(ins) /\ ins.op \in Compares
            \/ e = "CIR08" /\ ins.op = "ret" /\ ~RetOk(ret, ins)}

(* The errors of a block, and of checkTypes. *)
BlockTypeErrors(f, b, sigs) == UNION {InstrErrors(f.ret, ins, sigs) : ins \in Range(b.instrs)}
TypeErrors(f, sigs) ==
    IF f.blocks = <<>> THEN IF f.ret = "void" THEN {} ELSE {"CIR08"}
    ELSE UNION {BlockTypeErrors(f, b, sigs) : b \in Range(f.blocks)}

(* verify: every function of a module, against the module's own signatures, *)
(* passes checkCFG and checkTypes; what checkDefinitions adds is the        *)
(* business of Definedness.  There are no opcodes but those of kTable.      *)
Opcodes == IntBinaryOps \cup FloatBinaryOps \cup Compares \cup Conversions \cup Terminators
           \cup Prints \cup {"neg", "not", "load", "store", "alloca", "gep", "call", "trap"}
Signatures(m) == [f \in DOMAIN m.funcs |-> [params |-> m.funcs[f].params, ret |-> m.funcs[f].ret]]
Sound(m, fn) ==
    /\ IsFunction(fn) /\ \A ins \in Instructions(fn) : ins.op \in Opcodes
    /\ CheckCfg(fn) = {} /\ TypeErrors(fn, Signatures(m)) = {}
WellTyped(m) == \A f \in DOMAIN m.funcs : Sound(m, m.funcs[f])
=============================================================================
