----------------------------- MODULE StackCode -----------------------------
(***************************************************************************)
(* From CIR to bytecode: the register-to-stack lowering both stack back    *)
(* ends share (src/src/backend/wasm/RegToStack.cpp) and the emitter of the *)
(* stack VM's programs (src/src/backend/stackvm/EmitSbc.cpp).  Opcodes     *)
(* keep their CIR names, since binaryName and comparePredicate are inverse *)
(* to the VM's suffixOp.  Locals are named by their registers.             *)
(***************************************************************************)
EXTENDS Arith, CIR, SequencesExt

CONSTANT MemoryBytes    \* memoryBytes, and kStackTop; 65536 in the code

(* StackOp: an opcode, the width its prefix says, a name, a number. *)
StackOp(op, ty, text, imm) == [op |-> op, ty |-> ty, text |-> text, imm |-> imm]
Simple(op, ty)   == StackOp(op, ty, NoName, 0)
WithText(op, x)  == StackOp(op, "i32", x, 0)
Const(ty, n)     == StackOp("const", ty, NoName, n)
WithTarget(op, n) == StackOp(op, "i32", NoName, n)
Unreachable == Simple("unreachable", "i32")
Renumbered(op, n) == StackOp(op.op, op.ty, op.text, n)

(* prefixOf: i1 and ptr travel as i32. *)
Prefix(ty) == IF ty = "i64" THEN "i64" ELSE "i32"
SizeOf(ty) == IF ty = "i64" THEN 8 ELSE 4

(* A literal is pushed as it is written; a global gives its value. *)
PushValue(v) ==
    CASE v.k = "int"    -> Const(Prefix(v.ty), v.v)
      [] v.k = "reg"    -> WithText("local.get", v.name)
      [] v.k = "global" -> WithText("global.get", v.name)
PushAll(vs) == [i \in DOMAIN vs |-> PushValue(vs[i])]
Park(ins) == IF ins.dest = NoName THEN <<>> ELSE <<WithText("local.set", ins.dest)>>

(* opcodeFor: the instructions whose stack form is one opcode. *)
OpcodeFor(ins) ==
    CASE ins.op = "ret"         -> Simple("return", "i32")
      [] ins.op = "call"        -> WithText("call", ins.callee)
      [] ins.op = "print.i32"   -> WithText("call", "print_i32")
      [] ins.op = "trap"        -> Unreachable
      [] ins.op = "sext"        -> Simple("extend_s", "i64")
      [] ins.op = "zext"        -> IF ins.ty = "i64" THEN Simple("extend_u", "i64")
                                                     ELSE Simple("nop", "i32")
      [] ins.op = "trunc"       -> Simple("wrap", "i32")
      [] OTHER                  -> Simple(ins.op, Prefix(ins.ty))

(* The instructions whose stack form is not "operands, then one opcode".   *)
(* A store pushes its address first.                                       *)
LowerStore(ins) ==
    IF ins.args[2].k = "global"
    THEN <<PushValue(ins.args[1]), WithText("global.set", ins.args[2].name)>>
    ELSE <<PushValue(ins.args[2]), PushValue(ins.args[1]), Simple("store", Prefix(ins.ty))>>
LowerLoad(ins) ==
    IF ins.args[1].k = "global" THEN <<WithText("global.get", ins.args[1].name)>>
    ELSE <<PushValue(ins.args[1]), Simple("load", Prefix(ins.ty))>>
LowerGep(ins) ==
    PushAll(ins.args) \o <<Const("i32", SizeOf(ins.ty)), Simple("mul", "i32"), Simple("add", "i32")>>
LowerNeg(ins) ==
    <<Const(Prefix(ins.ty), 0)>> \o PushAll(ins.args) \o <<Simple("sub", Prefix(ins.ty))>>
LowerNot(ins) ==
    PushAll(ins.args) \o <<Const(Prefix(ins.ty), IF ins.ty = "i1" THEN 1 ELSE -1),
                           Simple("xor", Prefix(ins.ty))>>

(* lowerInstruction *)
LowerInstruction(ins) ==
    (CASE ins.op = "alloca" -> <<Unreachable>>
       [] ins.op = "load"   -> LowerLoad(ins)
       [] ins.op = "store"  -> LowerStore(ins)
       [] ins.op = "gep"    -> LowerGep(ins)
       [] ins.op = "neg"    -> LowerNeg(ins)
       [] ins.op = "not"    -> LowerNot(ins)
       [] OTHER             -> PushAll(ins.args) \o <<OpcodeFor(ins)>>) \o Park(ins)
LowerBlockNaive(instrs) == FlattenSeq([i \in DOMAIN instrs |-> LowerInstruction(instrs[i])])

(* layoutFrame: the slots in the order they are listed, each aligned to    *)
(* its element, the frame to 8.                                            *)
Bind(m, x, v) == [y \in DOMAIN m \cup {x} |-> IF y = x THEN v ELSE m[y]]
RoundUp(n, multiple) == ((n + multiple - 1) \div multiple) * multiple
Count(ins) == IF ins.args # <<>> /\ ins.args[1].k = "int" /\ ins.args[1].v > 0
              THEN ins.args[1].v ELSE 1
Place(frame, ins) ==
    IF ins.op # "alloca" \/ ins.dest = NoName THEN frame
    ELSE LET start == RoundUp(frame.size, SizeOf(ins.ty))
         IN [offset |-> Bind(frame.offset, ins.dest, start),
             size   |-> start + SizeOf(ins.ty) * Count(ins)]
Listing(fn) == FlattenSeq([i \in DOMAIN fn.blocks |-> fn.blocks[i].instrs])
LayoutFrame(fn) ==
    LET laid == FoldLeft(Place, [offset |-> <<>>, size |-> 0], Listing(fn))
    IN [laid EXCEPT !.size = RoundUp(@, 8)]

(* resolveAllocas: the address of a slot is an offset from the frame. *)
FrameReg == "__frame"
ResolveAlloca(frame, ins) ==
    IF ins.op # "alloca" \/ ins.dest = NoName THEN ins
    ELSE Op(ins.dest, "add", "i32",
            <<Reg(FrameReg, "ptr"), ConstInt(frame.offset[ins.dest], "i32")>>)
Resolve(frame, instrs) == [i \in DOMAIN instrs |-> ResolveAlloca(frame, instrs[i])]

(* blockUseCounts and blockLiveOut: the reads in this block, and in others. *)
UseCount(instrs, r) ==
    MapThenSumSet(LAMBDA i : Cardinality({j \in DOMAIN instrs[i].args :
                                 instrs[i].args[j].k = "reg" /\ instrs[i].args[j].name = r}),
                  DOMAIN instrs)
LiveOutNone(fn, n) == {}    \* Mutant: the other blocks are not looked at.
LiveOut(fn, n) ==
    UNION {UNION {Uses(ins) : ins \in Range(fn.blocks[m].instrs)} : m \in DOMAIN fn.blocks \ {n}}

(* peephole: a set and a get of a local nothing else reads go together. *)
Pair(seq, instrs, live, i) ==
    /\ i \in 1..(Len(seq) - 1)
    /\ seq[i].op = "local.set" /\ seq[i + 1].op = "local.get"
    /\ seq[i].text = seq[i + 1].text
    /\ UseCount(instrs, seq[i].text) = 1
    /\ seq[i].text \notin live
Peephole(seq, instrs, live) ==
    FlattenSeq([i \in DOMAIN seq |->
        IF Pair(seq, instrs, live, i) \/ Pair(seq, instrs, live, i - 1) THEN <<>> ELSE <<seq[i]>>])
(* A block as both emitters lower it: a br or br.cond is taken off, its     *)
(* condition is pushed before the peephole looks, a ret stays.             *)
Lowered(fn, frame, n) ==
    LET instrs == Resolve(frame, fn.blocks[n].instrs)
        term   == Last(instrs)
        naive  == IF term.op = "ret" THEN LowerBlockNaive(instrs)
                  ELSE LowerBlockNaive(Front(instrs)) \o PushAll(term.args)
    IN Peephole(naive, instrs, LiveOut(fn, n))
-----------------------------------------------------------------------------
(* EmitSbc.  blockIndex: the first block of a label, or one past the last. *)
BlockIndex(fn, l) ==
    IF l \in Labels(fn)
    THEN CHOOSE n \in DOMAIN fn.blocks :
            fn.blocks[n].label = l /\ \A m \in 1..(n - 1) : fn.blocks[m].label # l
    ELSE Len(fn.blocks) + 1

(* emitJump: a jmp to the block that comes next is not emitted. *)
EmitJump(op, target, n) ==
    IF op = "jmp" /\ target = n + 1 THEN <<>> ELSE <<WithTarget(op, target)>>

(* The jumps of a terminator. *)
Jumps(fn, n, term) ==
    CASE term.op = "ret"     -> <<>>
      [] term.op = "br"      -> EmitJump("jmp", BlockIndex(fn, term.labels[1]), n)
      [] term.op = "br.cond" -> EmitJump("jz", BlockIndex(fn, term.labels[2]), n)
                                \o EmitJump("jmp", BlockIndex(fn, term.labels[1]), n)

(* Pass 1 for one block. *)
BlockCode(fn, frame, n) ==
    IF ~HasTerminator(fn.blocks[n]) THEN <<Simple("trap", "i32")>>
    ELSE Lowered(fn, frame, n) \o Jumps(fn, n, Last(fn.blocks[n].instrs))

(* Pass 2: block indices become addresses; a block that is not there, a    *)
(* trap.                                                                   *)
Patch(op, start) ==
    IF op.op \notin {"jmp", "jz"} THEN op
    ELSE IF op.imm \in DOMAIN start THEN Renumbered(op, start[op.imm])
    ELSE Simple("trap", "i32")

(* The locals: parameters, the frame, then whatever the code names; each   *)
(* reference becomes a slot number (the last of a name).                   *)
IsLocal(op) == op.op \in {"local.get", "local.set"}
LocalsOf(fn, frame, code) ==
    LET fixed == [i \in DOMAIN fn.params |-> fn.params[i].name]
                 \o (IF frame.size > 0 THEN <<FrameReg>> ELSE <<>>)
        others == {op.text : op \in {x \in Range(code) : IsLocal(x)}} \ Range(fixed)
    IN FoldSet(LAMBDA x, s : Append(s, x), fixed, others)
SlotOf(locals, x) ==
    CHOOSE i \in DOMAIN locals : locals[i] = x /\ \A j \in (i + 1)..Len(locals) : locals[j] # x
Slotted(op, locals) == IF IsLocal(op) THEN Renumbered(op, SlotOf(locals, op.text)) ELSE op

(* FunctionEmitter::emit.  Addresses count from 1.                         *)
EmitFunction(fn) ==
    LET frame  == LayoutFrame(fn)
        parts  == [n \in DOMAIN fn.blocks |-> BlockCode(fn, frame, n)]
        start  == [n \in DOMAIN fn.blocks |-> Len(FlattenSeq(SubSeq(parts, 1, n - 1))) + 1]
        joined == FlattenSeq(parts)
        code   == [i \in DOMAIN joined |-> Patch(joined[i], start)]
        locals == LocalsOf(fn, frame, code)
    IN [params    |-> Len(fn.params),
        returns   |-> fn.ret # "void",
        frameSize |-> frame.size,
        locals    |-> Len(locals),
        code      |-> [i \in DOMAIN code |-> Slotted(code[i], locals)],
        starts    |-> Range(start)]

(* emitModule: the initial value of a global is the literal as written. *)
EmitModule(m) ==
    [funcs   |-> [f \in DOMAIN m.funcs |-> EmitFunction(m.funcs[f])],
     globals |-> [g \in DOMAIN m.globals |-> m.globals[g].v]]
-----------------------------------------------------------------------------
(* The linear memory frames lie in: bytes, of a quarter of an i32 each,    *)
(* read and written little-endian (readMemory and writeMemory of           *)
(* src/src/backend/stackvm/VM.cpp; a WebAssembly memory does the same).    *)
ByteValues == 2^(W32 \div 4)
Inside(address, width) == 0 <= address /\ address + width <= MemoryBytes
Read(mem, address, width) ==
    MapThenSumSet(LAMBDA i : mem[address + i] * ByteValues^i, 0..(width - 1))
Write(mem, address, width, v) ==
    [a \in DOMAIN mem |-> IF a \in address..(address + width - 1)
                          THEN (v \div ByteValues^(a - address)) % ByteValues ELSE mem[a]]
=============================================================================
