------------------------------ MODULE WatCode ------------------------------
(***************************************************************************)
(* From CIR to WebAssembly text, src/src/backend/wasm/EmitWat.cpp: each    *)
(* function is a dispatch tower, a loop around a br_table around one       *)
(* nested block per CIR block, with its slots in a frame that a shadow     *)
(* stack pointer carves off the top of linear memory.  Folded expressions  *)
(* and their parentheses are the flat instructions they stand for; names   *)
(* lose their "$".                                                         *)
(***************************************************************************)
EXTENDS StackCode

BlockLocal == "__block"
FrameBase  == "__fp"
ShadowSP   == "__sp"

Get(x)  == WithText("local.get", x)
Set(x)  == WithText("local.set", x)
Region(op, label, k) == StackOp(op, "i32", label, k)
End     == Simple("end", "i32")
Dispatch == WithText("br", "dispatch")

(* indexOf: a label that names no block is sent to the first. *)
IndexOf(fn, l) == IF l \in Labels(fn) THEN BlockIndex(fn, l) - 1 ELSE 0

(* The end of a block: which one comes next is parked in $__block.         *)
Redispatch == <<Set(BlockLocal), Dispatch>>
Choice(fn, term, i) == Const("i32", IndexOf(fn, term.labels[i]))
Leaving(fn, term) ==
    CASE term.op = "ret"     -> <<>>
      [] term.op = "br"      -> <<Choice(fn, term, 1)>> \o Redispatch
      [] term.op = "br.cond" ->
            <<Region("if", NoName, 0), Choice(fn, term, 1), Simple("else", "i32"),
              Choice(fn, term, 2), End>> \o Redispatch

(* emitBlock: a return gives the frame back first, beneath its result.     *)
Restored(frame, op) ==
    IF op.op = "return" /\ frame.size > 0
    THEN <<Get(FrameBase), WithText("global.set", ShadowSP), op>> ELSE <<op>>
EmitBlock(fn, frame, n) ==
    IF ~HasTerminator(fn.blocks[n]) THEN <<Unreachable>>
    ELSE LET seq == Lowered(fn, frame, n)
         IN FlattenSeq([i \in DOMAIN seq |-> Restored(frame, seq[i])])
            \o Leaving(fn, Last(fn.blocks[n].instrs))

(* emitTower: the frame opens (mutant: the pointer stays where it was),    *)
(* then the nested blocks, the table, and behind each end a CIR block.     *)
OpenInPlace(frame) ==
    IF frame.size = 0 THEN <<>>
    ELSE <<WithText("global.get", ShadowSP), Set(FrameBase), Get(FrameBase),
           Const("i32", frame.size), Simple("sub", "i32"), Set(FrameReg)>>
Open(frame) ==
    IF frame.size = 0 THEN <<>>
    ELSE <<WithText("global.get", ShadowSP), Set(FrameBase), Get(FrameBase),
           Const("i32", frame.size), Simple("sub", "i32"), Set(FrameReg),
           Get(FrameReg), WithText("global.set", ShadowSP)>>
EmitTower(fn, frame) ==
    LET n == Len(fn.blocks)
    IN Open(frame)
       \o <<Const("i32", 0), Set(BlockLocal), Region("block", "exit", 0), Region("loop", "dispatch", 0)>>
       \o [i \in 1..n |-> Region("block", "case", n - i)]
       \o <<Get(BlockLocal), Region("br_table", "case", n - 1)>>
       \o FlattenSeq([i \in 1..n |-> <<End>> \o EmitBlock(fn, frame, i)])
       \o <<End, End>>
       \o (IF fn.ret = "void" THEN <<>> ELSE <<Unreachable>>)

(* FunctionEmitter::emit.  A local is declared for every register that is  *)
(* not a parameter and still named, with the type of its first definition. *)
(* Mutant: with the type printed at the instruction.                       *)
FirstDef(fn, r) == SelectSeq(Listing(fn), LAMBDA ins : ins.dest = r)[1]
DeclareAsPrinted(fn, r) == [name |-> r, ty |-> Prefix(FirstDef(fn, r).ty)]
Declare(fn, r) == [name |-> r, ty |-> Prefix(FirstDef(fn, r).dty)]
Declared(fn, frame) ==
    LET lowered == UNION {Range(Lowered(fn, frame, n)) :
                             n \in {i \in DOMAIN fn.blocks : HasTerminator(fn.blocks[i])}}
        used    == {op.text : op \in {x \in lowered : IsLocal(x)}}
    IN FoldSet(LAMBDA r, s : Append(s, Declare(fn, r)), <<>>,
               (used \cap UNION {Dest(ins) : ins \in Instructions(fn)}) \ Params(fn))
       \o <<[name |-> BlockLocal, ty |-> "i32"]>>
       \o (IF frame.size = 0 THEN <<>>
           ELSE <<[name |-> FrameBase, ty |-> "i32"], [name |-> FrameReg, ty |-> "i32"]>>)
WatFunction(fn) ==
    LET frame == LayoutFrame(fn)
    IN [params  |-> [i \in DOMAIN fn.params |-> [name |-> fn.params[i].name, ty |-> Prefix(fn.params[i].ty)]],
        results |-> IF fn.ret = "void" THEN <<>> ELSE <<Prefix(fn.ret)>>,
        frame   |-> frame.size,
        locals  |-> IF fn.blocks = <<>> THEN <<>> ELSE Declared(fn, frame),
        code    |-> IF fn.blocks = <<>> THEN <<>> ELSE EmitTower(fn, frame)]

(* What the emitter refuses (WASM01). *)
Refused(fn) ==
    \/ \E b \in Range(fn.blocks) : ~HasTerminator(b)
    \/ \E ins \in Instructions(fn) : ins.op = "gep" /\ ins.args # <<>> /\ ins.args[1].k = "global"

(* emitModule: memory and the shadow stack pointer only where an           *)
(* instruction asks for them.                                              *)
Opcodes(m) == {ins.op : ins \in UNION {Instructions(m.funcs[f]) : f \in DOMAIN m.funcs}}
GlobalEntry(g, ty, init) == [name |-> g, ty |-> ty, init |-> init]
EmitWat(m) ==
    LET needsMemory == Opcodes(m) \cap {"alloca", "load", "store", "gep"} # {}
    IN [ok      |-> \A f \in DOMAIN m.funcs : ~Refused(m.funcs[f]),
        funcs   |-> [f \in DOMAIN m.funcs |-> WatFunction(m.funcs[f])],
        imports |-> IF "print.i32" \in Opcodes(m) THEN {"print_i32"} ELSE {},
        memory  |-> needsMemory,
        globals |-> (IF needsMemory THEN <<GlobalEntry(ShadowSP, "i32", MemoryBytes)>> ELSE <<>>)
                    \o FoldSet(LAMBDA g, s : Append(s, GlobalEntry(g, Prefix(m.globals[g].ty), m.globals[g].v)),
                               <<>>, DOMAIN m.globals)]
=============================================================================
