---------------------------- MODULE Differential ----------------------------
(***************************************************************************)
(* The back ends against the meaning of CIR: a module is run by the        *)
(* reference interpreter (src/src/cir/interp.py, "the oracle" of           *)
(* docs/divergence.md), then compiled to bytecode and run by the stack VM, *)
(* or to WebAssembly and run by its engine, or to LLVM IR and run natively.*)
(* The runs never overlap, so they share the variables the machines have.  *)
(***************************************************************************)
EXTENDS Integers, Sequences, FiniteSets, Functions

CONSTANTS W32, W64, Modules, MaxDepth, MaxSlots, MaxOut,
          MemoryBytes, StepLimit, CallDepthLimit, EngineDepth

ASSUME LimitsAssumption ==
    /\ StepLimit \in Nat /\ CallDepthLimit \in Nat /\ EngineDepth \in Nat
    /\ MemoryBytes \in Nat /\ MemoryBytes % 8 = 0
    /\ W32 % 4 = 0 /\ W64 = 2 * W32

VARIABLES mod, stack, slots, nextSlot,            \* the interpreter's
          prog, calls, memory,                    \* the target's
          stackPointer, steps,                    \* the VM's
          status, globs, out, result,             \* of the one running
          phase,                                  \* "interp", "vm", "wasm" or "llvm"
          seen,                                   \* what the interpreter showed
          written,                                \* slot elements it has stored to
          strays,                                 \* where it left what targets agree on
          promised,                               \* the targets that promise anything for mod
          given                                   \* the module as the target is given it

I == INSTANCE Interp
V == INSTANCE StackVM WITH Programs <- {}
W == INSTANCE WasmMachine
L == INSTANCE LLVMMachine
T == INSTANCE CirText
R == INSTANCE TypeRules

ivars == <<mod, stack, slots, nextSlot>>
tvars == <<prog, calls, memory>>
vmvars == <<stackPointer, steps>>
notes == <<phase, seen, written, strays, promised, given>>
vars == <<ivars, tvars, vmvars, status, globs, out, result, notes>>

(* What both show: integers, a printed value and a result reduced alike.   *)
Ended == IF status \in {"run", "returned", "exhausted", "undefined"} THEN status ELSE "trapped"
Observation == [status |-> Ended, out |-> out, result |-> result]
Numbers(s) == [i \in DOMAIN s |-> s[i].n]
InterpObservation == [status |-> Ended, out |-> Numbers(out), result |-> result.n]
-----------------------------------------------------------------------------
(* The modules the targets promise anything for: verified, with literals   *)
(* in the range of their types, no conversion that makes or spreads an i1, *)
(* a global's address only loaded from and stored to, and indices applied  *)
(* to an array's own address.                                              *)
InRange(v) == v.k = "int" => v.v = V!Wrap(v.v, v.ty)
Portable(f, ins) ==
    /\ \A i \in DOMAIN ins.args :
          /\ InRange(ins.args[i])
          /\ ins.args[i].k = "global" => ins.op = "load" \/ (ins.op = "store" /\ i = 2)
    /\ ins.op = "trunc" => ins.ty # "i1"
    /\ ins.op = "sext" => ins.args[1].ty # "i1"
    /\ ins.op = "gep" => \E a \in R!Instructions(f) :
              a.op = "alloca" /\ a.args # <<>> /\ a.dest = ins.args[1].name
Compilable(m) ==
    /\ I!Accepted(m) /\ R!WellTyped(m)
    /\ \A f \in DOMAIN m.funcs : \A ins \in R!Instructions(m.funcs[f]) : Portable(m.funcs[f], ins)
    /\ \A g \in DOMAIN m.globals : InRange(m.globals[g])

All(m, Holds(_)) == \A f \in DOMAIN m.funcs : \A ins \in R!Instructions(m.funcs[f]) : Holds(ins)
NamesDefined(m) ==
    \A f \in DOMAIN m.funcs : \A ins \in R!Instructions(m.funcs[f]) :
        R!Uses(ins) \subseteq R!AllRegs(m.funcs[f])

(* A WebAssembly instruction has one type, so a conversion has to go       *)
(* between the widths its opcode names; and an index is an i32.  Locals    *)
(* are declared for the registers something defines.                       *)
ConvertsAsNamed(ins) ==
    /\ ins.op = "sext" => V!Prefix(ins.args[1].ty) = "i32" /\ ins.ty = "i64"
    /\ ins.op = "zext" => V!Prefix(ins.args[1].ty) = "i32"
    /\ ins.op = "trunc" => ins.args[1].ty = "i64" /\ ins.ty = "i32"
IndexesNarrow(ins) == ins.op = "gep" => V!Prefix(ins.args[2].ty) = "i32"

(* LLVM IR is in single assignment form, has a name for everything it      *)
(* uses, and shares the names g.1, g.2, ... with the guards; a conversion  *)
(* changes the width; an i1 is signed.  An array's length is printed as an *)
(* element of it (EmitLL.cpp:295), so arrays of i1 have none llvm-as takes.*)
GuardNames == {"g." \o L!ToString(n) : n \in 1..20}
SingleAssignment(f) ==
    L!NamesOnce(f) /\ R!AllRegs(f) \cap GuardNames = {}
LLVMTyped(ins) ==
    /\ ins.op \in L!ConvOps => L!Converts(ins)
    /\ ins.op = "gep" => ins.args[2].ty = "i32"
    /\ ins.op = "alloca" /\ ins.ty = "i1" => ins.args = <<>>
SignsBool(ins) ==
    ins.ty = "i1" /\ ins.op \in {"sdiv", "srem", "icmp.slt", "icmp.sle", "icmp.sgt", "icmp.sge"}
ForWasm(m) == NamesDefined(m) /\ All(m, ConvertsAsNamed) /\ All(m, IndexesNarrow)
ForLLVM(m) == NamesDefined(m) /\ All(m, LLVMTyped) /\ \A f \in DOMAIN m.funcs : SingleAssignment(m.funcs[f])
Promised(m) ==
    IF ~Compilable(m) THEN {}
    ELSE {"vm"} \cup (IF ForWasm(m) THEN {"wasm"} ELSE {}) \cup (IF ForLLVM(m) THEN {"llvm"} ELSE {})

(* A module handed over as text comes with types of its own for literals:  *)
(* the index of an array has that of an element, an argument is an i32, a  *)
(* converted literal has the type it is converted to.  And a register no   *)
(* instruction defines is not read at all.                                 *)
ConvertsLiteral(ins) == ins.op \in L!ConvOps /\ ins.args[1].k = "int"
PassesLiteral(ins)  == ins.op = "call" /\ \E a \in Range(ins.args) : a.k = "int" /\ a.ty = "i64"
IndexesWide(ins)    == ins.op = "gep" /\ ins.args[2].k = "int" /\ ins.ty = "i64"
KeepsWidths(ins)    == ~ConvertsLiteral(ins) /\ ~PassesLiteral(ins) /\ ~IndexesWide(ins)
PromisedAsText(m) ==
    IF ~NamesDefined(m) THEN {}
    ELSE {t \in Promised(m) :
            /\ t = "wasm" => All(m, KeepsWidths)
            /\ t = "llvm" => All(m, LAMBDA ins : ~ConvertsLiteral(ins))}
-----------------------------------------------------------------------------
(* The target is given the module as it is in memory or as it is read from *)
(* its text (Driver.cpp:188-219), which is the same thing for most.        *)
InMemory(m) == [ok |-> TRUE, module |-> m]
NoProgram == <<>>
HandedOver ==
    \E form \in {InMemory(mod), T!ReadBack(mod)} :
        /\ given = form
        /\ promised = IF form = InMemory(mod) THEN Promised(mod) ELSE PromisedAsText(mod)

Init == /\ I!Init /\ HandedOver
        /\ prog = IF given.ok THEN V!EmitModule(given.module) ELSE NoProgram
        /\ calls = <<>> /\ steps = 0
        /\ memory = [a \in 0..(MemoryBytes - 1) |-> 0] /\ stackPointer = MemoryBytes
        /\ phase = "interp" /\ seen = InterpObservation
        /\ written = {} /\ strays = {}

(* Where the targets part from the oracle.  Reading an element nothing was *)
(* stored to has no meaning (divergence.md, "Not guarded, by design"); an  *)
(* index out of bounds traps; and so does INT_MIN rem -1, which rem_s      *)
(* computes.                                                               *)
Element(p) == <<p.slot, p.n>>
ReadsUnwritten ==
    I!Runs({"load"}) /\ I!Arg(1).k = "mem" /\ Element(I!Arg(1)) \notin written
IndexesOutside == I!Runs({"gep"}) /\ ~I!InBounds
OverflowsRem ==
    /\ I!Runs({"srem"})
    /\ I!Arg(2).n = -1 /\ I!Arg(1).n = V!MinSigned(I!Ins.ty)
Interpret ==
    /\ phase = "interp" /\ I!Next
    /\ written' = IF I!Runs({"store"}) /\ I!Arg(2).k = "mem"
                  THEN written \cup {Element(I!Arg(2))} ELSE written
    /\ strays' = strays \cup (IF ReadsUnwritten THEN {"unwritten"} ELSE {})
                        \cup (IF IndexesOutside THEN {"index"} ELSE {})
                        \cup (IF OverflowsRem THEN {"rem"} ELSE {})
    /\ UNCHANGED <<tvars, vmvars, phase, seen, promised, given>>

StartVM ==
    /\ phase = "interp" /\ status # "run"
    /\ phase' = "vm" /\ seen' = InterpObservation
    /\ IF given.ok
       THEN /\ status' = V!EntryStatus /\ calls' = V!EntryCalls /\ stackPointer' = V!EntryPointer
            /\ globs' = prog.globals
       ELSE status' = "refused" /\ UNCHANGED <<globs, calls, stackPointer>>
    /\ out' = <<>> /\ result' = 0
    /\ UNCHANGED <<ivars, prog, memory, steps, written, strays, promised, given>>

RunVM ==
    /\ phase = "vm" /\ V!Next
    /\ UNCHANGED <<ivars, notes>>

(* The module goes to an engine as text, which validates it first.         *)
StartWasm ==
    /\ phase = "interp" /\ status # "run"
    /\ phase' = "wasm" /\ seen' = InterpObservation
    /\ IF given.ok
       THEN \E wat \in {W!EmitWat(given.module)} :
               /\ prog' = W!Decode(wat) /\ globs' = W!InitialGlobals(wat)
               /\ status' = prog'.verdict
       ELSE prog' = NoProgram /\ status' = "refused" /\ UNCHANGED globs
    /\ calls' = IF status' = "run" THEN <<W!EntryFrame(prog')>> ELSE <<>>
    /\ out' = <<>> /\ result' = 0
    /\ UNCHANGED <<ivars, memory, vmvars, written, strays, promised, given>>

RunWasm ==
    /\ phase = "wasm" /\ W!Next
    /\ UNCHANGED <<ivars, vmvars, notes>>

(* The module goes to llvm-as as text, and what clang makes of it is run.  *)
StartLLVM ==
    /\ phase = "interp" /\ status # "run"
    /\ phase' = "llvm" /\ seen' = InterpObservation
    /\ IF given.ok
       THEN /\ prog' = L!Assembled(L!EmitLL(given.module)) /\ globs' = L!InitialGlobals(prog')
            /\ status' = prog'.verdict
       ELSE prog' = NoProgram /\ status' = "refused" /\ UNCHANGED globs
    /\ calls' = IF status' = "run" THEN <<L!EntryFrame(prog')>> ELSE <<>>
    /\ memory' = <<>> /\ out' = <<>> /\ result' = 0
    /\ UNCHANGED <<ivars, vmvars, written, strays, promised, given>>

RunLLVM ==
    /\ phase = "llvm" /\ L!Next
    /\ UNCHANGED <<ivars, vmvars, notes>>

Next == Interpret \/ StartVM \/ RunVM \/ StartWasm \/ RunWasm \/ StartLLVM \/ RunLLVM
Spec == Init /\ [][Next]_vars /\ WF_vars(Next)
-----------------------------------------------------------------------------
Finished == phase # "interp" /\ status # "run"
Meaningful == phase \in promised /\ seen.status \in {"returned", "trapped"}

(* A program with a meaning shows it in the VM too, unless the VM runs out *)
(* of something: lowering, peephole, frame layout, fall-through, jumps and *)
(* calls together lose nothing.                                            *)
Agrees ==
    Finished /\ phase = "vm" /\ status # "exhausted" /\ Meaningful /\ strays \subseteq {"rem"}
        => Observation = seen

(* In the VM the operand stack is empty wherever a jump can land, and no   *)
(* instruction of a program the VM promises anything for finds less on it  *)
(* than it pops.                                                           *)
BlocksStartEmpty ==
    phase = "vm" /\ phase \in promised => V!BlocksStartEmpty /\ V!OperandsThere

(* What EmitWat and EmitLL make of a verified module is a valid module:    *)
(* each operand is there with the type its instruction takes, every local  *)
(* is declared once; blocks nest and are left as they were entered, and    *)
(* what guards insert dominates its uses and ends every block once.        *)
EmittedValidates ==
    phase \in {"wasm", "llvm"} /\ phase \in promised => status \notin {"refused", "invalid"}

(* The same program shows its meaning in WebAssembly, unless the engine    *)
(* runs out of calls or a frame would lie below address 0: dispatch tower, *)
(* shadow stack and declarations lose nothing either.                      *)
OutOfFrames == "__sp" \in DOMAIN globs /\ globs["__sp"] < 0
WasmAgrees ==
    /\ Finished /\ phase = "wasm" /\ Meaningful /\ strays = {}
    /\ status \in {"returned", "trapped"}
    /\ status = "trapped" => ~OutOfFrames
    => Observation = seen

(* And natively, with indices checked: the guards leave nothing undefined  *)
(* in LLVM to be reached and trap only where CIR does (Guards.h:3-8).      *)
(* What was printed before a trap may be lost with the process.            *)
SignsSomeBool == \E f \in DOMAIN mod.funcs : \E ins \in R!Instructions(mod.funcs[f]) : SignsBool(ins)
Shown == Observation = seen \/ (status = "trapped" /\ Observation = [seen EXCEPT !.out = <<>>])
LLVMAgrees ==
    /\ Finished /\ phase = "llvm" /\ Meaningful /\ ~SignsSomeBool
    /\ strays \subseteq {"index", "rem"} /\ status # "exhausted"
    => Shown

(* The frames of the active calls lie under one another from the top of    *)
(* memory, each where its call's frame local says, and are given back; in  *)
(* WebAssembly from the prologue's end to the pair before the return.      *)
FrameLocal(d) ==
    IF phase = "vm" THEN calls[d].local[prog.funcs[calls[d].fn].params + 1]
                    ELSE calls[d].local["__frame"]
PrologueLength == 8
WasmFrame(d) ==
    LET fn == prog.funcs[calls[d].fn].func
    IN IF calls[d].pc <= PrologueLength \/ fn.code[calls[d].pc].op = "return" THEN 0 ELSE fn.frame
FrameSize(d) == IF phase = "vm" THEN V!FrameBytes(calls[d].fn) ELSE WasmFrame(d)
FrameBelow(d) == MemoryBytes - V!MapThenSumSet(FrameSize, 1..d)
Pointer == IF phase = "vm" THEN stackPointer
           ELSE IF "__sp" \in DOMAIN globs THEN globs["__sp"] ELSE MemoryBytes
FramesStacked ==
    phase = "vm" \/ (phase = "wasm" /\ status = "run") =>
        /\ Pointer = V!WrapInt(FrameBelow(Len(calls)), "i32")
        /\ phase = "vm" => V!FramesApart
        /\ \A d \in DOMAIN calls :
              FrameSize(d) > 0 => FrameLocal(d) = V!WrapInt(FrameBelow(d), "i32")

(* Every program that ends in the interpreter ends in the VM, also one     *)
(* that reads what it never stored and so loops here and not there: each   *)
(* instruction of every call counts as a step.  WebAssembly has no such    *)
(* limit, nor has LLVM: there the programs with a meaning end.             *)
TargetEnds ==
    phase = "vm" \/ (phase \in {"wasm", "llvm"} /\ Meaningful /\ strays = {}) ~> Finished

(* divergence.md:8, "CIR fixes a single meaning", and row 5 (:19): "`i1`,  *)
(* values 0/1", so false is less than true on every target.  EmitLL prints *)
(* the signed comparison of an i1, whose true is -1.                       *)
AgreesOnBools ==
    /\ Finished /\ phase = "llvm" /\ Meaningful /\ strays = {} /\ status # "exhausted"
    => Shown

(* cir-spec.md:82-84: a literal argument is typed i32 whatever the callee   *)
(* takes, "the printed text is identical either way", and "the back ends   *)
(* take argument types from the callee's signature".  The lowering to a    *)
(* stack takes them from the literal, so a module that is valid when it is *)
(* compiled in one go may not be when it goes by its text.                 *)
TextValidates ==
    phase = "wasm" /\ "wasm" \in Promised(mod) => status # "invalid"
=============================================================================
