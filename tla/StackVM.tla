------------------------------ MODULE StackVM ------------------------------
(***************************************************************************)
(* The stack VM, src/src/backend/stackvm/VM.cpp, as a machine that         *)
(* executes one bytecode instruction per step.  A nested Machine::call is  *)
(* a frame on `calls`, with its own operand stack and locals; linear       *)
(* memory is bytes, of a quarter of an i32 each; every frame's slots are   *)
(* carved off its top.  Integers are modelled, f64 is not.                 *)
(*                                                                         *)
(* A trap for the sake of the machine's limits (steps, call depth, room    *)
(* for frames) ends the run with status "exhausted", any other one with    *)
(* "trapped".                                                              *)
(***************************************************************************)
EXTENDS StackCode

CONSTANTS
    Programs,       \* what emitModule gives
    StepLimit,      \* stepLimit; 10000000 in the code
    CallDepthLimit  \* callDepthLimit; 512 in the code

VARIABLES
    prog,           \* program_
    status,         \* "run", "returned", "trapped" or "exhausted"
    calls,          \* the active calls, innermost last
    memory,         \* memory_
    stackPointer,   \* stackPointer_
    globs,          \* globals_
    steps,          \* steps_
    out,            \* what has been printed
    result          \* result.result

vars == <<prog, status, calls, memory, stackPointer, globs, steps, out, result>>

(* Machine::call up to its loop: missing arguments are 0, and so is every  *)
(* other local; the frame's address follows the parameters.                *)
NeedsFrame(f) == prog.funcs[f].frameSize > 0 /\ prog.funcs[f].params < prog.funcs[f].locals
FrameBytes(f) == IF NeedsFrame(f) THEN prog.funcs[f].frameSize ELSE 0
Bound(f, args, sp) ==
    [i \in 1..prog.funcs[f].locals |->
        IF NeedsFrame(f) /\ i = prog.funcs[f].params + 1 THEN sp
        ELSE IF i \in DOMAIN args THEN args[i] ELSE 0]
CallFrame(f, args, sp) == [fn |-> f, pc |-> 1, local |-> Bound(f, args, sp), st |-> <<>>]

Top  == calls[Len(calls)]
Code == prog.funcs[Top.fn].code
Ins  == Code[Top.pc]
Fetching  == status = "run" /\ Top.pc \in DOMAIN Code
Executing == Fetching /\ steps < StepLimit

(* pop() of an empty operand stack gives 0. *)
Peek(k) == IF Len(Top.st) > k THEN Top.st[Len(Top.st) - k] ELSE 0
Popped(k) == SubSeq(Top.st, 1, Len(Top.st) - k)

(* How the innermost frame moves on. *)
Moved(pc, st) == [calls EXCEPT ![Len(calls)] = [@ EXCEPT !.pc = pc, !.st = st]]
Step(st)      == calls' = Moved(Top.pc + 1, st)
(* Mutant: only what is executed in the entry is counted. *)
TickInEntry == steps' = IF Len(calls) = 1 THEN steps + 1 ELSE steps
Tick == steps' = steps + 1

Runs(ops) == Executing /\ Ins.op \in ops

(* trap(): every call is left, and gives its frame back. *)
Stop(why) ==
    /\ status' = why
    /\ calls' = <<>> /\ stackPointer' = MemoryBytes
    /\ UNCHANGED <<prog, memory, globs, out, result>>
-----------------------------------------------------------------------------
(* run(): the globals, then a call of the entry, which every program has. *)
Entered == FrameBytes("main") <= MemoryBytes
EntryPointer == IF Entered THEN MemoryBytes - FrameBytes("main") ELSE MemoryBytes
EntryStatus  == IF Entered THEN "run" ELSE "exhausted"
EntryCalls   == IF Entered THEN <<CallFrame("main", <<>>, EntryPointer)>> ELSE <<>>
Init == /\ prog \in Programs
        /\ status = EntryStatus /\ calls = EntryCalls /\ stackPointer = EntryPointer
        /\ memory = [a \in 0..(MemoryBytes - 1) |-> 0]
        /\ globs = prog.globals
        /\ steps = 0
        /\ out = <<>> /\ result = 0

OutOfSteps ==
    /\ Fetching /\ steps = StepLimit
    /\ Stop("exhausted") /\ Tick

(* const, local.get, global.get; a global nobody declares is 0 from then on. *)
PushOperand ==
    /\ Runs({"const", "local.get", "global.get"})
    /\ Step(Append(Top.st,
            CASE Ins.op = "const"      -> Ins.imm
              [] Ins.op = "local.get"  -> Top.local[Ins.imm]
              [] Ins.op = "global.get" -> IF Ins.text \in DOMAIN globs THEN globs[Ins.text] ELSE 0))
    /\ globs' = IF Ins.op = "global.get" /\ Ins.text \notin DOMAIN globs
                THEN Bind(globs, Ins.text, 0) ELSE globs
    /\ Tick
    /\ UNCHANGED <<prog, status, memory, stackPointer, out, result>>

SetLocal ==
    /\ Runs({"local.set"})
    /\ calls' = [Moved(Top.pc + 1, Popped(1)) EXCEPT ![Len(calls)].local[Ins.imm] = Peek(0)]
    /\ Tick
    /\ UNCHANGED <<prog, status, memory, stackPointer, globs, out, result>>

SetGlobal ==
    /\ Runs({"global.set"})
    /\ globs' = Bind(globs, Ins.text, Peek(0))
    /\ Step(Popped(1))
    /\ Tick
    /\ UNCHANGED <<prog, status, memory, stackPointer, out, result>>

Load ==
    /\ Runs({"load"}) /\ Inside(Peek(0), SizeOf(Ins.ty))
    /\ Step(Append(Popped(1), WrapInt(Read(memory, Peek(0), SizeOf(Ins.ty)), Ins.ty)))
    /\ Tick
    /\ UNCHANGED <<prog, status, memory, stackPointer, globs, out, result>>

Store ==
    /\ Runs({"store"}) /\ Inside(Peek(1), SizeOf(Ins.ty))
    /\ memory' = Write(memory, Peek(1), SizeOf(Ins.ty), Peek(0))
    /\ Step(Popped(2))
    /\ Tick
    /\ UNCHANGED <<prog, status, stackPointer, globs, out, result>>

(* Both operands are reduced to the width before anything is done to them. *)
Operand(k) == WrapInt(Peek(k), Ins.ty)
Traps ==
    \/ Ins.op \in {"trap", "unreachable"}
    \/ Ins.op \in DivOps /\ BinOpTraps(Ins.op, Ins.ty, Operand(1), Operand(0))
    \/ Ins.op = "load" /\ ~Inside(Peek(0), SizeOf(Ins.ty))
    \/ Ins.op = "store" /\ ~Inside(Peek(1), SizeOf(Ins.ty))
    \/ Ins.op = "call" /\ Ins.text # "print_i32" /\ Ins.text \notin DOMAIN prog.funcs

Binary ==
    /\ Runs(BinOps) /\ ~Traps
    /\ Step(Append(Popped(2), WrapInt(RawBinOp(Ins.op, Ins.ty, Operand(1), Operand(0)), Ins.ty)))
    /\ Tick
    /\ UNCHANGED <<prog, status, memory, stackPointer, globs, out, result>>

Compare ==
    /\ Runs(Cmps)
    /\ Step(Append(Popped(2), ICmp(Ins.op, Ins.ty, Operand(1), Operand(0))))
    /\ Tick
    /\ UNCHANGED <<prog, status, memory, stackPointer, globs, out, result>>

(* The conversions read the low 32 bits; nop, which zext to i32 becomes. *)
Converted ==
    CASE Ins.op \in {"extend_s", "wrap"} -> Append(Popped(1), WrapInt(Peek(0), "i32"))
      [] Ins.op = "extend_u"             -> Append(Popped(1), Unsigned(Peek(0), "i32"))
      [] Ins.op = "nop"                  -> Top.st
ConvertOps == {"extend_s", "extend_u", "wrap"}
Convert32 ==
    /\ Runs(ConvertOps \cup {"nop"})
    /\ Step(Converted)
    /\ Tick
    /\ UNCHANGED <<prog, status, memory, stackPointer, globs, out, result>>

(* Mutant: jz looks at its condition and leaves it. *)
JumpToKeeps ==
    /\ Runs({"jmp", "jz"})
    /\ calls' = Moved(IF Ins.op = "jmp" \/ Peek(0) = 0 THEN Ins.imm ELSE Top.pc + 1, Top.st)
    /\ Tick
    /\ UNCHANGED <<prog, status, memory, stackPointer, globs, out, result>>
JumpTo ==
    /\ Runs({"jmp", "jz"})
    /\ calls' = IF Ins.op = "jmp" THEN Moved(Ins.imm, Top.st)
                ELSE Moved(IF Peek(0) = 0 THEN Ins.imm ELSE Top.pc + 1, Popped(1))
    /\ Tick
    /\ UNCHANGED <<prog, status, memory, stackPointer, globs, out, result>>

Output ==
    /\ Runs({"call"}) /\ Ins.text = "print_i32"
    /\ out' = Append(out, WrapInt(Peek(0), "i32"))
    /\ Step(Popped(1))
    /\ Tick
    /\ UNCHANGED <<prog, status, memory, stackPointer, globs, result>>

(* The arguments are popped, the last one first, as many as the callee has *)
(* parameters; then its call begins, if its depth and frame allow.         *)
Calls == Runs({"call"}) /\ Ins.text # "print_i32" /\ ~Traps
ArgCount == prog.funcs[Ins.text].params
CallArgs == [i \in 1..ArgCount |-> Peek(ArgCount - i)]
NoRoom == Len(calls) >= CallDepthLimit \/ stackPointer < FrameBytes(Ins.text)
Call_ ==
    /\ Calls /\ ~NoRoom
    /\ stackPointer' = stackPointer - FrameBytes(Ins.text)
    /\ calls' = Append(Moved(Top.pc + 1, Popped(ArgCount)),
                       CallFrame(Ins.text, CallArgs, stackPointer'))
    /\ Tick
    /\ UNCHANGED <<prog, status, memory, globs, out, result>>

CallExhausts == Calls /\ NoRoom /\ Stop("exhausted") /\ Tick

Trap == Executing /\ Traps /\ Stop("trapped") /\ Tick

(* The end of Machine::call, by return or past the last instruction: the   *)
(* frame is released; a result is the top of the operand stack, and there  *)
(* has to be one.  Mutant: the frame is not released.                      *)
AtEnd == \/ Runs({"return"})
         \/ status = "run" /\ Top.pc = Len(Code) + 1
Leave ==
    /\ AtEnd
    /\ IF Fetching THEN Tick ELSE UNCHANGED steps
HasResult == prog.funcs[Top.fn].returns => Top.st # <<>>
ReleaseNothing(f) == stackPointer' = IF Len(calls) = 1 THEN MemoryBytes ELSE stackPointer
Release(f) == stackPointer' = stackPointer + FrameBytes(f)
Return ==
    /\ Leave /\ HasResult
    /\ LET f       == prog.funcs[Top.fn]
           value   == IF f.returns THEN <<Last(Top.st)>> ELSE <<>>
           callers == Front(calls)
       IN IF callers = <<>>
          THEN /\ status' = "returned" /\ calls' = <<>>
               /\ result' = IF f.returns THEN Last(Top.st) ELSE 0
          ELSE /\ calls' = [callers EXCEPT ![Len(callers)].st = @ \o value]
               /\ UNCHANGED <<status, result>>
    /\ Release(Top.fn)
    /\ UNCHANGED <<prog, memory, globs, out>>

NoResult == Leave /\ ~HasResult /\ Stop("trapped")

Next == \/ OutOfSteps \/ PushOperand \/ SetLocal \/ SetGlobal \/ Load \/ Store
        \/ Binary \/ Compare \/ Convert32 \/ JumpTo \/ Output \/ Call_ \/ CallExhausts
        \/ Trap \/ Return \/ NoResult

Spec == Init /\ [][Next]_vars /\ WF_vars(Next)
-----------------------------------------------------------------------------
(* The operand stack is empty wherever a jump can land: what is pushed in  *)
(* a block is popped in it, so no value is carried from a block to another *)
(* but in a local.                                                         *)
BlocksStartEmpty ==
    status = "run" /\ Top.pc \in prog.funcs[Top.fn].starts => Top.st = <<>>

(* What an instruction pops, a return that gives a value among them; and   *)
(* it is there: neither the 0 of an empty stack (VM.cpp:256) nor the trap  *)
(* of a missing result is ever used, and no call runs past its last        *)
(* instruction.                                                            *)
Takes ==
    CASE Ins.op \in BinOps \cup Cmps \cup {"store"} -> 2
      [] Ins.op \in ConvertOps \cup {"local.set", "global.set", "load", "jz"} -> 1
      [] Ins.op = "call" /\ Ins.text = "print_i32" -> 1
      [] Ins.op = "call" /\ Ins.text \in DOMAIN prog.funcs -> prog.funcs[Ins.text].params
      [] Ins.op = "return" /\ prog.funcs[Top.fn].returns -> 1
      [] OTHER -> 0
OperandsThere == status = "run" => Top.pc \in DOMAIN Code /\ Takes <= Len(Top.st)

(* The frames of the active calls lie in memory, one under another, each   *)
(* where the local of its call says; what is left lies below all of them,  *)
(* and is the whole of memory again when the last call is over.            *)
Framed     == {d \in DOMAIN calls : NeedsFrame(calls[d].fn)}
FrameOf(d) == calls[d].local[prog.funcs[calls[d].fn].params + 1]
FrameEnd(d) == FrameOf(d) + FrameBytes(calls[d].fn)
FramesApart ==
    /\ 0 <= stackPointer
    /\ \A d \in Framed : stackPointer <= FrameOf(d) /\ FrameEnd(d) <= MemoryBytes
    /\ \A d, e \in Framed : d < e => FrameEnd(e) <= FrameOf(d)
    /\ calls = <<>> => stackPointer = MemoryBytes
=============================================================================
