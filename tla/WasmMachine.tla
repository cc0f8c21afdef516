---------------------------- MODULE WasmMachine ----------------------------
(***************************************************************************)
(* WebAssembly as far as EmitWat.cpp uses it: validation of a module, and  *)
(* its execution, one instruction per step.  It is no code of the          *)
(* repository; the rules are those of the core specification the docs      *)
(* refer to.  Locals start at 0, addresses are unsigned, a branch cuts     *)
(* the operand stack to the height of its label, div_s traps on overflow   *)
(* and rem_s does not, and an engine gives up at some depth of calls.      *)
(***************************************************************************)
EXTENDS WatCode

CONSTANT EngineDepth    \* where the engine runs out of stack

VARIABLES
    prog,       \* the module, decoded
    status,     \* "run", "returned", "trapped", "exhausted", "refused" or "invalid"
    calls,      \* the active calls, innermost last
    memory,     \* linear memory
    globs,      \* the globals
    out,        \* what the host has been given to print
    result      \* what the entry returned

vars == <<prog, status, calls, memory, globs, out, result>>
-----------------------------------------------------------------------------
(* Validation: a pass over the body with the types on the operand stack    *)
(* and the regions that are open.  Behind a branch anything can be popped. *)
Region_(at, label, results, height) ==
    [at |-> at, label |-> label, results |-> results, height |-> height, dead |-> FALSE]
Begin(f) == [ok |-> TRUE, types |-> <<>>, open |-> <<Region_(0, <<"", 0>>, f.results, 0)>>,
             ends |-> <<>>, elses |-> <<>>]
Inner(v) == Last(v.open)

Pop(ty, v) ==
    IF Len(v.types) > Inner(v).height
    THEN [v EXCEPT !.types = Front(@), !.ok = @ /\ Last(v.types) = ty]
    ELSE [v EXCEPT !.ok = @ /\ Inner(v).dead]
PopAll(v, tys) == FoldRight(Pop, tys, v)
Push(v, tys) == [v EXCEPT !.types = @ \o tys]
Empty(v)  == [v EXCEPT !.ok = @ /\ Len(v.types) = Inner(v).height]
Die(v)    == [v EXCEPT !.types = SubSeq(@, 1, Inner(v).height), !.open[Len(v.open)].dead = TRUE]
Need(v, condition) == [v EXCEPT !.ok = @ /\ condition]
OpenRegion(v, i, op, results) ==
    [v EXCEPT !.open = Append(@, Region_(i, <<op.text, op.imm>>, results, Len(v.types)))]
Labelled(v, text, k) == \E r \in Range(v.open) : r.label = <<text, k>>

(* What an instruction takes from the operand stack and what it leaves.    *)
VarTy(vs, x) == IF \E e \in Range(vs) : e.name = x
                THEN (CHOOSE e \in Range(vs) : e.name = x).ty ELSE "none"
Signature(m, f) ==
    IF f \in m.imports THEN [takes |-> <<"i32">>, gives |-> <<>>]
    ELSE IF f \in DOMAIN m.funcs
         THEN [takes |-> [i \in DOMAIN m.funcs[f].params |-> m.funcs[f].params[i].ty],
               gives |-> m.funcs[f].results]
         ELSE [takes |-> <<"none">>, gives |-> <<>>]
OpType(m, f, op) ==
    LET T(takes, gives) == [takes |-> takes, gives |-> gives]
        local  == VarTy(f.params \o f.locals, op.text)
        global == VarTy(m.globals, op.text)
    IN CASE op.op = "const"      -> T(<<>>, <<op.ty>>)
         [] op.op = "local.get"  -> T(<<>>, <<local>>)
         [] op.op = "local.set"  -> T(<<local>>, <<>>)
         [] op.op = "global.get" -> T(<<>>, <<global>>)
         [] op.op = "global.set" -> T(<<global>>, <<>>)
         [] op.op = "load"       -> T(<<"i32">>, <<op.ty>>)
         [] op.op = "store"      -> T(<<"i32", op.ty>>, <<>>)
         [] op.op \in BinOps     -> T(<<op.ty, op.ty>>, <<op.ty>>)
         [] op.op \in Cmps       -> T(<<op.ty, op.ty>>, <<"i32">>)
         [] op.op \in {"extend_s", "extend_u"} -> T(<<"i32">>, <<"i64">>)
         [] op.op = "wrap"       -> T(<<"i64">>, <<"i32">>)
         [] op.op = "nop"        -> T(<<>>, <<>>)
         [] op.op = "call"       -> Signature(m, op.text)
Structured == {"block", "loop", "if", "else", "end", "br", "br_table", "return", "unreachable"}
Known(m, f, op) ==
    /\ op.op \in {"local.get", "local.set"} => VarTy(f.params \o f.locals, op.text) # "none"
    /\ op.op \in {"global.get", "global.set"} => VarTy(m.globals, op.text) # "none"
    /\ op.op = "call" => op.text \in m.imports \cup DOMAIN m.funcs

(* The end of a region: its results are there and nothing else.            *)
Close(v) == Empty(PopAll(v, Inner(v).results))
CheckOp(m, f, v, i) ==
    LET op == f.code[i]
    IN CASE op.op \in {"block", "loop"} -> OpenRegion(v, i, op, <<>>)
         [] op.op = "if"       -> OpenRegion(Pop("i32", v), i, op, <<"i32">>)
         [] op.op = "else"     ->
              LET c == Close(v)
              IN [c EXCEPT !.open[Len(c.open)].dead = FALSE,
                           !.elses = @ @@ (Inner(c).at :> i)]
         [] op.op = "end"      ->
              LET c == Close(v)
              IN [Push(c, Inner(c).results) EXCEPT !.open = Front(@),
                                                   !.ends = @ @@ (Inner(c).at :> i)]
         [] op.op = "br"       -> Die(Need(v, Labelled(v, op.text, op.imm)))
         [] op.op = "br_table" ->
              Die(Need(Pop("i32", v), \A k \in 0..op.imm : Labelled(v, op.text, k)))
         [] op.op = "return"   -> Die(PopAll(v, f.results))
         [] op.op = "unreachable" -> Die(v)
         [] OTHER ->
              Need(Push(PopAll(v, OpType(m, f, op).takes), OpType(m, f, op).gives), Known(m, f, op))

RECURSIVE CheckFrom(_, _, _, _)
CheckFrom(m, f, v, i) ==
    IF i > Len(f.code) THEN v
    ELSE CHOOSE r \in {CheckFrom(m, f, w, i + 1) : w \in {CheckOp(m, f, v, i)}} : TRUE
Checked(m, f) == CheckFrom(m, f, Begin(f), 1)
UniqueNames(vs) == \A i, j \in DOMAIN vs : vs[i].name = vs[j].name => i = j

(* A module as it is executed: what validation says, and the ends of its   *)
(* regions.                                                                *)
Decode(m) ==
    LET checked == [f \in DOMAIN m.funcs |-> Checked(m, m.funcs[f])]
        valid(f) == Close(checked[f]).ok /\ UniqueNames(m.funcs[f].params \o m.funcs[f].locals)
    IN [funcs   |-> [f \in DOMAIN m.funcs |->
                        [func |-> m.funcs[f], ends |-> checked[f].ends, elses |-> checked[f].elses]],
        imports |-> m.imports,
        verdict |-> IF ~m.ok THEN "refused"
                    ELSE IF UniqueNames(m.globals) /\ \A f \in DOMAIN m.funcs : valid(f)
                         THEN "run" ELSE "invalid"]
InitialGlobals(m) ==
    [g \in {e.name : e \in Range(m.globals)} |-> (CHOOSE e \in Range(m.globals) : e.name = g).init]
-----------------------------------------------------------------------------
(* Execution.  A call's frame keeps the regions it is in: where each began *)
(* and how high the operand stack was.                                     *)
Names(vs) == {e.name : e \in Range(vs)}
FrameOf(p, f, args) ==
    LET fn == p.funcs[f].func
    IN [fn |-> f, pc |-> 1, st |-> <<>>, open |-> <<>>,
        local |-> [x \in Names(fn.params \o fn.locals) |->
                      IF \E i \in DOMAIN args : fn.params[i].name = x
                      THEN args[CHOOSE i \in DOMAIN args : fn.params[i].name = x] ELSE 0]]
EntryFrame(p) == FrameOf(p, "main", <<>>)

Top   == calls[Len(calls)]
Fun   == prog.funcs[Top.fn]
Code  == Fun.func.code
Running == status = "run" /\ Top.pc \in DOMAIN Code
Ins   == Code[Top.pc]
Runs(ops) == Running /\ Ins.op \in ops
Peek(k)   == Top.st[Len(Top.st) - k]
Popped(k) == SubSeq(Top.st, 1, Len(Top.st) - k)

Moved(pc, st, open) ==
    [calls EXCEPT ![Len(calls)] = [@ EXCEPT !.pc = pc, !.st = st, !.open = open]]
Step(st) == calls' = Moved(Top.pc + 1, st, Top.open)

Address(k) == Peek(k) % 2^W32
Traps ==
    \/ Ins.op = "unreachable"
    \/ /\ Ins.op \in DivOps /\ BinOpTraps(Ins.op, Ins.ty, Peek(1), Peek(0))
       /\ Ins.op = "srem" => Peek(0) = 0
    \/ Ins.op = "load" /\ ~Inside(Address(0), SizeOf(Ins.ty))
    \/ Ins.op = "store" /\ ~Inside(Address(1), SizeOf(Ins.ty))

Stop(why) ==
    /\ status' = why /\ calls' = <<>>
    /\ UNCHANGED <<prog, memory, globs, out, result>>
Trap == Running /\ Traps /\ Stop("trapped")

PushOperand ==
    /\ Runs({"const", "local.get", "global.get"})
    /\ Step(Append(Top.st, CASE Ins.op = "const"      -> WrapInt(Ins.imm, Ins.ty)
                             [] Ins.op = "local.get"  -> Top.local[Ins.text]
                             [] Ins.op = "global.get" -> globs[Ins.text]))
    /\ UNCHANGED <<prog, status, memory, globs, out, result>>

SetLocal ==
    /\ Runs({"local.set"})
    /\ calls' = [Moved(Top.pc + 1, Popped(1), Top.open) EXCEPT ![Len(calls)].local[Ins.text] = Peek(0)]
    /\ UNCHANGED <<prog, status, memory, globs, out, result>>

SetGlobal ==
    /\ Runs({"global.set"})
    /\ globs' = [globs EXCEPT ![Ins.text] = Peek(0)]
    /\ Step(Popped(1))
    /\ UNCHANGED <<prog, status, memory, out, result>>

Load ==
    /\ Runs({"load"}) /\ ~Traps
    /\ Step(Append(Popped(1), WrapInt(Read(memory, Address(0), SizeOf(Ins.ty)), Ins.ty)))
    /\ UNCHANGED <<prog, status, memory, globs, out, result>>

Store ==
    /\ Runs({"store"}) /\ ~Traps
    /\ memory' = Write(memory, Address(1), SizeOf(Ins.ty), Peek(0))
    /\ Step(Popped(2))
    /\ UNCHANGED <<prog, status, globs, out, result>>

Compute ==
    /\ Runs(BinOps \cup Cmps) /\ ~Traps
    /\ Step(Append(Popped(2),
            IF Ins.op \in Cmps THEN ICmp(Ins.op, Ins.ty, Peek(1), Peek(0))
            ELSE WrapInt(RawBinOp(Ins.op, Ins.ty, Peek(1), Peek(0)), Ins.ty)))
    /\ UNCHANGED <<prog, status, memory, globs, out, result>>

Convert32 ==
    /\ Runs({"extend_s", "extend_u", "wrap", "nop"})
    /\ Step(CASE Ins.op \in {"extend_s", "wrap"} -> Append(Popped(1), WrapInt(Peek(0), "i32"))
              [] Ins.op = "extend_u"             -> Append(Popped(1), Unsigned(Peek(0), "i32"))
              [] Ins.op = "nop"                  -> Top.st)
    /\ UNCHANGED <<prog, status, memory, globs, out, result>>

(* block, loop and if begin a region; else and end leave it.               *)
Began(height) == Append(Top.open, [at |-> Top.pc, height |-> height])
Enter ==
    /\ Runs({"block", "loop", "if"})
    /\ calls' = IF Ins.op # "if" THEN Moved(Top.pc + 1, Top.st, Began(Len(Top.st)))
                ELSE Moved(IF Peek(0) # 0 THEN Top.pc + 1 ELSE Fun.elses[Top.pc] + 1,
                           Popped(1), Began(Len(Top.st) - 1))
    /\ UNCHANGED <<prog, status, memory, globs, out, result>>
Finish ==
    /\ Runs({"else", "end"})
    /\ calls' = Moved(Fun.ends[Last(Top.open).at] + 1, Top.st, Front(Top.open))
    /\ UNCHANGED <<prog, status, memory, globs, out, result>>

(* A branch goes to the innermost region of that label: behind the end of  *)
(* a block, to the top of a loop.                                          *)
Carries(d, text, k) == Code[Top.open[d].at].text = text /\ Code[Top.open[d].at].imm = k
Innermost(text, k) ==
    CHOOSE d \in DOMAIN Top.open :
        /\ Carries(d, text, k)
        /\ \A e \in (d + 1)..Len(Top.open) : ~Carries(e, text, k)
To(d) ==
    LET region == Top.open[d]
        st     == SubSeq(Top.st, 1, region.height)
    IN IF Code[region.at].op = "loop" THEN Moved(region.at + 1, st, SubSeq(Top.open, 1, d))
       ELSE Moved(Fun.ends[region.at] + 1, st, SubSeq(Top.open, 1, d - 1))
Entry_ == IF Peek(0) \in 0..Ins.imm THEN Peek(0) ELSE Ins.imm
Branch ==
    /\ Runs({"br", "br_table"})
    /\ calls' = IF Ins.op = "br" THEN To(Innermost(Ins.text, Ins.imm))
                ELSE To(Innermost(Ins.text, Entry_))
    /\ UNCHANGED <<prog, status, memory, globs, out, result>>

Output ==
    /\ Runs({"call"}) /\ Ins.text \in prog.imports
    /\ out' = Append(out, Peek(0))
    /\ Step(Popped(1))
    /\ UNCHANGED <<prog, status, memory, globs, result>>

Calls    == Runs({"call"}) /\ Ins.text \notin prog.imports
ArgCount == Len(prog.funcs[Ins.text].func.params)
CallArgs == [i \in 1..ArgCount |-> Peek(ArgCount - i)]
Call_ ==
    /\ Calls /\ Len(calls) < EngineDepth
    /\ calls' = Append(Moved(Top.pc + 1, Popped(ArgCount), Top.open), FrameOf(prog, Ins.text, CallArgs))
    /\ UNCHANGED <<prog, status, memory, globs, out, result>>
CallExhausts == Calls /\ Len(calls) = EngineDepth /\ Stop("exhausted")

(* The end of the body is never reached: it is behind unreachable, or      *)
(* behind blocks that all end in a return or a branch.                     *)
Return ==
    /\ Runs({"return"})
    /\ LET values  == SubSeq(Top.st, Len(Top.st) - Len(Fun.func.results) + 1, Len(Top.st))
           callers == Front(calls)
       IN IF callers = <<>>
          THEN /\ status' = "returned" /\ calls' = <<>>
               /\ result' = IF values = <<>> THEN 0 ELSE values[1]
          ELSE /\ calls' = [callers EXCEPT ![Len(callers)].st = @ \o values]
               /\ UNCHANGED <<status, result>>
    /\ UNCHANGED <<prog, memory, globs, out>>

Next == \/ Trap \/ PushOperand \/ SetLocal \/ SetGlobal \/ Load \/ Store \/ Compute
        \/ Convert32 \/ Enter \/ Finish \/ Branch \/ Output \/ Call_ \/ CallExhausts \/ Return
=============================================================================
