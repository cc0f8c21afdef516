---------------------------- MODULE LLVMMachine ----------------------------
(***************************************************************************)
(* LLVM IR as far as EmitLL.cpp uses it: what llvm-as accepts, and the     *)
(* execution of a module, one instruction per step.  It is no code of the  *)
(* repository; the rules are those of the language reference the docs      *)
(* refer to.  What the reference leaves undefined ends the run with status *)
(* "undefined", poison at once where it is made; so does an access of      *)
(* another type than the object's, which the emitter never prints.         *)
(***************************************************************************)
EXTENDS LLCode

CONSTANT EngineDepth    \* where the native stack ends

VARIABLES
    prog,       \* the module: functions, globals, verdict
    status,     \* "run", "returned", "trapped", "exhausted", "undefined", "refused" or "invalid"
    calls,      \* the active calls, innermost last
    memory,     \* the objects allocated so far: their type and elements
    globs,      \* the globals
    out,        \* what has been printed
    result      \* what the entry returned

vars == <<prog, status, calls, memory, globs, out, result>>
-----------------------------------------------------------------------------
(* llvm-as.  Types: an operand is spelled as one of the type printed, and  *)
(* a register has it; a conversion goes between widths in its direction.   *)
Defs(fn) == UNION {{ins \in Range(b.instrs) : ins.dest # NoName} : b \in Range(fn.blocks)}
LocalTy(fn, r) ==
    IF r \in Params(fn) THEN (CHOOSE p \in Range(fn.params) : p.name = r).ty
    ELSE IF \E ins \in Defs(fn) : ins.dest = r THEN (CHOOSE ins \in Defs(fn) : ins.dest = r).dty
    ELSE "none"
SpelledAs(fn, v) ==
    CASE v.k = "reg"    -> LocalTy(fn, v.name) = v.ty
      [] v.k = "int"    -> v.ty \in IntTypes
      [] v.k = "truth"  -> v.ty = "i1"
      [] v.k = "global" -> v.ty = "ptr"
Takes(ins, tys) == Len(ins.args) = Len(tys) /\ \A i \in DOMAIN tys : ins.args[i].ty = tys[i]
Width(ty) == IntWidth[ty]
Converts(ins) ==
    /\ Len(ins.args) = 1 /\ {ins.args[1].ty, ins.ty} \subseteq IntTypes
    /\ IF ins.op = "trunc" THEN Width(ins.args[1].ty) > Width(ins.ty)
                           ELSE Width(ins.args[1].ty) < Width(ins.ty)
Callee(m, ins) == m.funcs[ins.callee]
InstrFits(m, fn, ins) ==
    CASE ins.op \in BinOps -> ins.ty \in IntTypes /\ Takes(ins, <<ins.ty, ins.ty>>)
      [] ins.op \in Cmps -> ins.ty \in IntTypes \cup {"ptr"} /\ Takes(ins, <<ins.ty, ins.ty>>)
      [] ins.op \in ConvOps -> Converts(ins)
      [] ins.op = "alloca"  -> ins.args = <<>> \/ Takes(ins, <<"i32">>)
      [] ins.op = "load"    -> Takes(ins, <<"ptr">>)
      [] ins.op = "store"   -> Takes(ins, <<ins.ty, "ptr">>)
      [] ins.op = "gep"     -> Takes(ins, <<"ptr", "i32">>)
      [] ins.op = "printf"  -> Takes(ins, <<"i32">>)
      [] ins.op = "br.cond" -> Takes(ins, <<"i1">>)
      [] ins.op = "ret"     -> ins.ty = fn.ret /\ (ins.args = <<>> <=> fn.ret = "void")
      [] ins.op = "call"    ->
            /\ ins.callee \in DOMAIN m.funcs /\ Callee(m, ins).ret = ins.ty
            /\ Takes(ins, [i \in DOMAIN Callee(m, ins).params |-> Callee(m, ins).params[i].ty])
            /\ ins.dest = NoName <=> ins.ty = "void"
      [] OTHER -> TRUE

(* Structure: every block ends in its only terminator, names are given     *)
(* once, the entry is no target.                                           *)
Ends(ins) == IsTerminator(ins) \/ ins.op = "unreachable"
BlocksEnd(fn) ==
    \A b \in Range(fn.blocks) :
        b.instrs # <<>> /\ \A i \in DOMAIN b.instrs : Ends(b.instrs[i]) <=> i = Len(b.instrs)
NamesOnce(fn) ==
    Cardinality(AllRegs(fn)) = Len(fn.params)
        + MapThenSumSet(LAMBDA n : Len(SelectSeq(fn.blocks[n].instrs, LAMBDA ins : ins.dest # NoName)),
                        DOMAIN fn.blocks)

(* Dominance: no path leads to a use around the block of the definition.   *)
ReachedAround(fn, d) ==
    LET succ == [l \in Labels(fn) |-> Range(Successors(fn, l))]
        level[i \in 0..Len(fn.blocks)] ==
            IF i = 0 THEN {Entry(fn)}
            ELSE level[i - 1] \cup UNION {succ[l] : l \in level[i - 1] \ {d}}
    IN level[Len(fn.blocks)]
UsesBefore(b, r) ==
    \E i \in DOMAIN b.instrs : r \in Uses(b.instrs[i]) /\ \A j \in 1..(i - 1) : b.instrs[j].dest # r
Dominated(fn) ==
    \A b \in Range(fn.blocks) : \A ins \in Range(b.instrs) :
        ins.dest # NoName =>
            /\ ~UsesBefore(b, ins.dest)
            /\ LET others == {c \in Range(fn.blocks) : c # b /\ UsesBefore(c, ins.dest)}
               IN others # {} => {c.label : c \in others} \cap ReachedAround(fn, b.label) = {}

ValidFunction(m, fn) ==
    /\ fn.blocks # <<>> /\ UniqueLabels(fn) /\ BlocksEnd(fn)
    /\ TargetsExist(fn) /\ EntryHasNoPredecessor(fn) /\ NamesOnce(fn)
    /\ \A ins \in Instructions(fn) :
          InstrFits(m, fn, ins) /\ \A i \in DOMAIN ins.args : SpelledAs(fn, ins.args[i])
    /\ \A g \in DOMAIN m.globals : SpelledAs(fn, m.globals[g])
    /\ Dominated(fn)
Assembled(m) ==
    [funcs |-> m.funcs, globals |-> m.globals,
     verdict |-> IF ~m.ok THEN "refused"
                 ELSE IF \A f \in DOMAIN m.funcs : ValidFunction(m, m.funcs[f]) THEN "run" ELSE "invalid"]
-----------------------------------------------------------------------------
(* Values: integers (an i1 is 0 or 1), addresses of an element of an       *)
(* object or of a global, and what an object holds before it is written.   *)
Num(n)       == [k |-> "num", n |-> n, at |-> NoName]
Address(o, i) == [k |-> "object", n |-> i, at |-> o]
GlobalAt(g, i) == [k |-> "global", n |-> i, at |-> g]
Undef        == [k |-> "undef", n |-> 0, at |-> NoName]

Literal(v) == Wrap(v.v, v.ty)
InitialGlobals(p) == [g \in DOMAIN p.globals |-> Num(Literal(p.globals[g]))]

FrameOf(p, f, args) ==
    [fn |-> f, blk |-> 1, pc |-> 1, owned |-> {},
     regs |-> [x \in Params(p.funcs[f]) |->
                  args[CHOOSE i \in DOMAIN args : p.funcs[f].params[i].name = x]]]
EntryFrame(p) == FrameOf(p, "main", <<>>)

Top     == calls[Len(calls)]
Fun     == prog.funcs[Top.fn]
Running == status = "run"
Ins     == Fun.blocks[Top.blk].instrs[Top.pc]
Runs(ops) == Running /\ Ins.op \in ops
Val(v) == CASE v.k = "reg"    -> Top.regs[v.name]
            [] v.k = "global" -> GlobalAt(v.name, 0)
            [] OTHER          -> Num(Literal(v))
Arg(i) == Val(Ins.args[i])

Put(frame)  == calls' = [calls EXCEPT ![Len(calls)] = frame]
Next_(frame) == [frame EXCEPT !.pc = @ + 1]
Bound(frame, r, v) == [frame EXCEPT !.regs = (r :> v) @@ @]
Step        == Put(Next_(Top))
Define(v)   == Put(Next_(Bound(Top, Ins.dest, v)))

(* What the language reference gives no meaning to.                        *)
Held(p) == IF p.k = "global" THEN globs[p.at] ELSE memory[p.at].cells[p.n + 1]
Accessible(p) ==
    CASE p.k = "global" -> p.n = 0 /\ prog.globals[p.at].ty = Ins.ty
      [] p.k = "object" -> p.n \in 0..(Len(memory[p.at].cells) - 1) /\ memory[p.at].ty = Ins.ty
      [] OTHER          -> FALSE
IsNum(i) == Arg(i).k = "num"
(* Signed operations take an i1 for 0 or -1.                               *)
Signed(v) == IF v.k = "num" /\ Ins.ty \in IntTypes THEN WrapInt(v.n, Ins.ty) ELSE v.n
Meaningless ==
    \/ Ins.op = "unreachable"
    \/ Ins.op \in DivOps /\ BinOpTraps(Ins.op, Ins.ty, Signed(Arg(1)), Signed(Arg(2)))
    \/ Ins.op \in ShiftOps /\ Unsigned(Arg(2).n, Ins.ty) >= Width(Ins.ty)
    \/ Ins.op = "load" /\ (~Accessible(Arg(1)) \/ Held(Arg(1)) = Undef)
    \/ Ins.op = "store" /\ ~Accessible(Arg(2))
    \/ Ins.op = "gep" /\ Arg(1).k = "object" /\ memory[Arg(1).at].ty # Ins.ty
    \/ Ins.op \in Cmps \ {"icmp.eq", "icmp.ne"} /\ ~(IsNum(1) /\ IsNum(2))

Stop(why) == status' = why /\ calls' = <<>> /\ UNCHANGED <<prog, memory, globs, result>>
Undefined == Running /\ Meaningless /\ Stop("undefined") /\ UNCHANGED out

(* llvm.trap kills the process.  What printf has put into the buffer is    *)
(* written by then if stdout is a terminal, and lost if it is a pipe.      *)
Trap == Runs({"llvm.trap"}) /\ Stop("trapped") /\ out' \in {out, <<>>}

Alloca ==
    /\ Runs({"alloca"})
    /\ LET n == IF Ins.args = <<>> THEN 1 ELSE Arg(1).n
       IN memory' = Append(memory, [ty |-> Ins.ty, cells |-> [i \in 1..n |-> Undef]])
    /\ Put(Next_([Bound(Top, Ins.dest, Address(Len(memory'), 0)) EXCEPT !.owned = @ \cup {Len(memory')}]))
    /\ UNCHANGED <<prog, status, globs, out, result>>

Load ==
    /\ Runs({"load"}) /\ ~Meaningless
    /\ Define(Held(Arg(1)))
    /\ UNCHANGED <<prog, status, memory, globs, out, result>>

Store ==
    /\ Runs({"store"}) /\ ~Meaningless
    /\ LET p == Arg(2)
       IN IF p.k = "global" THEN globs' = [globs EXCEPT ![p.at] = Arg(1)] /\ UNCHANGED memory
          ELSE memory' = [memory EXCEPT ![p.at].cells[p.n + 1] = Arg(1)] /\ UNCHANGED globs
    /\ Step
    /\ UNCHANGED <<prog, status, out, result>>

Gep ==
    /\ Runs({"gep"}) /\ ~Meaningless
    /\ Define([Arg(1) EXCEPT !.n = @ + Arg(2).n])
    /\ UNCHANGED <<prog, status, memory, globs, out, result>>

Compared ==
    CASE Ins.op = "icmp.eq" -> IF Arg(1) = Arg(2) THEN 1 ELSE 0
      [] Ins.op = "icmp.ne" -> IF Arg(1) = Arg(2) THEN 0 ELSE 1
      [] OTHER              -> ICmp(Ins.op, Ins.ty, Signed(Arg(1)), Signed(Arg(2)))
Compute ==
    /\ Runs(BinOps \cup Cmps \cup ConvOps) /\ ~Meaningless
    /\ Define(Num(CASE Ins.op \in Cmps    -> Compared
                    [] Ins.op \in BinOps  -> BinOp(Ins.op, Ins.ty, Signed(Arg(1)), Signed(Arg(2)))
                    [] Ins.op \in ConvOps -> Convert(Ins.op, Ins.ty, Arg(1).n, Ins.args[1].ty)))
    /\ UNCHANGED <<prog, status, memory, globs, out, result>>

Output ==
    /\ Runs({"printf"})
    /\ out' = Append(out, Arg(1).n)
    /\ Step
    /\ UNCHANGED <<prog, status, memory, globs, result>>

Position(l) == CHOOSE n \in DOMAIN Fun.blocks : Fun.blocks[n].label = l
Branch ==
    /\ Runs({"br", "br.cond"})
    /\ LET taken == IF Ins.op = "br" \/ Arg(1).n = 1 THEN 1 ELSE 2
       IN Put([Top EXCEPT !.blk = Position(Ins.labels[taken]), !.pc = 1])
    /\ UNCHANGED <<prog, status, memory, globs, out, result>>

Call_ ==
    /\ Runs({"call"}) /\ Len(calls) < EngineDepth
    /\ calls' = Append(calls, FrameOf(prog, Ins.callee, [i \in DOMAIN Ins.args |-> Arg(i)]))
    /\ UNCHANGED <<prog, status, memory, globs, out, result>>
CallExhausts ==
    Runs({"call"}) /\ Len(calls) = EngineDepth /\ Stop("exhausted") /\ UNCHANGED out

(* The objects of a call are gone when it returns.                         *)
Return ==
    /\ Runs({"ret"})
    /\ memory' = [o \in DOMAIN memory |->
                     IF o \in Top.owned THEN [memory[o] EXCEPT !.cells = <<>>] ELSE memory[o]]
    /\ LET v       == IF Ins.args = <<>> THEN Num(0) ELSE Arg(1)
           callers == Front(calls)
           caller  == callers[Len(callers)]
           call    == prog.funcs[caller.fn].blocks[caller.blk].instrs[caller.pc]
       IN IF callers = <<>>
          THEN status' = "returned" /\ result' = v.n /\ calls' = <<>>
          ELSE /\ calls' = [callers EXCEPT ![Len(callers)] =
                               Next_(IF call.dest = NoName THEN caller ELSE Bound(caller, call.dest, v))]
               /\ UNCHANGED <<status, result>>
    /\ UNCHANGED <<prog, globs, out>>

Next == \/ Undefined \/ Trap \/ Alloca \/ Load \/ Store \/ Gep \/ Compute \/ Output
        \/ Branch \/ Call_ \/ CallExhausts \/ Return
=============================================================================
