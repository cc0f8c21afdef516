------------------------------ MODULE Builder ------------------------------
(***************************************************************************)
(* build() of src/src/cir/Builder.cpp: the checked tree of a MiniLang      *)
(* program to CIR, one function after another.  The recursive descent is a *)
(* stack of tasks: a task lowers a node, or finishes one whose parts have  *)
(* been lowered, and is one step.  Lowered operands wait on `vals`.  The   *)
(* program is analysed first (Analyse.cpp), as the driver does, and built  *)
(* only if nothing is reported; an error of the builder's own is CIRGEN,   *)
(* after which lowering goes on and the module is dropped at the end.      *)
(* Type f64 and array globals are left out.                                *)
(***************************************************************************)
EXTENDS Arith, SequencesExt

CONSTANT MaxNesting   \* bound on the depth of the syntax trees

ASSUME NestingAssumption == MaxNesting \in Nat

VARIABLES
    program,     \* the declarations as parsed
    tree,        \* what analyse() makes of them: globals, fns, errs
    built,       \* the functions added to the module so far
    todo,        \* the tasks of the function being lowered, next one first
    vals,        \* operands lowered and not used yet, last one on top
    scopes,      \* scopes_: name -> slot, innermost last
    loops,       \* loops_: labels to continue at and to break to, innermost last
    code,        \* blocks_, the open one, and the counters names are made from
    diags        \* the codes of the builder's diagnostics

vars == <<program, tree, built, todo, vals, scopes, loops, code, diags>>

A == INSTANCE Analyse
C == INSTANCE TypeRules

Accepted == tree.errs = {}
Decl == tree.fns[Len(built) + 1]
Declared == {d.name : d \in Range(tree.fns)}
Sigs == A!Signatures(tree.fns)
-----------------------------------------------------------------------------
(* Blocks.  A label is the number of its text: base.n, "entry" is 0.       *)
Bases == <<"dead", "if.then", "if.else", "if.end", "while.head", "while.body",
           "while.end", "for.head", "for.body", "for.step", "for.end",
           "and.rhs", "and.end", "or.rhs", "or.end">>
LabelOf(base, n) == n * Len(Bases) + (CHOOSE i \in DOMAIN Bases : Bases[i] = base)
EntryLabel == 0

Empty == [blocks |-> <<[label |-> EntryLabel, instrs |-> <<>>]>>, cur |-> 1,
          nTmp |-> 0, nLabel |-> 0, nAlloca |-> 0, taken |-> {}]

IsOpen(c) == c.cur # 0
OpenBlock(c, l) ==
    [c EXCEPT !.blocks = Append(@, [label |-> l, instrs |-> <<>>]), !.cur = Len(c.blocks) + 1]
EnsureOpen(c) ==
    IF IsOpen(c) THEN c
    ELSE OpenBlock([c EXCEPT !.nLabel = @ + 1], LabelOf("dead", c.nLabel))
Emit(c, ins) ==
    LET o == EnsureOpen(c) IN [o EXCEPT !.blocks[o.cur].instrs = Append(@, ins)]
(* Mutant: the terminated block stays open. *)
TerminateOpen(c, ins) == Emit(c, ins)
Terminate(c, ins) == [Emit(c, ins) EXCEPT !.cur = 0]
BranchTo(c, l)    == Terminate(c, C!Br(l))
(* The branch that ends an arm or a body, unless it has ended already.     *)
Leave(c, l) == IF IsOpen(c) THEN BranchTo(c, l) ELSE c

(* Registers: temp() counts, uniqueName() avoids the names taken. *)
TmpName(c) == "t" \o ToString(c.nTmp)
EmitValue(c, op, ty, args) ==
    [Emit(c, C!Op(TmpName(c), op, ty, args)) EXCEPT
        !.nTmp = @ + 1, !.taken = @ \cup {TmpName(c)}]
ValueOf(c, op, ty) == C!Reg(TmpName(c), C!ResultType(op, ty))

Numbered(base, n) == IF n = 0 THEN base ELSE base \o "." \o ToString(n)
(* Mutant: a name that is taken is taken again. *)
UniqueAnyway(c, base) == base
Unique(c, base) ==
    Numbered(base, CHOOSE n \in 0..Cardinality(c.taken) :
                       /\ Numbered(base, n) \notin c.taken
                       /\ \A m \in 0..(n - 1) : Numbered(base, m) \in c.taken)

(* addAlloca(): at the top of the entry block, after the ones already there.  *)
SlotOf(c, base) == C!Reg(Unique(c, base), "ptr")
(* Mutant: where the declaration stands. *)
AllocaHere(c, base, ty, args) ==
    [Emit(c, C!Op(Unique(c, base), "alloca", ty, args)) EXCEPT
        !.nAlloca = @ + 1, !.taken = @ \cup {Unique(c, base)}]
Alloca(c, base, ty, args) ==
    [c EXCEPT !.blocks[1].instrs =
                  InsertAt(@, c.nAlloca + 1, C!Op(Unique(c, base), "alloca", ty, args)),
              !.nAlloca = @ + 1, !.taken = @ \cup {Unique(c, base)}]

(* Slots: where a name lives, in a register, in memory or as a global; the *)
(* address of a register slot is what the struct starts with, 0.           *)
Placeholder == C!ConstInt(0, "i32")
InRegister(d, reg)  == [kind |-> "register", ty |-> d.ty, len |-> d.len, reg |-> reg,
                        addr |-> Placeholder]
InMemory(ty, len, addr) == [kind |-> "memory", ty |-> ty, len |-> len, reg |-> Placeholder,
                            addr |-> addr]
IsVisible(x) == \E i \in DOMAIN scopes : x \in DOMAIN scopes[i]
Lookup(x) == A!Resolve(scopes, x)
Declare(x, slot) == scopes' = [scopes EXCEPT ![Len(scopes)] = (x :> slot) @@ @]

(* build(): the globals.  An initialiser is a literal, wrapped to its type; *)
(* none counts as 0, and anything else is an error, a converted literal     *)
(* and a negated one too.                                                   *)
GlobalNames == {tree.globals[i].name : i \in DOMAIN tree.globals}
GlobalNamed(x) == tree.globals[CHOOSE i \in DOMAIN tree.globals : tree.globals[i].name = x]
GlobalScope ==
    [x \in GlobalNames |-> [InMemory(GlobalNamed(x).ty, GlobalNamed(x).len, C!GlobalRef(x))
                               EXCEPT !.kind = "global"]]
IsLiteral(e) == e.k \in {"none", "int", "bool"}
GlobalInit(d) ==
    CASE d.init.k = "int"  -> C!ConstInt(WrapInt(d.init.value, d.ty), d.ty)
      [] d.init.k = "bool" -> C!ConstInt(d.init.value, "i1")
      [] OTHER             -> C!ConstInt(0, d.ty)
Globals == [x \in GlobalNames |-> GlobalInit(GlobalNamed(x))]
GlobalErrors(t) ==
    IF \A i \in DOMAIN t.globals : IsLiteral(t.globals[i].init) THEN {} ELSE {"CIRGEN"}

(* integerBinop and signedCompare. *)
BinaryOps == ("+" :> "add") @@ ("-" :> "sub") @@ ("*" :> "mul") @@ ("/" :> "sdiv")
    @@ ("%" :> "srem") @@ ("&" :> "and") @@ ("|" :> "or") @@ ("^" :> "xor")
    @@ ("<<" :> "shl") @@ (">>" :> "ashr")
CompareOps == ("==" :> "icmp.eq") @@ ("!=" :> "icmp.ne") @@ ("<" :> "icmp.slt")
    @@ ("<=" :> "icmp.sle") @@ (">" :> "icmp.sgt") @@ (">=" :> "icmp.sge")
-----------------------------------------------------------------------------
(* Tasks: a node to lower (stmt, expr), or a step left to do on one whose  *)
(* operands are on `vals`; n is its label number, val an operand it keeps. *)
Task(t, node)   == [t |-> t, node |-> node, n |-> 0, ty |-> "void", val |-> Placeholder]
Exec(node)      == Task("stmt", node)
Eval(node)      == Task("expr", node)
Typed(t, ty)    == [Task(t, A!NoNode) EXCEPT !.ty = ty]
Labelled(t)     == [Task(t, Head(todo).node) EXCEPT !.n = code.nLabel]
Then(t)         == [Head(todo) EXCEPT !.t = t]

Building == Accepted /\ Len(built) < Len(tree.fns)
At(t)    == Building /\ todo # <<>> /\ Head(todo).t = t
Node     == Head(todo).node
Stmt(k)  == At("stmt") /\ Node.k = k
Expr(k)  == At("expr") /\ Node.k = k
Here(base) == LabelOf(base, Head(todo).n)

Top     == vals[Len(vals)]
Below(i) == vals[Len(vals) - i]
Without(n) == SubSeq(vals, 1, Len(vals) - n)
NewLabel(c) == [c EXCEPT !.nLabel = @ + 1]

(* The task is replaced by others; the operands and the code change.       *)
Replace(tasks, vs, c) ==
    /\ todo' = tasks \o Tail(todo) /\ vals' = vs /\ code' = c
    /\ UNCHANGED <<program, tree, built>>
Quiet == UNCHANGED diags
Step(tasks, vs, c) == Replace(tasks, vs, c) /\ Quiet /\ UNCHANGED <<scopes, loops>>
Push(v, c)         == Step(<<>>, Append(vals, v), c)
Result(n, op, ty, args, c) ==
    Step(<<>>, Append(Without(n), ValueOf(c, op, ty)), EmitValue(c, op, ty, args))
(* error(): the builder goes on, with a constant for what it cannot lower. *)
Fault(tasks, vs) ==
    /\ Replace(tasks, vs, code) /\ diags' = diags \cup {"CIRGEN"} /\ UNCHANGED <<scopes, loops>>

(* The function's first task list and its scopes. *)
Prologue(d) ==
    [i \in DOMAIN d.params |-> [Task("param", d) EXCEPT !.n = i]]
    \o <<Exec(d.body), Task("close", d)>>

NoTree == [globals |-> <<>>, fns |-> <<>>, errs |-> {}]
Init ==
    /\ program = <<>> /\ tree = NoTree
    /\ built = <<>> /\ todo = <<>> /\ vals = <<>> /\ scopes = <<>> /\ loops = <<>>
    /\ code = Empty
    /\ diags = {}

(* The program is analysed, and lowering starts if there is nothing wrong. *)
Begin ==
    \E t \in {A!Analysis(program)} :
        /\ tree' = t
        /\ todo' = IF t.errs = {} THEN Prologue(t.fns[1]) ELSE <<>>
        /\ scopes' = <<GlobalScope, <<>>>>'
        /\ diags' = IF t.errs = {} THEN GlobalErrors(t) ELSE {}
        /\ UNCHANGED <<program, built, vals, loops, code>>

(* A parameter that is assigned gets a slot; another stays in its register. *)
AddParam ==
    /\ At("param")
    /\ LET p == Decl.params[Head(todo).n]
           ty == A!TypeOfNode(p)
           c == [code EXCEPT !.taken = @ \cup {p.name}]
           slot == SlotOf(c, p.name \o ".addr")
           reg  == C!Reg(p.name, ty)
       IN IF p.name \in Decl.assigned
          THEN /\ Replace(<<>>, vals, Emit(Alloca(c, p.name \o ".addr", ty, <<>>),
                                           C!Do("store", ty, <<reg, slot>>)))
               /\ Declare(p.name, InMemory(p.ty, p.len, slot))
          ELSE /\ Replace(<<>>, vals, c)
               /\ Declare(p.name, InRegister(p, reg))
    /\ Quiet /\ UNCHANGED loops

(* closeFunction: what is open at the end returns, a zero if need be.      *)
Closed ==
    IF ~IsOpen(code) THEN code
    ELSE Terminate(code, C!Ret(IF Decl.ret = "void" THEN <<>> ELSE <<C!ConstInt(0, Decl.ret)>>))
BuiltFunction ==
    [params |-> [i \in DOMAIN Decl.params |->
                    C!Reg(Decl.params[i].name, A!TypeOfNode(Decl.params[i]))],
     ret    |-> Decl.ret,
     blocks |-> Closed.blocks]
CloseFunction ==
    /\ At("close")
    /\ built' = Append(built, BuiltFunction)
    /\ todo' = IF Len(built) + 2 > Len(tree.fns) THEN <<>> ELSE Prologue(tree.fns[Len(built) + 2])
    /\ code' = Empty /\ vals' = <<>> /\ loops' = <<>>
    /\ scopes' = <<GlobalScope, <<>>>>
    /\ Quiet /\ UNCHANGED <<program, tree>>
-----------------------------------------------------------------------------
(* Statements. *)
Outer == Front(scopes)
EnterBlock ==
    /\ Stmt("block")
    /\ Replace([i \in DOMAIN Node.stmts |-> Exec(Node.stmts[i])] \o <<Task("pop", Node)>>,
               vals, code)
    /\ scopes' = Append(scopes, <<>>) /\ Quiet /\ UNCHANGED loops
LeaveBlock ==
    /\ At("pop")
    /\ Replace(<<>>, vals, code)
    /\ scopes' = Outer /\ Quiet /\ UNCHANGED loops

(* The name is in scope before its initialiser is lowered.                 *)
LetArray ==
    /\ Stmt("let") /\ Node.len > 0
    /\ Replace(<<>>, vals, Alloca(code, Node.name, Node.ty, <<C!ConstInt(Node.len, "i32")>>))
    /\ Declare(Node.name, InMemory(Node.ty, Node.len, SlotOf(code, Node.name)))
    /\ Quiet /\ UNCHANGED loops
LetScalar ==
    /\ Stmt("let") /\ Node.len = 0
    /\ LET slot == SlotOf(code, Node.name \o ".addr")
           c    == Alloca(code, Node.name \o ".addr", Node.ty, <<>>)
       IN /\ IF Node.init = A!NoNode THEN Replace(<<>>, vals, c)
             ELSE Replace(<<Eval(Node.init), Typed("store", Node.ty)>>, Append(vals, slot), c)
          /\ Declare(Node.name, InMemory(Node.ty, 0, slot))
    /\ Quiet /\ UNCHANGED loops

(* addressOf: of a name its slot, of an element a gep on the base's slot.  *)
(* The type stored is the slot's.                                          *)
ElementTasks(e, slot) == <<Eval(e.index), [Typed("gep", slot.ty) EXCEPT !.val = slot.addr]>>
Assign ==
    /\ Stmt("assign")
    /\ LET target == Node.target
           slot   == Lookup(IF target.k = "var" THEN target.name ELSE target.base.name)
           value  == <<Eval(Node.expr), Typed("store", slot.ty)>>
       IN IF target.k = "index" THEN Step(ElementTasks(target, slot) \o value, vals, code)
          ELSE IF slot.kind = "register" THEN Fault(value, Append(vals, Placeholder))
          ELSE Step(value, Append(vals, slot.addr), code)
StoreValue ==
    /\ At("store")
    /\ Step(<<>>, Without(2), Emit(code, C!Do("store", Head(todo).ty, <<Top, Below(1)>>)))

ExprStmt == /\ Stmt("expr")
            /\ Step(<<Eval(Node.expr), Task("drop", Node)>>, vals, code)
Drop     == /\ At("drop")
            /\ Step(<<>>, Without(1), code)

Return ==
    /\ Stmt("return")
    /\ IF Node.expr = A!NoNode THEN Step(<<>>, vals, Terminate(code, C!Ret(<<>>)))
       ELSE Step(<<Eval(Node.expr), Task("return", Node)>>, vals, code)
ReturnValue ==
    /\ At("return")
    /\ Step(<<>>, Without(1), Terminate(code, C!Do("ret", Decl.ret, <<Top>>)))

If == /\ Stmt("if")
      /\ Step(<<Eval(Node.cond), Labelled("if.then")>>, vals, NewLabel(code))
ElseBase == IF Node.else # A!NoNode THEN "if.else" ELSE "if.end"
IfThen ==
    /\ At("if.then")
    /\ Step(<<Exec(Node.then), Then("if.else")>>, Without(1),
            OpenBlock(Terminate(code, C!BrCond(Top, Here("if.then"), Here(ElseBase))),
                      Here("if.then")))
(* `ty` of the task remembers whether an arm has reached the end. *)
IfElse ==
    /\ At("if.else")
    /\ LET c == Leave(code, Here("if.end"))
       IN IF Node.else = A!NoNode
          THEN Step(<<>>, vals, OpenBlock(c, Here("if.end")))
          ELSE Step(<<Exec(Node.else),
                      [Then("if.end") EXCEPT !.ty = IF IsOpen(code) THEN "i1" ELSE "void"]>>,
                    vals, OpenBlock(c, Here("if.else")))
(* Mutant: the join is not opened when only the first arm reaches it. *)
JoinNeededLast == IsOpen(code)
JoinNeeded == IsOpen(code) \/ Head(todo).ty = "i1"
IfEnd ==
    /\ At("if.end")
    /\ LET c == Leave(code, Here("if.end"))
       IN Step(<<>>, vals, IF JoinNeeded THEN OpenBlock(c, Here("if.end")) ELSE c)

(* while: head, body, end. *)
While ==
    /\ Stmt("while")
    /\ LET head == LabelOf("while.head", code.nLabel)
       IN Step(<<Eval(Node.cond), Labelled("while.body")>>, vals,
               OpenBlock(BranchTo(NewLabel(code), head), head))
WhileBody ==
    /\ At("while.body")
    /\ Replace(<<Exec(Node.body), Then("while.end")>>, Without(1),
               OpenBlock(Terminate(code, C!BrCond(Top, Here("while.body"), Here("while.end"))),
                         Here("while.body")))
    /\ loops' = Append(loops, [next |-> Here("while.head"), exit |-> Here("while.end")])
    /\ Quiet /\ UNCHANGED scopes
WhileEnd ==
    /\ At("while.end")
    /\ Replace(<<>>, vals, OpenBlock(Leave(code, Here("while.head")), Here("while.end")))
    /\ loops' = Front(loops) /\ Quiet /\ UNCHANGED scopes

(* for: head, body, step, end; the init clause scopes to the loop.         *)
For ==
    /\ Stmt("for")
    /\ Replace((IF Node.init = A!NoNode THEN <<>> ELSE <<Exec(Node.init)>>)
               \o <<Labelled("for.head")>>, vals, NewLabel(code))
    /\ scopes' = Append(scopes, <<>>) /\ Quiet /\ UNCHANGED loops
ForHead ==
    /\ At("for.head")
    /\ Step((IF Node.cond = A!NoNode THEN <<>> ELSE <<Eval(Node.cond)>>) \o <<Then("for.body")>>,
            vals, OpenBlock(BranchTo(code, Here("for.head")), Here("for.head")))
(* Mutant: continue starts the next round without the step. *)
ForLoopAtHead == [next |-> Here("for.head"), exit |-> Here("for.end")]
ForLoop == [next |-> Here("for.step"), exit |-> Here("for.end")]
ForBody ==
    /\ At("for.body")
    /\ Replace(<<Exec(Node.body), Then("for.step")>>,
               IF Node.cond = A!NoNode THEN vals ELSE Without(1),
               OpenBlock(IF Node.cond = A!NoNode THEN BranchTo(code, Here("for.body"))
                         ELSE Terminate(code, C!BrCond(Top, Here("for.body"), Here("for.end"))),
                         Here("for.body")))
    /\ loops' = Append(loops, ForLoop)
    /\ Quiet /\ UNCHANGED scopes
ForStep ==
    /\ At("for.step")
    /\ Replace((IF Node.step = A!NoNode THEN <<>> ELSE <<Exec(Node.step)>>) \o <<Then("for.end")>>,
               vals, OpenBlock(Leave(code, Here("for.step")), Here("for.step")))
    /\ loops' = Front(loops) /\ Quiet /\ UNCHANGED scopes
ForEnd ==
    /\ At("for.end")
    /\ Replace(<<>>, vals, OpenBlock(BranchTo(code, Here("for.head")), Here("for.end")))
    /\ scopes' = Outer /\ Quiet /\ UNCHANGED loops

(* The analyser has seen to it that there is a loop. *)
BreakOrContinue ==
    /\ Stmt("break") \/ Stmt("continue")
    /\ Step(<<>>, vals, IF loops = <<>> THEN code
                        ELSE BranchTo(code, IF Node.k = "break" THEN Last(loops).exit
                                                                ELSE Last(loops).next))
-----------------------------------------------------------------------------
(* Expressions. *)
Literal ==
    /\ Expr("int") \/ Expr("bool")
    /\ Push(C!ConstInt(Node.value, Node.ty), code)

(* A register or the base of an array as it is, otherwise a load.  A name  *)
(* without storage is a function's.                                        *)
VarRef ==
    /\ Expr("var")
    /\ IF ~IsVisible(Node.name) THEN Fault(<<>>, Append(vals, Placeholder))
       ELSE LET s == Lookup(Node.name)
            IN IF s.kind = "register" THEN Push(s.reg, code)
               ELSE IF s.len > 0 THEN Push(s.addr, code)
               ELSE Push(ValueOf(code, "load", s.ty), EmitValue(code, "load", s.ty, <<s.addr>>))

IndexRef ==
    /\ Expr("index")
    /\ LET s == Lookup(Node.base.name)
       IN Step(ElementTasks(Node, s) \o <<Typed("load", s.ty)>>, vals, code)
(* A gep is printed with the element's type and defines a pointer. *)
Gep ==
    /\ At("gep")
    /\ Result(1, "gep", Head(todo).ty, <<Head(todo).val, Top>>, code)
LoadElement ==
    /\ At("load")
    /\ Result(1, "load", Head(todo).ty, <<Top>>, code)

(* Minus in front of a literal is part of it, otherwise it is a            *)
(* subtraction from zero.                                                  *)
IsNegative(e) == e.k = "unary" /\ e.op = "-" /\ e.operand.k = "int"
UnaryOperand ==
    /\ Expr("unary")
    /\ IF IsNegative(Node)
       THEN Push(C!ConstInt(WrapInt(-Node.operand.value, Node.ty), Node.ty), code)
       ELSE Step(<<Eval(Node.operand), Task("unary", Node)>>, vals, code)
UnaryResult ==
    /\ At("unary")
    /\ IF Node.op = "-" THEN Result(1, "sub", Node.ty, <<C!ConstInt(0, Node.ty), Top>>, code)
       ELSE Result(1, "not", Node.ty, <<Top>>, code)

(* A literal adopts the type it is converted to, anything else costs an    *)
(* instruction.                                                            *)
ConvOperand ==
    /\ Expr("conv")
    /\ IF Node.operand.k = "int"
       THEN Push(C!ConstInt(WrapInt(Node.operand.value, Node.ty), Node.ty), code)
       ELSE Step(<<Eval(Node.operand), Task("conv", Node)>>, vals, code)
ConvResult ==
    /\ At("conv")
    /\ Result(1, IF Node.operand.ty = "i1" THEN "zext" ELSE "sext", Node.ty, <<Top>>, code)

(* Mutant: the right operand is lowered first. *)
OperandsSwapped(e) == <<Eval(e.rhs), Eval(e.lhs), Task("binary", e)>>
Operands(e) == <<Eval(e.lhs), Eval(e.rhs), Task("binary", e)>>
BinaryOperands ==
    /\ Expr("binary") /\ Node.op \notin {"&&", "||"}
    /\ Step(Operands(Node), vals, code)
BinaryResult ==
    /\ At("binary")
    /\ IF Node.op \in DOMAIN CompareOps
       THEN Result(2, CompareOps[Node.op], Below(1).ty, <<Below(1), Top>>, code)
       ELSE Result(2, BinaryOps[Node.op], Node.ty, <<Below(1), Top>>, code)

(* && and ||: a slot takes the left operand, and the right one only where  *)
(* it can matter.                                                          *)
Prefix == IF Node.op = "&&" THEN "and" ELSE "or"
ShortCircuit ==
    /\ Expr("binary") /\ Node.op \in {"&&", "||"}
    /\ LET base == Prefix \o "." \o ToString(code.nLabel)
       IN Step(<<Eval(Node.lhs), [Labelled("right") EXCEPT !.val = SlotOf(code, base)]>>,
               vals, Alloca(NewLabel(code), base, "i1", <<>>))
RightMatters(v, right, end) ==
    IF Node.op = "&&" THEN C!BrCond(v, right, end) ELSE C!BrCond(v, end, right)
ShortRight ==
    /\ At("right")
    /\ LET right  == Here(Prefix \o ".rhs")
           stored == Emit(code, C!Do("store", "i1", <<Top, Head(todo).val>>))
       IN Step(<<Eval(Node.rhs), Then("joined")>>, Without(1),
               OpenBlock(Terminate(stored, RightMatters(Top, right, Here(Prefix \o ".end"))), right))
ShortEnd ==
    /\ At("joined")
    /\ LET end == Here(Prefix \o ".end")
           stored == Emit(code, C!Do("store", "i1", <<Top, Head(todo).val>>))
       IN Result(1, "load", "i1", <<Head(todo).val>>, OpenBlock(BranchTo(stored, end), end))

(* Calls.  One that gives nothing, and print_int, stand for the constant 0. *)
CallArguments ==
    /\ Expr("call")
    /\ Step([i \in DOMAIN Node.args |-> Eval(Node.args[i])]
            \o <<Task(IF Node.callee = "print_int" THEN "print" ELSE "call", Node)>>, vals, code)
PrintArgument ==
    /\ At("print")
    /\ Step(<<>>, Append(Without(1), Placeholder), Emit(code, C!Do("print.i32", "i32", <<Top>>)))
CallResult ==
    /\ At("call")
    /\ LET n    == Len(Node.args)
           ty   == Sigs[Node.callee].ret
           args == SubSeq(vals, Len(vals) - n + 1, Len(vals))
       IN IF ty = "void"
          THEN Step(<<>>, Append(Without(n), Placeholder),
                    Emit(code, C!Call(C!NoName, ty, Node.callee, args)))
          ELSE Step(<<>>, Append(Without(n), C!Reg(TmpName(code), ty)),
                    [Emit(code, C!Call(TmpName(code), ty, Node.callee, args)) EXCEPT
                        !.nTmp = @ + 1, !.taken = @ \cup {TmpName(code)}])
-----------------------------------------------------------------------------
Statement ==
    \/ EnterBlock \/ LeaveBlock \/ LetArray \/ LetScalar \/ Assign \/ StoreValue
    \/ ExprStmt \/ Drop \/ Return \/ ReturnValue \/ If \/ IfThen \/ IfElse \/ IfEnd
    \/ While \/ WhileBody \/ WhileEnd \/ For \/ ForHead \/ ForBody \/ ForStep \/ ForEnd
    \/ BreakOrContinue
Expression ==
    \/ Literal \/ VarRef \/ IndexRef \/ Gep \/ LoadElement \/ UnaryOperand \/ UnaryResult
    \/ ConvOperand \/ ConvResult
    \/ BinaryOperands \/ BinaryResult \/ ShortCircuit \/ ShortRight \/ ShortEnd
    \/ CallArguments \/ PrintArgument \/ CallResult
Next == AddParam \/ CloseFunction \/ Statement \/ Expression
-----------------------------------------------------------------------------
Finished == Accepted => Len(built) = Len(tree.fns)
(* What is built is a module only if neither part has reported anything.   *)
HasModule == Finished /\ Accepted /\ diags = {}

(* While a function is being lowered, every block but the open one ends in *)
(* its only terminator, the open one has none, and no two share a label    *)
(* (Builder.h:7, "every block is closed with exactly one terminator"); when*)
(* it is closed, no scope, loop or operand of its body is left.            *)
Terminated(b) == Cardinality({i \in DOMAIN b.instrs : C!IsTerminator(b.instrs[i])}) = 1
                 /\ C!HasTerminator(b)
BlocksClosed ==
    /\ \A i \in DOMAIN code.blocks :
        /\ IF i = code.cur
           THEN \A j \in DOMAIN code.blocks[i].instrs : ~C!IsTerminator(code.blocks[i].instrs[j])
           ELSE Terminated(code.blocks[i])
        /\ \A j \in DOMAIN code.blocks : code.blocks[i].label = code.blocks[j].label => i = j
    /\ At("close") => Len(scopes) = 2 /\ loops = <<>> /\ vals = <<>>

(* Every slot is allocated at the top of the entry block, so it exists on  *)
(* every path (Builder.cpp:207, "Allocas live at the top of the entry      *)
(* block"), and only once a call, whatever loop its declaration is in.     *)
AllocasOnTop ==
    \A i \in DOMAIN code.blocks : \A j \in DOMAIN code.blocks[i].instrs :
        (code.blocks[i].instrs[j].op = "alloca") <=> (i = 1 /\ j <= code.nAlloca)

CodeInShape == BlocksClosed /\ AllocasOnTop

(* The zero that closes a function with a result is returned by no run:    *)
(* the analyser has made sure that a return is on every path               *)
(* (Builder.cpp:398, "so this block is unreachable").                      *)
ReachableSoFar ==
    LET fn == [params |-> <<>>, blocks |-> code.blocks]
        level[i \in 0..Len(code.blocks)] ==
            IF i = 0 THEN {EntryLabel}
            ELSE LET before == level[i - 1]
                 IN before \cup UNION {Range(C!Successors(fn, l)) : l \in before}
    IN level[Len(code.blocks)]
ControlNeverArrives ==
    At("close") /\ IsOpen(code) /\ Decl.ret # "void" =>
        code.blocks[code.cur].label \notin ReachableSoFar

(* Nodes of a function the analyser accepts and the builder or the CIR     *)
(* verifier does not: the name of a function read as a value, an element   *)
(* of an array parameter, a call of a void function used as an operand, a  *)
(* shift by a count of another type, an initialiser that reads the name it *)
(* is for (lowerLet declares the name first, the analyser last).           *)
Nodes(d) == A!Below(d.body, MaxNesting)
ReadsFunction(n) == n.k = "var" /\ n.sym = "function"
IndexesParameter(n) == n.k = "index" /\ n.sym = "parameter"
UsesNothing(n) ==
    n.k # "expr" /\ \E c \in A!Children(n) : c.k = "call" /\ c.ty = "void"
ShiftsByAnother(n) == n.k = "binary" /\ n.op \in A!ShiftOps /\ n.lhs.ty # n.rhs.ty
NamesItself(n) ==
    n.k = "let" /\ \E x \in A!Below(n.init, MaxNesting) : x.k = "var" /\ x.name = n.name
IsSound(d) ==
    \A n \in Nodes(d) : ~ \/ ReadsFunction(n) \/ IndexesParameter(n) \/ UsesNothing(n)
                          \/ ShiftsByAnother(n) \/ NamesItself(n)

(* The builder refuses an accepted program for two reasons only, a global  *)
(* initialiser that is not a literal once it is converted and a function   *)
(* read as a value: it never finds a name without storage, nor assigns a   *)
(* parameter it has left in a register (Builder.cpp:415, "reaching here    *)
(* means the two disagree").                                               *)
RefusesForAReason ==
    Accepted /\ Finished =>
        (diags # {} <=> \/ \E i \in DOMAIN tree.globals : ~IsLiteral(tree.globals[i].init)
                        \/ \E d \in Range(tree.fns) : \E n \in Nodes(d) : ReadsFunction(n))

(* What is built passes the rules of verify(): the graph is sound, types   *)
(* match, and every use is listed after a definition and preceded by one   *)
(* on every path to it, though an operand waits while && and || open       *)
(* blocks.  The blocks are in the order the passes need: an edge goes back *)
(* in the listing only to a loop's head, which every path has been         *)
(* through.                                                                *)
Listing(fn) == FlattenSeq([i \in DOMAIN fn.blocks |-> fn.blocks[i].instrs])
LabelsAvoiding(fn, r) ==
    LET level[i \in 0..Len(fn.blocks)] ==
            IF i = 0 THEN IF r \in C!Params(fn) THEN {} ELSE {EntryLabel}
            ELSE LET before == level[i - 1]
                 IN before \cup UNION {Range(C!Successors(fn, l)) :
                                       l \in {x \in before : r \notin C!DefinedBy(fn, x, {})}}
    IN level[Len(fn.blocks)]
DefinedOnEveryPath(fn) ==
    \A r \in C!AllRegs(fn) : \A l \in LabelsAvoiding(fn, r) : r \notin C!UndefinedUses(fn, l, {})
ListedBeforeUse(fn) ==
    LET listing == Listing(fn)
    IN \A n \in DOMAIN listing :
          C!Uses(listing[n]) \subseteq
              C!Params(fn) \cup UNION {C!Dest(listing[i]) : i \in 1..(n - 1)}
LabelsShortOf(fn, d) ==
    LET level[i \in 0..Len(fn.blocks)] ==
            IF i = 0 THEN {EntryLabel}
            ELSE LET before == level[i - 1]
                 IN before \cup UNION {Range(C!Successors(fn, l)) : l \in before \ {d}}
    IN level[Len(fn.blocks)]
GoesBackToHeads(fn) ==
    \A i \in DOMAIN fn.blocks : \A j \in 1..(i - 1) :
        fn.blocks[j].label \in Range(C!BlockSuccessors(fn.blocks[i])) =>
            fn.blocks[i].label \notin LabelsShortOf(fn, fn.blocks[j].label)
PassesVerify(fn) ==
    /\ C!CheckCfg(fn) = {} /\ C!TypeErrors(fn, Sigs) = {}
    /\ DefinedOnEveryPath(fn) /\ ListedBeforeUse(fn) /\ GoesBackToHeads(fn)
(* A function is looked at when it has just been added to the module.      *)
JustBuilt == built # <<>> /\ code = Empty
BuiltPassesVerify == JustBuilt /\ IsSound(tree.fns[Len(built)]) => PassesVerify(Last(built))

(* No register is named twice (Builder.cpp:98, "A register named after a   *)
(* source name, uniquified on collision").  temp() does not look at the    *)
(* names taken, so a parameter or an array called t0 shares its register   *)
(* with the first temporary; apart from such names it holds: shadowed and  *)
(* repeated names get slots of their own.                                  *)
NamedOnce(fn) ==
    LET names == C!Params(fn) \cup UNION {C!Dest(ins) : ins \in Range(Listing(fn))}
    IN Cardinality(names) =
          Len(fn.params) + Len(SelectSeq(Listing(fn), LAMBDA ins : ins.dest # C!NoName))
TmpNames == {"t" \o ToString(n) : n \in 0..20}
KeptNames(d) ==
    {d.params[i].name : i \in DOMAIN d.params}
    \cup {x.name : x \in {y \in Nodes(d) : y.k = "let" /\ y.len > 0}}
ShadowsGetSlots ==
    JustBuilt /\ KeptNames(tree.fns[Len(built)]) \cap TmpNames = {} => NamedOnce(Last(built))
=============================================================================
