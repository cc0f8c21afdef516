------------------------------ MODULE Analyse ------------------------------
(***************************************************************************)
(* analyse() of src/src/sema/Analyse.cpp: the type checker.  It gives the  *)
(* tree back with a type on every expression (TypeInfo::setType), what a   *)
(* name stands for on every reference (setSymbol) and a Conv around every  *)
(* expression it widens, and the set of the diagnostics' codes.            *)
(*                                                                         *)
(* A type "void" on an expression stands for "already reported", but it is *)
(* also the type of a call of a void function, of which nothing is said.   *)
(*                                                                         *)
(* The state of the Checker is a record env: scopes (innermost last), sigs *)
(* (the signatures of the functions), ret (returnType_), depth (the loops  *)
(* around).  Each check gives a record with the rewritten node and errs.   *)
(***************************************************************************)
EXTENDS AST

IsInteger(ty) == ty \in {"i1", "i32", "i64"}
TypeOfNode(d) == IF d.len > 0 THEN "ptr" ELSE d.ty

(* isAutomaticWidening: the conversions made without being written. *)
Widens(from, to) ==
    <<from, to>> \in {<<"i32", "i64">>, <<"i32", "f64">>, <<"i1", "i32">>, <<"i1", "i64">>}

(* Scopes: a name can be declared once in each. *)
Symbol(kind, d) == [kind |-> kind, ty |-> d.ty, len |-> d.len]
SymbolTy(sym)   == IF sym.len > 0 THEN "ptr" ELSE sym.ty
IsTaken(scopes, x) == x \in DOMAIN Last(scopes)
Declared(scopes, x, sym) ==
    IF IsTaken(scopes, x) THEN scopes ELSE [scopes EXCEPT ![Len(scopes)] = (x :> sym) @@ @]
Duplicate(scopes, x) == IF IsTaken(scopes, x) THEN {"E002"} ELSE {}
Found(scopes, x) == \E i \in DOMAIN scopes : x \in DOMAIN scopes[i]
Resolve(scopes, x) ==
    scopes[CHOOSE i \in DOMAIN scopes :
              /\ x \in DOMAIN scopes[i]
              /\ \A j \in DOMAIN scopes : j > i => x \notin DOMAIN scopes[j]][x]

Typed(e, ty) == ("ty" :> ty) @@ e
Meant(e, ty, kind) == ("sym" :> kind) @@ Typed(e, ty)
Says(node, errs) == [node |-> node, errs |-> errs]
Unless(ok, code) == IF ok THEN {} ELSE {code}
VoidUnless(ok, ty) == IF ok THEN ty ELSE "void"
Converted(node, ty) == IF node.ty = ty THEN node ELSE Typed(Conv(node), ty)

ShiftOps    == {"<<", ">>"}
LogicalOps  == {"&&", "||"}
Comparisons == {"==", "!=", "<", "<=", ">", ">="}
BitwiseOps  == {"&", "|", "^"}

(* The type two operands are brought to: the narrower one is widened. *)
Unified(t1, t2) ==
    IF t1 = t2 \/ Widens(t2, t1) THEN t1 ELSE IF Widens(t1, t2) THEN t2 ELSE "none"
OperatorTakes(op, ty) ==
    CASE op \in Comparisons -> TRUE
      [] op \in BitwiseOps  -> IsInteger(ty)
      [] op = "%"           -> IsInteger(ty)
      [] OTHER              -> IsInteger(ty) \/ ty = "f64"
-----------------------------------------------------------------------------
RECURSIVE CheckExpr(_, _)

(* coerce: an expression where a value of type `want` is needed.  Nothing  *)
(* is said when either is void; a refusal of the reverse of a widening is  *)
(* a narrowing, E005, and any other has the code of its context.           *)
Fitted(c, want, code) ==
    LET have == c.node.ty
    IN IF have = want \/ "void" \in {have, want} THEN c
       ELSE IF Widens(have, want) THEN Says(Converted(c.node, want), c.errs)
       ELSE Says(c.node, c.errs \cup {IF Widens(want, have) THEN "E005" ELSE code})
Coerce(e, want, code, env) == Fitted(CheckExpr(e, env), want, code)

CheckVarRef(e, env) ==
    IF ~Found(env.scopes, e.name) THEN Says(Meant(e, "void", "none"), {"E001"})
    ELSE LET sym == Resolve(env.scopes, e.name)
         IN Says(Meant(e, SymbolTy(sym), sym.kind), {})

UnaryTakes(op, ty) ==
    CASE op = "-" -> IsInteger(ty) \/ ty = "f64"
      [] op = "~" -> IsInteger(ty)
      [] op = "!" -> ty = "i1"
UnaryOf(e, c) ==
    LET ok == c.node.ty = "void" \/ UnaryTakes(e.op, c.node.ty)
    IN Says(Typed([e EXCEPT !.operand = c.node], VoidUnless(ok, c.node.ty)),
            c.errs \cup Unless(ok, "E003"))

(* Shifts take two integers of any types; && and || two bools.             *)
BinaryOf(e, l, r) ==
    LET lt   == l.node.ty
        rt   == r.node.ty
        both == Unified(lt, rt)
        known == lt # "void" /\ rt # "void"
        ok == CASE e.op \in ShiftOps   -> IsInteger(lt) /\ IsInteger(rt)
                [] e.op \in LogicalOps -> lt = "i1" /\ rt = "i1"
                [] OTHER               -> both # "none" /\ OperatorTakes(e.op, both)
        ty == CASE e.op \in ShiftOps                 -> lt
                [] e.op \in LogicalOps \cup Comparisons -> "i1"
                [] OTHER                             -> both
        widened == known /\ e.op \notin ShiftOps \cup LogicalOps /\ both # "none"
        typed == [e EXCEPT !.lhs = IF widened THEN Converted(l.node, both) ELSE l.node,
                           !.rhs = IF widened THEN Converted(r.node, both) ELSE r.node]
    IN Says(Typed(typed, VoidUnless(known /\ ok, ty)),
            l.errs \cup r.errs \cup Unless(known => ok, "E003"))

IsKnown(e, sigs)  == e.callee \in DOMAIN sigs
ArgsFit(e, sigs)  == IsKnown(e, sigs) /\ Len(sigs[e.callee].params) = Len(e.args)
CallOf(e, sigs, args) ==
    Says(Typed([e EXCEPT !.args = [i \in DOMAIN args |-> args[i].node]],
               IF IsKnown(e, sigs) THEN sigs[e.callee].ret ELSE "void"),
         UNION {args[i].errs : i \in DOMAIN args}
         \cup Unless(IsKnown(e, sigs), "E006")
         \cup Unless(IsKnown(e, sigs) => ArgsFit(e, sigs), "E007"))

IndexOf(e, base, scopes, c) ==
    LET array == base.errs = {} /\ Resolve(scopes, e.base.name).len > 0
        ok    == array /\ (c.node.ty = "void" \/ IsInteger(c.node.ty))
    IN Says(Meant([e EXCEPT !.index = c.node, !.base = base.node],
                  IF ok THEN Resolve(scopes, e.base.name).ty ELSE "void", base.node.sym),
            c.errs \cup base.errs \cup Unless(base.errs # {} \/ ok, "E012"))

CheckExpr(e, env) ==
    CASE e.k = "int"    -> Says(Typed(e, "i32"), {})
      [] e.k = "bool"   -> Says(Typed(e, "i1"), {})
      [] e.k = "var"    -> CheckVarRef(e, env)
      [] e.k = "unary"  -> UnaryOf(e, CheckExpr(e.operand, env))
      [] e.k = "binary" -> BinaryOf(e, CheckExpr(e.lhs, env), CheckExpr(e.rhs, env))
      [] e.k = "call"   ->
            CallOf(e, env.sigs,
                   [i \in DOMAIN e.args |->
                       IF ArgsFit(e, env.sigs)
                       THEN Coerce(e.args[i], env.sigs[e.callee].params[i], "E008", env)
                       ELSE CheckExpr(e.args[i], env)])
      [] e.k = "index"  -> IndexOf(e, CheckVarRef(e.base, env), env.scopes, CheckExpr(e.index, env))
-----------------------------------------------------------------------------
RECURSIVE CheckStmt(_, _), CheckStmts(_, _, _)

(* Statements give the scopes they leave behind too. *)
Stated(node, scopes, errs) == [node |-> node, scopes |-> scopes, errs |-> errs]
Inside(env)    == [env EXCEPT !.scopes = Append(@, <<>>)]
InLoop(env)    == [env EXCEPT !.depth = @ + 1]
With(env, s)   == [env EXCEPT !.scopes = s.scopes]
Nothing        == Says(NoNode, {})
OptionalStmt(s, env) == IF s = NoNode THEN Stated(NoNode, env.scopes, {}) ELSE CheckStmt(s, env)
(* A condition is a bool, or has been reported. *)
IsCondition(c) == Says(c.node, c.errs \cup Unless(c.node.ty \in {"i1", "void"}, "E003"))
Condition(e, env) == IF e = NoNode THEN Nothing ELSE IsCondition(CheckExpr(e, env))

Following(s, rest, done, env) ==
    CheckStmts(rest, [stmts |-> Append(done.stmts, s.node), errs |-> done.errs \cup s.errs],
               With(env, s))
CheckStmts(ss, done, env) ==
    IF ss = <<>> THEN Stated(Block(done.stmts), env.scopes, done.errs)
    ELSE Following(CheckStmt(Head(ss), env), Tail(ss), done, env)
OutOf(c, scopes) == [c EXCEPT !.scopes = scopes]
CheckBlock(s, env) ==
    OutOf(CheckStmts(s.stmts, [stmts |-> <<>>, errs |-> {}], Inside(env)), env.scopes)

(* The initialiser of a variable; an array takes none.                     *)
Initialiser(d, env) ==
    IF d.init = NoNode THEN Nothing
    ELSE IF d.len > 0 THEN Says(d.init, {"E004"})
    ELSE Coerce(d.init, d.ty, "E004", env)
(* The name is declared after its initialiser has been checked. *)
LetOf(s, env, c) ==
    Stated([s EXCEPT !.init = c.node], Declared(env.scopes, s.name, Symbol("local", s)),
           c.errs \cup Duplicate(env.scopes, s.name))

IsWhole(s, t) == s.target.k = "var" /\ (t.node.sym = "function" \/ t.node.ty = "ptr")
AssignOf(s, t, env) ==
    IF t.node.ty = "void" THEN Stated([s EXCEPT !.target = t.node], env.scopes, t.errs)
    ELSE LET c == Coerce(s.expr, t.node.ty, "E004", env)
         IN Stated([s EXCEPT !.target = t.node, !.expr = c.node], env.scopes,
                   t.errs \cup c.errs \cup Unless(~IsWhole(s, t), "E004"))

Returned(s, env) ==
    IF s.expr = NoNode THEN Says(NoNode, Unless(env.ret = "void", "E009"))
    ELSE IF env.ret = "void" THEN CheckExpr(s.expr, env)
    ELSE Coerce(s.expr, env.ret, "E004", env)
ReturnOf(s, c, env) ==
    Stated([s EXCEPT !.expr = c.node], env.scopes,
           c.errs \cup Unless(env.ret = "void" => s.expr = NoNode, "E010"))

IfOf(s, c, t, f, env) ==
    Stated([s EXCEPT !.cond = c.node, !.then = t.node, !.else = f.node],
           env.scopes, c.errs \cup t.errs \cup f.errs)
WhileOf(s, c, b, env) ==
    Stated([s EXCEPT !.cond = c.node, !.body = b.node], env.scopes, c.errs \cup b.errs)

(* The init clause scopes to the loop; the step is checked after the body. *)
ForOf(s, i, c, b, step, env) ==
    Stated([s EXCEPT !.init = i.node, !.cond = c.node, !.body = b.node, !.step = step.node],
           env.scopes, i.errs \cup c.errs \cup b.errs \cup step.errs)
ForIn(s, i, in, env) ==
    ForOf(s, i, Condition(s.cond, in), CheckStmt(s.body, InLoop(in)), OptionalStmt(s.step, in), env)
ForAfter(s, i, env) == ForIn(s, i, With(env, i), env)

CheckStmt(s, env) ==
    CASE s.k = "block"  -> CheckBlock(s, env)
      [] s.k = "let"    -> LetOf(s, env, Initialiser(s, env))
      [] s.k = "assign" -> AssignOf(s, CheckExpr(s.target, env), env)
      [] s.k = "expr"   -> LET c == CheckExpr(s.expr, env)
                           IN Stated([s EXCEPT !.expr = c.node], env.scopes, c.errs)
      [] s.k = "return" -> ReturnOf(s, Returned(s, env), env)
      [] s.k = "if"     -> IfOf(s, Condition(s.cond, env), CheckStmt(s.then, env),
                                OptionalStmt(s.else, env), env)
      [] s.k = "while"  -> WhileOf(s, Condition(s.cond, env), CheckStmt(s.body, InLoop(env)), env)
      [] s.k = "for"    -> ForAfter(s, OptionalStmt(s.init, Inside(env)), env)
      [] s.k \in {"break", "continue"} ->
            Stated(s, env.scopes, Unless(env.depth > 0, "E011"))
-----------------------------------------------------------------------------
RECURSIVE AlwaysReturnsEither(_), AlwaysReturns(_), Assigned(_)

(* Does every path through a statement return?  A loop never counts.       *)
(* Mutant: one arm that returns is enough.                                 *)
AlwaysReturnsEither(s) ==
    CASE s.k = "return" -> TRUE
      [] s.k = "block"  -> \E i \in DOMAIN s.stmts : AlwaysReturnsEither(s.stmts[i])
      [] s.k = "if"     -> s.else # NoNode /\ (AlwaysReturnsEither(s.then) \/ AlwaysReturnsEither(s.else))
      [] OTHER          -> FALSE
AlwaysReturns(s) ==
    CASE s.k = "return" -> TRUE
      [] s.k = "block"  -> \E i \in DOMAIN s.stmts : AlwaysReturns(s.stmts[i])
      [] s.k = "if"     -> s.else # NoNode /\ AlwaysReturns(s.then) /\ AlwaysReturns(s.else)
      [] OTHER          -> FALSE

(* The names a statement assigns, wherever in it; a parameter of that name *)
(* counts as assigned, though the name may be shadowed there.              *)
(* Mutant: only the statements directly in it are looked at.               *)
AssignedAtTop(s) == {x.target.name : x \in {y \in Children(s) : y.k = "assign" /\ y.target.k = "var"}}
Assigned(s) ==
    CASE s.k = "assign" -> IF s.target.k = "var" THEN {s.target.name} ELSE {}
      [] s.k = "block"  -> UNION {Assigned(x) : x \in Range(s.stmts)}
      [] s.k = "if"     -> Assigned(s.then) \cup Assigned(s.else)
      [] s.k = "while"  -> Assigned(s.body)
      [] s.k = "for"    -> Assigned(s.init) \cup Assigned(s.step) \cup Assigned(s.body)
      [] OTHER          -> {}

FnScope(d) ==
    LET names == [i \in DOMAIN d.params |-> d.params[i].name]
    IN [x \in Range(names) |->
           Symbol("parameter", d.params[CHOOSE i \in DOMAIN names :
                                           names[i] = x /\ \A j \in 1..(i - 1) : names[j] # x])]
FunctionOf(d, b) ==
    Says(("assigned" :> (DOMAIN FnScope(d) \cap Assigned(d.body))) @@ [d EXCEPT !.body = b.node],
         b.errs \cup Unless(Cardinality(DOMAIN FnScope(d)) = Len(d.params), "E002")
         \cup Unless(d.ret = "void" \/ AlwaysReturns(d.body), "E009"))
CheckFunction(d, scopes, sigs) ==
    FunctionOf(d, CheckBlock(d.body, [scopes |-> Append(scopes, FnScope(d)), sigs |-> sigs,
                                      ret |-> d.ret, depth |-> 0]))

(* checkGlobal: the name is declared before its initialiser is checked.    *)
GlobalOf(d, c, env, scopes) ==
    Stated([d EXCEPT !.init = c.node], env.scopes, c.errs \cup Duplicate(scopes, d.name))
GlobalIn(d, env, scopes) == GlobalOf(d, Initialiser(d, env), env, scopes)
CheckGlobal(d, scopes, sigs) ==
    GlobalIn(d, [scopes |-> Declared(scopes, d.name, Symbol("global", d)), sigs |-> sigs,
                 ret |-> "void", depth |-> 0], scopes)

(* collectSignatures: the built-ins, then every function, the first of a   *)
(* name.                                                                   *)
PrintInt == [ret |-> "void", params |-> <<"i32">>]
Signatures(fns) ==
    ("print_int" :> PrintInt) @@
    [f \in {fns[i].name : i \in DOMAIN fns} |->
        LET d == fns[CHOOSE i \in DOMAIN fns : fns[i].name = f /\ \A j \in 1..(i - 1) : fns[j].name # f]
        IN [ret |-> d.ret, params |-> [i \in DOMAIN d.params |-> TypeOfNode(d.params[i])]]]
NameTwice(fns) ==
    \E i \in DOMAIN fns : fns[i].name = "print_int" \/ \E j \in 1..(i - 1) : fns[j].name = fns[i].name

RECURSIVE CheckGlobals(_, _, _)
GlobalsAfter(g, rest, done, sigs) ==
    CheckGlobals(rest, [decls |-> Append(done.decls, g.node), scopes |-> g.scopes,
                        errs |-> done.errs \cup g.errs], sigs)
CheckGlobals(gs, done, sigs) ==
    IF gs = <<>> THEN done
    ELSE GlobalsAfter(CheckGlobal(Head(gs), done.scopes, sigs), Tail(gs), done, sigs)

(* Checker::run: signatures, then the globals, then the bodies.            *)
FunctionNames(fns, sigs) ==
    [f \in {fns[i].name : i \in DOMAIN fns} |->
        Symbol("function", [ty |-> sigs[f].ret, len |-> 0])]
AnalysisOf(gs, fs, fns) ==
    [globals |-> gs.decls,
     fns     |-> [i \in DOMAIN fs |-> fs[i].node],
     errs    |-> gs.errs \cup (UNION {fs[i].errs : i \in DOMAIN fs}) \cup Unless(~NameTwice(fns), "E002")]
Bodies(gs, fns, sigs) ==
    AnalysisOf(gs, [i \in DOMAIN fns |-> CheckFunction(fns[i], gs.scopes, sigs)], fns)
Analysis(program) ==
    LET fns  == FnDecls(program)
        sigs == Signatures(fns)
    IN Bodies(CheckGlobals(GlobalDecls(program),
                           [decls |-> <<>>, scopes |-> <<FunctionNames(fns, sigs)>>, errs |-> {}], sigs),
              fns, sigs)
=============================================================================
