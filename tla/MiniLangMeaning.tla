--------------------------- MODULE MiniLangMeaning ---------------------------
(***************************************************************************)
(* What a MiniLang program is meant to do, said on its syntax tree and not *)
(* on any code: the reference the builder and what runs after it are held  *)
(* against.  It follows the language as the type checker reads it          *)
(* (src/src/sema/Analyse.cpp): an initialiser is evaluated before its      *)
(* name is declared, operands and arguments go left to right, && and ||    *)
(* look at their right operand only if it can matter.                      *)
(*                                                                         *)
(* A machine m is a record: the scopes (name -> place), the store those    *)
(* places index, what was printed, the last value, and st, which says how  *)
(* control left the last node: on with "go", or by "break", "continue",    *)
(* "return", "trap" or, for a read of what was never written, "undefined". *)
(***************************************************************************)
EXTENDS Arith, SequencesExt

A == INSTANCE AST

(* What a place holds: one value, or none yet. *)
Holds(n)  == <<n>>
Undefined == <<>>

Give(m, n, ty) == [m EXCEPT !.v = [n |-> n, ty |-> ty]]
Stop(m, st)    == [m EXCEPT !.st = st]
Going(m)       == m.st = "go"

(* Types: what a literal is, and what two operands are brought to. *)
LiteralType(n) == IF WrapInt(n, "i32") = n THEN "i32" ELSE "i64"
Rank == [i1 |-> 1, i32 |-> 2, i64 |-> 3]
Wider(t1, t2) == IF Rank[t1] >= Rank[t2] THEN t1 ELSE t2

(* Names and places. *)
Place(m, x) ==
    LET i == CHOOSE i \in DOMAIN m.scopes :
                 /\ x \in DOMAIN m.scopes[i]
                 /\ \A j \in DOMAIN m.scopes : j > i => x \notin DOMAIN m.scopes[j]
    IN m.scopes[i][x]
Enter(m) == [m EXCEPT !.scopes = Append(@, <<>>)]
Exit(m)  == [m EXCEPT !.scopes = Front(@)]
(* A new name, with `contents` as the values at its places. *)
DeclareWith(m, x, ty, len, contents) ==
    [m EXCEPT !.scopes[Len(m.scopes)] =
                  (x :> [at |-> Len(m.store) + 1, ty |-> ty, len |-> len]) @@ @,
              !.store = @ \o contents]

Fetch(m, at, ty) ==
    IF m.store[at] = Undefined THEN Stop(m, "undefined") ELSE Give(m, m.store[at][1], ty)

Operation == ("+" :> "add") @@ ("-" :> "sub") @@ ("*" :> "mul") @@ ("/" :> "sdiv")
    @@ ("%" :> "srem") @@ ("&" :> "and") @@ ("|" :> "or") @@ ("^" :> "xor")
    @@ ("<<" :> "shl") @@ (">>" :> "ashr")
Comparison == ("==" :> "icmp.eq") @@ ("!=" :> "icmp.ne") @@ ("<" :> "icmp.slt")
    @@ ("<=" :> "icmp.sle") @@ (">" :> "icmp.sgt") @@ (">=" :> "icmp.sge")

Apply(m, op, a, b) ==
    LET ty == IF op \in {"<<", ">>"} THEN a.ty ELSE Wider(a.ty, b.ty)
    IN IF op \in DOMAIN Comparison
       THEN Give(m, ICmp(Comparison[op], ty, a.n, b.n), "i1")
       ELSE IF BinOpTraps(Operation[op], ty, a.n, b.n) THEN Stop(m, "trap")
       ELSE Give(m, BinOp(Operation[op], ty, a.n, b.n), ty)

(* A machine goes on to the next step unless control has left.             *)
Then(m, Step(_)) == IF Going(m) THEN Step(m) ELSE m

RECURSIVE Eval(_, _), EvalArgs(_, _, _, _), Exec(_, _), ExecAll(_, _), Loop(_, _, _, _)

(* The place an assignment writes or an index reads, as the last value. *)
Element(m, p) ==
    IF m.v.n \in 0..(p.len - 1) THEN Give(m, p.at + m.v.n, "place") ELSE Stop(m, "trap")
Address(e, m) ==
    IF e.k = "var" THEN Give(m, Place(m, e.name).at, "place")
    ELSE Then(Eval(e.index, m), LAMBDA i : Element(i, Place(m, e.base.name)))
PlaceType(e, m) == Place(m, IF e.k = "var" THEN e.name ELSE e.base.name).ty

(* A call in scopes of its own: the globals and the parameters. *)
Frame(d, args, m) ==
    LET given == [x \in {p.name : p \in Range(d.params)} |->
                    LET i == CHOOSE j \in DOMAIN d.params : d.params[j].name = x
                    IN [at |-> Len(m.store) + i, ty |-> d.params[i].ty, len |-> 0]]
    IN [m EXCEPT !.scopes = <<m.scopes[1], given>>,
                 !.store = @ \o [i \in DOMAIN args |-> Holds(args[i])],
                 !.v = [n |-> 0, ty |-> "i32"]]
Back(end, d, m) ==
    [end EXCEPT !.scopes = m.scopes, !.v = [@ EXCEPT !.ty = d.ret],
                !.st = IF @ = "return" THEN "go" ELSE @]
Call(d, args, m) == Back(Exec(d.body, Frame(d, args, m)), d, m)
Invoke(f, args, m) == Call(CHOOSE d \in Range(A!FnDecls(m.program)) : d.name = f, args, m)

EvalArgs(args, values, f, m) ==
    IF args # <<>>
    THEN Then(Eval(Head(args), m),
              LAMBDA a : EvalArgs(Tail(args), Append(values, a.v.n), f, a))
    ELSE IF f # "print_int" THEN Invoke(f, values, m)
    ELSE [m EXCEPT !.out = Append(@, values[1])]

(* The value that settles && and ||. *)
Settles(op, v) == <<op, v.n>> \in {<<"&&", 0>>, <<"||", 1>>}
Eval(e, m) ==
    CASE e.k = "int"   -> Give(m, e.value, LiteralType(e.value))
      [] e.k = "bool"  -> Give(m, e.value, "i1")
      [] e.k = "var"   -> Fetch(m, Place(m, e.name).at, Place(m, e.name).ty)
      [] e.k = "index" -> Then(Address(e, m), LAMBDA a : Fetch(a, a.v.n, PlaceType(e, m)))
      [] e.k = "call"  -> EvalArgs(e.args, <<>>, e.callee, m)
      [] e.k = "unary" /\ e.op = "-" /\ e.operand.k = "int" ->
            Give(m, -e.operand.value, LiteralType(-e.operand.value))
      [] e.k = "unary" /\ ~(e.op = "-" /\ e.operand.k = "int") ->
            Then(Eval(e.operand, m), LAMBDA a :
                 Give(a, UnaryOp(IF e.op = "-" THEN "neg" ELSE "not", a.v.ty, a.v.n), a.v.ty))
      [] e.k = "binary" ->
            Then(Eval(e.lhs, m), LAMBDA a :
                 IF Settles(e.op, a.v) THEN a
                 ELSE Then(Eval(e.rhs, a), LAMBDA b :
                           IF e.op \in {"&&", "||"} THEN b ELSE Apply(b, e.op, a.v, b.v)))

(* The rounds of a loop: step, if any, comes after every round but the     *)
(* one a break ends.                                                       *)
Resumed(m) == IF m.st \in {"break", "continue"} THEN Stop(m, "go") ELSE m
Round(cond, body, step, b) ==
    IF b.st = "break" THEN Resumed(b)
    ELSE Then(Resumed(b), LAMBDA n :
              Then(IF step = A!NoNode THEN n ELSE Exec(step, n),
                   LAMBDA s : Loop(cond, body, step, s)))
Loop(cond, body, step, m) ==
    Then(IF cond = A!NoNode THEN Give(m, 1, "i1") ELSE Eval(cond, m), LAMBDA c :
         IF c.v.n = 0 THEN c ELSE Round(cond, body, step, Exec(body, c)))

Exec(s, m) ==
    CASE s.k = "block" -> Exit(ExecAll(s.stmts, Enter(m)))
      [] s.k = "let" /\ s.init = A!NoNode ->
            DeclareWith(m, s.name, s.ty, s.len, [i \in 1..(IF s.len = 0 THEN 1 ELSE s.len) |-> Undefined])
      [] s.k = "let" /\ s.init # A!NoNode ->
            Then(Eval(s.init, m), LAMBDA a : DeclareWith(a, s.name, s.ty, 0, <<Holds(a.v.n)>>))
      [] s.k = "assign" ->
            Then(Address(s.target, m), LAMBDA p :
                 Then(Eval(s.expr, p), LAMBDA a : [a EXCEPT !.store[p.v.n] = Holds(a.v.n)]))
      [] s.k = "expr"   -> Eval(s.expr, m)
      [] s.k = "return" ->
            Then(IF s.expr = A!NoNode THEN m ELSE Eval(s.expr, m), LAMBDA a : Stop(a, "return"))
      [] s.k = "if" ->
            Then(Eval(s.cond, m), LAMBDA c :
                 IF c.v.n = 1 THEN Exec(s.then, c)
                 ELSE IF s.else # A!NoNode THEN Exec(s.else, c) ELSE c)
      [] s.k = "while" -> Loop(s.cond, s.body, A!NoNode, m)
      [] s.k = "for" ->
            Exit(Then(IF s.init = A!NoNode THEN Enter(m) ELSE Exec(s.init, Enter(m)),
                      LAMBDA i : Loop(s.cond, s.body, s.step, i)))
      [] s.k \in {"break", "continue"} -> Stop(m, s.k)

ExecAll(ss, m) ==
    IF ss = <<>> THEN m
    ELSE Then(Exec(Head(ss), m), LAMBDA a : ExecAll(Tail(ss), a))

(* The globals hold their literals; main is called without arguments. *)
Initially(program) ==
    LET gs == A!GlobalDecls(program)
    IN [program |-> program,
        scopes |-> <<[x \in {gs[i].name : i \in DOMAIN gs} |->
                        LET i == CHOOSE j \in DOMAIN gs : gs[j].name = x
                        IN [at |-> i, ty |-> gs[i].ty, len |-> 0]]>>,
        store  |-> [i \in DOMAIN gs |->
                      IF gs[i].init = A!NoNode THEN Holds(0)
                      ELSE IF gs[i].init.k = "unary" THEN Holds(-gs[i].init.operand.value)
                      ELSE Holds(gs[i].init.value)],
        out |-> <<>>, v |-> [n |-> 0, ty |-> "i32"], st |-> "go"]
Meaning(program) ==
    LET end == Invoke("main", <<>>, Initially(program))
    IN [st |-> end.st, out |-> end.out, result |-> end.v.n]
=============================================================================
