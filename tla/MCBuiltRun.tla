----------------------------- MODULE MCBuiltRun -----------------------------
(***************************************************************************)
(* Programs of a global g, two functions and a main made of one or two     *)
(* statements from a menu in which every construct occurs, nested, left    *)
(* early, shadowing a name or in front of code that is never reached; and  *)
(* sources that are only parsed, many of them not programs.                *)
(***************************************************************************)
EXTENDS BuiltRun

N(n)   == A!IntLit(n)
V(x)     == A!VarRef(x)
Add(a, b)   == A!Binary("+", a, b)
Less(a, b)  == A!Binary("<", a, b)
Same(a, b)  == A!Binary("==", a, b)
Set(x, e)   == A!Assign(V(x), e)
Inc(x)      == Set(x, Add(V(x), N(1)))
H(e)        == A!CallTo("h", <<e>>)
F(e1, e2)   == A!CallTo("f", <<e1, e2>>)
Show(e)    == A!ExprStmt(A!CallTo("print_int", <<e>>))
Only(s)     == A!Block(<<s>>)
IfThenOnly(c, s) == A!If(c, Only(s), A!NoNode)
Always == A!BoolLit(1)

(* h prints its argument and gives it back; f assigns its first parameter  *)
(* in a branch only and keeps its second one in a register.                *)
FnH == A!FnDecl("h", <<A!Param("p", "i32")>>, "i32",
                A!Block(<<Show(V("p")), A!Return(V("p"))>>))
FnF == A!FnDecl("f", <<A!Param("p", "i32"), A!Param("b", "i1")>>, "i64",
                A!Block(<<A!If(V("b"), A!Block(<<Inc("p"), A!Return(V("p"))>>), A!NoNode),
                          A!Let("q", "i64", V("p")), A!Return(Add(V("q"), N(9)))>>))
FnV == A!FnDecl("v", <<>>, "void",
                A!Block(<<IfThenOnly(Less(V("g"), N(2)), A!Return(A!NoNode)), Inc("g")>>))
Global(n) == A!GlobalDecl("g", "i32", n)

(* Statements on x, a local int, a, an array of two, and g.                *)
And(a, b) == A!Binary("&&", a, b)
Or(a, b)  == A!Binary("||", a, b)
Simple ==
    {Inc("x"), Set("g", A!Binary("-", V("g"), N(1))),
     Set("x", A!Binary("/", H(N(5)), V("g"))),
     Set("x", A!Unary("-", A!Unary("-", A!IntLit(8)))),
     A!Assign(A!Index("a", Add(V("g"), N(0))), H(V("x"))),
     Set("x", A!Index("a", A!Binary("%", V("x"), N(2)))),
     Set("x", A!Binary("-", H(V("x")), A!Binary("*", H(N(2)), V("x")))),
     Show(A!Unary("~", A!Binary("<<", V("x"), V("g")))),
     A!ExprStmt(F(V("x"), And(Less(H(V("x")), N(3)), Or(Same(V("g"), N(0)), Less(H(N(1)), V("x")))))),
     IfThenOnly(Or(Less(V("x"), N(1)), Less(H(N(4)), V("g"))), Show(V("g"))),
     IfThenOnly(Same(F(V("x"), A!Unary("!", Less(V("x"), V("g")))), N(9)), Show(N(3))),
     A!ExprStmt(A!CallTo("v", <<>>)), Show(Less(V("x"), N(1)))}
Branches ==
    {A!If(Less(V("x"), V("g")), Only(Inc("x")), Only(A!Return(H(N(1))))),
     A!If(Less(V("x"), V("g")), Only(A!Return(V("g"))), Only(Inc("x"))),
     A!If(Less(V("x"), N(1)), Only(A!Return(N(2))),
          A!If(Less(V("g"), N(1)), Only(A!Return(N(1))), Only(A!Return(N(0))))),
     A!Block(<<A!Return(V("x")), Show(N(7))>>)}
Shadows ==
    {A!Block(<<A!Let("x", "i64", N(9)), IfThenOnly(Less(V("g"), V("x")), Inc("g")), Inc("x")>>),
     A!Block(<<Only(A!Let("x", "i32", N(1))), A!Block(<<A!Let("x", "i1", Always),
               IfThenOnly(V("x"), Show(N(1)))>>), Inc("x")>>),
     A!Block(<<A!LetArray("a", "i32", 1), A!Assign(A!Index("a", N(0)), N(3)),
               Set("x", A!Index("a", N(0)))>>)}
CountTo(n, body) ==
    A!For(A!Let("x", "i32", N(0)), Less(V("x"), N(n)), Inc("x"), A!Block(body))
Loops ==
    {A!While(Less(V("x"), N(3)), A!Block(<<Inc("x"), IfThenOnly(Same(V("x"), N(2)), A!Continue),
                                             Show(V("x"))>>)),
     A!While(Always, A!Block(<<IfThenOnly(Less(N(0), V("x")), A!Break), Inc("x")>>)),
     CountTo(3, <<IfThenOnly(Same(V("x"), N(1)), A!Continue), Show(V("x")),
                  A!Let("y", "i32", V("x")), Set("g", V("y"))>>),
     CountTo(2, <<A!While(Less(V("g"), N(2)), A!Block(<<Inc("g"),
                             IfThenOnly(Same(V("g"), N(1)), A!Break)>>)),
                  IfThenOnly(Same(V("g"), N(2)), A!Break), Show(V("g"))>>),
     A!For(A!NoNode, A!NoNode, A!NoNode, A!Block(<<Inc("x"), IfThenOnly(Less(N(1), V("x")), A!Break)>>)),
     A!For(A!NoNode, A!NoNode, A!NoNode, Only(A!Return(V("x"))))}
Menu == Simple \cup Branches \cup Shadows \cup Loops

Main(body) ==
    A!FnDecl("main", <<>>, "i32",
             A!Block(<<A!Let("x", "i32", N(0)), A!LetArray("a", "i32", 2),
                       A!Assign(A!Index("a", N(1)), N(5))>> \o body))
Program(n, body) == <<FnF, Global(n), FnH, FnV, Main(body)>>
Pairs == {Program(N(2), <<s, t, A!Return(V("x"))>>) : s \in Menu, t \in Menu}
         \cup {Program(A!NoNode, <<s, A!Return(V("x"))>>) : s \in Menu}

(* Bodies that may lack a return, and what the analyser turns away.        *)
Wrong ==
    {Set("z", N(1)), Set("x", V("z")), A!Break, A!ExprStmt(A!CallTo("k", <<>>)),
     A!ExprStmt(A!CallTo("h", <<>>)), Set("x", F(N(1), Always)),
     Set("x", A!Index("x", N(0))), A!Return(A!NoNode), IfThenOnly(V("x"), Inc("x")),
     A!While(N(1), Only(A!Break)), Set("x", And(V("x"), Always)), Set("x", Add(V("x"), V("a"))),
     A!Let("y", "i1", V("x")), A!Let("x", "i32", N(1)), Set("a", N(1)), Show(V("a")), Set("h", N(1))}
Partial ==
    {A!If(Less(V("x"), N(1)), Only(A!Return(N(1))), Only(Inc("x"))),
     A!If(Less(V("x"), N(1)), Only(Inc("x")), Only(A!Return(N(1)))),
     A!If(Less(V("x"), N(1)), A!Block(<<A!Return(N(1)), Inc("x")>>), Only(A!Return(N(0))))}
Unfinished == {Program(N(1), <<s>>) : s \in Menu \cup Wrong \cup Partial}

(* What the analyser accepts and the parts after it do not.                *)
Gaps ==
    {Set("x", V("h")), Set("x", A!CallTo("v", <<>>)), IfThenOnly(A!CallTo("v", <<>>), Inc("x")),
     Set("x", A!Binary("<<", V("x"), F(N(1), Always))),
     A!Block(<<A!Let("x", "i32", Inc("x").expr), Show(V("x"))>>),
     A!Block(<<A!Let("x", "i64", V("x")), IfThenOnly(Less(V("x"), N(1)), Show(N(1)))>>)}
FnK == A!FnDecl("k", <<A!ParamArray("r", "i32", 2)>>, "i32",
                A!Block(<<A!Return(A!Index("r", N(0)))>>))
Unsound == {Program(N(1), <<s, A!Return(V("x"))>>) : s \in Gaps}
           \cup {<<FnK>> \o Program(N(1), <<A!Return(A!CallTo("k", <<V("a")>>))>>)}
(* Global initialisers: a sum, a negated literal, a converted one.         *)
OddGlobals ==
    {<<d, A!FnDecl("main", <<>>, "i32", Only(A!Return(N(0))))>> :
        d \in {A!GlobalDecl("g", "i32", Add(N(1), N(1))), A!GlobalDecl("g", "i32", A!Unary("-", N(1))),
               A!GlobalDecl("g", "i64", N(1)), A!GlobalDecl("g", "i1", Always),
               A!GlobalDecl("g", "i1", N(1))}}

AllPrograms == Pairs \cup Unfinished \cup Unsound \cup OddGlobals

(* Sources of tokens: an expression of three operands for every two        *)
(* operators, with and without unary ones, and a text with a token left    *)
(* out, doubled or exchanged with the next, or a pair of parentheses more. *)
Spellings(ops) == [i \in DOMAIN ops |-> A!Token(ops[i])]
Body(tokens) ==
    Spellings(<<"fn">>) \o <<A!NameToken("m")>> \o Spellings(<<"(", ")", "{", "return">>)
    \o tokens \o Spellings(<<";", "}", "Eof">>)
X == <<A!NameToken("x")>>
Chain(op1, op2, sign) == Body(X \o <<A!Token(op1)>> \o sign \o X \o <<A!Token(op2)>> \o X)
Operators == DOMAIN P!Precedence
Chains == {Chain(op1, op2, sign) : op1 \in Operators, op2 \in Operators,
                                   sign \in {<<>>, Spellings(<<"-">>), Spellings(<<"!", "~">>)}}

Showcase ==
    T!Spelled(<<A!GlobalDecl("g", "i64", A!Unary("-", N(1))),
                A!FnDecl("f", <<A!Param("b", "i1"), A!Param("n", "i32")>>, "void",
                         A!Block(<<A!LetArray("a", "i32", 12), A!Let("y", "i64", V("n")),
                                   A!For(A!Let("i", "i32", N(0)), Less(V("i"), A!Index("a", N(0))),
                                         Set("i", A!Binary("*", Add(V("i"), N(1)), N(2))), Only(A!Break)),
                                   A!While(A!Unary("!", Or(V("b"), Always)), Only(A!Continue)),
                                   A!If(V("b"), Only(A!ExprStmt(F(N(1), Add(N(2), N(3))))),
                                        A!If(Always, Only(A!Return(A!NoNode)), A!Block(<<>>)))>>))>>)
Positions == DOMAIN Showcase
Exchanged(i) == [Showcase EXCEPT ![i] = Showcase[i + 1], ![i + 1] = Showcase[i]]
Paired(i, j) == InsertAt(InsertAt(Showcase, j, A!Token(")")), i, A!Token("("))
Edited ==
    {RemoveAt(Showcase, i) : i \in Positions \ {Len(Showcase)}}
    \cup {InsertAt(Showcase, i, Showcase[i]) : i \in Positions \ {Len(Showcase)}}
    \cup {Exchanged(i) : i \in 1..(Len(Showcase) - 2)}
    \cup {Paired(i, j) : i \in 50..70, j \in 50..70}
ShownSources == Chains \cup Edited
NoSources == {}

(* A let that shadows a variable and starts from it.                       *)
ShadowPrograms ==
    {Program(N(1), <<Set("x", N(3)), A!Block(<<A!Let("x", "i32", e), Show(V("x"))>>), A!Return(V("x"))>>) :
        e \in {Inc("x").expr, H(V("x"))}}
=============================================================================
