-------------------------------- MODULE AST --------------------------------
(***************************************************************************)
(* The shape of a MiniLang program (src/include/mtir/ast/AST.h).  Every    *)
(* node is a record whose field k names its kind; the other fields are the *)
(* members of the class, and NoNode stands for a null pointer.  Types are  *)
(* written as the CIR types they map to; a declared array has len > 0.     *)
(* Source positions and floating-point literals are left out.              *)
(***************************************************************************)
EXTENDS Integers, SequencesExt

NoNode == [k |-> "none"]

(* Tokens (ast/Token.h): a kind is written as it is spelled, but for names, *)
(* integer literals, which keep their digits, and the end of the file.     *)
Token(kind)   == [kind |-> kind, name |-> "", digits |-> <<>>]
NameToken(x)  == [Token("Ident") EXCEPT !.name = x]
IntToken(ds)  == [Token("IntLit") EXCEPT !.digits = ds]
EndToken      == Token("Eof")

(* Expressions. *)
IntLit(n)          == [k |-> "int", value |-> n]
BoolLit(n)         == [k |-> "bool", value |-> n]
VarRef(x)          == [k |-> "var", name |-> x]
Unary(op, e)       == [k |-> "unary", op |-> op, operand |-> e]
Binary(op, e1, e2) == [k |-> "binary", op |-> op, lhs |-> e1, rhs |-> e2]
CallTo(f, args)    == [k |-> "call", callee |-> f, args |-> args]
Subscript(b, e)    == [k |-> "index", base |-> b, index |-> e]
Index(x, e)        == Subscript(VarRef(x), e)
Conv(e)            == [k |-> "conv", operand |-> e]

(* Statements. *)
Block(ss)          == [k |-> "block", stmts |-> ss]
Let(x, ty, init)   == [k |-> "let", name |-> x, ty |-> ty, len |-> 0, init |-> init]
LetArray(x, ty, n) == [k |-> "let", name |-> x, ty |-> ty, len |-> n, init |-> NoNode]
Assign(t, e)       == [k |-> "assign", target |-> t, expr |-> e]
ExprStmt(e)        == [k |-> "expr", expr |-> e]
Return(e)          == [k |-> "return", expr |-> e]
If(c, s1, s2)      == [k |-> "if", cond |-> c, then |-> s1, else |-> s2]
While(c, s)        == [k |-> "while", cond |-> c, body |-> s]
For(i, c, st, s)   == [k |-> "for", init |-> i, cond |-> c, step |-> st, body |-> s]
Break              == [k |-> "break"]
Continue           == [k |-> "continue"]

(* Declarations and programs. *)
Param(x, ty)             == [name |-> x, ty |-> ty, len |-> 0]
ParamArray(x, ty, n)     == [name |-> x, ty |-> ty, len |-> n]
FnDecl(f, params, ty, b) == [k |-> "fn", name |-> f, params |-> params, ret |-> ty, body |-> b]
GlobalDecl(x, ty, init)  == [k |-> "global", name |-> x, ty |-> ty, len |-> 0, init |-> init]

FnDecls(program)     == SelectSeq(program, LAMBDA d : d.k = "fn")
GlobalDecls(program) == SelectSeq(program, LAMBDA d : d.k = "global")

(* The nodes below a node, found by looking n levels down. *)
NodeFields == {"operand", "lhs", "rhs", "base", "index", "init", "target",
               "expr", "cond", "then", "else", "step", "body"}
Children(node) ==
    {node[f] : f \in DOMAIN node \cap NodeFields}
    \cup UNION {Range(node[f]) : f \in DOMAIN node \cap {"args", "stmts"}}
Below(node, n) ==
    LET level[i \in 0..n] ==
            IF i = 0 THEN {node} ELSE UNION {Children(x) : x \in level[i - 1]}
    IN UNION {level[i] : i \in 0..n}
=============================================================================
