----------------------------- MODULE SourceText -----------------------------
(***************************************************************************)
(* How a program is written, after the grammar of MiniLang (section 2 of   *)
(* src/docs/minilang-spec.md), with a parenthesis only where the cascade   *)
(* of expressions asks for one: the reference the parser is held against.  *)
(***************************************************************************)
EXTENDS AST

(* From orExpr to mulExpr; all of them are left-associative. *)
Cascade == <<{"||"}, {"&&"}, {"|"}, {"^"}, {"&"}, {"==", "!="}, {"<", "<=", ">", ">="},
             {"<<", ">>"}, {"+", "-"}, {"*", "/", "%"}>>
UnaryLevel == Len(Cascade) + 1
Level(e) ==
    CASE e.k = "binary" -> CHOOSE i \in DOMAIN Cascade : e.op \in Cascade[i]
      [] e.k = "unary"  -> UnaryLevel
      [] OTHER          -> UnaryLevel + 1

Keyword == ("i32" :> "int") @@ ("i64" :> "long") @@ ("f64" :> "float") @@ ("i1" :> "bool")
    @@ ("void" :> "void")

Words(kinds) == [i \in DOMAIN kinds |-> Token(kinds[i])]
Word(kind)   == <<Token(kind)>>
Name(x)      == <<NameToken(x)>>
Number(n) ==
    LET digits[i \in Nat] ==
            IF i < 10 THEN <<i>> ELSE Append(digits[i \div 10], i % 10)
    IN <<IntToken(digits[n])>>
InParens(tokens) == Word("(") \o tokens \o Word(")")
Separated(parts) ==
    FlattenSeq([i \in DOMAIN parts |-> IF i = 1 THEN parts[i] ELSE Word(",") \o parts[i]])

RECURSIVE SpelledExpr(_), SpelledStmt(_), SpelledBlock(_)
Operand(e, level) == IF Level(e) < level THEN InParens(SpelledExpr(e)) ELSE SpelledExpr(e)
SpelledExpr(e) ==
    CASE e.k = "int"    -> Number(e.value)
      [] e.k = "bool"   -> Word(IF e.value = 1 THEN "true" ELSE "false")
      [] e.k = "var"    -> Name(e.name)
      [] e.k = "unary"  -> Word(e.op) \o Operand(e.operand, UnaryLevel)
      [] e.k = "binary" -> Operand(e.lhs, Level(e)) \o Word(e.op) \o Operand(e.rhs, Level(e) + 1)
      [] e.k = "index"  ->
            Operand(e.base, UnaryLevel + 1) \o Word("[") \o SpelledExpr(e.index) \o Word("]")
      [] e.k = "call"   ->
            Name(e.callee)
            \o InParens(Separated([i \in DOMAIN e.args |-> SpelledExpr(e.args[i])]))

SpelledType(d) ==
    Word(Keyword[d.ty]) \o (IF d.len = 0 THEN <<>> ELSE Word("[") \o Number(d.len) \o Word("]"))
Declared(d)  == Name(d.name) \o Word(":") \o SpelledType(d)
After(kind, e) == IF e = NoNode THEN <<>> ELSE Word(kind) \o SpelledExpr(e)
OrNothing(e)   == IF e = NoNode THEN <<>> ELSE SpelledExpr(e)

(* A statement without its ;, as the clauses of a for have it.             *)
SpelledSimple(s) ==
    CASE s = NoNode     -> <<>>
      [] s.k = "let"    -> Word("let") \o Declared(s) \o After("=", s.init)
      [] s.k = "assign" -> SpelledExpr(s.target) \o After("=", s.expr)
      [] s.k = "expr"   -> SpelledExpr(s.expr)
SpelledBlock(b) ==
    Word("{") \o FlattenSeq([i \in DOMAIN b.stmts |-> SpelledStmt(b.stmts[i])]) \o Word("}")
SpelledStmt(s) ==
    CASE s.k = "block"    -> SpelledBlock(s)
      [] s.k = "if"       ->
            Word("if") \o InParens(SpelledExpr(s.cond)) \o SpelledBlock(s.then)
            \o (IF s.else = NoNode THEN <<>> ELSE Word("else") \o SpelledStmt(s.else))
      [] s.k = "while"    -> Word("while") \o InParens(SpelledExpr(s.cond)) \o SpelledBlock(s.body)
      [] s.k = "for"      ->
            Word("for")
            \o InParens(SpelledSimple(s.init) \o Word(";") \o OrNothing(s.cond) \o Word(";")
                        \o SpelledSimple(s.step))
            \o SpelledBlock(s.body)
      [] s.k \in {"break", "continue"} -> Words(<<s.k, ";">>)
      [] s.k = "return"   -> Word("return") \o OrNothing(s.expr) \o Word(";")
      [] s.k \in {"let", "assign", "expr"} -> SpelledSimple(s) \o Word(";")

SpelledDecl(d) ==
    IF d.k = "global" THEN Word("global") \o Declared(d) \o After("=", d.init) \o Word(";")
    ELSE Word("fn") \o Name(d.name)
         \o InParens(Separated([i \in DOMAIN d.params |-> Declared(d.params[i])]))
         \o (IF d.ret = "void" THEN <<>> ELSE Words(<<"->", Keyword[d.ret]>>))
         \o SpelledBlock(d.body)
Spelled(program) ==
    FlattenSeq([i \in DOMAIN program |-> SpelledDecl(program[i])]) \o <<EndToken>>

(* A source says no more than a text: the two are the same, or the source  *)
(* only has more parentheses.                                              *)
WithoutParens(tokens) == SelectSeq(tokens, LAMBDA t : t.kind \notin {"(", ")"})
SaysNoMore(tokens, text) ==
    \/ tokens = text
    \/ Len(tokens) > Len(text) /\ WithoutParens(tokens) = WithoutParens(text)
=============================================================================
