------------------------------- MODULE Parser -------------------------------
(***************************************************************************)
(* parse() of src/src/frontend/Parser.cpp: recursive descent over the      *)
(* tokens of a source, with precedence climbing for the binary operators.  *)
(* A routine is given the position it starts at (pos_) and yields a node   *)
(* and the position after it; a production is the list of what a routine   *)
(* expects, in order.  The first syntax error ends the parse.  Floating-   *)
(* point and hexadecimal literals, literals that do not fit and array      *)
(* results are left out.                                                   *)
(***************************************************************************)
EXTENDS AST

VARIABLE source    \* toks_: the tokens, the end of the file the last of them

Yield(node, p) == [ok |-> TRUE, node |-> node, next |-> p]
Bail           == [ok |-> FALSE, node |-> NoNode, next |-> 0]
(* The rest of a routine, unless what comes first (parsed once) has failed. *)
On(first, Rest(_, _)) ==
    CHOOSE end \in {IF r.ok THEN Rest(r.node, r.next) ELSE r : r \in {first}} : TRUE

Kind(p)     == source[p].kind
At(p, kind) == Kind(p) = kind

(* strtoll with base 0: after a leading zero the digits are octal, and the *)
(* first one that is not ends the number.                                  *)
LiteralValue(digits) ==
    LET base == IF Len(digits) > 1 /\ digits[1] = 0 THEN 8 ELSE 10
        stop == SelectInSeq(digits, LAMBDA d : d >= base)
    IN FoldLeft(LAMBDA n, d : n * base + d, 0,
                IF stop = 0 THEN digits ELSE SubSeq(digits, 1, stop - 1))
-----------------------------------------------------------------------------
TypeOfKeyword == ("int" :> "i32") @@ ("long" :> "i64") @@ ("float" :> "f64")
    @@ ("bool" :> "i1") @@ ("void" :> "void")

(* kBinaryOps; every operator is left-associative. *)
Precedence == ("||" :> 1) @@ ("&&" :> 2) @@ ("|" :> 3) @@ ("^" :> 4) @@ ("&" :> 5)
    @@ ("==" :> 6) @@ ("!=" :> 6) @@ ("<" :> 7) @@ ("<=" :> 7) @@ (">" :> 7) @@ (">=" :> 7)
    @@ ("<<" :> 8) @@ (">>" :> 8) @@ ("+" :> 9) @@ ("-" :> 9)
    @@ ("*" :> 10) @@ ("/" :> 10) @@ ("%" :> 10)
(* Mutant: the right operand takes in operators of the same precedence.    *)
RightBindsSame(op) == Precedence[op]
RightBinds(op)     == Precedence[op] + 1
UnaryOps == {"-", "!", "~"}

First(nodes) == nodes[1]
Typed(decl, type) == [decl EXCEPT !.ty = type.ty, !.len = type.len]

RECURSIVE Produce(_, _), Listed(_, _, _), Statements(_, _), Climb(_, _),
          Subscripts(_), Nonterminal(_, _), ParseExpr(_, _), ParseUnary(_), ParseIf(_)

(* The items of a production from p on: a token is expected, and a name or *)
(* a number keeps what it says; anything else is parsed to a node.         *)
Nonterminals == {"<expr>", "<block>", "<stmts>", "<type>", "<simple>", "<init>", "<cond>",
                 "<step>", "<value>", "<initialiser>", "<else>", "<result>", "<param>",
                 "<params>", "<args>"}
Item(item, p) ==
    CASE item \in Nonterminals -> Nonterminal(item, p)
      [] ~At(p, item)          -> Bail
      [] item = "Ident"        -> Yield(source[p].name, p + 1)
      [] item = "IntLit"       -> Yield(LiteralValue(source[p].digits), p + 1)
      [] OTHER                 -> Yield(NoNode, p + 1)
Kept == Nonterminals \cup {"Ident", "IntLit"}
Produce(p, items) ==
    IF items = <<>> THEN Yield(<<>>, p)
    ELSE On(Produce(p, Front(items)), LAMBDA nodes, q :
            On(Item(Last(items), q), LAMBDA n, r :
               Yield(IF Last(items) \in Kept THEN Append(nodes, n) ELSE nodes, r)))
Make(p, items, Node(_)) == On(Produce(p, items), LAMBDA ns, q : Yield(Node(ns), q))

(* What may be left out: it is, before the token that would follow it or   *)
(* without the token that announces it.                                    *)
Unless(kind, p, r, node)   == IF At(p, kind) THEN Yield(node, p) ELSE r
Announced(kind, p, r, node) == IF At(p, kind) THEN r ELSE Yield(node, p)

Listed(p, item, nodes) ==
    On(Nonterminal(item, p),
       LAMBDA n, q : IF At(q, ",") THEN Listed(q + 1, item, Append(nodes, n))
                     ELSE Yield(Append(nodes, n), q))
-----------------------------------------------------------------------------
(* Expressions. *)
ParsePrimary(p) ==
    CASE At(p, "(")      -> Make(p, <<"(", "<expr>", ")">>, First)
      [] At(p, "IntLit") -> Make(p, <<"IntLit">>, LAMBDA n : IntLit(n[1]))
      [] At(p, "true")   -> Yield(BoolLit(1), p + 1)
      [] At(p, "false")  -> Yield(BoolLit(0), p + 1)
      [] At(p, "Ident")  ->
            IF At(p + 1, "(")
            THEN Make(p, <<"Ident", "(", "<args>", ")">>, LAMBDA n : CallTo(n[1], n[2]))
            ELSE Make(p, <<"Ident">>, LAMBDA n : VarRef(n[1]))
      [] OTHER           -> Bail

Subscripts(r) ==
    On(r, LAMBDA base, p :
          IF ~At(p, "[") THEN Yield(base, p)
          ELSE Subscripts(Make(p, <<"[", "<expr>", "]">>, LAMBDA n : Subscript(base, n[1]))))

ParseUnary(p) ==
    IF Kind(p) \in UnaryOps
    THEN On(ParseUnary(p + 1), LAMBDA e, q : Yield(Unary(Kind(p), e), q))
    ELSE Subscripts(ParsePrimary(p))

Climb(r, least) ==
    On(r, LAMBDA lhs, p :
          IF Kind(p) \notin DOMAIN Precedence \/ Precedence[Kind(p)] < least
          THEN Yield(lhs, p)
          ELSE Climb(On(ParseExpr(p + 1, RightBinds(Kind(p))),
                        LAMBDA rhs, q : Yield(Binary(Kind(p), lhs, rhs), q)), least))
ParseExpr(p, least) == Climb(ParseUnary(p), least)
-----------------------------------------------------------------------------
(* Types, declarations and statements. *)
ParseType(p) ==
    IF Kind(p) \notin DOMAIN TypeOfKeyword THEN Bail
    ELSE Announced("[", p + 1,
                   Make(p + 1, <<"[", "IntLit", "]">>,
                        LAMBDA n : [ty |-> TypeOfKeyword[Kind(p)], len |-> n[1]]),
                   [ty |-> TypeOfKeyword[Kind(p)], len |-> 0])

ParseLet(p) ==
    Make(p, <<"let", "Ident", ":", "<type>", "<initialiser>">>,
         LAMBDA n : Typed(Let(n[1], "void", n[3]), n[2]))

(* The ; is the caller's, for the clauses of a for have none. *)
ParseSimpleStmt(p) ==
    IF At(p, "let") THEN ParseLet(p)
    ELSE On(ParseExpr(p, 1), LAMBDA e, q :
            IF ~At(q, "=") THEN Yield(ExprStmt(e), q)
            ELSE IF e.k \notin {"var", "index"} THEN Bail
            ELSE Make(q, <<"=", "<expr>">>, LAMBDA n : Assign(e, n[1])))

ParseBlock(p) == Make(p, <<"{", "<stmts>", "}">>, LAMBDA n : Block(n[1]))
ParseIf(p) ==
    Make(p, <<"if", "(", "<expr>", ")", "<block>", "<else>">>, LAMBDA n : If(n[1], n[2], n[3]))
ParseElse(p) ==
    IF At(p + 1, "if") THEN ParseIf(p + 1) ELSE Make(p, <<"else", "<block>">>, First)

ParseStmt(p) ==
    CASE At(p, "if") -> ParseIf(p)
      [] At(p, "{")  -> ParseBlock(p)
      [] At(p, "while") ->
            Make(p, <<"while", "(", "<expr>", ")", "<block>">>, LAMBDA n : While(n[1], n[2]))
      [] At(p, "for") ->
            Make(p, <<"for", "(", "<init>", ";", "<cond>", ";", "<step>", ")", "<block>">>,
                 LAMBDA n : For(n[1], n[2], n[3], n[4]))
      [] At(p, "break")    -> Make(p, <<"break", ";">>, LAMBDA n : Break)
      [] At(p, "continue") -> Make(p, <<"continue", ";">>, LAMBDA n : Continue)
      [] At(p, "return")   -> Make(p, <<"return", "<value>", ";">>, LAMBDA n : Return(n[1]))
      [] OTHER             -> Make(p, <<"<simple>", ";">>, First)

Statements(p, stmts) ==
    IF At(p, "}") THEN Yield(stmts, p)
    ELSE On(ParseStmt(p), LAMBDA s, q : Statements(q, Append(stmts, s)))

Nonterminal(item, p) ==
    CASE item = "<expr>"   -> ParseExpr(p, 1)
      [] item = "<block>"  -> ParseBlock(p)
      [] item = "<stmts>"  -> Statements(p, <<>>)
      [] item = "<type>"   -> ParseType(p)
      [] item = "<simple>" -> ParseSimpleStmt(p)
      [] item = "<init>"   -> Unless(";", p, ParseSimpleStmt(p), NoNode)
      [] item = "<step>"   -> Unless(")", p, ParseSimpleStmt(p), NoNode)
      [] item \in {"<cond>", "<value>"} -> Unless(";", p, ParseExpr(p, 1), NoNode)
      [] item = "<initialiser>" -> Announced("=", p, Make(p, <<"=", "<expr>">>, First), NoNode)
      [] item = "<else>"   -> Announced("else", p, ParseElse(p), NoNode)
      [] item = "<result>" ->
            Announced("->", p, Make(p, <<"->", "<type>">>, First), [ty |-> "void", len |-> 0])
      [] item = "<param>"  ->
            Make(p, <<"Ident", ":", "<type>">>, LAMBDA n : Typed(Param(n[1], "void"), n[2]))
      [] item = "<params>" -> Unless(")", p, Listed(p, "<param>", <<>>), <<>>)
      [] item = "<args>"   -> Unless(")", p, Listed(p, "<expr>", <<>>), <<>>)

ParseFn(p) ==
    Make(p, <<"fn", "Ident", "(", "<params>", ")", "<result>", "<block>">>,
         LAMBDA n : FnDecl(n[1], n[2], n[3].ty, n[4]))
ParseGlobal(p) ==
    Make(p, <<"global", "Ident", ":", "<type>", "<initialiser>", ";">>,
         LAMBDA n : Typed(GlobalDecl(n[1], "void", n[3]), n[2]))

RECURSIVE Declarations(_, _)
Declarations(p, decls) ==
    IF At(p, "Eof") THEN Yield(decls, p)
    ELSE On(CASE At(p, "fn")     -> ParseFn(p)
              [] At(p, "global") -> ParseGlobal(p)
              [] OTHER           -> Bail,
            LAMBDA d, q : Declarations(q, Append(decls, d)))
Parsed == Declarations(1, <<>>)
=============================================================================
