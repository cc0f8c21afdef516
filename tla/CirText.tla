------------------------------ MODULE CirText ------------------------------
(***************************************************************************)
(* The textual form of CIR: printModule (src/src/cir/Printer.cpp) and      *)
(* parseCir (src/src/cir/Parser.cpp).  A text is a sequence of lines, a    *)
(* line the tokens lexLine finds in it.  An instruction is printed with    *)
(* one type, its operands with none, so reading has to find the type of    *)
(* every operand anew: that of a register from its definition, that of a   *)
(* literal from the instruction.                                           *)
(*                                                                         *)
(* "%" and "@" are the kinds of their tokens.  Words are opcodes, types    *)
(* and keywords; labels are identifiers too, of a kind of their own here,  *)
(* since they are numbers.                                                 *)
(***************************************************************************)
EXTENDS TypeRules, SequencesExt

Token(kind, text) == [kind |-> kind, text |-> text, n |-> 0]
Word(t)   == Token("word", t)
Mark(t)   == Token(t, t)
End       == Mark("end")
Label(l)  == [Token("label", "") EXCEPT !.n = l]
Number(v) == [Token("number", "") EXCEPT !.n = v]
RegToken(r)    == Token("reg", r)
GlobalToken(g) == Token("global", g)
-----------------------------------------------------------------------------
(* Printer.cpp.  printValue and joinArgs. *)
PrintValue(v) ==
    CASE v.k = "reg"    -> RegToken(v.name)
      [] v.k = "int"    -> Number(v.v)
      [] v.k = "global" -> GlobalToken(v.name)
Joined(items) ==
    FlattenSeq([i \in DOMAIN items |-> (IF i = 1 THEN <<>> ELSE <<Mark(",")>>) \o items[i]])
JoinArgs(ins) == Joined([i \in DOMAIN ins.args |-> <<PrintValue(ins.args[i])>>])

(* printInstruction: both terminators are spelled br. *)
Assigned(ins) == IF ins.dest = NoName THEN <<>> ELSE <<RegToken(ins.dest), Mark("=")>>
PrintInstruction(ins) ==
    CASE ins.op = "br"      -> <<Word("br"), Label(ins.labels[1])>>
      [] ins.op = "br.cond" -> <<Word("br")>> \o JoinArgs(ins) \o
             <<Mark("?"), Label(ins.labels[1]), Mark(":"), Label(ins.labels[2])>>
      [] ins.op = "ret"     -> IF ins.args = <<>> THEN <<Word("ret"), Word("void")>>
                               ELSE <<Word("ret"), Word(ins.ty)>> \o JoinArgs(ins)
      [] ins.op = "store"   -> <<Word("store"), Word(ins.ty)>> \o JoinArgs(ins)
      [] ins.op = "call"    -> Assigned(ins) \o
             <<Word("call"), Word(ins.ty), GlobalToken(ins.callee), Mark("(")>> \o JoinArgs(ins) \o <<Mark(")")>>
      [] ins.op = "alloca"  -> Assigned(ins) \o <<Word("alloca"), Word(ins.ty)>> \o
             (IF ins.args = <<>> THEN <<>> ELSE <<Mark(","), PrintValue(ins.args[1])>>)
      [] ins.op \in Prints  -> <<Word(ins.op)>> \o JoinArgs(ins)
      [] ins.op = "trap"    -> <<Word("trap")>>
      [] OTHER              -> Assigned(ins) \o <<Word(ins.op), Word(ins.ty)>> \o JoinArgs(ins)

(* printBlock, printFunction, printGlobal, printModule. *)
PrintBlock(b) ==
    <<<<Label(b.label), Mark(":")>>>> \o [i \in DOMAIN b.instrs |-> PrintInstruction(b.instrs[i])]
PrintFunction(f, fn) ==
    <<<<Word("func"), GlobalToken(f), Mark("(")>>
      \o Joined([i \in DOMAIN fn.params |-> <<Word(fn.params[i].ty), RegToken(fn.params[i].name)>>])
      \o <<Mark(")"), Mark("->"), Word(fn.ret), Mark("{")>> >>
    \o FlattenSeq([i \in DOMAIN fn.blocks |-> PrintBlock(fn.blocks[i])])
    \o <<<<Mark("}")>>>>
PrintGlobal(g, init) ==
    <<Word("global"), GlobalToken(g), Mark(":"), Word(init.ty), Mark("="), PrintValue(init)>>
PrintModule(m) ==
    LET globals == SetToSeq(DOMAIN m.globals)
    IN [i \in DOMAIN globals |-> PrintGlobal(globals[i], m.globals[globals[i]])]
       \o FlattenSeq([i \in DOMAIN m.order |-> PrintFunction(m.order[i], m.funcs[m.order[i]])])
-----------------------------------------------------------------------------
(* Parser.cpp.  dissect: where the opcode stands, which one it is (a "?"   *)
(* makes the other br of it), the type printed and what follows.           *)
At(line, i) == IF i \in DOMAIN line THEN line[i] ELSE End
Defines(line) == At(line, 1).kind = "reg" /\ At(line, 2).kind = "="
OpAt(line) == IF Defines(line) THEN 3 ELSE 1
OpText(line) ==
    IF At(line, OpAt(line)).text = "br" /\ \E t \in Range(line) : t.kind = "?"
    THEN "br.cond" ELSE At(line, OpAt(line)).text
Untyped == {"br", "br.cond", "trap"} \cup Prints
Printed(line) ==
    CASE OpText(line) \in {"br", "trap"} -> "void"
      [] OpText(line) = "br.cond"        -> "i1"
      [] OpText(line) = "print.i32"      -> "i32"
      [] OpText(line) = "print.f64"      -> "f64"
      [] OTHER                           -> line[OpAt(line) + 1].text
IsType(t) == t.kind = "word" /\ t.text \in Types
HeadOk(line) ==
    /\ At(line, OpAt(line)).kind = "word" /\ OpText(line) \in Opcodes
    /\ OpText(line) \notin Untyped => IsType(At(line, OpAt(line) + 1))
Rest(line) ==
    SubSeq(line, OpAt(line) + (IF OpText(line) \in Untyped THEN 1 ELSE 2), Len(line))

(* regTypes_: parameters, then every line that defines, the last one of a  *)
(* register counting.  Mutant: a result has the type printed.              *)
LastOf(pairs) == FoldLeft(LAMBDA t, p : (p[1] :> p[2]) @@ t, <<>>, pairs)
DefinedTypesAsPrinted(params, lines) ==
    LET defs == SelectSeq(lines, LAMBDA l : Defines(l) /\ HeadOk(l))
    IN LastOf([i \in DOMAIN params |-> <<params[i].name, params[i].ty>>] \o
              [i \in DOMAIN defs |-> <<defs[i][1].text, Printed(defs[i])>>])
DefinedTypes(params, lines) ==
    LET defs == SelectSeq(lines, LAMBDA l : Defines(l) /\ HeadOk(l))
    IN LastOf([i \in DOMAIN params |-> <<params[i].name, params[i].ty>>] \o
              [i \in DOMAIN defs |->
                  <<defs[i][1].text, ResultType(OpText(defs[i]), Printed(defs[i]))>>])

(* parseValue, in the context of a type. *)
Readable(types, t) == t.kind \in {"number", "global"} \/ (t.kind = "reg" /\ t.text \in DOMAIN types)
ValueOf(types, context, t) ==
    CASE t.kind = "number" -> ConstInt(t.n, IF IsIntTy(context) THEN context ELSE "i32")
      [] t.kind = "global" -> GlobalRef(t.text)
      [] t.kind = "reg"    -> Reg(t.text, types[t.text])

(* parseInstruction: the tokens of the operands, the shape around them,    *)
(* and the type they are read in.                                          *)
Closing(tokens) == SelectInSeq(tokens, LAMBDA t : t.kind = ")")
Operands(line) ==
    LET rest == Rest(line)
    IN CASE OpText(line) \in {"br", "trap"} -> <<>>
         [] OpText(line) \in {"br.cond"} \cup Prints -> <<At(rest, 1)>>
         [] OpText(line) = "ret"    -> IF Printed(line) = "void" THEN <<>> ELSE <<At(rest, 1)>>
         [] OpText(line) = "alloca" -> IF At(rest, 1).kind = "," THEN <<At(rest, 2)>> ELSE <<>>
         [] OpText(line) = "call"   ->
               SelectSeq(SubSeq(rest, 3, Closing(rest) - 1), LAMBDA t : t.kind # ",")
         [] OTHER -> [i \in 1..((Len(rest) + 1) \div 2) |-> rest[2 * i - 1]]
ShapeOk(line) ==
    LET rest == Rest(line)
        kinds == [i \in DOMAIN rest |-> rest[i].kind]
    IN CASE OpText(line) = "br"      -> At(rest, 1).kind = "label"
         [] OpText(line) = "br.cond" ->
               /\ Len(rest) >= 5 /\ SubSeq(kinds, 2, 5) = <<"?", "label", ":", "label">>
         [] OpText(line) = "call"    ->
               /\ At(rest, 1).kind = "global" /\ At(rest, 2).kind = "(" /\ Closing(rest) > 0
               /\ \A i \in 3..(Closing(rest) - 1) : kinds[i] = "," => i > 3 /\ kinds[i - 1] # ","
         [] OpText(line) \in {"ret", "alloca", "trap"} \cup Prints -> TRUE
         [] OTHER ->
               /\ \A i \in DOMAIN kinds : i % 2 = 0 => kinds[i] = ","
               /\ Len(Operands(line)) = Arity(OpText(line))
Context(line) == IF OpText(line) \in {"call", "alloca"} THEN "i32" ELSE Printed(line)
TargetsOf(line) == SelectSeq(Rest(line), LAMBDA t : t.kind = "label")
ParsesInstruction(types, line) ==
    HeadOk(line) /\ ShapeOk(line) /\ \A t \in Range(Operands(line)) : Readable(types, t)
ParseInstruction(types, line) ==
    LET operands == Operands(line)
        targets  == TargetsOf(line)
        ins == Op(IF Defines(line) THEN line[1].text ELSE NoName, OpText(line), Printed(line),
                  [i \in DOMAIN operands |-> ValueOf(types, Context(line), operands[i])])
    IN CASE OpText(line) \in {"br", "br.cond"} ->
               [ins EXCEPT !.labels = [i \in DOMAIN targets |-> targets[i].n]]
         [] OpText(line) = "call" -> [ins EXCEPT !.callee = Rest(line)[1].text]
         [] OTHER -> ins

(* endFunction: a label line opens a block. *)
IsLabelLine(line) == Len(line) = 2 /\ line[1].kind = "label" /\ line[2].kind = ":"
ParsesBody(types, lines) ==
    /\ lines # <<>> /\ IsLabelLine(lines[1])
    /\ \A l \in Range(lines) : IsLabelLine(l) \/ ParsesInstruction(types, l)
ParseBody(types, lines) ==
    FoldLeft(LAMBDA blocks, l :
                 IF IsLabelLine(l) THEN Append(blocks, [label |-> l[1].n, instrs |-> <<>>])
                 ELSE [blocks EXCEPT ![Len(blocks)].instrs = Append(@, ParseInstruction(types, l))],
             <<>>, lines)

(* beginFunction and parseGlobal. *)
ParamTokens(line) == SubSeq(line, 4, Closing(line) - 1)
ParsesHeader(line) ==
    /\ At(line, 2).kind = "global" /\ At(line, 3).kind = "(" /\ Closing(line) > 0
    /\ LET inner == ParamTokens(line) IN
          /\ Len(inner) % 3 # 1
          /\ \A i \in DOMAIN inner :
                CASE i % 3 = 1 -> IsType(inner[i])
                  [] i % 3 = 2 -> inner[i].kind = "reg"
                  [] i % 3 = 0 -> inner[i].kind = ","
    /\ At(line, Closing(line) + 1).kind = "->" /\ IsType(At(line, Closing(line) + 2))
    /\ At(line, Closing(line) + 3).kind = "{"
ParamsOf(line) ==
    LET inner == ParamTokens(line)
    IN [i \in 1..((Len(inner) + 1) \div 3) |-> Reg(inner[3 * i - 1].text, inner[3 * i - 2].text)]
ReturnOf(line) == line[Closing(line) + 2].text
ParsesGlobal(line) ==
    /\ Len(line) = 6 /\ line[2].kind = "global" /\ line[3].kind = ":" /\ IsType(line[4])
    /\ line[5].kind = "=" /\ line[6].kind = "number"

(* run: line by line, a function's lines being kept until its "}". *)
Reader == [ok |-> TRUE, header |-> <<>>, body |-> <<>>, funcs |-> <<>>, order |-> <<>>, globals |-> <<>>]
EndFunction(rd) ==
    LET params == ParamsOf(rd.header)
        types  == DefinedTypes(params, rd.body)
        name   == rd.header[2].text
    IN IF ~ParsesBody(types, rd.body) THEN [rd EXCEPT !.ok = FALSE, !.header = <<>>]
       ELSE [rd EXCEPT !.header = <<>>, !.order = Append(@, name),
                !.funcs = (name :> [params |-> params, ret |-> ReturnOf(rd.header),
                                    blocks |-> ParseBody(types, rd.body)]) @@ @]
IsClose(line) == Len(line) = 1 /\ line[1].kind = "}"
Starts(line, keyword) == line[1].kind = "word" /\ line[1].text = keyword
ReadLine(rd, line) ==
    CASE rd.header # <<>> /\ IsClose(line) -> EndFunction(rd)
      [] rd.header # <<>> /\ ~IsClose(line) -> [rd EXCEPT !.body = Append(@, line)]
      [] rd.header = <<>> /\ Starts(line, "func") /\ ParsesHeader(line) ->
            [rd EXCEPT !.header = line, !.body = <<>>]
      [] rd.header = <<>> /\ Starts(line, "global") /\ ParsesGlobal(line) ->
            [rd EXCEPT !.globals = (line[2].text :> ConstInt(line[6].n, line[4].text)) @@ @]
      [] OTHER -> [rd EXCEPT !.ok = FALSE]
(* finish: no module unless every line was understood. *)
ParseCir(text) ==
    LET rd == FoldLeft(ReadLine, Reader, text)
    IN [ok |-> rd.ok /\ rd.header = <<>>,
        module |-> [funcs |-> rd.funcs, globals |-> rd.globals, order |-> rd.order]]

(* A module as the next tool has it that is given its text. *)
ReadBack(m) == ParseCir(PrintModule(m))
=============================================================================
