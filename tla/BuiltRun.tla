------------------------------ MODULE BuiltRun ------------------------------
(***************************************************************************)
(* The front end (src/src/tool/Driver.cpp: parse, analyse, then build) and *)
(* the reference interpreter together: a source that none of them refuses  *)
(* is built and its main is interpreted.  SourceText says how a program is *)
(* written, MiniLangMeaning what its run should show.                      *)
(***************************************************************************)
EXTENDS Builder

CONSTANTS
    Programs,    \* the programs whose sources are compiled and run
    Shown,       \* the sources, tokens, that are only parsed (--emit=ast)
    MaxDepth, MaxSlots, MaxOut

VARIABLES
    emit,        \* options.emit: "ast" stops after the parser, "run" does not
    source,      \* the tokens of the source, none once it has been analysed
    mod, status, stack, slots, nextSlot, globs, out, result

runVars == <<mod, status, stack, slots, nextSlot, globs, out, result>>
allVars == <<emit, source, vars, runVars>>

P == INSTANCE Parser
T == INSTANCE SourceText

I == INSTANCE Interp WITH Modules <- {}
L == INSTANCE MiniLangMeaning

(* The module handed on; the builder keeps nothing. *)
BuiltModule ==
    [funcs   |-> [f \in Declared |->
                    built[CHOOSE i \in DOMAIN built : tree.fns[i].name = f]],
     globals |-> Globals]
-----------------------------------------------------------------------------
InitSource ==
    /\ Init
    /\ \/ emit = "run" /\ source \in {T!Spelled(p) : p \in Programs}
       \/ emit = "ast" /\ source \in Shown
    /\ mod = [funcs |-> <<>>, globals |-> <<>>]
    /\ status = "source" /\ stack = <<>> /\ slots = <<>> /\ nextSlot = 0
    /\ globs = <<>> /\ out = <<>> /\ result = I!Num(0)

Parse ==
    /\ status = "source"
    /\ \E r \in {P!Parsed} :
          /\ status' = IF r.ok THEN "parsed" ELSE "refused"
          /\ program' = IF r.ok THEN r.node ELSE program
    /\ UNCHANGED <<emit, source, tree, built, todo, vals, scopes, loops, code, diags, mod,
                   stack, slots, nextSlot, globs, out, result>>

Analyse ==
    /\ status = "parsed" /\ emit # "ast"
    /\ Begin
    /\ status' = "build" /\ source' = <<>>
    /\ UNCHANGED <<emit, mod, stack, slots, nextSlot, globs, out, result>>

Build == status = "build" /\ Next /\ UNCHANGED <<emit, source, runVars>>

Start ==
    /\ status = "build" /\ HasModule
    /\ mod' = BuiltModule
    /\ status' = "run"
    /\ stack' = <<I!Frame("main", <<>>)>>'
    /\ globs' = [x \in DOMAIN Globals |-> I!Num(Globals[x].v)]
    /\ built' = <<>>
    /\ UNCHANGED <<emit, source, program, tree, todo, vals, scopes, loops, code, diags, slots,
                   nextSlot, out, result>>

Run == status = "run" /\ I!Next /\ UNCHANGED <<emit, source, vars>>

BuildOrRun == Build \/ Start \/ Run
NextBuiltRun == Parse \/ Analyse \/ BuildOrRun
SpecBuiltRun == InitSource /\ [][NextBuiltRun]_allVars /\ WF_allVars(BuildOrRun)
-----------------------------------------------------------------------------
(* A program is read back from its source as it is, whatever is nested in  *)
(* what, and a source that is accepted is the program it is read as but    *)
(* for parentheses: no operator is given to the wrong operand, and none of *)
(* its tokens is dropped (Parser.cpp:21, "the normative `orExpr ...        *)
(* mulExpr` cascade of the spec, collapsed into one routine").             *)
ReadsAsSpelled ==
    /\ status = "parsed"  => T!SaysNoMore(source, T!Spelled(program))
    /\ status = "refused" => emit = "ast"

(* The registers of a function have one name each, and the analyser, the   *)
(* builder and the verifier agree on it (IsSound).                         *)
WellBuilt ==
    /\ \A f \in DOMAIN mod.funcs : NamedOnce(mod.funcs[f])
    /\ \A d \in Range(tree.fns) : IsSound(d)

(* A built program does what it says: main returns the value, prints the   *)
(* values and traps where the meaning of the program does, operands and    *)
(* arguments are evaluated left to right (docs/divergence.md row 9), each  *)
(* name is the innermost declaration and each jump the innermost loop's.   *)
(* A read of a variable that was never written is undefined.               *)
OutcomeOf(meaning) == IF meaning.st = "trap" THEN "trapped" ELSE "returned"
DoesWhatItSays ==
    LET meaning == L!Meaning(program)
    IN meaning.st # "undefined" =>
          /\ status = OutcomeOf(meaning)
          /\ out = [i \in DOMAIN meaning.out |-> I!Num(meaning.out[i])]
          /\ status = "returned" => result = I!Num(meaning.result)
HasRun == status \notin {"source", "parsed", "refused", "build", "run"}
RunsAsWritten == HasRun /\ WellBuilt => DoesWhatItSays

(* Without the restriction: a name is declared after its initialiser has   *)
(* been checked (Analyse.cpp:372), and an outer name may be shadowed       *)
(* (docs/minilang-spec.md:99), so the initialiser of a shadowing let reads *)
(* the outer variable.                                                     *)
InitialisersReadOutward == HasRun => DoesWhatItSays

(* A program that has been analysed is turned away or runs to an end: the  *)
(* jumps of a loop lead on.  (The meaning of every program given ends, or  *)
(* it could not be evaluated.)                                             *)
EveryRunEnds == (status = "build") ~> (tree.errs # {} \/ diags # {} \/ HasRun)
=============================================================================
