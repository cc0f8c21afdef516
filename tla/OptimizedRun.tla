---------------------------- MODULE OptimizedRun ----------------------------
(***************************************************************************)
(* The optimiser between two runs of the reference interpreter: a module   *)
(* is run as it was built, then PassManager::run (src/src/opt/             *)
(* PassManager.cpp) rewrites its functions one by one, then the result is  *)
(* run.  This is the check                                                 *)
(* the tests of the optimiser and the differential harness make on a few   *)
(* programs (src/tests/harness/differential.py).                           *)
(***************************************************************************)
EXTENDS Integers, Sequences, FiniteSets, SequencesExt, Functions

CONSTANTS W32, W64, Modules, MaxDepth, MaxSlots, MaxOut, MaxRounds

VARIABLES mod, status, stack, slots, nextSlot, globs, out, result,
          fn, pass, round, changed, single, known, at,
          stage,     \* "before", "optimise" or "after"
          current,   \* the function being optimised
          left,      \* the functions of the module still to be optimised
          original,  \* the module as it was
          seen       \* what the run of the original module showed

I == INSTANCE Interp
O == INSTANCE Optimizer WITH
        Functions <- UNION {{m.funcs[f] : f \in DOMAIN m.funcs} : m \in Modules}

runVars == <<mod, status, stack, slots, nextSlot, globs, out, result>>
optVars == <<fn, pass, round, changed, single, known, at>>
vars == <<runVars, optVars, stage, current, left, original, seen>>

Observation == [status |-> status, out |-> out, result |-> result]

(* runOnFunction of the first pass is about to start on function f. *)
Optimising(f) ==
    /\ current = f /\ fn = mod.funcs[f]
    /\ pass = "constfold" /\ round = 1 /\ changed = FALSE
    /\ single = O!SingleDefs(fn) /\ known = <<>> /\ at = 1
-----------------------------------------------------------------------------
Init ==
    /\ I!Init
    /\ Optimising("main")
    /\ stage = "before" /\ left = DOMAIN mod.funcs \ {"main"}
    /\ original = mod /\ seen = Observation

Run ==
    /\ stage \in {"before", "after"}
    /\ I!Next
    /\ UNCHANGED <<optVars, stage, current, left, original, seen>>

Observe ==
    /\ stage = "before" /\ status # "run"
    /\ stage' = "optimise" /\ seen' = Observation
    /\ UNCHANGED <<runVars, optVars, current, left, original>>

Optimise ==
    /\ stage = "optimise" /\ O!Next
    /\ UNCHANGED <<runVars, stage, current, left, original, seen>>

(* The function is rewritten in place; the loop takes the next one. *)
NextFunction ==
    /\ stage = "optimise" /\ pass = "done" /\ left # {}
    /\ mod' = [mod EXCEPT !.funcs[current] = fn]
    /\ \E f \in left :
          /\ current' = f /\ fn' = mod.funcs[f] /\ left' = left \ {f}
          /\ single' = O!SingleDefs(fn')
    /\ pass' = "constfold" /\ round' = 1 /\ changed' = FALSE /\ known' = <<>> /\ at' = 1
    /\ UNCHANGED <<status, stack, slots, nextSlot, globs, out, result, stage, original, seen>>

(* All functions are rewritten: the interpreter starts afresh on them. *)
RunAgain ==
    /\ stage = "optimise" /\ pass = "done" /\ left = {}
    /\ stage' = "after"
    /\ mod' = [mod EXCEPT !.funcs[current] = fn]
    /\ status' = "run" /\ stack' = <<I!Frame("main", <<>>)>>'
    /\ slots' = <<>> /\ nextSlot' = 0 /\ out' = <<>> /\ result' = I!Num(0)
    /\ globs' = [x \in DOMAIN mod.globals |-> I!Num(mod.globals[x].v)]
    /\ UNCHANGED <<optVars, current, left, original, seen>>

Next == Run \/ Observe \/ Optimise \/ NextFunction \/ RunAgain
Spec == Init /\ [][Next]_vars /\ WF_vars(Next)
-----------------------------------------------------------------------------
(* Modules as the front end's builder makes them: every register has one   *)
(* definition, blocks are listed in order, and verifyFunction lets every   *)
(* function through.                                                       *)
OneDefinition(f) ==
    \A r \in O!AllRegs(f) :
        Cardinality(O!DefinitionsOf(f, r)) + (IF r \in O!Params(f) THEN 1 ELSE 0) = 1
WidensBool(m) ==
    \E f \in DOMAIN m.funcs : \E ins \in O!Instructions(m.funcs[f]) :
        ins.op = "sext" /\ ins.args[1].ty = "i1"
(* foldInstruction divides literals as they are written, the interpreter   *)
(* reduces every operand to its type first: the two part where a literal   *)
(* is out of its type's range.                                             *)
DividesInRange(m) ==
    \A f \in DOMAIN m.funcs : \A ins \in O!Instructions(m.funcs[f]) :
        ins.op \in O!DivOps =>
            \A a \in Range(ins.args) : a.k = "int" => a.v = O!WrapInt(a.v, a.ty)
SingleAssignment(m) ==
    /\ I!Accepted(m)
    /\ \A f \in DOMAIN m.funcs : OneDefinition(m.funcs[f]) /\ O!ListedInOrder(m.funcs[f])

Compared(m) == SingleAssignment(m) /\ DividesInRange(m) /\ ~WidensBool(m)

Finished == stage = "after" /\ status # "run"

(* A run that returned returns the same value and prints the same after    *)
(* the passes, so no pass adds a trap; one that trapped has printed no     *)
(* less by then (Pass.h:10: "Every pass preserves CIR semantics").         *)
Agrees ==
    /\ seen.status = "returned" => Observation = seen
    /\ seen.status = "trapped" => IsPrefix(seen.out, out)
PreservesRuns ==
    Finished /\ Compared(original) => Agrees

(* A run that returned still ends: folding a branch keeps the arm the run  *)
(* takes.                                                                  *)
StillReturns ==
    stage = "after" /\ seen.status = "returned"
        /\ Compared(original) ~> Finished

(* Pass.h:11: "no pass may remove a trap". *)
TrapsSurvive ==
    Finished /\ Compared(original) /\ seen.status = "trapped" => status = "trapped"
=============================================================================
