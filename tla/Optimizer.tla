----------------------------- MODULE Optimizer -----------------------------
(***************************************************************************)
(* The optimiser working on one function (src/src/opt/PassManager.cpp):    *)
(* a round runs constant folding, copy propagation and dead-code           *)
(* elimination in that order, whatever each of them does; another round    *)
(* follows one that changed something, up to MaxRounds rounds.             *)
(*                                                                         *)
(* ConstantFolding.cpp and CopyPropagation.cpp repeat two phases.  The     *)
(* first walks the listed instructions, one per step here, and collects in *)
(* `known` what replaces which register; the second rewrites the function  *)
(* in one step.                                                            *)
(***************************************************************************)
EXTENDS Arith, CFG, Lists, SequencesExt

CONSTANTS
    Functions,   \* the functions that may be optimised
    MaxRounds    \* maxRounds_; 8 in the code

ASSUME FunctionsAssumption == \A f \in Functions : IsFunction(f)
ASSUME RoundsAssumption == MaxRounds \in Nat \ {0}

VARIABLES
    fn,          \* the function, rewritten in place
    pass,        \* the pass running, or "done"
    round,       \* the round of PassManager::run
    changed,     \* roundChanged, the running pass's `changed` included
    single,      \* the registers the pass counted one definition of
    known,       \* ConstantFoldingPass: known, CopyPropagationPass: aliases
    at           \* the position of the first phase in Listing(fn)

vars == <<fn, pass, round, changed, single, known, at>>

Passes == <<"constfold", "copyprop", "dce">>
Listing(f) == FlattenSeq([i \in DOMAIN f.blocks |-> f.blocks[i].instrs])

DefinitionsOf(f, r) == {i \in DOMAIN Listing(f) : Listing(f)[i].dest = r}
(* definitionCounts: parameters are not counted.                           *)
SingleDefs(f) == {r \in UNION {Dest(ins) : ins \in Instructions(f)} : Cardinality(DefinitionsOf(f, r)) = 1}
-----------------------------------------------------------------------------
(* What both passes do with the registers they know. *)
Resolve(a, m) == IF a.k = "reg" /\ a.name \in DOMAIN m THEN m[a.name] ELSE a
Substitute(ins, m) ==
    [ins EXCEPT !.args = [i \in DOMAIN ins.args |-> Resolve(ins.args[i], m)]]
(* Mutants: the definitions go and their uses stay; the definitions stay.  *)
Undropped(instrs, m) == {i \in DOMAIN instrs : instrs[i].dest \notin DOMAIN m}
ReplaceDropsOnly(instrs, m) == Kept(instrs, Undropped(instrs, m))
ReplaceKeeps(instrs, m) == [i \in DOMAIN instrs |-> Substitute(instrs[i], m)]
Replace(instrs, m) ==
    Kept([i \in DOMAIN instrs |-> Substitute(instrs[i], m)], Undropped(instrs, m))

Bind(m, r, v) == [x \in DOMAIN m \cup {r} |-> IF x = r THEN v ELSE m[x]]

(* foldInstruction: which operations on integer literals fold.  A division *)
(* that traps is left alone.                                               *)
Literal(ins, i) == ins.args[i].v
AllConstant(ins) == ins.args # <<>> /\ \A i \in DOMAIN ins.args : ins.args[i].k = "int"
Folds(ins) ==
    /\ AllConstant(ins)
    /\ \/ /\ ins.op \in BinOps /\ Len(ins.args) = 2
          /\ ~BinOpTraps(ins.op, ins.ty, Literal(ins, 1), Literal(ins, 2))
       \/ ins.op \in Cmps /\ Len(ins.args) = 2
       \/ ins.op \in UnaryOps \cup ConvOps /\ Len(ins.args) = 1

(* The literals are used as they are written; a comparison first reduces   *)
(* them to the type, everything else reduces its result, i1 true to -1.    *)
FoldedCompare(ins) ==
    ICmp(ins.op, ins.ty, WrapInt(Literal(ins, 1), ins.ty), WrapInt(Literal(ins, 2), ins.ty))
FoldedConversion(ins) ==
    IF ins.op = "zext" THEN Unsigned(Literal(ins, 1), ins.args[1].ty) ELSE Literal(ins, 1)
FoldedValue(ins) ==
    CASE ins.op \in BinOps   -> RawBinOp(ins.op, ins.ty, Literal(ins, 1), Literal(ins, 2))
      [] ins.op \in UnaryOps -> RawUnaryOp(ins.op, Literal(ins, 1))
      [] ins.op \in ConvOps  -> FoldedConversion(ins)
(* Mutant: the result is not reduced to its type. *)
FoldedUnreduced(ins) ==
    IF ins.op \in Cmps THEN ConstInt(FoldedCompare(ins), "i1")
                       ELSE ConstInt(FoldedValue(ins), ins.ty)
Folded(ins) ==
    IF ins.op \in Cmps THEN ConstInt(FoldedCompare(ins), "i1")
                       ELSE ConstInt(WrapInt(FoldedValue(ins), ins.ty), ins.ty)

(* A br.cond on a constant becomes a br, by bit 0 of the constant.         *)
(* Mutants: the other arm is taken; both labels become the taken one.      *)
TakenLabelOther(ins) == IF ins.args[1].v % 2 = 1 THEN ins.labels[2] ELSE ins.labels[1]
TakenLabel(ins) == IF ins.args[1].v % 2 = 1 THEN ins.labels[1] ELSE ins.labels[2]
BranchFolds(ins) == ins.op = "br.cond" /\ ins.args[1].k = "int"
FoldBranchInPlace(instrs) ==
    IF instrs # <<>> /\ BranchFolds(instrs[Len(instrs)])
    THEN [instrs EXCEPT ![Len(instrs)].labels =
             <<TakenLabel(instrs[Len(instrs)]), TakenLabel(instrs[Len(instrs)])>>]
    ELSE instrs
FoldBranch(instrs) ==
    IF instrs # <<>> /\ BranchFolds(instrs[Len(instrs)])
    THEN [instrs EXCEPT ![Len(instrs)] = Br(TakenLabel(instrs[Len(instrs)]))]
    ELSE instrs

(* identityFor and copySource: an operation with a constant operand that   *)
(* changes nothing.                                                        *)
Unit == [o \in {"add", "sub", "or", "xor", "shl", "ashr", "lshr"} |-> 0]
        @@ [o \in {"mul", "sdiv", "udiv"} |-> 1] @@ [o \in {"and"} |-> -1]
Commutes == {"add", "or", "xor", "mul", "and"}
IsUnit(ins, i) ==
    ins.args[i].k = "int" /\ WrapInt(ins.args[i].v, ins.ty) = WrapInt(Unit[ins.op], ins.ty)
IsCopy(ins) ==
    /\ ins.dest # NoName /\ ins.op \in DOMAIN Unit
    /\ Len(ins.args) = 2 /\ ins.ty \in IntTypes
    /\ \/ IsUnit(ins, 2)
       \/ ins.op \in Commutes /\ IsUnit(ins, 1)
CopySource(ins) == IF IsUnit(ins, 2) THEN ins.args[1] ELSE ins.args[2]

(* The `while`: follow the aliases already found to the end of the chain. *)
Chase(a, m) ==
    LET hop[n \in 0..Cardinality(DOMAIN m)] ==
            IF n = 0 THEN a ELSE Resolve(hop[n - 1], m)
    IN hop[Cardinality(DOMAIN m)]
(* A register is no alias of itself.  Mutant: it may be. *)
NamesAnotherOrSelf(ins, s) == TRUE
NamesAnother(ins, s) == ~(s.k = "reg" /\ s.name = ins.dest)

(* removeUnreachableBlocks: reachability is by block, so of two blocks of  *)
(* one label the second is not reachable.                                  *)
LiveBlocks(f) ==
    LET reached == OnSomePath(f)
    IN {i \in DOMAIN f.blocks :
          /\ f.blocks[i].label \in reached
          /\ \A j \in 1..(i - 1) : f.blocks[j].label # f.blocks[i].label}
AllReachable(f) == LiveBlocks(f) = DOMAIN f.blocks
KeepReachable(f) ==
    IF f.blocks = <<>> THEN f ELSE [f EXCEPT !.blocks = Kept(f.blocks, LiveBlocks(f))]

Used(f) == UNION {Uses(ins) : ins \in Instructions(f)}
(* removeDeadDefinitions: no result is read and nothing else happens. *)
Dead(f, ins) ==
    /\ ins.dest # NoName /\ ins.dest \notin Used(f)
    /\ ins.op \notin SideEffecting /\ ~IsTerminator(ins)
LiveAt(f, instrs) == {i \in DOMAIN instrs : ~Dead(f, instrs[i])}
KeepLive(f) ==
    [f EXCEPT !.blocks = [i \in DOMAIN f.blocks |->
        [f.blocks[i] EXCEPT !.instrs = Kept(@, LiveAt(f, @))]]]
-----------------------------------------------------------------------------
Init == /\ fn \in Functions
        /\ pass = "constfold"
        /\ round = 1
        /\ changed = FALSE
        /\ single = SingleDefs(fn)
        /\ known = <<>>
        /\ at = 1

Analysed == at = Len(Listing(fn)) + 1
Ins      == Listing(fn)[at]

(* A pass starts by counting the definitions anew. *)
StartPass(p, r, c) ==
    /\ pass' = p /\ round' = r /\ changed' = c
    /\ single' = IF p \in {"constfold", "copyprop"} THEN SingleDefs(fn') ELSE {}
    /\ known' = <<>> /\ at' = 1

(* The next pass of the round; after the last one, another round if this   *)
(* one changed something.                                                  *)
(* Mutant: a round is taken to be enough.                                  *)
ReturnAfterOneRound ==
    CASE pass = "constfold" -> StartPass("copyprop", round, changed)
      [] pass = "copyprop"  -> StartPass("dce", round, changed)
      [] pass = "dce"       -> StartPass("done", round, FALSE)
Return ==
    CASE pass = "constfold" -> StartPass("copyprop", round, changed)
      [] pass = "copyprop"  -> StartPass("dce", round, changed)
      [] pass = "dce" /\ changed /\ round < MaxRounds  -> StartPass("constfold", round + 1, FALSE)
      [] pass = "dce" /\ ~(changed /\ round < MaxRounds) -> StartPass("done", round, FALSE)

(* The pass's loop goes round again, or the pass returns.  A pass that     *)
(* knows a register drops its definition, which counts as a change.        *)
Again ==
    /\ changed' = TRUE /\ known' = <<>> /\ at' = 1
    /\ UNCHANGED <<pass, round, single>>

(* ConstantFoldingPass::runOnFunction, phase A and phase B. *)
FoldInstr ==
    /\ pass = "constfold" /\ ~Analysed
    /\ LET probe == Substitute(Ins, known)
       IN known' = IF Ins.dest \in single /\ Folds(probe)
                   THEN Bind(known, Ins.dest, Folded(probe)) ELSE known
    /\ at' = at + 1
    /\ UNCHANGED <<fn, pass, round, changed, single>>

FoldRewrite ==
    /\ pass = "constfold" /\ Analysed
    /\ fn' = [fn EXCEPT !.blocks = [i \in DOMAIN fn.blocks |->
                 [fn.blocks[i] EXCEPT !.instrs = FoldBranch(Replace(@, known))]]]
    /\ IF known # <<>> \/ fn' # fn THEN Again ELSE Return

(* CopyPropagationPass::runOnFunction: the table, then the rewriting. *)
CopyInstr ==
    /\ pass = "copyprop" /\ ~Analysed
    /\ known' = IF /\ Ins.dest \in single /\ IsCopy(Ins)
                    /\ NamesAnother(Ins, Chase(CopySource(Ins), known))
                 THEN Bind(known, Ins.dest, Chase(CopySource(Ins), known)) ELSE known
    /\ at' = at + 1
    /\ UNCHANGED <<fn, pass, round, changed, single>>

CopyRewrite ==
    /\ pass = "copyprop" /\ Analysed
    /\ fn' = [fn EXCEPT !.blocks = [i \in DOMAIN fn.blocks |->
                 [fn.blocks[i] EXCEPT !.instrs = Replace(@, known)]]]
    /\ IF known # <<>> THEN Again ELSE Return

(* One turn of DeadCodeEliminationPass::runOnFunction: blocks, then definitions. *)
Eliminate ==
    /\ pass = "dce"
    /\ \E reached \in {KeepReachable(fn)} : fn' = KeepLive(reached)
    /\ IF fn' # fn THEN Again ELSE Return

Next == FoldInstr \/ FoldRewrite \/ CopyInstr \/ CopyRewrite \/ Eliminate
Spec == Init /\ [][Next]_vars /\ WF_vars(Next)
-----------------------------------------------------------------------------
(* Every path to l goes through d: what the entry leads to without going   *)
(* on from d does not hold l.                                              *)
Dominates(f, d, l) ==
    \/ l = d
    \/ \E S \in SUBSET Labels(f) :
          /\ Entry(f) \in S /\ l \notin S
          /\ \A x \in S \ {d} : Range(Successors(f, x)) \subseteq S
(* The blocks are listed as the builder lists them: an edge goes back in   *)
(* the listing only to a block that every path has been through.           *)
ListedInOrder(f) ==
    \A i \in DOMAIN f.blocks : \A j \in 1..i :
        /\ f.blocks[i].label \in OnSomePath(f)
        /\ f.blocks[j].label \in Range(BlockSuccessors(f.blocks[i]))
        => Dominates(f, f.blocks[j].label, f.blocks[i].label)
ParamsKept(f) == \A p \in Params(f) : DefinitionsOf(f, p) = {}

(* Every rewriting of such a function, if its parameters are never         *)
(* assigned, leaves it without a use that some path reaches undefined and  *)
(* without a broken graph (Passes.h:99, "the IR is never left with a       *)
(* deleted definition and a surviving use"), and still listed in order.    *)
(* Listed against its order a chain of copies would lose a definition:     *)
(* CopyPropagation.cpp:114 replaces one level deep.                        *)
Keepable(f) == WellDefined(f) /\ ListedInOrder(f) /\ ParamsKept(f)
StaysWellDefined == [][fn' # fn /\ Keepable(fn) => Keepable(fn')]_vars

(* The `while` of copy propagation ends: no chain of aliases leads back to *)
(* itself, so the end of every chain is a value that is not an alias.      *)
AliasChainsEnd ==
    pass = "copyprop" =>
        \A r \in DOMAIN known :
            LET end == Chase(known[r], known)
            IN end.k = "reg" => end.name \notin DOMAIN known

(* The passes only ever remove (Pass.h:48, "Every pass is monotone"): each *)
(* change leaves fewer blocks and instructions, or as many and fewer       *)
(* conditional branches.                                                   *)
Size(f) == Len(f.blocks) + Len(Listing(f))
CondBranches(f) == {i \in DOMAIN Listing(f) : Listing(f)[i].op = "br.cond"}
EveryChangeShrinks ==
    [][fn' # fn => \/ Size(fn') < Size(fn)
                   \/ /\ Size(fn') = Size(fn)
                      /\ CondBranches(fn') \subseteq CondBranches(fn)
                      /\ CondBranches(fn') # CondBranches(fn)]_vars

(* The loops of the passes and of run() end, for a function whose graph    *)
(* checkCFG lets through.                                                  *)
Terminates == CheckCfg(fn) = {} ~> pass = "done"

(* When run() stops before its limit, nothing is left for a pass to do.    *)
NothingLeft ==
    pass = "done" /\ round < MaxRounds /\ CheckCfg(fn) = {} =>
        /\ AllReachable(fn)
        /\ \A ins \in Instructions(fn) :
              /\ ~Dead(fn, ins) /\ ~BranchFolds(ins)
              /\ ins.dest \in SingleDefs(fn) =>
                    /\ ~Folds(ins)
                    /\ IsCopy(ins) => ~NamesAnother(ins, CopySource(ins))
=============================================================================
