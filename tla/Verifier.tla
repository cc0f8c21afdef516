------------------------------ MODULE Verifier ------------------------------
(***************************************************************************)
(* verify() of src/src/cir/verifier.py, the check of the Python driver,    *)
(* one block per step: a single pass over the blocks in the order they are *)
(* listed, whose `defs` and `preds` carry over from block to block.        *)
(*                                                                         *)
(* One function is checked; verify() raises if any function has an error.  *)
(* The type of a comparison's result, which Instr here does not carry, is  *)
(* left out.                                                               *)
(***************************************************************************)
EXTENDS CFG

CONSTANT Functions
ASSUME FunctionsAssumption == \A f \in Functions : IsFunction(f)

VARIABLES
    fn,        \* the function under check
    i,         \* the next block of `for b in f.blocks`
    defs,      \* registers defined so far
    preds,     \* labels some block seen so far branches to
    errors     \* kinds of diagnostic so far

vars == <<fn, i, defs, preds, errors>>

Init == /\ fn \in Functions
        /\ i = 1
        /\ defs = Params(fn)
        /\ preds = {}
        /\ errors = IF fn.blocks = <<>> THEN {"no blocks"} ELSE {}

Checking == i <= Len(fn.blocks)
B == fn.blocks[i]

(* Exactly one terminator, and it is the last instruction. *)
TerminatedOnce(b) ==
    /\ IsTerminator(b.instrs[Len(b.instrs)])
    /\ Cardinality({j \in DOMAIN b.instrs : IsTerminator(b.instrs[j])}) = 1

(* The registers defined before the j-th instruction of b, and after b.   *)
(* Mutant: what the blocks before defined is forgotten.                   *)
DefsAt(b, j, before) == before \cup UNION {Dest(b.instrs[k]) : k \in 1..(j - 1)}
DefsForgotten(b, before) == Params(fn) \cup UNION {Dest(ins) : ins \in Range(b.instrs)}
DefsAfter(b, before) == before \cup UNION {Dest(ins) : ins \in Range(b.instrs)}

(* The edges of b that count in preds. *)
Edges(b) == Range(BlockSuccessors(b)) \cap Labels(fn)

UndefinedIn(b, before) ==
    \E j \in DOMAIN b.instrs : ~(Uses(b.instrs[j]) \subseteq DefsAt(b, j, before))

(* What a ret must give: nothing in a void function, else a value of ret. *)
RetMatches(ins) ==
    IF fn.ret = "void" THEN ins.args = <<>>
    ELSE ins.args # <<>> /\ ins.args[1].ty = fn.ret

BlockErrors(b, before) ==
    {e \in {"terminator", "unknown target", "use before definition",
            "condition type", "return type"} :
        \/ e = "terminator" /\ ~TerminatedOnce(b)
        \/ e = "unknown target" /\ ~(Range(BlockSuccessors(b)) \subseteq Labels(fn))
        \/ e = "use before definition" /\ UndefinedIn(b, before)
        \/ e = "condition type" /\ \E ins \in Range(b.instrs) :
              ins.op = "br.cond" /\ ins.args[1].ty # "i1"
        \/ e = "return type" /\ \E ins \in Range(b.instrs) :
              ins.op = "ret" /\ ~RetMatches(ins)}

(* An empty block is an error and is skipped. *)
CheckEmptyBlock ==
    /\ Checking
    /\ B.instrs = <<>>
    /\ errors' = errors \cup {"empty block"}
    /\ i' = i + 1
    /\ UNCHANGED <<fn, defs, preds>>

CheckBlock ==
    /\ Checking
    /\ B.instrs # <<>>
    /\ errors' = errors \cup BlockErrors(B, defs)
    /\ defs' = DefsAfter(B, defs)
    /\ preds' = preds \cup Edges(B)
    /\ i' = i + 1
    /\ UNCHANGED fn

(* After the loop: no edge into the entry, and a non-void function returns. *)
(* Mutant: the entry's predecessors are not looked at.                      *)
MissingReturn ==
    /\ fn.ret # "void"
    /\ \E b \in Range(fn.blocks) :
          /\ BlockSuccessors(b) = <<>>
          /\ ~(HasTerminator(b) /\ b.instrs[Len(b.instrs)].op = "ret")
FinalErrorsWithoutEntry == IF MissingReturn THEN {"missing return"} ELSE {}
FinalErrors ==
    {e \in {"entry has predecessor", "missing return"} :
        \/ e = "entry has predecessor" /\ Entry(fn) \in preds
        \/ e = "missing return" /\ MissingReturn}
Finish ==
    /\ fn.blocks # <<>>
    /\ i = Len(fn.blocks) + 1
    /\ errors' = errors \cup FinalErrors
    /\ i' = i + 1
    /\ UNCHANGED <<fn, defs, preds>>

Next == CheckEmptyBlock \/ CheckBlock \/ Finish
Spec == Init /\ [][Next]_vars

Done == fn.blocks = <<>> \/ i = Len(fn.blocks) + 2
Accepts == Done /\ errors = {}
-----------------------------------------------------------------------------
(* The structural half of verify() is as strong as checkCFG, except that   *)
(* it has no rule against two blocks of one label.                         *)
AcceptedGraphIsSound == Accepts /\ UniqueLabels(fn) => CheckCfg(fn) = {}

(* If every block but the first is listed after one of its predecessors,   *)
(* the listing contains a path to each block, so a pass in list order      *)
(* rejects no use that is defined on every path.                           *)
ListedAfterPredecessor ==
    \A j \in DOMAIN fn.blocks \ {1} :
        \E k \in 1..(j - 1) : fn.blocks[j].label \in Range(BlockSuccessors(fn.blocks[k]))
NoFalseAlarmInPathOrder ==
    WellDefined(fn) /\ ListedAfterPredecessor => "use before definition" \notin errors
=============================================================================
