-------------------------------- MODULE CFG --------------------------------
(***************************************************************************)
(* The pure half of the verifier's graph rules (src/src/cir/Verifier.cpp,  *)
(* CFG.cpp; the Python port is src/src/cir/cfg.py): the structural rules   *)
(* of checkCFG, the transfer function and the meet of checkDefinitions,    *)
(* and the uses it reports.                                                *)
(***************************************************************************)
EXTENDS CIR

UniqueLabels(fn) ==
    \A i, j \in DOMAIN fn.blocks : fn.blocks[i].label = fn.blocks[j].label => i = j

(* checkCFG: the kinds of diagnostic it gives, {} for a sound graph. *)
EndsInTerminator(fn) == \A b \in Range(fn.blocks) : HasTerminator(b)
NothingAfterTerminator(fn) ==
    \A b \in Range(fn.blocks) :
        \A j \in 1..(Len(b.instrs) - 1) : ~IsTerminator(b.instrs[j])
TargetsExist(fn) ==
    \A b \in Range(fn.blocks) : Range(BlockSuccessors(b)) \subseteq Labels(fn)
EntryHasNoPredecessor(fn) == Predecessors(fn, Entry(fn)) = {}

(* Mutant: rule 3 is dropped, a branch may name a block that is not there. *)
CheckCfgWithoutRule3(fn) ==
    IF fn.blocks = <<>> THEN {"CIR00"}
    ELSE {e \in {"CIR09", "CIR01", "CIR02", "CIR05"} :
            \/ e = "CIR09" /\ ~UniqueLabels(fn)
            \/ e = "CIR01" /\ ~EndsInTerminator(fn)
            \/ e = "CIR02" /\ ~NothingAfterTerminator(fn)
            \/ e = "CIR05" /\ ~EntryHasNoPredecessor(fn)}
CheckCfg(fn) ==
    IF fn.blocks = <<>> THEN {"CIR00"}
    ELSE {e \in {"CIR09", "CIR01", "CIR02", "CIR03", "CIR05"} :
            \/ e = "CIR09" /\ ~UniqueLabels(fn)
            \/ e = "CIR01" /\ ~EndsInTerminator(fn)
            \/ e = "CIR02" /\ ~NothingAfterTerminator(fn)
            \/ e = "CIR03" /\ ~TargetsExist(fn)
            \/ e = "CIR05" /\ ~EntryHasNoPredecessor(fn)}

(* The registers the first n instructions of a block define. *)
DefinedBefore(fn, l, n) == UNION {Dest(Instrs(fn, l)[i]) : i \in 1..n}

(* transfer: what is available at the end of a block. *)
DefinedBy(fn, l, incoming) ==
    incoming \cup DefinedBefore(fn, l, Len(Instrs(fn, l)))

(* The meet over the reachable predecessors: what all of them define, or *)
(* nothing where there is none.                                          *)
LivePreds(fn, live, l) == Predecessors(fn, l) \cap live
(* Mutant: a union, what some predecessor defines. *)
MeetAny(fn, live, avail, l) ==
    {r \in AllRegs(fn) :
        \E p \in LivePreds(fn, live, l) : r \in DefinedBy(fn, p, avail[p])}
Meet(fn, live, avail, l) ==
    {r \in AllRegs(fn) :
        /\ LivePreds(fn, live, l) # {}
        /\ \A p \in LivePreds(fn, live, l) : r \in DefinedBy(fn, p, avail[p])}

(* `in` before the first round. *)
(* Mutant: the iteration starts from nothing defined. *)
InitialNone(fn, live) ==
    [l \in live |-> IF l = Entry(fn) THEN Params(fn) ELSE {}]
InitialAvail(fn, live) ==
    [l \in live |-> IF l = Entry(fn) THEN Params(fn) ELSE AllRegs(fn)]

(* The registers a block reads before they are available. *)
(* Mutant: an instruction's own result counts as defined when it reads. *)
UndefinedUsesAfter(fn, l, avail) ==
    {r \in UNION {Uses(ins) : ins \in Range(Instrs(fn, l))} :
        \E i \in DOMAIN Instrs(fn, l) :
            /\ r \in Uses(Instrs(fn, l)[i])
            /\ r \notin avail \cup DefinedBefore(fn, l, i)}
UndefinedUses(fn, l, avail) ==
    {r \in UNION {Uses(ins) : ins \in Range(Instrs(fn, l))} :
        \E i \in DOMAIN Instrs(fn, l) :
            /\ r \in Uses(Instrs(fn, l)[i])
            /\ r \notin avail \cup DefinedBefore(fn, l, i - 1)}

(***************************************************************************)
(* The reference the analysis is held against: what paths do, stated as    *)
(* least closed sets of labels instead of as an iteration.                 *)
(***************************************************************************)
ClosedUnderEdges(fn, S) ==
    Entry(fn) \in S /\ \A l \in S : Range(Successors(fn, l)) \subseteq S

(* The labels some path from the entry leads to. *)
OnSomePath(fn) ==
    {l \in Labels(fn) :
        \A S \in SUBSET Labels(fn) : ClosedUnderEdges(fn, S) => l \in S}

(* The labels some path leads to whose blocks before it do not define r. *)
ClosedAvoiding(fn, r, S) ==
    /\ r \notin Params(fn) => Entry(fn) \in S
    /\ \A l \in S :
          r \notin DefinedBy(fn, l, {}) => Range(Successors(fn, l)) \subseteq S
MissingAt(fn, r) ==
    {l \in Labels(fn) :
        \A S \in SUBSET Labels(fn) : ClosedAvoiding(fn, r, S) => l \in S}

(* The uses some path reaches without a definition, by block. *)
UndefinedOnSomePath(fn, l) ==
    {r \in UNION {Uses(ins) : ins \in Range(Instrs(fn, l))} :
        \E i \in DOMAIN Instrs(fn, l) :
            /\ r \in Uses(Instrs(fn, l)[i])
            /\ r \notin DefinedBefore(fn, l, i - 1)
            /\ l \in MissingAt(fn, r)}

(* What a function that passes verifyFunction is promised to satisfy. *)
WellDefined(fn) ==
    /\ CheckCfg(fn) = {}
    /\ \A l \in OnSomePath(fn) : UndefinedOnSomePath(fn, l) = {}

(* A function as the parser and the builder make it: lists are lists, an   *)
(* access has the operands, a branch the targets and an address the result *)
(* its opcode takes, and what has no result names no register.             *)
IsList(s) == s \in Seq(Range(s))
IsOperand(a) == a.k \in {"reg", "int", "global"} /\ (a.k = "global" => a.ty = "ptr")
IsInstr(ins) ==
    /\ ins = [op |-> ins.op, ty |-> ins.ty, dest |-> ins.dest, dty |-> ins.dty, args |-> ins.args,
              labels |-> ins.labels, callee |-> ins.callee]
    /\ IsList(ins.args) /\ IsList(ins.labels)
    /\ \A a \in Range(ins.args) : IsOperand(a)
    /\ ins.op = "load" => Len(ins.args) = 1
    /\ ins.op \in {"store", "gep"} => Len(ins.args) = 2
    /\ ins.op = "br" => Len(ins.labels) = 1
    /\ ins.op = "br.cond" => Len(ins.labels) = 2
    /\ ins.op = "ret" => ins.labels = <<>>
    /\ ins.op \in DefinesNothing => ins.dest = NoName
    /\ ins.op \in {"alloca", "gep"} => ins.dest # NoName
IsFunction(fn) ==
    /\ fn = [params |-> fn.params, ret |-> fn.ret, blocks |-> fn.blocks]
    /\ IsList(fn.params) /\ IsList(fn.blocks)
    /\ \A b \in Range(fn.blocks) :
          /\ b = [label |-> b.label, instrs |-> b.instrs]
          /\ b.label \in Nat /\ IsList(b.instrs) /\ \A ins \in Range(b.instrs) : IsInstr(ins)
=============================================================================
