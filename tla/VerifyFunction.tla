--------------------------- MODULE VerifyFunction ---------------------------
(***************************************************************************)
(* verifyFunction of src/src/cir/Verifier.cpp as the loops it runs:        *)
(* checkCFG, the CFG constructor's worklist and depth-first walk           *)
(* (src/src/cir/CFG.cpp), the round-robin iteration of checkDefinitions    *)
(* over the reverse postorder, the pass that reports undefined uses, and   *)
(* checkTypes.  The CFG is built once here; the code builds the same one   *)
(* in checkCFG and in checkDefinitions.                                    *)
(***************************************************************************)
EXTENDS TypeRules

CONSTANTS
    Functions,  \* the functions that may be verified
    Sigs        \* the signatures of the module's functions
ASSUME FunctionsAssumption == \A f \in Functions : IsFunction(f)

VARIABLES
    fn,         \* the function under check, never changed
    phase,      \* the loop that is running
    work,       \* computeReachability: its stack of labels
    seen,       \* reachable_
    walk,       \* computeReversePostorder: its stack of labels and child counts
    opened,     \* the labels whose state is Open
    order,      \* rpo_
    entryIn,    \* checkDefinitions: in, the registers defined on every path into a block
    todo,       \* what the running `for id : reversePostorder()` has still to visit
    changed,    \* checkDefinitions: changed
    errors,     \* diagnostics of checkCFG and checkDefinitions
    typeErrors  \* diagnostics of checkTypes

vars == <<fn, phase, work, seen, walk, opened, order, entryIn, todo, changed, errors, typeErrors>>
walkVars == <<walk, opened, order>>

Phases == {"cfg", "reach", "order", "flow", "uses", "types", "done"}

Init == /\ fn \in Functions
        /\ phase = "cfg"
        /\ work = <<>>
        /\ seen = {}
        /\ walk = <<>> /\ opened = {} /\ order = <<>>
        /\ entryIn = <<>>
        /\ todo = <<>>
        /\ changed = FALSE
        /\ errors = {} /\ typeErrors = {}

(* A broken graph stops the check before the dataflow. *)
CheckGraph ==
    /\ phase = "cfg"
    /\ errors' = CheckCfg(fn) \X {NoName}
    /\ IF CheckCfg(fn) # {}
       THEN phase' = "done" /\ work' = work
       ELSE phase' = "reach" /\ work' = <<Entry(fn)>>
    /\ UNCHANGED <<fn, seen, walkVars, entryIn, todo, changed, typeErrors>>

(* The successors that are pushed, of a terminator's at most two: those not *)
(* reached yet.                                                             *)
Unless(s, S) == IF s \in S THEN <<>> ELSE <<s>>
Fresh(succs, S) ==
    CASE Len(succs) = 0 -> <<>>
      [] Len(succs) = 1 -> Unless(succs[1], S)
      [] OTHER          -> Unless(succs[1], S) \o Unless(succs[2], S)

(* One turn of computeReachability's while loop. *)
Visit ==
    /\ phase = "reach"
    /\ work # <<>>
    /\ LET label == work[Len(work)]
           rest  == SubSeq(work, 1, Len(work) - 1)
       IN IF label \in seen
          THEN work' = rest /\ seen' = seen
          ELSE /\ seen' = seen \cup {label}
               /\ work' = rest \o Fresh(Successors(fn, label), seen')
    /\ UNCHANGED <<fn, phase, walkVars, entryIn, todo, changed, errors, typeErrors>>

StartOrder ==
    /\ phase = "reach"
    /\ work = <<>>
    /\ phase' = "order"
    /\ walk' = <<[id |-> Entry(fn), next |-> 1]>>
    /\ opened' = {Entry(fn)}
    /\ UNCHANGED <<fn, work, seen, order, entryIn, todo, changed, errors, typeErrors>>

(* computeReversePostorder: the block on top of the stack takes its next   *)
(* child, or is finished; what is finished later comes earlier in rpo_.    *)
Top   == walk[Len(walk)]
Child == Successors(fn, Top.id)[Top.next]
Taken == [walk EXCEPT ![Len(walk)].next = @ + 1]
MoreChildren == Top.next <= Len(Successors(fn, Top.id))
Descend ==
    /\ phase = "order"
    /\ walk # <<>>
    /\ MoreChildren
    /\ opened' = opened \cup {Child}
    /\ walk' = IF Child \in opened THEN Taken ELSE Append(Taken, [id |-> Child, next |-> 1])
    /\ UNCHANGED <<fn, phase, work, seen, order, entryIn, todo, changed, errors, typeErrors>>

(* Mutant: a finished block goes to the end of the order. *)
FinishBlockLast ==
    /\ phase = "order"
    /\ walk # <<>>
    /\ ~MoreChildren
    /\ order' = Append(order, Top.id)
    /\ walk' = SubSeq(walk, 1, Len(walk) - 1)
    /\ UNCHANGED <<fn, phase, work, seen, opened, entryIn, todo, changed, errors, typeErrors>>
FinishBlock ==
    /\ phase = "order"
    /\ walk # <<>>
    /\ ~MoreChildren
    /\ order' = <<Top.id>> \o order
    /\ walk' = SubSeq(walk, 1, Len(walk) - 1)
    /\ UNCHANGED <<fn, phase, work, seen, opened, entryIn, todo, changed, errors, typeErrors>>

(* The CFG is built; `in` is set up and the first round begins.            *)
StartFlow ==
    /\ phase = "order"
    /\ walk = <<>>
    /\ phase' = "flow"
    /\ entryIn' = InitialAvail(fn, seen)
    /\ todo' = order
    /\ changed' = FALSE
    /\ UNCHANGED <<fn, work, seen, walkVars, errors, typeErrors>>

(* One block of a round: it gets the meet, the entry is skipped. *)
FlowBlock ==
    /\ phase = "flow"
    /\ todo # <<>>
    /\ todo' = Tail(todo)
    /\ LET label == Head(todo)
           new   == Meet(fn, seen, entryIn, label)
       IN IF label = Entry(fn) \/ new = entryIn[label]
          THEN UNCHANGED <<entryIn, changed>>
          ELSE /\ entryIn' = [entryIn EXCEPT ![label] = new]
               /\ changed' = TRUE
    /\ UNCHANGED <<fn, phase, work, seen, walkVars, errors, typeErrors>>

(* The end of a round: another one if anything changed, else the report. *)
(* Mutants: `changed` is not reset; one round is taken to be enough. *)
EndRoundNoReset ==
    /\ phase = "flow"
    /\ todo = <<>>
    /\ phase' = IF changed THEN "flow" ELSE "uses"
    /\ todo' = order
    /\ UNCHANGED <<fn, work, seen, walkVars, entryIn, errors, typeErrors, changed>>
EndRoundOnce ==
    /\ phase = "flow"
    /\ todo = <<>>
    /\ phase' = "uses"
    /\ todo' = order
    /\ changed' = FALSE
    /\ UNCHANGED <<fn, work, seen, walkVars, entryIn, errors, typeErrors>>
EndRound ==
    /\ phase = "flow"
    /\ todo = <<>>
    /\ phase' = IF changed THEN "flow" ELSE "uses"
    /\ todo' = order
    /\ changed' = FALSE
    /\ UNCHANGED <<fn, work, seen, walkVars, entryIn, errors, typeErrors>>

(* One block of the reporting loop. *)
ReportBlock ==
    /\ phase = "uses"
    /\ todo # <<>>
    /\ todo' = Tail(todo)
    /\ LET label == Head(todo)
       IN errors' = errors \cup ({label} \X UndefinedUses(fn, label, entryIn[label]))
    /\ UNCHANGED <<fn, phase, work, seen, walkVars, entryIn, changed, typeErrors>>

(* checkTypes looks at every block, reachable or not. *)
CheckTypes ==
    /\ phase = "uses"
    /\ todo = <<>>
    /\ phase' = "done"
    /\ typeErrors' = TypeErrors(fn, Sigs)
    /\ UNCHANGED <<fn, work, seen, walkVars, entryIn, todo, changed, errors>>

Next == CheckGraph \/ Visit \/ StartOrder \/ Descend \/ FinishBlock \/ StartFlow
        \/ FlowBlock \/ EndRound \/ ReportBlock \/ CheckTypes

Spec == Init /\ [][Next]_vars /\ WF_vars(Next)
-----------------------------------------------------------------------------
(* The variables have their types. *)
Frames == [id : Labels(fn), next : Nat \ {0}]
TypeOK ==
    /\ fn \in Functions
    /\ phase \in Phases
    /\ seen \subseteq Labels(fn)
    /\ work \in Seq(Labels(fn))
    /\ walk \in Seq(Frames)
    /\ opened \subseteq Labels(fn)
    /\ order \in Seq(Labels(fn)) /\ todo \in Seq(Labels(fn))
    /\ changed \in BOOLEAN
    /\ phase \in {"flow", "uses"} => entryIn \in [seen -> SUBSET AllRegs(fn)]

(* The order the rounds follow lists each reachable block once, the entry  *)
(* first, and an edge goes backwards in it only where it closes a cycle    *)
(* (CFG.h:53: "Reverse postorder over the reachable blocks").              *)
PathsFrom(l) ==
    {m \in Labels(fn) : \A S \in SUBSET Labels(fn) :
        l \in S /\ (\A k \in S : Range(Successors(fn, k)) \subseteq S) => m \in S}
Position(l) == CHOOSE i \in DOMAIN order : order[i] = l
OrderIsReversePostorder ==
    phase = "flow" =>
        /\ Range(order) = OnSomePath(fn)
        /\ Len(order) = Cardinality(OnSomePath(fn))
        /\ order[1] = Entry(fn)
        /\ \A l \in Range(order) : \A m \in Range(Successors(fn, l)) :
               Position(l) < Position(m) \/ l \in PathsFrom(m)

(* Once the analysis has settled, what it holds available at a block is    *)
(* what every path from the entry to that block defines: a register is     *)
(* missing exactly when some path leads to the block through blocks that   *)
(* do not define it (Verifier.h: "on every path that reaches its use").    *)
AvailableOnEveryPath ==
    phase \in {"uses", "done"} /\ CheckCfg(fn) = {} =>
        /\ seen = OnSomePath(fn)
        /\ \A l \in seen : entryIn[l] = {r \in AllRegs(fn) : l \notin MissingAt(fn, r)}

(* The verdict names every use some path reaches undefined, in a block the *)
(* entry reaches, and nothing else; unreachable blocks are not reported.   *)
ReportsExactlyUndefinedUses ==
    phase = "done" =>
        IF CheckCfg(fn) = {}
        THEN errors = UNION {{l} \X UndefinedOnSomePath(fn, l) : l \in OnSomePath(fn)}
        ELSE errors = CheckCfg(fn) \X {NoName}

(* No step ever adds a register to the set of a block: the iteration goes  *)
(* down a finite lattice.                                                  *)
OnlyNarrows ==
    [][phase = "flow" /\ phase' = "flow" =>
          \A l \in seen : entryIn'[l] \subseteq entryIn[l]]_vars

(* All loops end, whatever the graph: cycles, self loops, dead blocks.     *)
Terminates == <>(phase = "done")

(* The concrete loops implement the order-free analysis of Definedness: a  *)
(* step of theirs explores an edge, lowers a block, or leaves it alone.    *)
Stage == CASE phase \in {"cfg", "reach", "order"} -> "explore"
           [] phase = "flow" -> "narrow"
           [] phase \in {"uses", "done"} ->
                IF CheckCfg(fn) = {} THEN "settled" ELSE "explore"
Verdict == IF Stage = "settled"
           THEN {l \in seen : UndefinedUses(fn, l, entryIn[l]) # {}} ELSE {}
Abstract == INSTANCE Definedness
                WITH stage <- Stage, avail <- entryIn, verdict <- Verdict
ImplementsDefinedness == Abstract!Spec
=============================================================================
