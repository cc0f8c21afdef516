----------------------------- MODULE Structurer -----------------------------
(***************************************************************************)
(* structure() of src/src/backend/wasm/structurer.py: a graph of blocks    *)
(* becomes nested block, loop and if regions, from its dominator tree.     *)
(* The depth-first search, the iteration for dominators and the recursion  *)
(* do_tree / node_within / branch are steps; the recursion is a stack of   *)
(* tasks.  The tree is written down as region() of emit_wat.py prints it:  *)
(* a sequence of marks with an "end" for every region opened.              *)
(***************************************************************************)
EXTENDS CFG, Lists, SequencesExt

CONSTANT Functions      \* the functions that may be structured, past the graph rules
ASSUME FunctionsAssumption ==
    \A f \in Functions : IsFunction(f) /\ CheckCfg(f) = {}

VARIABLES
    fn,         \* the function
    phase,      \* "order", "dominators", "classify", "emit", "done", "irreducible"
    walk,       \* stack of the depth-first search
    seen,       \* labels it has seen
    rpo,        \* labels finished, last one first: the reverse postorder
    idom,       \* label -> immediate dominator, as far as known
    changed,    \* the round of the iteration changed idom
    pos,        \* next position of rpo to look at
    headers,    \* loop headers
    merges,     \* labels with two forward in-edges or more
    tasks,      \* calls of the recursion still to make, next one first
    text        \* the regions so far

vars == <<fn, phase, walk, seen, rpo, idom, changed, pos, headers, merges, tasks, text>>

At(p) == phase = p
Idx(l) == CHOOSE i \in DOMAIN rpo : rpo[i] = l

(* preds: the code's lists name a block once for each of its edges.        *)
Preds(v) == {u \in Range(rpo) : v \in Range(Successors(fn, u))}
InEdges(v) == {e \in Preds(v) \X {1, 2} :
                  e[2] \in DOMAIN Successors(fn, e[1]) /\ Successors(fn, e[1])[e[2]] = v}

Init == /\ fn \in Functions
        /\ phase = "order"
        /\ walk = <<Entry(fn)>> /\ seen = {Entry(fn)}
        /\ rpo = <<>>
        /\ idom = <<>> /\ changed = FALSE /\ pos = 1
        /\ headers = {} /\ merges = {}
        /\ tasks = <<>> /\ text = <<>>
-----------------------------------------------------------------------------
(* reverse_postorder: the first successor not seen, or the label is done.  *)
Unseen(l) == {i \in DOMAIN Successors(fn, l) : Successors(fn, l)[i] \notin seen}
FirstUnseen(l) == Successors(fn, l)[Nth(Unseen(l), 1)]
Ordered(l) == <<l>> \o rpo
Descend ==
    /\ At("order") /\ walk # <<>> /\ Unseen(Last(walk)) # {}
    /\ walk' = Append(walk, FirstUnseen(Last(walk)))
    /\ seen' = seen \cup {FirstUnseen(Last(walk))}
    /\ UNCHANGED <<fn, phase, rpo, idom, changed, pos, headers, merges, tasks, text>>
FinishLabel ==
    /\ At("order") /\ walk # <<>> /\ Unseen(Last(walk)) = {}
    /\ rpo' = Ordered(Last(walk))
    /\ walk' = Front(walk)
    /\ UNCHANGED <<fn, phase, seen, idom, changed, pos, headers, merges, tasks, text>>
StartDominators ==
    /\ At("order") /\ walk = <<>>
    /\ phase' = "dominators"
    /\ idom' = [l \in {rpo[1]} |-> rpo[1]] /\ changed' = FALSE /\ pos' = 2
    /\ UNCHANGED <<fn, walk, seen, rpo, headers, merges, tasks, text>>

(* dominators: intersect climbs from the later of two labels until they    *)
(* meet; a label gets the meeting point of its processed predecessors,     *)
(* taken in the order of rpo.  One that comes twice changes nothing.       *)
Known == DOMAIN idom
Intersect(l1, l2) ==
    LET meet[p \in Known \X Known] ==
            IF p[1] = p[2] THEN p[1]
            ELSE IF Idx(p[1]) > Idx(p[2]) THEN meet[<<idom[p[1]], p[2]>>]
            ELSE meet[<<p[1], idom[p[2]]>>]
    IN meet[<<l1, l2>>]
Processed(u, v) == u \in Known /\ v \in Range(Successors(fn, u))
IsFirst(i, v) == \A j \in 1..(i - 1) : ~Processed(rpo[j], v)
NewIdom(v) ==
    LET new[i \in 0..Len(rpo)] ==
            IF i = 0 THEN 0
            ELSE IF ~Processed(rpo[i], v) THEN new[i - 1]
            ELSE IF IsFirst(i, v) THEN rpo[i] ELSE Intersect(rpo[i], new[i - 1])
    IN new[Len(rpo)]
VisitLabel ==
    /\ At("dominators") /\ pos \in DOMAIN rpo
    /\ LET v == rpo[pos]
       IN IF v \in DOMAIN idom /\ idom[v] = NewIdom(v)
          THEN UNCHANGED <<idom, changed>>
          ELSE /\ idom' = [l \in Known \cup {v} |-> IF l = v THEN NewIdom(v) ELSE idom[l]]
               /\ changed' = TRUE
    /\ pos' = pos + 1
    /\ UNCHANGED <<fn, phase, walk, seen, rpo, headers, merges, tasks, text>>
(* Mutant: one round is taken to be enough. *)
SettledAtOnce == TRUE
Settled == ~changed
EndRound ==
    /\ At("dominators") /\ pos \notin DOMAIN rpo
    /\ IF Settled THEN phase' = "classify" /\ pos' = 1 ELSE phase' = phase /\ pos' = 2
    /\ changed' = FALSE
    /\ UNCHANGED <<fn, walk, seen, rpo, idom, headers, merges, tasks, text>>

(* _dominates: up the tree from l. *)
Dominators(l) ==
    LET up[i \in 0..Len(rpo)] == IF i = 0 THEN l ELSE idom[up[i - 1]]
    IN {up[i] : i \in 0..Len(rpo)}

(* Back edges make headers, or are refused; two forward ones make a merge. *)
Retreating(v) == {u \in Preds(v) : Idx(v) <= Idx(u)}
Forward(v) == {e \in InEdges(v) : Idx(e[1]) < Idx(v)}
(* Mutant: a loop may be entered anywhere. *)
AllowedAnyway(v) == TRUE
Allowed(v) == \A u \in Retreating(v) : v \in Dominators(u)
Classify ==
    /\ At("classify") /\ pos \in DOMAIN rpo
    /\ LET v == rpo[pos]
       IN IF ~Allowed(v) THEN phase' = "irreducible" /\ UNCHANGED <<headers, merges, pos>>
          ELSE /\ headers' = IF Retreating(v) # {} THEN headers \cup {v} ELSE headers
               /\ merges' = IF Cardinality(Forward(v)) >= 2 THEN merges \cup {v} ELSE merges
               /\ pos' = pos + 1
               /\ UNCHANGED phase
    /\ UNCHANGED <<fn, walk, seen, rpo, idom, changed, tasks, text>>
-----------------------------------------------------------------------------
Mark(k, l) == [k |-> k, l |-> l, l2 |-> 0]
Task(t, x, ys) == [t |-> t, x |-> x, ys |-> ys]
Write(mark) == Task("write", mark.l, <<mark>>)
Tree(x)     == Task("tree", x, <<>>)
Branch(src, dst) == Task("branch", dst, <<src>>)

StartEmit ==
    /\ At("classify") /\ pos \notin DOMAIN rpo
    /\ phase' = "emit" /\ tasks' = <<Tree(rpo[1])>>
    /\ UNCHANGED <<fn, walk, seen, rpo, idom, changed, pos, headers, merges, text>>

Doing(t) == At("emit") /\ tasks # <<>> /\ Head(tasks).t = t
X == Head(tasks).x
Replace(new) ==
    /\ tasks' = new \o Tail(tasks)
    /\ UNCHANGED <<fn, phase, walk, seen, rpo, idom, changed, pos, headers, merges, text>>

(* The children that merge, the last one in rpo outermost.  Mutant: the    *)
(* first one.                                                              *)
Merging(x) == {i \in 2..Len(rpo) : idom[rpo[i]] = x /\ rpo[i] \in merges}
MergeChildrenUp(x) == Kept(rpo, Merging(x))
MergeChildren(x) == Reverse(Kept(rpo, Merging(x)))
DoTree ==
    /\ Doing("tree")
    /\ LET within == <<Task("within", X, MergeChildren(X))>>
       IN Replace(IF X \in headers
               THEN <<Write(Mark("loop", X))>> \o within \o <<Write(Mark("end", X))>>
               ELSE within)
NodeWithin ==
    /\ Doing("within") /\ Head(tasks).ys # <<>>
    /\ LET y == Head(Head(tasks).ys)
       IN Replace(<<Write(Mark("block", y)), Task("within", X, Tail(Head(tasks).ys)),
                 Write(Mark("end", y)), Tree(y)>>)
EmitBlock ==
    /\ Doing("within") /\ Head(tasks).ys = <<>>
    /\ LET to == Successors(fn, X)
       IN Replace(<<Write(Mark("code", X))>> \o
               CASE Len(to) = 0 -> <<Write(Mark("return", X))>>
                 [] Len(to) = 1 -> <<Branch(X, to[1])>>
                 [] Len(to) = 2 -> <<Write(Mark("if", X)), Branch(X, to[1]),
                                     Write(Mark("else", X)), Branch(X, to[2]),
                                     Write(Mark("end", X))>>)
(* Mutant: a merge is inlined at every branch to it. *)
InlinedAlways(src, dst) == TRUE
Inlined(src, dst) == dst \notin merges
FollowBranch ==
    /\ Doing("branch")
    /\ LET src == Head(tasks).ys[1]
       IN Replace(IF Idx(X) <= Idx(src) THEN <<Write(Mark("br loop", X))>>
               ELSE IF Inlined(src, X) THEN <<Tree(X)>>
               ELSE <<Write(Mark("br block", X))>>)
WriteMark ==
    /\ Doing("write")
    /\ text' = text \o Head(tasks).ys /\ tasks' = Tail(tasks)
    /\ UNCHANGED <<fn, phase, walk, seen, rpo, idom, changed, pos, headers, merges>>
Finish ==
    /\ At("emit") /\ tasks = <<>>
    /\ phase' = "done"
    /\ UNCHANGED <<fn, walk, seen, rpo, idom, changed, pos, headers, merges, tasks, text>>

Next ==
    \/ Descend \/ FinishLabel \/ StartDominators \/ VisitLabel \/ EndRound \/ Classify
    \/ StartEmit \/ DoTree \/ NodeWithin \/ EmitBlock \/ FollowBranch \/ WriteMark \/ Finish
Spec == Init /\ [][Next]_vars /\ WF_vars(Next)
-----------------------------------------------------------------------------
(* The graph without the labels of D: what can still be reached.           *)
ClosedWithout(D, S) ==
    /\ Entry(fn) \notin D => Entry(fn) \in S
    /\ \A l \in S : Range(Successors(fn, l)) \ D \subseteq S
ReachedWithout(D) ==
    LET closed == {S \in SUBSET Labels(fn) : ClosedWithout(D, S)}
    IN {l \in Labels(fn) : \A S \in closed : l \in S}

(* The iteration settles on the dominators: d is above l in the tree       *)
(* exactly when every path to l goes through d.                            *)
DominatorsExact ==
    At("classify") /\ pos = 1 =>
        \A d \in Range(rpo) :
            {l \in Range(rpo) : d \in Dominators(l)} = Range(rpo) \ ReachedWithout({d})

(* structure() refuses exactly the graphs with a loop that has two         *)
(* entries (structurer.py:47, "The CFG has a loop with more than one       *)
(* entry"), whichever order the search took: a strongly connected set of   *)
(* labels with two that are reached from the start without the others.     *)
Connected(S) ==
    \A T \in SUBSET S :
        T # {} /\ (\A l \in T : Range(Successors(fn, l)) \cap S \subseteq T) => T = S
Entries(S) ==
    S \cap ({Entry(fn)} \cup UNION {Range(Successors(fn, l)) : l \in ReachedWithout(S)})
IsIrreducible ==
    \E S \in SUBSET Range(rpo) :
        Cardinality(S) > 1 /\ Connected(S) /\ Cardinality(Entries(S)) > 1
RefusesExactlyIrreducible ==
    /\ At("irreducible") => IsIrreducible
    /\ At("emit") /\ text = <<>> /\ Doing("tree") => ~IsIrreducible

(* Every block that can be reached is emitted once, no other one is.       *)
EmittedOnce ==
    At("done") =>
        LET codes == {i \in DOMAIN text : text[i].k = "code"}
        IN /\ {text[i].l : i \in codes} = ReachedWithout({})
           /\ \A i, j \in codes : text[i].l = text[j].l => i = j
=============================================================================
