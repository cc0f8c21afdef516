------------------------------ MODULE WasmFlow ------------------------------
(***************************************************************************)
(* The control flow of a WebAssembly function: the body emit_wat.py writes *)
(* (src/src/backend/wasm/emit_wat.py), from the regions of structure() or, *)
(* when that refuses the graph, as a dispatch loop; and a run of that body *)
(* by the rules of WebAssembly, where a branch leaves or repeats a region  *)
(* that encloses it.  What the blocks compute is left out, so a condition  *)
(* goes either way.                                                        *)
(***************************************************************************)
EXTENDS Structurer

VARIABLES
    body,     \* the marks of the function's body
    pc,       \* the next one; 0 while the body is being written
    open,     \* the positions of the regions entered, innermost last
    target,   \* the local $.pc
    pending,  \* the arm taken since the last block
    at, arm, beat   \* what GraphWalk sees

runVars == <<body, pc, open, target, pending, at, arm, beat>>
flowVars == <<vars, runVars>>

W == INSTANCE GraphWalk

(* A block is named by its label; 0 stands for no block.                   *)
ASSUME LabelsAssumption == \A f \in Functions : 0 \notin Labels(f)

(* dispatch(): one conditional per block, in the order of the function.    *)
DispatchLoop == 0
(* Mutant: the arms of a conditional branch are exchanged. *)
ChosenSwapped(to) == [Mark("select", to[2]) EXCEPT !.l2 = to[1]]
Chosen(to) == [Mark("select", to[1]) EXCEPT !.l2 = to[2]]
Leaving(l) ==
    LET to == Successors(fn, l)
    IN CASE Len(to) = 0 -> <<Mark("return", l)>>
         [] Len(to) = 1 -> <<Mark("set", to[1]), Mark("br loop", DispatchLoop)>>
         [] Len(to) = 2 -> <<Chosen(to), Mark("br loop", DispatchLoop)>>
DispatchArm(l) == <<Mark("when", l), Mark("code", l)>> \o Leaving(l) \o <<Mark("end", l)>>
Dispatch ==
    <<Mark("set", Entry(fn)), Mark("loop", DispatchLoop)>>
    \o FlattenSeq([i \in DOMAIN fn.blocks |-> DispatchArm(fn.blocks[i].label)])
    \o <<Mark("end", DispatchLoop)>>

InitFlow ==
    /\ Init
    /\ body = <<>> /\ pc = 0 /\ open = <<>> /\ target = 0 /\ pending = 0
    /\ at = 0 /\ arm = 0 /\ beat = FALSE

Structure == pc = 0 /\ Next /\ UNCHANGED runVars
StartBody ==
    /\ pc = 0 /\ phase \in {"done", "irreducible"}
    /\ body' = IF phase = "done" THEN text ELSE Dispatch
    /\ pc' = 1
    /\ UNCHANGED <<vars, open, target, pending, at, arm, beat>>
-----------------------------------------------------------------------------
(* The marks that open a region; how many of some kinds there are.         *)
Opens == {"block", "loop", "if", "when"}
Count(p, q, ks) == Cardinality({i \in p..q : body[i].k \in ks})

(* WebAssembly.  A region ends at the "end" that balances its mark.  No     *)
(* control falls out of a region (emit_wat.py:139): a body that reads an   *)
(* "end" or an "else" stops there, and its walk with it.                   *)
Balance(p, q) == Count(p, q, Opens) - Count(p, q, {"end"})
EndOf(p)  == CHOOSE q \in p..Len(body) :
                 Balance(p, q) = 0 /\ \A r \in p..(q - 1) : Balance(p, r) # 0
ElseOf(p) == CHOOSE q \in p..Len(body) : body[q].k = "else" /\ Balance(p, q) = 1
                 /\ \A r \in p..(q - 1) : ~(body[r].k = "else" /\ Balance(p, r) = 1)

Reading(k) == pc \in DOMAIN body /\ body[pc].k = k
L == body[pc].l
Go(p, o) == pc' = p /\ open' = o /\ UNCHANGED <<vars, body>>
Same == UNCHANGED <<target, pending, at, arm, beat>>

EnterRegion ==
    /\ Reading("block") \/ Reading("loop")
    /\ Go(pc + 1, Append(open, pc)) /\ Same
Choose ==
    /\ Reading("if")
    /\ \E i \in {1, 2} :
          /\ Go(IF i = 1 THEN pc + 1 ELSE ElseOf(pc) + 1, Append(open, pc))
          /\ pending' = i
    /\ UNCHANGED <<target, at, arm, beat>>
(* A branch is valid only inside a region with its label.                  *)
Enclosing(k) == {i \in DOMAIN open : body[open[i]].k = k /\ body[open[i]].l = L}
Innermost(S) == CHOOSE i \in S : \A j \in S : j <= i
BranchOut ==
    /\ Reading("br block") /\ Enclosing("block") # {}
    /\ LET i == Innermost(Enclosing("block"))
       IN Go(EndOf(open[i]) + 1, SubSeq(open, 1, i - 1))
    /\ Same
BranchBack ==
    /\ Reading("br loop") /\ Enclosing("loop") # {}
    /\ LET i == Innermost(Enclosing("loop")) IN Go(open[i] + 1, SubSeq(open, 1, i))
    /\ Same
RunBlock ==
    /\ Reading("code")
    /\ at' = L /\ arm' = pending /\ beat' = ~beat
    /\ pending' = 1
    /\ Go(pc + 1, open) /\ UNCHANGED target

(* The dispatch loop's own instructions.                                   *)
SetTarget ==
    \/ /\ Reading("set") /\ target' = L
       /\ pending' = IF at = 0 THEN 0 ELSE 1
       /\ Go(pc + 1, open) /\ UNCHANGED <<at, arm, beat>>
    \/ /\ Reading("select")
       /\ \E i \in {1, 2} : target' = (IF i = 1 THEN L ELSE body[pc].l2) /\ pending' = i
       /\ Go(pc + 1, open) /\ UNCHANGED <<at, arm, beat>>
When ==
    /\ Reading("when")
    /\ IF target = L THEN Go(pc + 1, Append(open, pc)) ELSE Go(EndOf(pc) + 1, open)
    /\ Same

RunBody == EnterRegion \/ Choose \/ BranchOut \/ BranchBack
           \/ RunBlock \/ SetTarget \/ When
NextFlow == Structure \/ StartBody \/ RunBody
SpecFlow == InitFlow /\ [][NextFlow]_flowVars /\ WF_flowVars(NextFlow)
-----------------------------------------------------------------------------
(* Wherever the body is, the regions it is in are those the text nests it  *)
(* in, and every branch is inside the region it names (structurer.py:30,   *)
(* "every br has an enclosing target").                                    *)
Around(p) == {i \in 1..(p - 1) : body[i].k \in Opens /\ EndOf(i) >= p}
BranchesEnclosed ==
    /\ pc \in DOMAIN body => Range(open) = Around(pc)
    /\ Reading("br block") => Enclosing("block") # {}
    /\ Reading("br loop") => Enclosing("loop") # {}

(* The body walks the graph: structuring ends, the entry runs first, each  *)
(* block is followed by the target of the arm that was taken, and the walk *)
(* goes on until a block that returns: "Every path ends in a return or a   *)
(* br, so the end is unreachable" (emit_wat.py:139).                       *)
WalksTheGraph == W!Spec
=============================================================================
