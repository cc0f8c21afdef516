----------------------------- MODULE GraphWalk -----------------------------
(***************************************************************************)
(* A run of a CIR function seen as a walk over its graph: from a block to  *)
(* the target of either arm of its terminator, until a ret ends it.        *)
(***************************************************************************)
EXTENDS CIR

VARIABLES
    fn,      \* the function, never changed
    at,      \* the block that has just run, 0 before the first
    arm,     \* the arm of the terminator before it that led here
    beat     \* changes with every block

vars == <<fn, at, arm, beat>>

Starting == at = 0
Init == at = 0 /\ arm = 0 /\ beat = FALSE

Enter == Starting /\ at' = Entry(fn) /\ beat' = ~beat /\ UNCHANGED <<fn, arm>>
Follow ==
    /\ ~Starting
    /\ \E i \in DOMAIN Successors(fn, at) : at' = Successors(fn, at)[i] /\ arm' = i
    /\ beat' = ~beat
    /\ UNCHANGED fn
Next == Enter \/ Follow
(* A walk goes on until it is in a block without successors. *)
Spec == Init /\ [][Next]_vars /\ WF_vars(Next)
=============================================================================
