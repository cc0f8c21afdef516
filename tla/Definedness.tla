---------------------------- MODULE Definedness ----------------------------
(***************************************************************************)
(* What the definedness check promises, whatever order it visits blocks    *)
(* in: explore the graph from the entry one edge at a time; then start     *)
(* from "everything is defined" and lower any block to the meet of its     *)
(* predecessors, in any order; give a verdict only when no block can be    *)
(* lowered.  VerifyFunction is one implementation of it.                   *)
(***************************************************************************)
EXTENDS CFG

CONSTANT Functions

VARIABLES fn, stage, seen, avail, verdict
vars == <<fn, stage, seen, avail, verdict>>

Stages == {"explore", "narrow", "settled"}

Init == /\ fn \in Functions
        /\ stage = "explore"
        /\ seen = {}
        /\ avail = <<>>
        /\ verdict = {}

(* Labels to explore: the entry, if there is one, and what an edge leads to. *)
Frontier ==
    (EntryLabels(fn) \cup UNION {Range(Successors(fn, l)) : l \in seen}) \ seen

Explore == /\ stage = "explore"
           /\ \E l \in Frontier : seen' = seen \cup {l}
           /\ UNCHANGED <<fn, stage, avail, verdict>>

Start == /\ stage = "explore"
         /\ seen # {}
         /\ Frontier = {}
         /\ stage' = "narrow"
         /\ avail' = InitialAvail(fn, seen)
         /\ UNCHANGED <<fn, seen, verdict>>

Lower == /\ stage = "narrow"
         /\ \E l \in seen \ {Entry(fn)} :
               avail' = [avail EXCEPT ![l] = Meet(fn, seen, avail, l)]
         /\ UNCHANGED <<fn, stage, seen, verdict>>

Settle == /\ stage = "narrow"
          /\ \A l \in seen \ {Entry(fn)} : avail[l] = Meet(fn, seen, avail, l)
          /\ stage' = "settled"
          /\ verdict' = {l \in seen : UndefinedUses(fn, l, avail[l]) # {}}
          /\ UNCHANGED <<fn, seen, avail>>

Next == Explore \/ Start \/ Lower \/ Settle
Spec == Init /\ [][Next]_vars
=============================================================================
