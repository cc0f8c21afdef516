----------------------------- MODULE MCVerifier -----------------------------
(***************************************************************************)
(* verify() over the small functions, with the types and empty blocks that *)
(* verifyFunction does not look at.                                        *)
(***************************************************************************)
EXTENDS Verifier, SmallFunctions

(* A void and an i32 function, conditions and results of either type. *)
TypedFunctions ==
    {[params |-> <<Reg("p", "i32")>>, ret |-> rty,
      blocks |-> <<Blk(0, <<>>, BrCond(Reg("p", cty), 1, 2)),
                   [label |-> 1, instrs |-> b1], Blk(2, <<UseX>>, t2)>>] :
        rty \in {"void", "i32"}, cty \in {"i1", "i32"},
        b1 \in {<<>>, <<Br(2)>>, <<DefX, Br(2)>>, <<DefX>>, <<Br(2), DefX, Br(2)>>},
        t2 \in {Ret(<<>>), Ret(<<Reg("x", "i32")>>), Ret(<<Reg("x", "i64")>>), Br(1)}}

AllFunctions == SoundFunctions \cup BrokenFunctions \cup TypedFunctions
=============================================================================
