-------------------------- MODULE MCVerifyFunction --------------------------
(* verifyFunction over the sound and the broken small functions, and over  *)
(* loops of two entries, each reached by an arm of its own: the graphs     *)
(* whose sets take more than one round to settle.                          *)
EXTENDS VerifyFunction, SmallFunctions

TwoEntryLoops ==
    {Fun(<<Blk(0, <<>>, t0), Blk(1, b1, Br(3)), Blk(2, b2, Br(4)),
           Blk(3, b3, t3), Blk(4, b4, t4)>>) :
        t0 \in {Cond(1, 2), Cond(2, 1)}, b1, b2 \in {<<>>, <<DefX>>},
        b3, b4 \in {<<>>, <<UseX>>}, t3 \in {Br(4), Cond(4, 3)}, t4 \in {Br(3), Ret(<<>>)}}

AllFunctions == SoundFunctions \cup (TwoEntryLoops \cup BrokenFunctions)
NoCallees == <<>>
=============================================================================
