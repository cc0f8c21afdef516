------------------------------- MODULE Interp -------------------------------
(***************************************************************************)
(* The reference interpreter, run() of src/src/cir/interp.py, as a machine *)
(* that executes one CIR instruction per step.  A nested call() is a frame *)
(* on `stack`; the Python exceptions nobody catches end the run with the   *)
(* name of what was missing in `status`, and a trap ends it with "trapped".*)
(*                                                                         *)
(* Integers and pointers are modelled; f64 is not.                         *)
(***************************************************************************)
EXTENDS Arith, CFG

CONSTANTS
    Modules,     \* the modules that may be run
    MaxDepth,    \* nested calls at which Python raises RecursionError
    MaxSlots,    \* bound on the slots a run allocates
    MaxOut       \* bound on the values a run prints

ASSUME ModulesAssumption ==
    \A m \in Modules : \A f \in DOMAIN m.funcs : IsFunction(m.funcs[f])
ASSUME BoundsAssumption == MaxDepth \in Nat \ {0} /\ MaxSlots \in Nat /\ MaxOut \in Nat

VARIABLES
    mod,         \* the module: funcs (by name) and globals (initial values)
    status,      \* "run", "returned", "trapped" or one of Faults
    stack,       \* the active calls, innermost last
    slots,       \* slot id -> elements, for the slots alive
    nextSlot,    \* next_slot
    globs,       \* global -> value
    out,         \* what has been printed
    result       \* the value run() returns

vars == <<mod, status, stack, slots, nextSlot, globs, out, result>>

Faults == {"no register", "no slot", "no element", "no global", "no function",
           "no block", "wrong type", "recursion"}

(* Values: integers and the two kinds of pointer. *)
Num(n)       == [k |-> "num", n |-> n, slot |-> 0, g |-> NoName]
Mem(s, i)    == [k |-> "mem", n |-> i, slot |-> s, g |-> NoName]
GlobalPtr(x) == [k |-> "global", n |-> 0, slot |-> 0, g |-> x]

Bind(regs, r, v) == [x \in DOMAIN regs \cup {r} |-> IF x = r THEN v ELSE regs[x]]

(* The registers of a call: zip(params, argv), so a missing argument leaves *)
(* its parameter undefined.                                                 *)
Bound(params, argv) ==
    [p \in {params[i].name : i \in DOMAIN params \cap DOMAIN argv} |->
        argv[CHOOSE i \in DOMAIN params \cap DOMAIN argv : params[i].name = p]]
Frame(f, argv) ==
    [fn |-> f, blk |-> Entry(mod.funcs[f]), pc |-> 1,
     regs |-> Bound(mod.funcs[f].params, argv), owned |-> {}]

Top  == stack[Len(stack)]
Code == Instrs(mod.funcs[Top.fn], Top.blk)
Ins  == Code[Top.pc]

(* val(): a constant is reduced to its type's range. *)
Val(a) == CASE a.k = "reg"    -> Top.regs[a.name]
            [] a.k = "int"    -> Num(Wrap(a.v, a.ty))
            [] a.k = "global" -> GlobalPtr(a.name)
Arg(i) == Val(Ins.args[i])
IsTrue(v) == v.k # "num" \/ v.n # 0

OwnedBy(frames) == UNION {frames[d].owned : d \in DOMAIN frames}
Without(s, dead) == [x \in DOMAIN s \ dead |-> s[x]]

Executing == status = "run" /\ Top.pc \in DOMAIN Code

Computes == {"neg", "not"} \cup Cmps \cup ConvOps \cup BinOps
IsPointerCmp == Ins.op \in {"icmp.eq", "icmp.ne"}

(* What load() and store() raise for a pointer. *)
AccessFault(p, isLoad) ==
    IF p.k = "num" THEN "wrong type"
    ELSE IF p.k = "global"
         THEN IF isLoad /\ p.g \notin DOMAIN globs THEN "no global" ELSE "none"
         ELSE IF p.slot \notin DOMAIN slots THEN "no slot"
              ELSE IF p.n + 1 \notin DOMAIN slots[p.slot] THEN "no element" ELSE "none"

(* Where a branch goes: `then` on any true value. *)
Target == IF Ins.op = "br" \/ IsTrue(Arg(1)) THEN Ins.labels[1] ELSE Ins.labels[2]

(* What the current instruction raises before it has any effect, if anything. *)
Fault ==
    IF ~(Uses(Ins) \subseteq DOMAIN Top.regs) THEN "no register" ELSE
    CASE Ins.op = "load"  -> AccessFault(Arg(1), TRUE)
      [] Ins.op = "store" -> AccessFault(Arg(2), FALSE)
      [] Ins.op = "gep" ->
            IF Arg(1).k = "num" \/ Arg(2).k # "num" THEN "wrong type"
            ELSE IF Arg(1).k = "global" \/ Arg(1).slot \notin DOMAIN slots THEN "no slot"
            ELSE "none"
      [] Ins.op = "alloca" ->
            IF Ins.args # <<>> /\ Arg(1).k # "num" THEN "wrong type" ELSE "none"
      [] Ins.op = "call" ->
            IF Ins.callee \notin DOMAIN mod.funcs THEN "no function"
            ELSE IF Len(stack) >= MaxDepth THEN "recursion" ELSE "none"
      [] Ins.op \in {"br", "br.cond"} ->
            IF Target \in Labels(mod.funcs[Top.fn]) THEN "none" ELSE "no block"
      [] Ins.op \in Computes ->
            IF ~IsPointerCmp /\ \E i \in DOMAIN Ins.args : Arg(i).k # "num"
            THEN "wrong type" ELSE "none"
      [] OTHER -> "none"

(* The instruction whose handler runs, and how a frame moves on. *)
Runs(ops) == Executing /\ Ins.op \in ops /\ Fault = "none"
MovedTo(f, blk, pc, regs, owned) ==
    [fn |-> f.fn, blk |-> blk, pc |-> pc, regs |-> regs, owned |-> owned]
(* Mutant: the caller resumes at its call and makes it again. *)
AdvanceUnlessCall(f, regs) ==
    MovedTo(f, f.blk,
            IF Instrs(mod.funcs[f.fn], f.blk)[f.pc].op = "call" THEN f.pc ELSE f.pc + 1,
            regs, f.owned)
Advance(f, regs) == MovedTo(f, f.blk, f.pc + 1, regs, f.owned)
SetTop(f) == stack' = [stack EXCEPT ![Len(stack)] = f]
Step      == SetTop(Advance(Top, Top.regs))
Define(v) == SetTop(Advance(Top, Bind(Top.regs, Ins.dest, v)))

(* `finally` of the calls that are left: their slots die.  Mutants: only the *)
(* innermost one releases its slots; every active call releases them.        *)
LeaveTop(frames)   == slots' = Without(slots, Top.owned)
LeaveEvery(frames) == slots' = Without(slots, OwnedBy(stack))
Leave(frames)      == slots' = Without(slots, OwnedBy(frames))

(* The id of a new slot. *)
NewSlot == nextSlot
-----------------------------------------------------------------------------
Init == /\ mod \in Modules
        /\ status = "run"
        /\ stack = <<Frame("main", <<>>)>>
        /\ slots = <<>>
        /\ nextSlot = 0
        /\ globs = [x \in DOMAIN mod.globals |-> Num(mod.globals[x].v)]
        /\ out = <<>>
        /\ result = Num(0)

(* An exception other than _Trap leaves run(): every call's finally runs. *)
Raise ==
    /\ Executing
    /\ Fault # "none"
    /\ status' = Fault
    /\ stack' = <<>>
    /\ Leave(stack)
    /\ UNCHANGED <<mod, nextSlot, globs, out, result>>

(* No terminator: `while True` runs the same block again. *)
FallOff ==
    /\ status = "run"
    /\ Top.pc \notin DOMAIN Code
    /\ SetTop(MovedTo(Top, Top.blk, 1, Top.regs, Top.owned))
    /\ UNCHANGED <<mod, status, slots, nextSlot, globs, out, result>>

Alloca ==
    /\ Runs({"alloca"})
    /\ nextSlot < MaxSlots
    /\ LET n == IF Ins.args = <<>> THEN 1 ELSE Arg(1).n
       IN slots' = Bind(slots, NewSlot, [i \in 1..n |-> Num(0)])
    /\ nextSlot' = NewSlot + 1
    /\ SetTop(MovedTo(Top, Top.blk, Top.pc + 1,
                      Bind(Top.regs, Ins.dest, Mem(NewSlot, 0)),
                      Top.owned \cup {NewSlot}))
    /\ UNCHANGED <<mod, status, globs, out, result>>

Load ==
    /\ Runs({"load"})
    /\ LET p == Arg(1)
       IN Define(IF p.k = "global" THEN globs[p.g] ELSE slots[p.slot][p.n + 1])
    /\ UNCHANGED <<mod, status, slots, nextSlot, globs, out, result>>

Store ==
    /\ Runs({"store"})
    /\ LET p == Arg(2)
       IN IF p.k = "global"
          THEN globs' = Bind(globs, p.g, Arg(1)) /\ UNCHANGED slots
          ELSE slots' = [slots EXCEPT ![p.slot][p.n + 1] = Arg(1)] /\ UNCHANGED globs
    /\ Step
    /\ UNCHANGED <<mod, status, nextSlot, out, result>>

(* The index is checked against the whole slot, whatever the base's index. *)
InBounds == 0 <= Arg(2).n /\ Arg(2).n < Len(slots[Arg(1).slot])
Gep ==
    /\ Runs({"gep"})
    /\ InBounds
    /\ Define(Mem(Arg(1).slot, Arg(2).n))
    /\ UNCHANGED <<mod, status, slots, nextSlot, globs, out, result>>

(* The caller stays at its call until the callee returns. *)
CallFunction ==
    /\ Runs({"call"})
    /\ stack' = Append(stack, Frame(Ins.callee, [i \in DOMAIN Ins.args |-> Arg(i)]))
    /\ UNCHANGED <<mod, status, slots, nextSlot, globs, out, result>>

Output ==
    /\ Runs({"print.i32"})
    /\ Len(out) < MaxOut
    /\ out' = Append(out, Arg(1))
    /\ Step
    /\ UNCHANGED <<mod, status, slots, nextSlot, globs, result>>

Branch ==
    /\ Runs({"br", "br.cond"})
    /\ SetTop(MovedTo(Top, Target, 1, Top.regs, Top.owned))
    /\ UNCHANGED <<mod, status, slots, nextSlot, globs, out, result>>

Traps ==
    \/ Ins.op = "trap"
    \/ Ins.op = "gep" /\ ~InBounds
    \/ Ins.op \in DivOps /\ BinOpTraps(Ins.op, Ins.ty, Arg(1).n, Arg(2).n)

(* _Trap leaves every call: their slots die, what was printed stays. *)
Trap ==
    /\ Runs({"trap", "gep"} \cup DivOps)
    /\ Traps
    /\ status' = "trapped"
    /\ stack' = <<>>
    /\ Leave(stack)
    /\ result' = Num(0)
    /\ UNCHANGED <<mod, nextSlot, globs, out>>

(* The value of a computing instruction.  Pointers compare as tuples do. *)
Computed ==
    CASE Ins.op \in UnaryOps -> Num(UnaryOp(Ins.op, Ins.ty, Arg(1).n))
      [] Ins.op = "icmp.eq"  -> Num(IF Arg(1) = Arg(2) THEN 1 ELSE 0)
      [] Ins.op = "icmp.ne"  -> Num(IF Arg(1) = Arg(2) THEN 0 ELSE 1)
      [] Ins.op \in Cmps \ {"icmp.eq", "icmp.ne"} ->
            Num(ICmp(Ins.op, Ins.ty, Arg(1).n, Arg(2).n))
      [] Ins.op \in ConvOps  -> Num(Convert(Ins.op, Ins.ty, Arg(1).n, Ins.args[1].ty))
      [] Ins.op \in BinOps   -> Num(BinOp(Ins.op, Ins.ty, Arg(1).n, Arg(2).n))

Compute ==
    /\ Runs(Computes)
    /\ ~Traps
    /\ Define(Computed)
    /\ UNCHANGED <<mod, status, slots, nextSlot, globs, out, result>>

(* The callee's slots die; the caller gets the value and moves on. *)
Return ==
    /\ Runs({"ret"})
    /\ LET v == IF Ins.args = <<>> THEN Num(0) ELSE Arg(1)
           callers == SubSeq(stack, 1, Len(stack) - 1)
           caller  == callers[Len(callers)]
           call    == Instrs(mod.funcs[caller.fn], caller.blk)[caller.pc]
           regs    == IF call.dest = NoName THEN caller.regs
                                            ELSE Bind(caller.regs, call.dest, v)
       IN IF callers = <<>>
          THEN status' = "returned" /\ result' = v /\ stack' = <<>>
          ELSE /\ stack' = [callers EXCEPT ![Len(callers)] = Advance(caller, regs)]
               /\ UNCHANGED <<status, result>>
    /\ Leave(<<Top>>)
    /\ UNCHANGED <<mod, nextSlot, globs, out>>

Next == Raise \/ FallOff \/ Alloca \/ Load \/ Store \/ Gep \/ CallFunction
        \/ Output \/ Branch \/ Trap \/ Compute \/ Return

Spec == Init /\ [][Next]_vars /\ WF_vars(Next)
-----------------------------------------------------------------------------
(* A module the front end and verifyFunction let through: every function   *)
(* is well defined, and every call names a function and gives it at least  *)
(* the arguments it has parameters for.                                    *)
CallsMatch(m) ==
    \A f \in DOMAIN m.funcs : \A ins \in Instructions(m.funcs[f]) :
        ins.op = "call" =>
            /\ ins.callee \in DOMAIN m.funcs
            /\ Len(ins.args) >= Len(m.funcs[ins.callee].params)
Accepted(m) ==
    /\ "main" \in DOMAIN m.funcs /\ m.funcs["main"].params = <<>>
    /\ \A f \in DOMAIN m.funcs : WellDefined(m.funcs[f])
    /\ CallsMatch(m)

(* No run of an accepted module reads a register no path has defined, goes *)
(* to a block or calls a function that is not there (verifyFunction's      *)
(* purpose), or runs off the end of a block into the same block again.     *)
AcceptedRunsAreDefined ==
    /\ status \in {"no register", "no block", "no function"} => ~Accepted(mod)
    /\ status = "run" /\ Top.pc \notin DOMAIN Code => ~Accepted(mod)

(* The slots alive are exactly those the active calls own, each owned once: *)
(* `finally` of every call releases its own on a return, a trap or an error. *)
SlotsOwnedOnce ==
    /\ DOMAIN slots = OwnedBy(stack)
    /\ \A c, d \in DOMAIN stack : c # d => stack[c].owned \cap stack[d].owned = {}

(* Pointers go down only: they are made by alloca and gep, used to access *)
(* memory, and passed to callees, never returned or stored; a register    *)
(* has one type.                                                          *)
TypedRegs(fn) ==
    {<<a.name, a.ty>> : a \in Range(fn.params)}
    \cup (UNION {{<<r, ResultTy(ins)>> : r \in Dest(ins)} : ins \in Instructions(fn)})
    \cup (UNION {{<<a.name, a.ty>> : a \in {x \in Range(ins.args) : x.k = "reg"}} :
                 ins \in Instructions(fn)})
PointersStayLocal(m) ==
    \A f \in DOMAIN m.funcs :
        /\ \A x, y \in TypedRegs(m.funcs[f]) : x[1] = y[1] => x[2] = y[2]
        /\ \A ins \in Instructions(m.funcs[f]) :
              /\ ins.op \notin {"alloca", "gep"} => ins.ty # "ptr"
              /\ \A i \in DOMAIN ins.args : ins.args[i].ty = "ptr" =>
                    \/ ins.op = "load"
                    \/ ins.op = "store" /\ i = 2
                    \/ ins.op = "gep" /\ i = 1 /\ ins.args[i].k = "reg"
                    \/ ins.op = "call" /\ ins.args[i].k = "reg"
              /\ ins.op = "call" =>
                    \A i \in DOMAIN ins.args \cap DOMAIN m.funcs[ins.callee].params :
                        ins.args[i].ty = m.funcs[ins.callee].params[i].ty

(* In such a module, once verified, a pointer in use always leads to a slot *)
(* alive: reusing a slot id or releasing a slot early would break a later   *)
(* access.                                                                  *)
NoDanglingAccess == status = "no slot" => ~(Accepted(mod) /\ PointersStayLocal(mod))

(* A module that branches only forward and calls only what is listed before *)
(* the caller ends: it returns, traps or fails, but cannot run for ever.    *)
NoLoops(m) ==
    \A f \in DOMAIN m.funcs : \A b \in Range(m.funcs[f].blocks) :
        /\ HasTerminator(b)
        /\ \A l \in Range(BlockSuccessors(b)) : l > b.label
        /\ \A ins \in Range(b.instrs) : ins.op = "call" => ins.callee # f
AcyclicRunsEnd == NoLoops(mod) ~> status # "run"
=============================================================================
