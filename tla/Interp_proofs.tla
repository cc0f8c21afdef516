---------------------------- MODULE Interp_proofs ----------------------------
(***************************************************************************)
(* Two facts about every run of the reference interpreter: a module that   *)
(* verifyFunction accepts never reads an undefined register, branches to a *)
(* missing block or runs off a block; and memory slots are owned by the    *)
(* active calls, each by one.                                              *)
(***************************************************************************)
EXTENDS Interp, CFG_proofs

(* A frame stands on an instruction of a block some path leads to, and a    *)
(* register it has not bound is one the rest of that path did not define.   *)
FrameDefined(f) ==
    LET fn == mod.funcs[f.fn] IN
    /\ f.fn \in DOMAIN mod.funcs
    /\ f.blk \in OnSomePath(fn)
    /\ f.pc \in 1..Len(Instrs(fn, f.blk))
    /\ \A r : r \notin DOMAIN f.regs =>
          r \notin DefinedBefore(fn, f.blk, f.pc - 1) /\ f.blk \in MissingAt(fn, r)

(* A caller waits at its call instruction. *)
Waiting(f) == Instrs(mod.funcs[f.fn], f.blk)[f.pc].op = "call"

DefinedInv ==
    /\ mod \in Modules
    /\ IsList(stack)
    /\ status = "run" <=> stack # <<>>
    /\ Accepted(mod) =>
          /\ status \notin {"no register", "no block", "no function"}
          /\ \A d \in 1..Len(stack) : FrameDefined(stack[d])
          /\ \A d \in 1..(Len(stack) - 1) : Waiting(stack[d])
-----------------------------------------------------------------------------
(* Replacing the top of a stack. *)
LEMMA ReplaceTop ==
    ASSUME NEW s, IsList(s), s # <<>>, NEW f
    PROVE  LET t == [s EXCEPT ![Len(s)] = f] IN
           /\ IsList(t) /\ Len(t) = Len(s) /\ t # <<>>
           /\ t[Len(s)] = f
           /\ \A d \in 1..(Len(s) - 1) : t[d] = s[d]
           /\ Len(s) \in Nat \ {0}
<1> DEFINE t == [s EXCEPT ![Len(s)] = f]
<1> DEFINE S == Range(s) \cup {f}
<1>1. s \in Seq(S) /\ f \in S
  BY SeqMonotonic DEF IsList
<1>2. Len(s) \in Nat \ {0} /\ Len(s) \in 1..Len(s)
  BY <1>1, EmptySeq
<1>3. /\ t \in Seq(S) /\ Len(t) = Len(s)
      /\ \A d \in 1..Len(s) : t[d] = IF d = Len(s) THEN f ELSE s[d]
  BY <1>1, <1>2, ExceptSeq
<1>4. IsList(t)
  BY <1>3, SeqOfRange DEF IsList
<1>5. t # <<>>
  BY <1>2, <1>3, EmptySeq
<1> QED
  BY <1>2, <1>3, <1>4, <1>5

(* Pushing a frame. *)
LEMMA PushFrame ==
    ASSUME NEW s, IsList(s), NEW f
    PROVE  /\ IsList(Append(s, f)) /\ Len(Append(s, f)) = Len(s) + 1
           /\ Append(s, f) # <<>>
           /\ Append(s, f)[Len(s) + 1] = f
           /\ \A d \in 1..Len(s) : Append(s, f)[d] = s[d]
           /\ Len(s) \in Nat
<1> DEFINE S == Range(s) \cup {f}
<1>1. s \in Seq(S) /\ f \in S
  BY SeqMonotonic DEF IsList
<1>2. /\ Append(s, f) \in Seq(S)
      /\ Append(s, f) # <<>>
      /\ Len(Append(s, f)) = Len(s) + 1
      /\ \A d \in 1..Len(s) : Append(s, f)[d] = s[d]
      /\ Append(s, f)[Len(s) + 1] = f
  BY <1>1, AppendProperties
<1>3. IsList(Append(s, f))
  BY <1>2, SeqOfRange DEF IsList
<1> QED
  BY <1>1, <1>2, <1>3

(* Popping a frame. *)
LEMMA PopFrame ==
    ASSUME NEW s, IsList(s), s # <<>>
    PROVE  LET t == SubSeq(s, 1, Len(s) - 1) IN
           /\ IsList(t) /\ Len(t) = Len(s) - 1
           /\ \A d \in 1..(Len(s) - 1) : t[d] = s[d]
           /\ t # <<>> <=> Len(s) > 1
           /\ Len(s) \in Nat \ {0}
<1> DEFINE t == SubSeq(s, 1, Len(s) - 1)
<1>1. Len(s) \in Nat \ {0} /\ s \in [1..Len(s) -> Range(s)]
  BY ListDomain DEF IsList
<1>2. /\ t \in Seq(Range(s))
      /\ Len(t) = IF 1 <= Len(s) - 1 THEN (Len(s) - 1) - 1 + 1 ELSE 0
      /\ \A i \in 1..((Len(s) - 1) - 1 + 1) : t[i] = s[1 + i - 1]
  BY <1>1, SubSeqProperties
<1>3. IsList(t)
  BY <1>2, SeqOfRange DEF IsList
<1>4. t # <<>> <=> Len(t) # 0
  BY <1>2, EmptySeq
<1> QED
  BY <1>1, <1>2, <1>3, <1>4

(* The instructions of a block of an accepted function: the last one, and  *)
(* only that one, is a terminator, and its targets are the block's edges.  *)
LEMMA BlockShape ==
    ASSUME NEW fn, IsFunction(fn), CheckCfg(fn) = {}, NEW l \in Labels(fn)
    PROVE  /\ IsList(Instrs(fn, l)) /\ Len(Instrs(fn, l)) \in Nat \ {0}
           /\ DOMAIN Instrs(fn, l) = 1..Len(Instrs(fn, l))
           /\ \A i \in 1..Len(Instrs(fn, l)) :
                 /\ Instrs(fn, l)[i] \in Instructions(fn)
                 /\ IsInstr(Instrs(fn, l)[i])
                 /\ IsTerminator(Instrs(fn, l)[i]) <=> i = Len(Instrs(fn, l))
           /\ Successors(fn, l) = Instrs(fn, l)[Len(Instrs(fn, l))].labels
<1>1. PICK k \in DOMAIN fn.blocks : Block(fn, l) = fn.blocks[k]
  BY BlockOfLabel
<1> DEFINE b == fn.blocks[k]
<1>2. /\ b \in Range(fn.blocks) /\ Instrs(fn, l) = b.instrs /\ IsList(b.instrs)
      /\ \A ins \in Range(b.instrs) : IsInstr(ins)
  BY <1>1 DEF Range, Instrs, IsFunction
<1>3. HasTerminator(b) /\ \A j \in 1..(Len(b.instrs) - 1) : ~IsTerminator(b.instrs[j])
  BY <1>2, CheckedGraph DEF EndsInTerminator, NothingAfterTerminator
<1>4. /\ DOMAIN b.instrs = 1..Len(b.instrs) /\ Len(b.instrs) \in Nat \ {0}
      /\ IsTerminator(b.instrs[Len(b.instrs)])
  BY <1>2, <1>3, ListDomain DEF HasTerminator, IsList
<1>5. \A i \in 1..Len(b.instrs) : b.instrs[i] \in Range(b.instrs)
  BY <1>4 DEF Range
<1>6. \A i \in 1..Len(b.instrs) : b.instrs[i] \in Instructions(fn)
  BY <1>2, <1>5 DEF Instructions
<1>7. Successors(fn, l) = b.instrs[Len(b.instrs)].labels
  BY <1>1, <1>3 DEF Successors, BlockSuccessors
<1>8. \A i \in 1..Len(b.instrs) : IsTerminator(b.instrs[i]) <=> i = Len(b.instrs)
  BY <1>3, <1>4
<1> QED
  BY <1>2, <1>4, <1>5, <1>6, <1>7, <1>8

(* One instruction further, what it writes is defined as well. *)
LEMMA DefinedBeforeNext ==
    ASSUME NEW fn, NEW l, NEW n \in Nat \ {0}
    PROVE  DefinedBefore(fn, l, n)
              = DefinedBefore(fn, l, n - 1) \cup Dest(Instrs(fn, l)[n])
<1>1. 1..n = 1..(n - 1) \cup {n}
  OBVIOUS
<1> QED
  BY <1>1 DEF DefinedBefore
-----------------------------------------------------------------------------
(* What is known of the frame that executes. *)
LEMMA Current ==
    ASSUME DefinedInv, Accepted(mod), status = "run"
    PROVE  /\ IsList(stack) /\ stack # <<>> /\ Len(stack) \in Nat \ {0}
           /\ FrameDefined(Top)
           /\ Top.fn \in DOMAIN mod.funcs
           /\ IsFunction(mod.funcs[Top.fn])
           /\ WellDefined(mod.funcs[Top.fn]) /\ CheckCfg(mod.funcs[Top.fn]) = {}
           /\ Top.blk \in OnSomePath(mod.funcs[Top.fn])
           /\ Top.blk \in Labels(mod.funcs[Top.fn])
           /\ Top.pc \in 1..Len(Code) /\ DOMAIN Code = 1..Len(Code) /\ Len(Code) \in Nat
           /\ IsInstr(Ins) /\ Ins \in Instructions(mod.funcs[Top.fn])
           /\ IsTerminator(Ins) <=> Top.pc = Len(Code)
<1>1. IsList(stack) /\ stack # <<>> /\ Len(stack) \in Nat \ {0}
  BY ListDomain, EmptySeq DEF DefinedInv, IsList
<1>2. FrameDefined(Top)
  BY <1>1 DEF DefinedInv, Top
<1>3. /\ Top.fn \in DOMAIN mod.funcs
      /\ Top.blk \in OnSomePath(mod.funcs[Top.fn])
      /\ Top.pc \in 1..Len(Code)
  BY <1>2 DEF FrameDefined, Code
<1>4. IsFunction(mod.funcs[Top.fn]) /\ WellDefined(mod.funcs[Top.fn])
  BY <1>3, ModulesAssumption DEF DefinedInv, Accepted
<1>5. CheckCfg(mod.funcs[Top.fn]) = {}
  BY <1>4 DEF WellDefined
<1>6. Top.blk \in Labels(mod.funcs[Top.fn])
  BY <1>3 DEF OnSomePath
<1> QED
  BY <1>1, <1>2, <1>3, <1>4, <1>5, <1>6, BlockShape DEF Code, Ins

(* The executing instruction reads bound registers only, branches to a block *)
(* and calls a function of the module.                                       *)
LEMMA NoDefinednessFault ==
    ASSUME DefinedInv, Accepted(mod), Executing
    PROVE  Fault \notin {"no register", "no block", "no function"}
<1> DEFINE fn == mod.funcs[Top.fn]
<1>1. status = "run"
  BY DEF Executing
<1>2. /\ FrameDefined(Top) /\ IsFunction(fn) /\ WellDefined(fn) /\ CheckCfg(fn) = {}
      /\ Top.blk \in OnSomePath(fn) /\ Top.blk \in Labels(fn)
      /\ Top.fn \in DOMAIN mod.funcs
      /\ Top.pc \in 1..Len(Code) /\ DOMAIN Code = 1..Len(Code)
      /\ Len(Code) \in Nat
      /\ IsInstr(Ins) /\ Ins \in Instructions(fn)
      /\ IsTerminator(Ins) <=> Top.pc = Len(Code)
  BY <1>1, Current
<1>3. Uses(Ins) \subseteq DOMAIN Top.regs
  <2>. SUFFICES ASSUME NEW r \in Uses(Ins), r \notin DOMAIN Top.regs PROVE FALSE
    OBVIOUS
  <2>1. r \notin DefinedBefore(fn, Top.blk, Top.pc - 1) /\ Top.blk \in MissingAt(fn, r)
    BY <1>2 DEF FrameDefined
  <2>2. Ins \in Range(Instrs(fn, Top.blk)) /\ Top.pc \in DOMAIN Instrs(fn, Top.blk)
    BY <1>2 DEF Range, Ins, Code
  <2>3. r \in UndefinedOnSomePath(fn, Top.blk)
    BY <2>1, <2>2 DEF UndefinedOnSomePath, Ins, Code
  <2>. QED
    BY <2>3, <1>2 DEF WellDefined
<1>4. ASSUME Ins.op \in {"br", "br.cond"} PROVE Target \in Labels(fn)
  <2>1. IsTerminator(Ins)
    BY <1>4 DEF IsTerminator, Terminators
  <2>2. Ins.labels = Successors(fn, Top.blk)
    BY <1>2, <2>1, BlockShape DEF Ins, Code
  <2>3. /\ IsList(Ins.labels)
        /\ \/ Target = Ins.labels[1]
           \/ Ins.op = "br.cond" /\ Target = Ins.labels[2]
    BY <1>2, <1>4 DEF Target, IsInstr
  <2>4. DOMAIN Ins.labels = 1..Len(Ins.labels)
    BY <2>3, ListDomain
  <2>5. Target \in Range(Ins.labels)
    BY <1>2, <1>4, <2>3, <2>4 DEF IsInstr, Range
  <2>. QED
    BY <1>2, <2>2, <2>5, SuccessorsAreLabels
<1>5. ASSUME Ins.op = "call" PROVE Ins.callee \in DOMAIN mod.funcs
  BY <1>2, <1>5 DEF Accepted, CallsMatch
<1>6. \A p, b : AccessFault(p, b) \in {"wrong type", "no global", "none", "no slot", "no element"}
  BY DEF AccessFault
<1>7. CASE Ins.op \in {"load", "store"}
  BY <1>3, <1>6, <1>7 DEF Fault
<1>8. CASE Ins.op \in {"gep", "alloca"}
  BY <1>3, <1>8 DEF Fault
<1>9. CASE Ins.op = "call"
  BY <1>3, <1>5, <1>9 DEF Fault
<1>10. CASE Ins.op \in {"br", "br.cond"}
  BY <1>3, <1>4, <1>10 DEF Fault
<1>11. CASE Ins.op \notin {"load", "store", "gep", "alloca", "call", "br", "br.cond"}
  BY <1>3, <1>11 DEF Fault
<1> QED
  BY <1>7, <1>8, <1>9, <1>10, <1>11

(* A frame that has moved past a non-terminator and bound what it wrote. *)
LEMMA Advanced ==
    ASSUME DefinedInv, Accepted(mod), NEW d \in 1..Len(stack), NEW f,
           ~IsTerminator(Instrs(mod.funcs[stack[d].fn], stack[d].blk)[stack[d].pc]),
           f.fn = stack[d].fn, f.blk = stack[d].blk, f.pc = stack[d].pc + 1,
           DOMAIN stack[d].regs
             \cup Dest(Instrs(mod.funcs[stack[d].fn], stack[d].blk)[stack[d].pc])
             \subseteq DOMAIN f.regs
    PROVE  FrameDefined(f)
<1> DEFINE g == stack[d]
           fn == mod.funcs[g.fn]
<1>1. FrameDefined(g)
  BY DEF DefinedInv
<1>2. /\ g.fn \in DOMAIN mod.funcs /\ g.blk \in OnSomePath(fn)
      /\ g.pc \in 1..Len(Instrs(fn, g.blk))
      /\ \A r : r \notin DOMAIN g.regs =>
            r \notin DefinedBefore(fn, g.blk, g.pc - 1) /\ g.blk \in MissingAt(fn, r)
  BY <1>1 DEF FrameDefined
<1>3. IsFunction(fn) /\ CheckCfg(fn) = {} /\ g.blk \in Labels(fn)
  BY <1>2, ModulesAssumption DEF DefinedInv, Accepted, WellDefined, OnSomePath
<1>4. g.pc # Len(Instrs(fn, g.blk)) /\ Len(Instrs(fn, g.blk)) \in Nat
  BY <1>2, <1>3, BlockShape
<1>5. f.pc \in 1..Len(Instrs(fn, g.blk)) /\ f.pc - 1 = g.pc /\ g.pc \in Nat \ {0}
  BY <1>2, <1>4
<1>6. DefinedBefore(fn, g.blk, f.pc - 1)
         = DefinedBefore(fn, g.blk, g.pc - 1) \cup Dest(Instrs(fn, g.blk)[g.pc])
  BY <1>5, DefinedBeforeNext
<1>7. \A r : r \notin DOMAIN f.regs =>
          r \notin DefinedBefore(fn, g.blk, f.pc - 1) /\ g.blk \in MissingAt(fn, r)
  BY <1>2, <1>6
<1> QED
  BY <1>2, <1>5, <1>7 DEF FrameDefined

(* The top frame is replaced by one that is still defined. *)
LEMMA TopReplaced ==
    ASSUME DefinedInv, status = "run", NEW f, SetTop(f), mod' = mod, status' = status,
           Accepted(mod) => FrameDefined(f)
    PROVE  DefinedInv'
<1>1. IsList(stack) /\ stack # <<>>
  BY DEF DefinedInv
<1>2. /\ IsList(stack') /\ Len(stack') = Len(stack) /\ stack' # <<>>
      /\ stack'[Len(stack)] = f /\ Len(stack) \in Nat \ {0}
      /\ \A d \in 1..(Len(stack) - 1) : stack'[d] = stack[d]
  <2>1. stack' = [stack EXCEPT ![Len(stack)] = f]
    BY DEF SetTop
  <2> DEFINE t == [stack EXCEPT ![Len(stack)] = f]
  <2>2. /\ IsList(t) /\ Len(t) = Len(stack) /\ t # <<>>
        /\ t[Len(stack)] = f /\ Len(stack) \in Nat \ {0}
        /\ \A d \in 1..(Len(stack) - 1) : t[d] = stack[d]
    BY <1>1, ReplaceTop, Zenon
  <2>. QED
    BY <2>1, <2>2
<1>3. ASSUME Accepted(mod), NEW d \in 1..Len(stack') PROVE FrameDefined(stack[d])'
  <2>1. CASE d = Len(stack)
    BY <1>2, <1>3, <2>1 DEF FrameDefined
  <2>2. CASE d # Len(stack)
    <3>1. d \in 1..(Len(stack) - 1) /\ d \in 1..Len(stack)
      BY <1>2, <2>2
    <3>2. FrameDefined(stack[d])
      BY <1>3, <3>1 DEF DefinedInv
    <3>. QED
      BY <1>2, <3>1, <3>2 DEF FrameDefined
  <2>. QED
    BY <2>1, <2>2
<1>4. ASSUME Accepted(mod), NEW d \in 1..(Len(stack') - 1) PROVE Waiting(stack[d])'
  <2>1. Waiting(stack[d]) /\ stack'[d] = stack[d]
    BY <1>2, <1>4 DEF DefinedInv
  <2>. QED
    BY <2>1 DEF Waiting
<1> QED
  BY <1>2, <1>3, <1>4 DEF DefinedInv, Accepted, CallsMatch

(* The executing frame moves to its next instruction. *)
LEMMA Moved ==
    ASSUME DefinedInv, Executing, Ins.op \notin Terminators,
           NEW regs2, NEW owned2,
           Accepted(mod) => DOMAIN Top.regs \cup Dest(Ins) \subseteq DOMAIN regs2,
           SetTop(MovedTo(Top, Top.blk, Top.pc + 1, regs2, owned2)),
           mod' = mod, status' = status
    PROVE  DefinedInv'
<1> DEFINE f == MovedTo(Top, Top.blk, Top.pc + 1, regs2, owned2)
<1>1. status = "run"
  BY DEF Executing
<1>2. ASSUME Accepted(mod) PROVE FrameDefined(f)
  <2>1. Len(stack) \in 1..Len(stack)
    BY <1>1, <1>2, Current
  <2>2. ~IsTerminator(Ins)
    BY DEF IsTerminator
  <2>3. /\ f.fn = Top.fn /\ f.blk = Top.blk /\ f.pc = Top.pc + 1
        /\ DOMAIN Top.regs \cup Dest(Ins) \subseteq DOMAIN f.regs
    BY <1>2 DEF MovedTo
  <2>. HIDE DEF f
  <2>. QED
    BY <1>2, <2>1, <2>2, <2>3, Advanced DEF Top, Ins, Code
<1>. HIDE DEF f
<1> QED
  BY <1>1, <1>2, TopReplaced DEF f

(* An instruction that writes no register. *)
LEMMA StepMoves ==
    ASSUME DefinedInv, Executing, Ins.op \notin Terminators, Ins.op \in DefinesNothing,
           Step, mod' = mod, status' = status
    PROVE  DefinedInv'
<1>1. ASSUME Accepted(mod) PROVE Dest(Ins) = {}
  <2>1. IsInstr(Ins)
    BY <1>1, Current DEF Executing
  <2>. QED
    BY <2>1 DEF Dest, IsInstr
<1>2. Accepted(mod) => DOMAIN Top.regs \cup Dest(Ins) \subseteq DOMAIN Top.regs
  BY <1>1
<1> QED
  BY <1>2, Moved DEF Step, Advance

(* An instruction that writes its register. *)
LEMMA DefineMoves ==
    ASSUME DefinedInv, Executing, Ins.op \notin Terminators,
           NEW v, Define(v), mod' = mod, status' = status
    PROVE  DefinedInv'
<1>1. DOMAIN Top.regs \cup Dest(Ins) \subseteq DOMAIN Bind(Top.regs, Ins.dest, v)
  BY DEF Bind, Dest
<1> QED
  BY <1>1, Moved DEF Define, Advance

(* A call that gets an argument for every parameter starts out defined. *)
LEMMA FreshFrame ==
    ASSUME mod \in Modules, Accepted(mod), NEW f \in DOMAIN mod.funcs, NEW argv,
           DOMAIN mod.funcs[f].params \subseteq DOMAIN argv
    PROVE  FrameDefined(Frame(f, argv))
<1> DEFINE fn == mod.funcs[f]
           g  == Frame(f, argv)
<1>1. IsFunction(fn) /\ WellDefined(fn) /\ CheckCfg(fn) = {}
  BY ModulesAssumption DEF Accepted, WellDefined
<1>2. g.fn = f /\ g.blk = Entry(fn) /\ g.pc = 1 /\ g.regs = Bound(fn.params, argv)
  BY DEF Frame
<1>3. Entry(fn) \in OnSomePath(fn) /\ Entry(fn) \in Labels(fn)
  BY <1>1, EntryFacts, OnSomePathClosed DEF ClosedUnderEdges
<1>4. 1 \in 1..Len(Instrs(fn, Entry(fn)))
  BY <1>1, <1>3, BlockShape
<1>5. Params(fn) \subseteq DOMAIN g.regs
  BY <1>2 DEF Bound, Params, Range
<1>6. \A r : r \notin DefinedBefore(fn, Entry(fn), 1 - 1)
  BY DEF DefinedBefore
<1>7. ASSUME NEW r, r \notin DOMAIN g.regs PROVE Entry(fn) \in MissingAt(fn, r)
  BY <1>1, <1>5, <1>7, MissingClosed DEF ClosedAvoiding
<1> HIDE DEF g
<1>8. FrameDefined(g)
  BY <1>2, <1>3, <1>4, <1>6, <1>7 DEF FrameDefined
<1> QED
  BY <1>8 DEF g

LEMMA EmptyRanges == 1..0 = {} /\ 1..(0 - 1) = {}
OBVIOUS

(* The run ends. *)
LEMMA Ended ==
    ASSUME DefinedInv, mod' = mod, stack' = <<>>, status' # "run",
           Accepted(mod) => status' \notin {"no register", "no block", "no function"}
    PROVE  DefinedInv'
<1>1. IsList(<<>>) /\ Len(<<>>) = 0
  BY EmptySeq DEF IsList
<1>2. 1..0 = {} /\ 1..(0 - 1) = {}
  BY EmptyRanges
<1>3. (mod \in Modules)' /\ IsList(stack)' /\ (status = "run" <=> stack # <<>>)'
  BY <1>1 DEF DefinedInv
<1>4. Accepted(mod)' <=> Accepted(mod)
  BY DEF Accepted, CallsMatch
<1> QED
  BY <1>1, <1>2, <1>3, <1>4 DEF DefinedInv

LEMMA CallKeepsDefined ==
    ASSUME DefinedInv, CallFunction
    PROVE  DefinedInv'
<1> DEFINE argv == [i \in DOMAIN Ins.args |-> Arg(i)]
           f    == Frame(Ins.callee, argv)
<1>1. /\ status = "run" /\ Ins.op = "call" /\ stack' = Append(stack, f)
      /\ mod' = mod /\ status' = status
  BY DEF CallFunction, Runs, Executing
<1>2. IsList(stack) /\ mod \in Modules
  BY DEF DefinedInv
<1>3. ASSUME Accepted(mod) PROVE FrameDefined(f)
  <2>1. IsInstr(Ins) /\ Ins \in Instructions(mod.funcs[Top.fn]) /\ Top.fn \in DOMAIN mod.funcs
    BY <1>1, <1>3, Current
  <2>2. /\ Ins.callee \in DOMAIN mod.funcs
        /\ Len(Ins.args) >= Len(mod.funcs[Ins.callee].params)
    BY <1>1, <1>3, <2>1 DEF Accepted, CallsMatch
  <2>3. IsList(Ins.args) /\ IsList(mod.funcs[Ins.callee].params)
    BY <1>2, <2>1, <2>2, ModulesAssumption DEF IsInstr, IsFunction
  <2>4. DOMAIN mod.funcs[Ins.callee].params \subseteq DOMAIN Ins.args
    BY <2>2, <2>3, ListDomain
  <2>5. DOMAIN argv = DOMAIN Ins.args
    OBVIOUS
  <2> HIDE DEF argv
  <2>. QED
    BY <1>2, <1>3, <2>2, <2>4, <2>5, FreshFrame
<1> HIDE DEF f
<1>4. /\ IsList(stack') /\ Len(stack') = Len(stack) + 1 /\ stack' # <<>>
      /\ stack'[Len(stack) + 1] = f /\ Len(stack) \in Nat
      /\ \A d \in 1..Len(stack) : stack'[d] = stack[d]
  BY <1>1, <1>2, PushFrame
<1>5. ASSUME Accepted(mod), NEW d \in 1..Len(stack') PROVE FrameDefined(stack[d])'
  <2>1. CASE d = Len(stack) + 1
    BY <1>1, <1>3, <1>4, <1>5, <2>1 DEF FrameDefined
  <2>2. CASE d # Len(stack) + 1
    <3>1. d \in 1..Len(stack)
      BY <1>4, <2>2
    <3>2. FrameDefined(stack[d]) /\ stack'[d] = stack[d]
      BY <1>4, <1>5, <3>1 DEF DefinedInv
    <3>. QED
      BY <1>1, <3>2 DEF FrameDefined
  <2>. QED
    BY <2>1, <2>2
<1>6. ASSUME Accepted(mod), NEW d \in 1..(Len(stack') - 1) PROVE Waiting(stack[d])'
  <2>1. d \in 1..Len(stack) /\ stack'[d] = stack[d]
    BY <1>4
  <2>2. Waiting(stack[d])
    <3>1. CASE d = Len(stack)
      BY <1>1, <3>1 DEF Waiting, Ins, Code, Top
    <3>2. CASE d # Len(stack)
      <4>1. d \in 1..(Len(stack) - 1)
        BY <1>4, <2>1, <3>2
      <4>. QED
        BY <1>6, <4>1 DEF DefinedInv
    <3>. QED
      BY <3>1, <3>2
  <2>. QED
    BY <1>1, <2>1, <2>2 DEF Waiting
<1> QED
  BY <1>1, <1>2, <1>4, <1>5, <1>6 DEF DefinedInv, Accepted, CallsMatch

LEMMA ReturnKeepsDefined ==
    ASSUME DefinedInv, Return
    PROVE  DefinedInv'
<1> DEFINE v == IF Ins.args = <<>> THEN Num(0) ELSE Arg(1)
           callers == SubSeq(stack, 1, Len(stack) - 1)
           caller  == callers[Len(callers)]
           call    == Instrs(mod.funcs[caller.fn], caller.blk)[caller.pc]
           regs    == IF call.dest = NoName THEN caller.regs
                                            ELSE Bind(caller.regs, call.dest, v)
           f       == Advance(caller, regs)
<1>1. /\ status = "run" /\ mod' = mod
      /\ IF callers = <<>>
         THEN status' = "returned" /\ stack' = <<>>
         ELSE stack' = [callers EXCEPT ![Len(callers)] = f] /\ status' = status
  BY DEF Return, Runs, Executing
<1>2. IsList(stack) /\ stack # <<>>
  BY <1>1 DEF DefinedInv
<1>3. /\ IsList(callers) /\ Len(callers) = Len(stack) - 1
      /\ \A d \in 1..(Len(stack) - 1) : callers[d] = stack[d]
      /\ Len(stack) \in Nat \ {0}
      /\ callers # <<>> <=> Len(stack) > 1
  BY <1>2, PopFrame, Zenon
<1>4. CASE callers = <<>>
  BY <1>1, <1>4, Ended
<1>5. CASE callers # <<>>
  <2> HIDE DEF callers
  <2> DEFINE k == Len(stack) - 1
  <2>1. k \in 1..(Len(stack) - 1) /\ k \in 1..Len(stack) /\ caller = stack[k]
    BY <1>3, <1>5
  <2>2. ASSUME Accepted(mod) PROVE FrameDefined(f)
    <3>1. Waiting(stack[k])
      BY <2>1, <2>2 DEF DefinedInv
    <3>2. ~IsTerminator(call)
      BY <2>1, <3>1 DEF Waiting, IsTerminator, Terminators
    <3>3. DOMAIN caller.regs \cup Dest(call) \subseteq DOMAIN regs
      BY DEF Bind, Dest
    <3> HIDE DEF regs
    <3>4. /\ f.fn = caller.fn /\ f.blk = caller.blk /\ f.pc = caller.pc + 1
          /\ f.regs = regs
      BY DEF Advance, MovedTo
    <3> HIDE DEF f, k
    <3>. QED
      BY <2>1, <2>2, <3>2, <3>3, <3>4, Advanced
  <2> HIDE DEF f
  <2> DEFINE t == [callers EXCEPT ![Len(callers)] = f]
  <2>0. IsList(callers) /\ callers # <<>>
    BY <1>3, <1>5
  <2>3. /\ IsList(t) /\ Len(t) = Len(callers) /\ t # <<>>
        /\ t[Len(callers)] = f
        /\ \A d \in 1..(Len(callers) - 1) : t[d] = callers[d]
    BY <2>0, ReplaceTop, Zenon
  <2>4. stack' = t /\ status' = "run"
    BY <1>1, <1>5
  <2> HIDE DEF t
  <2>5. /\ IsList(stack') /\ Len(stack') = k /\ stack' # <<>> /\ stack'[k] = f
        /\ \A d \in 1..(k - 1) : stack'[d] = stack[d] /\ d \in 1..(Len(stack) - 1)
    BY <1>3, <2>3, <2>4
  <2>6. ASSUME Accepted(mod), NEW d \in 1..Len(stack') PROVE FrameDefined(stack[d])'
    <3>1. CASE d = k
      BY <1>1, <2>2, <2>5, <2>6, <3>1 DEF FrameDefined
    <3>2. CASE d # k
      <4>1. d \in 1..(k - 1) /\ d \in 1..Len(stack)
        BY <1>3, <2>5, <3>2
      <4>2. FrameDefined(stack[d]) /\ stack'[d] = stack[d]
        BY <2>5, <2>6, <4>1 DEF DefinedInv
      <4>. QED
        BY <1>1, <4>2 DEF FrameDefined
    <3>. QED
      BY <3>1, <3>2
  <2>7. ASSUME Accepted(mod), NEW d \in 1..(Len(stack') - 1) PROVE Waiting(stack[d])'
    <3>1. stack'[d] = stack[d] /\ Waiting(stack[d])
      BY <2>5, <2>7 DEF DefinedInv
    <3>. QED
      BY <1>1, <3>1 DEF Waiting
  <2>. QED
    BY <1>1, <2>4, <2>5, <2>6, <2>7 DEF DefinedInv, Accepted, CallsMatch
<1> QED
  BY <1>4, <1>5

LEMMA BranchKeepsDefined ==
    ASSUME DefinedInv, Branch
    PROVE  DefinedInv'
<1> DEFINE f  == MovedTo(Top, Target, 1, Top.regs, Top.owned)
           fn == mod.funcs[Top.fn]
<1>1. /\ status = "run" /\ Ins.op \in {"br", "br.cond"} /\ Fault = "none"
      /\ SetTop(f) /\ mod' = mod /\ status' = status
  BY DEF Branch, Runs, Executing
<1>2. ASSUME Accepted(mod) PROVE FrameDefined(f)
  <2>1. /\ FrameDefined(Top) /\ Top.fn \in DOMAIN mod.funcs
        /\ IsFunction(fn) /\ CheckCfg(fn) = {}
        /\ Top.blk \in OnSomePath(fn) /\ Top.blk \in Labels(fn)
        /\ Top.pc \in 1..Len(Code) /\ Len(Code) \in Nat
        /\ IsInstr(Ins)
        /\ IsTerminator(Ins) <=> Top.pc = Len(Code)
    BY <1>1, <1>2, Current
  <2>2. Top.pc = Len(Code)
    BY <1>1, <2>1 DEF IsTerminator, Terminators
  <2>3. Ins.labels = Successors(fn, Top.blk)
    BY <2>1, <2>2, BlockShape DEF Ins, Code
  <2>4. Target \in Range(Ins.labels)
    <3>1. /\ IsList(Ins.labels)
          /\ \/ Target = Ins.labels[1]
             \/ Ins.op = "br.cond" /\ Target = Ins.labels[2]
      BY <1>1, <2>1 DEF Target, IsInstr
    <3>2. DOMAIN Ins.labels = 1..Len(Ins.labels)
      BY <3>1, ListDomain
    <3>. QED
      BY <1>1, <2>1, <3>1, <3>2 DEF IsInstr, Range
  <2>5. Target \in OnSomePath(fn) /\ Target \in Labels(fn)
    BY <2>1, <2>3, <2>4, OnSomePathClosed DEF ClosedUnderEdges
  <2>6. 1 \in 1..Len(Instrs(fn, Target))
    BY <2>1, <2>5, BlockShape
  <2>7. DefinedBy(fn, Top.blk, {}) = DefinedBefore(fn, Top.blk, Top.pc - 1)
    <3>1. Dest(Ins) = {}
      BY <1>1, <2>1 DEF IsInstr, DefinesNothing, Terminators, Dest
    <3>2. DefinedBefore(fn, Top.blk, Top.pc)
             = DefinedBefore(fn, Top.blk, Top.pc - 1) \cup Dest(Instrs(fn, Top.blk)[Top.pc])
      BY <2>1, DefinedBeforeNext
    <3>. QED
      BY <2>2, <3>1, <3>2 DEF DefinedBy, Ins, Code
  <2>8. ASSUME NEW r, r \notin DOMAIN Top.regs PROVE Target \in MissingAt(fn, r)
    <3>1. r \notin DefinedBefore(fn, Top.blk, Top.pc - 1) /\ Top.blk \in MissingAt(fn, r)
      BY <2>1, <2>8 DEF FrameDefined
    <3>. QED
      BY <2>1, <2>3, <2>4, <2>7, <3>1, MissingClosed DEF ClosedAvoiding
  <2>9. \A r : r \notin DefinedBefore(fn, Target, 1 - 1)
    BY DEF DefinedBefore
  <2>10. f.fn = Top.fn /\ f.blk = Target /\ f.pc = 1 /\ f.regs = Top.regs
    BY DEF MovedTo
  <2> HIDE DEF f
  <2>. QED
    BY <2>1, <2>5, <2>6, <2>8, <2>9, <2>10 DEF FrameDefined
<1> HIDE DEF f
<1> QED
  BY <1>1, <1>2, TopReplaced
-----------------------------------------------------------------------------
LEMMA InitDefined == Init => DefinedInv
<1> SUFFICES ASSUME Init PROVE DefinedInv
  OBVIOUS
<1> DEFINE f == Frame("main", <<>>)
<1>1. mod \in Modules /\ status = "run" /\ stack = <<f>>
  BY DEF Init
<1>2. ASSUME Accepted(mod) PROVE FrameDefined(f)
  <2>1. "main" \in DOMAIN mod.funcs /\ mod.funcs["main"].params = <<>>
    BY <1>2 DEF Accepted
  <2>2. DOMAIN mod.funcs["main"].params \subseteq DOMAIN <<>>
    BY <2>1
  <2>. QED
    BY <1>1, <1>2, <2>1, <2>2, FreshFrame
<1> HIDE DEF f
<1>3. /\ IsList(stack) /\ Len(stack) = 1 /\ stack # <<>> /\ stack[1] = f
  BY <1>1 DEF IsList, Range
<1>4. 1..(1 - 1) = {} /\ 1..1 = {1}
  OBVIOUS
<1> QED
  BY <1>1, <1>2, <1>3, <1>4 DEF DefinedInv

LEMMA NextDefined == DefinedInv /\ [Next]_vars => DefinedInv'
<1> SUFFICES ASSUME DefinedInv, [Next]_vars PROVE DefinedInv'
  OBVIOUS
<1>1. CASE Raise
  BY <1>1, NoDefinednessFault, Ended DEF Raise, Executing, AccessFault, Fault
<1>2. CASE FallOff
  <2>1. status = "run" /\ Top.pc \notin DOMAIN Code /\ mod' = mod /\ status' = status
    BY <1>2 DEF FallOff
  <2>2. ~Accepted(mod)
    BY <2>1, Current
  <2>. QED
    BY <1>2, <2>1, <2>2, TopReplaced DEF FallOff
<1>3. CASE Alloca
  <2> DEFINE regs2 == Bind(Top.regs, Ins.dest, Mem(nextSlot, 0))
             owned2 == Top.owned \cup {nextSlot}
  <2>1. DOMAIN Top.regs \cup Dest(Ins) \subseteq DOMAIN regs2
    BY DEF Bind, Dest
  <2>2. /\ Executing /\ Ins.op \notin Terminators /\ mod' = mod /\ status' = status
        /\ SetTop(MovedTo(Top, Top.blk, Top.pc + 1, regs2, owned2))
    BY <1>3 DEF Alloca, NewSlot, Runs, Terminators
  <2> HIDE DEF regs2, owned2
  <2>. QED
    BY <2>1, <2>2, Moved
<1>4. CASE Load
  <2>1. Executing /\ Ins.op \notin Terminators /\ mod' = mod /\ status' = status
    BY <1>4 DEF Load, Runs, Terminators
  <2>. QED
    BY <1>4, <2>1, DefineMoves DEF Load
<1>5. CASE Store
  <2>1. /\ Executing /\ Ins.op \notin Terminators /\ Ins.op \in DefinesNothing
        /\ Step /\ mod' = mod /\ status' = status
    BY <1>5 DEF Store, Runs, Terminators, DefinesNothing, Prints
  <2>. QED
    BY <2>1, StepMoves
<1>6. CASE Gep
  <2>1. Executing /\ Ins.op \notin Terminators /\ mod' = mod /\ status' = status
    BY <1>6 DEF Gep, Runs, Terminators
  <2>. QED
    BY <1>6, <2>1, DefineMoves DEF Gep
<1>7. CASE CallFunction
  BY <1>7, CallKeepsDefined
<1>8. CASE Output
  <2>1. /\ Executing /\ Ins.op \notin Terminators /\ Ins.op \in DefinesNothing
        /\ Step /\ mod' = mod /\ status' = status
    BY <1>8 DEF Output, Runs, Terminators, DefinesNothing, Prints
  <2>. QED
    BY <2>1, StepMoves
<1>9. CASE Branch
  BY <1>9, BranchKeepsDefined
<1>10. CASE Trap
  BY <1>10, Ended DEF Trap
<1>11. CASE Compute
  <2>1. Executing /\ Ins.op \notin Terminators /\ mod' = mod /\ status' = status
    BY <1>11 DEF Compute, Runs, Terminators, Computes, Cmps, SignedCmps, UnsignedCmps,
              ConvOps, BinOps, DivOps, ShiftOps, BitOps
  <2>. QED
    BY <1>11, <2>1, DefineMoves DEF Compute
<1>12. CASE Return
  BY <1>12, ReturnKeepsDefined
<1>13. CASE UNCHANGED vars
  BY <1>13 DEF vars, DefinedInv, Accepted, CallsMatch, FrameDefined, Waiting
<1> QED
  BY <1>1, <1>2, <1>3, <1>4, <1>5, <1>6, <1>7, <1>8, <1>9, <1>10, <1>11, <1>12, <1>13
     DEF Next

(* What verifyFunction is for: in every run of an accepted module, whatever *)
(* it calls and however it branches, every register read is bound.          *)
THEOREM AcceptedIsDefined == Spec => []AcceptedRunsAreDefined
<1>1. DefinedInv => AcceptedRunsAreDefined
  <2> SUFFICES ASSUME DefinedInv, Accepted(mod) PROVE AcceptedRunsAreDefined
    BY DEF AcceptedRunsAreDefined
  <2>1. status \notin {"no register", "no block", "no function"}
    BY DEF DefinedInv
  <2>2. status = "run" => Top.pc \in DOMAIN Code
    BY Current
  <2>. QED
    BY <2>1, <2>2 DEF AcceptedRunsAreDefined
<1> QED
  BY <1>1, InitDefined, NextDefined, PTL DEF Spec
-----------------------------------------------------------------------------
(* Ownership of slots: ids grow, so a new slot belongs to nobody yet. *)
OwnInv ==
    /\ IsList(stack)
    /\ status = "run" <=> stack # <<>>
    /\ nextSlot \in Nat
    /\ OwnedBy(stack) \subseteq 0..(nextSlot - 1)
    /\ SlotsOwnedOnce

(* The frames keep what they own. *)
LEMMA OwnedKept ==
    ASSUME OwnInv, status = "run", NEW f, SetTop(f), f.owned = Top.owned,
           DOMAIN slots' = DOMAIN slots, nextSlot' = nextSlot, status' = status
    PROVE  OwnInv'
<1> DEFINE t == [stack EXCEPT ![Len(stack)] = f]
<1>0. IsList(stack) /\ stack # <<>>
  BY DEF OwnInv
<1>1. /\ IsList(t) /\ Len(t) = Len(stack) /\ t # <<>>
      /\ t[Len(stack)] = f /\ Len(stack) \in Nat \ {0}
      /\ \A d \in 1..(Len(stack) - 1) : t[d] = stack[d]
  <2>1. IsList(stack) /\ stack # <<>>
    BY <1>0
  <2>. QED
    BY ONLY <2>1, ReplaceTop, Zenon
<1>2. stack' = t
  BY DEF SetTop
<1> HIDE DEF t
<1>3. DOMAIN stack = 1..Len(stack) /\ DOMAIN t = DOMAIN stack
  BY <1>0, <1>1, ListDomain
<1>4. \A d \in DOMAIN stack : t[d].owned = stack[d].owned
  BY <1>1, <1>3 DEF Top
<1>5. OwnedBy(t) = OwnedBy(stack)
  BY <1>3, <1>4 DEF OwnedBy
<1> QED
  BY <1>0, <1>1, <1>2, <1>3, <1>4, <1>5 DEF OwnInv, SlotsOwnedOnce

(* Every call is left: all slots die. *)
LEMMA OwnedReleased ==
    ASSUME OwnInv, stack' = <<>>, status' # "run", nextSlot' = nextSlot,
           slots' = Without(slots, OwnedBy(stack))
    PROVE  OwnInv'
<1>1. IsList(<<>>) /\ DOMAIN <<>> = {}
  BY EmptySeq DEF IsList
<1>2. DOMAIN slots' = {}
  BY DEF Without, OwnInv, SlotsOwnedOnce
<1>3. OwnedBy(stack') = {}
  BY <1>1 DEF OwnedBy
<1> QED
  BY <1>1, <1>2, <1>3 DEF OwnInv, SlotsOwnedOnce

LEMMA AllocaKeepsOwned ==
    ASSUME OwnInv, Alloca
    PROVE  OwnInv'
<1> DEFINE f == MovedTo(Top, Top.blk, Top.pc + 1,
                        Bind(Top.regs, Ins.dest, Mem(nextSlot, 0)),
                        Top.owned \cup {nextSlot})
           t == [stack EXCEPT ![Len(stack)] = f]
<1>0. IsList(stack) /\ stack # <<>> /\ nextSlot \in Nat
  BY DEF OwnInv, Alloca, Runs, Executing
<1>1. f.owned = Top.owned \cup {nextSlot}
  BY DEF MovedTo
<1>2. stack' = t /\ nextSlot' = nextSlot + 1 /\ status' = "run" /\ status = "run"
  BY DEF Alloca, NewSlot, SetTop, Runs, Executing
<1>3. DOMAIN slots' = DOMAIN slots \cup {nextSlot}
  BY DEF Alloca, NewSlot, Bind
<1> HIDE DEF f
<1>4. /\ IsList(t) /\ Len(t) = Len(stack) /\ t # <<>>
      /\ t[Len(stack)] = f /\ Len(stack) \in Nat \ {0}
      /\ \A d \in 1..(Len(stack) - 1) : t[d] = stack[d]
  BY <1>0, ReplaceTop, Zenon
<1> HIDE DEF t
<1> DEFINE k == Len(stack)
<1>5. DOMAIN stack = 1..k /\ DOMAIN t = 1..k /\ k \in 1..k
  BY <1>0, <1>4, ListDomain
<1>6. /\ t[k].owned = stack[k].owned \cup {nextSlot}
      /\ \A d \in 1..k : d # k => t[d].owned = stack[d].owned
  <2>1. \A d \in 1..k : d # k => d \in 1..(k - 1)
    BY <1>4
  <2>. QED
    BY <1>1, <1>4, <2>1 DEF Top
<1> HIDE DEF k
<1>7. OwnedBy(t) = OwnedBy(stack) \cup {nextSlot}
  BY <1>5, <1>6 DEF OwnedBy
<1>8. nextSlot \notin OwnedBy(stack) /\ OwnedBy(t) \subseteq 0..((nextSlot + 1) - 1)
  BY <1>0, <1>7 DEF OwnInv
<1>9. \A d \in 1..k : nextSlot \notin stack[d].owned
  BY <1>5, <1>8 DEF OwnedBy
<1>10. ASSUME NEW c \in 1..k, NEW d \in 1..k, c # d
       PROVE  t[c].owned \cap t[d].owned = {}
  <2>1. stack[c].owned \cap stack[d].owned = {}
    BY <1>5, <1>10 DEF OwnInv, SlotsOwnedOnce
  <2>. QED
    BY <1>6, <1>9, <1>10, <2>1
<1>11. DOMAIN slots' = OwnedBy(t)
  BY <1>3, <1>7 DEF OwnInv, SlotsOwnedOnce
<1> QED
  BY <1>0, <1>2, <1>4, <1>5, <1>8, <1>10, <1>11 DEF OwnInv, SlotsOwnedOnce

LEMMA CallKeepsOwned ==
    ASSUME OwnInv, CallFunction
    PROVE  OwnInv'
<1> DEFINE f == Frame(Ins.callee, [i \in DOMAIN Ins.args |-> Arg(i)])
           t == Append(stack, f)
           k == Len(stack)
<1>0. IsList(stack)
  BY DEF OwnInv
<1>1. /\ f.owned = {} /\ stack' = t /\ slots' = slots /\ nextSlot' = nextSlot
      /\ status' = "run"
  BY DEF Frame, CallFunction, Runs, Executing
<1> HIDE DEF f
<1>2. /\ IsList(t) /\ Len(t) = k + 1 /\ t # <<>> /\ t[k + 1] = f
      /\ \A d \in 1..k : t[d] = stack[d]
      /\ k \in Nat
  BY <1>0, PushFrame
<1> HIDE DEF t
<1>3. DOMAIN stack = 1..k /\ DOMAIN t = 1..(k + 1)
  BY <1>0, <1>2, ListDomain
<1> HIDE DEF k
<1>4. DOMAIN t = DOMAIN stack \cup {k + 1} /\ k + 1 \notin DOMAIN stack
  BY <1>2, <1>3
<1>5. OwnedBy(t) = OwnedBy(stack)
  BY <1>1, <1>2, <1>3, <1>4 DEF OwnedBy
<1>6. ASSUME NEW c \in DOMAIN t, NEW d \in DOMAIN t, c # d
      PROVE  t[c].owned \cap t[d].owned = {}
  <2>1. CASE c = k + 1 \/ d = k + 1
    BY <1>1, <1>2, <2>1
  <2>2. CASE c # k + 1 /\ d # k + 1
    BY <1>2, <1>3, <1>4, <1>6, <2>2 DEF OwnInv, SlotsOwnedOnce
  <2>. QED
    BY <2>1, <2>2
<1> QED
  BY <1>1, <1>2, <1>5, <1>6 DEF OwnInv, SlotsOwnedOnce

LEMMA ReturnKeepsOwned ==
    ASSUME OwnInv, Return
    PROVE  OwnInv'
<1> DEFINE callers == SubSeq(stack, 1, Len(stack) - 1)
           caller  == callers[Len(callers)]
           k       == Len(stack)
<1>0. IsList(stack) /\ stack # <<>> /\ DOMAIN slots = OwnedBy(stack)
  BY DEF OwnInv, Return, Runs, Executing, SlotsOwnedOnce
<1>1. PICK regs :
        IF callers = <<>>
        THEN status' = "returned" /\ stack' = <<>>
        ELSE /\ stack' = [callers EXCEPT ![Len(callers)] = Advance(caller, regs)]
             /\ status' = status
  BY DEF Return
<1>2. slots' = Without(slots, Top.owned) /\ nextSlot' = nextSlot /\ status = "run"
  <2>1. OwnedBy(<<Top>>) = Top.owned
    BY DEF OwnedBy
  <2>. QED
    BY <2>1 DEF Return, Leave, Runs, Executing
<1>3. /\ IsList(callers) /\ Len(callers) = k - 1
      /\ \A d \in 1..(k - 1) : callers[d] = stack[d]
      /\ k \in Nat \ {0}
      /\ callers # <<>> <=> k > 1
  BY <1>0, PopFrame, Zenon
<1> HIDE DEF callers
<1>4. DOMAIN stack = 1..k /\ DOMAIN callers = 1..(k - 1)
  BY <1>0, <1>3, ListDomain
<1>5. /\ IsList(stack') /\ DOMAIN stack' = 1..(k - 1)
      /\ stack' # <<>> <=> callers # <<>>
      /\ \A d \in 1..(k - 1) : stack'[d].owned = stack[d].owned
  <2>1. CASE callers = <<>>
    BY <1>1, <1>3, <1>4, <2>1
  <2>2. CASE callers # <<>>
    <3> DEFINE f == Advance(caller, regs)
               t == [callers EXCEPT ![Len(callers)] = f]
    <3>1. f.owned = caller.owned
      BY DEF Advance, MovedTo
    <3> HIDE DEF f
    <3>2. IsList(callers) /\ callers # <<>>
      BY <1>3, <2>2
    <3>3. /\ IsList(t) /\ Len(t) = Len(callers) /\ t # <<>>
          /\ t[Len(callers)] = f
          /\ \A d \in 1..(Len(callers) - 1) : t[d] = callers[d]
      BY <3>2, ReplaceTop, Zenon
    <3>4. stack' = t
      BY <1>1, <2>2 DEF f
    <3> HIDE DEF t
    <3>5. DOMAIN t = 1..(k - 1) /\ k - 1 \in 1..(k - 1)
      BY <1>3, <2>2, <3>3, ListDomain
    <3>6. \A d \in 1..(k - 1) : t[d].owned = stack[d].owned
      BY <1>3, <3>1, <3>3, <3>5
    <3>. QED
      BY <2>2, <3>3, <3>4, <3>5, <3>6
  <2>. QED
    BY <2>1, <2>2
<1>6. Top.owned = stack[k].owned /\ k \in 1..k /\ 1..k = 1..(k - 1) \cup {k}
      /\ k \notin 1..(k - 1)
  BY <1>3 DEF Top
<1> HIDE DEF k
<1>7. ASSUME NEW d \in 1..(k - 1) PROVE stack[d].owned \cap Top.owned = {}
  <2>1. d \in DOMAIN stack /\ k \in DOMAIN stack /\ d # k
    BY <1>4, <1>6
  <2>2. stack[d].owned \cap stack[k].owned = {}
    BY <2>1 DEF OwnInv, SlotsOwnedOnce
  <2>. QED
    BY <1>6, <2>2
<1>8. OwnedBy(stack') = OwnedBy(stack) \ Top.owned
  <2>1. OwnedBy(stack') = UNION {stack[d].owned : d \in 1..(k - 1)}
    <3>1. {stack'[d].owned : d \in 1..(k - 1)} = {stack[d].owned : d \in 1..(k - 1)}
      BY <1>5
    <3>. QED
      BY <1>5, <3>1 DEF OwnedBy
  <2>2. ASSUME NEW x
        PROVE  x \in OwnedBy(stack)
                  <=> x \in Top.owned \/ \E d \in 1..(k - 1) : x \in stack[d].owned
    BY <1>4, <1>6 DEF OwnedBy
  <2>3. ASSUME NEW x
        PROVE  x \in OwnedBy(stack') <=> x \in OwnedBy(stack) /\ x \notin Top.owned
    BY <1>7, <2>1, <2>2
  <2>. QED
    BY <2>3
<1>9. DOMAIN slots' = OwnedBy(stack')
  BY <1>0, <1>2, <1>8 DEF Without
<1>10. \A c, d \in 1..(k - 1) : c # d => stack'[c].owned \cap stack'[d].owned = {}
  BY <1>4, <1>5, <1>6 DEF OwnInv, SlotsOwnedOnce
<1>11. status' = "run" <=> stack' # <<>>
  BY <1>1, <1>2, <1>5
<1>12. nextSlot' \in Nat /\ OwnedBy(stack') \subseteq 0..(nextSlot' - 1)
  BY <1>2, <1>8 DEF OwnInv
<1> QED
  BY <1>5, <1>9, <1>10, <1>11, <1>12 DEF OwnInv, SlotsOwnedOnce

(* finally in every call(): on a return, a trap or an error the slots of    *)
(* the calls left die, and no slot dies while a call that owns it is active. *)
THEOREM OwnedOnce == Spec => []SlotsOwnedOnce
<1>1. Init => OwnInv
  <2> SUFFICES ASSUME Init PROVE OwnInv
    OBVIOUS
  <2> DEFINE f == Frame("main", <<>>)
  <2>1. stack = <<f>> /\ slots = <<>> /\ nextSlot = 0 /\ status = "run" /\ f.owned = {}
    BY DEF Init, Frame
  <2> HIDE DEF f
  <2>2. IsList(stack) /\ stack # <<>> /\ DOMAIN stack = {1} /\ stack[1] = f
    BY <2>1 DEF IsList, Range
  <2>3. OwnedBy(stack) = {} /\ DOMAIN slots = {}
    BY <2>1, <2>2 DEF OwnedBy
  <2>. QED
    BY <2>1, <2>2, <2>3 DEF OwnInv, SlotsOwnedOnce
<1>2. OwnInv /\ [Next]_vars => OwnInv'
  <2> SUFFICES ASSUME OwnInv, [Next]_vars PROVE OwnInv'
    OBVIOUS
  <2>1. CASE Raise \/ Trap
    BY <2>1, OwnedReleased DEF Raise, Trap, Leave, Faults, AccessFault, Fault
  <2>2. CASE Alloca
    BY <2>2, AllocaKeepsOwned
  <2>3. CASE CallFunction
    BY <2>3, CallKeepsOwned
  <2>4. CASE Return
    BY <2>4, ReturnKeepsOwned
  <2>5. CASE FallOff
    BY <2>5, OwnedKept DEF FallOff, MovedTo
  <2>6. CASE Load
    BY <2>6, OwnedKept DEF Load, Define, Advance, MovedTo, Runs, Executing
  <2>7. CASE Store
    <3>1. DOMAIN slots' = DOMAIN slots
      BY <2>7 DEF Store
    <3>. QED
      BY <2>7, <3>1, OwnedKept DEF Store, Step, Advance, MovedTo, Runs, Executing
  <2>8. CASE Gep
    BY <2>8, OwnedKept DEF Gep, Define, Advance, MovedTo, Runs, Executing
  <2>9. CASE Output
    BY <2>9, OwnedKept DEF Output, Step, Advance, MovedTo, Runs, Executing
  <2>10. CASE Branch
    BY <2>10, OwnedKept DEF Branch, MovedTo, Runs, Executing
  <2>11. CASE Compute
    BY <2>11, OwnedKept DEF Compute, Define, Advance, MovedTo, Runs, Executing
  <2>12. CASE UNCHANGED vars
    BY <2>12 DEF vars, OwnInv, SlotsOwnedOnce, OwnedBy
  <2>. QED
    BY <2>1, <2>2, <2>3, <2>4, <2>5, <2>6, <2>7, <2>8, <2>9, <2>10, <2>11, <2>12 DEF Next
<1>3. OwnInv => SlotsOwnedOnce
  BY DEF OwnInv
<1> QED
  BY <1>1, <1>2, <1>3, PTL DEF Spec
-----------------------------------------------------------------------------
(***************************************************************************)
(* No run of a verified module whose pointers stay local accesses a slot   *)
(* that is gone: the pointers a call holds lead to slots that it or a call *)
(* below it on the stack owns, and memory holds no pointers at all.        *)
(***************************************************************************)

(* The slots of the first d calls. *)
Reach(s, d) == UNION {s[e].owned : e \in 1..d}

(* A register holds a number, or an address in a slot within reach; then it *)
(* is a pointer wherever the function names it.                             *)
HoldsWithin(m, fn, v, r, reach) ==
    \/ v.k = "num"
    \/ v.k = "mem" /\ v.slot \in reach /\ <<r, "ptr">> \in TypedRegs(m.funcs[fn])
FrameTame(m, f, reach) ==
    \A r \in DOMAIN f.regs : HoldsWithin(m, f.fn, f.regs[r], r, reach)
FramesTame(m, s) == \A d \in 1..Len(s) : FrameTame(m, s[d], Reach(s, d))

SlotsTame(s) == \A x \in DOMAIN s : \A i \in DOMAIN s[x] : s[x][i].k = "num"
GlobalsTame(g) == \A x \in DOMAIN g : g[x].k = "num"

Tame(m) == Accepted(m) /\ PointersStayLocal(m)
TameInv ==
    Tame(mod) => /\ FramesTame(mod, stack)
                 /\ SlotsTame(slots) /\ GlobalsTame(globs)
                 /\ status # "no slot"

(* What holds of a state that executes an instruction without a fault yet. *)
Ready ==
    /\ DefinedInv /\ SlotsOwnedOnce /\ TameInv /\ Tame(mod)
    /\ Executing /\ Uses(Ins) \subseteq DOMAIN Top.regs
-----------------------------------------------------------------------------
(* The slots all calls reach are the slots alive. *)
LEMMA ReachAll ==
    ASSUME NEW s, IsList(s)
    PROVE  Reach(s, Len(s)) = OwnedBy(s)
BY ListDomain DEF Reach, OwnedBy

LEMMA ReachKept ==
    ASSUME NEW s, NEW t, NEW d \in Nat, \A e \in 1..d : t[e].owned = s[e].owned
    PROVE  Reach(t, d) = Reach(s, d)
BY DEF Reach

LEMMA TameWithinMore ==
    ASSUME NEW m, NEW f, NEW a, NEW b, a \subseteq b, FrameTame(m, f, a)
    PROVE  FrameTame(m, f, b)
BY DEF FrameTame, HoldsWithin

(* Where a register is named: as a parameter, a result or an operand. *)
LEMMA TypedParam ==
    ASSUME NEW fn, NEW p \in Range(fn.params)
    PROVE  <<p.name, p.ty>> \in TypedRegs(fn)
BY DEF TypedRegs

LEMMA TypedResult ==
    ASSUME NEW fn, NEW ins \in Instructions(fn), NEW r \in Dest(ins)
    PROVE  <<r, ResultTy(ins)>> \in TypedRegs(fn)
<1> DEFINE S == {<<q, ResultTy(ins)>> : q \in Dest(ins)}
           All == {{<<q, ResultTy(n)>> : q \in Dest(n)} : n \in Instructions(fn)}
<1>1. <<r, ResultTy(ins)>> \in S /\ S \in All
  OBVIOUS
<1>2. UNION All \subseteq TypedRegs(fn)
  BY DEF TypedRegs
<1> HIDE DEF S, All
<1> QED
  BY <1>1, <1>2

LEMMA TypedOperand ==
    ASSUME NEW fn, NEW ins \in Instructions(fn), NEW a \in Range(ins.args), a.k = "reg"
    PROVE  <<a.name, a.ty>> \in TypedRegs(fn)
<1> DEFINE S == {<<b.name, b.ty>> : b \in {x \in Range(ins.args) : x.k = "reg"}}
           All == {{<<b.name, b.ty>> : b \in {x \in Range(n.args) : x.k = "reg"}} :
                      n \in Instructions(fn)}
<1>1. <<a.name, a.ty>> \in S /\ S \in All
  OBVIOUS
<1>2. UNION All \subseteq TypedRegs(fn)
  BY DEF TypedRegs
<1> HIDE DEF S, All
<1> QED
  BY <1>1, <1>2

LEMMA ReadyFacts ==
    ASSUME Ready
    PROVE  /\ IsList(stack) /\ stack # <<>> /\ Len(stack) \in Nat \ {0}
           /\ Top.fn \in DOMAIN mod.funcs
           /\ Ins \in Instructions(mod.funcs[Top.fn]) /\ IsInstr(Ins)
           /\ DOMAIN Ins.args = 1..Len(Ins.args) /\ Len(Ins.args) \in Nat
           /\ \A i \in DOMAIN Ins.args : IsOperand(Ins.args[i])
           /\ DOMAIN slots = Reach(stack, Len(stack))
           /\ FrameTame(mod, Top, DOMAIN slots)
           /\ SlotsTame(slots) /\ GlobalsTame(globs)
<1>1. DefinedInv /\ Accepted(mod) /\ status = "run"
  BY DEF Ready, Tame, Executing
<1>2. /\ IsList(stack) /\ stack # <<>> /\ Len(stack) \in Nat \ {0}
      /\ Top.fn \in DOMAIN mod.funcs
      /\ Ins \in Instructions(mod.funcs[Top.fn]) /\ IsInstr(Ins)
  BY <1>1, Current
<1>3. /\ DOMAIN Ins.args = 1..Len(Ins.args) /\ Len(Ins.args) \in Nat
      /\ \A i \in DOMAIN Ins.args : IsOperand(Ins.args[i])
  BY <1>2, ListDomain DEF IsInstr, Range
<1>4. DOMAIN slots = Reach(stack, Len(stack))
  BY <1>2, ReachAll DEF Ready, SlotsOwnedOnce
<1>5. FramesTame(mod, stack) /\ SlotsTame(slots) /\ GlobalsTame(globs)
  BY DEF Ready, TameInv
<1>6. FrameTame(mod, Top, DOMAIN slots)
  BY <1>2, <1>4, <1>5 DEF FramesTame, Top
<1> QED
  BY <1>2, <1>3, <1>4, <1>5, <1>6

(* An operand that is no pointer is a number; an address leads to a slot    *)
(* alive, and what holds one is a register named as a pointer.              *)
LEMMA OperandValue ==
    ASSUME Ready, NEW i \in DOMAIN Ins.args
    PROVE  /\ Ins.args[i].ty # "ptr" => Arg(i).k = "num"
           /\ \/ Arg(i).k = "num"
              \/ Arg(i).k = "mem" /\ Arg(i).slot \in DOMAIN slots
              \/ Arg(i).k = "global" /\ Ins.args[i].k = "global"
<1> DEFINE a == Ins.args[i]
           fn == mod.funcs[Top.fn]
<1>1. /\ IsOperand(a) /\ a \in Range(Ins.args) /\ FrameTame(mod, Top, DOMAIN slots)
      /\ Top.fn \in DOMAIN mod.funcs /\ Ins \in Instructions(fn)
  BY ReadyFacts DEF Range
<1>2. Arg(i) = Val(a)
  BY DEF Arg
<1>3. ASSUME a.k = "reg"
      PROVE  \/ Arg(i).k = "num"
             \/ Arg(i).k = "mem" /\ Arg(i).slot \in DOMAIN slots /\ a.ty = "ptr"
  <2>1. a.name \in DOMAIN Top.regs /\ Arg(i) = Top.regs[a.name]
    BY <1>1, <1>2, <1>3 DEF Ready, Uses, Val
  <2>2. HoldsWithin(mod, Top.fn, Arg(i), a.name, DOMAIN slots)
    BY <1>1, <2>1 DEF FrameTame
  <2>3. <<a.name, a.ty>> \in TypedRegs(fn)
    BY <1>1, <1>3, TypedOperand
  <2>4. \A x, y \in TypedRegs(fn) : x[1] = y[1] => x[2] = y[2]
    BY <1>1 DEF Ready, Tame, PointersStayLocal
  <2> HIDE DEF a, fn
  <2>5. <<a.name, "ptr">> \in TypedRegs(fn) => a.ty = "ptr"
    BY <2>3, <2>4
  <2>. QED
    BY <2>2, <2>5 DEF HoldsWithin, fn
<1>4. a.k = "int" => Arg(i).k = "num"
  BY <1>2 DEF Val, Num
<1>5. a.k = "global" => a.ty = "ptr" /\ Arg(i).k = "global"
  BY <1>1, <1>2 DEF IsOperand, Val, GlobalPtr
<1> QED
  BY <1>1, <1>3, <1>4, <1>5 DEF IsOperand

(* Where a pointer may be used, and what has another type. *)
LEMMA PointerUses ==
    ASSUME Ready, NEW i \in DOMAIN Ins.args, Ins.args[i].ty = "ptr"
    PROVE  \/ Ins.op = "load"
           \/ Ins.op = "store" /\ i = 2
           \/ Ins.op = "gep" /\ i = 1 /\ Ins.args[i].k = "reg"
           \/ Ins.op = "call" /\ Ins.args[i].k = "reg"
BY ReadyFacts DEF Ready, Tame, PointersStayLocal
-----------------------------------------------------------------------------
(* The top of the stack is replaced by a frame that may own more. *)
LEMMA TopStaysTame ==
    ASSUME IsList(stack), stack # <<>>, FramesTame(mod, stack), NEW f, NEW new,
           SetTop(f), f.owned = Top.owned \cup new,
           FrameTame(mod, f, Reach(stack, Len(stack)) \cup new)
    PROVE  FramesTame(mod, stack')
<1> DEFINE t == [stack EXCEPT ![Len(stack)] = f]
           k == Len(stack)
<1>1. /\ Len(t) = k /\ t[k] = f /\ k \in Nat \ {0}
      /\ \A d \in 1..(k - 1) : t[d] = stack[d]
  <2>1. IsList(stack) /\ stack # <<>>
    OBVIOUS
  <2>. QED
    BY ONLY <2>1, ReplaceTop, Zenon
<1>2. stack' = t
  BY DEF SetTop
<1> HIDE DEF t
<1>3. ASSUME NEW d \in 1..(k - 1) PROVE FrameTame(mod, t[d], Reach(t, d))
  <2>1. d \in Nat /\ d \in 1..k /\ \A e \in 1..d : t[e] = stack[e]
    BY <1>1
  <2>2. Reach(t, d) = Reach(stack, d)
    BY <2>1, ReachKept
  <2>. QED
    BY <1>1, <2>1, <2>2 DEF FramesTame
<1>4. Reach(stack, k) \cup new \subseteq Reach(t, k)
  <2>1. \A e \in 1..k : stack[e].owned \subseteq t[e].owned
    BY <1>1 DEF Top
  <2>2. new \subseteq t[k].owned /\ k \in 1..k
    BY <1>1
  <2> HIDE DEF k
  <2>. QED
    BY <2>1, <2>2 DEF Reach
<1>5. FrameTame(mod, t[k], Reach(t, k))
  BY <1>1, <1>4, TameWithinMore
<1> QED
  BY <1>1, <1>2, <1>3, <1>5 DEF FramesTame

(* A frame that owns what it owned and holds what it held. *)
LEMMA MoveStaysTame ==
    ASSUME IsList(stack), stack # <<>>, FramesTame(mod, stack), NEW f,
           SetTop(f), f.fn = Top.fn, f.owned = Top.owned, f.regs = Top.regs
    PROVE  FramesTame(mod, stack')
<1>1. Len(stack) \in 1..Len(stack)
  BY ListDomain, EmptySeq DEF IsList
<1>2. FrameTame(mod, Top, Reach(stack, Len(stack)))
  BY <1>1 DEF FramesTame, Top
<1>3. FrameTame(mod, f, Reach(stack, Len(stack)) \cup {})
  BY <1>2 DEF FrameTame
<1> QED
  BY <1>3, TopStaysTame

(* A register is bound to what it may hold. *)
LEMMA BoundStaysTame ==
    ASSUME NEW m, NEW f, NEW g, NEW reach, NEW r, NEW v, FrameTame(m, f, reach),
           g.fn = f.fn, g.regs = Bind(f.regs, r, v), HoldsWithin(m, f.fn, v, r, reach)
    PROVE  FrameTame(m, g, reach)
BY DEF FrameTame, Bind

LEMMA DefineStaysTame ==
    ASSUME Ready, NEW v, Define(v), HoldsWithin(mod, Top.fn, v, Ins.dest, DOMAIN slots)
    PROVE  FramesTame(mod, stack')
<1> DEFINE f == Advance(Top, Bind(Top.regs, Ins.dest, v))
<1>1. f.fn = Top.fn /\ f.owned = Top.owned /\ f.regs = Bind(Top.regs, Ins.dest, v)
  BY DEF Advance, MovedTo
<1>2. SetTop(f)
  BY DEF Define
<1> HIDE DEF f
<1>3. /\ IsList(stack) /\ stack # <<>> /\ FrameTame(mod, Top, DOMAIN slots)
      /\ DOMAIN slots = Reach(stack, Len(stack))
  BY ReadyFacts
<1>4. FrameTame(mod, f, Reach(stack, Len(stack)) \cup {})
  BY <1>1, <1>3, BoundStaysTame
<1>5. FramesTame(mod, stack)
  BY DEF Ready, TameInv
<1> QED
  BY <1>1, <1>2, <1>3, <1>4, <1>5, TopStaysTame
-----------------------------------------------------------------------------
(* A state that executes an instruction of a verified module is ready. *)
LEMMA ExecutingIsReady ==
    ASSUME DefinedInv, SlotsOwnedOnce, TameInv, Tame(mod), Executing
    PROVE  Ready
<1>1. Fault # "no register"
  BY NoDefinednessFault DEF Tame
<1> QED
  BY <1>1 DEF Ready, Fault

(* No access that is about to be made leads to a slot that is gone. *)
LEMMA SlotIsThere ==
    ASSUME Ready
    PROVE  Fault # "no slot"
<1>1. IsInstr(Ins) /\ DOMAIN Ins.args = 1..Len(Ins.args)
  BY ReadyFacts
<1>2. ASSUME NEW i \in DOMAIN Ins.args, NEW b PROVE AccessFault(Arg(i), b) # "no slot"
  BY <1>2, OperandValue DEF AccessFault
<1>3. CASE Ins.op = "load"
  <2>1. 1 \in DOMAIN Ins.args
    BY <1>1, <1>3 DEF IsInstr
  <2>. QED
    BY <1>2, <1>3, <2>1 DEF Fault
<1>4. CASE Ins.op = "store"
  <2>1. 2 \in DOMAIN Ins.args
    BY <1>1, <1>4 DEF IsInstr
  <2>. QED
    BY <1>2, <1>4, <2>1 DEF Fault
<1>5. CASE Ins.op = "gep"
  <2>1. 1 \in DOMAIN Ins.args
    BY <1>1, <1>5 DEF IsInstr
  <2>2. Arg(1).k = "num" \/ (Arg(1).k = "mem" /\ Arg(1).slot \in DOMAIN slots)
    BY <1>5, <2>1, OperandValue, PointerUses
  <2>. QED
    BY <1>5, <2>2 DEF Fault
<1>6. CASE Ins.op \notin {"load", "store", "gep"}
  BY <1>6 DEF Fault
<1> QED
  BY <1>3, <1>4, <1>5, <1>6

(* alloca and gep define a pointer, and say so. *)
LEMMA AddressNamed ==
    ASSUME Ready, Ins.op \in {"alloca", "gep"}
    PROVE  <<Ins.dest, "ptr">> \in TypedRegs(mod.funcs[Top.fn])
<1>1. IsInstr(Ins) /\ Ins \in Instructions(mod.funcs[Top.fn])
  BY ReadyFacts
<1>2. ResultTy(Ins) = "ptr"
  BY DEF ResultTy, ResultType, DefinesNothing, Terminators, Prints, Compares,
         IntCompares, FloatCompares
<1>3. Ins.dest \in Dest(Ins)
  BY <1>1 DEF IsInstr, Dest
<1> QED
  BY <1>1, <1>2, <1>3, TypedResult

(* What it takes for an access not to be a fault. *)
LEMMA AccessAllowed ==
    ASSUME Ready
    PROVE  /\ Ins.op = "load" /\ Fault = "none" => AccessFault(Arg(1), TRUE) = "none"
           /\ Ins.op = "gep" /\ Fault = "none" => Arg(1).slot \in DOMAIN slots
<1>1. Uses(Ins) \subseteq DOMAIN Top.regs
  BY DEF Ready
<1>2. "load" \notin Computes /\ "gep" \notin Computes
  BY DEF Computes, Cmps, SignedCmps, UnsignedCmps, ConvOps, BinOps, DivOps, ShiftOps, BitOps
<1>3. ASSUME Ins.op = "load", AccessFault(Arg(1), TRUE) # "none" PROVE Fault # "none"
  BY <1>1, <1>2, <1>3 DEF Fault
<1>4. ASSUME Ins.op = "gep", Arg(1).slot \notin DOMAIN slots PROVE Fault # "none"
  BY <1>1, <1>2, <1>4 DEF Fault
<1> QED
  BY <1>3, <1>4

LEMMA AllocaStaysTame ==
    ASSUME Ready, Alloca
    PROVE  FramesTame(mod, stack') /\ SlotsTame(slots')
<1> DEFINE v == Mem(NewSlot, 0)
           f == MovedTo(Top, Top.blk, Top.pc + 1, Bind(Top.regs, Ins.dest, v),
                        Top.owned \cup {NewSlot})
           reach == Reach(stack, Len(stack)) \cup {NewSlot}
<1>1. /\ f.fn = Top.fn /\ f.owned = Top.owned \cup {NewSlot}
      /\ f.regs = Bind(Top.regs, Ins.dest, v)
  BY DEF MovedTo
<1>2. SetTop(f) /\ Ins.op = "alloca"
  BY DEF Alloca, Runs
<1>3. PICK n : slots' = Bind(slots, NewSlot, [i \in 1..n |-> Num(0)])
  BY DEF Alloca
<1>4. /\ IsList(stack) /\ stack # <<>> /\ FrameTame(mod, Top, DOMAIN slots)
      /\ DOMAIN slots = Reach(stack, Len(stack)) /\ SlotsTame(slots)
  BY ReadyFacts
<1>5. FramesTame(mod, stack)
  BY DEF Ready, TameInv
<1> HIDE DEF f
<1>6. HoldsWithin(mod, Top.fn, v, Ins.dest, reach)
  BY <1>2, AddressNamed DEF HoldsWithin, Mem
<1>7. FrameTame(mod, Top, reach)
  BY <1>4, TameWithinMore
<1> HIDE DEF v, reach
<1>8. FrameTame(mod, f, reach)
  BY <1>1, <1>6, <1>7, BoundStaysTame
<1>9. FramesTame(mod, stack')
  BY <1>1, <1>2, <1>4, <1>5, <1>8, TopStaysTame DEF reach
<1>10. SlotsTame(slots')
  BY <1>3, <1>4 DEF SlotsTame, Bind, Num
<1> QED
  BY <1>9, <1>10

LEMMA LoadStaysTame ==
    ASSUME Ready, Load
    PROVE  FramesTame(mod, stack')
<1> DEFINE p == Arg(1)
           v == IF p.k = "global" THEN globs[p.g] ELSE slots[p.slot][p.n + 1]
<1>1. Define(v) /\ Ins.op = "load" /\ Fault = "none"
  BY DEF Load, Runs
<1>2. SlotsTame(slots) /\ GlobalsTame(globs)
  BY ReadyFacts
<1>3. AccessFault(p, TRUE) = "none"
  BY <1>1, AccessAllowed
<1>4. v.k = "num"
  BY <1>2, <1>3 DEF AccessFault, SlotsTame, GlobalsTame
<1> HIDE DEF v
<1>5. HoldsWithin(mod, Top.fn, v, Ins.dest, DOMAIN slots)
  BY <1>4 DEF HoldsWithin
<1> QED
  BY <1>1, <1>5, DefineStaysTame

LEMMA StoreStaysTame ==
    ASSUME Ready, Store
    PROVE  FramesTame(mod, stack') /\ SlotsTame(slots') /\ GlobalsTame(globs')
<1> DEFINE p == Arg(2)
           v == Arg(1)
<1>1. Step /\ Ins.op = "store" /\ Fault = "none"
  BY DEF Store, Runs
<1>2. SlotsTame(slots) /\ GlobalsTame(globs) /\ IsList(stack) /\ stack # <<>>
  BY ReadyFacts
<1>3. FramesTame(mod, stack)
  BY DEF Ready, TameInv
<1>4. v.k = "num"
  <2>1. 1 \in DOMAIN Ins.args
    BY <1>1, ReadyFacts DEF IsInstr
  <2>2. Ins.args[1].ty # "ptr"
    BY <1>1, <2>1, PointerUses
  <2>. QED
    BY <2>1, <2>2, OperandValue
<1>5. \/ globs' = Bind(globs, p.g, v) /\ slots' = slots
      \/ slots' = [slots EXCEPT ![p.slot][p.n + 1] = v] /\ globs' = globs
  BY DEF Store
<1> HIDE DEF p, v
<1>6. SlotsTame(slots') /\ GlobalsTame(globs')
  BY <1>2, <1>4, <1>5 DEF SlotsTame, GlobalsTame, Bind
<1>7. FramesTame(mod, stack')
  BY <1>1, <1>2, <1>3, MoveStaysTame DEF Step, Advance, MovedTo
<1> QED
  BY <1>6, <1>7

LEMMA GepStaysTame ==
    ASSUME Ready, Gep
    PROVE  FramesTame(mod, stack')
<1> DEFINE v == Mem(Arg(1).slot, Arg(2).n)
<1>1. Define(v) /\ Ins.op = "gep" /\ Fault = "none"
  BY DEF Gep, Runs
<1>2. Arg(1).slot \in DOMAIN slots
  BY <1>1, AccessAllowed
<1>3. HoldsWithin(mod, Top.fn, v, Ins.dest, DOMAIN slots)
  BY <1>1, <1>2, AddressNamed DEF HoldsWithin, Mem
<1> QED
  BY <1>1, <1>3, DefineStaysTame

LEMMA ComputeStaysTame ==
    ASSUME Ready, Compute
    PROVE  FramesTame(mod, stack')
<1>1. Define(Computed) /\ Ins.op \in Computes
  BY DEF Compute, Runs
<1>2. Computed.k = "num"
  BY <1>1 DEF Computed, Computes, Cmps, ConvOps, BinOps, Num, UnaryOps, SignedCmps
<1>3. HoldsWithin(mod, Top.fn, Computed, Ins.dest, DOMAIN slots)
  BY <1>2 DEF HoldsWithin
<1> QED
  BY <1>1, <1>3, DefineStaysTame

(* A callee is handed what its parameters are declared to take. *)
LEMMA ArgumentsTame ==
    ASSUME Ready, Ins.op = "call", Ins.callee \in DOMAIN mod.funcs
    PROVE  FrameTame(mod, Frame(Ins.callee, [i \in DOMAIN Ins.args |-> Arg(i)]), DOMAIN slots)
<1> DEFINE argv == [i \in DOMAIN Ins.args |-> Arg(i)]
           params == mod.funcs[Ins.callee].params
           f == Frame(Ins.callee, argv)
<1>1. f.fn = Ins.callee /\ f.regs = Bound(params, argv)
  BY DEF Frame
<1>2. ASSUME NEW p \in DOMAIN f.regs
      PROVE  HoldsWithin(mod, Ins.callee, f.regs[p], p, DOMAIN slots)
  <2> DEFINE i == CHOOSE j \in DOMAIN params \cap DOMAIN argv : params[j].name = p
  <2>1. \E j \in DOMAIN params \cap DOMAIN argv : params[j].name = p
    BY <1>1, <1>2 DEF Bound
  <2>2. i \in DOMAIN params /\ i \in DOMAIN argv /\ params[i].name = p
    BY <2>1
  <2>3. f.regs[p] = argv[i]
    BY <1>1, <1>2 DEF Bound
  <2> HIDE DEF i, f
  <2>4. i \in DOMAIN Ins.args /\ argv[i] = Arg(i)
    BY <2>2
  <2>5. \/ Arg(i).k = "num"
        \/ Arg(i).k = "mem" /\ Arg(i).slot \in DOMAIN slots /\ Ins.args[i].ty = "ptr"
    BY <2>4, OperandValue, PointerUses
  <2>6. Ins.args[i].ty = params[i].ty
    BY <2>2, <2>4, ReadyFacts DEF Ready, Tame, PointersStayLocal
  <2>7. <<p, params[i].ty>> \in TypedRegs(mod.funcs[Ins.callee])
    <3>1. params[i] \in Range(params)
      BY <2>2 DEF Range
    <3>. QED
      BY <2>2, <3>1, TypedParam
  <2>. QED
    BY <2>3, <2>4, <2>5, <2>6, <2>7 DEF HoldsWithin
<1> HIDE DEF f
<1>3. FrameTame(mod, f, DOMAIN slots)
  BY <1>1, <1>2 DEF FrameTame
<1> QED
  BY <1>3 DEF f

LEMMA CallStaysTame ==
    ASSUME Ready, CallFunction
    PROVE  FramesTame(mod, stack')
<1> DEFINE f == Frame(Ins.callee, [i \in DOMAIN Ins.args |-> Arg(i)])
           t == Append(stack, f)
           k == Len(stack)
<1>1. stack' = t /\ Ins.op = "call" /\ Ins.callee \in DOMAIN mod.funcs
  <2>1. Ins.op = "call" /\ stack' = t
    BY DEF CallFunction, Runs
  <2>2. Ins.callee \in DOMAIN mod.funcs
    BY <2>1, ReadyFacts DEF Ready, Tame, Accepted, CallsMatch
  <2>. QED
    BY <2>1, <2>2
<1>2. FrameTame(mod, f, DOMAIN slots)
  BY <1>1, ArgumentsTame
<1>3. IsList(stack) /\ DOMAIN slots = Reach(stack, k)
  BY ReadyFacts
<1> HIDE DEF f
<1>4. /\ Len(t) = k + 1 /\ t[k + 1] = f /\ k \in Nat
      /\ \A d \in 1..k : t[d] = stack[d]
  BY <1>3, PushFrame
<1> HIDE DEF t
<1>5. FramesTame(mod, stack)
  BY DEF Ready, TameInv
<1>6. ASSUME NEW d \in 0..k PROVE Reach(t, d) = Reach(stack, d)
  <2>1. d \in Nat /\ \A e \in 1..d : t[e].owned = stack[e].owned
    BY <1>4
  <2>. QED
    BY <2>1, ReachKept
<1>7. ASSUME NEW d \in 1..k PROVE FrameTame(mod, t[d], Reach(t, d))
  BY <1>4, <1>5, <1>6 DEF FramesTame
<1>8. Reach(t, k) \subseteq Reach(t, k + 1)
  <2>1. 1..k \subseteq 1..(k + 1)
    BY <1>4
  <2>. QED
    BY <2>1 DEF Reach
<1>9. FrameTame(mod, t[k + 1], Reach(t, k + 1))
  <2>1. k \in 0..k
    BY <1>4
  <2>2. DOMAIN slots \subseteq Reach(t, k + 1)
    BY <1>3, <1>6, <1>8, <2>1
  <2>. QED
    BY <1>2, <1>4, <2>2, TameWithinMore
<1> QED
  BY <1>1, <1>4, <1>7, <1>9 DEF FramesTame

(* The slots of the calls left are gone, and the values in the others stay. *)
LEMMA LeaveStaysTame ==
    ASSUME NEW s, NEW dead, SlotsTame(s)
    PROVE  SlotsTame(Without(s, dead))
BY DEF SlotsTame, Without

LEMMA ReturnStaysTame ==
    ASSUME Ready, Return
    PROVE  FramesTame(mod, stack')
<1> DEFINE v == IF Ins.args = <<>> THEN Num(0) ELSE Arg(1)
           callers == SubSeq(stack, 1, Len(stack) - 1)
           caller  == callers[Len(callers)]
           call    == Instrs(mod.funcs[caller.fn], caller.blk)[caller.pc]
           regs    == IF call.dest = NoName THEN caller.regs
                                            ELSE Bind(caller.regs, call.dest, v)
           f       == Advance(caller, regs)
           k       == Len(stack)
<1>1. /\ Ins.op = "ret"
      /\ IF callers = <<>> THEN stack' = <<>>
                           ELSE stack' = [callers EXCEPT ![Len(callers)] = f]
  BY DEF Return, Runs
<1>2. v.k = "num"
  <2>1. CASE Ins.args = <<>>
    BY <2>1 DEF Num
  <2>2. CASE Ins.args # <<>>
    <3>1. 1 \in DOMAIN Ins.args
      BY <2>2, ReadyFacts, EmptySeq DEF IsInstr, IsList
    <3>2. Ins.args[1].ty # "ptr"
      BY <1>1, <3>1, PointerUses
    <3>. QED
      BY <2>2, <3>1, <3>2, OperandValue
  <2>. QED
    BY <2>1, <2>2
<1> HIDE DEF v
<1>3. IsList(stack) /\ stack # <<>> /\ FramesTame(mod, stack)
  BY ReadyFacts DEF Ready, TameInv
<1>4. /\ IsList(callers) /\ Len(callers) = k - 1
      /\ \A d \in 1..(k - 1) : callers[d] = stack[d]
      /\ k \in Nat \ {0}
      /\ callers # <<>> <=> k > 1
  BY <1>3, PopFrame, Zenon
<1>5. CASE callers = <<>>
  BY <1>1, <1>5, EmptyRanges, EmptySeq DEF FramesTame
<1>6. CASE callers # <<>>
  <2> HIDE DEF callers
  <2>1. k - 1 \in 1..(k - 1) /\ k - 1 \in 1..k /\ caller = stack[k - 1]
    BY <1>4, <1>6
  <2>2. FrameTame(mod, caller, Reach(stack, k - 1))
    BY <1>3, <2>1 DEF FramesTame
  <2>3. f.fn = caller.fn /\ f.owned = caller.owned /\ f.regs = regs
    BY DEF Advance, MovedTo
  <2>4. FrameTame(mod, f, Reach(stack, k - 1))
    <3>1. HoldsWithin(mod, caller.fn, v, call.dest, Reach(stack, k - 1))
      BY <1>2 DEF HoldsWithin
    <3>2. CASE call.dest = NoName
      BY <2>2, <2>3, <3>2 DEF FrameTame
    <3>3. CASE call.dest # NoName
      <4>1. f.regs = Bind(caller.regs, call.dest, v)
        BY <2>3, <3>3
      <4> HIDE DEF f, call, caller
      <4>. QED
        BY <2>2, <2>3, <3>1, <4>1, BoundStaysTame
    <3>. QED
      BY <3>2, <3>3
  <2> HIDE DEF f
  <2> DEFINE t == [callers EXCEPT ![Len(callers)] = f]
  <2>5. IsList(callers) /\ callers # <<>>
    BY <1>4, <1>6
  <2>6. /\ Len(t) = k - 1 /\ t[k - 1] = f
        /\ \A d \in 1..(k - 2) : t[d] = stack[d]
    <3>1. /\ Len(t) = Len(callers) /\ t[Len(callers)] = f
          /\ \A d \in 1..(Len(callers) - 1) : t[d] = callers[d]
      BY <2>5, ReplaceTop, Zenon
    <3>. QED
      BY <1>4, <3>1
  <2>7. stack' = t
    BY <1>1, <1>6
  <2> HIDE DEF t
  <2>8. \A d \in 1..(k - 1) : t[d].owned = stack[d].owned
    BY <1>4, <2>1, <2>3, <2>6
  <2>9. ASSUME NEW d \in 1..(k - 1) PROVE FrameTame(mod, t[d], Reach(t, d))
    <3>1. d \in Nat /\ \A e \in 1..d : t[e].owned = stack[e].owned
      BY <1>4, <2>8
    <3>2. Reach(t, d) = Reach(stack, d)
      BY <3>1, ReachKept
    <3>3. CASE d = k - 1
      BY <2>4, <2>6, <3>2, <3>3
    <3>4. CASE d # k - 1
      BY <1>3, <1>4, <2>6, <3>2, <3>4 DEF FramesTame
    <3>. QED
      BY <3>3, <3>4
  <2>. QED
    BY <2>6, <2>7, <2>9 DEF FramesTame
<1> QED
  BY <1>5, <1>6
-----------------------------------------------------------------------------
LEMMA InitTame == Init => TameInv
<1> SUFFICES ASSUME Init, Tame(mod) PROVE TameInv
  BY DEF TameInv
<1> DEFINE f == Frame("main", <<>>)
<1>1. stack = <<f>> /\ slots = <<>> /\ status = "run"
  BY DEF Init
<1>2. GlobalsTame(globs)
  BY DEF Init, GlobalsTame, Num
<1>3. f.regs = Bound(<<>>, <<>>)
  BY DEF Frame, Tame, Accepted
<1>4. DOMAIN f.regs = {}
  BY <1>3 DEF Bound
<1> HIDE DEF f
<1>5. Len(stack) = 1 /\ stack[1] = f
  BY <1>1
<1>6. FramesTame(mod, stack)
  BY <1>4, <1>5 DEF FramesTame, FrameTame
<1>7. SlotsTame(slots)
  BY <1>1 DEF SlotsTame
<1> QED
  BY <1>1, <1>2, <1>6, <1>7 DEF TameInv

LEMMA NextTame == DefinedInv /\ SlotsOwnedOnce /\ TameInv /\ [Next]_vars => TameInv'
<1> SUFFICES ASSUME DefinedInv, SlotsOwnedOnce, TameInv, [Next]_vars, Tame(mod)'
             PROVE  TameInv'
  BY DEF TameInv
<1>1. mod' = mod
  BY DEF Next, vars, Raise, FallOff, Alloca, Load, Store, Gep, CallFunction, Output,
         Branch, Trap, Compute, Return
<1>2. Tame(mod)
  BY <1>1
<1>3. FramesTame(mod, stack) /\ SlotsTame(slots) /\ GlobalsTame(globs) /\ status # "no slot"
  BY <1>2 DEF TameInv
<1>4. Executing => Ready
  BY <1>2, ExecutingIsReady
<1>5. FramesTame(mod, <<>>)
  BY EmptySeq, EmptyRanges DEF FramesTame
<1>6. CASE Raise
  <2>1. Ready /\ status' = Fault /\ stack' = <<>> /\ globs' = globs
    BY <1>4, <1>6 DEF Raise
  <2>2. status' # "no slot"
    BY <2>1, SlotIsThere
  <2>3. SlotsTame(slots')
    BY <1>3, <1>6, LeaveStaysTame DEF Raise, Leave
  <2>. QED
    BY <1>1, <1>3, <1>5, <2>1, <2>2, <2>3 DEF TameInv
<1>7. CASE FallOff
  <2>1. Top.pc \in DOMAIN Code
    BY <1>2, <1>7, Current DEF FallOff, Tame
  <2>. QED
    BY <1>7, <2>1 DEF FallOff
<1>8. CASE Alloca
  <2>1. Ready
    BY <1>4, <1>8 DEF Alloca, Runs
  <2>2. FramesTame(mod, stack') /\ SlotsTame(slots')
    BY <1>8, <2>1, AllocaStaysTame
  <2>. QED
    BY <1>1, <1>3, <1>8, <2>2 DEF Alloca, TameInv
<1>9. CASE Load
  <2>1. Ready
    BY <1>4, <1>9 DEF Load, Runs
  <2>2. FramesTame(mod, stack')
    BY <1>9, <2>1, LoadStaysTame
  <2>. QED
    BY <1>1, <1>3, <1>9, <2>2 DEF Load, TameInv
<1>10. CASE Store
  <2>1. Ready
    BY <1>4, <1>10 DEF Store, Runs
  <2>2. FramesTame(mod, stack') /\ SlotsTame(slots') /\ GlobalsTame(globs')
    BY <1>10, <2>1, StoreStaysTame
  <2>. QED
    BY <1>1, <1>3, <1>10, <2>2 DEF Store, TameInv
<1>11. CASE Gep
  <2>1. Ready
    BY <1>4, <1>11 DEF Gep, Runs
  <2>2. FramesTame(mod, stack')
    BY <1>11, <2>1, GepStaysTame
  <2>. QED
    BY <1>1, <1>3, <1>11, <2>2 DEF Gep, TameInv
<1>12. CASE CallFunction
  <2>1. Ready
    BY <1>4, <1>12 DEF CallFunction, Runs
  <2>2. FramesTame(mod, stack')
    BY <1>12, <2>1, CallStaysTame
  <2>. QED
    BY <1>1, <1>3, <1>12, <2>2 DEF CallFunction, TameInv
<1>13. CASE Output \/ Branch
  <2>1. IsList(stack) /\ stack # <<>>
    BY <1>13 DEF DefinedInv, Output, Branch, Runs, Executing
  <2>2. FramesTame(mod, stack')
    BY <1>3, <1>13, <2>1, MoveStaysTame DEF Output, Branch, Step, Advance, MovedTo
  <2>. QED
    BY <1>1, <1>3, <1>13, <2>2 DEF Output, Branch, TameInv
<1>14. CASE Trap
  <2>1. SlotsTame(slots') /\ stack' = <<>> /\ globs' = globs /\ status' = "trapped"
    BY <1>3, <1>14, LeaveStaysTame DEF Trap, Leave
  <2>. QED
    BY <1>1, <1>3, <1>5, <2>1 DEF TameInv
<1>15. CASE Compute
  <2>1. Ready
    BY <1>4, <1>15 DEF Compute, Runs
  <2>2. FramesTame(mod, stack')
    BY <1>15, <2>1, ComputeStaysTame
  <2>. QED
    BY <1>1, <1>3, <1>15, <2>2 DEF Compute, TameInv
<1>16. CASE Return
  <2>1. Ready
    BY <1>4, <1>16 DEF Return, Runs
  <2>2. FramesTame(mod, stack')
    BY <1>16, <2>1, ReturnStaysTame
  <2>3. SlotsTame(slots') /\ globs' = globs
    BY <1>3, <1>16, LeaveStaysTame DEF Return, Leave
  <2>4. status' # "no slot"
    BY <1>3, <1>16 DEF Return
  <2>. QED
    BY <1>1, <1>3, <2>2, <2>3, <2>4 DEF TameInv
<1>17. CASE UNCHANGED vars
  BY <1>1, <1>3, <1>17 DEF vars, TameInv
<1> QED
  BY <1>6, <1>7, <1>8, <1>9, <1>10, <1>11, <1>12, <1>13, <1>14, <1>15, <1>16, <1>17 DEF Next

(* What finally and the direction pointers travel in are worth together: a  *)
(* verified module that keeps its pointers to itself and its callees never  *)
(* loads, stores or indexes through a slot that a return has released.      *)
THEOREM PointersNeverDangle == Spec => []NoDanglingAccess
<1>1. TameInv => NoDanglingAccess
  BY DEF TameInv, Tame, NoDanglingAccess
<1> QED
  BY <1>1, InitTame, NextTame, InitDefined, NextDefined, OwnedOnce, PTL DEF Spec
=============================================================================
