-------------------------- MODULE StackVM_proofs --------------------------
(***************************************************************************)
(* The operand stack of the VM under the code of the stack back end.  Each *)
(* instruction is given a depth: the code of a block lifts the stack from  *)
(* empty to empty, as lowerBlock pushes operands and pops results and its  *)
(* peephole drops pairs that cancel; EmitFunction lays the blocks end to   *)
(* end and patches their jumps; and the VM, with a stack per call, has in  *)
(* each call the depth of the instruction that call is at.                 *)
(*                                                                         *)
(* And its memory: the address of a call's frame is in a local of its own  *)
(* that the code never sets, and frames are stacked as calls are.          *)
(***************************************************************************)
EXTENDS StackVM, TypeRules, CFG_proofs

(* Lists are the sequences of elements of some set.                        *)
LEMMA SeqIsList ==
    ASSUME NEW T, NEW s \in Seq(T)
    PROVE  IsList(s) /\ Range(s) \subseteq T
<1>1. DOMAIN s = 1..Len(s) /\ Len(s) \in Nat /\ \A i \in 1..Len(s) : s[i] \in T
  OBVIOUS
<1>2. Range(s) \subseteq T
  BY <1>1 DEF Range
<1>3. s \in [1..Len(s) -> Range(s)]
  BY <1>1 DEF Range
<1> QED
  BY <1>1, <1>2, <1>3 DEF IsList

(* One list after another, one more element, and the first n.              *)
LEMMA ListJoin ==
    ASSUME NEW s, NEW t, IsList(s), IsList(t)
    PROVE  /\ IsList(s \o t)
           /\ Len(s \o t) = Len(s) + Len(t)
           /\ \A i \in 1..Len(s) : (s \o t)[i] = s[i]
           /\ \A i \in 1..Len(t) : (s \o t)[Len(s) + i] = t[i]
<1> DEFINE T == Range(s) \cup Range(t)
<1>1. s \in Seq(T) /\ t \in Seq(T)
  BY DEF IsList
<1> HIDE DEF T
<1>2. s \o t \in Seq(T)
  BY <1>1
<1>3. IsList(s \o t)
  BY <1>2, SeqIsList
<1>4. Len(s \o t) = Len(s) + Len(t)
  BY <1>1
<1>5. \A i \in 1..Len(s) : (s \o t)[i] = s[i]
  BY <1>1
<1>6. \A i \in 1..Len(t) : (s \o t)[Len(s) + i] = t[i]
  BY <1>1
<1> QED
  BY <1>3, <1>4, <1>5, <1>6

(* One more element.                                                       *)
LEMMA ListAppend ==
    ASSUME NEW s, NEW x, IsList(s)
    PROVE  IsList(Append(s, x)) /\ Len(Append(s, x)) = Len(s) + 1
<1> DEFINE T == Range(s) \cup {x}
<1>1. s \in Seq(T) /\ x \in T
  BY DEF IsList
<1> HIDE DEF T
<1>2. Append(s, x) \in Seq(T) /\ Len(Append(s, x)) = Len(s) + 1
  BY <1>1
<1> QED
  BY <1>2, SeqIsList

(* The first elements of a list.                                           *)
LEMMA ListSub ==
    ASSUME NEW s, NEW n \in Nat, IsList(s), n <= Len(s)
    PROVE  IsList(SubSeq(s, 1, n)) /\ Len(SubSeq(s, 1, n)) = n
<1>1. s \in Seq(Range(s)) /\ Len(s) \in Nat
  BY DEF IsList
<1>2. SubSeq(s, 1, n) \in Seq(Range(s)) /\ Len(SubSeq(s, 1, n)) = n
  BY <1>1
<1> QED
  BY <1>2, SeqIsList

(* A list of one.                                                          *)
LEMMA ListOne ==
    ASSUME NEW x
    PROVE  IsList(<<x>>) /\ Len(<<x>>) = 1 /\ <<x>>[1] = x
<1>1. <<x>> \in Seq({x})
  OBVIOUS
<1> QED
  BY <1>1, SeqIsList

(* The empty list.                                                         *)
LEMMA ListNone == IsList(<<>>) /\ Len(<<>>) = 0
<1>1. <<>> \in Seq({})
  OBVIOUS
<1> QED
  BY <1>1, SeqIsList
-----------------------------------------------------------------------------
(* In the code of function fn of module m, an instruction with a operands  *)
(* on the stack and b when control goes on to the next one, or that is as  *)
(* deep as a block starts where it does not; only registers the module     *)
(* writes are set.                                                         *)
TwoOps  == BinOps \cup Cmps \cup FloatBinaryOps \cup FloatCompares
OneOps  == ConvertOps \cup {"sitofp", "fptosi", "load"}
GetOps  == {"const", "local.get", "global.get"}
SetOps  == {"local.set", "global.set", "print.f64"}
StayOps == {"nop", "unreachable", "trap"}
Given(m, f) == IF m.funcs[f].ret = "void" THEN 0 ELSE 1
Written(m) == {ins.dest : ins \in UNION {Instructions(m.funcs[f]) : f \in DOMAIN m.funcs}}
Moves(m, cx, op, a, b) ==
    \/ op.op \in GetOps /\ b = a + 1
    \/ op.op \in TwoOps /\ 2 <= a /\ b = a - 1
    \/ op.op \in OneOps /\ 1 <= a /\ b = a
    \/ /\ op.op \in SetOps /\ 1 <= a /\ b = a - 1
       /\ op.op = "local.set" => op.text \in Written(m)
    \/ op.op = "store" /\ 2 <= a /\ b = a - 2
    \/ op.op \in StayOps /\ b = a
    \/ op.op = "call" /\ op.text = "print_i32" /\ 1 <= a /\ b = a - 1
    \/ /\ op.op = "call" /\ op.text # "print_i32" /\ op.text \in DOMAIN m.funcs
       /\ \E n \in Nat : n = Len(m.funcs[op.text].params) /\ n <= a /\ b = (a - n) + Given(m, op.text)
    \/ op.op = "jmp" /\ op.imm \in cx.to /\ a = 0 /\ b = 0
    \/ op.op = "jz" /\ op.imm \in cx.to /\ a = 1 /\ b = 0
    \/ op.op = "return" /\ (cx.ret # "void" => 1 <= a) /\ b = 0

(* h gives the depth of the stack before each instruction and at the end.  *)
Depths(m, cx, s, h) ==
    /\ IsList(s)
    /\ h \in [1..(Len(s) + 1) -> Nat]
    /\ \A i \in 1..Len(s) : Moves(m, cx, s[i], h[i], h[i + 1])
Lifts(m, cx, s, a, b) == \E h : Depths(m, cx, s, h) /\ h[1] = a /\ h[Len(s) + 1] = b

(* Depths join where one piece of code follows another.                    *)
Abut(s, h, g) == h[Len(s) + 1] = g[1]
Spliced(s, t, h, g, k) ==
    /\ \A i \in 1..(Len(s) + 1) : k[i] = h[i]
    /\ \A i \in 1..(Len(t) + 1) : k[Len(s) + i] = g[i]

(* Code joined to code has the depths of both.                             *)
LEMMA DepthsJoin ==
    ASSUME NEW m, NEW cx, NEW s, NEW t, NEW h, NEW g,
           Depths(m, cx, s, h), Depths(m, cx, t, g), Abut(s, h, g)
    PROVE  \E k : Depths(m, cx, s \o t, k) /\ Spliced(s, t, h, g, k)
<1>1. /\ Len(s) \in Nat /\ Len(t) \in Nat
      /\ h \in [1..(Len(s) + 1) -> Nat] /\ g \in [1..(Len(t) + 1) -> Nat]
  BY ListDomain DEF Depths
<1>2. PICK a \in Nat : a = Len(s)
  BY <1>1
<1>3. PICK b \in Nat : b = Len(t)
  BY <1>1
<1>4. PICK u : u = s \o t
  OBVIOUS
<1>5. /\ IsList(u) /\ Len(u) = a + b
      /\ \A i \in 1..a : u[i] = s[i]
      /\ \A i \in 1..b : u[a + i] = t[i]
  BY <1>2, <1>3, <1>4, ListJoin DEF Depths
<1> DEFINE k == [i \in 1..(a + b + 1) |-> IF i <= a THEN h[i] ELSE g[i - a]]
<1>6. \A i \in 1..a : h[i] \in Nat /\ i \in 1..(a + b + 1)
  BY <1>1, <1>2
<1>7. \A i \in 1..(a + b + 1) : i > a => i - a \in 1..(b + 1) /\ g[i - a] \in Nat
  BY <1>1, <1>3
<1>8. k \in [1..(Len(u) + 1) -> Nat]
  BY <1>5, <1>6, <1>7
<1>9. \A i \in 1..a : k[i] = h[i]
  BY <1>6
<1>10. \A i \in 1..(b + 1) : k[a + i] = g[i]
  <2>. TAKE i \in 1..(b + 1)
  <2>1. a + i \in 1..(a + b + 1) /\ ~(a + i <= a) /\ (a + i) - a = i
    OBVIOUS
  <2>. QED
    BY <2>1
<1>11. k[a + 1] = h[a + 1]
  BY <1>10, <1>2 DEF Abut
<1> HIDE DEF k
<1>12. \A i \in 1..(a + 1) : k[i] = h[i]
  BY <1>9, <1>11
<1>13. \A i \in 1..a : Moves(m, cx, s[i], h[i], h[i + 1])
  BY <1>2 DEF Depths
<1>14. \A i \in 1..b : Moves(m, cx, t[i], g[i], g[i + 1])
  BY <1>3 DEF Depths
<1>15. ASSUME NEW i \in 1..(a + b) PROVE Moves(m, cx, u[i], k[i], k[i + 1])
  <2>1. CASE i <= a
    <3>1. i \in 1..a /\ i \in 1..(a + 1) /\ i + 1 \in 1..(a + 1)
      BY <2>1
    <3>2. k[i] = h[i] /\ k[i + 1] = h[i + 1] /\ u[i] = s[i]
      BY <3>1, <1>12, <1>5
    <3>. QED
      BY <3>1, <3>2, <1>13
  <2>2. CASE i > a
    <3>1. PICK j \in 1..b : i = a + j
      <4>1. i - a \in 1..b /\ i = a + (i - a)
        BY <2>2
      <4>. QED
        BY <4>1
    <3>2. j \in 1..(b + 1) /\ j + 1 \in 1..(b + 1) /\ i + 1 = a + (j + 1)
      BY <3>1
    <3>3. k[i] = g[j] /\ k[i + 1] = g[j + 1] /\ u[i] = t[j]
      BY <3>1, <3>2, <1>10, <1>5
    <3>. QED
      BY <3>1, <3>3, <1>14
  <2>. QED
    BY <2>1, <2>2
<1>16. Depths(m, cx, u, k)
  BY <1>5, <1>8, <1>15 DEF Depths
<1>17. Spliced(s, t, h, g, k)
  BY <1>2, <1>3, <1>10, <1>12 DEF Spliced
<1> QED
  BY <1>4, <1>16, <1>17

(* What one piece of code leaves, the next may take.                       *)
LEMMA LiftsJoin ==
    ASSUME NEW m, NEW cx, NEW s, NEW t, NEW a, NEW b, NEW c,
           Lifts(m, cx, s, a, b), Lifts(m, cx, t, b, c)
    PROVE  Lifts(m, cx, s \o t, a, c)
<1>1. PICK h : Depths(m, cx, s, h) /\ h[1] = a /\ h[Len(s) + 1] = b
  BY DEF Lifts
<1>2. PICK g : Depths(m, cx, t, g) /\ g[1] = b /\ g[Len(t) + 1] = c
  BY DEF Lifts
<1>3. PICK k : Depths(m, cx, s \o t, k) /\ Spliced(s, t, h, g, k)
  BY <1>1, <1>2, DepthsJoin DEF Abut
<1>4. Len(s) \in Nat /\ Len(t) \in Nat /\ IsList(s) /\ IsList(t)
  BY <1>1, <1>2, ListDomain DEF Depths
<1>5. Len(s \o t) = Len(s) + Len(t)
  BY <1>4, ListJoin
<1>6. 1 \in 1..(Len(s) + 1) /\ Len(t) + 1 \in 1..(Len(t) + 1)
      /\ (Len(s) + Len(t)) + 1 = Len(s) + (Len(t) + 1)
  BY <1>4
<1>7. k[1] = a /\ k[Len(s \o t) + 1] = c
  BY <1>1, <1>2, <1>3, <1>5, <1>6 DEF Spliced
<1> QED
  BY <1>3, <1>7 DEF Lifts

(* A single instruction.                                                   *)
LEMMA LiftsOne ==
    ASSUME NEW m, NEW cx, NEW op, NEW a \in Nat, NEW b \in Nat, Moves(m, cx, op, a, b)
    PROVE  Lifts(m, cx, <<op>>, a, b)
<1> DEFINE h == [i \in 1..2 |-> IF i = 1 THEN a ELSE b]
<1>1. h \in [1..(1 + 1) -> Nat] /\ h[1] = a /\ h[1 + 1] = b
  OBVIOUS
<1> HIDE DEF h
<1>2. \A i \in 1..1 : i = 1
  OBVIOUS
<1>3. \A i \in 1..1 : Moves(m, cx, <<op>>[i], h[i], h[i + 1])
  BY <1>1, <1>2, ListOne
<1>4. Depths(m, cx, <<op>>, h)
  BY <1>1, <1>3, ListOne DEF Depths
<1> QED
  BY <1>1, <1>4, ListOne DEF Lifts

(* No instruction leaves the stack as it is.                               *)
LEMMA LiftsNone ==
    ASSUME NEW m, NEW cx, NEW a \in Nat
    PROVE  Lifts(m, cx, <<>>, a, a)
<1> DEFINE h == [i \in 1..1 |-> a]
<1>1. h \in [1..(0 + 1) -> Nat] /\ h[1] = a /\ h[0 + 1] = a
  OBVIOUS
<1> HIDE DEF h
<1>2. \A i \in 1..0 : Moves(m, cx, <<>>[i], h[i], h[i + 1])
  OBVIOUS
<1>3. Depths(m, cx, <<>>, h)
  BY <1>1, <1>2, ListNone DEF Depths
<1> QED
  BY <1>1, <1>3, ListNone DEF Lifts

(* Two instructions, one after the other.                                  *)
LEMMA LiftsTwo ==
    ASSUME NEW m, NEW cx, NEW x, NEW y, NEW a \in Nat, NEW b \in Nat, NEW c \in Nat,
           Moves(m, cx, x, a, b), Moves(m, cx, y, b, c)
    PROVE  Lifts(m, cx, <<x, y>>, a, c)
<1> DEFINE h == [i \in 1..3 |-> IF i = 1 THEN a ELSE IF i = 2 THEN b ELSE c]
<1>1. h \in [1..(2 + 1) -> Nat] /\ h[1] = a /\ h[1 + 1] = b /\ h[2 + 1] = c /\ h[2] = b
  OBVIOUS
<1> HIDE DEF h
<1>2. <<x, y>> \in Seq({x, y}) /\ Len(<<x, y>>) = 2 /\ <<x, y>>[1] = x /\ <<x, y>>[2] = y
  OBVIOUS
<1>3. IsList(<<x, y>>)
  BY <1>2, SeqIsList
<1>4. \A i \in 1..2 : i = 1 \/ i = 2
  OBVIOUS
<1>5. \A i \in 1..2 : Moves(m, cx, <<x, y>>[i], h[i], h[i + 1])
  BY <1>1, <1>2, <1>4
<1>6. Depths(m, cx, <<x, y>>, h)
  BY <1>1, <1>2, <1>3, <1>5 DEF Depths
<1> QED
  BY <1>1, <1>2, <1>6 DEF Lifts

(* Three of them.                                                          *)
LEMMA LiftsThree ==
    ASSUME NEW m, NEW cx, NEW x, NEW y, NEW z, NEW a \in Nat, NEW b \in Nat, NEW c \in Nat, NEW d \in Nat,
           Moves(m, cx, x, a, b), Moves(m, cx, y, b, c), Moves(m, cx, z, c, d)
    PROVE  Lifts(m, cx, <<x, y, z>>, a, d)
<1> DEFINE h == [i \in 1..4 |-> IF i = 1 THEN a ELSE IF i = 2 THEN b ELSE IF i = 3 THEN c ELSE d]
<1>1. h \in [1..(3 + 1) -> Nat] /\ h[1] = a /\ h[1 + 1] = b /\ h[2 + 1] = c /\ h[3 + 1] = d /\ h[2] = b /\ h[3] = c
  OBVIOUS
<1> HIDE DEF h
<1>2. /\ <<x, y, z>> \in Seq({x, y, z}) /\ Len(<<x, y, z>>) = 3
      /\ <<x, y, z>>[1] = x /\ <<x, y, z>>[2] = y /\ <<x, y, z>>[3] = z
  OBVIOUS
<1>3. IsList(<<x, y, z>>)
  BY <1>2, SeqIsList
<1>4. \A i \in 1..3 : i = 1 \/ i = 2 \/ i = 3
  OBVIOUS
<1>5. \A i \in 1..3 : Moves(m, cx, <<x, y, z>>[i], h[i], h[i + 1])
  BY <1>1, <1>2, <1>4
<1>6. Depths(m, cx, <<x, y, z>>, h)
  BY <1>1, <1>2, <1>3, <1>5 DEF Depths
<1> QED
  BY <1>1, <1>2, <1>6 DEF Lifts

(* Operands are pushed one after another.                                  *)
Operands(s) == IsList(s) /\ \A i \in 1..Len(s) : s[i].k \in {"reg", "int", "global"}

(* An operand pushed (pushValue) is one value more on the stack.           *)
LEMMA PushValueLifts ==
    ASSUME NEW m, NEW cx, NEW v, NEW a \in Nat, v.k \in {"reg", "int", "global"}
    PROVE  Moves(m, cx, PushValue(v), a, a + 1)
<1>1. PushValue(v).op \in {"const", "local.get", "global.get"}
  BY DEF PushValue, Const, WithText, StackOp
<1> QED
  BY <1>1 DEF Moves, GetOps

(* Operands pushed one after another are as many values more.              *)
LEMMA PushAllLifts ==
    ASSUME NEW m, NEW cx, NEW s, Operands(s), NEW a \in Nat
    PROVE  /\ Lifts(m, cx, PushAll(s), a, a + Len(s))
           /\ Len(PushAll(s)) = Len(s)
           /\ \A i \in 1..Len(s) : PushAll(s)[i] = PushValue(s[i])
<1>1. PICK n \in Nat : n = Len(s) /\ DOMAIN s = 1..n
  BY ListDomain DEF Operands
<1> DEFINE p == [i \in 1..n |-> PushValue(s[i])]
           h == [i \in 1..(n + 1) |-> a + (i - 1)]
<1>2. PushAll(s) = p
  BY <1>1 DEF PushAll
<1>3. Len(p) = n /\ p \in Seq({PushValue(s[i]) : i \in 1..n}) /\ \A i \in 1..n : p[i] = PushValue(s[i])
  BY <1>1
<1>4. h \in [1..(n + 1) -> Nat] /\ h[1] = a /\ h[n + 1] = a + n
  <2>1. \A i \in 1..(n + 1) : a + (i - 1) \in Nat
    OBVIOUS
  <2>2. 1 \in 1..(n + 1) /\ n + 1 \in 1..(n + 1) /\ a + (1 - 1) = a /\ a + ((n + 1) - 1) = a + n
    OBVIOUS
  <2>. QED
    BY <2>1, <2>2
<1>5. \A i \in 1..n : h[i] \in Nat /\ h[i + 1] = h[i] + 1
  OBVIOUS
<1> HIDE DEF p, h
<1>6. IsList(p)
  BY <1>3, SeqIsList
<1>7. \A i \in 1..n : Moves(m, cx, p[i], h[i], h[i + 1])
  <2>. TAKE i \in 1..n
  <2>1. s[i].k \in {"reg", "int", "global"}
    BY <1>1 DEF Operands
  <2>2. h[i] \in Nat /\ h[i + 1] = h[i] + 1 /\ p[i] = PushValue(s[i])
    BY <1>3, <1>5
  <2>. QED
    BY <2>1, <2>2, PushValueLifts
<1>8. Depths(m, cx, p, h)
  BY <1>3, <1>4, <1>6, <1>7 DEF Depths
<1>9. Lifts(m, cx, p, a, a + n)
  BY <1>3, <1>4, <1>8 DEF Lifts
<1> QED
  BY <1>1, <1>2, <1>3, <1>9

(* What an operation leaves on the stack is taken off by the set of its    *)
(* register.                                                               *)
LEMMA ParkLifts ==
    ASSUME NEW m, NEW cx, NEW ins, ins.dest \in Written(m)
    PROVE  Lifts(m, cx, Park(ins), IF ins.dest = NoName THEN 0 ELSE 1, 0)
<1>1. CASE ins.dest = NoName
  BY <1>1, LiftsNone DEF Park
<1>2. CASE ins.dest # NoName
  <2> DEFINE op == WithText("local.set", ins.dest)
  <2>1. op.op = "local.set" /\ op.text \in Written(m)
    BY DEF WithText, StackOp
  <2> HIDE DEF op
  <2>2. Moves(m, cx, op, 1, 0)
    BY <2>1 DEF Moves, SetOps
  <2>3. Lifts(m, cx, <<op>>, 1, 0)
    BY <2>2, LiftsOne
  <2>4. Park(ins) = <<op>>
    BY <1>2 DEF Park, op
  <2>. QED
    BY <1>2, <2>3, <2>4
<1> QED
  BY <1>1, <1>2

(* An instruction the lowering is given: what checkTypes leaves, with no   *)
(* slot to allocate any more.                                              *)
Lowerable(m, cx, ins) ==
    /\ Operands(ins.args) /\ ins.dest \in Written(m)
    /\ \/ /\ ins.op \in IntBinaryOps \cup FloatBinaryOps \cup Compares \cup {"gep"}
          /\ Len(ins.args) = 2 /\ ins.dest # NoName
       \/ ins.op \in Conversions \cup {"neg", "not", "load"} /\ Len(ins.args) = 1 /\ ins.dest # NoName
       \/ ins.op = "store" /\ Len(ins.args) = 2 /\ ins.dest = NoName
       \/ ins.op \in Prints /\ Len(ins.args) = 1 /\ ins.dest = NoName
       \/ ins.op = "trap" /\ Len(ins.args) = 0 /\ ins.dest = NoName
       \/ /\ ins.op = "call" /\ ins.callee # "print_i32" /\ ins.callee \in DOMAIN m.funcs
          /\ Len(ins.args) = Len(m.funcs[ins.callee].params)
          /\ ins.dest = NoName <=> m.funcs[ins.callee].ret = "void"
       \/ ins.op = "ret" /\ (cx.ret # "void" => 1 <= Len(ins.args)) /\ ins.dest = NoName

Left(ins) == IF ins.dest = NoName THEN 0 ELSE 1

(* An operation of the kinds that are not pushed as operands and opcode.   *)
LEMMA LowerMemory ==
    ASSUME NEW m, NEW cx, NEW ins, Lowerable(m, cx, ins)
    PROVE  /\ ins.op = "load"  => Lifts(m, cx, LowerLoad(ins), 0, 1)
           /\ ins.op = "store" => Lifts(m, cx, LowerStore(ins), 0, 0)
<1>1. \A i \in 1..Len(ins.args) : ins.args[i].k \in {"reg", "int", "global"}
  BY DEF Lowerable, Operands
<1>2. ASSUME ins.op = "load" PROVE Lifts(m, cx, LowerLoad(ins), 0, 1)
  <2>1. Len(ins.args) = 1
    BY <1>2 DEF Lowerable, IntBinaryOps, FloatBinaryOps, Compares, IntCompares, FloatCompares, Prints
  <2>2. ins.args[1].k \in {"reg", "int", "global"}
    BY <1>1, <2>1
  <2> DEFINE p == PushValue(ins.args[1])
             g == WithText("global.get", ins.args[1].name)
             l == Simple("load", Prefix(ins.ty))
  <2>3. Moves(m, cx, p, 0, 1)
    BY <2>2, PushValueLifts
  <2>4. g.op = "global.get" /\ l.op = "load"
    BY DEF WithText, StackOp, Simple
  <2>5. LowerLoad(ins) = IF ins.args[1].k = "global" THEN <<g>> ELSE <<p, l>>
    BY DEF LowerLoad
  <2> HIDE DEF p, g, l
  <2>6. Moves(m, cx, g, 0, 1) /\ Moves(m, cx, l, 1, 1)
    BY <2>4 DEF Moves, GetOps, OneOps
  <2>7. Lifts(m, cx, <<g>>, 0, 1)
    BY <2>6, LiftsOne
  <2>8. Lifts(m, cx, <<p, l>>, 0, 1)
    BY <2>3, <2>6, LiftsTwo
  <2>. QED
    BY <2>5, <2>7, <2>8
<1>3. ASSUME ins.op = "store" PROVE Lifts(m, cx, LowerStore(ins), 0, 0)
  <2>1. Len(ins.args) = 2
    BY <1>3 DEF Lowerable, IntBinaryOps, FloatBinaryOps, Compares, IntCompares, FloatCompares, Prints,
                Conversions, IntConversions
  <2>2. ins.args[1].k \in {"reg", "int", "global"} /\ ins.args[2].k \in {"reg", "int", "global"}
    BY <1>1, <2>1
  <2> DEFINE p == PushValue(ins.args[1])
             q == PushValue(ins.args[2])
             g == WithText("global.set", ins.args[2].name)
             l == Simple("store", Prefix(ins.ty))
  <2>3. Moves(m, cx, p, 0, 0 + 1) /\ Moves(m, cx, q, 0, 0 + 1) /\ Moves(m, cx, p, 1, 1 + 1)
    BY <2>2, PushValueLifts
  <2>4. g.op = "global.set" /\ l.op = "store"
    BY DEF WithText, StackOp, Simple
  <2>5. LowerStore(ins) = IF ins.args[2].k = "global" THEN <<p, g>> ELSE <<q, p, l>>
    BY DEF LowerStore
  <2> HIDE DEF p, q, g, l
  <2>6. Moves(m, cx, g, 1, 0) /\ Moves(m, cx, l, 2, 0)
    BY <2>4 DEF Moves, SetOps
  <2>7. Lifts(m, cx, <<p, g>>, 0, 0)
    BY <2>3, <2>6, LiftsTwo
  <2>8. Lifts(m, cx, <<q, p, l>>, 0, 0)
    BY <2>3, <2>6, LiftsThree
  <2>. QED
    BY <2>5, <2>7, <2>8
<1> QED
  BY <1>2, <1>3

(* The opcode of an instruction that is neither a memory access nor a      *)
(* negation takes what its operands put there and leaves its result.       *)
LEMMA LowerOthers ==
    ASSUME NEW m, NEW cx, NEW ins, Lowerable(m, cx, ins),
           ins.op \notin {"load", "store", "gep", "neg", "not"}
    PROVE  Moves(m, cx, OpcodeFor(ins), Len(ins.args), Left(ins))
<1>0. Len(ins.args) \in Nat
  BY ListDomain DEF Lowerable, Operands
<1>1. CASE ins.op \in IntBinaryOps \cup FloatBinaryOps \cup Compares
  <2>1. Len(ins.args) = 2 /\ ins.dest # NoName
    BY <1>1 DEF Lowerable, IntBinaryOps, FloatBinaryOps, Compares, IntCompares, FloatCompares, Prints,
                Conversions, IntConversions
  <2>2. ins.op \notin {"ret", "call", "print.i32", "trap", "sext", "zext", "trunc"}
    BY <1>1 DEF IntBinaryOps, FloatBinaryOps, Compares, IntCompares, FloatCompares
  <2>3. OpcodeFor(ins) = Simple(ins.op, Prefix(ins.ty))
    BY <2>2, Zenon DEF OpcodeFor
  <2>4. OpcodeFor(ins).op = ins.op
    BY <2>3 DEF Simple, StackOp
  <2>5. OpcodeFor(ins).op \in TwoOps
    BY <1>1, <2>4 DEF TwoOps, BinOps, DivOps, ShiftOps, BitOps, Cmps, SignedCmps, UnsignedCmps,
           IntBinaryOps, Compares, IntCompares
  <2>6. Left(ins) = 1
    BY <2>1 DEF Left
  <2>. QED
    BY <2>1, <2>5, <2>6 DEF Moves
<1>2. CASE ins.op \in Conversions
  <2>1. Len(ins.args) = 1 /\ ins.dest # NoName
    BY <1>2 DEF Lowerable, IntBinaryOps, FloatBinaryOps, Compares, IntCompares, FloatCompares, Prints,
                Conversions, IntConversions
  <2>2. OpcodeFor(ins).op \in OneOps \/ OpcodeFor(ins).op = "nop"
    <3>1. CASE ins.op = "sext"
      BY <3>1 DEF OpcodeFor, Simple, StackOp, OneOps, ConvertOps
    <3>2. CASE ins.op = "zext"
      BY <3>2 DEF OpcodeFor, Simple, StackOp, OneOps, ConvertOps
    <3>3. CASE ins.op = "trunc"
      BY <3>3 DEF OpcodeFor, Simple, StackOp, OneOps, ConvertOps
    <3>4. CASE ins.op \in {"sitofp", "fptosi"}
      <4>1. ins.op \notin {"ret", "call", "print.i32", "trap", "sext", "zext", "trunc"}
        BY <3>4
      <4>2. OpcodeFor(ins) = Simple(ins.op, Prefix(ins.ty))
        BY <4>1, Zenon DEF OpcodeFor
      <4>. QED
        BY <3>4, <4>2 DEF Simple, StackOp, OneOps
    <3>. QED
      BY <1>2, <3>1, <3>2, <3>3, <3>4 DEF Conversions, IntConversions
  <2>3. Left(ins) = 1
    BY <2>1 DEF Left
  <2>. QED
    BY <2>1, <2>2, <2>3 DEF Moves, StayOps
<1>3. CASE ins.op \in Prints
  <2>1. Len(ins.args) = 1 /\ ins.dest = NoName
    BY <1>3 DEF Lowerable, IntBinaryOps, FloatBinaryOps, Compares, IntCompares, FloatCompares, Prints,
                Conversions, IntConversions
  <2>2. Left(ins) = 0
    BY <2>1 DEF Left
  <2>3. CASE ins.op = "print.i32"
    <3>1. OpcodeFor(ins).op = "call" /\ OpcodeFor(ins).text = "print_i32"
      BY <2>3 DEF OpcodeFor, WithText, StackOp
    <3>. QED
      BY <2>1, <2>2, <3>1 DEF Moves
  <2>4. CASE ins.op = "print.f64"
    <3>1. ins.op \notin {"ret", "call", "print.i32", "trap", "sext", "zext", "trunc"}
      BY <2>4
    <3>2. OpcodeFor(ins) = Simple(ins.op, Prefix(ins.ty))
      BY <3>1, Zenon DEF OpcodeFor
    <3>3. OpcodeFor(ins).op = "print.f64"
      BY <2>4, <3>2 DEF Simple, StackOp
    <3>. QED
      BY <2>1, <2>2, <3>3 DEF Moves, SetOps
  <2>. QED
    BY <1>3, <2>3, <2>4 DEF Prints
<1>4. CASE ins.op = "trap"
  <2>1. Len(ins.args) = 0 /\ ins.dest = NoName
    BY <1>4 DEF Lowerable, IntBinaryOps, FloatBinaryOps, Compares, IntCompares, FloatCompares, Prints,
                Conversions, IntConversions
  <2>2. OpcodeFor(ins).op = "unreachable" /\ Left(ins) = 0
    BY <1>4, <2>1 DEF OpcodeFor, Unreachable, Simple, StackOp, Left
  <2>. QED
    BY <2>1, <2>2 DEF Moves, StayOps
<1>5. CASE ins.op = "call"
  <2>1. /\ ins.callee # "print_i32" /\ ins.callee \in DOMAIN m.funcs
        /\ Len(ins.args) = Len(m.funcs[ins.callee].params)
        /\ ins.dest = NoName <=> m.funcs[ins.callee].ret = "void"
    BY <1>5 DEF Lowerable, IntBinaryOps, FloatBinaryOps, Compares, IntCompares, FloatCompares, Prints,
                Conversions, IntConversions
  <2>2. OpcodeFor(ins).op = "call" /\ OpcodeFor(ins).text = ins.callee
    BY <1>5 DEF OpcodeFor, WithText, StackOp
  <2>3. Left(ins) = Given(m, ins.callee)
    BY <2>1 DEF Left, Given
  <2>4. PICK n \in Nat : n = Len(ins.args)
    BY <1>0
  <2>5. Left(ins) \in {0, 1}
    BY DEF Left
  <2>6. n <= n /\ Left(ins) = (n - n) + Left(ins)
    BY <2>5
  <2>. QED
    BY <2>1, <2>2, <2>3, <2>4, <2>6 DEF Moves
<1>6. CASE ins.op = "ret"
  <2>1. (cx.ret # "void" => 1 <= Len(ins.args)) /\ ins.dest = NoName
    BY <1>6 DEF Lowerable, IntBinaryOps, FloatBinaryOps, Compares, IntCompares, FloatCompares, Prints,
                Conversions, IntConversions
  <2>2. OpcodeFor(ins).op = "return" /\ Left(ins) = 0
    BY <1>6, <2>1 DEF OpcodeFor, Simple, StackOp, Left
  <2>. QED
    BY <2>1, <2>2 DEF Moves
<1> QED
  BY <1>1, <1>2, <1>3, <1>4, <1>5, <1>6 DEF Lowerable

(* Every instruction leaves the stack as it was: what it pushes, it pops.  *)
LEMMA LowerLifts ==
    ASSUME NEW m, NEW cx, NEW ins, Lowerable(m, cx, ins)
    PROVE  Lifts(m, cx, LowerInstruction(ins), 0, 0)
<1>0. Operands(ins.args) /\ Len(ins.args) \in Nat
  BY ListDomain DEF Lowerable, Operands
<1>a. ins.op # "alloca"
  BY DEF Lowerable, IntBinaryOps, FloatBinaryOps, Compares, IntCompares, FloatCompares, Prints,
                Conversions, IntConversions
<1>p. Lifts(m, cx, Park(ins), Left(ins), 0)
  BY ParkLifts DEF Left, Lowerable
<1>r. PICK n \in Nat : n = Len(ins.args)
  BY <1>0
<1>s. \A a \in Nat : Lifts(m, cx, PushAll(ins.args), a, a + n)
  BY <1>0, <1>r, PushAllLifts
<1>z. Lifts(m, cx, PushAll(ins.args), 0, n)
  <2>1. 0 + n = n
    OBVIOUS
  <2>. QED
    BY <1>s, <2>1
<1>1. CASE ins.op = "load"
  <2>1. Left(ins) = 1
    BY <1>1 DEF Left, Lowerable, IntBinaryOps, FloatBinaryOps, Compares, IntCompares, FloatCompares, Prints,
                Conversions, IntConversions
  <2>2. LowerInstruction(ins) = LowerLoad(ins) \o Park(ins)
    BY <1>1 DEF LowerInstruction
  <2>3. Lifts(m, cx, LowerLoad(ins), 0, 1)
    BY <1>1, LowerMemory
  <2>. QED
    BY <1>p, <2>1, <2>2, <2>3, LiftsJoin
<1>2. CASE ins.op = "store"
  <2>1. Left(ins) = 0
    BY <1>2 DEF Left, Lowerable, IntBinaryOps, FloatBinaryOps, Compares, IntCompares, FloatCompares, Prints,
                Conversions, IntConversions
  <2>2. LowerInstruction(ins) = LowerStore(ins) \o Park(ins)
    BY <1>2 DEF LowerInstruction
  <2>3. Lifts(m, cx, LowerStore(ins), 0, 0)
    BY <1>2, LowerMemory
  <2>. QED
    BY <1>p, <2>1, <2>2, <2>3, LiftsJoin
<1>3. CASE ins.op = "gep"
  <2>1. Left(ins) = 1 /\ n = 2
    BY <1>3, <1>r DEF Left, Lowerable, IntBinaryOps, FloatBinaryOps, Compares, IntCompares, FloatCompares, Prints,
                Conversions, IntConversions
  <2> DEFINE c == Const("i32", SizeOf(ins.ty))
             x == Simple("mul", "i32")
             y == Simple("add", "i32")
  <2>2. LowerInstruction(ins) = (PushAll(ins.args) \o <<c, x, y>>) \o Park(ins)
    BY <1>3 DEF LowerInstruction, LowerGep
  <2>3. c.op = "const" /\ x.op = "mul" /\ y.op = "add"
    BY DEF Const, Simple, StackOp
  <2> HIDE DEF c, x, y
  <2>4. Moves(m, cx, c, 2, 3)
    BY <2>3 DEF Moves, GetOps
  <2>5. x.op \in TwoOps /\ y.op \in TwoOps
    BY <2>3 DEF TwoOps, BinOps
  <2>6. Moves(m, cx, x, 3, 2) /\ Moves(m, cx, y, 2, 1)
    BY <2>5 DEF Moves
  <2>7. Lifts(m, cx, <<c, x, y>>, 2, 1)
    BY <2>4, <2>6, LiftsThree
  <2>8. Lifts(m, cx, PushAll(ins.args), 0, 2)
    BY <1>z, <2>1
  <2>9. Lifts(m, cx, PushAll(ins.args) \o <<c, x, y>>, 0, 1)
    BY <2>7, <2>8, LiftsJoin
  <2>. QED
    BY <1>p, <2>1, <2>2, <2>9, LiftsJoin
<1>4. CASE ins.op = "neg"
  <2>1. Left(ins) = 1 /\ n = 1
    BY <1>4, <1>r DEF Left, Lowerable, IntBinaryOps, FloatBinaryOps, Compares, IntCompares, FloatCompares, Prints,
                Conversions, IntConversions
  <2> DEFINE c == Const(Prefix(ins.ty), 0)
             x == Simple("sub", Prefix(ins.ty))
  <2>2. LowerInstruction(ins) = ((<<c>> \o PushAll(ins.args)) \o <<x>>) \o Park(ins)
    BY <1>4 DEF LowerInstruction, LowerNeg
  <2>3. c.op = "const" /\ x.op = "sub"
    BY DEF Const, Simple, StackOp
  <2> HIDE DEF c, x
  <2>4. Moves(m, cx, c, 0, 1)
    BY <2>3 DEF Moves, GetOps
  <2>5. x.op \in TwoOps
    BY <2>3 DEF TwoOps, BinOps
  <2>6. Moves(m, cx, x, 2, 1)
    BY <2>5 DEF Moves
  <2>7. Lifts(m, cx, <<c>>, 0, 1) /\ Lifts(m, cx, <<x>>, 2, 1)
    BY <2>4, <2>6, LiftsOne
  <2>8. Lifts(m, cx, PushAll(ins.args), 1, 2)
    <3>1. 1 + 1 = 2
      OBVIOUS
    <3>. QED
      BY <1>s, <2>1, <3>1
  <2>9. Lifts(m, cx, <<c>> \o PushAll(ins.args), 0, 2)
    BY <2>7, <2>8, LiftsJoin
  <2>10. Lifts(m, cx, (<<c>> \o PushAll(ins.args)) \o <<x>>, 0, 1)
    BY <2>7, <2>9, LiftsJoin
  <2>. QED
    BY <1>p, <2>1, <2>2, <2>10, LiftsJoin
<1>5. CASE ins.op = "not"
  <2>1. Left(ins) = 1 /\ n = 1
    BY <1>5, <1>r DEF Left, Lowerable, IntBinaryOps, FloatBinaryOps, Compares, IntCompares, FloatCompares, Prints,
                Conversions, IntConversions
  <2> DEFINE c == Const(Prefix(ins.ty), IF ins.ty = "i1" THEN 1 ELSE -1)
             x == Simple("xor", Prefix(ins.ty))
  <2>2. LowerInstruction(ins) = (PushAll(ins.args) \o <<c, x>>) \o Park(ins)
    BY <1>5 DEF LowerInstruction, LowerNot
  <2>3. c.op = "const" /\ x.op = "xor"
    BY DEF Const, Simple, StackOp
  <2> HIDE DEF c, x
  <2>4. Moves(m, cx, c, 1, 2)
    BY <2>3 DEF Moves, GetOps
  <2>5. x.op \in TwoOps
    BY <2>3 DEF TwoOps, BinOps, BitOps
  <2>6. Moves(m, cx, x, 2, 1)
    BY <2>5 DEF Moves
  <2>7. Lifts(m, cx, <<c, x>>, 1, 1)
    BY <2>4, <2>6, LiftsTwo
  <2>8. Lifts(m, cx, PushAll(ins.args), 0, 1)
    BY <1>z, <2>1
  <2>9. Lifts(m, cx, PushAll(ins.args) \o <<c, x>>, 0, 1)
    BY <2>7, <2>8, LiftsJoin
  <2>. QED
    BY <1>p, <2>1, <2>2, <2>9, LiftsJoin
<1>6. CASE ins.op \notin {"load", "store", "gep", "neg", "not"}
  <2>1. LowerInstruction(ins) = (PushAll(ins.args) \o <<OpcodeFor(ins)>>) \o Park(ins)
    BY <1>a, <1>6, Zenon DEF LowerInstruction
  <2>2. Moves(m, cx, OpcodeFor(ins), n, Left(ins)) /\ Left(ins) \in Nat
    BY <1>6, <1>r, LowerOthers DEF Left
  <2>3. Lifts(m, cx, <<OpcodeFor(ins)>>, n, Left(ins))
    BY <2>2, LiftsOne
  <2>4. Lifts(m, cx, PushAll(ins.args) \o <<OpcodeFor(ins)>>, 0, Left(ins))
    BY <1>z, <2>3, LiftsJoin
  <2>. QED
    BY <1>p, <2>1, <2>4, LiftsJoin
<1> QED
  BY <1>1, <1>2, <1>3, <1>4, <1>5, <1>6

(* Pieces laid end to end, each from the depth the one before it leaves.   *)
LEMMA PiecesAreLists ==
    ASSUME NEW n \in Nat, NEW X, NEW ss \in [1..n -> X], \A i \in 1..n : IsList(ss[i])
    PROVE  \E T : ss \in [1..n -> Seq(T)]
<1> DEFINE T == UNION {Range(ss[i]) : i \in 1..n}
<1>1. ASSUME NEW i \in 1..n PROVE ss[i] \in Seq(T)
  <2>1. Range(ss[i]) \subseteq T
    OBVIOUS
  <2>2. ss[i] \in Seq(Range(ss[i]))
    BY DEF IsList
  <2>. HIDE DEF T
  <2>. QED
    BY <2>1, <2>2, SeqMonotonic
<1> HIDE DEF T
<1>2. ss \in [1..n -> Seq(T)]
  BY <1>1
<1> QED
  BY <1>2

MarkedAt(f, g, start, e, k) ==
    /\ Len(f) = start[k + 1]
    /\ \A i \in 1..(k + 1) : start[i] \in Nat /\ start[i] <= Len(f) /\ g[start[i] + 1] = e[i]

(* The depths at the marks of pieces laid end to end stay what they are    *)
(* when one more piece is put behind them.                                 *)
LEMMA MarksJoin ==
    ASSUME NEW m, NEW cx, NEW f, NEW t, NEW g, NEW d, Depths(m, cx, f, g), Depths(m, cx, t, d),
           NEW e, NEW start, NEW k \in Nat, MarkedAt(f, g, start, e, k),
           start[(k + 1) + 1] = start[k + 1] + Len(t), d[1] = e[k + 1], d[Len(t) + 1] = e[(k + 1) + 1]
    PROVE  \E u : Depths(m, cx, f \o t, u) /\ MarkedAt(f \o t, u, start, e, k + 1)
<1>0. /\ Len(f) = start[k + 1]
      /\ \A i \in 1..(k + 1) : start[i] \in Nat /\ start[i] <= Len(f) /\ g[start[i] + 1] = e[i]
  BY DEF MarkedAt
<1>1. Len(f) \in Nat /\ Len(t) \in Nat /\ Len(f \o t) = Len(f) + Len(t)
  BY ListDomain, ListJoin DEF Depths
<1>2. k + 1 \in 1..(k + 1)
  OBVIOUS
<1>3. Abut(f, g, d)
  BY <1>0, <1>2 DEF Abut
<1>4. PICK u : Depths(m, cx, f \o t, u) /\ Spliced(f, t, g, d, u)
  BY <1>3, DepthsJoin, Zenon
<1>a. /\ \A i \in 1..(Len(f) + 1) : u[i] = g[i]
      /\ \A i \in 1..(Len(t) + 1) : u[Len(f) + i] = d[i]
  BY <1>4 DEF Spliced
<1>5. Len(f \o t) = start[(k + 1) + 1]
  BY <1>0, <1>1
<1>6. ASSUME NEW i \in 1..((k + 1) + 1)
      PROVE  start[i] \in Nat /\ start[i] <= Len(f \o t) /\ u[start[i] + 1] = e[i]
  <2>1. CASE i \in 1..(k + 1)
    <3>1. start[i] \in Nat /\ start[i] <= Len(f) /\ g[start[i] + 1] = e[i]
      BY <1>0, <2>1
    <3>2. start[i] + 1 \in 1..(Len(f) + 1)
      BY <1>1, <3>1
    <3>. QED
      BY <1>1, <1>a, <3>1, <3>2
  <2>2. CASE i = (k + 1) + 1
    <3>1. start[i] = Len(f) + Len(t) /\ (Len(f) + Len(t)) + 1 = Len(f) + (Len(t) + 1)
      BY <1>1, <1>5, <2>2
    <3>2. Len(t) + 1 \in 1..(Len(t) + 1)
      BY <1>1
    <3>3. u[Len(f) + (Len(t) + 1)] = d[Len(t) + 1]
      BY <1>a, <3>2
    <3>. QED
      BY <1>1, <2>2, <3>1, <3>3
  <2>. QED
    BY <2>1, <2>2
<1>7. MarkedAt(f \o t, u, start, e, k + 1)
  BY <1>5, <1>6 DEF MarkedAt
<1> QED
  BY <1>4, <1>7

Climbs(m, cx, ss, e, n) ==
    /\ e \in [1..(n + 1) -> Nat]
    /\ \A i \in 1..n : Lifts(m, cx, ss[i], e[i], e[i + 1])
DepthsAt(m, cx, f, h, start, e, n) ==
    /\ Depths(m, cx, f, h)
    /\ \A i \in 1..(n + 1) : h[start[i] + 1] = e[i]

(* Pieces laid end to end have the depth each of them starts from where it *)
(* starts.                                                                 *)
LEMMA FlattenLifts ==
    ASSUME NEW m, NEW cx, NEW n \in Nat, NEW X, NEW ss \in [1..n -> X],
           NEW e, Climbs(m, cx, ss, e, n), NEW start, Starts(ss, start)
    PROVE  \E h : DepthsAt(m, cx, FlattenSeq(ss), h, start, e, n)
<1> USE DEF Climbs, DepthsAt
<1>1. \A i \in 1..n : IsList(ss[i])
  BY DEF Lifts, Depths
<1>2. PICK T : ss \in [1..n -> Seq(T)]
  BY <1>1, PiecesAreLists
<1>3. Len(ss) = n
  BY <1>2
<1>4. /\ start \in [1..(n + 1) -> Nat] /\ start[1] = 0
      /\ \A i \in 1..n : start[i + 1] = start[i] + Len(ss[i])
  BY <1>3 DEF Starts
<1>5. CASE n = 0
  <2>1. FlattenSeq(ss) = ss /\ ss = <<>>
    BY <1>2, <1>3, <1>5 DEF FlattenSeq
  <2> DEFINE h == [i \in 1..1 |-> e[1]]
  <2>2. h \in [1..(0 + 1) -> Nat] /\ h[0 + 1] = e[1] /\ \A i \in 1..(n + 1) : i = 1
    BY <1>5
  <2> HIDE DEF h
  <2>3. Depths(m, cx, <<>>, h)
    BY <2>2, ListNone DEF Depths
  <2>. QED
    BY <1>4, <2>1, <2>2, <2>3
<1>6. CASE n > 0
  <2> DEFINE F == CHOOSE h : Concatenations(ss, n, h)
  <2>1. F = [i \in 1..n |-> IF i = 1 THEN ss[i] ELSE F[i - 1] \o ss[i]]
    BY <1>2, HasPrefixes DEF Concatenations
  <2>2. FlattenSeq(ss) = F[n]
    BY <1>3, <1>6 DEF FlattenSeq, Concatenations
  <2> HIDE DEF F
  <2>3. F[1] = ss[1] /\ \A i \in 2..n : F[i] = F[i - 1] \o ss[i]
    <3>1. 1 \in 1..n /\ \A i \in 2..n : i \in 1..n /\ i # 1
      BY <1>6
    <3>2. \A i \in 1..n : F[i] = IF i = 1 THEN ss[i] ELSE F[i - 1] \o ss[i]
      BY <2>1
    <3>. QED
      BY <3>1, <3>2
  <2> DEFINE Marked(k, g) == Depths(m, cx, F[k], g) /\ MarkedAt(F[k], g, start, e, k)
             S == {k \in 1..n : \E g : Marked(k, g)}
  <2>4. 1 \in S
    <3>1. PICK g : Depths(m, cx, ss[1], g) /\ g[1] = e[1] /\ g[Len(ss[1]) + 1] = e[2]
      <4>1. 1 \in 1..n /\ 1 + 1 = 2
        BY <1>6
      <4>. QED
        BY <4>1 DEF Lifts
    <3>2. start[2] = Len(ss[1]) /\ Len(ss[1]) \in Nat
      <4>1. 1 \in 1..n /\ 1 + 1 = 2
        BY <1>6
      <4>2. start[1 + 1] = start[1] + Len(ss[1]) /\ Len(ss[1]) \in Nat
        BY <1>2, <1>4, <4>1
      <4>. QED
        BY <1>4, <4>1, <4>2
    <3>3. \A i \in 1..(1 + 1) : i = 1 \/ i = 2
      OBVIOUS
    <3>4. Marked(1, g)
      <4>1. MarkedAt(ss[1], g, start, e, 1)
        BY <1>4, <3>1, <3>2, <3>3 DEF MarkedAt
      <4>. QED
        BY <2>3, <3>1, <4>1
    <3>5. 1 \in 1..n
      BY <1>6
    <3>. HIDE DEF Marked
    <3>. QED
      BY <3>4, <3>5
  <2>5. ASSUME NEW k \in 1..(n - 1), k \in S PROVE k + 1 \in S
    <3>1. k + 1 \in 2..n /\ (k + 1) - 1 = k /\ k + 1 \in 1..n /\ k \in Nat
      OBVIOUS
    <3>2. PICK g : Marked(k, g)
      BY <2>5
    <3>3. PICK d : Depths(m, cx, ss[k + 1], d) /\ d[1] = e[k + 1] /\ d[Len(ss[k + 1]) + 1] = e[(k + 1) + 1]
      BY <3>1 DEF Lifts
    <3>4. PICK f : f = F[k]
      OBVIOUS
    <3>5. PICK t : t = ss[k + 1]
      OBVIOUS
    <3>6. F[k + 1] = f \o t
      BY <2>3, <3>1, <3>4, <3>5
    <3>7. start[(k + 1) + 1] = start[k + 1] + Len(t)
      BY <1>4, <3>1, <3>5
    <3>8. Depths(m, cx, f, g) /\ Depths(m, cx, t, d)
      BY <3>2, <3>3, <3>4, <3>5
    <3>9. MarkedAt(f, g, start, e, k)
      BY <3>2, <3>4
    <3>10. d[1] = e[k + 1] /\ d[Len(t) + 1] = e[(k + 1) + 1]
      BY <3>3, <3>5
    <3>11. \E u : Depths(m, cx, f \o t, u) /\ MarkedAt(f \o t, u, start, e, k + 1)
      <4>. HIDE DEF Marked, S
      <4>. QED
        BY <3>1, <3>7, <3>8, <3>9, <3>10, MarksJoin, Zenon
    <3>12. PICK u : Marked(k + 1, u)
      BY <3>6, <3>11
    <3>. HIDE DEF Marked
    <3>. QED
      BY <3>1, <3>12
  <2>6. n \in S
    <3>1. Inductive(S, 1, n)
      BY <2>4, <2>5, <1>6 DEF Inductive
    <3>. HIDE DEF S
    <3>2. \A k \in 1..n : k \in S
      BY <3>1, UpTo
    <3>. QED
      BY <3>2, <1>6
  <2>7. PICK g : Marked(n, g)
    BY <2>6
  <2>8. Depths(m, cx, F[n], g) /\ \A i \in 1..(n + 1) : g[start[i] + 1] = e[i]
    BY <2>7 DEF MarkedAt
  <2> HIDE DEF Marked
  <2>. QED
    BY <2>2, <2>8
<1> QED
  BY <1>5, <1>6

(* What is known of the depths around an instruction, by kind.             *)
DataMove(op, a, b) ==
    /\ op.op \in GetOps => b = a + 1
    /\ op.op \in TwoOps => 2 <= a /\ b = a - 1
    /\ op.op \in OneOps => 1 <= a /\ b = a
    /\ op.op \in SetOps => 1 <= a /\ b = a - 1
    /\ op.op = "store" => 2 <= a /\ b = a - 2
    /\ op.op \in StayOps => b = a
ControlMove(m, cx, op, a, b) ==
    /\ op.op = "call" /\ op.text = "print_i32" => 1 <= a /\ b = a - 1
    /\ op.op = "call" /\ op.text # "print_i32" =>
          /\ op.text \in DOMAIN m.funcs
          /\ Len(m.funcs[op.text].params) \in Nat
          /\ Len(m.funcs[op.text].params) <= a
          /\ b = (a - Len(m.funcs[op.text].params)) + Given(m, op.text)
    /\ op.op = "jmp" => op.imm \in cx.to /\ a = 0 /\ b = 0
    /\ op.op = "jz" => op.imm \in cx.to /\ a = 1 /\ b = 0
    /\ op.op = "return" => (cx.ret # "void" => 1 <= a) /\ b = 0

(* A data operation moves the depth by what its kind says.                 *)
LEMMA MovesOf ==
    ASSUME NEW m, NEW cx, NEW op, NEW a, NEW b, Moves(m, cx, op, a, b)
    PROVE  DataMove(op, a, b)
<1> USE DEF GetOps, TwoOps, OneOps, SetOps, StayOps, BinOps, DivOps, ShiftOps, BitOps, Cmps, SignedCmps,
            UnsignedCmps, FloatBinaryOps, FloatCompares, ConvertOps
<1>1. op.op \in GetOps => b = a + 1
  BY DEF Moves
<1>2. op.op \in TwoOps => 2 <= a /\ b = a - 1
  BY DEF Moves
<1>3. op.op \in OneOps => 1 <= a /\ b = a
  BY DEF Moves
<1>4. op.op \in SetOps => 1 <= a /\ b = a - 1
  BY DEF Moves
<1>5. op.op = "store" => 2 <= a /\ b = a - 2
  BY DEF Moves
<1>6. op.op \in StayOps => b = a
  BY DEF Moves
<1> QED
  BY <1>1, <1>2, <1>3, <1>4, <1>5, <1>6 DEF DataMove

(* A register that is set is one the module writes.                        *)
LEMMA MovesOfSet ==
    ASSUME NEW m, NEW cx, NEW op, NEW a, NEW b, Moves(m, cx, op, a, b), op.op = "local.set"
    PROVE  op.text \in Written(m)
BY DEF Moves, GetOps, TwoOps, OneOps, StayOps, BinOps, DivOps, ShiftOps, BitOps, Cmps, SignedCmps,
       UnsignedCmps, FloatBinaryOps, FloatCompares, ConvertOps

(* So does a call, a jump or a return.                                     *)
LEMMA MovesOfControl ==
    ASSUME NEW m, NEW cx, NEW op, NEW a, NEW b, Moves(m, cx, op, a, b)
    PROVE  ControlMove(m, cx, op, a, b)
<1> USE DEF GetOps, TwoOps, OneOps, SetOps, StayOps, BinOps, DivOps, ShiftOps, BitOps, Cmps, SignedCmps,
            UnsignedCmps, FloatBinaryOps, FloatCompares, ConvertOps
<1>1. op.op = "call" /\ op.text = "print_i32" => 1 <= a /\ b = a - 1
  BY DEF Moves
<1>2. op.op = "call" /\ op.text # "print_i32" =>
                 /\ op.text \in DOMAIN m.funcs
                 /\ Len(m.funcs[op.text].params) \in Nat
                 /\ Len(m.funcs[op.text].params) <= a
                 /\ b = (a - Len(m.funcs[op.text].params)) + Given(m, op.text)
  BY DEF Moves
<1>3. op.op = "jmp" => op.imm \in cx.to /\ a = 0 /\ b = 0
  BY DEF Moves
<1>4. op.op = "jz" => op.imm \in cx.to /\ a = 1 /\ b = 0
  BY DEF Moves
<1>5. op.op = "return" => (cx.ret # "void" => 1 <= a) /\ b = 0
  BY DEF Moves
<1> QED
  BY <1>1, <1>2, <1>3, <1>4, <1>5 DEF ControlMove

(* The last element of a list of pieces laid end to end.                   *)
LEMMA FlattenLast ==
    ASSUME NEW n \in Nat \ {0}, NEW X, NEW ss \in [1..n -> X], \A i \in 1..n : IsList(ss[i]), ss[n] # <<>>
    PROVE  /\ FlattenSeq(ss) # <<>> /\ IsList(FlattenSeq(ss))
           /\ FlattenSeq(ss)[Len(FlattenSeq(ss))] = ss[n][Len(ss[n])]
<1>1. PICK T : ss \in [1..n -> Seq(T)]
  BY PiecesAreLists
<1>2. Len(ss) = n /\ n \in 1..n
  BY <1>1
<1>3. PICK start : Starts(ss, start)
  BY <1>1, HasStarts
<1>4. PICK flat : flat = FlattenSeq(ss)
  OBVIOUS
<1>5. flat \in Seq(T) /\ LaidOut(ss, n, flat, start)
  BY <1>1, <1>2, <1>3, <1>4, FlattenFlattens DEF Flattens
<1>6. PICK k \in Nat \ {0} : k = Len(ss[n])
  <2>1. ss[n] \in Seq(T)
    BY <1>1, <1>2
  <2>. QED
    BY <2>1
<1>7. start[n + 1] = start[n] + k /\ start[n] \in Nat
  BY <1>2, <1>3, <1>6 DEF Starts
<1>8. Len(flat) = start[n] + k
  BY <1>5, <1>7 DEF LaidOut
<1>9. k \in 1..Len(ss[n])
  BY <1>6
<1>10. flat[start[n] + k] = ss[n][k]
  BY <1>2, <1>5, <1>9 DEF LaidOut
<1>11. Len(flat) # 0
  BY <1>6, <1>7, <1>8
<1>12. flat # <<>> /\ IsList(flat)
  BY <1>5, <1>11, SeqIsList
<1> QED
  BY <1>4, <1>6, <1>8, <1>10, <1>12

(* The set and the get of a register that only that get reads cancel: what *)
(* the set would have taken is what the get would have brought back.       *)
LEMMA PeepholeLifts ==
    ASSUME NEW m, NEW cx, NEW s, NEW a, NEW b, Lifts(m, cx, s, a, b), NEW instrs, NEW live
    PROVE  /\ Lifts(m, cx, Peephole(s, instrs, live), a, b)
           /\ s # <<>> /\ s[Len(s)].op # "local.get" =>
                 /\ Peephole(s, instrs, live) # <<>>
                 /\ Peephole(s, instrs, live)[Len(Peephole(s, instrs, live))] = s[Len(s)]
<1>1. PICK h : Depths(m, cx, s, h) /\ h[1] = a /\ h[Len(s) + 1] = b
  BY DEF Lifts
<1>2. PICK n \in Nat : n = Len(s) /\ DOMAIN s = 1..n /\ IsList(s)
  BY <1>1, ListDomain DEF Depths
<1>3. /\ h \in [1..(n + 1) -> Nat]
      /\ \A i \in 1..n : Moves(m, cx, s[i], h[i], h[i + 1])
  BY <1>1, <1>2 DEF Depths
<1> DEFINE Drop(i) == Pair(s, instrs, live, i)
           pp == [i \in 1..n |-> IF Drop(i) \/ Drop(i - 1) THEN <<>> ELSE <<s[i]>>]
           e == [i \in 1..(n + 1) |-> IF Drop(i - 1) THEN h[i - 1] ELSE h[i]]
<1>4. \A i : Drop(i) => /\ i \in 1..(n - 1) /\ s[i].op = "local.set" /\ s[i + 1].op = "local.get"
  BY <1>2 DEF Pair
<1>5. Peephole(s, instrs, live) = FlattenSeq(pp)
  BY <1>2 DEF Peephole
<1> HIDE DEF Drop
<1>6. \A i \in 1..n : pp[i] = IF Drop(i) \/ Drop(i - 1) THEN <<>> ELSE <<s[i]>>
  OBVIOUS
<1>7. \A i \in 1..(n + 1) : e[i] = IF Drop(i - 1) THEN h[i - 1] ELSE h[i]
  OBVIOUS
<1>8. e \in [1..(n + 1) -> Nat]
  <2>1. ASSUME NEW i \in 1..(n + 1) PROVE (IF Drop(i - 1) THEN h[i - 1] ELSE h[i]) \in Nat
    <3>1. Drop(i - 1) => i - 1 \in 1..(n + 1)
      BY <1>4
    <3>. QED
      BY <3>1, <1>3
  <2>. QED
    BY <2>1
<1>9. pp \in [1..n -> {<<>>} \cup {<<s[i]>> : i \in 1..n}]
  OBVIOUS
<1> HIDE DEF pp, e
<1>10. ASSUME NEW i \in 1..n PROVE Lifts(m, cx, pp[i], e[i], e[i + 1])
  <2>1. Moves(m, cx, s[i], h[i], h[i + 1]) /\ h[i] \in Nat /\ h[i + 1] \in Nat
    BY <1>3
  <2>2. (i + 1) - 1 = i /\ i + 1 \in 1..(n + 1) /\ i \in 1..(n + 1)
    OBVIOUS
  <2>3. e[i] = (IF Drop(i - 1) THEN h[i - 1] ELSE h[i]) /\ e[i + 1] = (IF Drop(i) THEN h[i] ELSE h[i + 1])
    BY <1>7, <2>2
  <2>4. CASE Drop(i)
    <3>1. s[i].op = "local.set"
      BY <1>4, <2>4
    <3>2. ~Drop(i - 1)
      <4>1. ASSUME Drop(i - 1) PROVE FALSE
        <5>1. (i - 1) + 1 = i
          OBVIOUS
        <5>2. s[i].op = "local.get"
          BY <1>4, <4>1, <5>1
        <5>. QED
          BY <3>1, <5>2
      <4>. QED
        BY <4>1
    <3>. QED
      BY <1>6, <2>1, <2>3, <2>4, <3>2, LiftsNone
  <2>5. CASE ~Drop(i) /\ Drop(i - 1)
    <3>1. i - 1 \in 1..(n - 1) /\ s[i - 1].op = "local.set" /\ s[(i - 1) + 1].op = "local.get" /\ (i - 1) + 1 = i
      BY <1>4, <2>5
    <3>2. i - 1 \in 1..n /\ i - 1 \in 1..(n + 1)
      BY <3>1
    <3>3. Moves(m, cx, s[i - 1], h[i - 1], h[i]) /\ h[i - 1] \in Nat
      BY <1>3, <3>1, <3>2
    <3>4. h[i] = h[i - 1] - 1 /\ h[i + 1] = h[i] + 1
      BY <2>1, <3>1, <3>3, MovesOf DEF DataMove, GetOps, SetOps
    <3>5. h[i + 1] = h[i - 1]
      BY <3>3, <3>4
    <3>. QED
      BY <1>6, <2>3, <2>5, <3>3, <3>5, LiftsNone
  <2>6. CASE ~Drop(i) /\ ~Drop(i - 1)
    <3>1. pp[i] = <<s[i]>> /\ e[i] = h[i] /\ e[i + 1] = h[i + 1]
      BY <1>6, <2>3, <2>6
    <3>. QED
      BY <2>1, <3>1, LiftsOne
  <2>. QED
    BY <2>4, <2>5, <2>6
<1>11. PICK flat : flat = FlattenSeq(pp)
  OBVIOUS
<1>12. \A i \in 1..n : IsList(pp[i])
  BY <1>10 DEF Lifts, Depths
<1>13. PICK start : Starts(pp, start)
  BY <1>9, <1>12, PiecesAreLists, HasStarts
<1>14. PICK g : Depths(m, cx, flat, g) /\ \A i \in 1..(n + 1) : g[start[i] + 1] = e[i]
  <2>1. PICK X : pp \in [1..n -> X]
    BY <1>9
  <2>2. Climbs(m, cx, pp, e, n)
    BY <1>8, <1>10 DEF Climbs
  <2>3. \E g : DepthsAt(m, cx, FlattenSeq(pp), g, start, e, n)
    BY <1>2, <1>13, <2>1, <2>2, FlattenLifts, Zenon
  <2>. QED
    BY <1>11, <2>3 DEF DepthsAt
<1>15. start[1] = 0 /\ Len(flat) = start[n + 1]
  <2>1. PICK T : pp \in [1..n -> Seq(T)]
    BY <1>9, <1>12, PiecesAreLists
  <2>2. Len(pp) = n
    BY <2>1
  <2>3. Flattens(pp, flat, start)
    BY <1>11, <1>13, <2>1, FlattenFlattens
  <2>. QED
    BY <2>2, <2>3 DEF Flattens, LaidOut, Starts
<1>16. e[1] = a /\ e[n + 1] = b
  <2>1. 1 \in 1..(n + 1) /\ n + 1 \in 1..(n + 1) /\ 1 - 1 = 0 /\ (n + 1) - 1 = n
    OBVIOUS
  <2>2. ~Drop(0) /\ ~Drop(n)
    BY <1>4
  <2>. QED
    BY <1>1, <1>2, <1>7, <2>1, <2>2
<1>17. g[1] = a /\ g[Len(flat) + 1] = b
  <2>1. 1 \in 1..(n + 1) /\ n + 1 \in 1..(n + 1) /\ 0 + 1 = 1
    OBVIOUS
  <2>. QED
    BY <1>14, <1>15, <1>16, <2>1
<1>18. Lifts(m, cx, flat, a, b)
  BY <1>14, <1>17 DEF Lifts
<1>19. ASSUME s # <<>>, s[Len(s)].op # "local.get" PROVE flat # <<>> /\ flat[Len(flat)] = s[n]
  <2>1. n # 0
    BY <1>2, <1>19 DEF IsList
  <2>2. ~Drop(n) /\ ~Drop(n - 1)
    <3>1. (n - 1) + 1 = n
      OBVIOUS
    <3>. QED
      BY <1>2, <1>4, <1>19, <3>1
  <2>3. n \in 1..n
    BY <2>1
  <2>4. pp[n] = <<s[n]>>
    BY <1>6, <2>2, <2>3
  <2>5. pp[n] # <<>> /\ pp[n][Len(pp[n])] = s[n]
    BY <2>4, ListOne, ListNone
  <2>. QED
    BY <1>9, <1>11, <1>12, <2>1, <2>5, FlattenLast
<1> QED
  BY <1>2, <1>5, <1>11, <1>18, <1>19

(* A module that passes checkCFG and checkTypes, has an entry, and has no  *)
(* function of the printing built-in's name.                               *)
Runnable(m) == WellTyped(m) /\ "main" \in DOMAIN m.funcs /\ "print_i32" \notin DOMAIN m.funcs

(* An empty checkTypes report, instruction by instruction.                 *)
LEMMA CheckedInstr ==
    ASSUME NEW m, NEW fn, Sound(m, fn), NEW ins \in Instructions(fn)
    PROVE  /\ IsInstr(ins) /\ ins.op \in Opcodes
           /\ ArityOk(ins) /\ DestinationOk(ins) /\ OperandsOk(ins, Signatures(m))
           /\ ins.op = "ret" => RetOk(fn.ret, ins)
<1>1. IsFunction(fn) /\ fn.blocks # <<>>
  BY CheckedGraph DEF Sound
<1>2. PICK b \in Range(fn.blocks) : ins \in Range(b.instrs)
  BY DEF Instructions
<1>3. IsInstr(ins)
  BY <1>1, <1>2 DEF IsFunction
<1>4. BlockTypeErrors(fn, b, Signatures(m)) = {}
  BY <1>1, <1>2 DEF Sound, TypeErrors
<1>5. InstrErrors(fn.ret, ins, Signatures(m)) = {}
  BY <1>2, <1>4 DEF BlockTypeErrors
<1>6. ArityOk(ins)
  BY <1>5 DEF InstrErrors
<1>7. {e \in {"CIR06", "CIR07", "CIR08"} :
            \/ e = "CIR06" /\ \/ ~DestinationOk(ins) \/ ~OperandsOk(ins, Signatures(m))
                              \/ ins.op = "ret" /\ ~RetOperandOk(fn.ret, ins)
                              \/ ~ResultTypeOk(ins) /\ ins.op \notin Compares
            \/ e = "CIR07" /\ ~ResultTypeOk(ins) /\ ins.op \in Compares
            \/ e = "CIR08" /\ ins.op = "ret" /\ ~RetOk(fn.ret, ins)} = {}
  BY <1>5, <1>6 DEF InstrErrors
<1>8. DestinationOk(ins) /\ OperandsOk(ins, Signatures(m))
  BY <1>7
<1>9. ins.op = "ret" => RetOk(fn.ret, ins)
  BY <1>7
<1> QED
  BY <1>3, <1>6, <1>8, <1>9 DEF Sound

(* The number of operands and whether there is a result, by opcode.        *)
LEMMA ArityFacts ==
    ASSUME NEW ins, ins.op \in Opcodes, ArityOk(ins)
    PROVE  /\ ins.op \in IntBinaryOps \cup FloatBinaryOps \cup Compares \cup {"store", "gep"} => Len(ins.args) = 2
           /\ ins.op \in Conversions \cup Prints \cup {"neg", "not", "load", "br.cond"} => Len(ins.args) = 1
           /\ ins.op \in {"trap", "br"} => Len(ins.args) = 0
<1> USE DEF IntBinaryOps, FloatBinaryOps, Compares, IntCompares, FloatCompares, Conversions, IntConversions,
            Prints
<1>1. ASSUME ins.op \in IntBinaryOps \cup FloatBinaryOps \cup Compares PROVE Arity(ins.op) = 2
  BY <1>1, Zenon DEF Arity
<1>2. ASSUME ins.op \in {"store", "gep"} PROVE Arity(ins.op) = 2
  <2>1. ins.op \notin IntBinaryOps \cup FloatBinaryOps \cup Compares
    BY <1>2
  <2>. QED
    BY <1>2 DEF Arity
<1>3. ASSUME ins.op \in Conversions \cup Prints PROVE Arity(ins.op) = 1
  BY <1>3 DEF Arity
<1>4. ASSUME ins.op \in {"neg", "not", "load", "br.cond"} PROVE Arity(ins.op) = 1
  BY <1>4 DEF Arity
<1>5. ASSUME ins.op \in {"trap", "br"} PROVE Arity(ins.op) = 0
  BY <1>5 DEF Arity
<1>6. Arity(ins.op) = -1 \/ Len(ins.args) = Arity(ins.op)
  BY DEF ArityOk
<1>7. ASSUME ins.op \in IntBinaryOps \cup FloatBinaryOps \cup Compares \cup {"store", "gep"}
      PROVE  Len(ins.args) = 2
  <2>1. Arity(ins.op) = 2
    BY <1>1, <1>2, <1>7
  <2>. QED
    BY <1>6, <2>1
<1>8. ASSUME ins.op \in Conversions \cup Prints \cup {"neg", "not", "load", "br.cond"}
      PROVE  Len(ins.args) = 1
  <2>1. Arity(ins.op) = 1
    BY <1>3, <1>4, <1>8
  <2>. QED
    BY <1>6, <2>1
<1>9. ASSUME ins.op \in {"trap", "br"} PROVE Len(ins.args) = 0
  BY <1>5, <1>6, <1>9
<1> QED
  BY <1>7, <1>8, <1>9

(* An instruction of a verified function is one the lowering is made for,  *)
(* its slots resolved: checkTypes has counted its operands and its result. *)
LEMMA InstrLowerable ==
    ASSUME NEW m, Runnable(m), NEW f \in DOMAIN m.funcs, NEW cx, cx.ret = m.funcs[f].ret,
           NEW ins \in Instructions(m.funcs[f]), NEW frame
    PROVE  /\ Operands(ins.args)
           /\ ins.op \notin {"br", "br.cond"} => Lowerable(m, cx, ResolveAlloca(frame, ins))
           /\ ins.op = "br" => Len(ins.args) = 0 /\ Len(ins.labels) = 1
           /\ ins.op = "br.cond" => Len(ins.args) = 1 /\ Len(ins.labels) = 2
           /\ ResolveAlloca(frame, ins).op = IF ins.op = "alloca" THEN "add" ELSE ins.op
           /\ ins.op # "alloca" => ResolveAlloca(frame, ins) = ins
<1>1. /\ IsInstr(ins) /\ ins.op \in Opcodes
      /\ ArityOk(ins) /\ DestinationOk(ins) /\ OperandsOk(ins, Signatures(m))
      /\ ins.op = "ret" => RetOk(m.funcs[f].ret, ins)
  BY CheckedInstr DEF Runnable, WellTyped
<1>w. ins.dest \in Written(m)
  BY DEF Written
<1>2. Operands(ins.args)
  <2>1. IsList(ins.args) /\ \A a \in Range(ins.args) : a.k \in {"reg", "int", "global"}
    BY <1>1 DEF IsInstr, IsOperand
  <2>2. \A i \in 1..Len(ins.args) : ins.args[i] \in Range(ins.args)
    BY <2>1, ListDomain DEF Range
  <2>. QED
    BY <2>1, <2>2 DEF Operands
<1>3. ins.op # "alloca" => ResolveAlloca(frame, ins) = ins
  BY DEF ResolveAlloca
<1>4. /\ ins.op = "br" => Len(ins.args) = 0 /\ Len(ins.labels) = 1
      /\ ins.op = "br.cond" => Len(ins.args) = 1 /\ Len(ins.labels) = 2
  <2>1. ins.op = "br" => Len(ins.args) = 0
    BY <1>1, ArityFacts
  <2>2. ins.op = "br.cond" => Len(ins.args) = 1
    BY <1>1, ArityFacts
  <2>. QED
    BY <1>1, <2>1, <2>2 DEF IsInstr
<1>5. ins.dest = NoName /\ ins.op # "call" => ins.op \in DefinesNothing
  BY <1>1 DEF DestinationOk
<1>6. ins.op \in DefinesNothing => ins.dest = NoName
  BY <1>1 DEF IsInstr
<1>7. ASSUME ins.op \in IntBinaryOps \cup FloatBinaryOps \cup Compares \cup {"gep"}
      PROVE  Lowerable(m, cx, ins)
  <2>1. Len(ins.args) = 2
    BY <1>1, <1>7, ArityFacts
  <2>2. ins.op \notin DefinesNothing /\ ins.op # "call"
    BY <1>7 DEF IntBinaryOps, FloatBinaryOps, Compares, IntCompares, FloatCompares, DefinesNothing, Terminators, Prints
  <2>3. ins.dest # NoName
    BY <1>5, <2>2
  <2>. QED
    BY <1>2, <1>w, <1>7, <2>1, <2>3 DEF Lowerable
<1>8. ASSUME ins.op \in Conversions \cup {"neg", "not", "load"} PROVE Lowerable(m, cx, ins)
  <2>1. Len(ins.args) = 1
    BY <1>1, <1>8, ArityFacts
  <2>2. ins.op \notin DefinesNothing /\ ins.op # "call"
    BY <1>8 DEF Conversions, IntConversions, DefinesNothing, Terminators, Prints
  <2>3. ins.dest # NoName
    BY <1>5, <2>2
  <2>. QED
    BY <1>2, <1>w, <1>8, <2>1, <2>3 DEF Lowerable
<1>9. ASSUME ins.op = "store" PROVE Lowerable(m, cx, ins)
  <2>1. Len(ins.args) = 2
    BY <1>1, <1>9, ArityFacts
  <2>2. ins.dest = NoName
    BY <1>6, <1>9 DEF DefinesNothing
  <2>. QED
    BY <1>2, <1>w, <1>9, <2>1, <2>2 DEF Lowerable
<1>10. ASSUME ins.op \in Prints PROVE Lowerable(m, cx, ins)
  <2>1. Len(ins.args) = 1
    BY <1>1, <1>10, ArityFacts
  <2>2. ins.dest = NoName
    BY <1>6, <1>10 DEF DefinesNothing
  <2>. QED
    BY <1>2, <1>w, <1>10, <2>1, <2>2 DEF Lowerable
<1>11. ASSUME ins.op = "trap" PROVE Lowerable(m, cx, ins)
  <2>1. Len(ins.args) = 0
    BY <1>1, <1>11, ArityFacts
  <2>2. ins.dest = NoName
    BY <1>6, <1>11 DEF DefinesNothing
  <2>. QED
    BY <1>2, <1>w, <1>11, <2>1, <2>2 DEF Lowerable
<1>12. ASSUME ins.op = "call" PROVE Lowerable(m, cx, ins)
  <2>1. /\ ins.op \notin IntBinaryOps \cup FloatBinaryOps \cup {"neg", "not"}
        /\ ins.op \notin Compares /\ ins.op \notin Conversions
        /\ ins.op \notin {"alloca", "load", "store", "gep"}
    BY <1>12 DEF IntBinaryOps, FloatBinaryOps, Compares, IntCompares, FloatCompares, Conversions, IntConversions
  <2>2. CallOk(ins, Signatures(m))
    BY <1>1, <1>12, <2>1, Zenon DEF OperandsOk
  <2>3. /\ (ins.ty = "void") = (ins.dest = NoName)
        /\ ins.callee \in DOMAIN m.funcs
        /\ Len(m.funcs[ins.callee].params) = Len(ins.args)
        /\ m.funcs[ins.callee].ret = ins.ty
    <3>1. ins.callee \in DOMAIN m.funcs
      BY <2>2 DEF CallOk, Signatures
    <3>2. Signatures(m)[ins.callee] = [params |-> m.funcs[ins.callee].params, ret |-> m.funcs[ins.callee].ret]
      BY <3>1 DEF Signatures
    <3>. QED
      BY <2>2, <3>1, <3>2 DEF CallOk
  <2>4. ins.callee # "print_i32"
    BY <2>3 DEF Runnable, WellTyped
  <2>5. ins.dest = NoName <=> m.funcs[ins.callee].ret = "void"
    BY <2>3
  <2>. QED
    BY <1>2, <1>w, <1>12, <2>3, <2>4, <2>5 DEF Lowerable
<1>13. ASSUME ins.op = "ret" PROVE Lowerable(m, cx, ins)
  <2>1. m.funcs[f].ret # "void" => ins.args # <<>>
    BY <1>1, <1>13 DEF RetOk
  <2>2. ins.args # <<>> => 1 <= Len(ins.args)
    <3>1. IsList(ins.args)
      BY <1>2 DEF Operands
    <3>. QED
      BY <3>1 DEF IsList
  <2>3. ins.dest = NoName
    BY <1>6, <1>13 DEF DefinesNothing, Terminators
  <2>. QED
    BY <1>2, <1>w, <1>13, <2>1, <2>2, <2>3 DEF Lowerable
<1>14. ASSUME ins.op = "alloca"
       PROVE  Lowerable(m, cx, ResolveAlloca(frame, ins)) /\ ResolveAlloca(frame, ins).op = "add"
  <2>1. ins.dest # NoName
    BY <1>1, <1>14 DEF IsInstr
  <2> DEFINE r == Reg(FrameReg, "ptr")
             c == ConstInt(frame.offset[ins.dest], "i32")
             new == Op(ins.dest, "add", "i32", <<r, c>>)
  <2>2. ResolveAlloca(frame, ins) = new
    BY <1>14, <2>1 DEF ResolveAlloca
  <2>3. new.op = "add" /\ new.dest = ins.dest /\ new.args = <<r, c>>
    BY DEF Op
  <2>4. r.k = "reg" /\ c.k = "int"
    BY DEF Reg, ConstInt
  <2>. HIDE DEF r, c, new
  <2>5. <<r, c>> \in Seq({r, c}) /\ Len(<<r, c>>) = 2 /\ <<r, c>>[1] = r /\ <<r, c>>[2] = c
    OBVIOUS
  <2>6. \A i \in 1..2 : i = 1 \/ i = 2
    OBVIOUS
  <2>7. Operands(<<r, c>>)
    BY <2>4, <2>5, <2>6, SeqIsList DEF Operands
  <2>8. Lowerable(m, cx, new)
    BY <1>w, <2>1, <2>3, <2>5, <2>7 DEF Lowerable, IntBinaryOps
  <2>. QED
    BY <2>2, <2>3, <2>8
<1>15. ins.op \notin {"br", "br.cond"} => Lowerable(m, cx, ResolveAlloca(frame, ins))
  BY <1>1, <1>3, <1>7, <1>8, <1>9, <1>10, <1>11, <1>12, <1>13, <1>14 DEF Opcodes, Terminators
<1> QED
  BY <1>2, <1>3, <1>4, <1>14, <1>15

(* The slots resolved, position by position.                               *)
LEMMA Resolved ==
    ASSUME NEW s, IsList(s), NEW frame
    PROVE  /\ IsList(Resolve(frame, s)) /\ Len(Resolve(frame, s)) = Len(s)
           /\ \A i \in 1..Len(s) : Resolve(frame, s)[i] = ResolveAlloca(frame, s[i])
<1>1. PICK n \in Nat : n = Len(s) /\ DOMAIN s = 1..n
  BY ListDomain
<1> DEFINE r == [i \in 1..n |-> ResolveAlloca(frame, s[i])]
<1>2. Resolve(frame, s) = r
  BY <1>1 DEF Resolve
<1>3. r \in Seq({ResolveAlloca(frame, s[i]) : i \in 1..n}) /\ Len(r) = n
  OBVIOUS
<1>4. \A i \in 1..n : r[i] = ResolveAlloca(frame, s[i])
  OBVIOUS
<1> HIDE DEF r
<1>5. IsList(r)
  BY <1>3, SeqIsList
<1> QED
  BY <1>1, <1>2, <1>3, <1>4, <1>5

(* A block's instructions one after another leave nothing on the stack.    *)
LEMMA NaiveLifts ==
    ASSUME NEW m, NEW cx, NEW s, IsList(s), \A i \in 1..Len(s) : Lowerable(m, cx, s[i])
    PROVE  Lifts(m, cx, LowerBlockNaive(s), 0, 0)
<1>1. PICK n \in Nat : n = Len(s) /\ DOMAIN s = 1..n
  BY ListDomain
<1> DEFINE pp == [i \in 1..n |-> LowerInstruction(s[i])]
           e == [i \in 1..(n + 1) |-> 0]
<1>2. LowerBlockNaive(s) = FlattenSeq(pp)
  BY <1>1 DEF LowerBlockNaive
<1>3. pp \in [1..n -> {LowerInstruction(s[i]) : i \in 1..n}] /\ \A i \in 1..n : pp[i] = LowerInstruction(s[i])
  OBVIOUS
<1>4. e \in [1..(n + 1) -> Nat] /\ \A i \in 1..(n + 1) : e[i] = 0
  OBVIOUS
<1> HIDE DEF pp, e
<1>5. \A i \in 1..n : Lifts(m, cx, pp[i], 0, 0)
  BY <1>1, <1>3, LowerLifts
<1>6. \A i \in 1..n : Lifts(m, cx, pp[i], e[i], e[i + 1])
  <2>. TAKE i \in 1..n
  <2>1. e[i] = 0 /\ e[i + 1] = 0
    BY <1>4
  <2>. QED
    BY <1>5, <2>1
<1>7. Climbs(m, cx, pp, e, n)
  BY <1>4, <1>6 DEF Climbs
<1>8. PICK X : pp \in [1..n -> X]
  BY <1>3
<1>9. \A i \in 1..n : IsList(pp[i])
  BY <1>5 DEF Lifts, Depths
<1>10. PICK T : pp \in [1..n -> Seq(T)]
  BY <1>8, <1>9, PiecesAreLists
<1>11. PICK start : Starts(pp, start)
  BY <1>10, HasStarts
<1>12. \E g : DepthsAt(m, cx, FlattenSeq(pp), g, start, e, n)
  BY <1>1, <1>7, <1>8, <1>11, FlattenLifts, Zenon
<1>13. PICK g : DepthsAt(m, cx, FlattenSeq(pp), g, start, e, n)
  BY <1>12
<1>14. PICK flat : flat = FlattenSeq(pp)
  OBVIOUS
<1>15. Len(pp) = n /\ Flattens(pp, flat, start)
  BY <1>10, <1>11, <1>14, FlattenFlattens
<1>16. start[1] = 0 /\ Len(flat) = start[n + 1]
  BY <1>15 DEF Flattens, LaidOut, Starts
<1>17. Depths(m, cx, flat, g) /\ \A i \in 1..(n + 1) : g[start[i] + 1] = e[i]
  BY <1>13, <1>14 DEF DepthsAt
<1>18. 1 \in 1..(n + 1) /\ n + 1 \in 1..(n + 1) /\ 0 + 1 = 1
  OBVIOUS
<1>19. g[1] = 0 /\ g[Len(flat) + 1] = 0
  BY <1>4, <1>16, <1>17, <1>18
<1>20. Lifts(m, cx, flat, 0, 0)
  BY <1>17, <1>19 DEF Lifts
<1> QED
  BY <1>2, <1>14, <1>20

(* Where a block ends in a ret, so does its code.                          *)
LEMMA NaiveLast ==
    ASSUME NEW m, NEW cx, NEW s, IsList(s), \A i \in 1..Len(s) : Lowerable(m, cx, s[i]),
           s # <<>>, s[Len(s)].op = "ret"
    PROVE  /\ LowerBlockNaive(s) # <<>>
           /\ LowerBlockNaive(s)[Len(LowerBlockNaive(s))].op = "return"
<1>1. PICK n \in Nat \ {0} : n = Len(s) /\ DOMAIN s = 1..n
  BY ListDomain DEF IsList
<1> DEFINE pp == [i \in 1..n |-> LowerInstruction(s[i])]
<1>2. LowerBlockNaive(s) = FlattenSeq(pp)
  BY <1>1 DEF LowerBlockNaive
<1>3. pp \in [1..n -> {LowerInstruction(s[i]) : i \in 1..n}] /\ \A i \in 1..n : pp[i] = LowerInstruction(s[i])
  OBVIOUS
<1> HIDE DEF pp
<1>4. \A i \in 1..n : Lifts(m, cx, pp[i], 0, 0)
  BY <1>1, <1>3, LowerLifts
<1>5. \A i \in 1..n : IsList(pp[i])
  BY <1>4 DEF Lifts, Depths
<1> DEFINE ins == s[n]
           t == OpcodeFor(ins)
<1>6. n \in 1..n /\ Lowerable(m, cx, ins) /\ ins.op = "ret"
  BY <1>1
<1>7. ins.dest = NoName
  BY <1>6 DEF Lowerable, IntBinaryOps, FloatBinaryOps, Compares, IntCompares, FloatCompares, Conversions,
              IntConversions, Prints
<1>8. LowerInstruction(ins) = (PushAll(ins.args) \o <<t>>) \o <<>>
  <2>1. Park(ins) = <<>>
    BY <1>7 DEF Park
  <2>2. /\ ins.op # "alloca" /\ ins.op # "load" /\ ins.op # "store" /\ ins.op # "gep"
        /\ ins.op # "neg" /\ ins.op # "not"
    BY <1>6
  <2>. QED
    BY <2>1, <2>2, Zenon DEF LowerInstruction
<1>9. t.op = "return"
  BY <1>6 DEF OpcodeFor, Simple, StackOp
<1> HIDE DEF t, ins
<1>10. IsList(PushAll(ins.args))
  <2>1. Operands(ins.args)
    BY <1>6 DEF Lowerable
  <2>2. Lifts(m, cx, PushAll(ins.args), 0, 0 + Len(ins.args))
    BY <2>1, PushAllLifts
  <2>. QED
    BY <2>2 DEF Lifts, Depths
<1>11. PICK q : q = PushAll(ins.args) \o <<t>>
  OBVIOUS
<1>12. IsList(q) /\ Len(q) = Len(PushAll(ins.args)) + 1 /\ Len(PushAll(ins.args)) \in Nat
  BY <1>10, <1>11, ListOne, ListJoin, ListDomain
<1>13. q[Len(PushAll(ins.args)) + 1] = t
  <2>1. 1 \in 1..Len(<<t>>)
    BY ListOne
  <2>2. (PushAll(ins.args) \o <<t>>)[Len(PushAll(ins.args)) + 1] = <<t>>[1]
    BY <1>10, <2>1, ListOne, ListJoin
  <2>. QED
    BY <1>11, <2>2, ListOne
<1>14. q \o <<>> = q
  BY <1>12 DEF IsList
<1>15. pp[n] = q
  BY <1>3, <1>6, <1>8, <1>11, <1>14 DEF ins
<1>16. q # <<>> /\ q[Len(q)] = t
  BY <1>12, <1>13, ListNone
<1>17. pp[n] # <<>> /\ pp[n][Len(pp[n])] = t
  BY <1>15, <1>16
<1>18. PICK X : pp \in [1..n -> X]
  BY <1>3
<1>19. /\ FlattenSeq(pp) # <<>>
       /\ FlattenSeq(pp)[Len(FlattenSeq(pp))] = pp[n][Len(pp[n])]
  BY <1>5, <1>17, <1>18, FlattenLast
<1> QED
  BY <1>2, <1>9, <1>17, <1>19

(* Branches name blocks by index while a function is being emitted.        *)
Indexed(fn) == [ret |-> fn.ret, to |-> DOMAIN fn.blocks]

(* The index of a label a branch may name is that of a block.              *)
LEMMA BlockIndexFound ==
    ASSUME NEW fn, IsFunction(fn), CheckCfg(fn) = {}, NEW l \in Labels(fn)
    PROVE  BlockIndex(fn, l) \in DOMAIN fn.blocks
<1>1. PICK i \in DOMAIN fn.blocks : fn.blocks[i].label = l
  BY DEF Labels
<1>2. UniqueLabels(fn) /\ IsList(fn.blocks)
  BY CheckedGraph DEF IsFunction
<1>3. \A m \in 1..(i - 1) : fn.blocks[m].label # l
  <2>1. SUFFICES ASSUME NEW m \in 1..(i - 1), fn.blocks[m].label = l PROVE FALSE
    OBVIOUS
  <2>2. m \in DOMAIN fn.blocks /\ m # i
    BY <1>1, <1>2, ListDomain
  <2>. QED
    BY <1>1, <1>2, <2>1, <2>2 DEF UniqueLabels
<1> QED
  BY <1>1, <1>3 DEF BlockIndex

(* The instructions of a block: one terminator, at the end.                *)
LEMMA BlockShape ==
    ASSUME NEW m, NEW fn, Sound(m, fn), NEW n \in DOMAIN fn.blocks
    PROVE  LET s == fn.blocks[n].instrs
           IN /\ IsList(s) /\ s # <<>> /\ Len(s) \in Nat \ {0} /\ HasTerminator(fn.blocks[n])
              /\ Last(s) = s[Len(s)] /\ IsTerminator(s[Len(s)])
              /\ \A i \in 1..Len(s) : s[i] \in Instructions(fn)
              /\ \A i \in 1..(Len(s) - 1) : ~IsTerminator(s[i])
              /\ Range(s[Len(s)].labels) \subseteq Labels(fn)
<1>1. /\ IsFunction(fn) /\ EndsInTerminator(fn) /\ NothingAfterTerminator(fn) /\ TargetsExist(fn)
  BY CheckedGraph DEF Sound
<1>2. fn.blocks[n] \in Range(fn.blocks)
  BY DEF Range
<1> DEFINE b == fn.blocks[n]
<1>3. b \in Range(fn.blocks) /\ IsList(b.instrs)
  BY <1>1, <1>2 DEF IsFunction
<1>4. HasTerminator(b) /\ \A j \in 1..(Len(b.instrs) - 1) : ~IsTerminator(b.instrs[j])
  BY <1>1, <1>3 DEF EndsInTerminator, NothingAfterTerminator
<1>5. Range(BlockSuccessors(b)) \subseteq Labels(fn)
  BY <1>1, <1>3 DEF TargetsExist
<1>6. BlockSuccessors(b) = b.instrs[Len(b.instrs)].labels
  BY <1>4 DEF BlockSuccessors
<1>7. b.instrs # <<>> /\ IsTerminator(b.instrs[Len(b.instrs)])
  BY <1>4 DEF HasTerminator
<1>8. \A i \in 1..Len(b.instrs) : b.instrs[i] \in Instructions(fn)
  <2>. TAKE i \in 1..Len(b.instrs)
  <2>1. b.instrs[i] \in Range(b.instrs)
    BY <1>3, ListDomain DEF Range
  <2>. QED
    BY <1>3, <2>1 DEF Instructions
<1>9. Len(b.instrs) \in Nat \ {0}
  BY <1>3, <1>7 DEF IsList
<1>10. Last(b.instrs) = b.instrs[Len(b.instrs)]
  BY DEF Last
<1> QED
  BY <1>3, <1>4, <1>5, <1>6, <1>7, <1>8, <1>9, <1>10

(* A block without its branch leaves what the branch takes.                *)
Leaves(m, cx, term, code) ==
    /\ term.op = "ret" => Lifts(m, cx, code, 0, 0) /\ code # <<>> /\ code[Len(code)].op = "return"
    /\ term.op = "br" => Lifts(m, cx, code, 0, 0)
    /\ term.op = "br.cond" => Lifts(m, cx, code, 0, 1)

(* The code of a block up to its branch leaves what its branch takes.      *)
LEMMA LoweredLifts ==
    ASSUME NEW m, Runnable(m), NEW f \in DOMAIN m.funcs, NEW frame,
           NEW fn, fn = m.funcs[f], NEW n \in DOMAIN fn.blocks, NEW cx, cx.ret = fn.ret,
           NEW term, term = Last(fn.blocks[n].instrs)
    PROVE  Leaves(m, cx, term, Lowered(fn, frame, n))
<1>1. Sound(m, fn)
  BY DEF Runnable, WellTyped
<1> DEFINE s == fn.blocks[n].instrs
           r == Resolve(frame, s)
           k == Len(s)
<1>2. /\ IsList(s) /\ s # <<>> /\ k \in Nat \ {0} /\ term = s[k] /\ IsTerminator(term)
      /\ \A i \in 1..k : s[i] \in Instructions(fn)
      /\ \A i \in 1..(k - 1) : ~IsTerminator(s[i])
  BY <1>1, BlockShape
<1>3. IsList(r) /\ Len(r) = k /\ \A i \in 1..k : r[i] = ResolveAlloca(frame, s[i])
  BY <1>2, Resolved
<1> DEFINE Naive == IF term.op = "ret" THEN LowerBlockNaive(r)
                    ELSE LowerBlockNaive(Front(r)) \o PushAll(term.args)
<1>4. term.op # "alloca" /\ Operands(term.args) /\ ResolveAlloca(frame, term) = term
      /\ (term.op = "br" => Len(term.args) = 0) /\ (term.op = "br.cond" => Len(term.args) = 1)
  <2>1. term \in Instructions(fn) /\ term.op \in Terminators
    BY <1>2 DEF IsTerminator
  <2>2. term.op # "alloca"
    BY <2>1 DEF Terminators
  <2>. QED
    BY <2>1, <2>2, InstrLowerable
<1>5. r[k] = term /\ Last(r) = term /\ r # <<>>
  <2>. HIDE DEF r, s, k
  <2>1. k \in 1..k /\ s[k] = term /\ k # 0
    BY <1>2
  <2>2. r[k] = ResolveAlloca(frame, s[k])
    BY <1>3, <2>1
  <2>3. r[k] = term
    BY <1>4, <2>1, <2>2
  <2>4. Last(r) = r[Len(r)]
    BY DEF Last
  <2>5. Len(r) # 0
    BY <1>3, <2>1
  <2>. QED
    BY <1>3, <2>3, <2>4, <2>5, ListNone
<1>6. Lowered(fn, frame, n) = Peephole(Naive, r, LiveOut(fn, n))
  BY <1>5 DEF Lowered
<1>7. \A i \in 1..(k - 1) : Lowerable(m, cx, r[i])
  <2>. TAKE i \in 1..(k - 1)
  <2>1. i \in 1..k /\ s[i] \in Instructions(fn) /\ s[i].op \notin {"br", "br.cond"}
    BY <1>2 DEF IsTerminator, Terminators
  <2>2. Lowerable(m, cx, ResolveAlloca(frame, s[i]))
    BY <2>1, InstrLowerable
  <2>. QED
    BY <1>3, <2>1, <2>2
<1> HIDE DEF r, s, k
<1>8. ASSUME term.op = "ret"
      PROVE  /\ Lifts(m, cx, Lowered(fn, frame, n), 0, 0)
             /\ Lowered(fn, frame, n) # <<>>
             /\ Lowered(fn, frame, n)[Len(Lowered(fn, frame, n))].op = "return"
  <2>1. Lowerable(m, cx, r[k])
    <3>1. term \in Instructions(fn) /\ term.op \notin {"br", "br.cond"}
      BY <1>2, <1>8
    <3>2. Lowerable(m, cx, ResolveAlloca(frame, term))
      BY <3>1, InstrLowerable
    <3>. QED
      BY <1>4, <1>5, <3>2
  <2>2. \A i \in 1..Len(r) : Lowerable(m, cx, r[i])
    <3>1. \A i \in 1..k : i = k \/ i \in 1..(k - 1)
      BY <1>2
    <3>. QED
      BY <1>3, <1>7, <2>1, <3>1
  <2>3. PICK q : q = LowerBlockNaive(r)
    OBVIOUS
  <2>4. Lifts(m, cx, q, 0, 0)
    BY <1>3, <2>2, <2>3, NaiveLifts
  <2>5. r[Len(r)].op = "ret"
    BY <1>3, <1>5, <1>8
  <2>6. q # <<>> /\ q[Len(q)].op = "return"
    BY <1>3, <1>5, <2>2, <2>3, <2>5, NaiveLast
  <2>7. q[Len(q)].op # "local.get"
    BY <2>6
  <2>8. PICK p : p = Peephole(q, r, LiveOut(fn, n))
    OBVIOUS
  <2>9. Lifts(m, cx, p, 0, 0) /\ p # <<>> /\ p[Len(p)] = q[Len(q)]
    BY <2>4, <2>6, <2>7, <2>8, PeepholeLifts
  <2>10. Lowered(fn, frame, n) = p
    BY <1>6, <1>8, <2>3, <2>8
  <2>. QED
    BY <2>6, <2>9, <2>10
<1>9. ASSUME term.op # "ret"
      PROVE  Lifts(m, cx, Lowered(fn, frame, n), 0, Len(term.args))
  <2>1. IsList(Front(r)) /\ Len(Front(r)) = k - 1
    <3>1. k - 1 \in Nat /\ k - 1 <= Len(r)
      BY <1>2, <1>3
    <3>2. Front(r) = SubSeq(r, 1, k - 1)
      BY <1>3 DEF Front
    <3>. QED
      BY <1>3, <3>1, <3>2, ListSub
  <2>2. \A i \in 1..Len(Front(r)) : Lowerable(m, cx, Front(r)[i])
    <3>1. Front(r) = SubSeq(r, 1, k - 1) /\ r \in Seq(Range(r)) /\ Len(r) = k
      BY <1>3 DEF Front, IsList
    <3>2. \A i \in 1..(k - 1) : Front(r)[i] = r[i]
      BY <1>2, <3>1
    <3>. QED
      BY <1>7, <2>1, <3>2
  <2>3. PICK q : q = LowerBlockNaive(Front(r))
    OBVIOUS
  <2>4. Lifts(m, cx, q, 0, 0)
    BY <2>1, <2>2, <2>3, NaiveLifts
  <2>5. Lifts(m, cx, PushAll(term.args), 0, 0 + Len(term.args)) /\ Len(term.args) \in Nat
    BY <1>4, PushAllLifts, ListDomain DEF Operands
  <2>6. Lifts(m, cx, PushAll(term.args), 0, Len(term.args))
    BY <2>5
  <2>7. Lifts(m, cx, q \o PushAll(term.args), 0, Len(term.args))
    BY <2>4, <2>6, LiftsJoin
  <2>8. Naive = q \o PushAll(term.args)
    BY <1>9, <2>3
  <2>9. Lifts(m, cx, Naive, 0, Len(term.args))
    BY <2>7, <2>8
  <2>10. Lifts(m, cx, Peephole(Naive, r, LiveOut(fn, n)), 0, Len(term.args))
    BY <2>9, PeepholeLifts
  <2>. QED
    BY <1>6, <2>10
<1> QED
  BY <1>4, <1>8, <1>9 DEF Leaves

(* The last element of two lists joined.                                   *)
LEMMA JoinLast ==
    ASSUME NEW s, NEW t, IsList(s), IsList(t), t # <<>>
    PROVE  s \o t # <<>> /\ (s \o t)[Len(s \o t)] = t[Len(t)]
<1>1. Len(s) \in Nat /\ Len(t) \in Nat \ {0}
  BY DEF IsList
<1>2. Len(s \o t) = Len(s) + Len(t)
  BY ListJoin
<1>3. Len(t) \in 1..Len(t)
  BY <1>1
<1>4. (s \o t)[Len(s) + Len(t)] = t[Len(t)]
  BY <1>3, ListJoin
<1>5. Len(s \o t) # 0
  BY <1>1, <1>2
<1> QED
  BY <1>2, <1>4, <1>5, ListNone

(* A jump, or nothing where the target follows, takes what a jump takes.   *)
LEMMA JumpLifts ==
    ASSUME NEW m, NEW cx, NEW t, t \in cx.to, NEW n
    PROVE  /\ Lifts(m, cx, EmitJump("jmp", t, n), 0, 0)
           /\ Lifts(m, cx, EmitJump("jz", t, n), 1, 0)
           /\ t # n + 1 => EmitJump("jmp", t, n) # <<>> /\ EmitJump("jmp", t, n)[Len(EmitJump("jmp", t, n))].op = "jmp"
<1> DEFINE j == WithTarget("jmp", t)
           z == WithTarget("jz", t)
<1>1. j.op = "jmp" /\ j.imm = t /\ z.op = "jz" /\ z.imm = t
  BY DEF WithTarget, StackOp
<1>2. EmitJump("jmp", t, n) = (IF t = n + 1 THEN <<>> ELSE <<j>>) /\ EmitJump("jz", t, n) = <<z>>
  BY DEF EmitJump
<1> HIDE DEF j, z
<1>3. Moves(m, cx, j, 0, 0) /\ Moves(m, cx, z, 1, 0)
  BY <1>1 DEF Moves
<1>4. Lifts(m, cx, <<j>>, 0, 0) /\ Lifts(m, cx, <<z>>, 1, 0)
  BY <1>3, LiftsOne
<1>5. Lifts(m, cx, <<>>, 0, 0)
  BY LiftsNone
<1>6. <<j>> # <<>> /\ <<j>>[Len(<<j>>)].op = "jmp"
  BY <1>1, ListOne, ListNone
<1> QED
  BY <1>2, <1>4, <1>5, <1>6

(* The code of a block leaves nothing on the stack, and the code of the    *)
(* last one does not run past its end.                                     *)
LastEnds(fn, n, code) ==
    n = Len(fn.blocks) => code # <<>> /\ code[Len(code)].op \in {"return", "jmp"}

(* The code of a block starts and ends with an empty stack (lowerBlock),   *)
(* and that of the last block does not run past its end.                   *)
LEMMA BlockLifts ==
    ASSUME NEW m, Runnable(m), NEW f \in DOMAIN m.funcs, NEW frame,
           NEW fn, fn = m.funcs[f], NEW n \in DOMAIN fn.blocks
    PROVE  /\ Lifts(m, Indexed(fn), BlockCode(fn, frame, n), 0, 0)
           /\ LastEnds(fn, n, BlockCode(fn, frame, n))
<1> USE DEF LastEnds
<1>1. Sound(m, fn) /\ IsFunction(fn) /\ CheckCfg(fn) = {}
  BY DEF Runnable, WellTyped, Sound
<1> DEFINE s == fn.blocks[n].instrs
<1>2. PICK term : term = Last(s)
  OBVIOUS
<1>3. /\ HasTerminator(fn.blocks[n]) /\ IsTerminator(term) /\ term \in Instructions(fn)
      /\ Range(term.labels) \subseteq Labels(fn)
  <2>1. /\ IsList(s) /\ Len(s) \in Nat \ {0} /\ HasTerminator(fn.blocks[n])
        /\ Last(s) = s[Len(s)] /\ IsTerminator(s[Len(s)])
        /\ \A i \in 1..Len(s) : s[i] \in Instructions(fn)
        /\ Range(s[Len(s)].labels) \subseteq Labels(fn)
    BY <1>1, BlockShape
  <2>. HIDE DEF s
  <2>2. Len(s) \in 1..Len(s)
    BY <2>1
  <2>. QED
    BY <1>2, <2>1, <2>2
<1>a. PICK cx : cx = Indexed(fn)
  OBVIOUS
<1>4. cx = Indexed(fn) /\ cx.ret = fn.ret /\ cx.to = DOMAIN fn.blocks
  BY <1>a DEF Indexed
<1>5. PICK low : low = Lowered(fn, frame, n)
  OBVIOUS
<1>6. /\ term.op = "ret" => Lifts(m, cx, low, 0, 0) /\ low # <<>> /\ low[Len(low)].op = "return"
      /\ term.op = "br" => Lifts(m, cx, low, 0, 0)
      /\ term.op = "br.cond" => Lifts(m, cx, low, 0, 1)
  <2>1. cx.ret = fn.ret /\ term = Last(fn.blocks[n].instrs)
    BY <1>2, <1>4
  <2>2. Leaves(m, cx, term, Lowered(fn, frame, n))
    BY <2>1, LoweredLifts, Zenon
  <2>. QED
    BY <1>5, <2>2 DEF Leaves
<1>7. BlockCode(fn, frame, n) = low \o Jumps(fn, n, term)
  BY <1>2, <1>3, <1>5 DEF BlockCode
<1>8. \A l \in Labels(fn) : BlockIndex(fn, l) \in cx.to
  BY <1>1, <1>4, BlockIndexFound
<1>9. IsInstr(term)
  BY <1>1, <1>3, CheckedInstr
<1>10. DOMAIN fn.blocks = 1..Len(fn.blocks) /\ Len(fn.blocks) \in Nat
  BY <1>1, ListDomain DEF IsFunction
<1>11. \A t \in cx.to : n = Len(fn.blocks) => t # n + 1
  BY <1>4, <1>10
<1> HIDE DEF s
<1>12. CASE term.op = "ret"
  <2>1. Jumps(fn, n, term) = <<>>
    BY <1>12 DEF Jumps
  <2>2. IsList(low)
    BY <1>6, <1>12 DEF Lifts, Depths
  <2>3. low \o <<>> = low
    BY <2>2 DEF IsList
  <2>. QED
    BY <1>4, <1>6, <1>7, <1>12, <2>1, <2>3
<1>13. CASE term.op = "br"
  <2>1. IsList(term.labels) /\ Len(term.labels) = 1
    BY <1>9, <1>13 DEF IsInstr
  <2>2. term.labels[1] \in Range(term.labels)
    BY <2>1 DEF IsList
  <2>3. PICK t \in cx.to : t = BlockIndex(fn, term.labels[1])
    BY <1>3, <1>8, <2>2
  <2>4. PICK j : j = EmitJump("jmp", t, n)
    OBVIOUS
  <2>5. Jumps(fn, n, term) = j
    BY <1>13, <2>3, <2>4 DEF Jumps
  <2>6. Lifts(m, cx, j, 0, 0) /\ (t # n + 1 => j # <<>> /\ j[Len(j)].op = "jmp")
    BY <2>4, JumpLifts
  <2>7. Lifts(m, cx, low, 0, 0)
    BY <1>6, <1>13
  <2>a. Lifts(m, cx, low \o j, 0, 0)
    BY <2>6, <2>7, LiftsJoin
  <2>8. Lifts(m, cx, low \o j, 0, 0) /\ IsList(low) /\ IsList(j)
    BY <2>a, <2>6, <2>7 DEF Lifts, Depths
  <2>9. n = Len(fn.blocks) => low \o j # <<>> /\ (low \o j)[Len(low \o j)].op = "jmp"
    BY <1>11, <2>6, <2>8, JoinLast
  <2>. QED
    BY <1>4, <1>7, <2>5, <2>8, <2>9
<1>14. CASE term.op = "br.cond"
  <2>1. IsList(term.labels) /\ Len(term.labels) = 2
    BY <1>9, <1>14 DEF IsInstr
  <2>2. term.labels[1] \in Range(term.labels) /\ term.labels[2] \in Range(term.labels)
    BY <2>1 DEF IsList
  <2>3. PICK t \in cx.to : t = BlockIndex(fn, term.labels[1])
    BY <1>3, <1>8, <2>2
  <2>4. PICK u \in cx.to : u = BlockIndex(fn, term.labels[2])
    BY <1>3, <1>8, <2>2
  <2>5. PICK j : j = EmitJump("jmp", t, n)
    OBVIOUS
  <2>6. PICK z : z = EmitJump("jz", u, n)
    OBVIOUS
  <2>7. Jumps(fn, n, term) = z \o j
    BY <1>14, <2>3, <2>4, <2>5, <2>6 DEF Jumps
  <2>8. Lifts(m, cx, j, 0, 0) /\ (t # n + 1 => j # <<>> /\ j[Len(j)].op = "jmp")
    BY <2>5, JumpLifts
  <2>9. Lifts(m, cx, z, 1, 0)
    BY <2>6, JumpLifts
  <2>10. Lifts(m, cx, low, 0, 1)
    BY <1>6, <1>14
  <2>11. PICK zj : zj = z \o j
    OBVIOUS
  <2>12. Lifts(m, cx, zj, 1, 0)
    BY <2>8, <2>9, <2>11, LiftsJoin
  <2>13. Lifts(m, cx, low \o zj, 0, 0)
    BY <2>10, <2>12, LiftsJoin
  <2>14. IsList(low) /\ IsList(j) /\ IsList(z) /\ IsList(zj)
    BY <2>8, <2>9, <2>10, <2>12 DEF Lifts, Depths
  <2>15. n = Len(fn.blocks) => zj # <<>> /\ zj[Len(zj)].op = "jmp"
    BY <1>11, <2>8, <2>11, <2>14, JoinLast
  <2>16. n = Len(fn.blocks) => low \o zj # <<>> /\ (low \o zj)[Len(low \o zj)].op = "jmp"
    BY <2>14, <2>15, JoinLast
  <2>. QED
    BY <1>4, <1>7, <2>7, <2>11, <2>13, <2>16
<1> QED
  BY <1>3, <1>12, <1>13, <1>14 DEF IsTerminator, Terminators

(* Only a jump's number means anything to what it takes.                   *)
LEMMA MovesAlike ==
    ASSUME NEW m, NEW cx, NEW cy, cx.ret = cy.ret, NEW op, NEW new, NEW a, NEW b,
           Moves(m, cx, op, a, b), new.op = op.op, new.text = op.text, op.op \notin {"jmp", "jz"}
    PROVE  Moves(m, cy, new, a, b)
BY DEF Moves

(* Indices become addresses, registers slots.                              *)
LEMMA PatchMoves ==
    ASSUME NEW m, NEW cx, NEW cy, cy.ret = cx.ret, NEW start, cx.to = DOMAIN start, cy.to = Range(start),
           NEW op, NEW a, NEW b, Moves(m, cx, op, a, b), NEW locals
    PROVE  /\ Moves(m, cy, Slotted(Patch(op, start), locals), a, b)
           /\ Slotted(Patch(op, start), locals).op = op.op
<1> DEFINE new(n) == Renumbered(op, n)
<1>1. \A n : new(n).op = op.op /\ new(n).text = op.text /\ new(n).imm = n
  BY DEF Renumbered, StackOp
<1>2. CASE op.op \in {"jmp", "jz"}
  <2>1. op.imm \in cx.to
    BY <1>2, MovesOfControl DEF ControlMove
  <2>2. Patch(op, start) = new(start[op.imm])
    BY <1>2, <2>1 DEF Patch
  <2>3. PICK q : q = new(start[op.imm])
    OBVIOUS
  <2>4. q.op = op.op /\ q.imm = start[op.imm]
    BY <1>1, <2>3
  <2>5. Slotted(q, locals) = q
    BY <1>2, <2>4 DEF Slotted, IsLocal
  <2>6. q.imm \in cy.to
    BY <2>1, <2>4 DEF Range
  <2>7. /\ op.op = "jmp" => a = 0 /\ b = 0
        /\ op.op = "jz" => a = 1 /\ b = 0
    BY MovesOfControl DEF ControlMove
  <2>8. Moves(m, cy, q, a, b)
    BY <1>2, <2>4, <2>6, <2>7 DEF Moves
  <2>. QED
    BY <2>2, <2>3, <2>4, <2>5, <2>8
<1>3. CASE op.op \notin {"jmp", "jz"}
  <2>1. Patch(op, start) = op
    BY <1>3 DEF Patch
  <2>2. PICK q : q = Slotted(op, locals)
    OBVIOUS
  <2>3. q.op = op.op /\ q.text = op.text
    <3>1. q = op \/ q = new(SlotOf(locals, op.text))
      BY <2>2 DEF Slotted
    <3>. QED
      BY <1>1, <3>1
  <2>4. Moves(m, cy, q, a, b)
    BY <1>3, <2>3, MovesAlike
  <2>. QED
    BY <2>1, <2>2, <2>3, <2>4
<1> QED
  BY <1>2, <1>3

(* Where a piece starts is how long the pieces before it are together.     *)
LEMMA StartsBefore ==
    ASSUME NEW T, NEW n \in Nat, NEW ss \in [1..n -> Seq(T)], NEW start, Starts(ss, start),
           NEW k \in 1..n
    PROVE  Len(FlattenSeq(SubSeq(ss, 1, k - 1))) = start[k]
<1>0. Len(ss) = n
  OBVIOUS
<1>1. /\ start \in [1..(n + 1) -> Nat] /\ start[1] = 0
      /\ \A i \in 1..n : start[i + 1] = start[i] + Len(ss[i])
  BY <1>0 DEF Starts
<1>2. PICK j \in Nat : j = k - 1 /\ j + 1 = k
  <2>1. k - 1 \in Nat /\ (k - 1) + 1 = k
    OBVIOUS
  <2>. QED
    BY <2>1
<1> DEFINE tt == [i \in 1..j |-> ss[i]]
           begin == [i \in 1..(j + 1) |-> start[i]]
<1>3. SubSeq(ss, 1, j) = tt
  BY <1>0, <1>2
<1>4. tt \in [1..j -> Seq(T)] /\ \A i \in 1..j : tt[i] = ss[i]
  BY <1>2
<1>5. begin \in [1..(j + 1) -> Nat] /\ \A i \in 1..(j + 1) : begin[i] = start[i]
  BY <1>1, <1>2
<1>6. Len(tt) = j
  BY <1>2
<1> HIDE DEF tt, begin
<1>7. Starts(tt, begin)
  <2>1. \A i \in 1..j : i \in 1..n /\ i \in 1..(j + 1) /\ i + 1 \in 1..(j + 1)
    BY <1>2
  <2>2. \A i \in 1..j : begin[i + 1] = begin[i] + Len(tt[i])
    BY <1>1, <1>4, <1>5, <2>1
  <2>3. 1 \in 1..(j + 1)
    OBVIOUS
  <2>. QED
    BY <1>1, <1>5, <1>6, <2>2, <2>3 DEF Starts
<1>8. Flattens(tt, FlattenSeq(tt), begin)
  BY <1>4, <1>7, FlattenFlattens
<1>9. Len(FlattenSeq(tt)) = begin[j + 1]
  BY <1>6, <1>8 DEF Flattens, LaidOut
<1>10. j + 1 \in 1..(j + 1)
  OBVIOUS
<1> QED
  BY <1>2, <1>3, <1>5, <1>9, <1>10

-----------------------------------------------------------------------------
(* Induction over the subsets of a finite set.                             *)
Grows(S, G) == {} \in G /\ \A s \in (SUBSET S) \ {{}} : (\A x \in s : s \ {x} \in G) => s \in G
LEMMA SubsetsUp ==
    ASSUME NEW S, IsFiniteSet(S), NEW G, Grows(S, G)
    PROVE  SUBSET S \subseteq G
<1> DEFINE N == {k \in Nat : \A s \in SUBSET S : Cardinality(s) = k => s \in G}
<1>0. Cardinality({}) = 0 /\ \A s \in SUBSET S : Cardinality(s) = 0 => s = {}
  <2>1. \A s \in SUBSET S : IsFiniteSet(s)
    BY FS_Subset
  <2>. QED
    BY <2>1, FS_EmptySet, Zenon
<1>1. \A s \in SUBSET S : IsFiniteSet(s) /\ Cardinality(s) \in Nat
  BY FS_Subset, FS_CardinalityType
<1>2. 0 \in N
  BY <1>0 DEF Grows
<1>3. ASSUME NEW k \in Nat, k \in N PROVE k + 1 \in N
  <2>1. SUFFICES ASSUME NEW s \in SUBSET S, Cardinality(s) = k + 1 PROVE s \in G
    OBVIOUS
  <2>2. s # {}
    BY <1>0, <2>1
  <2>3. ASSUME NEW x \in s PROVE s \ {x} \in G
    <3>1. Cardinality(s \ {x}) = Cardinality(s) - 1
      BY <1>1, FS_RemoveElement, Zenon
    <3>. QED
      BY <1>3, <2>1, <3>1
  <2>. QED
    BY <2>2, <2>3 DEF Grows
<1>4. \A n \in Nat : n \in N
  <2>. TAKE n \in Nat
  <2>1. Inductive(N, 0, n)
    BY <1>2, <1>3 DEF Inductive
  <2>. HIDE DEF N
  <2>. QED
    BY <2>1, UpTo
<1> QED
  BY <1>1, <1>4

(* Values made one element of a set at a time: c says which element is     *)
(* taken out, st what it makes of the value for the rest.                  *)
Builds(S, c, st, base, g) ==
    \A s \in SUBSET S : g[s] = IF s = {} THEN base ELSE st[<<c[s], g[s \ {c[s]}]>>]
Picks(S, c) == \A s \in (SUBSET S) \ {{}} : c[s] \in s
LEMMA Built ==
    ASSUME NEW S, IsFiniteSet(S), NEW c, Picks(S, c), NEW V, NEW st \in [S \X V -> V], NEW base \in V
    PROVE  \E g \in [SUBSET S -> V] : Builds(S, c, st, base, g)
<1> DEFINE Small(k) == {s \in SUBSET S : Cardinality(s) <= k}
           Up(k, g) == /\ g \in [Small(k) -> V]
                       /\ \A s \in Small(k) : g[s] = IF s = {} THEN base ELSE st[<<c[s], g[s \ {c[s]}]>>]
           N == {k \in Nat : \E g : Up(k, g)}
<1>1. \A s \in SUBSET S : IsFiniteSet(s) /\ Cardinality(s) \in Nat
  BY FS_Subset, FS_CardinalityType
<1>2. 0 \in N
  <2> DEFINE g == [s \in Small(0) |-> base]
  <2>1. \A s \in Small(0) : s = {}
    <3>1. \A s \in SUBSET S : Cardinality(s) = 0 => s = {}
      BY <1>1, FS_EmptySet, Zenon
    <3>. QED
      BY <1>1, <3>1
  <2>2. Up(0, g)
    BY <2>1
  <2>. QED
    BY <2>2
<1>3. ASSUME NEW k \in Nat, k \in N PROVE k + 1 \in N
  <2>1. PICK g : Up(k, g)
    BY <1>3
  <2> DEFINE new == [s \in Small(k + 1) |-> IF s = {} THEN base ELSE st[<<c[s], g[s \ {c[s]}]>>]]
  <2>2. ASSUME NEW s \in Small(k + 1), s # {}
        PROVE  c[s] \in S /\ s \ {c[s]} \in Small(k)
    <3>1. c[s] \in s
      BY <2>2 DEF Picks
    <3>2. Cardinality(s \ {c[s]}) = Cardinality(s) - 1
      BY <1>1, <3>1, FS_RemoveElement
    <3>. QED
      BY <1>1, <2>2, <3>1, <3>2
  <2>3. ASSUME NEW s \in Small(k + 1), s # {} PROVE st[<<c[s], g[s \ {c[s]}]>>] \in V
    <3>1. g[s \ {c[s]}] \in V
      BY <2>1, <2>2, <2>3
    <3>. QED
      BY <2>2, <2>3, <3>1
  <2>4. \A s \in Small(k) : s \in Small(k + 1)
    BY <1>1
  <2>5. \A s \in Small(k) : new[s] = g[s]
    BY <2>1, <2>4
  <2>6. new \in [Small(k + 1) -> V]
    BY <2>3
  <2>7. \A s \in Small(k + 1) : new[s] = IF s = {} THEN base ELSE st[<<c[s], new[s \ {c[s]}]>>]
    BY <2>2, <2>5
  <2>8. Up(k + 1, new)
    BY <2>6, <2>7
  <2>. HIDE DEF new, Up
  <2>. QED
    BY <2>8
<1>4. \A n \in Nat : n \in N
  <2>. TAKE n \in Nat
  <2>1. Inductive(N, 0, n)
    BY <1>2, <1>3 DEF Inductive
  <2>. HIDE DEF N
  <2>. QED
    BY <2>1, UpTo
<1>5. PICK k \in Nat : k = Cardinality(S)
  BY <1>1
<1>6. Small(k) = SUBSET S
  BY <1>1, <1>5, FS_Subset
<1>7. PICK g : Up(k, g)
  BY <1>4
<1> QED
  BY <1>6, <1>7 DEF Builds

(* FoldSet with Append writes the elements of a finite set behind a list.  *)
LEMMA Appended ==
    ASSUME NEW T, NEW S \in SUBSET T, IsFiniteSet(S), NEW base \in Seq(T)
    PROVE  LET all == FoldSet(LAMBDA x, s : Append(s, x), base, S)
           IN /\ all \in Seq(T) /\ Len(base) <= Len(all)
              /\ \A i \in 1..Len(base) : all[i] = base[i]
              /\ Range(base) \cup S \subseteq Range(all)
<1> DEFINE c == [s \in SUBSET S |-> CHOOSE x \in s : TRUE]
           st == [z \in S \X Seq(T) |-> Append(z[2], z[1])]
<1>1. Picks(S, c)
  BY DEF Picks
<1>2. st \in [S \X Seq(T) -> Seq(T)]
  OBVIOUS
<1>3. PICK g \in [SUBSET S -> Seq(T)] : Builds(S, c, st, base, g)
  <2>. HIDE DEF c, st
  <2>. QED
    BY <1>1, <1>2, Built, Zenon
<1> DEFINE Is(h) == h = [s \in SUBSET S |->
                           IF s = {} THEN base
                           ELSE Append(h[s \ {CHOOSE x \in s : TRUE}], CHOOSE x \in s : TRUE)]
<1>4. Is(g)
  <2>1. ASSUME NEW s \in SUBSET S
        PROVE  g[s] = IF s = {} THEN base
                      ELSE Append(g[s \ {CHOOSE x \in s : TRUE}], CHOOSE x \in s : TRUE)
    <3>1. c[s] = CHOOSE x \in s : TRUE
      OBVIOUS
    <3>2. s # {} => c[s] \in S /\ s \ {c[s]} \in SUBSET S
      BY <1>1 DEF Picks
    <3>3. s # {} => st[<<c[s], g[s \ {c[s]}]>>] = Append(g[s \ {c[s]}], c[s])
      <4>. HIDE DEF c
      <4>. QED
        BY <3>2
    <3>. HIDE DEF c, st
    <3>. QED
      BY <1>3, <3>1, <3>3 DEF Builds
  <2>. QED
    BY <2>1
<1> DEFINE F == CHOOSE h : Is(h)
<1>5. Is(F)
  <2>. HIDE DEF Is
  <2>. QED
    BY <1>4
<1>6. FoldSet(LAMBDA x, s : Append(s, x), base, S) = F[S]
  BY DEF FoldSet, MapThenFoldSet
<1>7. F = [s \in SUBSET S |->
             IF s = {} THEN base
             ELSE Append(F[s \ {CHOOSE x \in s : TRUE}], CHOOSE x \in s : TRUE)]
  BY <1>5
<1> HIDE DEF F, Is
<1> DEFINE All(s, all) == /\ all \in Seq(T) /\ Len(base) <= Len(all)
                          /\ \A i \in 1..Len(base) : all[i] = base[i]
                          /\ Range(base) \cup s \subseteq Range(all)
           G == {s \in SUBSET S : All(s, F[s])}
<1>8. {} \in G
  <2>1. F[{}] = base
    BY <1>7
  <2>2. All({}, F[{}])
    BY <2>1
  <2>. HIDE DEF All
  <2>. QED
    BY <2>2
<1>9. ASSUME NEW s \in SUBSET S, NEW x \in s, All(s \ {x}, F[s \ {x}]), x = CHOOSE y \in s : TRUE
      PROVE  All(s, F[s])
  <2>1. PICK a : a = F[s \ {x}]
    OBVIOUS
  <2>2. F[s] = Append(a, x)
    BY <1>7, <1>9, <2>1
  <2>3. a \in Seq(T) /\ x \in T /\ All(s \ {x}, a)
    BY <1>9, <2>1
  <2>4. /\ Append(a, x) \in Seq(T) /\ Len(Append(a, x)) = Len(a) + 1
        /\ \A i \in 1..Len(a) : Append(a, x)[i] = a[i]
        /\ Append(a, x)[Len(a) + 1] = x
    BY <2>3
  <2>5. Len(a) \in Nat /\ Len(base) \in Nat /\ Len(base) <= Len(a)
    BY <2>3
  <2>6. ASSUME NEW y \in Range(base) \cup s PROVE y \in Range(Append(a, x))
    <3>1. DOMAIN Append(a, x) = 1..(Len(a) + 1) /\ DOMAIN a = 1..Len(a)
      BY <2>3, <2>4, <2>5
    <3>2. CASE y = x
      <4>1. Len(a) + 1 \in DOMAIN Append(a, x)
        BY <2>5, <3>1
      <4>. QED
        BY <2>4, <3>2, <4>1 DEF Range
    <3>3. CASE y # x
      <4>1. y \in Range(a)
        BY <2>3, <3>3
      <4>2. PICK i \in DOMAIN a : a[i] = y
        BY <4>1 DEF Range
      <4>3. i \in DOMAIN Append(a, x) /\ Append(a, x)[i] = y
        BY <2>4, <2>5, <3>1, <4>2
      <4>. QED
        BY <4>3 DEF Range
    <3>. QED
      BY <3>2, <3>3
  <2>7. \A i \in 1..Len(base) : Append(a, x)[i] = base[i]
    BY <2>3, <2>4, <2>5
  <2>8. Len(base) <= Len(Append(a, x))
    BY <2>4, <2>5
  <2>9. All(s, Append(a, x))
    BY <2>4, <2>6, <2>7, <2>8
  <2>. HIDE DEF All
  <2>. QED
    BY <2>2, <2>9
<1>10. \A s \in SUBSET S : All(s, F[s])
  <2>1. ASSUME NEW s \in (SUBSET S) \ {{}}, \A x \in s : s \ {x} \in G PROVE s \in G
    <3>1. PICK x : x = CHOOSE y \in s : TRUE
      OBVIOUS
    <3>2. x \in s
      BY <3>1
    <3>3. All(s \ {x}, F[s \ {x}])
      BY <2>1, <3>2
    <3>4. All(s, F[s])
      <4>. HIDE DEF All
      <4>. QED
        BY <1>9, <3>1, <3>2, <3>3, Zenon
    <3>. QED
      BY <3>4
  <2>. HIDE DEF All
  <2>2. SUBSET S \subseteq G
    <3>1. \A s \in (SUBSET S) \ {{}} : (\A x \in s : s \ {x} \in G) => s \in G
      <4>. HIDE DEF G
      <4>. QED
        BY <2>1
    <3>2. Grows(S, G)
      <4>. HIDE DEF G
      <4>. QED
        BY <1>8, <3>1 DEF Grows
    <3>. HIDE DEF G
    <3>. QED
      BY <3>2, SubsetsUp
  <2>. QED
    BY <2>2
<1> QED
  BY <1>6, <1>10

(* A nonempty set of positions has a last one.                             *)
LEMMA LastOf ==
    ASSUME NEW n \in Nat, NEW S \in SUBSET (1..n), S # {}
    PROVE  Max(S) \in S /\ \A i \in S : i <= Max(S)
<1> DEFINE B == {n - i : i \in S}
<1>1. B \in SUBSET Nat /\ B # {}
  <2>1. \A i \in S : n - i \in Nat
    OBVIOUS
  <2>2. PICK i \in S : TRUE
    OBVIOUS
  <2>3. n - i \in B
    BY <2>2
  <2>. QED
    BY <2>1, <2>3
<1>2. PICK b \in B : \A a \in B : b <= a
  <2>. HIDE DEF B
  <2>. QED
    BY <1>1, LeastNat
<1>3. PICK i \in S : b = n - i
  BY <1>2
<1>4. \A j \in S : n - i <= n - j
  BY <1>2, <1>3
<1>5. \A j \in S : i >= j
  BY <1>4
<1>6. Max(S) \in S /\ \A j \in S : Max(S) >= j
  BY <1>5 DEF Max
<1> QED
  BY <1>6

(* The slots of a list of instructions have a size, whatever their count.  *)
Counted(s) == \A i \in DOMAIN s : Count(s[i]) \in Int
LEMMA PlacedSize ==
    ASSUME NEW s, IsList(s), Counted(s)
    PROVE  FoldLeft(Place, [offset |-> <<>>, size |-> 0], s).size \in Int
<1>d. PICK X : X = DOMAIN s
  OBVIOUS
<1> DEFINE O == UNION {[D -> Int] : D \in SUBSET {s[i].dest : i \in X}}
           base == [offset |-> <<>>, size |-> 0]
           c == [d \in SUBSET X |-> Max(d)]
<1>0. PICK V : V = [offset : O, size : Int]
  OBVIOUS
<1> DEFINE st == [z \in X \X V |-> Place(z[2], s[z[1]])]
<1>1. PICK n \in Nat : X = 1..n
  BY <1>d, ListDomain
<1>2. Picks(X, c)
  BY <1>1, LastOf DEF Picks
<1>3. base \in V
  <2>1. <<>> \in [{} -> Int] /\ {} \in SUBSET {s[i].dest : i \in X}
    OBVIOUS
  <2>2. <<>> \in O
    BY <2>1
  <2>. HIDE DEF O
  <2>. QED
    BY <1>0, <2>2
<1>4. ASSUME NEW v \in V, NEW i \in X PROVE Place(v, s[i]) \in V
  <2>1. SUFFICES ASSUME ~(s[i].op # "alloca" \/ s[i].dest = NoName) PROVE Place(v, s[i]) \in V
    BY DEF Place
  <2> DEFINE start == RoundUp(v.size, SizeOf(s[i].ty))
  <2>2. SizeOf(s[i].ty) \in {4, 8}
    BY DEF SizeOf
  <2>a. v.size \in Int /\ v.offset \in O
    <3>. HIDE DEF O
    <3>. QED
      BY <1>0
  <2>3. start \in Int /\ start + SizeOf(s[i].ty) * Count(s[i]) \in Int
    BY <1>d, <2>a, <2>2 DEF RoundUp, Counted
  <2>4. PICK D \in SUBSET {s[j].dest : j \in X} : v.offset \in [D -> Int]
    BY <2>a
  <2>5. Bind(v.offset, s[i].dest, start) \in [D \cup {s[i].dest} -> Int]
    BY <2>3, <2>4 DEF Bind
  <2>6. D \cup {s[i].dest} \in SUBSET {s[j].dest : j \in X}
    OBVIOUS
  <2>7. Bind(v.offset, s[i].dest, start) \in O
    BY <2>5, <2>6
  <2>8. Place(v, s[i]) = [offset |-> Bind(v.offset, s[i].dest, start),
                          size |-> start + SizeOf(s[i].ty) * Count(s[i])]
    BY <2>1 DEF Place
  <2>. HIDE DEF start, O
  <2>. QED
    BY <1>0, <2>3, <2>7, <2>8
<1>5. IsFiniteSet(X)
  BY <1>1, FS_Interval
<1>6. st \in [X \X V -> V]
  <2>1. ASSUME NEW z \in X \X V PROVE Place(z[2], s[z[1]]) \in V
    <3>1. z[1] \in X /\ z[2] \in V
      <4>. HIDE DEF O
      <4>. QED
        BY <2>1
    <3>. HIDE DEF O
    <3>. QED
      BY <1>4, <3>1
  <2>. HIDE DEF O
  <2>. QED
    BY <2>1
<1>7. PICK g \in [SUBSET X -> V] : Builds(X, c, st, base, g)
  <2>. HIDE DEF c, st, base
  <2>. QED
    BY <1>2, <1>3, <1>5, <1>6, Built, Zenon
<1> DEFINE Is(h) == h = [d \in SUBSET X |->
                           IF d = {} THEN base ELSE Place(h[d \ {Max(d)}], s[Max(d)])]
<1>8. Is(g)
  <2>1. ASSUME NEW d \in SUBSET X
        PROVE  g[d] = IF d = {} THEN base ELSE Place(g[d \ {Max(d)}], s[Max(d)])
    <3>1. c[d] = Max(d)
      OBVIOUS
    <3>2. d # {} => c[d] \in X /\ d \ {c[d]} \in SUBSET X
      BY <1>2 DEF Picks
    <3>3. d # {} => st[<<c[d], g[d \ {c[d]}]>>] = Place(g[d \ {c[d]}], s[c[d]])
      <4>1. SUFFICES ASSUME d # {} PROVE st[<<c[d], g[d \ {c[d]}]>>] = Place(g[d \ {c[d]}], s[c[d]])
        OBVIOUS
      <4>2. <<c[d], g[d \ {c[d]}]>> \in X \X V
        <5>. HIDE DEF c
        <5>. QED
          BY <3>2, <4>1
      <4>. HIDE DEF c
      <4>. QED
        BY <4>2
    <3>. HIDE DEF c, st, base
    <3>. QED
      BY <1>7, <3>1, <3>3 DEF Builds
  <2>. HIDE DEF base
  <2>. QED
    BY <2>1
<1> DEFINE F == CHOOSE h : Is(h)
<1>9. Is(F)
  <2>. HIDE DEF Is
  <2>. QED
    BY <1>8
<1>10. FoldLeft(Place, base, s) = F[X]
  BY <1>d DEF FoldLeft, MapThenFoldSet, Max
<1>11. F = [d \in SUBSET X |->
              IF d = {} THEN base ELSE Place(F[d \ {Max(d)}], s[Max(d)])]
  BY <1>9
<1> HIDE DEF F, Is
<1> DEFINE G == {d \in SUBSET X : F[d] \in V}
<1>12. {} \in G
  <2>. HIDE DEF base
  <2>. QED
    BY <1>3, <1>11
<1>13. ASSUME NEW d \in (SUBSET X) \ {{}}, \A x \in d : d \ {x} \in G PROVE d \in G
  <2>1. Max(d) \in d
    BY <1>1, LastOf
  <2>2. F[d \ {Max(d)}] \in V /\ Max(d) \in X
    BY <1>13, <2>1
  <2>3. F[d] = Place(F[d \ {Max(d)}], s[Max(d)])
    <3>. HIDE DEF base
    <3>. QED
      BY <1>11
  <2>4. F[d] \in V
    <3>. HIDE DEF O
    <3>. QED
      BY <1>4, <2>2, <2>3
  <2>. QED
    BY <2>4
<1>14. Grows(X, G)
  <2>. HIDE DEF G
  <2>. QED
    BY <1>12, <1>13 DEF Grows
<1>15. F[X] \in V
  <2>1. SUBSET X \subseteq G
    <3>. HIDE DEF G
    <3>. QED
      BY <1>5, <1>14, SubsetsUp
  <2>. HIDE DEF O
  <2>. QED
    BY <2>1
<1> QED
  <2>. HIDE DEF O
  <2>. QED
    BY <1>0, <1>10, <1>15

(* The elements of a list are finitely many.                               *)
LEMMA RangeFinite ==
    ASSUME NEW s, IsList(s)
    PROVE  IsFiniteSet(Range(s))
<1>1. PICK n \in Nat : n = Len(s) /\ DOMAIN s = 1..n
  BY ListDomain
<1>2. s \in [1..n -> Range(s)] /\ \A x \in Range(s) : \E i \in 1..n : s[i] = x
  BY <1>1, ListDomain DEF Range
<1>3. s \in Surjection(1..n, Range(s))
  BY <1>2 DEF Surjection
<1>4. IsFiniteSet(1..n)
  BY FS_Interval
<1> QED
  BY <1>3, <1>4, FS_Surjection

(* The slot of a local's name is one that has the name.                    *)
LEMMA SlotHasName ==
    ASSUME NEW locals, IsList(locals), NEW x \in Range(locals)
    PROVE  locals[SlotOf(locals, x)] = x
<1>1. PICK n \in Nat : n = Len(locals) /\ DOMAIN locals = 1..n
  BY ListDomain
<1> DEFINE D == {i \in 1..n : locals[i] = x}
<1>2. D \in SUBSET (1..n) /\ D # {}
  BY <1>1 DEF Range
<1>3. Max(D) \in D /\ \A i \in D : i <= Max(D)
  <2>. HIDE DEF D
  <2>. QED
    BY <1>2, LastOf
<1>4. PICK k \in 1..n : locals[k] = x /\ \A i \in D : i <= k
  BY <1>3
<1>5. \A j \in (k + 1)..n : locals[j] # x
  <2>1. SUFFICES ASSUME NEW j \in (k + 1)..n, locals[j] = x PROVE FALSE
    OBVIOUS
  <2>2. j \in D
    BY <2>1
  <2>. QED
    BY <1>4, <2>2
<1>6. \E i \in DOMAIN locals : locals[i] = x /\ \A j \in (i + 1)..Len(locals) : locals[j] # x
  BY <1>1, <1>4, <1>5
<1> QED
  BY <1>6 DEF SlotOf

(* A function that has a frame keeps its address in the local after the    *)
(* parameters, and no other name has that local.                           *)
LEMMA FrameSlot ==
    ASSUME NEW fn, IsList(fn.params), NEW frame, NEW code, IsList(code),
           NEW locals, locals = LocalsOf(fn, frame, code)
    PROVE  /\ Len(locals) \in Nat
           /\ frame.size > 0 =>
                 \A i \in 1..Len(code) : code[i].op = "local.set" /\ code[i].text # FrameReg =>
                       SlotOf(locals, code[i].text) # Len(fn.params) + 1
<1>1. PICK n \in Nat : n = Len(fn.params) /\ DOMAIN fn.params = 1..n
  BY ListDomain
<1> DEFINE names == [i \in 1..n |-> fn.params[i].name]
           own   == IF frame.size > 0 THEN <<FrameReg>> ELSE <<>>
<1>2. IsList(names) /\ Len(names) = n
  <2>1. names \in Seq({fn.params[i].name : i \in 1..n}) /\ Len(names) = n
    OBVIOUS
  <2>. QED
    BY <2>1, SeqIsList
<1>3. IsList(own) /\ (frame.size > 0 => Len(own) = 1 /\ own[1] = FrameReg)
  BY ListOne, ListNone
<1> HIDE DEF names, own
<1>4. PICK fixed : fixed = names \o own
  OBVIOUS
<1>5. IsList(fixed) /\ (frame.size > 0 => n + 1 \in 1..Len(fixed) /\ fixed[n + 1] = FrameReg)
  <2>1. /\ IsList(fixed) /\ Len(fixed) = Len(names) + Len(own)
        /\ \A i \in 1..Len(own) : fixed[Len(names) + i] = own[i]
    BY <1>2, <1>3, <1>4, ListJoin
  <2>2. Len(own) \in Nat
    BY <1>3, ListDomain
  <2>. QED
    BY <1>2, <1>3, <2>1, <2>2
<1>6. PICK others : others = {op.text : op \in {x \in Range(code) : IsLocal(x)}} \ Range(fixed)
  OBVIOUS
<1>7. IsFiniteSet(others)
  <2>1. PICK k \in Nat : k = Len(code) /\ DOMAIN code = 1..k
    BY ListDomain
  <2> DEFINE texts == [i \in 1..k |-> code[i].text]
  <2>2. texts \in Seq({code[i].text : i \in 1..k}) /\ DOMAIN texts = 1..k
    OBVIOUS
  <2>3. \A op \in Range(code) : op.text \in Range(texts)
    BY <2>1 DEF Range
  <2>. HIDE DEF texts
  <2>4. IsFiniteSet(Range(texts))
    BY <2>2, SeqIsList, RangeFinite
  <2>5. others \in SUBSET Range(texts)
    BY <1>6, <2>3
  <2>. QED
    BY <2>4, <2>5, FS_Subset
<1> DEFINE T == Range(fixed) \cup others
<1>8. fixed \in Seq(T) /\ others \in SUBSET T
  BY <1>5, SeqMonotonic DEF IsList
<1> HIDE DEF T
<1>9. locals = FoldSet(LAMBDA x, s : Append(s, x), fixed, others)
  BY <1>1, <1>4, <1>6 DEF LocalsOf, names, own
<1>10. /\ locals \in Seq(T) /\ Len(fixed) <= Len(locals)
       /\ \A i \in 1..Len(fixed) : locals[i] = fixed[i]
       /\ Range(fixed) \cup others \subseteq Range(locals)
  <2>1. LET all == FoldSet(LAMBDA x, s : Append(s, x), fixed, others)
        IN /\ all \in Seq(T) /\ Len(fixed) <= Len(all)
           /\ \A i \in 1..Len(fixed) : all[i] = fixed[i]
           /\ Range(fixed) \cup others \subseteq Range(all)
    BY <1>7, <1>8, Appended
  <2>. QED
    BY <1>9, <2>1
<1>11. IsList(locals) /\ Len(locals) \in Nat
  BY <1>10, SeqIsList
<1>12. ASSUME frame.size > 0, NEW i \in 1..Len(code), code[i].op = "local.set", code[i].text # FrameReg
       PROVE  SlotOf(locals, code[i].text) # n + 1
  <2>1. code[i] \in Range(code) /\ IsLocal(code[i])
    BY <1>12, ListDomain DEF Range, IsLocal
  <2>2. code[i].text \in Range(locals)
    BY <1>6, <1>10, <2>1
  <2>3. locals[SlotOf(locals, code[i].text)] = code[i].text
    BY <1>11, <2>2, SlotHasName
  <2>4. locals[n + 1] = FrameReg
    BY <1>5, <1>10, <1>12
  <2>. QED
    BY <1>12, <2>3, <2>4
<1> QED
  BY <1>1, <1>11, <1>12
-----------------------------------------------------------------------------
(* The local that holds the address of the frame is set by nothing, when   *)
(* the module does not write a register of that name itself.               *)
KeepsFrame(m, p) ==
    /\ p.params \in Nat /\ p.locals \in Nat
    /\ p.frameSize > 0 /\ FrameReg \notin Written(m) =>
          \A i \in 1..Len(p.code) : p.code[i].op = "local.set" => p.code[i].imm # p.params + 1

(* The code p of a function fn, and the depth h of the operand stack       *)
(* before each of its instructions.                                        *)
Compiled(m, fn, p, h) ==
    /\ Depths(m, [ret |-> fn.ret, to |-> p.starts], p.code, h)
    /\ \A i \in p.starts : i \in 1..Len(p.code) /\ h[i] = 0
    /\ 1 \in 1..Len(p.code) /\ h[1] = 0
    /\ p.code[Len(p.code)].op \in {"return", "jmp"}
    /\ p.params = Len(fn.params) /\ (p.returns <=> fn.ret # "void")
    /\ KeepsFrame(m, p)

(* The code EmitFunction gives for a verified function has a depth at each *)
(* of its instructions, 0 where a block starts.                            *)
LEMMA FunctionDepths ==
    ASSUME NEW m, Runnable(m), NEW f \in DOMAIN m.funcs, NEW fn, fn = m.funcs[f]
    PROVE  \E h : Compiled(m, fn, EmitFunction(fn), h)
<1>1. Sound(m, fn) /\ IsFunction(fn) /\ CheckCfg(fn) = {}
  BY DEF Runnable, WellTyped, Sound
<1>2. PICK n \in Nat \ {0} : n = Len(fn.blocks) /\ DOMAIN fn.blocks = 1..n
  <2>1. IsList(fn.blocks) /\ fn.blocks # <<>>
    BY <1>1, CheckedGraph DEF IsFunction
  <2>2. Len(fn.blocks) \in Nat /\ Len(fn.blocks) # 0 /\ DOMAIN fn.blocks = 1..Len(fn.blocks)
    BY <2>1, ListDomain DEF IsList
  <2>. QED
    BY <2>2
<1>3. PICK frame : frame = LayoutFrame(fn)
  OBVIOUS
<1> DEFINE parts == [i \in 1..n |-> BlockCode(fn, frame, i)]
           begin == [i \in 1..n |-> Len(FlattenSeq(SubSeq(parts, 1, i - 1))) + 1]
           joined == FlattenSeq(parts)
           patched == [i \in DOMAIN joined |-> Patch(joined[i], begin)]
           locals == LocalsOf(fn, frame, patched)
           code == [i \in DOMAIN patched |-> Slotted(patched[i], locals)]
           p == EmitFunction(fn)
           cx == Indexed(fn)
           cy == [ret |-> fn.ret, to |-> Range(begin)]
           e == [i \in 1..(n + 1) |-> 0]
<1>4. p = [params    |-> Len(fn.params),
           returns   |-> fn.ret # "void",
           frameSize |-> frame.size,
           locals    |-> Len(locals),
           code      |-> code,
           starts    |-> Range(begin)]
  BY <1>2, <1>3, Zenon DEF EmitFunction
<1>5. p.params = Len(fn.params) /\ (p.returns <=> fn.ret # "void") /\ p.code = code /\ p.starts = Range(begin)
  <2>. HIDE DEF p, code, begin, locals
  <2>1. p.params = Len(fn.params) /\ p.code = code /\ p.starts = Range(begin)
    BY <1>4
  <2>2. p.returns = (fn.ret # "void")
    BY <1>4
  <2>. QED
    BY <2>1, <2>2
<1>f. p.frameSize = frame.size /\ p.locals = Len(locals)
  <2>. HIDE DEF p, code, begin, locals
  <2>. QED
    BY <1>4
<1>l. locals = LocalsOf(fn, frame, patched)
  OBVIOUS
<1>6. cx.ret = fn.ret /\ cx.to = 1..n /\ cy.ret = fn.ret /\ cy.to = Range(begin)
  BY <1>2 DEF Indexed
<1>7. /\ parts \in [1..n -> {BlockCode(fn, frame, i) : i \in 1..n}]
      /\ \A i \in 1..n : parts[i] = BlockCode(fn, frame, i)
  OBVIOUS
<1>8. DOMAIN begin = 1..n /\ \A i \in 1..n : begin[i] = Len(FlattenSeq(SubSeq(parts, 1, i - 1))) + 1
  OBVIOUS
<1>9. e \in [1..(n + 1) -> Nat] /\ \A i \in 1..(n + 1) : e[i] = 0
  OBVIOUS
<1>10. DOMAIN patched = DOMAIN joined /\ \A i \in DOMAIN joined : patched[i] = Patch(joined[i], begin)
  OBVIOUS
<1>11. code = [i \in DOMAIN joined |-> Slotted(Patch(joined[i], begin), locals)]
  OBVIOUS
<1> HIDE DEF p, cx, cy, e, code, locals, patched, begin, parts
<1>12. ASSUME NEW i \in 1..n PROVE Lifts(m, cx, parts[i], 0, 0)
  <2>1. Lifts(m, Indexed(fn), BlockCode(fn, frame, i), 0, 0)
    BY <1>2, BlockLifts
  <2>. QED
    BY <1>7, <2>1 DEF cx
<1>13. Climbs(m, cx, parts, e, n)
  <2>1. ASSUME NEW i \in 1..n PROVE Lifts(m, cx, parts[i], e[i], e[i + 1])
    <3>1. e[i] = 0 /\ e[i + 1] = 0
      BY <1>9
    <3>. QED
      BY <1>12, <3>1
  <2>. QED
    BY <1>9, <2>1 DEF Climbs
<1>14. \A i \in 1..n : IsList(parts[i])
  BY <1>12 DEF Lifts, Depths
<1>15. PICK X : parts \in [1..n -> X]
  BY <1>7
<1>16. PICK T : parts \in [1..n -> Seq(T)]
  BY <1>14, <1>15, PiecesAreLists
<1>17. PICK start : Starts(parts, start)
  BY <1>16, HasStarts
<1>18. \E h : DepthsAt(m, cx, FlattenSeq(parts), h, start, e, n)
  BY <1>13, <1>15, <1>17, FlattenLifts, Zenon
<1>19. PICK h : DepthsAt(m, cx, joined, h, start, e, n)
  BY <1>18
<1>20. PICK flat : flat = joined
  OBVIOUS
<1>21. PICK k \in Nat : k = Len(flat) /\ DOMAIN flat = 1..k /\ IsList(flat)
  BY <1>19, <1>20, ListDomain DEF DepthsAt, Depths
<1>22. /\ h \in [1..(k + 1) -> Nat]
       /\ \A i \in 1..k : Moves(m, cx, flat[i], h[i], h[i + 1])
       /\ \A i \in 1..(n + 1) : h[start[i] + 1] = 0
  BY <1>9, <1>19, <1>20, <1>21 DEF DepthsAt, Depths
<1>23. \A i \in 1..n : begin[i] = start[i] + 1
  <2>. TAKE i \in 1..n
  <2>a. n \in Nat
    BY <1>2
  <2>1. Len(FlattenSeq(SubSeq(parts, 1, i - 1))) = start[i]
    BY <1>16, <1>17, <2>a, StartsBefore, Zenon
  <2>. QED
    BY <1>8, <2>1
<1>24. Len(parts) = n /\ k = start[n + 1]
  <2>1. Len(parts) = n /\ Flattens(parts, FlattenSeq(parts), start)
    BY <1>16, <1>17, FlattenFlattens
  <2>. QED
    BY <1>20, <1>21, <2>1 DEF Flattens, LaidOut
<1>25. start \in [1..(n + 1) -> Nat] /\ start[1] = 0 /\ \A i \in 1..n : start[i + 1] = start[i] + Len(parts[i])
  BY <1>17, <1>24 DEF Starts
<1>26. parts[n] # <<>> /\ parts[n][Len(parts[n])].op \in {"return", "jmp"}
  <2>1. n \in DOMAIN fn.blocks /\ n = Len(fn.blocks)
    BY <1>2
  <2>2. /\ BlockCode(fn, frame, n) # <<>>
        /\ BlockCode(fn, frame, n)[Len(BlockCode(fn, frame, n))].op \in {"return", "jmp"}
    <3>1. LastEnds(fn, n, BlockCode(fn, frame, n))
      BY <2>1, BlockLifts
    <3>. QED
      BY <2>1, <3>1 DEF LastEnds
  <2>3. n \in 1..n
    BY <1>2
  <2>. QED
    BY <1>7, <2>2, <2>3
<1>27. Len(parts[n]) \in Nat \ {0}
  <2>1. IsList(parts[n])
    BY <1>14
  <2>. QED
    BY <1>26, <2>1 DEF IsList
<1>28. ASSUME NEW i \in 1..n PROVE start[i] + 1 \in 1..k
  <2>1. start[n + 1] = start[n] + Len(parts[n]) /\ start[i] \in Nat /\ start[n] \in Nat
    BY <1>25
  <2>2. start[i] <= start[n]
    <3>1. CASE i = n
      BY <2>1, <3>1
    <3>2. CASE i # n
      <4>1. n \in (i + 1)..(n + 1) /\ Len(parts[i]) \in Nat
        BY <1>14, <3>2, ListDomain
      <4>2. start[i] + Len(parts[i]) <= start[n]
        BY <1>16, <1>17, <4>1, StartsGrow
      <4>. QED
        BY <2>1, <4>1, <4>2
    <3>. QED
      BY <3>1, <3>2
  <2>. QED
    BY <1>24, <1>27, <2>1, <2>2
<1>29. \A i \in Range(begin) : i \in 1..k /\ h[i] = 0
  <2>1. ASSUME NEW j \in 1..n PROVE begin[j] \in 1..k /\ h[begin[j]] = 0
    <3>1. j \in 1..(n + 1)
      OBVIOUS
    <3>. QED
      BY <1>22, <1>23, <1>28, <3>1
  <2>. QED
    BY <1>8, <2>1 DEF Range
<1>30. 1 \in 1..k /\ h[1] = 0
  <2>1. 1 \in 1..n /\ 1 \in 1..(n + 1) /\ 0 + 1 = 1
    OBVIOUS
  <2>. QED
    BY <1>22, <1>25, <1>28, <2>1
<1>31. code = [i \in 1..k |-> Slotted(Patch(flat[i], begin), locals)]
  BY <1>11, <1>20, <1>21
<1>32. \A i \in 1..k : code[i] = Slotted(Patch(flat[i], begin), locals)
  BY <1>31
<1>33. IsList(code) /\ Len(code) = k
  <2>1. code \in Seq({Slotted(Patch(flat[i], begin), locals) : i \in 1..k}) /\ Len(code) = k
    BY <1>31
  <2>. QED
    BY <2>1, SeqIsList
<1>34. \A i \in 1..k : Moves(m, cy, code[i], h[i], h[i + 1]) /\ code[i].op = flat[i].op
  <2>. TAKE i \in 1..k
  <2>1. Moves(m, cx, flat[i], h[i], h[i + 1])
    BY <1>22
  <2>2. cy.ret = cx.ret /\ cx.to = DOMAIN begin /\ cy.to = Range(begin)
    BY <1>6, <1>8
  <2>3. /\ Moves(m, cy, Slotted(Patch(flat[i], begin), locals), h[i], h[i + 1])
        /\ Slotted(Patch(flat[i], begin), locals).op = flat[i].op
    BY <2>1, <2>2, PatchMoves
  <2>. QED
    BY <1>32, <2>3
<1>35. Depths(m, cy, code, h)
  BY <1>22, <1>33, <1>34 DEF Depths
<1>36. code[k].op \in {"return", "jmp"}
  <2>1. flat # <<>> /\ flat[Len(flat)] = parts[n][Len(parts[n])]
    BY <1>14, <1>15, <1>20, <1>26, FlattenLast
  <2>2. k \in 1..k
    BY <1>30
  <2>. QED
    BY <1>21, <1>26, <1>34, <2>1, <2>2
<1>39. KeepsFrame(m, p)
  <2>1. IsList(patched) /\ Len(patched) = k /\ \A i \in 1..k : patched[i] = Patch(flat[i], begin)
    <3>1. patched = [i \in 1..k |-> Patch(flat[i], begin)]
      BY <1>20, <1>21 DEF patched
    <3>2. PICK s : s = [i \in 1..k |-> Patch(flat[i], begin)]
      OBVIOUS
    <3>3. /\ s \in Seq({Patch(flat[i], begin) : i \in 1..k}) /\ Len(s) = k
          /\ \A i \in 1..k : s[i] = Patch(flat[i], begin)
      BY <3>2
    <3>4. IsList(s)
      BY <3>3, SeqIsList
    <3>. QED
      BY <3>1, <3>2, <3>3, <3>4
  <2>2. IsList(fn.params) /\ Len(fn.params) \in Nat
    BY <1>1, ListDomain DEF IsFunction
  <2>3. /\ Len(locals) \in Nat
        /\ frame.size > 0 =>
              \A i \in 1..Len(patched) : patched[i].op = "local.set" /\ patched[i].text # FrameReg =>
                    SlotOf(locals, patched[i].text) # Len(fn.params) + 1
    BY <1>l, <2>1, <2>2, FrameSlot
  <2>4. ASSUME frame.size > 0, FrameReg \notin Written(m), NEW i \in 1..k, code[i].op = "local.set"
        PROVE  code[i].imm # Len(fn.params) + 1
    <3>1. PICK op : op = flat[i]
      OBVIOUS
    <3>2. op.op = "local.set"
      BY <1>34, <2>4, <3>1
    <3>3. Patch(op, begin) = op /\ patched[i] = op
      BY <2>1, <3>1, <3>2 DEF Patch
    <3>4. op.text # FrameReg
      <4>1. Moves(m, cx, op, h[i], h[i + 1])
        BY <1>22, <3>1
      <4>. QED
        BY <2>4, <3>2, <4>1, MovesOfSet
    <3>5. code[i].imm = SlotOf(locals, op.text)
      <4>1. code[i] = Renumbered(op, SlotOf(locals, op.text))
        BY <1>32, <3>1, <3>2, <3>3 DEF Slotted, IsLocal
      <4>. QED
        BY <4>1 DEF Renumbered, StackOp
    <3>. QED
      BY <2>1, <2>3, <2>4, <3>2, <3>3, <3>4, <3>5
  <2>. QED
    BY <1>5, <1>33, <1>f, <2>2, <2>3, <2>4 DEF KeepsFrame
<1>37. cy = [ret |-> fn.ret, to |-> p.starts]
  BY <1>5 DEF cy
<1>38. Compiled(m, fn, p, h)
  BY <1>5, <1>29, <1>30, <1>33, <1>35, <1>36, <1>37, <1>39 DEF Compiled
<1> QED
  BY <1>38 DEF p

(* A call of the program emitted from m: where it is, and how deep its     *)
(* operand stack is once the call above it has given its result.           *)
DepthOf(m, p, f) == CHOOSE h : Compiled(m, m.funcs[f], p.funcs[f], h)
FrameAt(m, p, c, given) ==
    /\ c = [fn |-> c.fn, pc |-> c.pc, local |-> c.local, st |-> c.st]
    /\ c.fn \in DOMAIN m.funcs /\ IsList(c.st)
    /\ c.pc \in 1..Len(p.funcs[c.fn].code)
    /\ Len(c.st) + given = DepthOf(m, p, c.fn)[c.pc]
Stacked(m, p, cs) ==
    /\ IsList(cs) /\ cs # <<>>
    /\ FrameAt(m, p, cs[Len(cs)], 0)
    /\ \A d \in 1..(Len(cs) - 1) : FrameAt(m, p, cs[d], Given(m, cs[d + 1].fn))

(* So each function of an emitted program has one.                         *)
LEMMA EmittedDepths ==
    ASSUME NEW m, Runnable(m), NEW p, p = EmitModule(m), NEW f \in DOMAIN m.funcs
    PROVE  Compiled(m, m.funcs[f], p.funcs[f], DepthOf(m, p, f)) /\ DOMAIN p.funcs = DOMAIN m.funcs
<1>1. p.funcs = [g \in DOMAIN m.funcs |-> EmitFunction(m.funcs[g])]
  BY DEF EmitModule
<1>2. p.funcs[f] = EmitFunction(m.funcs[f])
  BY <1>1
<1>3. \E h : Compiled(m, m.funcs[f], EmitFunction(m.funcs[f]), h)
  BY FunctionDepths
<1>4. \E h : Compiled(m, m.funcs[f], p.funcs[f], h)
  BY <1>2, <1>3
<1> QED
  BY <1>1, <1>4 DEF DepthOf

(* The instruction a call is at, in code pf with depths h.                 *)
Placed(m, c, pf, h, op) ==
    /\ c.pc \in DOMAIN pf.code /\ DOMAIN pf.code = 1..Len(pf.code) /\ Len(pf.code) \in Nat
    /\ c.pc \in Nat /\ Len(c.st) \in Nat /\ IsList(c.st)
    /\ h \in [1..(Len(pf.code) + 1) -> Nat] /\ h[c.pc] = Len(c.st)
    /\ Moves(m, [ret |-> m.funcs[c.fn].ret, to |-> pf.starts], op, Len(c.st), h[c.pc + 1])
    /\ op.op \notin {"return", "jmp"} => c.pc + 1 \in 1..Len(pf.code)
    /\ \A i \in pf.starts : i \in 1..Len(pf.code) /\ h[i] = 0
    /\ pf.returns <=> m.funcs[c.fn].ret # "void"

(* What is known of the instruction a call is at.                          *)
LEMMA FrameMoves ==
    ASSUME NEW m, Runnable(m), NEW p, p = EmitModule(m), NEW c, FrameAt(m, p, c, 0),
           NEW pf, pf = p.funcs[c.fn], NEW h, h = DepthOf(m, p, c.fn), NEW op, op = pf.code[c.pc]
    PROVE  Placed(m, c, pf, h, op)
<1>1. Compiled(m, m.funcs[c.fn], pf, h)
  BY EmittedDepths DEF FrameAt
<1> DEFINE cx == [ret |-> m.funcs[c.fn].ret, to |-> pf.starts]
<1>2. /\ Depths(m, cx, pf.code, h)
      /\ \A i \in pf.starts : i \in 1..Len(pf.code) /\ h[i] = 0
      /\ 1 \in 1..Len(pf.code)
      /\ pf.code[Len(pf.code)].op \in {"return", "jmp"}
      /\ pf.returns <=> m.funcs[c.fn].ret # "void"
  BY <1>1 DEF Compiled
<1> HIDE DEF cx
<1>3. /\ IsList(pf.code) /\ h \in [1..(Len(pf.code) + 1) -> Nat]
      /\ \A i \in 1..Len(pf.code) : Moves(m, cx, pf.code[i], h[i], h[i + 1])
  BY <1>2 DEF Depths
<1>4. DOMAIN pf.code = 1..Len(pf.code) /\ Len(pf.code) \in Nat
  BY <1>3, ListDomain
<1>5. c.pc \in 1..Len(pf.code) /\ IsList(c.st) /\ Len(c.st) \in Nat /\ Len(c.st) + 0 = h[c.pc]
  BY ListDomain DEF FrameAt
<1>6. h[c.pc] = Len(c.st) /\ c.pc \in Nat
  BY <1>4, <1>5
<1>7. Moves(m, cx, op, Len(c.st), h[c.pc + 1])
  BY <1>3, <1>5, <1>6
<1>8. op.op \notin {"return", "jmp"} => c.pc + 1 \in 1..Len(pf.code)
  <2>1. c.pc = Len(pf.code) => op.op \in {"return", "jmp"}
    BY <1>2
  <2>. QED
    BY <1>4, <1>5, <2>1
<1> QED
  BY <1>2, <1>3, <1>4, <1>5, <1>6, <1>7, <1>8 DEF cx, Placed

(* The innermost call moves on.                                            *)
LEMMA TopMovesOn ==
    ASSUME NEW m, NEW p, NEW cs, Stacked(m, p, cs), NEW ds, IsList(ds), Len(ds) = Len(cs),
           \A d \in 1..(Len(cs) - 1) : ds[d] = cs[d],
           ds[Len(cs)].fn = cs[Len(cs)].fn, FrameAt(m, p, ds[Len(cs)], 0)
    PROVE  Stacked(m, p, ds)
<1>1. PICK n \in Nat \ {0} : n = Len(cs)
  BY DEF Stacked, IsList
<1>2. ds # <<>>
  BY <1>1, ListNone
<1>3. \A d \in 1..(n - 1) : FrameAt(m, p, cs[d], Given(m, cs[d + 1].fn))
  BY <1>1 DEF Stacked
<1>4. ASSUME NEW d \in 1..(n - 1) PROVE FrameAt(m, p, ds[d], Given(m, ds[d + 1].fn))
  <2>1. d + 1 \in 1..(n - 1) \/ d + 1 = n
    OBVIOUS
  <2>2. ds[d] = cs[d] /\ ds[d + 1].fn = cs[d + 1].fn
    BY <1>1, <2>1
  <2>. QED
    BY <1>3, <2>2
<1> QED
  BY <1>1, <1>2, <1>4 DEF Stacked

(* What holds of the machine while it runs the program emitted from m.     *)
Running(m) == Runnable(m) /\ prog = EmitModule(m) /\ Stacked(m, prog, calls)
H(m) == DepthOf(m, prog, Top.fn)

(* What is known of the machine while it runs: where the innermost call    *)
(* is, how deep its stack is, what its instruction takes.                  *)
LEMMA Here ==
    ASSUME NEW m, Running(m)
    PROVE  /\ Len(calls) \in Nat \ {0} /\ IsList(calls) /\ FrameAt(m, prog, Top, 0)
           /\ Top.pc \in DOMAIN Code /\ DOMAIN Code = 1..Len(Code) /\ Len(Code) \in Nat
           /\ Top.pc \in Nat /\ Len(Top.st) \in Nat /\ IsList(Top.st)
           /\ H(m) \in [1..(Len(Code) + 1) -> Nat] /\ H(m)[Top.pc] = Len(Top.st)
           /\ Ins.op \notin {"return", "jmp"} => Top.pc + 1 \in 1..Len(Code)
           /\ \A i \in prog.funcs[Top.fn].starts : i \in 1..Len(Code) /\ H(m)[i] = 0
           /\ prog.funcs[Top.fn].returns <=> m.funcs[Top.fn].ret # "void"
           /\ Moves(m, [ret |-> m.funcs[Top.fn].ret, to |-> prog.funcs[Top.fn].starts],
                    Ins, Len(Top.st), H(m)[Top.pc + 1])
<1>1. Runnable(m) /\ prog = EmitModule(m) /\ IsList(calls) /\ calls # <<>>
      /\ FrameAt(m, prog, Top, 0)
  BY DEF Running, Stacked, Top
<1>2. Len(calls) \in Nat \ {0}
  BY <1>1 DEF IsList
<1>3. PICK c : c = Top
  OBVIOUS
<1>4. PICK pf : pf = prog.funcs[c.fn]
  OBVIOUS
<1>5. PICK op : op = pf.code[c.pc]
  OBVIOUS
<1>6. PICK h : h = DepthOf(m, prog, c.fn)
  OBVIOUS
<1>7. Code = pf.code /\ Ins = op /\ H(m) = h
  BY <1>3, <1>4, <1>5, <1>6 DEF Code, Ins, H
<1>8. FrameAt(m, prog, c, 0)
  BY <1>1, <1>3
<1>9. Placed(m, c, pf, h, op)
  BY <1>1, <1>4, <1>5, <1>6, <1>8, FrameMoves
<1>10. prog.funcs[Top.fn] = pf
  BY <1>3, <1>4
<1> QED
  BY <1>1, <1>2, <1>3, <1>7, <1>9, <1>10 DEF Placed

(* How the innermost call moves on.                                        *)
LEMMA MovedIs ==
    ASSUME NEW m, Running(m), NEW pc, NEW st
    PROVE  /\ IsList(Moved(pc, st)) /\ Len(Moved(pc, st)) = Len(calls)
           /\ \A d \in 1..(Len(calls) - 1) : Moved(pc, st)[d] = calls[d]
           /\ Moved(pc, st)[Len(calls)] = [fn |-> Top.fn, pc |-> pc, local |-> Top.local, st |-> st]
<1>1. PICK n \in Nat \ {0} : n = Len(calls)
  BY Here
<1>2. IsList(calls) /\ DOMAIN calls = 1..n
  BY <1>1, Here, ListDomain
<1>3. Top = [fn |-> Top.fn, pc |-> Top.pc, local |-> Top.local, st |-> Top.st]
  BY Here DEF FrameAt
<1>4. calls[n] = Top
  BY <1>1 DEF Top
<1>5. PICK t : t = [Top EXCEPT !.pc = pc, !.st = st]
  OBVIOUS
<1>6. t = [fn |-> Top.fn, pc |-> pc, local |-> Top.local, st |-> st]
  BY <1>3, <1>5
<1>7. Moved(pc, st) = [calls EXCEPT ![n] = t]
  BY <1>1, <1>4, <1>5 DEF Moved
<1>8. PICK u : u = [calls EXCEPT ![n] = t]
  OBVIOUS
<1>9. n \in 1..n
  OBVIOUS
<1>10. u[n] = t /\ \A d \in 1..(n - 1) : u[d] = calls[d]
  BY <1>2, <1>8, <1>9
<1>11. IsList(u) /\ Len(u) = n
  <2>1. calls \in Seq(Range(calls) \cup {t})
    BY <1>2, SeqMonotonic DEF IsList
  <2>2. u \in Seq(Range(calls) \cup {t}) /\ Len(u) = n
    BY <1>1, <1>8, <1>9, <2>1
  <2>. QED
    BY <2>2, SeqIsList
<1> QED
  BY <1>1, <1>6, <1>7, <1>8, <1>10, <1>11

(* A next instruction that finds the stack as deep as it has to be.        *)
LEMMA StepKeeps ==
    ASSUME NEW m, Running(m), NEW pc \in 1..Len(Code), NEW st, IsList(st), Len(st) = H(m)[pc]
    PROVE  Stacked(m, prog, Moved(pc, st))
<1>1. PICK n \in Nat \ {0} : n = Len(calls)
  BY Here
<1>2. PICK ds : ds = Moved(pc, st)
  OBVIOUS
<1>3. /\ IsList(ds) /\ Len(ds) = Len(calls)
      /\ \A d \in 1..(Len(calls) - 1) : ds[d] = calls[d]
      /\ ds[Len(calls)] = [fn |-> Top.fn, pc |-> pc, local |-> Top.local, st |-> st]
  BY <1>2, MovedIs
<1>4. PICK t : t = ds[Len(calls)]
  OBVIOUS
<1>5. t = [fn |-> Top.fn, pc |-> pc, local |-> Top.local, st |-> st]
      /\ t.fn = Top.fn /\ t.pc = pc /\ t.local = Top.local /\ t.st = st
  BY <1>3, <1>4
<1>6. Top.fn \in DOMAIN m.funcs
  BY Here DEF FrameAt
<1>7. Len(st) \in Nat
  BY ListDomain
<1>8. Len(t.st) + 0 = DepthOf(m, prog, t.fn)[t.pc]
  BY <1>5, <1>7 DEF H
<1>9. FrameAt(m, prog, t, 0)
  BY <1>5, <1>6, <1>8 DEF FrameAt, Code
<1>10. calls[Len(calls)].fn = ds[Len(calls)].fn
  BY <1>4, <1>5 DEF Top
<1>11. Stacked(m, prog, calls)
  BY DEF Running
<1> QED
  BY <1>2, <1>3, <1>4, <1>9, <1>10, <1>11, TopMovesOn

(* What is left of the stack when k values are popped.                     *)
LEMMA PoppedIs ==
    ASSUME NEW m, Running(m), NEW k \in Nat, k <= Len(Top.st)
    PROVE  IsList(Popped(k)) /\ Len(Popped(k)) = Len(Top.st) - k
<1>1. Len(Top.st) \in Nat /\ IsList(Top.st)
  BY Here
<1>2. PICK n \in Nat : n = Len(Top.st) - k /\ n <= Len(Top.st)
  <2>1. PICK l \in Nat : l = Len(Top.st)
    BY <1>1
  <2>2. l - k \in Nat /\ l - k <= l
    BY <2>1
  <2>. QED
    BY <2>1, <2>2
<1>3. IsList(SubSeq(Top.st, 1, n)) /\ Len(SubSeq(Top.st, 1, n)) = n
  BY <1>1, <1>2, ListSub
<1> QED
  BY <1>2, <1>3 DEF Popped

(* And one pushed in their place.                                          *)
LEMMA PoppedPushed ==
    ASSUME NEW m, Running(m), NEW k \in Nat, k <= Len(Top.st), NEW v
    PROVE  IsList(Append(Popped(k), v)) /\ Len(Append(Popped(k), v)) = (Len(Top.st) - k) + 1
BY PoppedIs, ListAppend

(* What the instruction finds and what it leaves.                          *)
LEMMA Depth ==
    ASSUME NEW m, Running(m)
    PROVE  DataMove(Ins, Len(Top.st), H(m)[Top.pc + 1])
BY Here, MovesOf
Context(m) == [ret |-> m.funcs[Top.fn].ret, to |-> prog.funcs[Top.fn].starts]

(* The same of calls, jumps and returns.                                   *)
LEMMA DepthOfControl ==
    ASSUME NEW m, Running(m)
    PROVE  ControlMove(m, Context(m), Ins, Len(Top.st), H(m)[Top.pc + 1])
BY Here, MovesOfControl DEF Context

(* On to the next instruction, with as many values as it expects.          *)
LEMMA GoesOn ==
    ASSUME NEW m, Running(m), Ins.op \notin {"return", "jmp"}, NEW st, IsList(st), Len(st) = H(m)[Top.pc + 1]
    PROVE  Stacked(m, prog, Moved(Top.pc + 1, st))
<1>1. Top.pc + 1 \in 1..Len(Code)
  BY Here
<1> QED
  BY <1>1, StepKeeps

(* One lemma for each action of the machine: it leaves each call at the    *)
(* depth its code has there.                                               *)
LEMMA PushKeeps ==
    ASSUME NEW m, Running(m), PushOperand
    PROVE  Stacked(m, prog, calls')
<1>1. Ins.op \in GetOps
  BY DEF PushOperand, Runs, GetOps
<1>2. Ins.op \notin {"return", "jmp"}
  BY <1>1 DEF GetOps
<1>3. PICK v : calls' = Moved(Top.pc + 1, Append(Top.st, v))
  BY DEF PushOperand, Step
<1>4. IsList(Append(Top.st, v)) /\ Len(Append(Top.st, v)) = Len(Top.st) + 1
  BY Here, ListAppend
<1>5. H(m)[Top.pc + 1] = Len(Top.st) + 1
  BY <1>1, Depth DEF DataMove
<1> QED
  BY <1>2, <1>3, <1>4, <1>5, GoesOn

(* global.set.                                                             *)
LEMMA SetGlobalKeeps ==
    ASSUME NEW m, Running(m), SetGlobal
    PROVE  Stacked(m, prog, calls')
<1>1. Ins.op = "global.set" /\ calls' = Moved(Top.pc + 1, Popped(1))
  BY DEF SetGlobal, Runs, Step
<1>2. Ins.op \in SetOps /\ Ins.op \notin {"return", "jmp"}
  BY <1>1 DEF SetOps
<1>3. 1 <= Len(Top.st) /\ H(m)[Top.pc + 1] = Len(Top.st) - 1
  BY <1>2, Depth DEF DataMove
<1>4. IsList(Popped(1)) /\ Len(Popped(1)) = Len(Top.st) - 1
  BY <1>3, PoppedIs
<1> QED
  BY <1>1, <1>2, <1>3, <1>4, GoesOn

(* A load.                                                                 *)
LEMMA LoadKeeps ==
    ASSUME NEW m, Running(m), Load
    PROVE  Stacked(m, prog, calls')
<1>1. PICK v : Ins.op = "load" /\ calls' = Moved(Top.pc + 1, Append(Popped(1), v))
  BY DEF Load, Runs, Step
<1>2. Ins.op \in OneOps /\ Ins.op \notin {"return", "jmp"}
  BY <1>1 DEF OneOps
<1>3. 1 <= Len(Top.st) /\ H(m)[Top.pc + 1] = Len(Top.st) /\ Len(Top.st) \in Nat
  BY <1>2, Depth, Here DEF DataMove
<1>4. IsList(Append(Popped(1), v)) /\ Len(Append(Popped(1), v)) = (Len(Top.st) - 1) + 1
  BY <1>3, PoppedPushed
<1>5. Len(Append(Popped(1), v)) = H(m)[Top.pc + 1]
  BY <1>3, <1>4
<1> QED
  BY <1>1, <1>2, <1>4, <1>5, GoesOn

(* A store.                                                                *)
LEMMA StoreKeeps ==
    ASSUME NEW m, Running(m), Store
    PROVE  Stacked(m, prog, calls')
<1>1. Ins.op = "store" /\ calls' = Moved(Top.pc + 1, Popped(2))
  BY DEF Store, Runs, Step
<1>2. Ins.op \notin {"return", "jmp"}
  BY <1>1
<1>3. 2 <= Len(Top.st) /\ H(m)[Top.pc + 1] = Len(Top.st) - 2
  BY <1>1, Depth DEF DataMove
<1>4. IsList(Popped(2)) /\ Len(Popped(2)) = Len(Top.st) - 2
  BY <1>3, PoppedIs
<1> QED
  BY <1>1, <1>2, <1>3, <1>4, GoesOn

(* Arithmetic and comparisons.                                             *)
LEMMA BinaryKeeps ==
    ASSUME NEW m, Running(m), Binary \/ Compare
    PROVE  Stacked(m, prog, calls')
<1>1. PICK v : Ins.op \in TwoOps /\ calls' = Moved(Top.pc + 1, Append(Popped(2), v))
  <2>1. CASE Binary
    BY <2>1 DEF Binary, Runs, Step, TwoOps
  <2>2. CASE Compare
    BY <2>2 DEF Compare, Runs, Step, TwoOps
  <2>. QED
    BY <2>1, <2>2
<1>2. Ins.op \notin {"return", "jmp"}
  BY <1>1 DEF TwoOps, BinOps, DivOps, ShiftOps, BitOps, Cmps, SignedCmps, UnsignedCmps, FloatBinaryOps,
              FloatCompares
<1>3. 2 <= Len(Top.st) /\ H(m)[Top.pc + 1] = Len(Top.st) - 1 /\ Len(Top.st) \in Nat
  BY <1>1, Depth, Here DEF DataMove
<1>4. IsList(Append(Popped(2), v)) /\ Len(Append(Popped(2), v)) = (Len(Top.st) - 2) + 1
  BY <1>3, PoppedPushed
<1>5. Len(Append(Popped(2), v)) = H(m)[Top.pc + 1]
  BY <1>3, <1>4
<1> QED
  BY <1>1, <1>2, <1>4, <1>5, GoesOn

(* Conversions.                                                            *)
LEMMA ConvertKeeps ==
    ASSUME NEW m, Running(m), Convert32
    PROVE  Stacked(m, prog, calls')
<1>1. Ins.op \in ConvertOps \cup {"nop"} /\ calls' = Moved(Top.pc + 1, Converted)
  BY DEF Convert32, Runs, Step
<1>2. Ins.op \notin {"return", "jmp"}
  BY <1>1 DEF ConvertOps
<1>3. CASE Ins.op = "nop"
  <2>1. Converted = Top.st
    BY <1>3 DEF Converted
  <2>2. H(m)[Top.pc + 1] = Len(Top.st)
    BY <1>3, Depth DEF StayOps, DataMove
  <2>. QED
    BY <1>1, <1>2, <2>1, <2>2, Here, GoesOn
<1>4. CASE Ins.op # "nop"
  <2>1. PICK v : Converted = Append(Popped(1), v)
    BY <1>1, <1>4 DEF Converted, ConvertOps
  <2>2. Ins.op \in OneOps
    BY <1>1, <1>4 DEF OneOps
  <2>3. 1 <= Len(Top.st) /\ H(m)[Top.pc + 1] = Len(Top.st) /\ Len(Top.st) \in Nat
    BY <2>2, Depth, Here DEF DataMove
  <2>4. IsList(Append(Popped(1), v)) /\ Len(Append(Popped(1), v)) = (Len(Top.st) - 1) + 1
    BY <2>3, PoppedPushed
  <2>5. Len(Append(Popped(1), v)) = H(m)[Top.pc + 1]
    BY <2>3, <2>4
  <2>. QED
    BY <1>1, <1>2, <2>1, <2>4, <2>5, GoesOn
<1> QED
  BY <1>3, <1>4

(* print_i32.                                                              *)
LEMMA OutputKeeps ==
    ASSUME NEW m, Running(m), Output
    PROVE  Stacked(m, prog, calls')
<1>1. Ins.op = "call" /\ Ins.text = "print_i32" /\ calls' = Moved(Top.pc + 1, Popped(1))
  BY DEF Output, Runs, Step
<1>2. Ins.op \notin {"return", "jmp"}
  BY <1>1
<1>3. 1 <= Len(Top.st) /\ H(m)[Top.pc + 1] = Len(Top.st) - 1
  BY <1>1, DepthOfControl DEF ControlMove, Context
<1>4. IsList(Popped(1)) /\ Len(Popped(1)) = Len(Top.st) - 1
  BY <1>3, PoppedIs
<1> QED
  BY <1>1, <1>2, <1>3, <1>4, GoesOn

(* jmp and jz: the target starts a block, where the stack is empty.        *)
LEMMA JumpKeeps ==
    ASSUME NEW m, Running(m), JumpTo
    PROVE  Stacked(m, prog, calls')
<1>1. /\ Ins.op \in {"jmp", "jz"}
      /\ calls' = IF Ins.op = "jmp" THEN Moved(Ins.imm, Top.st)
                  ELSE Moved(IF Peek(0) = 0 THEN Ins.imm ELSE Top.pc + 1, Popped(1))
  BY DEF JumpTo, Runs
<1>2. CASE Ins.op = "jmp"
  <2>1. Ins.imm \in prog.funcs[Top.fn].starts /\ Len(Top.st) = 0
    BY <1>2, DepthOfControl DEF ControlMove, Context
  <2>2. Ins.imm \in 1..Len(Code) /\ H(m)[Ins.imm] = 0 /\ IsList(Top.st)
    BY <2>1, Here
  <2>3. Stacked(m, prog, Moved(Ins.imm, Top.st))
    BY <2>1, <2>2, StepKeeps
  <2>. QED
    BY <1>1, <1>2, <2>3
<1>3. CASE Ins.op = "jz"
  <2>1. Ins.imm \in prog.funcs[Top.fn].starts /\ Len(Top.st) = 1 /\ H(m)[Top.pc + 1] = 0
    BY <1>3, DepthOfControl DEF ControlMove, Context
  <2>2. Ins.imm \in 1..Len(Code) /\ H(m)[Ins.imm] = 0 /\ Top.pc + 1 \in 1..Len(Code)
    BY <1>3, <2>1, Here
  <2>3. IsList(Popped(1)) /\ Len(Popped(1)) = 0
    BY <2>1, PoppedIs
  <2>4. Stacked(m, prog, Moved(Ins.imm, Popped(1))) /\ Stacked(m, prog, Moved(Top.pc + 1, Popped(1)))
    BY <2>1, <2>2, <2>3, StepKeeps
  <2>. QED
    BY <1>1, <1>3, <2>4
<1> QED
  BY <1>1, <1>2, <1>3

(* local.set.                                                              *)
LEMMA SetLocalKeeps ==
    ASSUME NEW m, Running(m), SetLocal
    PROVE  Stacked(m, prog, calls')
<1>1. /\ Ins.op = "local.set"
      /\ calls' = [Moved(Top.pc + 1, Popped(1)) EXCEPT ![Len(calls)].local[Ins.imm] = Peek(0)]
  BY DEF SetLocal, Runs
<1>2. Ins.op \in SetOps /\ Ins.op \notin {"return", "jmp"}
  BY <1>1 DEF SetOps
<1>3. 1 <= Len(Top.st) /\ H(m)[Top.pc + 1] = Len(Top.st) - 1
  BY <1>2, Depth DEF DataMove
<1>4. IsList(Popped(1)) /\ Len(Popped(1)) = Len(Top.st) - 1
  BY <1>3, PoppedIs
<1>5. PICK ms : ms = Moved(Top.pc + 1, Popped(1))
  OBVIOUS
<1>6. Stacked(m, prog, ms)
  BY <1>2, <1>3, <1>4, <1>5, GoesOn
<1>7. PICK n \in Nat \ {0} : n = Len(calls)
  BY Here
<1>8. /\ IsList(ms) /\ Len(ms) = n
      /\ ms[n] = [fn |-> Top.fn, pc |-> Top.pc + 1, local |-> Top.local, st |-> Popped(1)]
  BY <1>5, <1>7, MovedIs
<1>9. PICK t : t = [ms[n] EXCEPT !.local[Ins.imm] = Peek(0)]
  OBVIOUS
<1>10. t = [fn |-> t.fn, pc |-> t.pc, local |-> t.local, st |-> t.st]
       /\ t.fn = ms[n].fn /\ t.pc = ms[n].pc /\ t.st = ms[n].st
  BY <1>8, <1>9
<1>11. PICK ds : ds = [ms EXCEPT ![n] = t]
  OBVIOUS
<1>12. calls' = ds
  BY <1>1, <1>5, <1>7, <1>9, <1>11
<1>13. DOMAIN ms = 1..n /\ n \in 1..n
  BY <1>8, ListDomain
<1>14. ds[n] = t /\ \A d \in 1..(n - 1) : ds[d] = ms[d]
  BY <1>11, <1>13
<1>15. IsList(ds) /\ Len(ds) = n
  <2>1. ms \in Seq(Range(ms) \cup {t})
    BY <1>8, SeqMonotonic DEF IsList
  <2>2. ds \in Seq(Range(ms) \cup {t}) /\ Len(ds) = n
    BY <1>8, <1>11, <1>13, <2>1
  <2>. QED
    BY <2>2, SeqIsList
<1>16. FrameAt(m, prog, t, 0)
  <2>1. FrameAt(m, prog, ms[n], 0)
    BY <1>6, <1>8 DEF Stacked
  <2>. QED
    BY <1>10, <2>1 DEF FrameAt
<1>17. ds[n].fn = ms[n].fn
  BY <1>10, <1>14
<1>18. Stacked(m, prog, ds)
  BY <1>6, <1>8, <1>14, <1>15, <1>16, <1>17, TopMovesOn
<1> QED
  BY <1>12, <1>18

(* A call: the arguments are gone from the caller's stack, and the result  *)
(* is not there yet.                                                       *)
LEMMA CallKeeps ==
    ASSUME NEW m, Running(m), Call_
    PROVE  Stacked(m, prog, calls')
<1>1. /\ Ins.op = "call" /\ Ins.text # "print_i32"
      /\ calls' = Append(Moved(Top.pc + 1, Popped(ArgCount)), CallFrame(Ins.text, CallArgs, stackPointer'))
  BY DEF Call_, Calls, Runs
<1>2. PICK g : g = Ins.text
  OBVIOUS
<1>3. PICK k : k = Len(m.funcs[g].params)
  OBVIOUS
<1>4. g \in DOMAIN m.funcs /\ k \in Nat /\ k <= Len(Top.st)
      /\ H(m)[Top.pc + 1] = (Len(Top.st) - k) + Given(m, g)
  BY <1>1, <1>2, <1>3, DepthOfControl DEF ControlMove
<1>5. Compiled(m, m.funcs[g], prog.funcs[g], DepthOf(m, prog, g))
  BY <1>4, EmittedDepths DEF Running
<1>6. ArgCount = k
  BY <1>2, <1>3, <1>5 DEF ArgCount, Compiled
<1>7. IsList(Popped(k)) /\ Len(Popped(k)) = Len(Top.st) - k
  BY <1>4, PoppedIs
<1>8. Top.pc + 1 \in 1..Len(Code)
  BY <1>1, Here
<1>9. PICK ms : ms = Moved(Top.pc + 1, Popped(k))
  OBVIOUS
<1>10. PICK n \in Nat \ {0} : n = Len(calls)
  BY Here
<1>11. /\ IsList(ms) /\ Len(ms) = n
       /\ \A d \in 1..(n - 1) : ms[d] = calls[d]
       /\ ms[n] = [fn |-> Top.fn, pc |-> Top.pc + 1, local |-> Top.local, st |-> Popped(k)]
  BY <1>9, <1>10, MovedIs
<1>12. PICK c : c = CallFrame(g, CallArgs, stackPointer')
  OBVIOUS
<1>13. c = [fn |-> g, pc |-> 1, local |-> c.local, st |-> <<>>] /\ c.fn = g /\ c.pc = 1 /\ c.st = <<>>
  BY <1>12 DEF CallFrame
<1>14. PICK ds : ds = Append(ms, c)
  OBVIOUS
<1>15. calls' = ds
  BY <1>1, <1>2, <1>6, <1>9, <1>12, <1>14
<1>16. IsList(ds) /\ Len(ds) = n + 1
  BY <1>11, <1>14, ListAppend
<1>17. ds[n + 1] = c /\ \A d \in 1..n : ds[d] = ms[d]
  BY <1>11, <1>14 DEF IsList
<1>18. FrameAt(m, prog, c, 0)
  <2>1. 1 \in 1..Len(prog.funcs[g].code) /\ DepthOf(m, prog, g)[1] = 0
    BY <1>5 DEF Compiled
  <2>. QED
    BY <1>4, <1>13, <2>1, ListNone DEF FrameAt
<1>19. FrameAt(m, prog, ms[n], Given(m, g))
  <2>1. PICK t : t = ms[n]
    OBVIOUS
  <2>2. t = [fn |-> Top.fn, pc |-> Top.pc + 1, local |-> Top.local, st |-> Popped(k)]
        /\ t.fn = Top.fn /\ t.pc = Top.pc + 1 /\ t.local = Top.local /\ t.st = Popped(k)
    BY <1>11, <2>1
  <2>3. Top.fn \in DOMAIN m.funcs
    BY Here DEF FrameAt
  <2>4. Len(t.st) + Given(m, g) = DepthOf(m, prog, t.fn)[t.pc]
    BY <1>4, <1>7, <2>2 DEF H
  <2>5. FrameAt(m, prog, t, Given(m, g))
    BY <1>7, <1>8, <2>2, <2>3, <2>4 DEF FrameAt, Code
  <2>. QED
    BY <2>1, <2>5
<1>20. ASSUME NEW d \in 1..n PROVE FrameAt(m, prog, ds[d], Given(m, ds[d + 1].fn))
  <2>1. CASE d = n
    <3>1. ds[d] = ms[n] /\ ds[d + 1].fn = g
      BY <1>13, <1>17, <2>1
    <3>. QED
      BY <1>19, <3>1
  <2>2. CASE d # n
    <3>1. d \in 1..(n - 1) /\ d + 1 \in 1..n
      BY <2>2
    <3>2. FrameAt(m, prog, calls[d], Given(m, calls[d + 1].fn))
      BY <1>10, <3>1 DEF Running, Stacked
    <3>3. ds[d + 1].fn = calls[d + 1].fn
      <4>1. CASE d + 1 = n
        <5>1. ms[n].fn = Top.fn
          BY <1>11
        <5>. QED
          BY <1>10, <1>17, <3>1, <4>1, <5>1 DEF Top
      <4>2. CASE d + 1 # n
        <5>1. d + 1 \in 1..(n - 1)
          BY <3>1, <4>2
        <5>. QED
          BY <1>11, <1>17, <3>1, <5>1
      <4>. QED
        BY <4>1, <4>2
    <3>4. ds[d] = calls[d]
      BY <1>11, <1>17, <3>1
    <3>. QED
      BY <3>2, <3>3, <3>4
  <2>. QED
    BY <2>1, <2>2
<1>21. ds # <<>> /\ (n + 1) - 1 = n
  <2>1. Len(ds) # 0
    BY <1>16
  <2>. QED
    BY <2>1, ListNone
<1>22. Stacked(m, prog, ds)
  BY <1>16, <1>17, <1>18, <1>20, <1>21 DEF Stacked
<1> QED
  BY <1>15, <1>22

(* A return gives its caller what the caller's instruction was to leave.   *)
LEMMA ReturnKeeps ==
    ASSUME NEW m, Running(m), Return
    PROVE  (calls' = <<>> /\ status' = "returned") \/ Stacked(m, prog, calls')
<1>1. PICK n \in Nat \ {0} : n = Len(calls)
  BY Here
<1>2. IsList(calls)
  BY Here
<1>3. Given(m, Top.fn) = IF prog.funcs[Top.fn].returns THEN 1 ELSE 0
  BY Here DEF Given
<1>4. PICK value : value = IF prog.funcs[Top.fn].returns THEN <<Last(Top.st)>> ELSE <<>>
  OBVIOUS
<1>5. IsList(value) /\ Len(value) = Given(m, Top.fn)
  <2>1. CASE prog.funcs[Top.fn].returns
    <3>1. PICK v : v = Last(Top.st)
      OBVIOUS
    <3>2. value = <<v>>
      BY <1>4, <2>1, <3>1
    <3>. QED
      BY <1>3, <2>1, <3>2, ListOne
  <2>2. CASE ~prog.funcs[Top.fn].returns
    BY <1>3, <1>4, <2>2, ListNone
  <2>. QED
    BY <2>1, <2>2
<1>6. PICK callers : callers = Front(calls)
  OBVIOUS
<1>7. IF callers = <<>> THEN status' = "returned" /\ calls' = <<>>
      ELSE calls' = [callers EXCEPT ![Len(callers)].st = @ \o value]
  BY <1>4, <1>6 DEF Return
<1>8. CASE callers = <<>>
  BY <1>7, <1>8
<1>9. CASE callers # <<>>
  <2>1. PICK k \in Nat : k = n - 1 /\ k <= n /\ k + 1 = n
    <3>1. n - 1 \in Nat /\ n - 1 <= n /\ (n - 1) + 1 = n
      OBVIOUS
    <3>. QED
      BY <3>1
  <2>2. callers = SubSeq(calls, 1, k) /\ IsList(callers) /\ Len(callers) = k
    BY <1>1, <1>2, <1>6, <2>1, ListSub DEF Front
  <2>3. k # 0 /\ k \in 1..(n - 1) /\ k \in 1..k
    <3>1. k # 0
      BY <1>9, <2>2 DEF IsList
    <3>. QED
      BY <2>1, <3>1
  <2>4. \A d \in 1..k : callers[d] = calls[d]
    <3>1. calls \in Seq(Range(calls)) /\ Len(calls) = n
      BY <1>1, <1>2 DEF IsList
    <3>. QED
      BY <2>1, <2>2, <3>1
  <2>5. FrameAt(m, prog, calls[k], Given(m, Top.fn))
    <3>1. calls[k + 1] = Top
      BY <1>1, <2>1 DEF Top
    <3>2. FrameAt(m, prog, calls[k], Given(m, calls[k + 1].fn))
      BY <1>1, <2>3 DEF Running, Stacked
    <3>. QED
      BY <3>1, <3>2
  <2>6. PICK c : c = calls[k]
    OBVIOUS
  <2>7. /\ c = [fn |-> c.fn, pc |-> c.pc, local |-> c.local, st |-> c.st]
        /\ c.fn \in DOMAIN m.funcs /\ IsList(c.st)
        /\ c.pc \in 1..Len(prog.funcs[c.fn].code)
        /\ Len(c.st) + Given(m, Top.fn) = DepthOf(m, prog, c.fn)[c.pc]
    BY <2>5, <2>6 DEF FrameAt
  <2>8. PICK t : t = [c EXCEPT !.st = c.st \o value]
    OBVIOUS
  <2>9. /\ t = [fn |-> c.fn, pc |-> c.pc, local |-> c.local, st |-> c.st \o value]
        /\ t.fn = c.fn /\ t.pc = c.pc /\ t.local = c.local /\ t.st = c.st \o value
    BY <2>7, <2>8
  <2>10. IsList(c.st \o value) /\ Len(c.st \o value) = Len(c.st) + Given(m, Top.fn)
    BY <1>5, <2>7, ListJoin
  <2>11. FrameAt(m, prog, t, 0)
    <3>1. Len(t.st) \in Nat
      BY <2>9, <2>10, ListDomain
    <3>2. Len(t.st) + 0 = DepthOf(m, prog, t.fn)[t.pc]
      BY <2>7, <2>9, <2>10, <3>1
    <3>. QED
      BY <2>7, <2>9, <2>10, <3>2 DEF FrameAt
  <2>12. PICK ds : ds = [callers EXCEPT ![k] = t]
    OBVIOUS
  <2>13. calls' = ds
    BY <1>7, <1>9, <2>2, <2>3, <2>4, <2>6, <2>8, <2>12
  <2>14. DOMAIN callers = 1..k
    BY <2>2, ListDomain
  <2>15. ds[k] = t /\ \A d \in 1..(k - 1) : ds[d] = calls[d]
    BY <2>3, <2>4, <2>12, <2>14
  <2>16. IsList(ds) /\ Len(ds) = k
    <3>1. callers \in Seq(Range(callers) \cup {t})
      BY <2>2, SeqMonotonic DEF IsList
    <3>2. ds \in Seq(Range(callers) \cup {t}) /\ Len(ds) = k
      BY <2>2, <2>12, <2>14, <2>3, <3>1
    <3>. QED
      BY <3>2, SeqIsList
  <2>17. ASSUME NEW d \in 1..(k - 1) PROVE FrameAt(m, prog, ds[d], Given(m, ds[d + 1].fn))
    <3>1. d \in 1..(n - 1) /\ (d + 1 = k \/ d + 1 \in 1..(k - 1))
      BY <2>1
    <3>2. FrameAt(m, prog, calls[d], Given(m, calls[d + 1].fn))
      BY <1>1, <3>1 DEF Running, Stacked
    <3>3. ds[d + 1].fn = calls[d + 1].fn
      BY <2>6, <2>9, <2>15, <3>1
    <3>. QED
      BY <2>15, <3>2, <3>3
  <2>18. ds # <<>>
    BY <2>3, <2>16, ListNone
  <2>19. Stacked(m, prog, ds)
    BY <2>11, <2>15, <2>16, <2>17, <2>18 DEF Stacked
  <2>. QED
    BY <2>13, <2>19
<1> QED
  BY <1>8, <1>9

Emitted == \A p \in Programs : \E m : Runnable(m) /\ p = EmitModule(m)
Balanced == prog \in Programs /\ (status = "run" => \E m : Running(m))

(* The machine starts with one call, of main, at its first instruction and *)
(* with nothing on its stack.                                              *)
LEMMA EntryBalanced ==
    ASSUME Emitted, Init
    PROVE  Balanced
<1>1. SUFFICES ASSUME status = "run" PROVE \E m : Running(m)
  BY DEF Init, Balanced
<1>2. PICK m : Runnable(m) /\ prog = EmitModule(m)
  BY DEF Emitted, Init
<1>3. calls = <<CallFrame("main", <<>>, EntryPointer)>>
  BY <1>1 DEF Init, EntryStatus, EntryCalls
<1>4. PICK c : c = CallFrame("main", <<>>, EntryPointer)
  OBVIOUS
<1>5. c = [fn |-> "main", pc |-> 1, local |-> c.local, st |-> <<>>] /\ c.fn = "main" /\ c.pc = 1 /\ c.st = <<>>
  BY <1>4 DEF CallFrame
<1>6. "main" \in DOMAIN m.funcs
  BY <1>2 DEF Runnable, WellTyped
<1>7. Compiled(m, m.funcs["main"], prog.funcs["main"], DepthOf(m, prog, "main"))
  BY <1>2, <1>6, EmittedDepths
<1>8. 1 \in 1..Len(prog.funcs["main"].code) /\ DepthOf(m, prog, "main")[1] = 0
  BY <1>7 DEF Compiled
<1>9. FrameAt(m, prog, c, 0)
  BY <1>5, <1>6, <1>8, ListNone DEF FrameAt
<1>10. IsList(calls) /\ Len(calls) = 1 /\ calls[1] = c /\ calls # <<>>
  BY <1>3, <1>4, ListOne, ListNone
<1>11. \A d \in 1..(1 - 1) : FALSE
  OBVIOUS
<1>12. Stacked(m, prog, calls)
  BY <1>9, <1>10, <1>11 DEF Stacked
<1> QED
  BY <1>2, <1>12 DEF Running

(* Every step leaves every call that is left at the depth its code has.    *)
LEMMA StackedStays ==
    ASSUME NEW m, Running(m), Next
    PROVE  /\ status = "run" /\ prog' = prog
           /\ status' \in {"exhausted", "trapped", "returned"} \/ Stacked(m, prog, calls')
<1>1. status = "run" /\ prog' = prog
  BY DEF Next, OutOfSteps, PushOperand, SetLocal, SetGlobal, Load, Store, Binary, Compare, Convert32,
         JumpTo, Output, Call_, CallExhausts, Trap, Return, NoResult, Runs, Executing, Fetching,
         Calls, Leave, AtEnd, Stop
<1> DEFINE Goal == status' \in {"exhausted", "trapped", "returned"} \/ Stacked(m, prog, calls')
<1>2. ASSUME OutOfSteps \/ CallExhausts \/ Trap \/ NoResult PROVE Goal
  BY <1>2 DEF OutOfSteps, CallExhausts, Trap, NoResult, Stop
<1>3. ASSUME PushOperand PROVE Goal
  BY <1>3, PushKeeps
<1>4. ASSUME SetLocal PROVE Goal
  BY <1>4, SetLocalKeeps
<1>5. ASSUME SetGlobal PROVE Goal
  BY <1>5, SetGlobalKeeps
<1>6. ASSUME Load PROVE Goal
  BY <1>6, LoadKeeps
<1>7. ASSUME Store PROVE Goal
  BY <1>7, StoreKeeps
<1>8. ASSUME Binary \/ Compare PROVE Goal
  BY <1>8, BinaryKeeps
<1>9. ASSUME Convert32 PROVE Goal
  BY <1>9, ConvertKeeps
<1>10. ASSUME JumpTo PROVE Goal
  BY <1>10, JumpKeeps
<1>11. ASSUME Output PROVE Goal
  BY <1>11, OutputKeeps
<1>12. ASSUME Call_ PROVE Goal
  BY <1>12, CallKeeps
<1>13. ASSUME Return PROVE Goal
  BY <1>13, ReturnKeeps
<1> QED
  BY <1>1, <1>2, <1>3, <1>4, <1>5, <1>6, <1>7, <1>8, <1>9, <1>10, <1>11, <1>12, <1>13 DEF Next

(* So every step keeps the machine balanced.                               *)
LEMMA StepBalanced ==
    ASSUME Balanced, [Next]_vars
    PROVE  Balanced'
<1>1. CASE UNCHANGED vars
  BY <1>1 DEF vars, Balanced, Running
<1>2. CASE Next
  <2>1. status = "run"
    BY <1>2 DEF Next, OutOfSteps, PushOperand, SetLocal, SetGlobal, Load, Store, Binary, Compare, Convert32,
                JumpTo, Output, Call_, CallExhausts, Trap, Return, NoResult, Runs, Executing, Fetching,
                Calls, Leave, AtEnd, Stop
  <2>2. PICK m : Running(m)
    BY <2>1 DEF Balanced
  <2>3. prog' = prog /\ (status' \in {"exhausted", "trapped", "returned"} \/ Stacked(m, prog, calls'))
    BY <1>2, <2>2, StackedStays
  <2>4. Stacked(m, prog, calls') => Running(m)'
    BY <2>2, <2>3 DEF Running
  <2>. QED
    BY <2>3, <2>4 DEF Balanced
<1> QED
  BY <1>1, <1>2

(* A call at the depth its code has finds what its instruction takes, and  *)
(* nothing where a block starts.                                           *)
LEMMA BalancedMeans ==
    ASSUME Balanced
    PROVE  BlocksStartEmpty /\ OperandsThere
<1>1. SUFFICES ASSUME status = "run"
               PROVE  /\ Top.pc \in prog.funcs[Top.fn].starts => Top.st = <<>>
                      /\ Top.pc \in DOMAIN Code /\ Takes <= Len(Top.st)
  BY DEF BlocksStartEmpty, OperandsThere
<1>2. PICK m : Running(m)
  BY <1>1 DEF Balanced
<1>3. PICK a \in Nat : a = Len(Top.st) /\ IsList(Top.st)
  BY <1>2, Here
<1>4. Top.pc \in DOMAIN Code
  BY <1>2, Here
<1>5. Top.pc \in prog.funcs[Top.fn].starts => a = 0
  BY <1>2, <1>3, Here
<1>6. a = 0 => Top.st = <<>>
  <2>1. PICK s : s = Top.st
    OBVIOUS
  <2>2. IsList(s) /\ a = Len(s)
    BY <1>3, <2>1
  <2>3. s # <<>> => Len(s) # 0
    BY <2>2 DEF IsList
  <2>. QED
    BY <2>1, <2>2, <2>3
<1>7. DataMove(Ins, a, H(m)[Top.pc + 1]) /\ ControlMove(m, Context(m), Ins, a, H(m)[Top.pc + 1])
  BY <1>2, <1>3, Depth, DepthOfControl
<1>8. Takes <= a
  <2>1. CASE Ins.op \in BinOps \cup Cmps \cup {"store"}
    <3>2. /\ Ins.op \notin ConvertOps \cup {"local.set", "global.set", "load", "jz"}
          /\ Ins.op # "call" /\ Ins.op # "return"
      BY <2>1 DEF BinOps, DivOps, ShiftOps, BitOps, Cmps, SignedCmps, UnsignedCmps, ConvertOps
    <3>1. Takes = 2
      BY <2>1, <3>2, Zenon DEF Takes
    <3>. QED
      BY <1>7, <2>1, <3>1 DEF DataMove, TwoOps
  <2>2. CASE Ins.op \in ConvertOps \cup {"local.set", "global.set", "load", "jz"}
    <3>1. Ins.op \notin BinOps \cup Cmps \cup {"store"} /\ Ins.op # "call" /\ Ins.op # "return"
      BY <2>2 DEF BinOps, DivOps, ShiftOps, BitOps, Cmps, SignedCmps, UnsignedCmps, ConvertOps
    <3>2. Takes = 1
      BY <2>2, <3>1, Zenon DEF Takes
    <3>. QED
      BY <1>7, <2>2, <3>2 DEF DataMove, ControlMove, OneOps, SetOps
  <2>3. CASE Ins.op = "call"
    <3>1. Ins.op \notin BinOps \cup Cmps \cup {"store"} /\ Ins.op # "return"
          /\ Ins.op \notin ConvertOps \cup {"local.set", "global.set", "load", "jz"}
      BY <2>3 DEF BinOps, DivOps, ShiftOps, BitOps, Cmps, SignedCmps, UnsignedCmps, ConvertOps
    <3>2. CASE Ins.text = "print_i32"
      <4>2. Ins.text \notin DOMAIN prog.funcs
        <5>1. prog.funcs = [g \in DOMAIN m.funcs |-> EmitFunction(m.funcs[g])]
          BY <1>2 DEF Running, EmitModule
        <5>. QED
          BY <1>2, <3>2, <5>1 DEF Running, Runnable, WellTyped
      <4>1. Takes = 1
        BY <2>3, <3>1, <3>2, <4>2, Zenon DEF Takes
      <4>. QED
        BY <1>7, <2>3, <3>2, <4>1 DEF ControlMove
    <3>3. CASE Ins.text # "print_i32"
      <4>1. Ins.text \in DOMAIN m.funcs /\ Len(m.funcs[Ins.text].params) <= a
        BY <1>7, <2>3, <3>3 DEF ControlMove
      <4>2. Ins.text \in DOMAIN prog.funcs /\ prog.funcs[Ins.text].params = Len(m.funcs[Ins.text].params)
        <5>1. PICK g \in DOMAIN m.funcs : g = Ins.text
          BY <4>1
        <5>2. Runnable(m) /\ prog = EmitModule(m)
          BY <1>2 DEF Running
        <5>3. Compiled(m, m.funcs[g], prog.funcs[g], DepthOf(m, prog, g)) /\ DOMAIN prog.funcs = DOMAIN m.funcs
          BY <5>2, EmittedDepths
        <5>. QED
          BY <5>1, <5>3 DEF Compiled
      <4>3. Takes = prog.funcs[Ins.text].params
        BY <2>3, <3>1, <3>3, <4>2, Zenon DEF Takes
      <4>. QED
        BY <4>1, <4>2, <4>3
    <3>. QED
      BY <3>2, <3>3
  <2>4. CASE Ins.op = "return"
    <3>1. Ins.op \notin BinOps \cup Cmps \cup {"store"}
          /\ Ins.op \notin ConvertOps \cup {"local.set", "global.set", "load", "jz"} /\ Ins.op # "call"
      BY <2>4 DEF BinOps, DivOps, ShiftOps, BitOps, Cmps, SignedCmps, UnsignedCmps, ConvertOps
    <3>2. prog.funcs[Top.fn].returns => 1 <= a
      BY <1>2, <1>7, <2>4, Here DEF ControlMove, Context
    <3>3. Takes = IF prog.funcs[Top.fn].returns THEN 1 ELSE 0
      <4>1. CASE prog.funcs[Top.fn].returns
        BY <2>4, <3>1, <4>1, Zenon DEF Takes
      <4>2. CASE ~prog.funcs[Top.fn].returns
        BY <2>4, <3>1, <4>2, Zenon DEF Takes
      <4>. QED
        BY <4>1, <4>2
    <3>. QED
      BY <1>3, <3>2, <3>3
  <2>5. CASE /\ Ins.op \notin BinOps \cup Cmps \cup {"store"}
             /\ Ins.op \notin ConvertOps \cup {"local.set", "global.set", "load", "jz"}
             /\ Ins.op # "call" /\ Ins.op # "return"
    <3>1. Takes = 0
      BY <2>5, Zenon DEF Takes
    <3>. QED
      BY <1>3, <3>1
  <2>. QED
    BY <2>1, <2>2, <2>3, <2>4, <2>5
<1> QED
  BY <1>3, <1>4, <1>5, <1>6, <1>8

(* OperandsBalanced.  The VM runs what EmitModule makes of modules that    *)
(* pass checkCFG and checkTypes, with an entry and no function named       *)
(* print_i32, which Op::Call would take for the built-in (VM.cpp:565).     *)
(* Then no instruction ever finds fewer values on the operand stack of its *)
(* call than it pops (pop, VM.cpp:256, would read them as 0), no call runs *)
(* past the end of its code, and the stack is empty at every address a     *)
(* jump can name: what lowerBlock pushes in a block is popped in it, the   *)
(* pairs its peephole drops were balanced, and a return gives its caller   *)
(* the one value the caller's next instruction counts on.                  *)
THEOREM OperandsBalanced ==
    ASSUME \A p \in Programs : \E m : Runnable(m) /\ p = EmitModule(m)
    PROVE  Spec => [](BlocksStartEmpty /\ OperandsThere)
<1>1. Init => Balanced
  BY EntryBalanced DEF Emitted
<1>2. Balanced /\ [Next]_vars => Balanced'
  BY StepBalanced
<1>3. Balanced => BlocksStartEmpty /\ OperandsThere
  BY BalancedMeans
<1> QED
  BY <1>1, <1>2, <1>3, PTL DEF Spec
-----------------------------------------------------------------------------
(* A module of which nothing writes the register that holds the address of *)
(* the frame, and whose slots have a number of elements.                   *)
Framable(m) ==
    /\ Runnable(m) /\ FrameReg \notin Written(m)
    /\ \A f \in DOMAIN m.funcs : \A ins \in Instructions(m.funcs[f]) : Count(ins) \in Int

(* The frame of a function has a size.                                     *)
LEMMA FrameHasSize ==
    ASSUME NEW m, Framable(m), NEW f \in DOMAIN m.funcs
    PROVE  EmitFunction(m.funcs[f]).frameSize \in Int
<1>1. PICK fn : fn = m.funcs[f]
  OBVIOUS
<1>2. IsFunction(fn) /\ \A ins \in Instructions(fn) : Count(ins) \in Int
  BY <1>1 DEF Framable, Runnable, WellTyped, Sound
<1>3. PICK n \in Nat : n = Len(fn.blocks) /\ DOMAIN fn.blocks = 1..n
  BY <1>2, ListDomain DEF IsFunction
<1> DEFINE ss == [i \in 1..n |-> fn.blocks[i].instrs]
<1>4. ASSUME NEW i \in 1..n
      PROVE  IsList(ss[i]) /\ \A j \in 1..Len(ss[i]) : ss[i][j] \in Instructions(fn)
  <2>1. fn.blocks[i] \in Range(fn.blocks) /\ IsList(fn.blocks[i].instrs)
    BY <1>2, <1>3 DEF IsFunction, Range
  <2>2. \A j \in 1..Len(ss[i]) : ss[i][j] \in Range(fn.blocks[i].instrs)
    BY <2>1, ListDomain DEF Range
  <2>. QED
    BY <2>1, <2>2 DEF Instructions
<1>5. ss \in [1..n -> {fn.blocks[i].instrs : i \in 1..n}] /\ Listing(fn) = FlattenSeq(ss)
  BY <1>3 DEF Listing
<1> HIDE DEF ss
<1>6. PICK T : ss \in [1..n -> Seq(T)]
  BY <1>4, <1>5, PiecesAreLists
<1>7. PICK start : Starts(ss, start)
  BY <1>6, HasStarts
<1>8. PICK flat : flat = FlattenSeq(ss)
  OBVIOUS
<1>9. flat \in Seq(T) /\ LaidOut(ss, n, flat, start)
  BY <1>6, <1>7, <1>8, FlattenFlattens DEF Flattens
<1>10. IsList(flat) /\ DOMAIN flat = 1..Len(flat)
  BY <1>9, SeqIsList
<1>11. Counted(flat)
  <2>1. ASSUME NEW k \in 1..Len(flat) PROVE Count(flat[k]) \in Int
    <3>0. PICK i \in 1..n : \E j \in 1..Len(ss[i]) : k = start[i] + j
      BY <1>9 DEF LaidOut
    <3>1. PICK j \in 1..Len(ss[i]) : k = start[i] + j
      BY <3>0
    <3>2. flat[k] = ss[i][j]
      BY <1>9, <3>1 DEF LaidOut
    <3>. QED
      BY <1>2, <1>4, <3>2
  <2>. QED
    BY <1>10, <2>1 DEF Counted
<1>12. PICK z \in Int : z = FoldLeft(Place, [offset |-> <<>>, size |-> 0], flat).size
  BY <1>10, <1>11, PlacedSize
<1>13. LayoutFrame(fn).size = RoundUp(z, 8)
  <2>1. PICK laid : laid = FoldLeft(Place, [offset |-> <<>>, size |-> 0], flat)
    OBVIOUS
  <2>. QED
    BY <1>5, <1>8, <1>12, <2>1 DEF LayoutFrame
<1>14. RoundUp(z, 8) \in Int
  BY DEF RoundUp
<1>15. EmitFunction(fn).frameSize = LayoutFrame(fn).size
  BY DEF EmitFunction
<1> QED
  BY <1>1, <1>13, <1>14, <1>15

(* What is known of the frame of a function.                               *)
LEMMA FrameFacts ==
    ASSUME NEW m, Framable(m), prog = EmitModule(m), NEW f \in DOMAIN m.funcs
    PROVE  /\ FrameBytes(f) \in Nat
           /\ NeedsFrame(f) => prog.funcs[f].params + 1 \in 1..prog.funcs[f].locals
           /\ prog.funcs[f].params \in Nat
           /\ NeedsFrame(f) => \A i \in 1..Len(prog.funcs[f].code) :
                 prog.funcs[f].code[i].op = "local.set" =>
                       prog.funcs[f].code[i].imm # prog.funcs[f].params + 1
<1>1. prog.funcs[f] = EmitFunction(m.funcs[f])
  BY DEF EmitModule
<1>2. prog.funcs[f].frameSize \in Int
  BY <1>1, FrameHasSize
<1>3. KeepsFrame(m, prog.funcs[f])
  BY EmittedDepths DEF Framable, Compiled
<1> QED
  BY <1>2, <1>3 DEF KeepsFrame, NeedsFrame, FrameBytes, Framable

(* base[d] is where the frame of call d begins, and that of the next ends. *)
Stands(c, base, d) ==
    /\ base[d] = base[d - 1] - FrameBytes(c.fn)
    /\ NeedsFrame(c.fn) => /\ prog.funcs[c.fn].params + 1 \in DOMAIN c.local
                           /\ c.local[prog.funcs[c.fn].params + 1] = base[d]
Bases(cs, sp, base) ==
    /\ base \in [0..Len(cs) -> Int]
    /\ base[0] = MemoryBytes /\ base[Len(cs)] = sp /\ 0 <= sp
    /\ \A d \in 1..Len(cs) : Stands(cs[d], base, d)
Standing(cs, sp) == \E base : Bases(cs, sp, base)

(* Calls that differ in nothing a frame depends on.                        *)
SameFrame(c, t) ==
    /\ t.fn = c.fn
    /\ NeedsFrame(c.fn) /\ prog.funcs[c.fn].params + 1 \in DOMAIN c.local =>
          /\ prog.funcs[c.fn].params + 1 \in DOMAIN t.local
          /\ t.local[prog.funcs[c.fn].params + 1] = c.local[prog.funcs[c.fn].params + 1]
LEMMA SameStanding ==
    ASSUME NEW cs, NEW ds, NEW sp, Len(ds) = Len(cs),
           \A d \in 1..Len(cs) : SameFrame(cs[d], ds[d]), Standing(cs, sp)
    PROVE  Standing(ds, sp)
<1>1. PICK base : Bases(cs, sp, base)
  BY DEF Standing
<1>2. ASSUME NEW d \in 1..Len(cs) PROVE Stands(ds[d], base, d)
  <2>1. Stands(cs[d], base, d) /\ SameFrame(cs[d], ds[d])
    BY <1>1 DEF Bases
  <2>. QED
    BY <2>1 DEF Stands, SameFrame
<1>3. Bases(ds, sp, base)
  BY <1>1, <1>2 DEF Bases
<1> QED
  BY <1>3 DEF Standing

(* The innermost call moves on and keeps its frame.                        *)
LEMMA MovedStanding ==
    ASSUME NEW m, Running(m), NEW pc, NEW st, NEW sp, Standing(calls, sp)
    PROVE  Standing(Moved(pc, st), sp)
<1>1. PICK n \in Nat \ {0} : n = Len(calls)
  BY Here
<1>2. PICK ds : ds = Moved(pc, st)
  OBVIOUS
<1>3. /\ Len(ds) = n
      /\ \A d \in 1..(n - 1) : ds[d] = calls[d]
      /\ ds[n] = [fn |-> Top.fn, pc |-> pc, local |-> Top.local, st |-> st]
  BY <1>1, <1>2, MovedIs
<1>4. ds[n].fn = calls[n].fn /\ ds[n].local = calls[n].local
  BY <1>1, <1>3 DEF Top
<1>5. ASSUME NEW d \in 1..n PROVE SameFrame(calls[d], ds[d])
  <2>1. d = n \/ d \in 1..(n - 1)
    OBVIOUS
  <2>2. ds[d].fn = calls[d].fn /\ ds[d].local = calls[d].local
    BY <1>3, <1>4, <2>1
  <2>. QED
    BY <2>2 DEF SameFrame
<1> QED
  BY <1>1, <1>2, <1>3, <1>5, SameStanding

(* A local that is set is not the one with the address of the frame.       *)
LEMMA SetLocalStanding ==
    ASSUME NEW m, Running(m), Framable(m), SetLocal, Standing(calls, stackPointer)
    PROVE  Standing(calls', stackPointer)
<1>1. /\ Ins.op = "local.set"
      /\ calls' = [Moved(Top.pc + 1, Popped(1)) EXCEPT ![Len(calls)].local[Ins.imm] = Peek(0)]
  BY DEF SetLocal, Runs
<1>2. PICK ms : ms = Moved(Top.pc + 1, Popped(1))
  OBVIOUS
<1>3. PICK n \in Nat \ {0} : n = Len(calls)
  BY Here
<1>4. /\ IsList(ms) /\ Len(ms) = n
      /\ ms[n] = [fn |-> Top.fn, pc |-> Top.pc + 1, local |-> Top.local, st |-> Popped(1)]
  BY <1>2, <1>3, MovedIs
<1>5. PICK c : c = ms[n]
  OBVIOUS
<1>6. c = [fn |-> c.fn, pc |-> c.pc, local |-> c.local, st |-> c.st] /\ c.fn = Top.fn /\ c.local = Top.local
  BY <1>4, <1>5
<1>7. PICK l : l = [c.local EXCEPT ![Ins.imm] = Peek(0)]
  OBVIOUS
<1>8. PICK t : t = [c EXCEPT !.local = l]
  OBVIOUS
<1>9. t.fn = c.fn /\ t.local = l
  BY <1>6, <1>8
<1>10. PICK ds : ds = [ms EXCEPT ![n] = t]
  OBVIOUS
<1>11. calls' = ds
  BY <1>1, <1>2, <1>3, <1>5, <1>7, <1>8, <1>10
<1>12. DOMAIN ms = 1..n
  BY <1>4, ListDomain
<1>13. ds[n] = t /\ \A d \in 1..(n - 1) : ds[d] = ms[d]
  BY <1>10, <1>12
<1>14. Len(ds) = n
  <2>1. ms \in Seq(Range(ms) \cup {t})
    BY <1>4, SeqMonotonic DEF IsList
  <2>. QED
    BY <1>4, <1>10, <1>12, <2>1
<1>15. SameFrame(c, t)
  <2>1. SUFFICES ASSUME NeedsFrame(c.fn), prog.funcs[c.fn].params + 1 \in DOMAIN c.local
                 PROVE  /\ prog.funcs[c.fn].params + 1 \in DOMAIN l
                        /\ l[prog.funcs[c.fn].params + 1] = c.local[prog.funcs[c.fn].params + 1]
    BY <1>9 DEF SameFrame
  <2>2. Top.fn \in DOMAIN m.funcs /\ Top.pc \in DOMAIN Code /\ DOMAIN Code = 1..Len(Code)
        /\ prog = EmitModule(m)
    BY Here DEF FrameAt, Running
  <2>3. Ins.imm # prog.funcs[c.fn].params + 1
    BY <1>1, <1>6, <2>1, <2>2, FrameFacts DEF Ins, Code
  <2>. QED
    BY <1>7, <2>1, <2>3
<1>16. Standing(ms, stackPointer)
  BY <1>2, MovedStanding
<1>17. ASSUME NEW d \in 1..n PROVE SameFrame(ms[d], ds[d])
  <2>1. CASE d = n
    BY <1>5, <1>13, <1>15, <2>1
  <2>2. CASE d # n
    <3>1. ds[d] = ms[d]
      BY <1>13, <2>2
    <3>. QED
      BY <3>1 DEF SameFrame
  <2>. QED
    BY <2>1, <2>2
<1>18. Standing(ds, stackPointer)
  BY <1>4, <1>14, <1>16, <1>17, SameStanding
<1> QED
  BY <1>11, <1>18

(* A call puts its frame below all the others, and one more call stands.   *)
LEMMA CalledStanding ==
    ASSUME NEW m, Framable(m), prog = EmitModule(m), NEW f \in DOMAIN m.funcs,
           NEW cs, IsList(cs), NEW sp \in Int, Standing(cs, sp), FrameBytes(f) <= sp, NEW args
    PROVE  Standing(Append(cs, CallFrame(f, args, sp - FrameBytes(f))), sp - FrameBytes(f))
<1>1. PICK base : Bases(cs, sp, base)
  BY DEF Standing
<1>2. PICK n \in Nat : n = Len(cs)
  BY ListDomain
<1>3. PICK b \in Nat : b = FrameBytes(f)
  BY FrameFacts
<1>4. PICK c : c = CallFrame(f, args, sp - b)
  OBVIOUS
<1>5. c.fn = f /\ c.local = Bound(f, args, sp - b)
  BY <1>4 DEF CallFrame
<1>6. PICK ds : ds = Append(cs, c)
  OBVIOUS
<1>7. Len(ds) = n + 1 /\ ds[n + 1] = c /\ \A d \in 1..n : ds[d] = cs[d]
  BY <1>2, <1>6 DEF IsList
<1> DEFINE new == [d \in 0..(n + 1) |-> IF d = n + 1 THEN sp - b ELSE base[d]]
<1>8. /\ new \in [0..(n + 1) -> Int] /\ new[n + 1] = sp - b
      /\ \A d \in 0..n : new[d] = base[d]
  BY <1>1, <1>2 DEF Bases
<1> HIDE DEF new
<1>9. ASSUME NEW d \in 1..(n + 1) PROVE Stands(ds[d], new, d)
  <2>1. CASE d = n + 1
    <3>1. new[d - 1] = sp /\ new[d] = sp - b /\ ds[d] = c
      BY <1>1, <1>2, <1>7, <1>8, <2>1 DEF Bases
    <3>2. NeedsFrame(f) => /\ prog.funcs[f].params + 1 \in DOMAIN c.local
                           /\ c.local[prog.funcs[f].params + 1] = sp - b
      BY <1>5, FrameFacts DEF Bound
    <3>. QED
      BY <1>3, <1>5, <3>1, <3>2 DEF Stands
  <2>2. CASE d # n + 1
    <3>1. d \in 1..n /\ d - 1 \in 0..n /\ d \in 0..n
      BY <2>2
    <3>2. Stands(cs[d], base, d)
      BY <1>1, <1>2, <3>1 DEF Bases
    <3>. QED
      BY <1>7, <1>8, <3>1, <3>2 DEF Stands
  <2>. QED
    BY <2>1, <2>2
<1>10. new[0] = MemoryBytes /\ 0 <= sp - b
  BY <1>1, <1>3, <1>8 DEF Bases
<1>11. Bases(ds, sp - b, new)
  BY <1>7, <1>8, <1>9, <1>10 DEF Bases
<1> QED
  BY <1>3, <1>4, <1>6, <1>11 DEF Standing

(* A call that is left gives back what was left before it.                 *)
LEMMA LeftStanding ==
    ASSUME NEW m, Framable(m), prog = EmitModule(m), NEW n \in Nat,
           NEW cs, Len(cs) = n + 1, cs[n + 1].fn \in DOMAIN m.funcs, NEW sp, Standing(cs, sp),
           NEW ds, Len(ds) = n, \A d \in 1..n : SameFrame(cs[d], ds[d])
    PROVE  /\ Standing(ds, sp + FrameBytes(cs[n + 1].fn))
           /\ n = 0 => sp + FrameBytes(cs[n + 1].fn) = MemoryBytes
<1>1. PICK base : Bases(cs, sp, base)
  BY DEF Standing
<1>2. PICK b \in Nat : b = FrameBytes(cs[n + 1].fn)
  BY FrameFacts
<1>3. base \in [0..(n + 1) -> Int] /\ base[0] = MemoryBytes /\ base[n + 1] = sp /\ 0 <= sp
  BY <1>1 DEF Bases
<1>4. Stands(cs[n + 1], base, n + 1)
  BY <1>1 DEF Bases
<1>5. base[n] = sp + b /\ base[n] \in Int /\ sp \in Int
  <2>1. base[n + 1] = base[(n + 1) - 1] - b
    BY <1>2, <1>4 DEF Stands
  <2>2. (n + 1) - 1 = n /\ n \in 0..(n + 1) /\ n + 1 \in 0..(n + 1)
    OBVIOUS
  <2>. QED
    BY <1>3, <2>1, <2>2
<1> DEFINE new == [d \in 0..n |-> base[d]]
<1>6. new \in [0..n -> Int] /\ \A d \in 0..n : new[d] = base[d]
  BY <1>3
<1> HIDE DEF new
<1>7. ASSUME NEW d \in 1..n PROVE Stands(ds[d], new, d)
  <2>1. d \in 1..Len(cs) /\ d \in 0..n /\ d - 1 \in 0..n
    OBVIOUS
  <2>2. Stands(cs[d], base, d) /\ SameFrame(cs[d], ds[d])
    BY <1>1, <2>1 DEF Bases
  <2>3. new[d] = base[d] /\ new[d - 1] = base[d - 1]
    BY <1>6, <2>1
  <2>. QED
    BY <2>2, <2>3 DEF Stands, SameFrame
<1>8. Bases(ds, sp + b, new)
  BY <1>3, <1>5, <1>6, <1>7 DEF Bases
<1>9. n = 0 => sp + b = MemoryBytes
  BY <1>3, <1>5
<1> QED
  BY <1>2, <1>8, <1>9 DEF Standing

(* A call, as Machine::call begins it.                                     *)
LEMMA CallStanding ==
    ASSUME NEW m, Running(m), Framable(m), Call_, Standing(calls, stackPointer)
    PROVE  Standing(calls', stackPointer')
<1>1. /\ Ins.op = "call" /\ Ins.text # "print_i32"
      /\ stackPointer' = stackPointer - FrameBytes(Ins.text) /\ ~(stackPointer < FrameBytes(Ins.text))
      /\ calls' = Append(Moved(Top.pc + 1, Popped(ArgCount)), CallFrame(Ins.text, CallArgs, stackPointer'))
  BY DEF Call_, Calls, Runs, NoRoom
<1>2. PICK f : f = Ins.text
  OBVIOUS
<1>3. f \in DOMAIN m.funcs
  BY <1>1, <1>2, DepthOfControl DEF ControlMove
<1>4. prog = EmitModule(m)
  BY DEF Running
<1>5. PICK cs : cs = Moved(Top.pc + 1, Popped(ArgCount))
  OBVIOUS
<1>6. IsList(cs) /\ Standing(cs, stackPointer)
  BY <1>5, MovedIs, MovedStanding
<1>7. stackPointer \in Int
  <2>1. PICK base : Bases(calls, stackPointer, base)
    BY DEF Standing
  <2>2. Len(calls) \in 0..Len(calls)
    BY Here
  <2>. QED
    BY <2>1, <2>2 DEF Bases
<1>8. FrameBytes(f) \in Nat
  BY <1>3, <1>4, FrameFacts
<1>9. FrameBytes(f) <= stackPointer
  BY <1>1, <1>2, <1>7, <1>8
<1>10. Standing(Append(cs, CallFrame(f, CallArgs, stackPointer - FrameBytes(f))), stackPointer - FrameBytes(f))
  BY <1>3, <1>4, <1>6, <1>7, <1>9, CalledStanding
<1> QED
  BY <1>1, <1>2, <1>5, <1>10

(* A return, as Machine::call ends it.                                     *)
LEMMA ReturnStanding ==
    ASSUME NEW m, Running(m), Framable(m), Return, Standing(calls, stackPointer)
    PROVE  /\ Standing(calls', stackPointer')
           /\ calls' = <<>> => stackPointer' = MemoryBytes
           /\ status' = "run" \/ calls' = <<>>
<1>1. PICK n \in Nat : n + 1 = Len(calls) /\ n = Len(calls) - 1 /\ n <= Len(calls)
  <2>1. PICK k \in Nat \ {0} : k = Len(calls)
    BY Here
  <2>2. k - 1 \in Nat /\ (k - 1) + 1 = k /\ k - 1 <= k
    BY <2>1
  <2>. QED
    BY <2>1, <2>2
<1>2. IsList(calls) /\ prog = EmitModule(m) /\ status = "run"
  BY Here DEF Running, Return, Leave, AtEnd, Runs, Executing, Fetching
<1>3. calls[n + 1] = Top /\ Top.fn \in DOMAIN m.funcs
  BY <1>1, Here DEF Top, FrameAt
<1>4. PICK callers : callers = Front(calls)
  OBVIOUS
<1>5. PICK value : value = IF prog.funcs[Top.fn].returns THEN <<Last(Top.st)>> ELSE <<>>
  OBVIOUS
<1>6. /\ stackPointer' = stackPointer + FrameBytes(Top.fn)
      /\ IF callers = <<>> THEN calls' = <<>>
         ELSE calls' = [callers EXCEPT ![Len(callers)].st = @ \o value] /\ status' = status
  BY <1>4, <1>5 DEF Return, Release
<1>7. callers = SubSeq(calls, 1, n) /\ IsList(callers) /\ Len(callers) = n
  BY <1>1, <1>2, <1>4, ListSub DEF Front
<1>8. \A d \in 1..n : callers[d] = calls[d]
  <2>1. calls \in Seq(Range(calls)) /\ Len(calls) = n + 1
    BY <1>1, <1>2 DEF IsList
  <2>. QED
    BY <1>7, <2>1
<1>9. CASE callers = <<>>
  <2>1. n = 0 /\ calls' = <<>>
    BY <1>6, <1>7, <1>9, ListNone
  <2>2. Len(<<>>) = 0 /\ \A d \in 1..0 : SameFrame(calls[d], <<>>[d])
    BY ListNone
  <2>3. PICK ds : ds = <<>>
    OBVIOUS
  <2>4. Len(ds) = n /\ \A d \in 1..n : SameFrame(calls[d], ds[d])
    BY <2>1, <2>3, ListNone
  <2>5. /\ Standing(ds, stackPointer + FrameBytes(Top.fn))
        /\ stackPointer + FrameBytes(Top.fn) = MemoryBytes
    BY <1>1, <1>2, <1>3, <2>1, <2>4, LeftStanding
  <2>. QED
    BY <1>6, <2>1, <2>3, <2>5
<1>10. CASE callers # <<>>
  <2>1. n # 0 /\ n \in 1..n
    <3>1. n # 0
      BY <1>7, <1>10 DEF IsList
    <3>. QED
      BY <3>1
  <2>2. PICK c : c = calls[n]
    OBVIOUS
  <2>3. c = [fn |-> c.fn, pc |-> c.pc, local |-> c.local, st |-> c.st]
    BY <1>1, <2>1, <2>2 DEF Running, Stacked, FrameAt
  <2>4. PICK t : t = [c EXCEPT !.st = c.st \o value]
    OBVIOUS
  <2>5. t.fn = c.fn /\ t.local = c.local
    BY <2>3, <2>4
  <2>6. PICK ds : ds = [callers EXCEPT ![n] = t]
    OBVIOUS
  <2>7. calls' = ds /\ status' = status
    BY <1>6, <1>7, <1>8, <1>10, <2>1, <2>2, <2>4, <2>6
  <2>8. DOMAIN callers = 1..n
    BY <1>7, ListDomain
  <2>9. ds[n] = t /\ \A d \in 1..(n - 1) : ds[d] = calls[d]
    BY <1>8, <2>1, <2>6, <2>8
  <2>10. Len(ds) = n
    <3>1. callers \in Seq(Range(callers) \cup {t})
      BY <1>7, SeqMonotonic DEF IsList
    <3>. QED
      BY <1>7, <2>6, <2>8, <3>1
  <2>11. ASSUME NEW d \in 1..n PROVE SameFrame(calls[d], ds[d])
    <3>1. d = n \/ d \in 1..(n - 1)
      OBVIOUS
    <3>2. ds[d].fn = calls[d].fn /\ ds[d].local = calls[d].local
      BY <2>2, <2>5, <2>9, <3>1
    <3>. QED
      BY <3>2 DEF SameFrame
  <2>12. Standing(ds, stackPointer + FrameBytes(Top.fn))
    BY <1>1, <1>2, <1>3, <2>10, <2>11, LeftStanding
  <2>13. ds # <<>>
    BY <2>1, <2>10, ListNone
  <2>. QED
    BY <1>2, <1>6, <2>7, <2>12, <2>13
<1> QED
  BY <1>9, <1>10

(* While the machine runs every frame stands in its place; when it has     *)
(* ended there is none.                                                    *)
FramesStand ==
    /\ prog \in Programs
    /\ IF status = "run" THEN \E m : Running(m) /\ Framable(m) /\ Standing(calls, stackPointer)
       ELSE calls = <<>> /\ stackPointer = MemoryBytes
FramesEmitted == \A p \in Programs : \E m : Framable(m) /\ p = EmitModule(m)

(* The entry's frame is the first.                                         *)
LEMMA EntryStands ==
    ASSUME MemoryBytes \in Nat, FramesEmitted, Init
    PROVE  FramesStand
<1>1. prog \in Programs /\ status = EntryStatus /\ calls = EntryCalls /\ stackPointer = EntryPointer
  BY DEF Init
<1>2. PICK m : Framable(m) /\ prog = EmitModule(m)
  BY <1>1 DEF FramesEmitted
<1>3. CASE Entered
  <2>1. Emitted
    BY DEF FramesEmitted, Emitted, Framable
  <2>2. /\ status = "run" /\ stackPointer = MemoryBytes - FrameBytes("main")
        /\ calls = <<CallFrame("main", <<>>, stackPointer)>>
    BY <1>1, <1>3 DEF EntryStatus, EntryCalls, EntryPointer
  <2>3. PICK c : c = CallFrame("main", <<>>, stackPointer)
    OBVIOUS
  <2>4. "main" \in DOMAIN m.funcs
    BY <1>2 DEF Framable, Runnable, WellTyped
  <2>5. Stacked(m, prog, calls)
    <3>1. c = [fn |-> "main", pc |-> 1, local |-> c.local, st |-> <<>>]
          /\ c.fn = "main" /\ c.pc = 1 /\ c.st = <<>>
      BY <2>3 DEF CallFrame
    <3>2. Compiled(m, m.funcs["main"], prog.funcs["main"], DepthOf(m, prog, "main"))
      BY <1>2, <2>4, EmittedDepths DEF Framable
    <3>3. FrameAt(m, prog, c, 0)
      BY <2>4, <3>1, <3>2, ListNone DEF FrameAt, Compiled
    <3>4. IsList(calls) /\ Len(calls) = 1 /\ calls[1] = c /\ calls # <<>>
      BY <2>2, <2>3, ListOne, ListNone
    <3>. QED
      BY <3>3, <3>4 DEF Stacked
  <2>6. Running(m)
    BY <1>2, <2>5 DEF Running, Framable
  <2>7. Standing(<<>>, MemoryBytes)
    <3>1. PICK cs : cs = <<>>
      OBVIOUS
    <3>2. Len(cs) = 0
      BY <3>1, ListNone
    <3> DEFINE base == [d \in 0..0 |-> MemoryBytes]
    <3>3. base \in [0..0 -> Int] /\ base[0] = MemoryBytes
      OBVIOUS
    <3>. HIDE DEF base
    <3>4. Bases(cs, MemoryBytes, base)
      BY <3>2, <3>3 DEF Bases
    <3>. QED
      BY <3>1, <3>4 DEF Standing
  <2>8. Standing(Append(<<>>, c), stackPointer)
    <3>1. PICK cs : cs = <<>>
      OBVIOUS
    <3>2. PICK f : f = "main"
      OBVIOUS
    <3>3. IsList(cs) /\ Standing(cs, MemoryBytes) /\ f \in DOMAIN m.funcs
      BY <2>4, <2>7, <3>1, <3>2, ListNone
    <3>4. FrameBytes(f) <= MemoryBytes /\ MemoryBytes \in Int
      BY <1>3, <3>2 DEF Entered
    <3>5. Standing(Append(cs, CallFrame(f, cs, MemoryBytes - FrameBytes(f))), MemoryBytes - FrameBytes(f))
      BY <1>2, <3>3, <3>4, CalledStanding, Zenon
    <3>. QED
      BY <2>2, <2>3, <3>1, <3>2, <3>5
  <2>9. Append(<<>>, c) = <<c>>
    OBVIOUS
  <2>. QED
    BY <1>1, <1>2, <2>2, <2>3, <2>6, <2>8, <2>9 DEF FramesStand
<1>4. CASE ~Entered
  BY <1>1, <1>4 DEF FramesStand, EntryStatus, EntryCalls, EntryPointer
<1> QED
  BY <1>3, <1>4

(* Every step keeps the frames where they are, or adds or removes the last.*)
LEMMA StepStands ==
    ASSUME FramesStand, [Next]_vars
    PROVE  FramesStand'
<1>1. CASE UNCHANGED vars
  BY <1>1 DEF vars, FramesStand, Running, Standing, Bases, Stands, FrameBytes, NeedsFrame
<1>2. CASE Next
  <2>1. status = "run"
    BY <1>2 DEF Next, OutOfSteps, PushOperand, SetLocal, SetGlobal, Load, Store, Binary, Compare, Convert32,
                JumpTo, Output, Call_, CallExhausts, Trap, Return, NoResult, Runs, Executing, Fetching,
                Calls, Leave, AtEnd, Stop
  <2>2. PICK m : Running(m) /\ Framable(m) /\ Standing(calls, stackPointer)
    BY <2>1 DEF FramesStand
  <2>3. prog \in Programs
    BY DEF FramesStand
  <2>4. prog' = prog /\ (status' \in {"exhausted", "trapped", "returned"} \/ Stacked(m, prog, calls'))
    BY <1>2, <2>2, StackedStays
  <2>5. status' = "run" => Running(m)'
    BY <2>2, <2>4 DEF Running
  <2>6. \/ status' # "run" /\ calls' = <<>> /\ stackPointer' = MemoryBytes
        \/ status' = "run" /\ Standing(calls', stackPointer')
    <3>1. CASE OutOfSteps \/ CallExhausts \/ Trap \/ NoResult
      BY <3>1 DEF OutOfSteps, CallExhausts, Trap, NoResult, Stop
    <3>2. CASE PushOperand \/ SetGlobal \/ Load \/ Store \/ Binary \/ Compare \/ Convert32 \/ JumpTo \/ Output
      <4>1. status' = "run" /\ stackPointer' = stackPointer
        BY <2>1, <3>2 DEF PushOperand, SetGlobal, Load, Store, Binary, Compare, Convert32, JumpTo, Output
      <4>2. \E pc, st : calls' = Moved(pc, st)
        BY <3>2 DEF PushOperand, SetGlobal, Load, Store, Binary, Compare, Convert32, JumpTo, Output, Step
      <4>. QED
        BY <2>2, <4>1, <4>2, MovedStanding
    <3>3. CASE SetLocal
      <4>1. status' = "run" /\ stackPointer' = stackPointer
        BY <2>1, <3>3 DEF SetLocal
      <4>. QED
        BY <2>2, <3>3, <4>1, SetLocalStanding
    <3>4. CASE Call_
      <4>1. status' = "run"
        BY <2>1, <3>4 DEF Call_
      <4>. QED
        BY <2>2, <3>4, <4>1, CallStanding
    <3>5. CASE Return
      <4>1. /\ Standing(calls', stackPointer')
            /\ calls' = <<>> => stackPointer' = MemoryBytes
            /\ status' = "run" \/ calls' = <<>>
        BY <2>2, <3>5, ReturnStanding
      <4>. QED
        BY <4>1
    <3>. QED
      BY <1>2, <3>1, <3>2, <3>3, <3>4, <3>5 DEF Next
  <2>7. Standing(calls', stackPointer') => Standing(calls, stackPointer)'
    BY <2>4 DEF Standing, Bases, Stands, FrameBytes, NeedsFrame
  <2>. QED
    BY <2>2, <2>3, <2>4, <2>5, <2>6, <2>7 DEF FramesStand
<1> QED
  BY <1>1, <1>2

(* What lies under one another does not overlap.                           *)
LEMMA StandingApart ==
    ASSUME NEW n \in Nat, n = Len(calls), IsList(calls), NEW base, Bases(calls, stackPointer, base),
           \A d \in 1..n : FrameBytes(calls[d].fn) \in Nat
    PROVE  /\ 0 <= stackPointer
           /\ \A d \in Framed : stackPointer <= FrameOf(d) /\ FrameEnd(d) <= MemoryBytes
           /\ \A d, e \in Framed : d < e => FrameEnd(e) <= FrameOf(d)
<1>1. /\ base \in [0..n -> Int] /\ base[0] = MemoryBytes /\ base[n] = stackPointer /\ 0 <= stackPointer
      /\ \A d \in 1..n : Stands(calls[d], base, d)
  BY DEF Bases
<1>2. \A d \in 1..n : base[d] <= base[d - 1]
  <2>. TAKE d \in 1..n
  <2>1. base[d] = base[d - 1] - FrameBytes(calls[d].fn) /\ d - 1 \in 0..n
    BY <1>1 DEF Stands
  <2>2. base[d - 1] \in Int /\ FrameBytes(calls[d].fn) \in Nat
    BY <1>1, <2>1
  <2>. QED
    BY <2>1, <2>2
<1>3. ASSUME NEW a \in 0..n, NEW b \in a..n PROVE base[b] <= base[a]
  <2> DEFINE S == {k \in a..n : base[k] <= base[a]}
  <2>1. a <= n => a \in S
    BY <1>1
  <2>2. ASSUME NEW k \in a..(n - 1), k \in S PROVE k + 1 \in S
    <3>1. k + 1 \in 1..n /\ (k + 1) - 1 = k /\ k \in 0..n /\ k + 1 \in a..n
      OBVIOUS
    <3>2. base[k + 1] <= base[k] /\ base[k] <= base[a]
      BY <1>2, <2>2, <3>1
    <3>3. base[k + 1] \in Int /\ base[k] \in Int /\ base[a] \in Int
      <4>1. k + 1 \in 0..n
        BY <3>1
      <4>. QED
        BY <1>1, <3>1, <4>1
    <3>. QED
      BY <3>1, <3>2, <3>3
  <2>3. Inductive(S, a, n)
    BY <2>1, <2>2 DEF Inductive
  <2>. HIDE DEF S
  <2>4. \A k \in a..n : k \in S
    BY <2>3, UpTo
  <2>. QED
    BY <2>4 DEF S
<1>4. ASSUME NEW d \in Framed
      PROVE  d \in 1..n /\ FrameOf(d) = base[d] /\ FrameEnd(d) = base[d - 1]
  <2>1. d \in 1..n /\ NeedsFrame(calls[d].fn)
    BY ListDomain DEF Framed
  <2>2. Stands(calls[d], base, d) /\ d \in 0..n /\ d - 1 \in 0..n
    BY <1>1, <2>1
  <2>3. base[d] \in Int /\ base[d - 1] \in Int /\ FrameBytes(calls[d].fn) \in Nat
    BY <1>1, <2>1, <2>2
  <2>4. base[d] = base[d - 1] - FrameBytes(calls[d].fn) /\ FrameOf(d) = base[d]
    BY <2>1, <2>2 DEF Stands, FrameOf
  <2>. QED
    BY <2>1, <2>3, <2>4 DEF FrameEnd
<1>5. ASSUME NEW d \in Framed PROVE stackPointer <= FrameOf(d) /\ FrameEnd(d) <= MemoryBytes
  <2>1. d \in 0..n /\ n \in d..n /\ 0 \in 0..n /\ d - 1 \in 0..n
    BY <1>4
  <2>. QED
    BY <1>1, <1>3, <1>4, <2>1
<1>6. ASSUME NEW d \in Framed, NEW e \in Framed, d < e PROVE FrameEnd(e) <= FrameOf(d)
  <2>1. d \in 0..n /\ e - 1 \in d..n
    BY <1>4, <1>6
  <2>. QED
    BY <1>3, <1>4, <2>1
<1> QED
  BY <1>1, <1>5, <1>6

(* So where the frames stand, they are apart.                              *)
LEMMA StandMeans ==
    ASSUME MemoryBytes \in Nat, FramesStand
    PROVE  FramesApart
<1>1. CASE status = "run"
  <2>1. PICK m : Running(m) /\ Framable(m) /\ Standing(calls, stackPointer)
    BY <1>1 DEF FramesStand
  <2>2. PICK base : Bases(calls, stackPointer, base)
    BY <2>1 DEF Standing
  <2>3. PICK n \in Nat : n = Len(calls) /\ IsList(calls) /\ calls # <<>>
    BY <2>1, Here DEF Running, Stacked
  <2>4. ASSUME NEW d \in 1..n PROVE FrameBytes(calls[d].fn) \in Nat
    <3>1. d = n \/ d \in 1..(n - 1)
      OBVIOUS
    <3>2. calls[d].fn \in DOMAIN m.funcs
      BY <2>1, <2>3, <3>1 DEF Running, Stacked, FrameAt
    <3>. QED
      BY <2>1, <3>2, FrameFacts DEF Running
  <2>. QED
    BY <2>2, <2>3, <2>4, StandingApart DEF FramesApart
<1>2. CASE status # "run"
  <2>1. calls = <<>> /\ stackPointer = MemoryBytes
    BY <1>2 DEF FramesStand
  <2>2. DOMAIN calls = {}
    BY <2>1
  <2>3. Framed = {}
    BY <2>2 DEF Framed
  <2>. QED
    BY <2>1, <2>3 DEF FramesApart
<1> QED
  BY <1>1, <1>2

(* FramesNeverOverlap.  The VM runs what EmitModule makes of modules as in *)
(* OperandsBalanced, of which no instruction writes a register named       *)
(* __frame (EmitSbc.cpp:27 takes the name without asking whether it is     *)
(* free).  Then at every depth of calls the frames layoutFrame sized lie   *)
(* in memory without overlapping, each at the address its call's frame     *)
(* local still holds: Machine::call carves them off the top of what is     *)
(* left and never below address 0 (VM.cpp:236), no local.set of lowered    *)
(* code names that local's slot, and whatever way a call is left, its      *)
(* bytes and only its bytes are given back.                                *)
THEOREM FramesNeverOverlap ==
    ASSUME MemoryBytes \in Nat, \A p \in Programs : \E m : Framable(m) /\ p = EmitModule(m)
    PROVE  Spec => []FramesApart
<1>1. Init => FramesStand
  BY EntryStands DEF FramesEmitted
<1>2. FramesStand /\ [Next]_vars => FramesStand'
  BY StepStands
<1>3. FramesStand => FramesApart
  BY StandMeans
<1> QED
  BY <1>1, <1>2, <1>3, PTL DEF Spec
=============================================================================
