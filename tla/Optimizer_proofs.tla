-------------------------- MODULE Optimizer_proofs --------------------------
(***************************************************************************)
(* What the passes keep, for every function and any number of rounds.      *)
(***************************************************************************)
EXTENDS Optimizer, CFG_proofs

(* A function over 1..n is a list. *)
LEMMA FunctionIsList ==
    ASSUME NEW T, NEW n \in Nat, NEW s \in [1..n -> T]
    PROVE  /\ IsList(s) /\ Len(s) = n /\ s \in Seq(T) /\ Range(s) \subseteq T
           /\ \A t \in Range(s) : \E i \in 1..n : t = s[i]
<1>1. s \in Seq(T) /\ Len(s) = n /\ DOMAIN s = 1..n
  OBVIOUS
<1>2. s \in [1..n -> Range(s)]
  BY DEF Range
<1>3. s \in Seq(Range(s))
  BY <1>2
<1> QED
  BY <1>1, <1>3 DEF IsList, Range

(* A list written as the function of its elements is one.                  *)
LEMMA ListedIsList ==
    ASSUME NEW n \in Nat, NEW s, s = [i \in 1..n |-> s[i]]
    PROVE  /\ IsList(s) /\ Len(s) = n /\ DOMAIN s = 1..n
           /\ \A t \in Range(s) : \E i \in 1..n : t = s[i]
<1>1. DOMAIN s = 1..n /\ s \in [1..n -> Range(s)]
  BY DEF Range
<1>2. s \in Seq(Range(s)) /\ Len(s) = n
  BY <1>1
<1> QED
  BY <1>1, <1>2 DEF IsList, Range

(* What a pass knows of registers: values for some of them. *)
Knows(m) ==
    /\ m = [r \in DOMAIN m |-> m[r]]
    /\ IsFiniteSet(DOMAIN m) /\ NoName \notin DOMAIN m
    /\ \A r \in DOMAIN m : IsOperand(m[r])

(* Substituting known registers changes the operands and nothing else.     *)
LEMMA SubstituteKeeps ==
    ASSUME NEW ins, IsInstr(ins), NEW m, Knows(m)
    PROVE  /\ IsInstr(Substitute(ins, m))
           /\ Substitute(ins, m).op = ins.op /\ Substitute(ins, m).ty = ins.ty
           /\ Substitute(ins, m).dest = ins.dest /\ Substitute(ins, m).labels = ins.labels
           /\ Len(Substitute(ins, m).args) = Len(ins.args)
           /\ DOMAIN ins.args = 1..Len(ins.args) /\ DOMAIN Substitute(ins, m).args = DOMAIN ins.args
           /\ \A i \in DOMAIN ins.args : Substitute(ins, m).args[i] = Resolve(ins.args[i], m)
           /\ DOMAIN m = {} => Substitute(ins, m) = ins
<1> DEFINE new == Substitute(ins, m)
           args == [i \in DOMAIN ins.args |-> Resolve(ins.args[i], m)]
           n == Len(ins.args)
<1>1. ins = [op |-> ins.op, ty |-> ins.ty, dest |-> ins.dest, dty |-> ins.dty, args |-> ins.args,
             labels |-> ins.labels, callee |-> ins.callee]
  BY DEF IsInstr
<1>2. new = [op |-> ins.op, ty |-> ins.ty, dest |-> ins.dest, dty |-> ins.dty, args |-> args,
             labels |-> ins.labels, callee |-> ins.callee]
  BY <1>1 DEF Substitute
<1>3. n \in Nat /\ DOMAIN ins.args = 1..n /\ ins.args \in [1..n -> Range(ins.args)]
  BY ListDomain DEF IsInstr
<1>4. \A i \in 1..n : IsOperand(ins.args[i]) /\ IsOperand(args[i])
  <2>1. \A i \in 1..n : IsOperand(ins.args[i])
    BY <1>3 DEF IsInstr, Range
  <2>. QED
    BY <2>1, <1>3 DEF Resolve, Knows
<1>5. args \in [1..n -> Range(args)] /\ DOMAIN args = 1..n
  BY <1>3 DEF Range
<1>6. IsList(args) /\ Len(args) = n /\ \A a \in Range(args) : IsOperand(a)
  <2>1. IsList(args) /\ Len(args) = n /\ \A a \in Range(args) : \E i \in 1..n : a = args[i]
    <3>1. n \in Nat /\ args \in [1..n -> Range(args)]
      BY <1>3, <1>5
    <3>. HIDE DEF args, n
    <3>. QED
      BY <3>1, FunctionIsList
  <2>. QED
    BY <2>1, <1>4
<1>7. IsInstr(new)
  <2>. HIDE DEF args
  <2>1. /\ new.op = ins.op /\ new.ty = ins.ty /\ new.dest = ins.dest /\ new.dty = ins.dty
        /\ new.args = args /\ new.labels = ins.labels /\ new.callee = ins.callee
    BY <1>2
  <2>2. new = [op |-> new.op, ty |-> new.ty, dest |-> new.dest, dty |-> new.dty, args |-> new.args,
               labels |-> new.labels, callee |-> new.callee]
    BY <1>2, <2>1
  <2>. HIDE DEF new
  <2>. QED
    BY <1>6, <2>1, <2>2 DEF IsInstr
<1>8. ASSUME DOMAIN m = {} PROVE new = ins
  <2>1. args = ins.args
    BY <1>3, <1>8 DEF Resolve
  <2>. HIDE DEF args
  <2>. QED
    BY <2>1, <1>1, <1>2
<1> QED
  BY <1>2, <1>3, <1>5, <1>6, <1>7, <1>8

-----------------------------------------------------------------------------
(* The lists of a function, and the listing they make. *)
Code(f) == [i \in DOMAIN f.blocks |-> f.blocks[i].instrs]
IsCode(instrs) == IsList(instrs) /\ \A ins \in Range(instrs) : IsInstr(ins)

(* The instructions of a block are a list of instructions.                 *)
LEMMA CodeFacts ==
    ASSUME NEW instrs, IsCode(instrs)
    PROVE  /\ Len(instrs) \in Nat /\ DOMAIN instrs = 1..Len(instrs)
           /\ instrs \in [1..Len(instrs) -> Range(instrs)] /\ instrs \in Seq(Range(instrs))
           /\ \A j \in 1..Len(instrs) : instrs[j] \in Range(instrs) /\ IsInstr(instrs[j])
<1>1. /\ Len(instrs) \in Nat /\ DOMAIN instrs = 1..Len(instrs)
      /\ instrs \in [1..Len(instrs) -> Range(instrs)] /\ instrs \in Seq(Range(instrs))
  BY ListDomain DEF IsCode, IsList
<1>2. \A j \in 1..Len(instrs) : instrs[j] \in Range(instrs)
  BY <1>1 DEF Range
<1> QED
  BY <1>1, <1>2 DEF IsCode

(* The blocks of a function are a list of labels with code.                *)
LEMMA FunctionFacts ==
    ASSUME NEW f, IsFunction(f)
    PROVE  /\ Len(f.blocks) \in Nat /\ DOMAIN f.blocks = 1..Len(f.blocks)
           /\ f.blocks \in [1..Len(f.blocks) -> Range(f.blocks)]
           /\ \A i \in 1..Len(f.blocks) :
                /\ f.blocks[i] \in Range(f.blocks)
                /\ f.blocks[i] = [label |-> f.blocks[i].label, instrs |-> f.blocks[i].instrs]
                /\ f.blocks[i].label \in Nat /\ IsCode(f.blocks[i].instrs)
                /\ \A j \in 1..Len(f.blocks[i].instrs) : f.blocks[i].instrs[j] \in Instructions(f)
<1>1. /\ Len(f.blocks) \in Nat /\ DOMAIN f.blocks = 1..Len(f.blocks)
      /\ f.blocks \in [1..Len(f.blocks) -> Range(f.blocks)]
  BY ListDomain DEF IsFunction
<1>2. ASSUME NEW i \in 1..Len(f.blocks)
      PROVE  /\ f.blocks[i] \in Range(f.blocks)
             /\ f.blocks[i] = [label |-> f.blocks[i].label, instrs |-> f.blocks[i].instrs]
             /\ f.blocks[i].label \in Nat /\ IsCode(f.blocks[i].instrs)
             /\ \A j \in 1..Len(f.blocks[i].instrs) : f.blocks[i].instrs[j] \in Instructions(f)
  <2>1. f.blocks[i] \in Range(f.blocks)
    BY <1>1 DEF Range
  <2>2. /\ f.blocks[i] = [label |-> f.blocks[i].label, instrs |-> f.blocks[i].instrs]
        /\ f.blocks[i].label \in Nat /\ IsCode(f.blocks[i].instrs)
    BY <2>1 DEF IsFunction, IsCode
  <2>3. \A j \in 1..Len(f.blocks[i].instrs) : f.blocks[i].instrs[j] \in Range(f.blocks[i].instrs)
    BY <2>2, CodeFacts
  <2>. QED
    BY <2>1, <2>2, <2>3 DEF Instructions
<1> QED
  BY <1>1, <1>2

(* The listing is the code of the blocks laid end to end.                  *)
LEMMA ListingFlattens ==
    ASSUME NEW f, IsFunction(f)
    PROVE  /\ Len(f.blocks) \in Nat /\ Len(Code(f)) = Len(f.blocks)
           /\ AreLists(Code(f))
           /\ \A i \in 1..Len(f.blocks) : Code(f)[i] = f.blocks[i].instrs
           /\ Listing(f) \in Seq(Instructions(f)) /\ Len(Listing(f)) \in Nat
           /\ \E start : Flattens(Code(f), Listing(f), start)
<1> DEFINE T == Instructions(f)
<1>1. PICK n \in Nat : n = Len(f.blocks) /\ DOMAIN f.blocks = 1..n
  BY FunctionFacts
<1>2. \A i \in 1..n : f.blocks[i].instrs \in Seq(T)
  <2>. SUFFICES ASSUME NEW i \in 1..n PROVE f.blocks[i].instrs \in Seq(T)
    OBVIOUS
  <2>1. IsCode(f.blocks[i].instrs) /\ \A j \in 1..Len(f.blocks[i].instrs) : f.blocks[i].instrs[j] \in T
    BY <1>1, FunctionFacts
  <2> DEFINE c == f.blocks[i].instrs
  <2>2. Len(c) \in Nat /\ c \in [1..Len(c) -> Range(c)] /\ \A j \in 1..Len(c) : c[j] \in T
    BY <2>1, CodeFacts
  <2>. HIDE DEF c, T
  <2>3. c \in [1..Len(c) -> T]
    BY <2>2
  <2>4. c \in Seq(T)
    BY <2>2, <2>3
  <2>. QED
    BY <2>4 DEF c
<1>3. Code(f) \in [1..n -> Seq(T)]
  BY <1>1, <1>2 DEF Code
<1>4. \A i \in 1..n : Code(f)[i] = f.blocks[i].instrs
  BY <1>1 DEF Code
<1>5. Len(Code(f)) = n /\ AreLists(Code(f))
  <2>1. Len(Code(f)) = n
    <3>. HIDE DEF T
    <3>. QED
      BY <1>3
  <2>. QED
    BY <1>3, <2>1 DEF AreLists
<1>6. PICK start : Starts(Code(f), start)
  <2>. HIDE DEF T
  <2>. QED
    BY <1>3, HasStarts
<1>7. FlattenSeq(Code(f)) \in Seq(T) /\ Flattens(Code(f), FlattenSeq(Code(f)), start)
  <2>. HIDE DEF T
  <2>. QED
    BY <1>3, <1>6, FlattenFlattens
<1>8. Listing(f) = FlattenSeq(Code(f))
  BY DEF Listing, Code
<1> QED
  BY <1>1, <1>4, <1>5, <1>7, <1>8

(* Every listed instruction has its place in a block and the other way     *)
(* round.                                                                  *)
LEMMA ListedPlaces ==
    ASSUME NEW f, IsFunction(f), NEW start, Flattens(Code(f), Listing(f), start)
    PROVE  /\ \A i \in 1..Len(f.blocks) : \A j \in 1..Len(f.blocks[i].instrs) :
                /\ start[i] + j \in 1..Len(Listing(f))
                /\ Listing(f)[start[i] + j] = f.blocks[i].instrs[j]
           /\ \A k \in 1..Len(Listing(f)) :
                \E i \in 1..Len(f.blocks) : \E j \in 1..Len(f.blocks[i].instrs) :
                    k = start[i] + j /\ Listing(f)[k] = f.blocks[i].instrs[j]
           /\ DOMAIN Listing(f) = 1..Len(Listing(f))
<1>1. PICK n : n = Len(f.blocks)
  OBVIOUS
<1>2. PICK c : c = Code(f)
  OBVIOUS
<1>3. PICK list : list = Listing(f)
  OBVIOUS
<1>4. /\ Len(c) = n /\ list \in Seq(Instructions(f))
      /\ \A i \in 1..n : c[i] = f.blocks[i].instrs
  BY <1>1, <1>2, <1>3, ListingFlattens
<1>5. DOMAIN list = 1..Len(list)
  BY <1>4
<1>6. Flattens(c, list, start)
  BY <1>2, <1>3
<1>7. /\ \A i \in 1..n : \A j \in 1..Len(c[i]) :
           start[i] + j \in 1..Len(list) /\ list[start[i] + j] = c[i][j]
      /\ \A k \in 1..Len(list) : \E i \in 1..n : \E j \in 1..Len(c[i]) : k = start[i] + j
  <2>1. LaidOut(c, n, list, start)
    BY <1>4, <1>6 DEF Flattens
  <2>. QED
    BY <2>1 DEF LaidOut
<1>8. ASSUME NEW i \in 1..n, NEW j \in 1..Len(f.blocks[i].instrs)
      PROVE  start[i] + j \in 1..Len(list) /\ list[start[i] + j] = f.blocks[i].instrs[j]
  <2>1. c[i] = f.blocks[i].instrs
    BY <1>4
  <2>. QED
    BY <1>7, <2>1
<1>9. ASSUME NEW k \in 1..Len(list)
      PROVE  \E i \in 1..n : \E j \in 1..Len(f.blocks[i].instrs) :
                k = start[i] + j /\ list[k] = f.blocks[i].instrs[j]
  <2>1. PICK i \in 1..n : \E j \in 1..Len(c[i]) : k = start[i] + j
    BY <1>7
  <2>2. c[i] = f.blocks[i].instrs
    BY <1>4
  <2>3. PICK j \in 1..Len(f.blocks[i].instrs) : k = start[i] + j
    BY <2>1, <2>2
  <2>. QED
    BY <1>8, <2>3
<1> QED
  BY <1>1, <1>3, <1>5, <1>8, <1>9

-----------------------------------------------------------------------------
(* f2 is what some kept positions of some blocks of f, e[i] the i-th of    *)
(* them, leave: its listing lies in the listing of f in the same order,    *)
(* and nothing that is kept is missed.                                     *)
Leaves(f2, f, e, keep) ==
    /\ IsFunction(f) /\ IsFunction(f2)
    /\ e \in [1..Len(f2.blocks) -> 1..Len(f.blocks)] /\ Increasing(e, Len(f2.blocks))
    /\ \A i \in 1..Len(f2.blocks) :
          /\ keep[i] \in SUBSET (1..Len(f.blocks[e[i]].instrs))
          /\ Len(f2.blocks[i].instrs) = Cardinality(keep[i])

(* A place of f2 and the place of f it comes from. *)
ComesFrom(f2, f, e, keep, begin, start, k, l) ==
    \E i \in 1..Len(f2.blocks) : \E j \in 1..Len(f2.blocks[i].instrs) :
        /\ k = begin[i] + j /\ l = start[e[i]] + Nth(keep[i], j)
        /\ Nth(keep[i], j) \in keep[i]
        /\ Listing(f2)[k] = f2.blocks[i].instrs[j]
        /\ Listing(f)[l] = f.blocks[e[i]].instrs[Nth(keep[i], j)]

(* The kept positions of 1..n are an increasing map into it.               *)
LEMMA KeptPositions ==
    ASSUME NEW n \in Nat, NEW K \in SUBSET (1..n)
    PROVE  /\ [j \in 1..Cardinality(K) |-> Nth(K, j)] \in [1..Cardinality(K) -> 1..n]
           /\ Increasing([j \in 1..Cardinality(K) |-> Nth(K, j)], Cardinality(K))
           /\ \A j \in 1..Cardinality(K) : Nth(K, j) \in K
           /\ \A p \in K : \E j \in 1..Cardinality(K) : Nth(K, j) = p
BY NthListsAll DEF Increasing

(* Taking instructions and blocks out takes their positions out of the     *)
(* listing.                                                                *)
LEMMA ListingEmbeds ==
    ASSUME NEW f, NEW f2, NEW e, NEW keep, Leaves(f2, f, e, keep),
           NEW start, Flattens(Code(f), Listing(f), start),
           NEW begin, Flattens(Code(f2), Listing(f2), begin)
    PROVE  \E em \in [1..Len(Listing(f2)) -> 1..Len(Listing(f))] :
              /\ Increasing(em, Len(Listing(f2)))
              /\ \A k \in 1..Len(Listing(f2)) :
                    ComesFrom(f2, f, e, keep, begin, start, k, em[k])
              /\ \A i \in 1..Len(f2.blocks) : \A p \in keep[i] :
                    \E k \in 1..Len(Listing(f2)) : em[k] = start[e[i]] + p
<1> DEFINE n == Len(f.blocks)
           m == Len(f2.blocks)
           g == [i \in 1..m |-> [j \in 1..Len(f2.blocks[i].instrs) |-> Nth(keep[i], j)]]
<1>1. /\ IsFunction(f) /\ IsFunction(f2)
      /\ e \in [1..m -> 1..n] /\ Increasing(e, m)
      /\ \A i \in 1..m : /\ keep[i] \in SUBSET (1..Len(f.blocks[e[i]].instrs))
                         /\ Len(f2.blocks[i].instrs) = Cardinality(keep[i])
  BY DEF Leaves
<1>2. /\ n \in Nat /\ Len(Code(f)) = n /\ AreLists(Code(f))
      /\ \A i \in 1..n : Code(f)[i] = f.blocks[i].instrs
      /\ Listing(f) \in Seq(Instructions(f)) /\ Len(Listing(f)) \in Nat
  BY <1>1, ListingFlattens
<1>3. /\ m \in Nat /\ Len(Code(f2)) = m /\ AreLists(Code(f2))
      /\ \A i \in 1..m : Code(f2)[i] = f2.blocks[i].instrs
      /\ Listing(f2) \in Seq(Instructions(f2)) /\ Len(Listing(f2)) \in Nat
  BY <1>1, ListingFlattens
<1>4. ASSUME NEW i \in 1..m
      PROVE  /\ g[i] \in [1..Len(f2.blocks[i].instrs) -> 1..Len(f.blocks[e[i]].instrs)]
             /\ Increasing(g[i], Len(f2.blocks[i].instrs))
             /\ \A j \in 1..Len(f2.blocks[i].instrs) : g[i][j] = Nth(keep[i], j) /\ Nth(keep[i], j) \in keep[i]
             /\ \A p \in keep[i] : \E j \in 1..Len(f2.blocks[i].instrs) : Nth(keep[i], j) = p
  <2>1. e[i] \in 1..n
    BY <1>1
  <2>2. Len(f2.blocks[i].instrs) \in Nat
    BY <1>1, FunctionFacts, CodeFacts
  <2>3. IsCode(f.blocks[e[i]].instrs)
    BY <1>1, <2>1, FunctionFacts
  <2>4. PICK b \in Nat : b = Len(f.blocks[e[i]].instrs)
    BY <2>3, CodeFacts
  <2>5. PICK c \in Nat : c = Len(f2.blocks[i].instrs)
    BY <2>2
  <2>6. PICK K \in SUBSET (1..b) : K = keep[i]
    BY <2>4, <1>1
  <2>7. c = Cardinality(K)
    BY <2>5, <2>6, <1>1
  <2>8. /\ [j \in 1..c |-> Nth(K, j)] \in [1..c -> 1..b]
        /\ Increasing([j \in 1..c |-> Nth(K, j)], c)
        /\ \A j \in 1..c : Nth(K, j) \in K
        /\ \A p \in K : \E j \in 1..c : Nth(K, j) = p
    <3>1. /\ [j \in 1..Cardinality(K) |-> Nth(K, j)] \in [1..Cardinality(K) -> 1..b]
          /\ Increasing([j \in 1..Cardinality(K) |-> Nth(K, j)], Cardinality(K))
          /\ \A j \in 1..Cardinality(K) : Nth(K, j) \in K
          /\ \A p \in K : \E j \in 1..Cardinality(K) : Nth(K, j) = p
      BY KeptPositions
    <3>. QED
      BY <2>7, <3>1
  <2>9. g[i] = [j \in 1..c |-> Nth(K, j)]
    BY <2>5, <2>6
  <2>. QED
    BY <2>4, <2>5, <2>6, <2>8, <2>9
<1>5. Embeds(Code(f2), Code(f), e, g)
  <2>. HIDE DEF g, n, m
  <2>1. \A i \in 1..m : e[i] \in 1..n
    BY <1>1
  <2>2. \A i \in 1..m : /\ g[i] \in [1..Len(Code(f2)[i]) -> 1..Len(Code(f)[e[i]])]
                        /\ Increasing(g[i], Len(Code(f2)[i]))
    BY <2>1, <1>2, <1>3, <1>4 DEF n, m
  <2>. QED
    BY <2>2, <1>1, <1>2, <1>3 DEF Embeds
<1>6. PICK em \in [1..Len(Listing(f2)) -> 1..Len(Listing(f))] :
          /\ Increasing(em, Len(Listing(f2)))
          /\ \A k \in 1..Len(Listing(f2)) : \E i \in 1..m : \E j \in 1..Len(Code(f2)[i]) :
                k = begin[i] + j /\ em[k] = start[e[i]] + g[i][j]
  <2>1. \E em : Lies(em, Code(f2), Listing(f2), begin, Listing(f), start, e, g)
    <3>. HIDE DEF g, n, m
    <3>. QED
      BY <1>2, <1>3, <1>5, FlattenEmbeds
  <2>2. PICK em : Lies(em, Code(f2), Listing(f2), begin, Listing(f), start, e, g)
    BY <2>1
  <2>3. \A k \in 1..Len(Listing(f2)) : \E i \in 1..m : \E j \in 1..Len(Code(f2)[i]) :
           k = begin[i] + j /\ em[k] = start[e[i]] + g[i][j]
    <3>. HIDE DEF g, n, m
    <3>. QED
      BY <2>2, <1>3 DEF Lies
  <2>. HIDE DEF g, n, m
  <2>. QED
    BY <2>2, <2>3 DEF Lies
<1>7. ASSUME NEW k \in 1..Len(Listing(f2))
      PROVE  ComesFrom(f2, f, e, keep, begin, start, k, em[k])
  <2>1. PICK i \in 1..m : \E j \in 1..Len(Code(f2)[i]) : k = begin[i] + j /\ em[k] = start[e[i]] + g[i][j]
    BY <1>6
  <2>2. PICK j \in 1..Len(f2.blocks[i].instrs) : k = begin[i] + j /\ em[k] = start[e[i]] + g[i][j]
    BY <2>1, <1>3
  <2>3. e[i] \in 1..n
    BY <1>1
  <2>4. g[i][j] = Nth(keep[i], j) /\ Nth(keep[i], j) \in keep[i] /\ Nth(keep[i], j) \in 1..Len(f.blocks[e[i]].instrs)
    BY <1>4, <1>1
  <2>5. Listing(f2)[begin[i] + j] = f2.blocks[i].instrs[j]
    BY <1>1, ListedPlaces
  <2>6. Listing(f)[start[e[i]] + Nth(keep[i], j)] = f.blocks[e[i]].instrs[Nth(keep[i], j)]
    BY <1>1, <2>3, <2>4, ListedPlaces, SMTT(30)
  <2>. HIDE DEF g
  <2>. QED
    BY <2>2, <2>4, <2>5, <2>6 DEF ComesFrom
<1>8. ASSUME NEW i \in 1..m, NEW p \in keep[i]
      PROVE  \E k \in 1..Len(Listing(f2)) : em[k] = start[e[i]] + p
  <2>1. PICK j \in 1..Len(f2.blocks[i].instrs) : Nth(keep[i], j) = p
    BY <1>4
  <2>2. PICK k \in 1..Len(Listing(f2)) : k = begin[i] + j
    BY <1>1, ListedPlaces
  <2>3. PICK x \in 1..m : \E y \in 1..Len(Code(f2)[x]) : k = begin[x] + y /\ em[k] = start[e[x]] + g[x][y]
    BY <1>6
  <2>4. PICK y \in 1..Len(Code(f2)[x]) : k = begin[x] + y /\ em[k] = start[e[x]] + g[x][y]
    BY <2>3
  <2>5. x = i /\ y = j
    <3>1. /\ AreLists(Code(f2)) /\ Starts(Code(f2), begin)
          /\ x \in 1..Len(Code(f2)) /\ i \in 1..Len(Code(f2)) /\ j \in 1..Len(Code(f2)[i])
          /\ begin[x] + y = begin[i] + j
      BY <1>3, <2>1, <2>2, <2>4 DEF Flattens
    <3>. HIDE DEF m, g
    <3>. QED
      BY <3>1, PlaceUnique
  <2>6. g[i][j] = p
    BY <2>1, <1>4
  <2>. HIDE DEF g
  <2>. QED
    BY <2>4, <2>5, <2>6
<1> QED
  BY <1>6, <1>7, <1>8

-----------------------------------------------------------------------------
(* What an instruction of a rewritten function is to the one it was.       *)
Trimmed(new, old, m) ==
    \/ new = Substitute(old, m)
    \/ BranchFolds(Substitute(old, m)) /\ new = Br(TakenLabel(Substitute(old, m)))

(* A br is an instruction without a result and without operands.           *)
LEMMA BrFacts ==
    ASSUME NEW l
    PROVE  /\ IsInstr(Br(l)) /\ Br(l).op = "br" /\ Br(l).dest = NoName
           /\ Br(l).labels = <<l>> /\ Br(l).args = <<>>
<1>1. Br(l) = [op |-> "br", ty |-> "void", dest |-> NoName, dty |-> ResultType("br", "void"),
               args |-> <<>>, labels |-> <<l>>, callee |-> NoName]
  BY DEF Br, Do, Op
<1>2. IsList(<<>>) /\ IsList(<<l>>) /\ Len(<<l>>) = 1 /\ Range(<<>>) = {}
  BY DEF IsList, Range
<1> HIDE DEF NoName
<1>3. /\ Br(l).op = "br" /\ Br(l).ty = "void" /\ Br(l).dest = NoName /\ Br(l).dty = ResultType("br", "void")
      /\ Br(l).args = <<>> /\ Br(l).labels = <<l>> /\ Br(l).callee = NoName
  BY <1>1
<1>4. IsInstr(Br(l))
  <2>1. Br(l) = [op |-> Br(l).op, ty |-> Br(l).ty, dest |-> Br(l).dest, dty |-> Br(l).dty,
                 args |-> Br(l).args, labels |-> Br(l).labels, callee |-> Br(l).callee]
    BY <1>1, <1>3
  <2>. QED
    BY <1>2, <1>3, <2>1 DEF IsInstr
<1> QED
  BY <1>3, <1>4

(* A trimmed instruction defines what it did, goes nowhere it did not and  *)
(* reads what it did or what stands for it.                                *)
LEMMA TrimmedFacts ==
    ASSUME NEW old, IsInstr(old), NEW m, Knows(m), NEW new, Trimmed(new, old, m)
    PROVE  /\ IsInstr(new) /\ new.dest = old.dest
           /\ IsTerminator(new) <=> IsTerminator(old)
           /\ Range(new.labels) \subseteq Range(old.labels)
           /\ new.op = old.op \/ (old.op = "br.cond" /\ new.op = "br")
           /\ \A u \in Uses(new) :
                \/ u \in Uses(old) \ DOMAIN m
                \/ \E r \in Uses(old) \cap DOMAIN m : m[r].k = "reg" /\ m[r].name = u
<1> DEFINE mid == Substitute(old, m)
<1>1. /\ IsInstr(mid) /\ mid.op = old.op /\ mid.dest = old.dest /\ mid.labels = old.labels
      /\ DOMAIN mid.args = DOMAIN old.args
      /\ \A i \in DOMAIN old.args : mid.args[i] = Resolve(old.args[i], m)
  BY SubstituteKeeps
<1> HIDE DEF mid
<1>2. ASSUME NEW u \in Uses(mid)
      PROVE  \/ u \in Uses(old) \ DOMAIN m
             \/ \E r \in Uses(old) \cap DOMAIN m : m[r].k = "reg" /\ m[r].name = u
  <2>1. PICK i \in DOMAIN mid.args : mid.args[i].k = "reg" /\ mid.args[i].name = u
    BY DEF Uses, Range
  <2>2. i \in DOMAIN old.args /\ mid.args[i] = Resolve(old.args[i], m)
    BY <2>1, <1>1
  <2>3. CASE old.args[i].k = "reg" /\ old.args[i].name \in DOMAIN m
    <3>1. old.args[i].name \in Uses(old)
      BY <2>2, <2>3 DEF Uses, Range
    <3>2. mid.args[i] = m[old.args[i].name]
      BY <2>2, <2>3 DEF Resolve
    <3>. QED
      BY <2>1, <2>3, <3>1, <3>2
  <2>4. CASE ~(old.args[i].k = "reg" /\ old.args[i].name \in DOMAIN m)
    <3>1. mid.args[i] = old.args[i]
      BY <2>2, <2>4 DEF Resolve
    <3>2. u \in Uses(old)
      BY <2>1, <2>2, <3>1 DEF Uses, Range
    <3>. QED
      BY <2>1, <2>4, <3>1, <3>2
  <2>. QED
    BY <2>3, <2>4
<1>3. CASE new = mid
  BY <1>1, <1>2, <1>3 DEF IsTerminator
<1>4. CASE BranchFolds(mid) /\ new = Br(TakenLabel(mid))
  <2>1. mid.op = "br.cond"
    BY <1>4 DEF BranchFolds
  <2>2. TakenLabel(mid) \in Range(mid.labels)
    <3>1. IsList(mid.labels) /\ Len(mid.labels) = 2
      BY <1>1, <2>1 DEF IsInstr
    <3>2. 1 \in DOMAIN mid.labels /\ 2 \in DOMAIN mid.labels
      BY <3>1, ListDomain
    <3>. QED
      BY <3>2 DEF TakenLabel, Range
  <2>3. /\ IsInstr(new) /\ new.op = "br" /\ new.dest = NoName /\ new.labels = <<TakenLabel(mid)>>
        /\ new.args = <<>>
    BY <1>4, BrFacts
  <2>4. Uses(new) = {}
    BY <2>3 DEF Uses, Range
  <2>5. Range(new.labels) \subseteq Range(old.labels)
    BY <2>2, <2>3, <1>1 DEF Range
  <2>6. old.dest = NoName
    BY <2>1, <1>1 DEF IsInstr, DefinesNothing, Terminators
  <2>7. IsTerminator(new) /\ IsTerminator(old)
    BY <2>1, <2>3, <1>1 DEF IsTerminator, Terminators
  <2>. QED
    BY <2>1, <2>3, <2>4, <2>5, <2>6, <2>7, <1>1
<1> QED
  BY <1>3, <1>4 DEF Trimmed, mid

(* What is kept of a block's list, and its last instruction folded.        *)
LEMMA ReplaceFacts ==
    ASSUME NEW instrs, IsCode(instrs), NEW m, Knows(m)
    PROVE  /\ Undropped(instrs, m) \in SUBSET (1..Len(instrs))
           /\ Len(Replace(instrs, m)) = Cardinality(Undropped(instrs, m))
           /\ Cardinality(Undropped(instrs, m)) \in Nat
           /\ Replace(instrs, m) = [j \in 1..Len(Replace(instrs, m)) |-> Replace(instrs, m)[j]]
           /\ \A j \in 1..Len(Replace(instrs, m)) :
                /\ Nth(Undropped(instrs, m), j) \in Undropped(instrs, m)
                /\ Replace(instrs, m)[j] = Substitute(instrs[Nth(Undropped(instrs, m), j)], m)
           /\ DOMAIN m = {} => Replace(instrs, m) = instrs
<1> DEFINE K == Undropped(instrs, m)
           subst == [i \in DOMAIN instrs |-> Substitute(instrs[i], m)]
<1>1. PICK n \in Nat : n = Len(instrs)
  BY CodeFacts
<1>2. DOMAIN instrs = 1..n /\ instrs \in [1..n -> Range(instrs)]
  BY <1>1, CodeFacts
<1>3. K \in SUBSET (1..n)
  BY <1>2 DEF Undropped
<1>4. subst \in [1..n -> Range(subst)] /\ subst = [i \in 1..n |-> Substitute(instrs[i], m)]
  BY <1>2 DEF Range
<1>5. /\ Cardinality(K) \in Nat /\ Len(Kept(subst, K)) = Cardinality(K)
      /\ DOMAIN Kept(subst, K) = 1..Cardinality(K)
      /\ \A j \in 1..Cardinality(K) : Nth(K, j) \in K /\ Kept(subst, K)[j] = subst[Nth(K, j)]
      /\ K = 1..n => Kept(subst, K) = subst
  <2>1. Len(subst) = n /\ Positions(K, subst)
    <3>1. Len(subst) = n /\ DOMAIN subst = 1..n
      BY <1>4
    <3>2. subst \in [1..n -> {subst[i] : i \in 1..n}]
      BY <1>4
    <3>. HIDE DEF K, subst
    <3>. QED
      BY <1>3, <3>1, <3>2 DEF Positions
  <2>. HIDE DEF K, subst
  <2>2. Cardinality(K) \in Nat /\ Len(Kept(subst, K)) = Cardinality(K) /\ DOMAIN Kept(subst, K) = 1..Cardinality(K)
    BY <2>1, KeptFacts
  <2>3. \A j \in 1..Cardinality(K) : Nth(K, j) \in K /\ Kept(subst, K)[j] = subst[Nth(K, j)]
    <3>1. \A j \in 1..Cardinality(K) : Nth(K, j) \in K
      BY <2>1, KeptFacts
    <3>2. \A j \in 1..Cardinality(K) : Kept(subst, K)[j] = subst[Nth(K, j)]
      BY DEF Kept
    <3>. QED
      BY <3>1, <3>2
  <2>4. K = 1..Len(subst) => Kept(subst, K) = subst
    BY <2>1, KeptFacts
  <2>. QED
    BY <2>1, <2>2, <2>3, <2>4
<1>6. Replace(instrs, m) = Kept(subst, K)
  BY DEF Replace
<1>7. \A j \in 1..Cardinality(K) : subst[Nth(K, j)] = Substitute(instrs[Nth(K, j)], m)
  <2>. HIDE DEF K
  <2>. QED
    BY <1>3, <1>4, <1>5
<1>8. ASSUME DOMAIN m = {} PROVE Replace(instrs, m) = instrs
  <2>1. K = 1..n
    BY <1>2, <1>8 DEF Undropped
  <2>2. \A i \in 1..n : Substitute(instrs[i], m) = instrs[i]
    <3>1. \A i \in 1..n : IsInstr(instrs[i])
      BY <1>1, CodeFacts
    <3>. QED
      BY <3>1, <1>8, SubstituteKeeps
  <2>3. subst = instrs
    BY <1>2, <1>4, <2>2
  <2>. QED
    BY <1>5, <1>6, <2>1, <2>3
<1>9. Kept(subst, K) = [j \in 1..Cardinality(K) |-> Kept(subst, K)[j]]
  BY <1>1 DEF Kept
<1> HIDE DEF K, subst
<1>10. /\ Len(Replace(instrs, m)) = Cardinality(K)
       /\ Replace(instrs, m) = [j \in 1..Len(Replace(instrs, m)) |-> Replace(instrs, m)[j]]
       /\ \A j \in 1..Len(Replace(instrs, m)) :
              Nth(K, j) \in K /\ Replace(instrs, m)[j] = Substitute(instrs[Nth(K, j)], m)
  BY <1>5, <1>6, <1>7, <1>9
<1> QED
  BY <1>1, <1>3, <1>5, <1>8, <1>10 DEF K

(* Replacing the code of a block keeps its label.                          *)
LEMMA WithInstrs ==
    ASSUME NEW b, NEW cs, b = [label |-> b.label, instrs |-> b.instrs]
    PROVE  [b EXCEPT !.instrs = cs] = [label |-> b.label, instrs |-> cs]
OBVIOUS

(* A function with other instructions in its blocks. *)
WithCode(f, cs) == [f EXCEPT !.blocks = [i \in DOMAIN f.blocks |-> [f.blocks[i] EXCEPT !.instrs = cs[i]]]]

(* Replacing the code of every block gives a function of the same blocks.  *)
LEMMA WithCodeFacts ==
    ASSUME NEW f, IsFunction(f), NEW cs, \A i \in 1..Len(f.blocks) : IsCode(cs[i])
    PROVE  /\ IsFunction(WithCode(f, cs))
           /\ WithCode(f, cs).params = f.params
           /\ Len(WithCode(f, cs).blocks) = Len(f.blocks)
           /\ \A i \in 1..Len(f.blocks) :
                /\ WithCode(f, cs).blocks[i].label = f.blocks[i].label
                /\ WithCode(f, cs).blocks[i].instrs = cs[i]
           /\ (\A i \in 1..Len(f.blocks) : cs[i] = f.blocks[i].instrs) => WithCode(f, cs) = f
<1> DEFINE f2 == WithCode(f, cs)
           bs == [i \in DOMAIN f.blocks |-> [f.blocks[i] EXCEPT !.instrs = cs[i]]]
<1>1. PICK n \in Nat : /\ n = Len(f.blocks) /\ DOMAIN f.blocks = 1..n
                       /\ f.blocks \in [1..n -> Range(f.blocks)]
                       /\ \A i \in 1..n :
                            /\ f.blocks[i] = [label |-> f.blocks[i].label, instrs |-> f.blocks[i].instrs]
                            /\ f.blocks[i].label \in Nat
  BY FunctionFacts
<1>2. f = [params |-> f.params, ret |-> f.ret, blocks |-> f.blocks] /\ IsList(f.params)
  BY DEF IsFunction
<1>3. f2 = [params |-> f.params, ret |-> f.ret, blocks |-> bs]
  BY <1>2 DEF WithCode
<1>4. \A i \in 1..n : bs[i] = [label |-> f.blocks[i].label, instrs |-> cs[i]]
  <2>. SUFFICES ASSUME NEW i \in 1..n
                PROVE  bs[i] = [label |-> f.blocks[i].label, instrs |-> cs[i]]
    OBVIOUS
  <2>1. bs[i] = [f.blocks[i] EXCEPT !.instrs = cs[i]]
    BY <1>1
  <2>2. f.blocks[i] = [label |-> f.blocks[i].label, instrs |-> f.blocks[i].instrs]
    BY <1>1
  <2>. QED
    BY <2>1, <2>2, WithInstrs
<1>5. bs \in [1..n -> Range(bs)]
  BY <1>1 DEF Range
<1> HIDE DEF bs
<1>6. IsList(bs) /\ Len(bs) = n /\ \A b \in Range(bs) : \E i \in 1..n : b = bs[i]
  BY <1>5, FunctionIsList
<1> HIDE DEF f2
<1>7. f2.params = f.params /\ f2.ret = f.ret /\ f2.blocks = bs
  BY <1>3
<1>8. ASSUME NEW b \in Range(bs)
      PROVE  /\ b = [label |-> b.label, instrs |-> b.instrs] /\ b.label \in Nat
             /\ IsCode(b.instrs)
  <2>1. PICK i \in 1..n : b = bs[i]
    BY <1>6
  <2>2. b = [label |-> f.blocks[i].label, instrs |-> cs[i]]
    BY <2>1, <1>4
  <2>3. b.label = f.blocks[i].label /\ b.instrs = cs[i]
    BY <2>2
  <2>. QED
    BY <2>2, <2>3, <1>1
<1>9. IsFunction(f2)
  BY <1>2, <1>3, <1>6, <1>7, <1>8 DEF IsFunction, IsCode
<1>10. ASSUME \A i \in 1..Len(f.blocks) : cs[i] = f.blocks[i].instrs PROVE f2 = f
  <2>1. \A i \in 1..n : bs[i] = f.blocks[i]
    BY <1>1, <1>4, <1>10
  <2>2. bs = f.blocks
    BY <2>1, <1>1, <1>5
  <2>. QED
    BY <2>2, <1>2, <1>3
<1>11. Len(f2.blocks) = Len(f.blocks)
  BY <1>1, <1>6, <1>7
<1>12. \A i \in 1..Len(f.blocks) : f2.blocks[i].label = f.blocks[i].label /\ f2.blocks[i].instrs = cs[i]
  <2>. SUFFICES ASSUME NEW i \in 1..n
                PROVE  bs[i].label = f.blocks[i].label /\ bs[i].instrs = cs[i]
    BY <1>1, <1>7
  <2>1. bs[i] = [label |-> f.blocks[i].label, instrs |-> cs[i]]
    BY <1>4
  <2>. QED
    BY <2>1
<1> QED
  BY <1>7, <1>9, <1>10, <1>11, <1>12 DEF f2

(* f2 is f after a pass has used and dropped what it knows. *)
Rewrites(f2, f, m) ==
    /\ IsFunction(f) /\ IsFunction(f2) /\ Knows(m)
    /\ f2.params = f.params /\ Len(f2.blocks) = Len(f.blocks)
    /\ \A i \in 1..Len(f.blocks) :
          /\ f2.blocks[i].label = f.blocks[i].label
          /\ Undropped(f.blocks[i].instrs, m) \in SUBSET (1..Len(f.blocks[i].instrs))
          /\ Len(f2.blocks[i].instrs) = Cardinality(Undropped(f.blocks[i].instrs, m))
          /\ \A j \in 1..Len(f2.blocks[i].instrs) :
                /\ Nth(Undropped(f.blocks[i].instrs, m), j) \in Undropped(f.blocks[i].instrs, m)
                /\ Trimmed(f2.blocks[i].instrs[j],
                           f.blocks[i].instrs[Nth(Undropped(f.blocks[i].instrs, m), j)], m)

Propagated(f, m) ==
    [f EXCEPT !.blocks = [i \in DOMAIN f.blocks |->
                 [f.blocks[i] EXCEPT !.instrs = Replace(@, m)]]]
FoldedAll(f, m) ==
    [f EXCEPT !.blocks = [i \in DOMAIN f.blocks |->
                 [f.blocks[i] EXCEPT !.instrs = FoldBranch(Replace(@, m))]]]

(* A list of which some instructions are replaced by trimmed ones.        *)
LEMMA TrimmedIsCode ==
    ASSUME NEW instrs, IsCode(instrs), NEW m, Knows(m), NEW cs, Len(cs) \in Nat,
           cs = [j \in 1..Len(cs) |-> cs[j]],
           \A j \in 1..Len(cs) : \E i \in 1..Len(instrs) : Trimmed(cs[j], instrs[i], m)
    PROVE  IsCode(cs)
<1>1. \A j \in 1..Len(cs) : IsInstr(cs[j])
  BY CodeFacts, TrimmedFacts
<1>2. PICK n \in Nat : n = Len(cs)
  OBVIOUS
<1>3. DOMAIN cs = 1..n
  BY <1>2
<1>4. cs \in [1..n -> Range(cs)]
  BY <1>2, <1>3 DEF Range
<1>5. IsList(cs) /\ \A t \in Range(cs) : \E j \in 1..n : t = cs[j]
  BY <1>4, FunctionIsList
<1> QED
  BY <1>1, <1>2, <1>5 DEF IsCode

(* Folding the branch of a block changes its last instruction at most.     *)
LEMMA FoldBranchFacts ==
    ASSUME NEW cs, Len(cs) \in Nat, cs = [j \in 1..Len(cs) |-> cs[j]]
    PROVE  /\ Len(FoldBranch(cs)) = Len(cs)
           /\ FoldBranch(cs) = [j \in 1..Len(cs) |-> FoldBranch(cs)[j]]
           /\ \A j \in 1..Len(cs) :
                \/ FoldBranch(cs)[j] = cs[j]
                \/ j = Len(cs) /\ BranchFolds(cs[j]) /\ FoldBranch(cs)[j] = Br(TakenLabel(cs[j]))
<1>1. DOMAIN cs = 1..Len(cs)
  OBVIOUS
<1> DEFINE new == [cs EXCEPT ![Len(cs)] = Br(TakenLabel(cs[Len(cs)]))]
<1>2. CASE FoldBranch(cs) = cs
  BY <1>2
<1>3. CASE cs # <<>> /\ BranchFolds(cs[Len(cs)])
  <2>1. FoldBranch(cs) = new
    BY <1>3 DEF FoldBranch
  <2>2. DOMAIN new = 1..Len(cs) /\ new = [j \in 1..Len(cs) |-> new[j]]
    BY <1>1
  <2>3. Len(new) = Len(cs)
    BY <2>2
  <2>4. \A j \in 1..Len(cs) : new[j] = IF j = Len(cs) THEN Br(TakenLabel(cs[Len(cs)])) ELSE cs[j]
    BY <1>1
  <2>. HIDE DEF new
  <2>. QED
    BY <1>3, <2>1, <2>2, <2>3, <2>4
<1> QED
  BY <1>2, <1>3 DEF FoldBranch

(* Copy propagation rewrites by its table; by an empty one it changes      *)
(* nothing.                                                                *)
LEMMA PropagatedRewrites ==
    ASSUME NEW f, IsFunction(f), NEW m, Knows(m)
    PROVE  /\ Rewrites(Propagated(f, m), f, m)
           /\ DOMAIN m = {} => Propagated(f, m) = f
<1> DEFINE cs == [i \in 1..Len(f.blocks) |-> Replace(f.blocks[i].instrs, m)]
           f2 == WithCode(f, cs)
<1>1. DOMAIN f.blocks = 1..Len(f.blocks) /\ \A i \in 1..Len(f.blocks) : IsCode(f.blocks[i].instrs)
  BY FunctionFacts
<1>2. Propagated(f, m) = f2
  BY <1>1 DEF Propagated, WithCode
<1>3. ASSUME NEW i \in 1..Len(f.blocks)
      PROVE  /\ IsCode(cs[i]) /\ (DOMAIN m = {} => cs[i] = f.blocks[i].instrs)
             /\ Undropped(f.blocks[i].instrs, m) \in SUBSET (1..Len(f.blocks[i].instrs))
             /\ Len(cs[i]) = Cardinality(Undropped(f.blocks[i].instrs, m))
             /\ \A j \in 1..Len(cs[i]) :
                  /\ Nth(Undropped(f.blocks[i].instrs, m), j) \in Undropped(f.blocks[i].instrs, m)
                  /\ Trimmed(cs[i][j], f.blocks[i].instrs[Nth(Undropped(f.blocks[i].instrs, m), j)], m)
  <2> DEFINE instrs == f.blocks[i].instrs
             c == Replace(instrs, m)
  <2>1. /\ Undropped(instrs, m) \in SUBSET (1..Len(instrs))
        /\ Len(c) = Cardinality(Undropped(instrs, m)) /\ Len(c) \in Nat
        /\ c = [j \in 1..Len(c) |-> c[j]]
        /\ \A j \in 1..Len(c) :
              /\ Nth(Undropped(instrs, m), j) \in Undropped(instrs, m)
              /\ c[j] = Substitute(instrs[Nth(Undropped(instrs, m), j)], m)
        /\ DOMAIN m = {} => c = instrs
    BY <1>1, ReplaceFacts, SMTT(30)
  <2>2. \A j \in 1..Len(c) : Trimmed(c[j], instrs[Nth(Undropped(instrs, m), j)], m)
    BY <2>1 DEF Trimmed
  <2>3. IsCode(c)
    <3>. HIDE DEF c
    <3>. QED
      BY <1>1, <2>1, <2>2, TrimmedIsCode
  <2>. QED
    BY <2>1, <2>2, <2>3
<1> HIDE DEF cs
<1>4. /\ IsFunction(f2) /\ f2.params = f.params /\ Len(f2.blocks) = Len(f.blocks)
      /\ \A i \in 1..Len(f.blocks) :
                f2.blocks[i].label = f.blocks[i].label /\ f2.blocks[i].instrs = cs[i]
      /\ (\A i \in 1..Len(f.blocks) : cs[i] = f.blocks[i].instrs) => f2 = f
  <2>1. \A i \in 1..Len(f.blocks) : IsCode(cs[i])
    BY <1>3
  <2>. QED
    BY <2>1, WithCodeFacts
<1> HIDE DEF f2
<1>5. Rewrites(f2, f, m)
  BY <1>3, <1>4 DEF Rewrites
<1> QED
  BY <1>2, <1>3, <1>4, <1>5

(* Constant folding rewrites by its table; by an empty one it folds        *)
(* branches only.                                                          *)
LEMMA FoldedAllRewrites ==
    ASSUME NEW f, IsFunction(f), NEW m, Knows(m)
    PROVE  /\ Rewrites(FoldedAll(f, m), f, m)
           /\ DOMAIN m = {} =>
                \A i \in 1..Len(f.blocks) :
                   FoldedAll(f, m).blocks[i].instrs = FoldBranch(f.blocks[i].instrs)
           /\ DOMAIN m = {} /\ (\A i \in 1..Len(f.blocks) : FoldBranch(f.blocks[i].instrs) = f.blocks[i].instrs)
                => FoldedAll(f, m) = f
<1> DEFINE cs == [i \in 1..Len(f.blocks) |-> FoldBranch(Replace(f.blocks[i].instrs, m))]
           f2 == WithCode(f, cs)
<1>1. DOMAIN f.blocks = 1..Len(f.blocks) /\ \A i \in 1..Len(f.blocks) : IsCode(f.blocks[i].instrs)
  BY FunctionFacts
<1>2. FoldedAll(f, m) = f2
  BY <1>1 DEF FoldedAll, WithCode
<1>3. ASSUME NEW i \in 1..Len(f.blocks)
      PROVE  /\ IsCode(cs[i]) /\ (DOMAIN m = {} => cs[i] = FoldBranch(f.blocks[i].instrs))
             /\ Undropped(f.blocks[i].instrs, m) \in SUBSET (1..Len(f.blocks[i].instrs))
             /\ Len(cs[i]) = Cardinality(Undropped(f.blocks[i].instrs, m))
             /\ \A j \in 1..Len(cs[i]) :
                  /\ Nth(Undropped(f.blocks[i].instrs, m), j) \in Undropped(f.blocks[i].instrs, m)
                  /\ Trimmed(cs[i][j], f.blocks[i].instrs[Nth(Undropped(f.blocks[i].instrs, m), j)], m)
  <2> DEFINE instrs == f.blocks[i].instrs
             b == Replace(instrs, m)
             c == FoldBranch(b)
  <2>1. /\ Undropped(instrs, m) \in SUBSET (1..Len(instrs))
        /\ Len(b) = Cardinality(Undropped(instrs, m)) /\ Len(b) \in Nat
        /\ b = [j \in 1..Len(b) |-> b[j]]
        /\ \A j \in 1..Len(b) :
              /\ Nth(Undropped(instrs, m), j) \in Undropped(instrs, m)
              /\ b[j] = Substitute(instrs[Nth(Undropped(instrs, m), j)], m)
        /\ DOMAIN m = {} => b = instrs
    BY <1>1, ReplaceFacts, SMTT(30)
  <2>2. /\ Len(c) = Len(b) /\ c = [j \in 1..Len(b) |-> c[j]]
        /\ \A j \in 1..Len(b) : \/ c[j] = b[j]
                                \/ BranchFolds(b[j]) /\ c[j] = Br(TakenLabel(b[j]))
    <3>. HIDE DEF b
    <3>. QED
      BY <2>1, FoldBranchFacts
  <2>. HIDE DEF c
  <2>3. \A j \in 1..Len(c) : Trimmed(c[j], instrs[Nth(Undropped(instrs, m), j)], m)
    <3>. HIDE DEF b
    <3>. QED
      BY <2>1, <2>2 DEF Trimmed
  <2>4. IsCode(c)
    <3>. HIDE DEF b
    <3>. QED
      BY <1>1, <2>1, <2>2, <2>3, TrimmedIsCode
  <2>. QED
    BY <2>1, <2>2, <2>3, <2>4 DEF c
<1> HIDE DEF cs
<1>4. /\ IsFunction(f2) /\ f2.params = f.params /\ Len(f2.blocks) = Len(f.blocks)
      /\ \A i \in 1..Len(f.blocks) :
                f2.blocks[i].label = f.blocks[i].label /\ f2.blocks[i].instrs = cs[i]
      /\ (\A i \in 1..Len(f.blocks) : cs[i] = f.blocks[i].instrs) => f2 = f
  <2>1. \A i \in 1..Len(f.blocks) : IsCode(cs[i])
    BY <1>3
  <2>. QED
    BY <2>1, WithCodeFacts
<1> HIDE DEF f2
<1>5. Rewrites(f2, f, m)
  BY <1>3, <1>4 DEF Rewrites
<1> QED
  BY <1>2, <1>3, <1>4, <1>5

-----------------------------------------------------------------------------
(* One listing inside another, as a rewriting leaves it.                   *)
Within(new, old, em, m) ==
    /\ Len(new) \in Nat /\ Len(old) \in Nat
    /\ DOMAIN new = 1..Len(new) /\ DOMAIN old = 1..Len(old)
    /\ em \in [1..Len(new) -> 1..Len(old)] /\ Increasing(em, Len(new))
    /\ \A k \in 1..Len(new) :
          IsInstr(old[em[k]]) /\ Trimmed(new[k], old[em[k]], m) /\ old[em[k]].dest \notin DOMAIN m
    /\ \A p \in 1..Len(old) : old[p].dest \notin DOMAIN m => \E k \in 1..Len(new) : em[k] = p

(* What a rewriting leaves is within the old listing.                      *)
LEMMA RewrittenListing ==
    ASSUME NEW f, NEW f2, NEW m, Rewrites(f2, f, m)
    PROVE  \E em : Within(Listing(f2), Listing(f), em, m)
<1> DEFINE n == Len(f.blocks)
           e == [i \in 1..n |-> i]
           keep == [i \in 1..n |-> Undropped(f.blocks[i].instrs, m)]
<1>1. /\ IsFunction(f) /\ IsFunction(f2) /\ Len(f2.blocks) = n
      /\ \A i \in 1..n :
          /\ Undropped(f.blocks[i].instrs, m) \in SUBSET (1..Len(f.blocks[i].instrs))
          /\ Len(f2.blocks[i].instrs) = Cardinality(Undropped(f.blocks[i].instrs, m))
          /\ \A j \in 1..Len(f2.blocks[i].instrs) :
                Trimmed(f2.blocks[i].instrs[j],
                        f.blocks[i].instrs[Nth(Undropped(f.blocks[i].instrs, m), j)], m)
  BY DEF Rewrites
<1>2. \A i \in 1..n : e[i] = i /\ keep[i] = Undropped(f.blocks[i].instrs, m)
  OBVIOUS
<1>3. Leaves(f2, f, e, keep)
  <2>1. e \in [1..n -> 1..n] /\ Increasing(e, n)
    BY DEF Increasing
  <2>. HIDE DEF e, keep, n
  <2>. QED
    BY <1>1, <1>2, <2>1 DEF Leaves, n
<1> HIDE DEF e, keep
<1>4. PICK start : Flattens(Code(f), Listing(f), start)
  BY <1>1, ListingFlattens
<1>5. PICK begin : Flattens(Code(f2), Listing(f2), begin)
  BY <1>1, ListingFlattens
<1>6. PICK em \in [1..Len(Listing(f2)) -> 1..Len(Listing(f))] :
              /\ Increasing(em, Len(Listing(f2)))
              /\ \A k \in 1..Len(Listing(f2)) :
                    ComesFrom(f2, f, e, keep, begin, start, k, em[k])
              /\ \A i \in 1..Len(f2.blocks) : \A p \in keep[i] :
                    \E k \in 1..Len(Listing(f2)) : em[k] = start[e[i]] + p
  BY <1>3, <1>4, <1>5, ListingEmbeds
<1>7. /\ Len(Listing(f)) \in Nat /\ DOMAIN Listing(f) = 1..Len(Listing(f))
      /\ Len(Listing(f2)) \in Nat /\ DOMAIN Listing(f2) = 1..Len(Listing(f2))
  BY <1>1, <1>4, <1>5, ListingFlattens, ListedPlaces
<1>8. ASSUME NEW k \in 1..Len(Listing(f2))
      PROVE  /\ IsInstr(Listing(f)[em[k]]) /\ Trimmed(Listing(f2)[k], Listing(f)[em[k]], m)
             /\ Listing(f)[em[k]].dest \notin DOMAIN m
  <2>1. ComesFrom(f2, f, e, keep, begin, start, k, em[k])
    BY <1>6
  <2>2. PICK i \in 1..n : \E j \in 1..Len(f2.blocks[i].instrs) :
          /\ Nth(keep[i], j) \in keep[i]
          /\ Listing(f2)[k] = f2.blocks[i].instrs[j]
          /\ Listing(f)[em[k]] = f.blocks[e[i]].instrs[Nth(keep[i], j)]
    BY <1>1, <2>1 DEF ComesFrom
  <2>3. PICK j \in 1..Len(f2.blocks[i].instrs) :
          /\ Nth(keep[i], j) \in keep[i]
          /\ Listing(f2)[k] = f2.blocks[i].instrs[j]
          /\ Listing(f)[em[k]] = f.blocks[i].instrs[Nth(keep[i], j)]
    BY <2>2, <1>2
  <2>4. keep[i] = Undropped(f.blocks[i].instrs, m) /\ IsCode(f.blocks[i].instrs)
    BY <1>1, <1>2, FunctionFacts
  <2>5. PICK p \in keep[i] : p = Nth(keep[i], j)
    BY <2>3
  <2>6. p \in 1..Len(f.blocks[i].instrs) /\ f.blocks[i].instrs[p].dest \notin DOMAIN m
    BY <2>4, <1>1 DEF Undropped
  <2>7. IsInstr(f.blocks[i].instrs[p])
    BY <2>4, <2>6, CodeFacts
  <2>8. Trimmed(f2.blocks[i].instrs[j], f.blocks[i].instrs[p], m)
    BY <1>1, <2>4, <2>5
  <2>. QED
    BY <2>3, <2>5, <2>6, <2>7, <2>8
<1>9. ASSUME NEW p \in 1..Len(Listing(f)), Listing(f)[p].dest \notin DOMAIN m
      PROVE  \E k \in 1..Len(Listing(f2)) : em[k] = p
  <2>1. PICK i \in 1..n : \E j \in 1..Len(f.blocks[i].instrs) :
           p = start[i] + j /\ Listing(f)[p] = f.blocks[i].instrs[j]
    <3>1. IsFunction(f)
      BY <1>1
    <3>2. \A k \in 1..Len(Listing(f)) :
             \E i \in 1..Len(f.blocks) : \E j \in 1..Len(f.blocks[i].instrs) :
                 k = start[i] + j /\ Listing(f)[k] = f.blocks[i].instrs[j]
      BY <3>1, <1>4, ListedPlaces
    <3>. QED
      BY <3>2
  <2>2. PICK j \in 1..Len(f.blocks[i].instrs) :
           p = start[i] + j /\ Listing(f)[p] = f.blocks[i].instrs[j]
    BY <2>1
  <2>3. j \in keep[i]
    <3>1. DOMAIN f.blocks[i].instrs = 1..Len(f.blocks[i].instrs)
      BY <1>1, FunctionFacts, CodeFacts
    <3>. QED
      BY <1>2, <1>9, <2>2, <3>1 DEF Undropped
  <2>4. i \in 1..Len(f2.blocks) /\ e[i] = i
    BY <1>1, <1>2
  <2>. QED
    BY <1>6, <2>2, <2>3, <2>4
<1>10. Within(Listing(f2), Listing(f), em, m)
  BY <1>6, <1>7, <1>8, <1>9 DEF Within
<1> QED
  BY <1>10

(* Nothing is defined twice that was not, and dropping a definition leaves *)
(* fewer instructions.                                                     *)
LEMMA WithinFacts ==
    ASSUME NEW new, NEW old, NEW em, NEW m, Within(new, old, em, m), Knows(m)
    PROVE  /\ Len(new) <= Len(old)
           /\ Len(new) = Len(old) => \A k \in 1..Len(new) : em[k] = k
           /\ \A p \in 1..Len(old) : old[p].dest \in DOMAIN m => Len(new) < Len(old)
           /\ \A k \in 1..Len(new) : em[k] \in 1..Len(old) /\ new[k].dest = old[em[k]].dest
           /\ \A k, l \in 1..Len(new) : em[k] = em[l] => k = l
<1>1. PICK a \in Nat, b \in Nat : a = Len(new) /\ b = Len(old)
  BY DEF Within
<1>2. em \in [1..a -> 1..b] /\ Increasing(em, a)
  BY <1>1 DEF Within
<1>3. a <= b /\ (a = b => \A k \in 1..a : em[k] = k)
  BY <1>2, IncreasingGrows
<1>4. \A k \in 1..a : IsInstr(old[em[k]]) /\ Trimmed(new[k], old[em[k]], m) /\ old[em[k]].dest \notin DOMAIN m
  BY <1>1 DEF Within
<1>5. \A k \in 1..a : em[k] \in 1..b /\ new[k].dest = old[em[k]].dest
  BY <1>2, <1>4, TrimmedFacts
<1>6. \A k, l \in 1..a : em[k] = em[l] => k = l
  <2>. SUFFICES ASSUME NEW k \in 1..a, NEW l \in 1..a, em[k] = em[l], k < l PROVE FALSE
    OBVIOUS
  <2>. QED
    BY <1>2 DEF Increasing
<1>7. ASSUME NEW p \in 1..b, old[p].dest \in DOMAIN m PROVE a < b
  <2>1. SUFFICES ASSUME a = b PROVE FALSE
    BY <1>3
  <2>2. em[p] = p /\ p \in 1..a
    BY <1>3, <2>1
  <2>. QED
    BY <1>4, <1>7, <2>2
<1> QED
  BY <1>1, <1>3, <1>5, <1>6, <1>7

-----------------------------------------------------------------------------
(* Dead-code elimination: the blocks some path leads to, and of those the  *)
(* instructions that are not dead.                                         *)
LEMMA KeepReachableFacts ==
    ASSUME NEW f, IsFunction(f)
    PROVE  /\ LiveBlocks(f) \in SUBSET (1..Len(f.blocks)) /\ Cardinality(LiveBlocks(f)) \in Nat
           /\ IsFunction(KeepReachable(f))
           /\ KeepReachable(f).params = f.params
           /\ Len(KeepReachable(f).blocks) = Cardinality(LiveBlocks(f))
           /\ Cardinality(LiveBlocks(f)) <= Len(f.blocks)
           /\ \A i \in 1..Cardinality(LiveBlocks(f)) :
                /\ Nth(LiveBlocks(f), i) \in LiveBlocks(f)
                /\ KeepReachable(f).blocks[i] = f.blocks[Nth(LiveBlocks(f), i)]
           /\ Increasing([i \in 1..Cardinality(LiveBlocks(f)) |-> Nth(LiveBlocks(f), i)],
                         Cardinality(LiveBlocks(f)))
           /\ \A p \in LiveBlocks(f) :
                \E i \in 1..Cardinality(LiveBlocks(f)) : Nth(LiveBlocks(f), i) = p
           /\ Cardinality(LiveBlocks(f)) = Len(f.blocks) => KeepReachable(f) = f /\ AllReachable(f)
<1> DEFINE K == LiveBlocks(f)
           bs == Kept(f.blocks, K)
           g == KeepReachable(f)
<1>1. PICK n \in Nat : /\ n = Len(f.blocks) /\ DOMAIN f.blocks = 1..n
                       /\ f.blocks \in [1..n -> Range(f.blocks)]
  BY FunctionFacts
<1>2. K \in SUBSET (1..n)
  BY <1>1 DEF LiveBlocks
<1>3. Positions(K, f.blocks)
  <2>1. f.blocks \in [1..n -> {f.blocks[i] : i \in 1..n}]
    BY <1>1
  <2>. HIDE DEF K
  <2>. QED
    BY <1>1, <1>2, <2>1 DEF Positions
<1> HIDE DEF K
<1>4. /\ Cardinality(K) \in Nat /\ Cardinality(K) <= n /\ Len(bs) = Cardinality(K)
      /\ DOMAIN bs = 1..Cardinality(K)
      /\ Cardinality(K) = n => K = 1..n /\ bs = f.blocks
  BY <1>1, <1>3, KeptFacts
<1>5. \A j \in 1..Cardinality(K) : Nth(K, j) \in K
  BY <1>3, KeptFacts
<1>6. \A j \in 1..Cardinality(K) : bs[j] = f.blocks[Nth(K, j)]
  BY DEF Kept
<1>7. /\ Increasing([i \in 1..Cardinality(K) |-> Nth(K, i)], Cardinality(K))
      /\ \A p \in K : \E i \in 1..Cardinality(K) : Nth(K, i) = p
  BY <1>3, KeptOrder
<1>8. f = [params |-> f.params, ret |-> f.ret, blocks |-> f.blocks] /\ IsList(f.params)
  BY DEF IsFunction
<1>9. g = [params |-> f.params, ret |-> f.ret, blocks |-> bs]
  <2>1. CASE f.blocks # <<>>
    <3>1. g = [f EXCEPT !.blocks = bs]
      BY <2>1 DEF KeepReachable, K
    <3>. HIDE DEF bs
    <3>. QED
      BY <1>8, <3>1
  <2>2. CASE f.blocks = <<>>
    <3>1. n = 0
      BY <1>1, <2>2
    <3>2. Cardinality(K) = n
      BY <1>4, <3>1
    <3>3. bs = f.blocks
      BY <1>4, <3>2
    <3>. QED
      BY <1>8, <2>2, <3>3 DEF KeepReachable
  <2>. QED
    BY <2>1, <2>2
<1> HIDE DEF g
<1>10. g.params = f.params /\ g.blocks = bs /\ g.ret = f.ret
  BY <1>9
<1>11. \A j \in 1..Cardinality(K) : bs[j] \in Range(f.blocks)
  BY <1>1, <1>2, <1>5, <1>6 DEF Range
<1>12. PICK c \in Nat : c = Cardinality(K)
  BY <1>4
<1>13. bs = [j \in 1..c |-> bs[j]]
  BY <1>12 DEF Kept
<1> HIDE DEF bs
<1>14. IsList(bs) /\ \A b \in Range(bs) : \E j \in 1..c : b = bs[j]
  BY <1>13, ListedIsList
<1>15. \A b \in Range(bs) : b \in Range(f.blocks)
  BY <1>11, <1>12, <1>14
<1>16. IsFunction(g)
  BY <1>8, <1>9, <1>10, <1>14, <1>15 DEF IsFunction
<1>17. ASSUME Cardinality(K) = n PROVE g = f /\ AllReachable(f)
  <2>1. K = DOMAIN f.blocks /\ bs = f.blocks
    BY <1>1, <1>4, <1>17
  <2>. QED
    BY <2>1, <1>8, <1>9 DEF AllReachable, K
<1> QED
  BY <1>1, <1>2, <1>4, <1>5, <1>6, <1>7, <1>10, <1>16, <1>17 DEF K, g

(* Deleting dead definitions keeps the blocks and the live instructions,   *)
(* in order.                                                               *)
LEMMA KeepLiveFacts ==
    ASSUME NEW f, IsFunction(f)
    PROVE  /\ IsFunction(KeepLive(f)) /\ KeepLive(f).params = f.params
           /\ Len(KeepLive(f).blocks) = Len(f.blocks)
           /\ \A i \in 1..Len(f.blocks) :
                /\ KeepLive(f).blocks[i].label = f.blocks[i].label
                /\ Positions(LiveAt(f, f.blocks[i].instrs), f.blocks[i].instrs)
                /\ KeepLive(f).blocks[i].instrs =
                      Kept(f.blocks[i].instrs, LiveAt(f, f.blocks[i].instrs))
           /\ (\A i \in 1..Len(f.blocks) :
                 LiveAt(f, f.blocks[i].instrs) = 1..Len(f.blocks[i].instrs)) => KeepLive(f) = f
<1> DEFINE cs == [i \in 1..Len(f.blocks) |-> Kept(f.blocks[i].instrs, LiveAt(f, f.blocks[i].instrs))]
           f2 == WithCode(f, cs)
<1>1. DOMAIN f.blocks = 1..Len(f.blocks) /\ \A i \in 1..Len(f.blocks) : IsCode(f.blocks[i].instrs)
  BY FunctionFacts
<1>2. KeepLive(f) = f2
  BY <1>1 DEF KeepLive, WithCode
<1>3. ASSUME NEW i \in 1..Len(f.blocks)
      PROVE  /\ Positions(LiveAt(f, f.blocks[i].instrs), f.blocks[i].instrs)
             /\ cs[i] = Kept(f.blocks[i].instrs, LiveAt(f, f.blocks[i].instrs))
             /\ IsCode(cs[i])
             /\ LiveAt(f, f.blocks[i].instrs) = 1..Len(f.blocks[i].instrs) => cs[i] = f.blocks[i].instrs
  <2> DEFINE instrs == f.blocks[i].instrs
             K == LiveAt(f, instrs)
             c == Kept(instrs, K)
  <2>1. /\ Len(instrs) \in Nat /\ DOMAIN instrs = 1..Len(instrs)
        /\ instrs \in [1..Len(instrs) -> Range(instrs)]
        /\ \A j \in 1..Len(instrs) : IsInstr(instrs[j])
    BY <1>1, CodeFacts
  <2>2. K \in SUBSET (1..Len(instrs))
    BY <2>1 DEF LiveAt
  <2>. HIDE DEF K, instrs
  <2>3. Positions(K, instrs)
    <3>1. instrs \in [1..Len(instrs) -> {instrs[j] : j \in 1..Len(instrs)}]
      BY <2>1
    <3>. QED
      BY <2>1, <2>2, <3>1 DEF Positions
  <2>4. /\ Cardinality(K) \in Nat /\ Len(c) = Cardinality(K) /\ DOMAIN c = 1..Cardinality(K)
        /\ K = 1..Len(instrs) => c = instrs
    BY <2>3, KeptFacts
  <2>5. \A j \in 1..Cardinality(K) : Nth(K, j) \in K
    BY <2>3, KeptFacts
  <2>6. \A j \in 1..Cardinality(K) : IsInstr(c[j])
    BY <2>1, <2>2, <2>5 DEF Kept
  <2>7. PICK m \in Nat : m = Cardinality(K)
    BY <2>4
  <2>8. c = [j \in 1..m |-> c[j]]
    BY <2>7 DEF Kept
  <2>. HIDE DEF c
  <2>9. IsList(c) /\ \A t \in Range(c) : \E j \in 1..m : t = c[j]
    BY <2>8, ListedIsList
  <2>10. IsCode(c)
    BY <2>6, <2>7, <2>9 DEF IsCode
  <2>. QED
    BY <2>3, <2>4, <2>10 DEF c, K, instrs
<1> HIDE DEF cs
<1>4. /\ IsFunction(f2) /\ f2.params = f.params /\ Len(f2.blocks) = Len(f.blocks)
      /\ \A i \in 1..Len(f.blocks) :
                f2.blocks[i].label = f.blocks[i].label /\ f2.blocks[i].instrs = cs[i]
      /\ (\A i \in 1..Len(f.blocks) : cs[i] = f.blocks[i].instrs) => f2 = f
  <2>1. \A i \in 1..Len(f.blocks) : IsCode(cs[i])
    BY <1>3
  <2>. QED
    BY <2>1, WithCodeFacts
<1> HIDE DEF f2
<1> QED
  BY <1>2, <1>3, <1>4

(* One listing inside another, with what each instruction writes. *)
Drawn(new, old, em) ==
    /\ Len(new) \in Nat /\ Len(old) \in Nat
    /\ em \in [1..Len(new) -> 1..Len(old)] /\ Increasing(em, Len(new))
    /\ \A k \in 1..Len(new) : new[k].dest = old[em[k]].dest

(* A turn of dead-code elimination leaves the function as it is and        *)
(* nothing to eliminate, or leaves fewer blocks and instructions.          *)
Swept(f) == KeepLive(KeepReachable(f))
SweptBlock(f) == [i \in 1..Len(Swept(f).blocks) |-> Nth(LiveBlocks(f), i)]
SweptAt(f) ==
    [i \in 1..Len(Swept(f).blocks) |-> LiveAt(KeepReachable(f), f.blocks[Nth(LiveBlocks(f), i)].instrs)]

(* A turn of dead-code elimination leaves live instructions of live        *)
(* blocks.                                                                 *)
LEMMA SweptLeaves ==
    ASSUME NEW f, IsFunction(f)
    PROVE  /\ Leaves(Swept(f), f, SweptBlock(f), SweptAt(f))
           /\ Swept(f).params = f.params
           /\ \A i \in 1..Len(Swept(f).blocks) :
                /\ SweptBlock(f)[i] \in LiveBlocks(f) /\ LiveBlocks(f) \in SUBSET (1..Len(f.blocks))
                /\ KeepReachable(f).blocks[i] = f.blocks[SweptBlock(f)[i]]
                /\ Swept(f).blocks[i].label = f.blocks[SweptBlock(f)[i]].label
                /\ \A j \in 1..Len(Swept(f).blocks[i].instrs) :
                      Swept(f).blocks[i].instrs[j] = f.blocks[SweptBlock(f)[i]].instrs[Nth(SweptAt(f)[i], j)]
           /\ \A p \in LiveBlocks(f) : \E i \in 1..Len(Swept(f).blocks) : SweptBlock(f)[i] = p
<1> DEFINE g == KeepReachable(f)
           f2 == Swept(f)
           K == LiveBlocks(f)
<1>1. /\ K \in SUBSET (1..Len(f.blocks)) /\ Cardinality(K) \in Nat
      /\ IsFunction(g) /\ g.params = f.params /\ Len(g.blocks) = Cardinality(K)
      /\ \A i \in 1..Cardinality(K) : Nth(K, i) \in K /\ g.blocks[i] = f.blocks[Nth(K, i)]
      /\ Increasing([i \in 1..Cardinality(K) |-> Nth(K, i)], Cardinality(K))
      /\ \A p \in K : \E i \in 1..Cardinality(K) : Nth(K, i) = p
  BY KeepReachableFacts
<1>2. /\ IsFunction(f2) /\ f2.params = g.params /\ Len(f2.blocks) = Len(g.blocks)
      /\ \A i \in 1..Len(g.blocks) :
            /\ f2.blocks[i].label = g.blocks[i].label
            /\ Positions(LiveAt(g, g.blocks[i].instrs), g.blocks[i].instrs)
            /\ f2.blocks[i].instrs = Kept(g.blocks[i].instrs, LiveAt(g, g.blocks[i].instrs))
  BY <1>1, KeepLiveFacts DEF Swept
<1>3. PICK c \in Nat : c = Cardinality(K) /\ c = Len(f2.blocks)
  BY <1>1, <1>2
<1>4. /\ SweptBlock(f) = [i \in 1..c |-> Nth(K, i)]
      /\ \A i \in 1..c : SweptAt(f)[i] = LiveAt(g, f.blocks[Nth(K, i)].instrs)
  BY <1>3 DEF SweptBlock, SweptAt
<1> HIDE DEF g, f2, K
<1>5. SweptBlock(f) \in [1..c -> 1..Len(f.blocks)] /\ Increasing(SweptBlock(f), c)
  BY <1>1, <1>3, <1>4
<1>6. ASSUME NEW i \in 1..c
      PROVE  /\ SweptAt(f)[i] \in SUBSET (1..Len(f.blocks[SweptBlock(f)[i]].instrs))
             /\ Len(f2.blocks[i].instrs) = Cardinality(SweptAt(f)[i])
             /\ SweptBlock(f)[i] \in K
             /\ g.blocks[i] = f.blocks[SweptBlock(f)[i]]
             /\ f2.blocks[i].label = f.blocks[SweptBlock(f)[i]].label
             /\ \A j \in 1..Len(f2.blocks[i].instrs) :
                   f2.blocks[i].instrs[j] = f.blocks[SweptBlock(f)[i]].instrs[Nth(SweptAt(f)[i], j)]
  <2>1. SweptBlock(f)[i] = Nth(K, i) /\ g.blocks[i] = f.blocks[Nth(K, i)] /\ Nth(K, i) \in K
    BY <1>1, <1>3, <1>4
  <2>2. PICK L, s : L = SweptAt(f)[i] /\ s = g.blocks[i].instrs
    OBVIOUS
  <2>3. L = LiveAt(g, s)
    BY <1>4, <2>1, <2>2
  <2>4. Positions(L, s) /\ f2.blocks[i].instrs = Kept(s, L) /\ f2.blocks[i].label = g.blocks[i].label
    BY <1>1, <1>2, <1>3, <2>2, <2>3
  <2>5. /\ Len(Kept(s, L)) = Cardinality(L)
        /\ \A j \in 1..Cardinality(L) : Kept(s, L)[j] = s[Nth(L, j)]
    <3>1. Positions(L, s)
      BY <2>4
    <3>2. Len(Kept(s, L)) = Cardinality(L)
      BY <3>1, KeptFacts
    <3>3. \A j \in 1..Cardinality(L) : Kept(s, L)[j] = s[Nth(L, j)]
      BY DEF Kept
    <3>. QED
      BY <3>2, <3>3
  <2>6. L \in SUBSET (1..Len(s))
    BY <2>4 DEF Positions
  <2>. QED
    BY <2>1, <2>2, <2>4, <2>5, <2>6
<1>7. Leaves(f2, f, SweptBlock(f), SweptAt(f))
  BY <1>2, <1>3, <1>5, <1>6 DEF Leaves
<1>8. \A p \in K : \E i \in 1..c : SweptBlock(f)[i] = p
  BY <1>1, <1>3, <1>4
<1> QED
  BY <1>1, <1>2, <1>3, <1>6, <1>7, <1>8 DEF g, f2, K

(* A turn draws the new listing from the old one and shrinks the function  *)
(* or leaves it as it is.                                                  *)
LEMMA SweptFacts ==
    ASSUME NEW f, IsFunction(f)
    PROVE  /\ \E em : Drawn(Listing(Swept(f)), Listing(f), em)
           /\ Swept(f) = f \/ Size(Swept(f)) < Size(f)
<1> DEFINE f2 == Swept(f)
           e == SweptBlock(f)
           keep == SweptAt(f)
<1>1. Leaves(f2, f, e, keep)
  BY SweptLeaves
<1>2. IsFunction(f2)
  BY <1>1 DEF Leaves
<1>3. /\ e \in [1..Len(f2.blocks) -> 1..Len(f.blocks)] /\ Increasing(e, Len(f2.blocks))
      /\ \A i \in 1..Len(f2.blocks) : keep[i] \in SUBSET (1..Len(f.blocks[e[i]].instrs))
      /\ \A i \in 1..Len(f2.blocks) : e[i] \in LiveBlocks(f)
      /\ \A i \in 1..Len(f2.blocks) :
            \A j \in 1..Len(f2.blocks[i].instrs) :
               f2.blocks[i].instrs[j] = f.blocks[e[i]].instrs[Nth(keep[i], j)]
  BY <1>1, SweptLeaves DEF Leaves
<1>4. PICK start : Flattens(Code(f), Listing(f), start)
  BY <1>2, ListingFlattens
<1>5. PICK begin : Flattens(Code(f2), Listing(f2), begin)
  BY <1>2, ListingFlattens
<1>6. PICK em \in [1..Len(Listing(f2)) -> 1..Len(Listing(f))] :
              /\ Increasing(em, Len(Listing(f2)))
              /\ \A k \in 1..Len(Listing(f2)) :
                    ComesFrom(f2, f, e, keep, begin, start, k, em[k])
  <2>. HIDE DEF f2, e, keep
  <2>. QED
    BY <1>1, <1>4, <1>5, ListingEmbeds
<1>7. PICK a \in Nat, b \in Nat : a = Len(Listing(f2)) /\ b = Len(Listing(f))
  BY <1>2, ListingFlattens
<1>8. PICK c \in Nat, d \in Nat : c = Len(f2.blocks) /\ d = Len(f.blocks)
  BY <1>2, FunctionFacts
<1> HIDE DEF e, keep, f2
<1>9. ASSUME NEW k \in 1..a PROVE Listing(f2)[k].dest = Listing(f)[em[k]].dest
  <2>1. ComesFrom(f2, f, e, keep, begin, start, k, em[k])
    BY <1>6, <1>7
  <2>2. PICK i \in 1..Len(f2.blocks) : \E j \in 1..Len(f2.blocks[i].instrs) :
        /\ Listing(f2)[k] = f2.blocks[i].instrs[j]
        /\ Listing(f)[em[k]] = f.blocks[e[i]].instrs[Nth(keep[i], j)]
    BY <2>1 DEF ComesFrom
  <2>. QED
    BY <2>2, <1>3
<1>10. Drawn(Listing(f2), Listing(f), em)
  BY <1>6, <1>7, <1>9 DEF Drawn
<1>11. /\ a <= b /\ (a = b => \A k \in 1..a : em[k] = k)
       /\ c <= d /\ (c = d => \A i \in 1..c : e[i] = i)
  <2>1. em \in [1..a -> 1..b] /\ Increasing(em, a) /\ e \in [1..c -> 1..d] /\ Increasing(e, c)
    BY <1>3, <1>6, <1>7, <1>8
  <2>2. a <= b /\ (a = b => \A k \in 1..a : em[k] = k)
    BY <2>1, IncreasingGrows
  <2>3. c <= d /\ (c = d => \A i \in 1..c : e[i] = i)
    BY <2>1, IncreasingGrows, ZenonT(30)
  <2>. QED
    BY <2>2, <2>3
<1>12. ASSUME a = b, c = d PROVE f2 = f
  <2>1. LiveBlocks(f) \in SUBSET (1..d) /\ 1..d \subseteq LiveBlocks(f)
    <3>1. LiveBlocks(f) \in SUBSET (1..d)
      BY <1>8, KeepReachableFacts
    <3>. QED
      BY <3>1, <1>3, <1>8, <1>11, <1>12
  <2>2. KeepReachable(f) = f
    <3>1. Cardinality(LiveBlocks(f)) = d
      <4>1. LiveBlocks(f) = 1..d
        BY <2>1
      <4>. QED
        BY <4>1, FS_Interval
    <3>. QED
      BY <3>1, <1>8, KeepReachableFacts
  <2>3. ASSUME NEW i \in 1..d, NEW j \in 1..Len(f.blocks[i].instrs)
        PROVE  j \in LiveAt(f, f.blocks[i].instrs)
    <3>1. /\ Len(Code(f)) = d /\ AreLists(Code(f)) /\ Starts(Code(f), start)
          /\ \A x \in 1..d : Code(f)[x] = f.blocks[x].instrs
      BY <1>4, <1>8, ListingFlattens DEF Flattens
    <3>2. start[i] + j \in 1..b
      BY <1>4, <1>7, <1>8, ListedPlaces
    <3>3. PICK k \in 1..a : k = start[i] + j /\ em[k] = k
      BY <3>2, <1>11, <1>12
    <3>4. ComesFrom(f2, f, e, keep, begin, start, k, k)
      BY <1>6, <1>7, <3>3
    <3>5. PICK x \in 1..c : \E y \in 1..Len(f2.blocks[x].instrs) :
             k = start[e[x]] + Nth(keep[x], y) /\ Nth(keep[x], y) \in keep[x]
      BY <1>8, <3>4 DEF ComesFrom
    <3>6. e[x] = x /\ x \in 1..d
      BY <1>11, <1>12
    <3>7. PICK p \in keep[x] : k = start[e[x]] + p
      BY <3>5
    <3>8. p \in 1..Len(f.blocks[x].instrs)
      BY <3>6, <3>7, <1>3, <1>8
    <3>9. x = i /\ p = j
      <4>1. /\ x \in 1..Len(Code(f)) /\ i \in 1..Len(Code(f))
            /\ p \in 1..Len(Code(f)[x]) /\ j \in 1..Len(Code(f)[i])
            /\ start[x] + p = start[i] + j
        BY <3>1, <3>3, <3>5, <3>6, <3>7, <3>8
      <4>. QED
        BY <3>1, <4>1, PlaceUnique
    <3>10. keep[x] = LiveAt(KeepReachable(f), f.blocks[e[x]].instrs)
      BY <1>8 DEF keep, SweptAt, e, SweptBlock, f2
    <3>. QED
      BY <2>2, <3>6, <3>7, <3>9, <3>10
  <2>4. \A i \in 1..Len(f.blocks) :
             LiveAt(f, f.blocks[i].instrs) = 1..Len(f.blocks[i].instrs)
    <3>. SUFFICES ASSUME NEW i \in 1..d PROVE LiveAt(f, f.blocks[i].instrs) = 1..Len(f.blocks[i].instrs)
      BY <1>8
    <3>1. DOMAIN f.blocks[i].instrs = 1..Len(f.blocks[i].instrs)
      BY <1>8, FunctionFacts, CodeFacts
    <3>. QED
      BY <2>3, <3>1 DEF LiveAt
  <2>5. KeepLive(f) = f
    BY <2>4, KeepLiveFacts
  <2>. QED
    BY <2>2, <2>5 DEF f2, Swept
<1>13. f2 = f \/ c + a < d + b
  BY <1>11, <1>12
<1> QED
  BY <1>7, <1>8, <1>10, <1>13 DEF Size, f2

(* A turn that leaves a function as it is leaves nothing dead in it.       *)
LEMMA SweptClean ==
    ASSUME NEW f, IsFunction(f), Swept(f) = f
    PROVE  AllReachable(f) /\ \A ins \in Instructions(f) : ~Dead(f, ins)
<1> DEFINE g == KeepReachable(f)
<1>1. IsFunction(g) /\ Len(g.blocks) = Cardinality(LiveBlocks(f))
  BY KeepReachableFacts
<1>2. Len(Swept(f).blocks) = Len(g.blocks)
  BY <1>1, KeepLiveFacts DEF Swept
<1>3. g = f /\ AllReachable(f)
  BY <1>1, <1>2, KeepReachableFacts
<1>4. \A i \in 1..Len(f.blocks) :
          /\ Positions(LiveAt(f, f.blocks[i].instrs), f.blocks[i].instrs)
          /\ f.blocks[i].instrs = Kept(f.blocks[i].instrs, LiveAt(f, f.blocks[i].instrs))
  BY <1>3, KeepLiveFacts DEF Swept
<1>5. ASSUME NEW ins \in Instructions(f) PROVE ~Dead(f, ins)
  <2>1. PICK i \in 1..Len(f.blocks) : ins \in Range(f.blocks[i].instrs)
    BY FunctionFacts DEF Instructions, Range
  <2>2. PICK s, L : s = f.blocks[i].instrs /\ L = LiveAt(f, s)
    OBVIOUS
  <2>3. Positions(L, s) /\ s = Kept(s, L)
    BY <1>4, <2>1, <2>2
  <2>4. Len(s) = Cardinality(L)
    <3>1. Positions(L, s)
      BY <2>3
    <3>2. Len(Kept(s, L)) = Cardinality(L)
      BY <3>1, KeptFacts
    <3>. QED
      BY <2>3, <3>2
  <2>5. L = 1..Len(s)
    BY <2>3, <2>4, KeptFacts
  <2>6. DOMAIN s = 1..Len(s)
    BY <2>3 DEF Positions
  <2>. QED
    BY <2>1, <2>2, <2>5, <2>6 DEF LiveAt, Range
<1> QED
  BY <1>3, <1>5

-----------------------------------------------------------------------------
(* Following aliases: the values a chain goes through. *)
Hops(a, m, h) ==
    h = [n \in 0..Cardinality(DOMAIN m) |-> IF n = 0 THEN a ELSE Resolve(h[n - 1], m)]

(* The hops of the while of copySource exist.                              *)
LEMMA HasHops ==
    ASSUME NEW a, NEW m, Knows(m)
    PROVE  \E h : Hops(a, m, h)
<1> DEFINE Up(k, h) == h = [n \in 0..k |-> IF n = 0 THEN a ELSE Resolve(h[n - 1], m)]
<1>1. PICK c \in Nat : c = Cardinality(DOMAIN m)
  BY FS_CardinalityType DEF Knows
<1> DEFINE S == {k \in 0..c : \E h : Up(k, h)}
<1>2. 0 \in S
  <2> DEFINE h == [n \in 0..0 |-> a]
  <2>1. h = [n \in 0..0 |-> IF n = 0 THEN a ELSE Resolve(h[n - 1], m)]
    OBVIOUS
  <2>2. Up(0, h)
    BY <2>1
  <2>. HIDE DEF h, Up
  <2>. QED
    BY <1>1, <2>2
<1>3. ASSUME NEW k \in 0..(c - 1), k \in S PROVE k + 1 \in S
  <2>1. PICK h : Up(k, h)
    BY <1>3
  <2> DEFINE new == [n \in 0..(k + 1) |-> IF n = k + 1 THEN Resolve(h[k], m) ELSE h[n]]
             right == [n \in 0..(k + 1) |-> IF n = 0 THEN a ELSE Resolve(new[n - 1], m)]
  <2>2. ASSUME NEW n \in 0..(k + 1)
        PROVE  new[n] = IF n = 0 THEN a ELSE Resolve(new[n - 1], m)
    <3>1. CASE n = k + 1
      <4>1. n # 0 /\ n - 1 = k /\ k \in 0..(k + 1) /\ k # k + 1
        BY <3>1
      <4>2. new[k] = h[k] /\ new[n] = Resolve(h[k], m)
        BY <4>1, <3>1
      <4>. QED
        BY <4>1, <4>2
    <3>2. CASE n # k + 1
      <4>1. n \in 0..k /\ (n # 0 => n - 1 \in 0..(k + 1) /\ n - 1 # k + 1)
        BY <3>2
      <4>2. h[n] = IF n = 0 THEN a ELSE Resolve(h[n - 1], m)
        BY <2>1, <4>1
      <4>3. new[n] = h[n] /\ (n # 0 => new[n - 1] = h[n - 1])
        BY <3>2, <4>1
      <4>. QED
        BY <4>2, <4>3
    <3>. QED
      BY <3>1, <3>2
  <2>3. new = right
    <3>1. \A n \in 0..(k + 1) : new[n] = right[n]
      BY <2>2
    <3>. QED
      BY <3>1
  <2>4. Up(k + 1, new)
    BY <2>3
  <2>. HIDE DEF new, right, Up
  <2>. QED
    BY <1>1, <2>4
<1>4. c \in S
  <2>1. Inductive(S, 0, c)
    BY <1>1, <1>2, <1>3 DEF Inductive
  <2>. HIDE DEF S
  <2>. QED
    BY <1>1, <2>1, UpTo
<1>5. PICK h : Up(c, h)
  BY <1>4
<1>6. Hops(a, m, h)
  BY <1>1, <1>5 DEF Hops
<1> QED
  BY <1>6

(* Chase is the last of its hops.                                          *)
LEMMA ChaseHops ==
    ASSUME NEW a, NEW m, Knows(m)
    PROVE  \E h : Hops(a, m, h) /\ Chase(a, m) = h[Cardinality(DOMAIN m)]
<1> DEFINE hop == CHOOSE h : Hops(a, m, h)
<1>1. Hops(a, m, hop)
  BY HasHops
<1>2. Chase(a, m) = hop[Cardinality(DOMAIN m)]
  BY DEF Chase, Hops
<1> HIDE DEF hop
<1> QED
  BY <1>1, <1>2

(* No chain of aliases comes back: each leads to a lower rank. *)
Ranked(m, rank) ==
    /\ rank \in [DOMAIN m -> 0..(Cardinality(DOMAIN m) - 1)]
    /\ \A r \in DOMAIN m :
          m[r].k = "reg" /\ m[r].name \in DOMAIN m => rank[m[r].name] < rank[r]

(* Where the table is ranked, a chain ends in a value the table does not   *)
(* replace.                                                                *)
LEMMA ChaseEnds ==
    ASSUME NEW a, IsOperand(a), NEW m, Knows(m)
    PROVE  /\ IsOperand(Chase(a, m))
           /\ DOMAIN m = {} => Chase(a, m) = a
           /\ \A rank : Ranked(m, rank) =>
                ~(Chase(a, m).k = "reg" /\ Chase(a, m).name \in DOMAIN m)
<1>1. PICK c \in Nat : c = Cardinality(DOMAIN m)
  BY FS_CardinalityType DEF Knows
<1>2. PICK h : h = [n \in 0..c |-> IF n = 0 THEN a ELSE Resolve(h[n - 1], m)] /\ Chase(a, m) = h[c]
  BY <1>1, ChaseHops DEF Hops
<1>3. h[0] = a /\ \A n \in 0..(c - 1) : h[n + 1] = Resolve(h[n], m)
  <2>1. h[0] = a
    BY <1>2
  <2>2. ASSUME NEW n \in 0..(c - 1) PROVE h[n + 1] = Resolve(h[n], m)
    <3>1. n + 1 \in 0..c /\ n + 1 # 0 /\ (n + 1) - 1 = n
      OBVIOUS
    <3>. QED
      BY <1>2, <3>1
  <2>. QED
    BY <2>1, <2>2
<1>4. IsOperand(h[c])
  <2> DEFINE S == {n \in 0..c : IsOperand(h[n])}
  <2>1. Inductive(S, 0, c)
    <3>1. 0 \in S
      BY <1>3
    <3>2. ASSUME NEW n \in 0..(c - 1), n \in S PROVE n + 1 \in S
      <4>1. IsOperand(Resolve(h[n], m))
        BY <3>2 DEF Resolve, Knows
      <4>. QED
        BY <4>1, <1>3
    <3>. QED
      BY <3>1, <3>2 DEF Inductive
  <2>. HIDE DEF S
  <2>2. c \in S
    BY <2>1, UpTo
  <2>. QED
    BY <2>2 DEF S
<1>5. ASSUME DOMAIN m = {} PROVE Chase(a, m) = a
  <2>1. c = 0
    BY <1>1, <1>5, FS_EmptySet
  <2>. QED
    BY <2>1, <1>2, <1>3
<1>6. ASSUME NEW rank, Ranked(m, rank) PROVE ~(h[c].k = "reg" /\ h[c].name \in DOMAIN m)
  <2> DEFINE In(b) == b.k = "reg" /\ b.name \in DOMAIN m
             S == {n \in 0..c : In(h[n]) => rank[h[n].name] + n <= c - 1}
  <2>0. rank \in [DOMAIN m -> 0..(c - 1)]
    BY <1>1, <1>6 DEF Ranked
  <2>1. Inductive(S, 0, c)
    <3>1. 0 \in S
      BY <2>0, <1>3
    <3>2. ASSUME NEW n \in 0..(c - 1), n \in S PROVE n + 1 \in S
      <4>1. h[n + 1] = Resolve(h[n], m) /\ n + 1 \in 0..c
        BY <1>3
      <4>2. CASE In(h[n])
        <5>1. h[n + 1] = m[h[n].name]
          BY <4>1, <4>2 DEF Resolve
        <5>2. In(h[n + 1]) => rank[h[n + 1].name] < rank[h[n].name]
          BY <5>1, <4>2, <1>6 DEF Ranked
        <5>3. rank[h[n].name] + n <= c - 1 /\ rank[h[n].name] \in Int
          BY <3>2, <4>2, <2>0
        <5>4. In(h[n + 1]) => rank[h[n + 1].name] \in Int
          BY <2>0
        <5>. HIDE DEF In
        <5>. QED
          BY <4>1, <5>2, <5>3, <5>4
      <4>3. CASE ~In(h[n])
        <5>1. h[n + 1] = h[n]
          BY <4>1, <4>3 DEF Resolve
        <5>. QED
          BY <4>1, <4>3, <5>1
      <4>. QED
        BY <4>2, <4>3
    <3>. QED
      BY <3>1, <3>2 DEF Inductive
  <2>2. c \in S
    <3>. HIDE DEF S
    <3>. QED
      BY <2>1, UpTo
  <2>3. In(h[c]) => rank[h[c].name] \in Nat
    BY <2>0
  <2>. QED
    BY <2>2, <2>3
<1> QED
  BY <1>2, <1>4, <1>5, <1>6

(* Binding one more register. *)
LEMMA BindFacts ==
    ASSUME NEW m, Knows(m), NEW r, r # NoName, r \notin DOMAIN m, NEW v, IsOperand(v)
    PROVE  /\ Knows(Bind(m, r, v)) /\ DOMAIN Bind(m, r, v) = DOMAIN m \cup {r}
           /\ Bind(m, r, v)[r] = v /\ \A x \in DOMAIN m : Bind(m, r, v)[x] = m[x]
           /\ Cardinality(DOMAIN Bind(m, r, v)) = Cardinality(DOMAIN m) + 1
<1>1. DOMAIN Bind(m, r, v) = DOMAIN m \cup {r}
  BY DEF Bind
<1>2. Bind(m, r, v)[r] = v /\ \A x \in DOMAIN m : Bind(m, r, v)[x] = m[x]
  BY DEF Bind
<1>3. IsFiniteSet(DOMAIN m \cup {r}) /\ Cardinality(DOMAIN m \cup {r}) = Cardinality(DOMAIN m) + 1
  BY FS_AddElement DEF Knows
<1>4. Bind(m, r, v) = [x \in DOMAIN Bind(m, r, v) |-> Bind(m, r, v)[x]]
  BY <1>1 DEF Bind
<1>5. Knows(Bind(m, r, v))
  BY <1>1, <1>2, <1>3, <1>4 DEF Knows
<1> QED
  BY <1>1, <1>2, <1>3, <1>5

(* Binding a new register to a value that ends its chain keeps the table   *)
(* ranked.                                                                 *)
LEMMA BindRanked ==
    ASSUME NEW m, Knows(m), NEW r, r # NoName, r \notin DOMAIN m, NEW v, IsOperand(v),
           NEW rank, Ranked(m, rank),
           v.k = "reg" => v.name \notin DOMAIN m /\ v.name # r
    PROVE  \E new : Ranked(Bind(m, r, v), new)
<1> DEFINE b == Bind(m, r, v)
           new == [x \in DOMAIN b |-> IF x = r THEN 0 ELSE rank[x] + 1]
<1>1. PICK c \in Nat : c = Cardinality(DOMAIN m)
  BY FS_CardinalityType DEF Knows
<1>2. /\ DOMAIN b = DOMAIN m \cup {r} /\ b[r] = v /\ \A x \in DOMAIN m : b[x] = m[x]
      /\ Cardinality(DOMAIN b) = c + 1
  <2>1. DOMAIN b = DOMAIN m \cup {r}
    BY BindFacts
  <2>2. b[r] = v /\ \A x \in DOMAIN m : b[x] = m[x]
    BY DEF Bind
  <2>3. Cardinality(DOMAIN b) = Cardinality(DOMAIN m) + 1
    BY BindFacts
  <2>. HIDE DEF b
  <2>. QED
    BY <1>1, <2>1, <2>2, <2>3
<1>3. rank \in [DOMAIN m -> 0..(c - 1)]
  BY <1>1 DEF Ranked
<1> HIDE DEF b
<1>4. new \in [DOMAIN b -> 0..((c + 1) - 1)]
  BY <1>2, <1>3
<1>5. ASSUME NEW x \in DOMAIN b, b[x].k = "reg", b[x].name \in DOMAIN b
      PROVE  new[b[x].name] < new[x]
  <2>1. x # r
    BY <1>2, <1>5
  <2>2. x \in DOMAIN m /\ b[x] = m[x] /\ new[x] = rank[x] + 1 /\ rank[x] \in Nat
    BY <1>2, <1>3, <2>1
  <2>3. CASE b[x].name = r
    BY <2>2, <2>3, <1>5
  <2>4. CASE b[x].name # r
    <3>1. b[x].name \in DOMAIN m /\ new[b[x].name] = rank[b[x].name] + 1
      BY <1>2, <1>5, <2>4
    <3>2. rank[m[x].name] < rank[x] /\ rank[m[x].name] \in Nat
      BY <1>3, <1>5, <2>2, <3>1 DEF Ranked
    <3>. QED
      BY <2>2, <3>1, <3>2
  <2>. QED
    BY <2>3, <2>4
<1>6. Ranked(b, new)
  <2>. HIDE DEF new
  <2>. QED
    BY <1>2, <1>4, <1>5 DEF Ranked
<1> QED
  BY <1>6 DEF b

-----------------------------------------------------------------------------
(* Every listed instruction is one of the function's and the other way round. *)
LEMMA ListedInstrs ==
    ASSUME NEW f, IsFunction(f)
    PROVE  /\ Len(Listing(f)) \in Nat /\ DOMAIN Listing(f) = 1..Len(Listing(f))
           /\ \A k \in 1..Len(Listing(f)) : IsInstr(Listing(f)[k]) /\ Listing(f)[k] \in Instructions(f)
           /\ \A ins \in Instructions(f) : \E k \in 1..Len(Listing(f)) : Listing(f)[k] = ins
<1>1. PICK start : Flattens(Code(f), Listing(f), start)
  BY ListingFlattens
<1>2. /\ \A i \in 1..Len(f.blocks) : \A j \in 1..Len(f.blocks[i].instrs) :
                /\ start[i] + j \in 1..Len(Listing(f))
                /\ Listing(f)[start[i] + j] = f.blocks[i].instrs[j]
      /\ \A k \in 1..Len(Listing(f)) :
                \E i \in 1..Len(f.blocks) : \E j \in 1..Len(f.blocks[i].instrs) :
                    Listing(f)[k] = f.blocks[i].instrs[j]
      /\ DOMAIN Listing(f) = 1..Len(Listing(f))
  BY <1>1, ListedPlaces
<1>3. ASSUME NEW k \in 1..Len(Listing(f))
      PROVE  IsInstr(Listing(f)[k]) /\ Listing(f)[k] \in Instructions(f)
  <2>1. PICK i \in 1..Len(f.blocks) : \E j \in 1..Len(f.blocks[i].instrs) : Listing(f)[k] = f.blocks[i].instrs[j]
    BY <1>2
  <2>2. PICK j \in 1..Len(f.blocks[i].instrs) : Listing(f)[k] = f.blocks[i].instrs[j]
    BY <2>1
  <2>3. f.blocks[i].instrs[j] \in Instructions(f) /\ IsInstr(f.blocks[i].instrs[j])
    BY FunctionFacts, CodeFacts
  <2>. QED
    BY <2>2, <2>3
<1>4. ASSUME NEW ins \in Instructions(f)
      PROVE  \E k \in 1..Len(Listing(f)) : Listing(f)[k] = ins
  <2>1. PICK i \in 1..Len(f.blocks) : ins \in Range(f.blocks[i].instrs)
    BY FunctionFacts DEF Instructions, Range
  <2>2. PICK j \in 1..Len(f.blocks[i].instrs) : ins = f.blocks[i].instrs[j]
    BY <2>1, FunctionFacts, CodeFacts DEF Range
  <2>. QED
    BY <1>2, <2>2
<1>5. Len(Listing(f)) \in Nat
  BY ListingFlattens
<1> QED
  BY <1>2, <1>3, <1>4, <1>5

(* What the passes hold of a function while they work on it.               *)
Once(f, S) ==
    \A r \in S :
        /\ r # NoName
        /\ \A i, j \in 1..Len(Listing(f)) : Listing(f)[i].dest = r /\ Listing(f)[j].dest = r => i = j

(* What definitionCounts counts once is defined at one position.           *)
LEMMA SingleOnce ==
    ASSUME NEW f, IsFunction(f)
    PROVE  Once(f, SingleDefs(f))
<1>1. SUFFICES ASSUME NEW r \in SingleDefs(f)
               PROVE  /\ r # NoName
                      /\ \A i, j \in 1..Len(Listing(f)) :
                            Listing(f)[i].dest = r /\ Listing(f)[j].dest = r => i = j
  BY DEF Once
<1>2. r # NoName
  BY DEF SingleDefs, Dest
<1>3. DefinitionsOf(f, r) \subseteq 1..Len(Listing(f)) /\ DOMAIN Listing(f) = 1..Len(Listing(f)) /\ Len(Listing(f)) \in Nat
  BY ListedInstrs DEF DefinitionsOf
<1>4. IsFiniteSet(DefinitionsOf(f, r))
  <2>1. IsFiniteSet(1..Len(Listing(f)))
    BY <1>3, FS_Interval
  <2>. QED
    BY <1>3, <2>1, FS_Subset
<1>5. Cardinality(DefinitionsOf(f, r)) = 1
  BY DEF SingleDefs
<1>6. PICK x : DefinitionsOf(f, r) = {x}
  BY <1>4, <1>5, FS_Singleton
<1>7. ASSUME NEW i \in 1..Len(Listing(f)), Listing(f)[i].dest = r PROVE i = x
  BY <1>3, <1>6, <1>7 DEF DefinitionsOf
<1> QED
  BY <1>2, <1>7

(* A function drawn from another defines no register more often.           *)
LEMMA OnceKept ==
    ASSUME NEW f, NEW f2, NEW em, Drawn(Listing(f2), Listing(f), em), NEW S, Once(f, S)
    PROVE  Once(f2, S)
<1>1. PICK a \in Nat, b \in Nat : a = Len(Listing(f2)) /\ b = Len(Listing(f))
  BY DEF Drawn
<1>2. /\ em \in [1..a -> 1..b]
      /\ \A k, l \in 1..a : k < l => em[k] < em[l]
      /\ \A k \in 1..a : Listing(f2)[k].dest = Listing(f)[em[k]].dest
  BY <1>1 DEF Drawn, Increasing
<1>3. ASSUME NEW r \in S, NEW i \in 1..a, NEW j \in 1..a,
             Listing(f2)[i].dest = r, Listing(f2)[j].dest = r
      PROVE  i = j
  <2>1. em[i] = em[j]
    BY <1>1, <1>2, <1>3 DEF Once
  <2>. QED
    BY <1>2, <2>1
<1> QED
  BY <1>1, <1>3 DEF Once

(* A rewriting draws the new listing from the old one. *)
LEMMA RewritesDraws ==
    ASSUME NEW f, NEW f2, NEW m, Rewrites(f2, f, m)
    PROVE  \E em : /\ Within(Listing(f2), Listing(f), em, m)
                   /\ Drawn(Listing(f2), Listing(f), em)
<1>1. PICK em : Within(Listing(f2), Listing(f), em, m)
  BY RewrittenListing
<1>2. Knows(m)
  BY DEF Rewrites
<1>3. \A k \in 1..Len(Listing(f2)) : Listing(f2)[k].dest = Listing(f)[em[k]].dest
  BY <1>1, <1>2, WithinFacts
<1>4. Drawn(Listing(f2), Listing(f), em)
  BY <1>1, <1>3 DEF Drawn, Within
<1> QED
  BY <1>1, <1>4
-----------------------------------------------------------------------------
(* The state the passes are in. *)
TypeOK ==
    /\ IsFunction(fn) /\ Knows(known)
    /\ pass \in {"constfold", "copyprop", "dce", "done"}
    /\ round \in 1..MaxRounds /\ changed \in BOOLEAN
    /\ at \in 1..(Len(Listing(fn)) + 1)
(* What is known was defined before the position the pass is at. *)
KnownBehind ==
    \A r \in DOMAIN known :
        /\ pass \in {"constfold", "copyprop"} /\ r \in single
        /\ \E i \in 1..(at - 1) : Listing(fn)[i].dest = r
ChainsRanked == pass = "copyprop" => \E rank : Ranked(known, rank)
Inv == TypeOK /\ Once(fn, single) /\ KnownBehind /\ ChainsRanked

(* The empty table is a table, is ranked, and is the only empty one.       *)
LEMMA NothingKnown ==
    /\ Knows(<<>>) /\ DOMAIN <<>> = {} /\ \E rank : Ranked(<<>>, rank)
    /\ \A m : Knows(m) /\ DOMAIN m = {} => m = <<>>
<1>1. DOMAIN <<>> = {}
  OBVIOUS
<1>2. <<>> = [r \in {} |-> <<>>[r]]
  OBVIOUS
<1>3. Knows(<<>>)
  BY <1>1, <1>2, FS_EmptySet DEF Knows
<1>4. \E rank : Ranked(<<>>, rank)
  <2>1. <<>> \in [{} -> 0..(Cardinality({}) - 1)]
    BY <1>1, <1>2
  <2>2. Ranked(<<>>, <<>>)
    BY <1>1, <2>1 DEF Ranked
  <2>. QED
    BY <2>2
<1>5. ASSUME NEW m, Knows(m), DOMAIN m = {} PROVE m = <<>>
  <2>1. m = [r \in {} |-> m[r]]
    BY <1>5 DEF Knows
  <2>. QED
    BY <1>1, <1>2, <2>1
<1> QED
  BY <1>1, <1>3, <1>4, <1>5

(* Where a rewriting ends, the pass starts over or another one begins. *)
LEMMA Returns ==
    ASSUME pass \in {"constfold", "copyprop", "dce"}, Return
    PROVE  /\ known' = <<>> /\ at' = 1
           /\ pass = "constfold" => /\ pass' = "copyprop" /\ round' = round /\ changed' = changed
                                   /\ single' = SingleDefs(fn')
           /\ pass = "copyprop" => pass' = "dce" /\ round' = round /\ changed' = changed /\ single' = {}
           /\ pass = "dce" /\ changed /\ round < MaxRounds =>
                /\ pass' = "constfold" /\ round' = round + 1 /\ changed' = FALSE
                /\ single' = SingleDefs(fn')
           /\ pass = "dce" /\ ~(changed /\ round < MaxRounds) =>
                pass' = "done" /\ round' = round /\ changed' = FALSE /\ single' = {}
<1>1. CASE pass = "constfold"
  <2>1. StartPass("copyprop", round, changed)
    BY <1>1 DEF Return
  <2>. QED
    BY <1>1, <2>1 DEF StartPass
<1>2. CASE pass = "copyprop"
  <2>1. StartPass("dce", round, changed)
    BY <1>2 DEF Return
  <2>. QED
    BY <1>2, <2>1 DEF StartPass
<1>3. CASE pass = "dce" /\ changed /\ round < MaxRounds
  <2>1. StartPass("constfold", round + 1, FALSE)
    BY <1>3 DEF Return
  <2>. QED
    BY <1>3, <2>1 DEF StartPass
<1>4. CASE pass = "dce" /\ ~(changed /\ round < MaxRounds)
  <2>1. StartPass("done", round, FALSE)
    BY <1>4 DEF Return
  <2>. QED
    BY <1>4, <2>1 DEF StartPass
<1> QED
  BY <1>1, <1>2, <1>3, <1>4

(* After a rewriting the pass that goes on starts from an empty table and  *)
(* the invariant holds.                                                    *)
LEMMA Resumes ==
    ASSUME TypeOK, pass # "done", IsFunction(fn'), Once(fn', single), Again \/ Return
    PROVE  Inv' /\ known' = <<>> /\ at' = 1
<1>0. /\ pass \in {"constfold", "copyprop", "dce"} /\ round \in 1..MaxRounds /\ changed \in BOOLEAN
      /\ MaxRounds \in Nat
  BY RoundsAssumption DEF TypeOK
<1>1. /\ known' = <<>> /\ at' = 1
      /\ pass' \in {"constfold", "copyprop", "dce", "done"} /\ changed' \in BOOLEAN
      /\ round' \in 1..MaxRounds
      /\ single' = single \/ single' = SingleDefs(fn') \/ single' = {}
  <2>1. CASE Again
    BY <1>0, <2>1 DEF Again
  <2>2. CASE Return
    <3>1. CASE pass = "constfold"
      BY <1>0, <2>2, <3>1, Returns
    <3>2. CASE pass = "copyprop"
      BY <1>0, <2>2, <3>2, Returns
    <3>3. CASE pass = "dce" /\ changed /\ round < MaxRounds
      <4>1. /\ pass' = "constfold" /\ round' = round + 1 /\ changed' = FALSE
            /\ single' = SingleDefs(fn') /\ known' = <<>> /\ at' = 1
        BY <1>0, <2>2, <3>3, Returns
      <4>2. round + 1 \in 1..MaxRounds
        BY <1>0, <3>3
      <4>. QED
        BY <4>1, <4>2
    <3>4. CASE pass = "dce" /\ ~(changed /\ round < MaxRounds)
      BY <1>0, <2>2, <3>4, Returns
    <3>. QED
      BY <1>0, <3>1, <3>2, <3>3, <3>4
  <2>. QED
    BY <2>1, <2>2
<1>2. Len(Listing(fn')) \in Nat
  BY ListedInstrs
<1>5. TypeOK'
  <2>1. Knows(known')
    BY <1>1, NothingKnown
  <2>2. at' \in 1..(Len(Listing(fn')) + 1)
    BY <1>1, <1>2
  <2>. QED
    BY <1>1, <2>1, <2>2 DEF TypeOK
<1>6. Once(fn', single')
  <2>2. Once(fn', {})
    BY DEF Once
  <2>. QED
    BY <1>1, <2>2, SingleOnce
<1>7. KnownBehind' /\ ChainsRanked'
  <2>1. DOMAIN known' = {} /\ \E rank : Ranked(known', rank)
    BY <1>1, NothingKnown
  <2>. QED
    BY <2>1 DEF KnownBehind, ChainsRanked
<1> QED
  BY <1>1, <1>5, <1>6, <1>7 DEF Inv

(* The invariant holds when run() begins.                                  *)
LEMMA InitInv == Init => Inv
<1>. SUFFICES ASSUME Init PROVE Inv
  OBVIOUS
<1>1. IsFunction(fn)
  BY FunctionsAssumption DEF Init
<1>2. Len(Listing(fn)) \in Nat
  BY <1>1, ListedInstrs
<1>3. TypeOK
  <2>1. at \in 1..(Len(Listing(fn)) + 1) /\ round \in 1..MaxRounds
    BY <1>2, RoundsAssumption DEF Init
  <2>2. Knows(known)
    BY NothingKnown DEF Init
  <2>. QED
    BY <1>1, <2>1, <2>2 DEF Init, TypeOK
<1>4. Once(fn, single)
  BY <1>1, SingleOnce DEF Init
<1> QED
  BY <1>3, <1>4, NothingKnown DEF Init, Inv, KnownBehind, ChainsRanked

(* The source of a copy is one of its operands.                            *)
LEMMA CopySourceFacts ==
    ASSUME NEW ins, IsInstr(ins), IsCopy(ins)
    PROVE  IsOperand(CopySource(ins))
<1>1. Len(ins.args) = 2 /\ IsList(ins.args) /\ \A a \in Range(ins.args) : IsOperand(a)
  BY DEF IsInstr, IsCopy
<1>2. 1 \in DOMAIN ins.args /\ 2 \in DOMAIN ins.args
  BY <1>1, ListDomain
<1> QED
  BY <1>1, <1>2 DEF CopySource, Range

(* A step of a walk: the instruction it is at may be bound, and is bound   *)
(* only if what it defines is not known yet.                               *)
LEMMA WalkStep ==
    ASSUME Inv, at # Len(Listing(fn)) + 1
    PROVE  /\ at \in 1..Len(Listing(fn)) /\ Len(Listing(fn)) \in Nat /\ IsInstr(Ins)
           /\ Ins.dest \in single => Ins.dest # NoName /\ Ins.dest \notin DOMAIN known
<1>1. at \in 1..Len(Listing(fn)) /\ Len(Listing(fn)) \in Nat
  BY ListedInstrs DEF Inv, TypeOK
<1>2. IsInstr(Ins)
  BY <1>1, ListedInstrs DEF Inv, TypeOK, Ins
<1>3. ASSUME Ins.dest \in single, Ins.dest \in DOMAIN known PROVE FALSE
  <2>1. PICK i \in 1..(at - 1) : Listing(fn)[i].dest = Ins.dest
    BY <1>3 DEF Inv, KnownBehind
  <2>2. i \in 1..Len(Listing(fn)) /\ i # at
    BY <1>1
  <2>. QED
    BY <1>1, <1>3, <2>1, <2>2 DEF Inv, Once, Ins
<1>4. Ins.dest \in single => Ins.dest # NoName
  BY DEF Inv, Once
<1> QED
  BY <1>1, <1>2, <1>3, <1>4

(* A walk that binds at most the register of its instruction, once, keeps  *)
(* the invariant.                                                          *)
LEMMA WalkInv ==
    ASSUME Inv, at # Len(Listing(fn)) + 1, pass \in {"constfold", "copyprop"},
           UNCHANGED <<fn, pass, round, changed, single>>, at' = at + 1,
           \/ known' = known
           \/ /\ Ins.dest \in single
              /\ \E v : /\ IsOperand(v) /\ known' = Bind(known, Ins.dest, v)
                        /\ pass = "copyprop" /\ v.k = "reg" =>
                             v.name \notin DOMAIN known /\ v.name # Ins.dest
    PROVE  Inv'
<1>1. /\ at \in 1..Len(Listing(fn)) /\ Len(Listing(fn)) \in Nat /\ IsInstr(Ins)
      /\ Ins.dest \in single => Ins.dest # NoName /\ Ins.dest \notin DOMAIN known
  BY WalkStep
<1>2. at' \in 1..(Len(Listing(fn')) + 1)
  BY <1>1
<1>3. Knows(known)
  BY DEF Inv, TypeOK
<1>4. CASE known' = known
  <2>1. TypeOK'
    BY <1>2, <1>4 DEF Inv, TypeOK
  <2>2. KnownBehind'
    <3>. SUFFICES ASSUME NEW r \in DOMAIN known
                  PROVE  /\ pass \in {"constfold", "copyprop"} /\ r \in single
                         /\ \E i \in 1..(at' - 1) : Listing(fn)[i].dest = r
      BY <1>4 DEF KnownBehind
    <3>1. PICK i \in 1..(at - 1) : Listing(fn)[i].dest = r
      BY DEF Inv, KnownBehind
    <3>2. i \in 1..(at' - 1)
      BY <1>1
    <3>. QED
      BY <3>1, <3>2 DEF Inv, KnownBehind
  <2>3. ChainsRanked' /\ Once(fn', single')
    BY <1>4 DEF Inv, ChainsRanked
  <2>. QED
    BY <2>1, <2>2, <2>3 DEF Inv
<1>5. CASE known' # known
  <2>1. Ins.dest \in single
    BY <1>5
  <2>2. PICK v : /\ IsOperand(v) /\ known' = Bind(known, Ins.dest, v)
                 /\ pass = "copyprop" /\ v.k = "reg" =>
                       v.name \notin DOMAIN known /\ v.name # Ins.dest
    BY <1>5
  <2>3. /\ Knows(known') /\ DOMAIN known' = DOMAIN known \cup {Ins.dest}
    <3>1. PICK r : r = Ins.dest /\ r # NoName /\ r \notin DOMAIN known
      BY <1>1, <2>1
    <3>2. Knows(Bind(known, r, v)) /\ DOMAIN Bind(known, r, v) = DOMAIN known \cup {r}
      <4>1. IsOperand(v)
        BY <2>2
      <4>2. Knows(Bind(known, r, v))
        BY <1>3, <3>1, <4>1, BindFacts
      <4>. QED
        BY <4>2 DEF Bind
    <3>. QED
      BY <2>2, <3>1, <3>2
  <2>4. TypeOK'
    BY <1>2, <2>3 DEF Inv, TypeOK
  <2>5. KnownBehind'
    <3>. SUFFICES ASSUME NEW r \in DOMAIN known'
                  PROVE  r \in single /\ \E i \in 1..(at' - 1) : Listing(fn)[i].dest = r
      BY DEF KnownBehind
    <3>1. CASE r = Ins.dest
      <4>1. at \in 1..(at' - 1) /\ Listing(fn)[at].dest = r
        BY <1>1, <3>1 DEF Ins
      <4>. QED
        BY <2>1, <3>1, <4>1
    <3>2. CASE r \in DOMAIN known
      <4>1. PICK i \in 1..(at - 1) : Listing(fn)[i].dest = r
        BY <3>2 DEF Inv, KnownBehind
      <4>2. i \in 1..(at' - 1)
        BY <1>1
      <4>. QED
        BY <3>2, <4>1, <4>2 DEF Inv, KnownBehind
    <3>. QED
      BY <2>3, <3>1, <3>2
  <2>6. ASSUME pass = "copyprop" PROVE \E rank : Ranked(known', rank)
    <3>1. PICK rank : Ranked(known, rank)
      BY <2>6 DEF Inv, ChainsRanked
    <3>2. PICK r : r = Ins.dest
      OBVIOUS
    <3>3. /\ r # NoName /\ r \notin DOMAIN known
          /\ v.k = "reg" => v.name \notin DOMAIN known /\ v.name # r
      BY <1>1, <2>1, <2>2, <2>6, <3>2
    <3>4. \E new : Ranked(Bind(known, r, v), new)
      BY <1>3, <2>2, <3>1, <3>3, BindRanked
    <3>. QED
      BY <2>2, <3>2, <3>4
  <2>7. ChainsRanked' /\ Once(fn', single')
    BY <2>6 DEF Inv, ChainsRanked
  <2>. QED
    BY <2>4, <2>5, <2>7 DEF Inv
<1> QED
  BY <1>4, <1>5

(* The walk of constant folding keeps the invariant.                       *)
LEMMA FoldInstrInv == Inv /\ FoldInstr => Inv'
<1>. SUFFICES ASSUME Inv, FoldInstr PROVE Inv'
  OBVIOUS
<1>1. /\ pass = "constfold" /\ at # Len(Listing(fn)) + 1 /\ at' = at + 1
      /\ UNCHANGED <<fn, pass, round, changed, single>>
  BY DEF FoldInstr, Analysed
<1> DEFINE probe == Substitute(Ins, known)
<1>2. \/ known' = known
      \/ Ins.dest \in single /\ known' = Bind(known, Ins.dest, Folded(probe))
  BY DEF FoldInstr
<1>3. IsOperand(Folded(probe))
  BY DEF Folded, ConstInt, IsOperand
<1> HIDE DEF probe
<1> QED
  BY <1>1, <1>2, <1>3, WalkInv

(* The walk of copy propagation keeps the invariant.                       *)
LEMMA CopyInstrInv == Inv /\ CopyInstr => Inv'
<1>. SUFFICES ASSUME Inv, CopyInstr PROVE Inv'
  OBVIOUS
<1>1. /\ pass = "copyprop" /\ at # Len(Listing(fn)) + 1 /\ at' = at + 1
      /\ UNCHANGED <<fn, pass, round, changed, single>>
  BY DEF CopyInstr, Analysed
<1> DEFINE v == Chase(CopySource(Ins), known)
<1>2. \/ known' = known
      \/ /\ Ins.dest \in single /\ known' = Bind(known, Ins.dest, v)
         /\ IsCopy(Ins) /\ NamesAnother(Ins, v)
  BY DEF CopyInstr
<1>3. CASE known' = known
  BY <1>1, <1>3, WalkInv
<1>4. CASE /\ Ins.dest \in single /\ known' = Bind(known, Ins.dest, v)
           /\ IsCopy(Ins) /\ NamesAnother(Ins, v)
  <2>1. IsOperand(CopySource(Ins)) /\ Knows(known)
    BY <1>1, <1>4, WalkStep, CopySourceFacts DEF Inv, TypeOK
  <2>2. PICK rank : Ranked(known, rank)
    BY <1>1 DEF Inv, ChainsRanked
  <2>3. IsOperand(v) /\ ~(v.k = "reg" /\ v.name \in DOMAIN known)
    BY <2>1, <2>2, ChaseEnds
  <2>4. v.k = "reg" => v.name # Ins.dest
    BY <1>4 DEF NamesAnother
  <2>. HIDE DEF v
  <2>. QED
    BY <1>1, <1>4, <2>3, <2>4, WalkInv
<1> QED
  BY <1>2, <1>3, <1>4

(* What the three rewritings do to the function.                           *)
LEMMA FoldRewriteSteps ==
    ASSUME Inv, FoldRewrite
    PROVE  /\ pass = "constfold" /\ at = Len(Listing(fn)) + 1
           /\ fn' = FoldedAll(fn, known) /\ Rewrites(fn', fn, known)
           /\ IsFunction(fn') /\ Once(fn', single)
           /\ IF known # <<>> \/ fn' # fn THEN Again ELSE Return
<1>1. fn' = FoldedAll(fn, known)
  BY DEF FoldRewrite, FoldedAll
<1>2. Rewrites(fn', fn, known)
  BY <1>1, FoldedAllRewrites DEF Inv, TypeOK
<1>3. Once(fn', single)
  BY <1>2, RewritesDraws, OnceKept DEF Inv
<1> QED
  BY <1>1, <1>2, <1>3 DEF FoldRewrite, Analysed, Rewrites

(* The rewriting of copy propagation, by its table.                        *)
LEMMA CopyRewriteSteps ==
    ASSUME Inv, CopyRewrite
    PROVE  /\ pass = "copyprop" /\ at = Len(Listing(fn)) + 1
           /\ fn' = Propagated(fn, known) /\ Rewrites(fn', fn, known)
           /\ IsFunction(fn') /\ Once(fn', single)
           /\ IF known # <<>> THEN Again ELSE Return
<1>1. fn' = Propagated(fn, known)
  BY DEF CopyRewrite, Propagated
<1>2. Rewrites(fn', fn, known)
  BY <1>1, PropagatedRewrites DEF Inv, TypeOK
<1>3. Once(fn', single)
  BY <1>2, RewritesDraws, OnceKept DEF Inv
<1> QED
  BY <1>1, <1>2, <1>3 DEF CopyRewrite, Analysed, Rewrites

(* A turn of dead-code elimination.                                        *)
LEMMA EliminateSteps ==
    ASSUME Inv, Eliminate
    PROVE  /\ pass = "dce" /\ fn' = Swept(fn)
           /\ IsFunction(fn') /\ Once(fn', single)
           /\ IF fn' # fn THEN Again ELSE Return
<1>1. fn' = Swept(fn)
  BY DEF Eliminate, Swept
<1>2. IsFunction(fn') /\ \E em : Drawn(Listing(fn'), Listing(fn), em)
  BY <1>1, SweptFacts, SweptLeaves DEF Inv, TypeOK, Leaves
<1>3. Once(fn', single)
  BY <1>2, OnceKept DEF Inv
<1> QED
  BY <1>1, <1>2, <1>3 DEF Eliminate

(* Every step keeps the invariant.                                         *)
LEMMA InvStep == Inv /\ [Next]_vars => Inv'
<1>. SUFFICES ASSUME Inv, [Next]_vars PROVE Inv'
  OBVIOUS
<1>1. CASE FoldInstr
  BY <1>1, FoldInstrInv
<1>2. CASE CopyInstr
  BY <1>2, CopyInstrInv
<1>3. CASE FoldRewrite
  <2>1. pass # "done" /\ IsFunction(fn') /\ Once(fn', single) /\ (Again \/ Return)
    BY <1>3, FoldRewriteSteps
  <2>. QED
    BY <2>1, Resumes DEF Inv
<1>4. CASE CopyRewrite
  <2>1. pass # "done" /\ IsFunction(fn') /\ Once(fn', single) /\ (Again \/ Return)
    BY <1>4, CopyRewriteSteps
  <2>. QED
    BY <2>1, Resumes DEF Inv
<1>5. CASE Eliminate
  <2>1. pass # "done" /\ IsFunction(fn') /\ Once(fn', single) /\ (Again \/ Return)
    BY <1>5, EliminateSteps
  <2>. QED
    BY <2>1, Resumes DEF Inv
<1>6. CASE UNCHANGED vars
  BY <1>6 DEF vars, Inv, TypeOK, KnownBehind, ChainsRanked
<1> QED
  BY <1>1, <1>2, <1>3, <1>4, <1>5, <1>6 DEF Next

(* The state keeps its types: the function its lists, operands and         *)
(* targets, the table its registers and values.                            *)
THEOREM TypeCorrect == Spec => []TypeOK
<1>1. Inv => TypeOK
  BY DEF Inv
<1> QED
  BY <1>1, InitInv, InvStep, PTL DEF Spec

(* No chain of aliases of CopyPropagation.cpp:82 comes back to itself.     *)
LEMMA InvChains == Inv => AliasChainsEnd
<1>. SUFFICES ASSUME Inv, pass = "copyprop", NEW r \in DOMAIN known
              PROVE  LET end == Chase(known[r], known)
                     IN end.k = "reg" => end.name \notin DOMAIN known
  BY DEF AliasChainsEnd
<1>1. PICK rank : Ranked(known, rank)
  BY DEF Inv, ChainsRanked
<1>2. Knows(known) /\ IsOperand(known[r])
  BY DEF Inv, TypeOK, Knows
<1> QED
  BY <1>1, <1>2, ChaseEnds

(* The while of copy propagation ends: at every moment every chain of      *)
(* aliases ends in a value that is not an alias (CopyPropagation.cpp:82).  *)
THEOREM ChainsEnd == Spec => []AliasChainsEnd
BY InitInv, InvStep, InvChains, PTL DEF Spec

-----------------------------------------------------------------------------
(* Folding branches alone leaves every instruction in its place. *)
LEMMA FoldedLayout ==
    ASSUME NEW f, IsFunction(f), NEW f2, f2 = FoldedAll(f, <<>>), f2 # f
    PROVE  /\ Size(f2) = Size(f)
           /\ CondBranches(f2) \subseteq CondBranches(f) /\ CondBranches(f2) # CondBranches(f)
<1> DEFINE m == <<>>
           n == Len(f.blocks)
<1>1. Knows(m) /\ DOMAIN m = {}
  BY NothingKnown
<1>2. /\ IsFunction(f2) /\ Len(f2.blocks) = n
      /\ \A i \in 1..n : f2.blocks[i].instrs = FoldBranch(f.blocks[i].instrs)
  BY <1>1, FoldedAllRewrites DEF Rewrites
<1>3. PICK b \in 1..n : FoldBranch(f.blocks[b].instrs) # f.blocks[b].instrs
  BY <1>1, FoldedAllRewrites
<1> HIDE DEF m
<1>4. ASSUME NEW i \in 1..n
      PROVE  LET c == f.blocks[i].instrs
             IN  /\ Len(c) \in Nat /\ DOMAIN c = 1..Len(c) /\ Len(FoldBranch(c)) = Len(c)
                 /\ c = [j \in 1..Len(c) |-> c[j]]
                 /\ FoldBranch(c) = [j \in 1..Len(c) |-> FoldBranch(c)[j]]
                 /\ \A j \in 1..Len(c) :
                       \/ FoldBranch(c)[j] = c[j]
                       \/ BranchFolds(c[j]) /\ FoldBranch(c)[j].op = "br"
  <2> DEFINE c == f.blocks[i].instrs
  <2>1. IsCode(c)
    BY FunctionFacts
  <2>2. Len(c) \in Nat /\ DOMAIN c = 1..Len(c) /\ c = [j \in 1..Len(c) |-> c[j]]
    BY <2>1, CodeFacts
  <2>3. /\ Len(FoldBranch(c)) = Len(c) /\ FoldBranch(c) = [j \in 1..Len(c) |-> FoldBranch(c)[j]]
        /\ \A j \in 1..Len(c) :
             \/ FoldBranch(c)[j] = c[j]
             \/ BranchFolds(c[j]) /\ FoldBranch(c)[j] = Br(TakenLabel(c[j]))
    <3>. HIDE DEF c
    <3>. QED
      BY <2>2, FoldBranchFacts
  <2>. QED
    BY <2>2, <2>3, BrFacts
<1>11. ASSUME NEW i \in 1..n, NEW j \in 1..Len(f.blocks[i].instrs)
       PROVE  \/ FoldBranch(f.blocks[i].instrs)[j] = f.blocks[i].instrs[j]
              \/ f.blocks[i].instrs[j].op = "br.cond" /\ FoldBranch(f.blocks[i].instrs)[j].op = "br"
  BY <1>4 DEF BranchFolds
<1>5. PICK start : Flattens(Code(f), Listing(f), start)
  BY ListingFlattens
<1>6. Flattens(Code(f2), Listing(f2), start)
  <2>1. /\ AreLists(Code(f)) /\ Len(Code(f)) = n /\ \A i \in 1..n : Code(f)[i] = f.blocks[i].instrs
    BY ListingFlattens
  <2>2. /\ AreLists(Code(f2)) /\ Len(Code(f2)) = n /\ \A i \in 1..n : Code(f2)[i] = f2.blocks[i].instrs
    BY <1>2, ListingFlattens
  <2>3. Starts(Code(f), start)
    BY <1>5 DEF Flattens
  <2>4. \A i \in 1..n : Len(Code(f2)[i]) = Len(Code(f)[i])
    BY <1>2, <1>4, <2>1, <2>2, ZenonT(30)
  <2>5. Flattens(Code(f2), FlattenSeq(Code(f2)), start)
    <3>. HIDE DEF n
    <3>. QED
      BY <2>1, <2>2, <2>3, <2>4, LaidOutAlike
  <2>. QED
    BY <2>5 DEF Listing, Code
<1>7. PICK l \in Nat : /\ l = Len(Listing(f)) /\ l = Len(Listing(f2))
                       /\ DOMAIN Listing(f) = 1..l /\ DOMAIN Listing(f2) = 1..l
  <2>1. Len(Code(f)) = n /\ Len(Code(f2)) = n
    BY <1>2, ListingFlattens
  <2>2. Len(Listing(f)) = start[n + 1] /\ Len(Listing(f2)) = start[n + 1]
    BY <1>5, <1>6, <2>1 DEF Flattens, LaidOut
  <2>. QED
    BY <1>2, <2>2, ListedInstrs
<1>8. ASSUME NEW i \in 1..n, NEW j \in 1..Len(f.blocks[i].instrs)
      PROVE  /\ start[i] + j \in 1..l
             /\ Listing(f)[start[i] + j] = f.blocks[i].instrs[j]
             /\ Listing(f2)[start[i] + j] = FoldBranch(f.blocks[i].instrs)[j]
  <2>1. j \in 1..Len(f2.blocks[i].instrs)
    BY <1>2, <1>4
  <2>2. start[i] + j \in 1..l /\ Listing(f)[start[i] + j] = f.blocks[i].instrs[j]
    BY <1>5, <1>7, ListedPlaces
  <2>3. Listing(f2)[start[i] + j] = f2.blocks[i].instrs[j]
    BY <1>2, <1>6, <2>1, ListedPlaces
  <2>. QED
    BY <1>2, <2>2, <2>3
<1>9. CondBranches(f2) \subseteq CondBranches(f)
  <2>. SUFFICES ASSUME NEW k \in 1..l, Listing(f2)[k].op = "br.cond" PROVE Listing(f)[k].op = "br.cond"
    BY <1>7 DEF CondBranches
  <2>1. PICK i \in 1..n : \E j \in 1..Len(f.blocks[i].instrs) : k = start[i] + j
    BY <1>5, <1>7, ListedPlaces
  <2>2. PICK j \in 1..Len(f.blocks[i].instrs) : k = start[i] + j
    BY <2>1
  <2>. QED
    <3>1. Listing(f)[k] = f.blocks[i].instrs[j] /\ Listing(f2)[k] = FoldBranch(f.blocks[i].instrs)[j]
      BY <1>8, <2>2
    <3>. QED
      BY <1>11, <3>1
<1>10. CondBranches(f2) # CondBranches(f)
  <2>1. PICK j \in 1..Len(f.blocks[b].instrs) : FoldBranch(f.blocks[b].instrs)[j] # f.blocks[b].instrs[j]
    <3>1. PICK c, d : c = f.blocks[b].instrs /\ d = FoldBranch(c)
      OBVIOUS
    <3>2. c = [j \in 1..Len(c) |-> c[j]] /\ d = [j \in 1..Len(c) |-> d[j]] /\ c # d
      BY <1>3, <1>4, <3>1
    <3>3. \E j \in 1..Len(c) : d[j] # c[j]
      BY <3>2
    <3>. QED
      BY <3>1, <3>3
  <2>2. PICK k \in 1..l : k = start[b] + j
    BY <1>8
  <2>3. Listing(f)[k].op = "br.cond" /\ Listing(f2)[k].op = "br"
    <3>1. Listing(f)[k] = f.blocks[b].instrs[j] /\ Listing(f2)[k] = FoldBranch(f.blocks[b].instrs)[j]
      BY <1>8, <2>2
    <3>. QED
      BY <1>11, <2>1, <3>1
  <2>. QED
    BY <1>7, <2>3 DEF CondBranches
<1> QED
  BY <1>2, <1>7, <1>9, <1>10 DEF Size

(* Dropping what is known leaves fewer instructions. *)
LEMMA KnownShrinks ==
    ASSUME Inv, known # <<>>, NEW f2, Rewrites(f2, fn, known)
    PROVE  Size(f2) < Size(fn)
<1>1. PICK em : Within(Listing(f2), Listing(fn), em, known)
  BY RewritesDraws
<1>2. Knows(known) /\ IsFunction(fn) /\ IsFunction(f2) /\ Len(f2.blocks) = Len(fn.blocks)
  BY DEF Rewrites
<1>3. PICK r \in DOMAIN known : TRUE
  BY <1>2, NothingKnown
<1>4. PICK p \in 1..(at - 1) : Listing(fn)[p].dest = r
  BY DEF Inv, KnownBehind
<1>5. p \in 1..Len(Listing(fn))
  BY ListedInstrs DEF Inv, TypeOK
<1>6. Len(Listing(f2)) < Len(Listing(fn))
  BY <1>1, <1>2, <1>3, <1>4, <1>5, WithinFacts
<1>7. Len(Listing(f2)) \in Nat /\ Len(Listing(fn)) \in Nat /\ Len(fn.blocks) \in Nat
  BY <1>2, ListedInstrs, FunctionFacts
<1> QED
  BY <1>2, <1>6, <1>7 DEF Size

(* Every step that changes the function shrinks it.                        *)
LEMMA StepShrinks ==
    ASSUME Inv, Next, fn' # fn
    PROVE  \/ Size(fn') < Size(fn)
           \/ /\ Size(fn') = Size(fn)
              /\ CondBranches(fn') \subseteq CondBranches(fn)
              /\ CondBranches(fn') # CondBranches(fn)
<1>1. CASE FoldInstr \/ CopyInstr
  BY <1>1 DEF FoldInstr, CopyInstr
<1>2. CASE FoldRewrite
  <2>1. CASE known # <<>>
    BY <1>2, <2>1, FoldRewriteSteps, KnownShrinks
  <2>2. CASE known = <<>>
    <3>1. fn' = FoldedAll(fn, <<>>) /\ IsFunction(fn)
      BY <1>2, <2>2, FoldRewriteSteps DEF Inv, TypeOK
    <3>. QED
      BY <3>1, FoldedLayout
  <2>. QED
    BY <2>1, <2>2
<1>3. CASE CopyRewrite
  <2>1. CASE known # <<>>
    BY <1>3, <2>1, CopyRewriteSteps, KnownShrinks
  <2>2. CASE known = <<>>
    <3>1. fn' = Propagated(fn, known) /\ IsFunction(fn) /\ Knows(known) /\ DOMAIN known = {}
      BY <1>3, <2>2, CopyRewriteSteps, NothingKnown DEF Inv, TypeOK
    <3>. QED
      BY <3>1, PropagatedRewrites
  <2>. QED
    BY <2>1, <2>2
<1>4. CASE Eliminate
  BY <1>4, EliminateSteps, SweptFacts DEF Inv, TypeOK
<1> QED
  BY <1>1, <1>2, <1>3, <1>4 DEF Next

(* Every pass is monotone (Pass.h:48): a change leaves fewer blocks and    *)
(* instructions, or as many and fewer conditional branches.                *)
THEOREM ChangesShrink == Spec => EveryChangeShrinks
<1>1. Inv /\ [Next]_vars =>
        [fn' # fn => \/ Size(fn') < Size(fn)
                     \/ /\ Size(fn') = Size(fn)
                        /\ CondBranches(fn') \subseteq CondBranches(fn)
                        /\ CondBranches(fn') # CondBranches(fn)]_vars
  BY StepShrinks
<1> QED
  BY <1>1, InitInv, InvStep, PTL DEF Spec, EveryChangeShrinks

-----------------------------------------------------------------------------
(* What a round in which nothing has changed so far shows of the function. *)
FoldsNothing(f) ==
    \A k \in 1..Len(Listing(f)) : Listing(f)[k].dest \in SingleDefs(f) => ~Folds(Listing(f)[k])
BranchesFolded(f) ==
    \A i \in 1..Len(f.blocks) : FoldBranch(f.blocks[i].instrs) = f.blocks[i].instrs
CopiesAnother(ins) == IsCopy(ins) /\ NamesAnother(ins, CopySource(ins))
CopiesNothing(f) ==
    \A k \in 1..Len(Listing(f)) : Listing(f)[k].dest \in SingleDefs(f) => ~CopiesAnother(Listing(f)[k])
NothingDead(f) == \A ins \in Instructions(f) : ~Dead(f, ins)

WalkQuiet ==
    ~changed /\ pass \in {"constfold", "copyprop"} =>
        /\ single = SingleDefs(fn)
        /\ known = <<>> =>
             \A k \in 1..(at - 1) : Listing(fn)[k].dest \in single =>
                 /\ pass = "constfold" => ~Folds(Listing(fn)[k])
                 /\ pass = "copyprop" => ~CopiesAnother(Listing(fn)[k])
PassesQuiet ==
    /\ ~changed /\ pass \in {"copyprop", "dce"} => FoldsNothing(fn) /\ BranchesFolded(fn)
    /\ ~changed /\ pass = "dce" => CopiesNothing(fn)
    /\ pass = "done" /\ round < MaxRounds =>
         /\ FoldsNothing(fn) /\ BranchesFolded(fn) /\ CopiesNothing(fn)
         /\ AllReachable(fn) /\ NothingDead(fn)
Quiet == WalkQuiet /\ PassesQuiet

(* Nothing is claimed of the function when run() begins.                   *)
LEMMA InitQuiet == Init => Quiet
BY DEF Init, Quiet, WalkQuiet, PassesQuiet

(* A change in a pass says nothing until the next round. *)
LEMMA AgainQuiet == ASSUME pass # "done", Again PROVE Quiet'
BY DEF Again, Quiet, WalkQuiet, PassesQuiet

(* A table with a binding is not empty.                                    *)
LEMMA BoundIsKnown == ASSUME NEW m, NEW r, NEW v PROVE Bind(m, r, v) # <<>>
<1>1. r \in DOMAIN Bind(m, r, v)
  BY DEF Bind
<1>2. DOMAIN <<>> = {}
  OBVIOUS
<1> QED
  BY <1>1, <1>2

(* A walk of constant folding that has bound nothing has seen nothing to   *)
(* fold.                                                                   *)
LEMMA FoldInstrQuiet == ASSUME Inv, Quiet, FoldInstr PROVE Quiet'
<1>1. /\ pass = "constfold" /\ at # Len(Listing(fn)) + 1 /\ at' = at + 1
      /\ UNCHANGED <<fn, pass, round, changed, single>>
  BY DEF FoldInstr, Analysed
<1>2. at \in 1..Len(Listing(fn)) /\ IsInstr(Ins) /\ Knows(known)
  BY <1>1, WalkStep DEF Inv, TypeOK
<1>3. ASSUME known' = <<>>
      PROVE  known = <<>> /\ (Ins.dest \in single => ~Folds(Ins))
  <2>1. known' = known /\ ~(Ins.dest \in single /\ Folds(Substitute(Ins, known)))
    BY <1>3, BoundIsKnown DEF FoldInstr
  <2>2. known = <<>> /\ DOMAIN known = {}
    BY <1>3, <2>1
  <2>3. Substitute(Ins, known) = Ins
    BY <1>2, <2>2, SubstituteKeeps
  <2>. QED
    BY <2>1, <2>2, <2>3
<1>4. WalkQuiet'
  <2>. SUFFICES ASSUME ~changed
                PROVE  /\ single = SingleDefs(fn)
                       /\ known' = <<>> => \A k \in 1..(at' - 1) :
                              Listing(fn)[k].dest \in single => ~Folds(Listing(fn)[k])
    BY <1>1 DEF WalkQuiet
  <2>1. single = SingleDefs(fn)
    BY <1>1 DEF Quiet, WalkQuiet
  <2>2. ASSUME known' = <<>>, NEW k \in 1..(at' - 1), Listing(fn)[k].dest \in single
        PROVE  ~Folds(Listing(fn)[k])
    <3>1. CASE k = at
      BY <1>3, <2>2, <3>1 DEF Ins
    <3>2. CASE k # at
      <4>1. k \in 1..(at - 1)
        BY <1>1, <1>2, <3>2
      <4>. QED
        BY <1>1, <1>3, <2>2, <4>1 DEF Quiet, WalkQuiet
    <3>. QED
      BY <3>1, <3>2
  <2>. QED
    BY <2>1, <2>2
<1>5. PassesQuiet'
  BY <1>1 DEF PassesQuiet
<1> QED
  BY <1>4, <1>5 DEF Quiet

(* A walk of copy propagation that has bound nothing has seen no copy.     *)
LEMMA CopyInstrQuiet == ASSUME Inv, Quiet, CopyInstr PROVE Quiet'
<1>1. /\ pass = "copyprop" /\ at # Len(Listing(fn)) + 1 /\ at' = at + 1
      /\ UNCHANGED <<fn, pass, round, changed, single>>
  BY DEF CopyInstr, Analysed
<1>2. at \in 1..Len(Listing(fn)) /\ IsInstr(Ins) /\ Knows(known)
  BY <1>1, WalkStep DEF Inv, TypeOK
<1>3. ASSUME known' = <<>>
      PROVE  known = <<>> /\ (Ins.dest \in single => ~CopiesAnother(Ins))
  <2>1. known' = known /\ ~(/\ Ins.dest \in single /\ IsCopy(Ins)
                            /\ NamesAnother(Ins, Chase(CopySource(Ins), known)))
    BY <1>3, BoundIsKnown DEF CopyInstr
  <2>2. known = <<>> /\ DOMAIN known = {}
    BY <1>3, <2>1
  <2>3. IsCopy(Ins) => Chase(CopySource(Ins), known) = CopySource(Ins)
    <3>. SUFFICES ASSUME IsCopy(Ins) PROVE Chase(CopySource(Ins), known) = CopySource(Ins)
      OBVIOUS
    <3>1. IsOperand(CopySource(Ins))
      BY <1>2, CopySourceFacts
    <3>. QED
      BY <1>2, <2>2, <3>1, ChaseEnds
  <2>. QED
    BY <2>1, <2>2, <2>3 DEF CopiesAnother
<1>4. WalkQuiet'
  <2>. SUFFICES ASSUME ~changed
                PROVE  /\ single = SingleDefs(fn)
                       /\ known' = <<>> => \A k \in 1..(at' - 1) :
                              Listing(fn)[k].dest \in single => ~CopiesAnother(Listing(fn)[k])
    BY <1>1 DEF WalkQuiet
  <2>1. single = SingleDefs(fn)
    BY <1>1 DEF Quiet, WalkQuiet
  <2>2. ASSUME known' = <<>>, NEW k \in 1..(at' - 1), Listing(fn)[k].dest \in single
        PROVE  ~CopiesAnother(Listing(fn)[k])
    <3>1. CASE k = at
      BY <1>3, <2>2, <3>1 DEF Ins
    <3>2. CASE k # at
      <4>1. k \in 1..(at - 1)
        BY <1>1, <1>2, <3>2
      <4>. QED
        BY <1>1, <1>3, <2>2, <4>1 DEF Quiet, WalkQuiet
    <3>. QED
      BY <3>1, <3>2
  <2>. QED
    BY <2>1, <2>2
<1>5. PassesQuiet'
  BY <1>1 DEF Quiet, PassesQuiet
<1> QED
  BY <1>4, <1>5 DEF Quiet

(* The rewriting of constant folding changes something or leaves nothing   *)
(* to fold.                                                                *)
LEMMA FoldRewriteQuiet == ASSUME Inv, Quiet, FoldRewrite PROVE Quiet'
<1>1. /\ pass = "constfold" /\ at = Len(Listing(fn)) + 1
      /\ fn' = FoldedAll(fn, known)
      /\ IF known # <<>> \/ fn' # fn THEN Again ELSE Return
  BY FoldRewriteSteps
<1>2. CASE known # <<>> \/ fn' # fn
  BY <1>1, <1>2, AgainQuiet
<1>3. CASE known = <<>> /\ fn' = fn
  <2>1. /\ pass' = "copyprop" /\ round' = round /\ changed' = changed /\ single' = SingleDefs(fn')
        /\ known' = <<>> /\ at' = 1
    BY <1>1, <1>3, Returns
  <2>2. BranchesFolded(fn)
    <3>1. IsFunction(fn) /\ Knows(known) /\ DOMAIN known = {}
      BY <1>3, NothingKnown DEF Inv, TypeOK
    <3>. QED
      BY <1>1, <1>3, <3>1, FoldedAllRewrites DEF BranchesFolded
  <2>3. ~changed => FoldsNothing(fn)
    <3>1. at - 1 = Len(Listing(fn))
      BY <1>1, ListedInstrs DEF Inv, TypeOK
    <3>. QED
      BY <1>1, <1>3, <3>1 DEF Quiet, WalkQuiet, FoldsNothing
  <2>4. WalkQuiet'
    BY <2>1 DEF WalkQuiet
  <2>5. PassesQuiet'
    BY <1>3, <2>1, <2>2, <2>3 DEF PassesQuiet
  <2>. QED
    BY <2>4, <2>5 DEF Quiet
<1> QED
  BY <1>2, <1>3

(* The rewriting of copy propagation changes something or leaves no copy.  *)
LEMMA CopyRewriteQuiet == ASSUME Inv, Quiet, CopyRewrite PROVE Quiet'
<1>1. /\ pass = "copyprop" /\ at = Len(Listing(fn)) + 1
      /\ fn' = Propagated(fn, known)
      /\ IF known # <<>> THEN Again ELSE Return
  BY CopyRewriteSteps
<1>2. CASE known # <<>>
  BY <1>1, <1>2, AgainQuiet
<1>3. CASE known = <<>>
  <2>1. pass' = "dce" /\ round' = round /\ changed' = changed
    BY <1>1, <1>3, Returns
  <2>2. fn' = fn
    <3>1. IsFunction(fn) /\ Knows(known) /\ DOMAIN known = {}
      BY <1>3, NothingKnown DEF Inv, TypeOK
    <3>. QED
      BY <1>1, <3>1, PropagatedRewrites
  <2>3. ~changed => CopiesNothing(fn)
    <3>1. at - 1 = Len(Listing(fn))
      BY <1>1, ListedInstrs DEF Inv, TypeOK
    <3>. QED
      BY <1>1, <1>3, <3>1 DEF Quiet, WalkQuiet, CopiesNothing
  <2>4. ~changed => FoldsNothing(fn) /\ BranchesFolded(fn)
    BY <1>1 DEF Quiet, PassesQuiet
  <2>5. WalkQuiet'
    BY <2>1 DEF WalkQuiet
  <2>6. PassesQuiet'
    BY <2>1, <2>2, <2>3, <2>4 DEF PassesQuiet
  <2>. QED
    BY <2>5, <2>6 DEF Quiet
<1> QED
  BY <1>2, <1>3

(* A turn of dead-code elimination changes something or leaves nothing     *)
(* dead.                                                                   *)
LEMMA EliminateQuiet == ASSUME Inv, Quiet, Eliminate PROVE Quiet'
<1>1. pass = "dce" /\ fn' = Swept(fn) /\ IF fn' # fn THEN Again ELSE Return
  BY EliminateSteps
<1>2. CASE fn' # fn
  BY <1>1, <1>2, AgainQuiet
<1>3. CASE fn' = fn /\ changed /\ round < MaxRounds
  <2>1. /\ pass' = "constfold" /\ changed' = FALSE /\ single' = SingleDefs(fn')
        /\ known' = <<>> /\ at' = 1
    BY <1>1, <1>3, Returns
  <2>. QED
    BY <2>1 DEF Quiet, WalkQuiet, PassesQuiet
<1>4. CASE fn' = fn /\ ~(changed /\ round < MaxRounds)
  <2>1. pass' = "done" /\ round' = round
    BY <1>1, <1>4, Returns
  <2>2. round < MaxRounds => FoldsNothing(fn) /\ BranchesFolded(fn) /\ CopiesNothing(fn)
    BY <1>1, <1>4 DEF Quiet, PassesQuiet
  <2>3. AllReachable(fn) /\ NothingDead(fn)
    BY <1>1, <1>4, SweptClean DEF Inv, TypeOK, NothingDead
  <2>. QED
    BY <1>4, <2>1, <2>2, <2>3 DEF Quiet, WalkQuiet, PassesQuiet
<1> QED
  BY <1>2, <1>3, <1>4, <1>1

(* Every step keeps what is claimed of an unchanged round.                 *)
LEMMA QuietStep == Inv /\ Quiet /\ [Next]_vars => Quiet'
<1>1. ASSUME UNCHANGED vars, Quiet PROVE Quiet'
  BY <1>1 DEF vars, Quiet, WalkQuiet, PassesQuiet
<1> QED
  BY <1>1, FoldInstrQuiet, CopyInstrQuiet, FoldRewriteQuiet, CopyRewriteQuiet, EliminateQuiet DEF Next

(* A branch that folds is the last of its block, and there it is folded.   *)
LEMMA NoBranchLeft ==
    ASSUME NEW f, IsFunction(f), CheckCfg(f) = {}, BranchesFolded(f), NEW ins \in Instructions(f)
    PROVE  ~BranchFolds(ins)
<1>1. SUFFICES ASSUME BranchFolds(ins) PROVE FALSE
  OBVIOUS
<1>2. PICK i \in 1..Len(f.blocks) : ins \in Range(f.blocks[i].instrs)
  BY FunctionFacts DEF Instructions, Range
<1>3. PICK c : c = f.blocks[i].instrs /\ IsCode(c) /\ f.blocks[i] \in Range(f.blocks)
  BY FunctionFacts
<1>4. /\ Len(c) \in Nat /\ DOMAIN c = 1..Len(c) /\ c = [j \in 1..Len(c) |-> c[j]]
  BY <1>3, CodeFacts
<1>5. PICK j \in 1..Len(c) : ins = c[j]
  BY <1>2, <1>3, <1>4 DEF Range
<1>6. IsTerminator(ins)
  BY <1>1 DEF BranchFolds, IsTerminator, Terminators
<1>7. j = Len(c)
  <2>1. \A k \in 1..(Len(c) - 1) : ~IsTerminator(c[k])
    BY <1>3, CheckedGraph DEF NothingAfterTerminator
  <2>. QED
    BY <1>4, <1>5, <1>6, <2>1
<1>8. c # <<>> /\ FoldBranch(c) = c
  BY <1>3, <1>4, <1>5 DEF BranchesFolded
<1>9. FoldBranch(c) = [c EXCEPT ![Len(c)] = Br(TakenLabel(c[Len(c)]))]
  BY <1>1, <1>5, <1>7, <1>8 DEF FoldBranch
<1>10. c[Len(c)] = Br(TakenLabel(c[Len(c)]))
  BY <1>4, <1>5, <1>7, <1>8, <1>9
<1>11. ins.op = "br"
  BY <1>5, <1>7, <1>10, BrFacts
<1> QED
  BY <1>1, <1>11 DEF BranchFolds

(* A round that changed nothing leaves nothing to do.                      *)
LEMMA QuietLeavesNothing == Inv /\ Quiet => NothingLeft
<1>. SUFFICES ASSUME Inv, Quiet, pass = "done", round < MaxRounds, CheckCfg(fn) = {}
              PROVE  /\ AllReachable(fn)
                     /\ \A ins \in Instructions(fn) :
                           /\ ~Dead(fn, ins) /\ ~BranchFolds(ins)
                           /\ ins.dest \in SingleDefs(fn) =>
                                 /\ ~Folds(ins)
                                 /\ IsCopy(ins) => ~NamesAnother(ins, CopySource(ins))
  BY DEF NothingLeft
<1>1. /\ FoldsNothing(fn) /\ BranchesFolded(fn) /\ CopiesNothing(fn)
      /\ AllReachable(fn) /\ NothingDead(fn)
  BY DEF Quiet, PassesQuiet
<1>2. IsFunction(fn)
  BY DEF Inv, TypeOK
<1>3. ASSUME NEW ins \in Instructions(fn)
      PROVE  /\ ~Dead(fn, ins) /\ ~BranchFolds(ins)
             /\ ins.dest \in SingleDefs(fn) => ~Folds(ins) /\ ~CopiesAnother(ins)
  <2>1. PICK k \in 1..Len(Listing(fn)) : Listing(fn)[k] = ins
    BY <1>2, ListedInstrs
  <2>2. ~BranchFolds(ins)
    BY <1>1, <1>2, NoBranchLeft
  <2>. QED
    BY <1>1, <2>1, <2>2 DEF FoldsNothing, CopiesNothing, NothingDead
<1> QED
  BY <1>1, <1>3 DEF CopiesAnother

(* When run() stops before its limit, nothing is left for a pass to do.    *)
THEOREM LeavesNothing == Spec => []NothingLeft
BY InitInv, InvStep, InitQuiet, QuietStep, QuietLeavesNothing, PTL DEF Spec

-----------------------------------------------------------------------------
(* A label and the one block that carries it.                              *)
LEMMA BlockAt ==
    ASSUME NEW f, IsFunction(f), CheckCfg(f) = {}, NEW i \in 1..Len(f.blocks)
    PROVE  /\ f.blocks[i].label \in Labels(f)
           /\ Instrs(f, f.blocks[i].label) = f.blocks[i].instrs
           /\ Successors(f, f.blocks[i].label) = BlockSuccessors(f.blocks[i])
           /\ IsCode(f.blocks[i].instrs)
<1>1. DOMAIN f.blocks = 1..Len(f.blocks) /\ IsCode(f.blocks[i].instrs)
  BY FunctionFacts
<1>2. f.blocks[i].label \in Labels(f)
  BY <1>1 DEF Labels
<1>3. PICK k \in DOMAIN f.blocks :
         f.blocks[k].label = f.blocks[i].label /\ Block(f, f.blocks[i].label) = f.blocks[k]
  BY <1>2, BlockOfLabel
<1>4. k = i
  BY <1>1, <1>3, CheckedGraph DEF UniqueLabels
<1> QED
  BY <1>1, <1>2, <1>3, <1>4 DEF Instrs, Successors

(* Every label is that of a block.                                         *)
LEMMA LabelHasBlock ==
    ASSUME NEW f, IsFunction(f), NEW l \in Labels(f)
    PROVE  \E i \in 1..Len(f.blocks) : f.blocks[i].label = l
BY FunctionFacts DEF Labels

(* What a block defines before one of its instructions. *)
LEMMA DefinedWhere ==
    ASSUME NEW f, IsFunction(f), CheckCfg(f) = {}, NEW i \in 1..Len(f.blocks), NEW r
    PROVE  /\ \A n \in Int :
                r \in DefinedBefore(f, f.blocks[i].label, n) <=>
                   \E p \in 1..n : r \in Dest(f.blocks[i].instrs[p])
           /\ r \in DefinedBy(f, f.blocks[i].label, {}) <=>
                   \E p \in 1..Len(f.blocks[i].instrs) : r \in Dest(f.blocks[i].instrs[p])
<1>1. Instrs(f, f.blocks[i].label) = f.blocks[i].instrs /\ IsCode(f.blocks[i].instrs)
  BY BlockAt
<1>2. \A n : r \in DefinedBefore(f, f.blocks[i].label, n) <=>
                   \E p \in 1..n : r \in Dest(f.blocks[i].instrs[p])
  BY <1>1 DEF DefinedBefore
<1>3. r \in DefinedBy(f, f.blocks[i].label, {}) <=>
         r \in DefinedBefore(f, f.blocks[i].label, Len(f.blocks[i].instrs))
  BY <1>1 DEF DefinedBy
<1> QED
  BY <1>2, <1>3

(* A register is available at a place if every path to it defines it.      *)
Available(f, r, l, p) == r \in DefinedBefore(f, l, p - 1) \/ l \notin MissingAt(f, r)

(* A block does not miss a register if a set closed under the paths that   *)
(* avoid it leaves the block out.                                          *)
LEMMA NotMissing ==
    ASSUME NEW f, NEW r, NEW l \in Labels(f)
    PROVE  l \notin MissingAt(f, r) <=> \E S \in SUBSET Labels(f) : ClosedAvoiding(f, r, S) /\ l \notin S
BY DEF MissingAt

(* WellDefined by places: every use that a path reaches reads an available *)
(* register.                                                               *)
LEMMA UsesAvailable ==
    ASSUME NEW f, IsFunction(f), CheckCfg(f) = {}
    PROVE  WellDefined(f) <=>
              \A i \in 1..Len(f.blocks) : f.blocks[i].label \in OnSomePath(f) =>
                 \A p \in 1..Len(f.blocks[i].instrs) : \A u \in Uses(f.blocks[i].instrs[p]) :
                    Available(f, u, f.blocks[i].label, p)
<1>1. \A i \in 1..Len(f.blocks) :
         /\ f.blocks[i].label \in Labels(f)
         /\ Instrs(f, f.blocks[i].label) = f.blocks[i].instrs
         /\ DOMAIN f.blocks[i].instrs = 1..Len(f.blocks[i].instrs)
  BY BlockAt, CodeFacts
<1>2. ASSUME NEW i \in 1..Len(f.blocks)
      PROVE  UndefinedOnSomePath(f, f.blocks[i].label) = {} <=>
                \A p \in 1..Len(f.blocks[i].instrs) : \A u \in Uses(f.blocks[i].instrs[p]) :
                    Available(f, u, f.blocks[i].label, p)
  <2> DEFINE l == f.blocks[i].label
             c == f.blocks[i].instrs
  <2>1. Instrs(f, l) = c /\ DOMAIN c = 1..Len(c)
    BY <1>1
  <2>2. UndefinedOnSomePath(f, l) =
          {r \in UNION {Uses(ins) : ins \in Range(c)} :
             \E p \in 1..Len(c) : r \in Uses(c[p]) /\ ~Available(f, r, l, p)}
    BY <2>1 DEF UndefinedOnSomePath, Available
  <2>3. \A p \in 1..Len(c) : c[p] \in Range(c)
    BY <2>1 DEF Range
  <2>. HIDE DEF l, c
  <2>4. ASSUME NEW p \in 1..Len(c), NEW u \in Uses(c[p]), ~Available(f, u, l, p)
        PROVE  u \in UndefinedOnSomePath(f, l)
    BY <2>2, <2>3, <2>4
  <2>5. UndefinedOnSomePath(f, l) = {} <=>
           \A p \in 1..Len(c) : \A u \in Uses(c[p]) : Available(f, u, l, p)
    BY <2>2, <2>4
  <2>. QED
    BY <2>5 DEF l, c
<1>3. \A l \in OnSomePath(f) : \E i \in 1..Len(f.blocks) : f.blocks[i].label = l
  BY LabelHasBlock DEF OnSomePath
<1> QED
  BY <1>2, <1>3 DEF WellDefined

(* Where a register is defined once, what is available there is available  *)
(* wherever the register is.                                               *)
DefinedAt(f, r, i, p) ==
    /\ i \in 1..Len(f.blocks) /\ p \in 1..Len(f.blocks[i].instrs)
    /\ r \in Dest(f.blocks[i].instrs[p])
DefinedOnlyAt(f, r, i, p) ==
    DefinedAt(f, r, i, p) /\ \A j, q : DefinedAt(f, r, j, q) => j = i /\ q = p

(* A register defined at one place and available at another carries there  *)
(* what is available at its definition.                                    *)
LEMMA AvailableThrough ==
    ASSUME NEW f, IsFunction(f), CheckCfg(f) = {}, NEW r, r \notin Params(f),
           NEW i, NEW p, DefinedOnlyAt(f, r, i, p), NEW k \in 1..Len(f.blocks), NEW q \in Nat \ {0},
           q <= Len(f.blocks[k].instrs),
           f.blocks[k].label \in OnSomePath(f), Available(f, r, f.blocks[k].label, q)
    PROVE  /\ f.blocks[i].label \in OnSomePath(f)
           /\ \A v : Available(f, v, f.blocks[i].label, p) => Available(f, v, f.blocks[k].label, q)
<1> DEFINE lr == f.blocks[i].label
           l == f.blocks[k].label
<1>1. i \in 1..Len(f.blocks) /\ p \in 1..Len(f.blocks[i].instrs) /\ lr \in Labels(f) /\ l \in Labels(f)
  BY BlockAt DEF DefinedOnlyAt, DefinedAt
<1>2. ASSUME NEW x \in Labels(f), r \in DefinedBy(f, x, {}) PROVE x = lr
  <2>1. PICK j \in 1..Len(f.blocks) : f.blocks[j].label = x
    BY LabelHasBlock
  <2>2. \E y \in 1..Len(f.blocks[j].instrs) : r \in Dest(f.blocks[j].instrs[y])
    BY <1>2, <2>1, DefinedWhere
  <2>3. j = i
    BY <2>2 DEF DefinedOnlyAt, DefinedAt
  <2>. QED
    BY <2>1, <2>3
<1>3. CASE r \in DefinedBefore(f, l, q - 1)
  <2>1. PICK y \in 1..(q - 1) : r \in Dest(f.blocks[k].instrs[y])
    <3>1. q - 1 \in Int /\ r \in DefinedBefore(f, f.blocks[k].label, q - 1)
      BY <1>3
    <3>. QED
      BY <3>1, DefinedWhere
  <2>2. Len(f.blocks[k].instrs) \in Nat
    BY BlockAt, CodeFacts
  <2>3. y \in 1..Len(f.blocks[k].instrs)
    BY <2>1, <2>2
  <2>4. k = i /\ y = p
    BY <2>1, <2>3 DEF DefinedOnlyAt, DefinedAt
  <2>5. ASSUME NEW v, v \in DefinedBefore(f, lr, p - 1) PROVE v \in DefinedBefore(f, l, q - 1)
    <3>1. p - 1 \in Int /\ q - 1 \in Int
      BY <1>1, <2>1, <2>4
    <3>2. PICK z \in 1..(p - 1) : v \in Dest(f.blocks[i].instrs[z])
      BY <1>1, <2>5, <3>1, DefinedWhere
    <3>3. z \in 1..(q - 1)
      BY <1>1, <2>1, <2>4
    <3>. QED
      BY <2>4, <3>1, <3>2, <3>3, DefinedWhere
  <2>. QED
    BY <2>4, <2>5 DEF Available
<1>4. CASE l \notin MissingAt(f, r)
  <2>1. PICK S \in SUBSET Labels(f) : ClosedAvoiding(f, r, S) /\ l \notin S
    BY <1>1, <1>4, NotMissing
  <2>2. Entry(f) \in S
    BY <2>1 DEF ClosedAvoiding
  <2>3. \A x \in S : x # lr => Range(Successors(f, x)) \subseteq S
    BY <1>2, <2>1 DEF ClosedAvoiding
  <2>4. lr \in OnSomePath(f)
    <3>1. SUFFICES ASSUME lr \notin OnSomePath(f) PROVE FALSE
      OBVIOUS
    <3> DEFINE U == S \cap OnSomePath(f)
    <3>2. ClosedUnderEdges(f, OnSomePath(f))
      BY OnSomePathClosed
    <3>3. ClosedUnderEdges(f, U)
      BY <2>2, <2>3, <3>1, <3>2 DEF ClosedUnderEdges
    <3>4. l \in U
      <4>1. U \in SUBSET Labels(f)
        OBVIOUS
      <4>. HIDE DEF U
      <4>. QED
        BY <3>3, <4>1 DEF OnSomePath
    <3>. QED
      BY <2>1, <3>4
  <2>5. ASSUME NEW v, Available(f, v, lr, p) PROVE l \notin MissingAt(f, v)
    <3>1. PICK T \in SUBSET Labels(f) :
             ClosedAvoiding(f, v, T) /\ (lr \in T => v \in DefinedBy(f, lr, {}))
      <4>1. CASE lr \notin MissingAt(f, v)
        BY <1>1, <4>1, NotMissing
      <4>2. CASE v \in DefinedBefore(f, lr, p - 1)
        <5>1. p - 1 \in Int /\ Len(f.blocks[i].instrs) \in Nat
          BY <1>1, BlockAt, CodeFacts
        <5>2. PICK z \in 1..(p - 1) : v \in Dest(f.blocks[i].instrs[z])
          BY <1>1, <4>2, <5>1, DefinedWhere
        <5>3. z \in 1..Len(f.blocks[i].instrs)
          BY <1>1, <5>1
        <5>4. v \in DefinedBy(f, lr, {})
          BY <1>1, <5>2, <5>3, DefinedWhere
        <5>5. MissingAt(f, v) \in SUBSET Labels(f) /\ ClosedAvoiding(f, v, MissingAt(f, v))
          BY MissingClosed DEF MissingAt
        <5>. QED
          BY <5>4, <5>5
      <4>. QED
        BY <2>5, <4>1, <4>2 DEF Available
    <3> DEFINE U == S \cap T
    <3>2. ClosedAvoiding(f, v, U)
      BY <2>2, <2>3, <3>1 DEF ClosedAvoiding
    <3>3. U \in SUBSET Labels(f) /\ l \notin U
      BY <2>1
    <3>. HIDE DEF U
    <3>. QED
      BY <1>1, <3>2, <3>3, NotMissing
  <2>. QED
    BY <2>4, <2>5 DEF Available
<1> QED
  BY <1>3, <1>4 DEF Available

(* What the entry leads to without going on from d.                        *)
Avoiding(f, d) ==
    {l \in Labels(f) :
        \A S \in SUBSET Labels(f) :
           Entry(f) \in S /\ (\A x \in S \ {d} : Range(Successors(f, x)) \subseteq S) => l \in S}

(* Listed in order, a block that some path leads to has a predecessor that *)
(* some path leads to and that is listed before it.                        *)
LEMMA ListedPredecessor ==
    ASSUME NEW f, IsFunction(f), CheckCfg(f) = {}, ListedInOrder(f),
           NEW i \in 1..Len(f.blocks), f.blocks[i].label \in OnSomePath(f), i # 1
    PROVE  \E j \in 1..(i - 1) :
              /\ f.blocks[j].label \in OnSomePath(f)
              /\ f.blocks[i].label \in Range(Successors(f, f.blocks[j].label))
<1> DEFINE x == f.blocks[i].label
           R == OnSomePath(f)
           A == Avoiding(f, x)
<1>0. Len(f.blocks) \in Nat /\ DOMAIN f.blocks = 1..Len(f.blocks)
  BY FunctionFacts
<1>1. SUFFICES ASSUME \A j \in 1..(i - 1) : f.blocks[j].label \in R => x \notin Range(Successors(f, f.blocks[j].label))
               PROVE  FALSE
  OBVIOUS
<1>2. x # Entry(f)
  <2>1. 1 \in DOMAIN f.blocks /\ i \in DOMAIN f.blocks
    BY <1>0
  <2>. QED
    BY <2>1, CheckedGraph DEF UniqueLabels, Entry
<1>3. Entry(f) \in A /\ A \in SUBSET Labels(f)
  BY EntryFacts DEF Avoiding
<1>4. ASSUME NEW w \in A, w # x PROVE Range(Successors(f, w)) \subseteq A
  <2>. SUFFICES ASSUME NEW y \in Range(Successors(f, w)) PROVE y \in A
    OBVIOUS
  <2>1. y \in Labels(f)
    BY <1>3, SuccessorsAreLabels
  <2>2. ASSUME NEW S \in SUBSET Labels(f), Entry(f) \in S, \A z \in S \ {x} : Range(Successors(f, z)) \subseteq S
        PROVE  y \in S
    <3>1. w \in S
      BY <2>2 DEF Avoiding
    <3>. QED
      BY <1>4, <2>2, <3>1
  <2>. QED
    BY <2>1, <2>2 DEF Avoiding
<1>5. A \subseteq R
  <2>1. R \in SUBSET Labels(f) /\ Entry(f) \in R /\ \A z \in R \ {x} : Range(Successors(f, z)) \subseteq R
    BY OnSomePathClosed DEF ClosedUnderEdges
  <2>. HIDE DEF R, x
  <2>. QED
    BY <2>1 DEF Avoiding
<1>6. ASSUME NEW w \in A, w # x PROVE x \notin Range(Successors(f, w))
  <2>1. SUFFICES ASSUME x \in Range(Successors(f, w)) PROVE FALSE
    OBVIOUS
  <2>2. PICK j \in 1..Len(f.blocks) : f.blocks[j].label = w
    BY <1>3, LabelHasBlock
  <2>3. i \in 1..j
    BY <1>0, <1>1, <1>5, <2>1, <2>2
  <2>4. x \in Range(BlockSuccessors(f.blocks[j]))
    BY <2>1, <2>2, BlockAt
  <2>5. Dominates(f, x, w)
    BY <1>0, <1>5, <2>2, <2>3, <2>4 DEF ListedInOrder
  <2>6. PICK S \in SUBSET Labels(f) : /\ Entry(f) \in S /\ w \notin S
                                      /\ \A z \in S \ {x} : Range(Successors(f, z)) \subseteq S
    BY <1>6, <2>5 DEF Dominates
  <2>. QED
    BY <2>6 DEF Avoiding
<1> DEFINE Q == A \ {x}
<1>7. ClosedUnderEdges(f, Q) /\ Q \in SUBSET Labels(f)
  <2>. HIDE DEF A, x
  <2>. QED
    BY <1>2, <1>3, <1>4, <1>6 DEF ClosedUnderEdges
<1>8. x \in Q
  <2>. HIDE DEF Q
  <2>. QED
    BY <1>7 DEF OnSomePath
<1> QED
  BY <1>8

(* So a register that is available somewhere, and is no parameter, is      *)
(* defined before in the listing, in a block that some path leads to.      *)
LEMMA DefinedEarlier ==
    ASSUME NEW f, IsFunction(f), CheckCfg(f) = {}, ListedInOrder(f),
           NEW k \in 1..Len(f.blocks), f.blocks[k].label \in OnSomePath(f), NEW q \in Nat \ {0},
           NEW r, r \notin Params(f), Available(f, r, f.blocks[k].label, q)
    PROVE  \/ \E p \in 1..(q - 1) : r \in Dest(f.blocks[k].instrs[p])
           \/ \E i \in 1..(k - 1) : \E p \in 1..Len(f.blocks[i].instrs) : DefinedAt(f, r, i, p)
<1>0. Len(f.blocks) \in Nat /\ k \in Nat
  BY FunctionFacts
<1>1. CASE r \in DefinedBefore(f, f.blocks[k].label, q - 1)
  <2>1. q - 1 \in Int /\ r \in DefinedBefore(f, f.blocks[k].label, q - 1)
    BY <1>1
  <2>. QED
    BY <2>1, DefinedWhere
<1>2. CASE f.blocks[k].label \notin MissingAt(f, r)
  <2>1. SUFFICES ASSUME \A i \in 1..(k - 1) : \A p \in 1..Len(f.blocks[i].instrs) : ~DefinedAt(f, r, i, p)
                 PROVE  FALSE
    OBVIOUS
  <2>2. ASSUME NEW i \in 1..(k - 1) PROVE r \notin DefinedBy(f, f.blocks[i].label, {})
    <3>1. i \in 1..Len(f.blocks)
      BY <1>0
    <3>2. \A p \in 1..Len(f.blocks[i].instrs) : r \notin Dest(f.blocks[i].instrs[p])
      BY <2>1, <3>1 DEF DefinedAt
    <3>. QED
      BY <3>1, <3>2, DefinedWhere
  <2> DEFINE M == MissingAt(f, r)
             Bad == {i \in 1..k : f.blocks[i].label \in OnSomePath(f) /\ f.blocks[i].label \notin M}
  <2>3. Bad # {} /\ Bad \in SUBSET Nat
    BY <1>0, <1>2
  <2>4. PICK i \in Bad : \A j \in Bad : i <= j
    <3>. HIDE DEF Bad
    <3>. QED
      BY <2>3, LeastNat
  <2>5. ClosedAvoiding(f, r, M)
    BY MissingClosed
  <2>6. i # 1
    BY <2>4, <2>5 DEF ClosedAvoiding, Entry
  <2>7. i \in 1..Len(f.blocks) /\ f.blocks[i].label \in OnSomePath(f)
    BY <1>0, <2>4
  <2>8. PICK j \in 1..(i - 1) :
              /\ f.blocks[j].label \in OnSomePath(f)
              /\ f.blocks[i].label \in Range(Successors(f, f.blocks[j].label))
    BY <2>6, <2>7, ListedPredecessor
  <2>9. j \in 1..(k - 1) /\ j \notin Bad
    BY <1>0, <2>4, <2>8
  <2>10. f.blocks[j].label \in M
    BY <2>8, <2>9
  <2>11. f.blocks[i].label \in M
    BY <2>2, <2>5, <2>8, <2>9, <2>10 DEF ClosedAvoiding
  <2>. QED
    BY <2>4, <2>11
<1> QED
  BY <1>1, <1>2 DEF Available

-----------------------------------------------------------------------------
(* f2 is f with instructions and whole blocks taken out and arguments and  *)
(* targets replaced: the entry, every terminator of a block that stays and *)
(* every block it may go to stay.                                          *)
ThinnedTo(new, old) ==
    /\ new.dest = old.dest /\ (IsTerminator(new) <=> IsTerminator(old))
    /\ Range(new.labels) \subseteq Range(old.labels)
Thins(f2, f, e, keep) ==
    /\ Leaves(f2, f, e, keep) /\ f2.params = f.params
    /\ \E i \in 1..Len(f2.blocks) : e[i] = 1
    /\ \A i \in 1..Len(f2.blocks) :
          /\ f2.blocks[i].label = f.blocks[e[i]].label
          /\ Range(BlockSuccessors(f.blocks[e[i]])) \subseteq Labels(f2)
          /\ \A p \in 1..Len(f.blocks[e[i]].instrs) : IsTerminator(f.blocks[e[i]].instrs[p]) => p \in keep[i]
          /\ \A j \in 1..Len(f2.blocks[i].instrs) :
                ThinnedTo(f2.blocks[i].instrs[j], f.blocks[e[i]].instrs[Nth(keep[i], j)])

(* Where the instructions that stay come from.                             *)
LEMMA KeptPlaces ==
    ASSUME NEW f, NEW f2, NEW e, NEW keep, Leaves(f2, f, e, keep), NEW i \in 1..Len(f2.blocks)
    PROVE  /\ e[i] \in 1..Len(f.blocks) /\ Len(f.blocks) \in Nat /\ Len(f2.blocks) \in Nat
           /\ IsCode(f.blocks[e[i]].instrs) /\ IsCode(f2.blocks[i].instrs)
           /\ Len(f2.blocks[i].instrs) \in Nat /\ Len(f.blocks[e[i]].instrs) \in Nat
           /\ \A j \in 1..Len(f2.blocks[i].instrs) :
                Nth(keep[i], j) \in keep[i] /\ Nth(keep[i], j) \in 1..Len(f.blocks[e[i]].instrs)
           /\ \A j, k \in 1..Len(f2.blocks[i].instrs) : j < k => Nth(keep[i], j) < Nth(keep[i], k)
           /\ \A p \in keep[i] : \E j \in 1..Len(f2.blocks[i].instrs) : Nth(keep[i], j) = p
<1>1. e[i] \in 1..Len(f.blocks) /\ IsFunction(f) /\ IsFunction(f2)
  BY DEF Leaves
<1>2. /\ Len(f.blocks) \in Nat /\ Len(f2.blocks) \in Nat
      /\ IsCode(f.blocks[e[i]].instrs) /\ IsCode(f2.blocks[i].instrs)
  BY <1>1, FunctionFacts
<1>3. PICK a \in Nat, b \in Nat : a = Len(f2.blocks[i].instrs) /\ b = Len(f.blocks[e[i]].instrs)
  BY <1>2, CodeFacts
<1>4. PICK K \in SUBSET (1..b) : K = keep[i] /\ a = Cardinality(K)
  BY <1>3 DEF Leaves
<1>5. /\ \A m \in 1..Cardinality(K) : Nth(K, m) \in K
      /\ \A m, o \in 1..Cardinality(K) : m < o => Nth(K, m) < Nth(K, o)
      /\ \A x \in K : \E m \in 1..Cardinality(K) : Nth(K, m) = x
  BY NthListsAll
<1>6. \A j \in 1..a : Nth(K, j) \in K /\ Nth(K, j) \in 1..b
  BY <1>4, <1>5
<1> QED
  BY <1>1, <1>2, <1>3, <1>4, <1>5, <1>6

(* The five rules of checkCFG make it pass.                                *)
LEMMA SoundGraph ==
    ASSUME NEW f, f.blocks # <<>>, UniqueLabels(f), EndsInTerminator(f), NothingAfterTerminator(f),
           TargetsExist(f), EntryHasNoPredecessor(f)
    PROVE  CheckCfg(f) = {}
BY DEF CheckCfg

(* A block that stays ends as it did, and no earlier.                      *)
LEMMA ThinnedLast ==
    ASSUME NEW f, NEW f2, NEW e, NEW keep, Thins(f2, f, e, keep), CheckCfg(f) = {},
           NEW i \in 1..Len(f2.blocks)
    PROVE  /\ HasTerminator(f2.blocks[i])
           /\ \A j \in 1..(Len(f2.blocks[i].instrs) - 1) : ~IsTerminator(f2.blocks[i].instrs[j])
           /\ Range(BlockSuccessors(f2.blocks[i])) \subseteq Range(BlockSuccessors(f.blocks[e[i]]))
<1> DEFINE c == f.blocks[e[i]].instrs
           d == f2.blocks[i].instrs
<1>1. Leaves(f2, f, e, keep) /\ IsFunction(f)
  BY DEF Thins, Leaves
<1>2. /\ e[i] \in 1..Len(f.blocks) /\ IsCode(c) /\ IsCode(d) /\ Len(d) \in Nat /\ Len(c) \in Nat
      /\ \A j \in 1..Len(d) : Nth(keep[i], j) \in 1..Len(c)
      /\ \A j, k \in 1..Len(d) : j < k => Nth(keep[i], j) < Nth(keep[i], k)
      /\ \A p \in keep[i] : \E j \in 1..Len(d) : Nth(keep[i], j) = p
  <2>. HIDE DEF c, d
  <2>. QED
    BY <1>1, KeptPlaces DEF c, d
<1>3. f.blocks[e[i]] \in Range(f.blocks)
  BY <1>1, <1>2, FunctionFacts
<1>4. /\ HasTerminator(f.blocks[e[i]])
      /\ \A p \in 1..(Len(c) - 1) : ~IsTerminator(c[p])
  BY <1>1, <1>3, CheckedGraph DEF EndsInTerminator, NothingAfterTerminator
<1>5. c # <<>> /\ IsTerminator(c[Len(c)])
  BY <1>4 DEF HasTerminator
<1>6. Len(c) \in 1..Len(c)
  <2>1. Len(c) # 0
    BY <1>2, <1>5, CodeFacts
  <2>. QED
    BY <1>2, <2>1
<1>7. \A j \in 1..Len(d) : ThinnedTo(d[j], c[Nth(keep[i], j)])
  BY DEF Thins
<1>8. Len(c) \in keep[i]
  BY <1>5, <1>6 DEF Thins
<1> HIDE DEF c, d
<1>9. PICK j \in 1..Len(d) : Nth(keep[i], j) = Len(c)
  BY <1>2, <1>8
<1>10. j = Len(d)
  <2>1. SUFFICES ASSUME j < Len(d) PROVE FALSE
    BY <1>2
  <2>2. Len(d) \in 1..Len(d)
    BY <1>2, <2>1
  <2>. QED
    BY <1>2, <1>9, <2>1, <2>2
<1>11. IsTerminator(d[Len(d)]) /\ Range(d[Len(d)].labels) \subseteq Range(c[Len(c)].labels)
  BY <1>5, <1>7, <1>9, <1>10 DEF ThinnedTo
<1>12. d # <<>>
  <2>1. Len(d) # 0
    BY <1>9, <1>10
  <2>. QED
    BY <2>1
<1>13. HasTerminator(f2.blocks[i])
  BY <1>11, <1>12 DEF HasTerminator, d
<1>14. ASSUME NEW k \in 1..(Len(d) - 1) PROVE ~IsTerminator(d[k])
  <2>1. k \in 1..Len(d) /\ Len(d) \in 1..Len(d) /\ k < Len(d)
    BY <1>2, <1>9, <1>10
  <2>2. Nth(keep[i], k) \in 1..(Len(c) - 1)
    BY <1>2, <1>9, <1>10, <2>1
  <2>. QED
    BY <1>4, <1>7, <2>1, <2>2 DEF ThinnedTo, c
<1>15. BlockSuccessors(f2.blocks[i]) = d[Len(d)].labels /\ BlockSuccessors(f.blocks[e[i]]) = c[Len(c)].labels
  BY <1>4, <1>13 DEF BlockSuccessors, c, d
<1> QED
  BY <1>11, <1>13, <1>14, <1>15 DEF d

(* The graph of what stays is sound and has no path the old one had not.   *)
LEMMA ThinnedGraph ==
    ASSUME NEW f, NEW f2, NEW e, NEW keep, Thins(f2, f, e, keep), CheckCfg(f) = {}
    PROVE  /\ CheckCfg(f2) = {} /\ IsFunction(f2) /\ IsFunction(f)
           /\ Entry(f2) = Entry(f) /\ Labels(f2) \subseteq Labels(f)
           /\ \A l \in Labels(f2) :
                Range(Successors(f2, l)) \subseteq Range(Successors(f, l)) \cap Labels(f2)
           /\ OnSomePath(f2) \subseteq OnSomePath(f)
<1>1. IsFunction(f2) /\ IsFunction(f) /\ Leaves(f2, f, e, keep)
  BY DEF Thins, Leaves
<1>2. PICK a \in Nat, b \in Nat : a = Len(f2.blocks) /\ b = Len(f.blocks) /\ DOMAIN f2.blocks = 1..a /\ DOMAIN f.blocks = 1..b
  BY <1>1, FunctionFacts
<1>3. e \in [1..a -> 1..b] /\ \A i, j \in 1..a : i < j => e[i] < e[j]
  BY <1>1, <1>2 DEF Leaves, Increasing
<1>4. /\ \A i \in 1..a : f2.blocks[i].label = f.blocks[e[i]].label
      /\ \A i \in 1..a : Range(BlockSuccessors(f.blocks[e[i]])) \subseteq Labels(f2)
      /\ \E i \in 1..a : e[i] = 1
  BY <1>2 DEF Thins
<1>5. e[1] = 1 /\ 1 \in 1..a
  <2>1. PICK i \in 1..a : e[i] = 1
    BY <1>4
  <2>2. 1 \in 1..a /\ e[1] \in 1..b
    BY <1>3
  <2>. QED
    BY <1>3, <2>1, <2>2
<1>6. Entry(f2) = Entry(f)
  BY <1>4, <1>5 DEF Entry
<1>7. Labels(f2) \subseteq Labels(f)
  BY <1>2, <1>3, <1>4 DEF Labels
<1>8. UniqueLabels(f2)
  <2>. SUFFICES ASSUME NEW i \in 1..a, NEW j \in 1..a, f2.blocks[i].label = f2.blocks[j].label PROVE i = j
    BY <1>2 DEF UniqueLabels
  <2>1. e[i] = e[j]
    BY <1>1, <1>2, <1>3, <1>4, CheckedGraph DEF UniqueLabels
  <2>. QED
    BY <1>3, <2>1
<1>9. \A i \in 1..a :
         /\ HasTerminator(f2.blocks[i])
         /\ \A j \in 1..(Len(f2.blocks[i].instrs) - 1) : ~IsTerminator(f2.blocks[i].instrs[j])
         /\ Range(BlockSuccessors(f2.blocks[i])) \subseteq Range(BlockSuccessors(f.blocks[e[i]]))
  BY <1>2, ThinnedLast
<1>10. \A x \in Range(f2.blocks) : \E i \in 1..a : x = f2.blocks[i]
  BY <1>2 DEF Range
<1>11. EndsInTerminator(f2) /\ NothingAfterTerminator(f2)
  BY <1>9, <1>10 DEF EndsInTerminator, NothingAfterTerminator
<1>12. TargetsExist(f2)
  <2>. SUFFICES ASSUME NEW x \in Range(f2.blocks) PROVE Range(BlockSuccessors(x)) \subseteq Labels(f2)
    BY DEF TargetsExist
  <2>1. PICK i \in 1..a : x = f2.blocks[i]
    BY <1>10
  <2>2. Range(BlockSuccessors(f2.blocks[i])) \subseteq Labels(f2)
    BY <1>4, <1>9
  <2>. QED
    BY <2>1, <2>2
<1>13. EntryHasNoPredecessor(f2)
  <2>1. ASSUME NEW i \in 1..a, Entry(f2) \in Range(BlockSuccessors(f2.blocks[i])) PROVE FALSE
    <3>1. e[i] \in 1..b /\ Entry(f) \in Range(BlockSuccessors(f.blocks[e[i]]))
      BY <1>3, <1>6, <1>9, <2>1
    <3>2. f.blocks[e[i]].label \in Predecessors(f, Entry(f))
      BY <1>2, <3>1 DEF Predecessors
    <3>. QED
      BY <1>1, <3>2, CheckedGraph DEF EntryHasNoPredecessor
  <2>. QED
    BY <1>2, <2>1 DEF EntryHasNoPredecessor, Predecessors
<1>14. CheckCfg(f2) = {}
  <2>1. f2.blocks # <<>>
    BY <1>2, <1>5
  <2>. QED
    BY <1>8, <1>11, <1>12, <1>13, <2>1, SoundGraph
<1>15. ASSUME NEW l \in Labels(f2)
       PROVE  Range(Successors(f2, l)) \subseteq Range(Successors(f, l)) \cap Labels(f2)
  <2>1. PICK i \in 1..a : f2.blocks[i].label = l
    BY <1>2 DEF Labels
  <2>2. Successors(f2, l) = BlockSuccessors(f2.blocks[i])
    BY <1>1, <1>2, <1>14, <2>1, BlockAt
  <2>3. Successors(f, l) = BlockSuccessors(f.blocks[e[i]])
    <3>1. e[i] \in 1..Len(f.blocks) /\ f.blocks[e[i]].label = l
      BY <1>2, <1>3, <1>4, <2>1
    <3>. QED
      BY <1>1, <3>1, BlockAt
  <2>. QED
    BY <1>4, <1>9, <2>2, <2>3
<1>16. OnSomePath(f2) \subseteq OnSomePath(f)
  <2>. SUFFICES ASSUME NEW l \in OnSomePath(f2), NEW S \in SUBSET Labels(f), ClosedUnderEdges(f, S)
                PROVE  l \in S
    BY <1>7 DEF OnSomePath
  <2> DEFINE U == S \cap Labels(f2)
  <2>1. Entry(f2) \in Labels(f2)
    BY <1>1, <1>14, EntryFacts
  <2>2. ClosedUnderEdges(f2, U)
    BY <1>6, <1>15, <2>1 DEF ClosedUnderEdges
  <2>3. U \in SUBSET Labels(f2)
    OBVIOUS
  <2>. HIDE DEF U
  <2>4. l \in U
    BY <2>2, <2>3 DEF OnSomePath
  <2>. QED
    BY <2>4 DEF U
<1> QED
  BY <1>1, <1>6, <1>7, <1>14, <1>15, <1>16

(* The order of the listing stays. *)
LEMMA ThinnedOrder ==
    ASSUME NEW f, NEW f2, NEW e, NEW keep, Thins(f2, f, e, keep), CheckCfg(f) = {}, ListedInOrder(f)
    PROVE  ListedInOrder(f2)
<1>1. /\ CheckCfg(f2) = {} /\ IsFunction(f2) /\ IsFunction(f)
      /\ Entry(f2) = Entry(f) /\ Labels(f2) \subseteq Labels(f)
      /\ \A l \in Labels(f2) :
                Range(Successors(f2, l)) \subseteq Range(Successors(f, l)) \cap Labels(f2)
      /\ OnSomePath(f2) \subseteq OnSomePath(f)
  BY ThinnedGraph
<1>2. PICK a \in Nat, b \in Nat : a = Len(f2.blocks) /\ b = Len(f.blocks) /\ DOMAIN f2.blocks = 1..a /\ DOMAIN f.blocks = 1..b
  BY <1>1, FunctionFacts
<1>3. e \in [1..a -> 1..b] /\ \A i, j \in 1..a : i < j => e[i] < e[j]
  BY <1>2 DEF Thins, Leaves, Increasing
<1>4. \A i \in 1..a : f2.blocks[i].label = f.blocks[e[i]].label
  BY <1>2 DEF Thins
<1>5. SUFFICES ASSUME NEW i \in 1..a, NEW j \in 1..i, f2.blocks[i].label \in OnSomePath(f2),
                      f2.blocks[j].label \in Range(BlockSuccessors(f2.blocks[i]))
               PROVE  Dominates(f2, f2.blocks[j].label, f2.blocks[i].label)
  BY <1>2 DEF ListedInOrder
<1> DEFINE d == f2.blocks[j].label
           l == f2.blocks[i].label
<1>6. j \in 1..a /\ e[j] \in 1..b /\ e[i] \in 1..b /\ e[j] <= e[i]
  BY <1>3
<1>7. d = f.blocks[e[j]].label /\ l = f.blocks[e[i]].label
  BY <1>4, <1>6
<1>8. d \in Range(BlockSuccessors(f.blocks[e[i]]))
  BY <1>2, <1>5, ThinnedLast
<1>9. Dominates(f, d, l)
  BY <1>1, <1>2, <1>5, <1>6, <1>7, <1>8, SMTT(30) DEF ListedInOrder
<1>10. CASE l = d
  BY <1>10 DEF Dominates
<1>11. CASE l # d
  <2>1. PICK S \in SUBSET Labels(f) : /\ Entry(f) \in S /\ l \notin S
                                      /\ \A x \in S \ {d} : Range(Successors(f, x)) \subseteq S
    BY <1>9, <1>11 DEF Dominates
  <2> DEFINE U == S \cap Labels(f2)
  <2>2. Entry(f2) \in Labels(f2)
    BY <1>1, EntryFacts
  <2>3. Entry(f2) \in U /\ l \notin U /\ U \in SUBSET Labels(f2)
    BY <1>1, <2>1, <2>2
  <2>4. \A x \in U \ {d} : Range(Successors(f2, x)) \subseteq U
    BY <1>1, <2>1
  <2>. HIDE DEF U, l, d
  <2>. QED
    BY <2>3, <2>4 DEF Dominates, l, d
<1> QED
  BY <1>10, <1>11

(* Where the definitions of a register are kept, it stays available.       *)
LEMMA ThinnedAvailable ==
    ASSUME NEW f, NEW f2, NEW e, NEW keep, Thins(f2, f, e, keep), CheckCfg(f) = {}, NEW r,
           \A i \in 1..Len(f2.blocks) : \A p \in 1..Len(f.blocks[e[i]].instrs) :
               r \in Dest(f.blocks[e[i]].instrs[p]) => p \in keep[i],
           NEW i \in 1..Len(f2.blocks), NEW j \in 1..Len(f2.blocks[i].instrs),
           Available(f, r, f2.blocks[i].label, Nth(keep[i], j))
    PROVE  Available(f2, r, f2.blocks[i].label, j)
<1> DEFINE l == f2.blocks[i].label
<1>1. /\ CheckCfg(f2) = {} /\ IsFunction(f2) /\ IsFunction(f)
      /\ Entry(f2) = Entry(f) /\ Labels(f2) \subseteq Labels(f)
      /\ \A x \in Labels(f2) :
                Range(Successors(f2, x)) \subseteq Range(Successors(f, x)) \cap Labels(f2)
  BY ThinnedGraph
<1>2. /\ Leaves(f2, f, e, keep) /\ f2.params = f.params
      /\ \A k \in 1..Len(f2.blocks) : f2.blocks[k].label = f.blocks[e[k]].label
      /\ \A k \in 1..Len(f2.blocks) : \A q \in 1..Len(f2.blocks[k].instrs) :
            f2.blocks[k].instrs[q].dest = f.blocks[e[k]].instrs[Nth(keep[k], q)].dest
  BY DEF Thins, ThinnedTo
<1>3. ASSUME NEW k \in 1..Len(f2.blocks), NEW p \in 1..Len(f.blocks[e[k]].instrs),
             r \in Dest(f.blocks[e[k]].instrs[p])
      PROVE  \E q \in 1..Len(f2.blocks[k].instrs) :
                Nth(keep[k], q) = p /\ r \in Dest(f2.blocks[k].instrs[q])
  <2>1. p \in keep[k]
    BY <1>3
  <2>2. PICK q \in 1..Len(f2.blocks[k].instrs) : Nth(keep[k], q) = p
    BY <1>2, <2>1, KeptPlaces
  <2>. QED
    BY <1>2, <1>3, <2>2 DEF Dest
<1>4. /\ e[i] \in 1..Len(f.blocks) /\ f.blocks[e[i]].label = l /\ l \in Labels(f2)
      /\ Len(f.blocks[e[i]].instrs) \in Nat /\ Nth(keep[i], j) \in 1..Len(f.blocks[e[i]].instrs)
      /\ \A x, y \in 1..Len(f2.blocks[i].instrs) : x < y => Nth(keep[i], x) < Nth(keep[i], y)
      /\ Len(f2.blocks[i].instrs) \in Nat
      /\ \A x \in 1..Len(f2.blocks[i].instrs) : Nth(keep[i], x) \in 1..Len(f.blocks[e[i]].instrs)
  BY <1>1, <1>2, KeptPlaces, BlockAt
<1>5. CASE r \in DefinedBefore(f, l, Nth(keep[i], j) - 1)
  <2>1. PICK p \in 1..(Nth(keep[i], j) - 1) : r \in Dest(f.blocks[e[i]].instrs[p])
    <3>1. Nth(keep[i], j) - 1 \in Int /\ r \in DefinedBefore(f, f.blocks[e[i]].label, Nth(keep[i], j) - 1)
      BY <1>4, <1>5
    <3>. QED
      BY <1>1, <1>4, <3>1, DefinedWhere
  <2>2. p \in 1..Len(f.blocks[e[i]].instrs)
    BY <1>4
  <2>3. PICK q \in 1..Len(f2.blocks[i].instrs) : Nth(keep[i], q) = p /\ r \in Dest(f2.blocks[i].instrs[q])
    BY <1>3, <2>1, <2>2
  <2>4. q < j
    <3>1. SUFFICES ASSUME j <= q PROVE FALSE
      BY <1>4
    <3>2. Nth(keep[i], j) <= Nth(keep[i], q)
      BY <1>4, <3>1
    <3>. QED
      BY <1>4, <2>1, <2>3, <3>2
  <2>5. j - 1 \in Int /\ q \in 1..(j - 1)
    BY <1>4, <2>4
  <2>6. r \in DefinedBefore(f2, l, j - 1)
    BY <1>1, <2>3, <2>5, DefinedWhere
  <2>. QED
    BY <2>6 DEF Available
<1>6. CASE l \notin MissingAt(f, r)
  <2>1. l \in Labels(f)
    BY <1>1, <1>4
  <2>2. PICK S \in SUBSET Labels(f) : ClosedAvoiding(f, r, S) /\ l \notin S
    BY <1>6, <2>1, NotMissing
  <2> DEFINE U == S \cap Labels(f2)
  <2>3. ASSUME NEW x \in Labels(f2), r \notin DefinedBy(f2, x, {}) PROVE r \notin DefinedBy(f, x, {})
    <3>1. PICK k \in 1..Len(f2.blocks) : f2.blocks[k].label = x
      BY <1>1, LabelHasBlock
    <3>2. e[k] \in 1..Len(f.blocks) /\ f.blocks[e[k]].label = x
      BY <1>2, <3>1, KeptPlaces
    <3>3. \A q \in 1..Len(f2.blocks[k].instrs) : r \notin Dest(f2.blocks[k].instrs[q])
      BY <1>1, <2>3, <3>1, DefinedWhere
    <3>4. \A p \in 1..Len(f.blocks[e[k]].instrs) : r \notin Dest(f.blocks[e[k]].instrs[p])
      BY <1>3, <3>3
    <3>. QED
      BY <1>1, <3>2, <3>4, DefinedWhere
  <2>4. Params(f2) = Params(f)
    BY <1>2 DEF Params
  <2>5. Entry(f2) \in Labels(f2)
    BY <1>1, EntryFacts
  <2>6. ClosedAvoiding(f2, r, U)
    BY <1>1, <2>2, <2>3, <2>4, <2>5 DEF ClosedAvoiding
  <2>7. U \in SUBSET Labels(f2) /\ l \notin U
    BY <2>2
  <2>. HIDE DEF U, l
  <2>8. l \notin MissingAt(f2, r)
    BY <1>4, <2>6, <2>7, NotMissing
  <2>. QED
    BY <2>8 DEF Available, l
<1> QED
  BY <1>5, <1>6 DEF Available

-----------------------------------------------------------------------------
(* The two passes that replace take out the instructions whose register    *)
(* they know, and no terminator: it defines nothing.                       *)
LEMMA TerminatorFacts ==
    ASSUME NEW ins, IsInstr(ins), IsTerminator(ins)
    PROVE  ins.dest = NoName
BY DEF IsInstr, IsTerminator, DefinesNothing

SameBlock(f) == [i \in 1..Len(f.blocks) |-> i]
UndroppedAt(f, m) == [i \in 1..Len(f.blocks) |-> Undropped(f.blocks[i].instrs, m)]
(* A rewriting thins the function out. *)
LEMMA RewritesThin ==
    ASSUME NEW f, NEW f2, NEW m, Rewrites(f2, f, m), CheckCfg(f) = {}
    PROVE  Thins(f2, f, SameBlock(f), UndroppedAt(f, m))
<1> DEFINE e == SameBlock(f)
           keep == UndroppedAt(f, m)
<1>1. IsFunction(f) /\ IsFunction(f2) /\ Knows(m) /\ f2.params = f.params /\ NoName \notin DOMAIN m
  BY DEF Rewrites, Knows
<1>2. PICK a \in Nat : a = Len(f.blocks) /\ a = Len(f2.blocks) /\ DOMAIN f.blocks = 1..a /\ DOMAIN f2.blocks = 1..a
  <2>1. Len(f2.blocks) = Len(f.blocks)
    BY DEF Rewrites
  <2>. QED
    BY <1>1, <2>1, FunctionFacts
<1>3. \A i \in 1..a : e[i] = i /\ keep[i] = Undropped(f.blocks[i].instrs, m)
  BY <1>2 DEF SameBlock, UndroppedAt
<1>4. e \in [1..a -> 1..a] /\ Increasing(e, a)
  BY <1>2 DEF SameBlock, Increasing
<1>5. ASSUME NEW i \in 1..a
      PROVE  /\ f2.blocks[i].label = f.blocks[i].label
             /\ keep[i] \in SUBSET (1..Len(f.blocks[i].instrs))
             /\ Len(f2.blocks[i].instrs) = Cardinality(keep[i])
             /\ IsCode(f.blocks[i].instrs) /\ DOMAIN f.blocks[i].instrs = 1..Len(f.blocks[i].instrs)
             /\ \A j \in 1..Len(f2.blocks[i].instrs) :
                   /\ Nth(keep[i], j) \in keep[i]
                   /\ Trimmed(f2.blocks[i].instrs[j], f.blocks[i].instrs[Nth(keep[i], j)], m)
  <2>1. IsCode(f.blocks[i].instrs)
    BY <1>1, <1>2, FunctionFacts
  <2>2. DOMAIN f.blocks[i].instrs = 1..Len(f.blocks[i].instrs)
    BY <2>1, CodeFacts
  <2>. QED
    BY <1>2, <1>3, <2>1, <2>2 DEF Rewrites
<1> HIDE DEF e, keep
<1>6. Leaves(f2, f, e, keep)
  BY <1>1, <1>2, <1>3, <1>4, <1>5 DEF Leaves
<1>7. \E i \in 1..a : e[i] = 1
  <2>1. f.blocks # <<>>
    BY <1>1, CheckedGraph
  <2>2. a # 0
    BY <1>1, <1>2, <2>1, FunctionFacts DEF IsFunction, IsList
  <2>. QED
    BY <1>3, <2>2
<1>8. ASSUME NEW i \in 1..a
      PROVE  Range(BlockSuccessors(f.blocks[i])) \subseteq Labels(f2)
  <2>1. TargetsExist(f) /\ f.blocks[i] \in Range(f.blocks)
    BY <1>1, <1>2, CheckedGraph, FunctionFacts
  <2>2. Labels(f2) = Labels(f)
    BY <1>2, <1>5 DEF Labels
  <2>. QED
    BY <2>1, <2>2 DEF TargetsExist
<1>9. ASSUME NEW i \in 1..a, NEW p \in 1..Len(f.blocks[i].instrs), IsTerminator(f.blocks[i].instrs[p])
      PROVE  p \in keep[i]
  <2>1. IsInstr(f.blocks[i].instrs[p])
    BY <1>5, CodeFacts
  <2>2. f.blocks[i].instrs[p].dest \notin DOMAIN m
    BY <1>1, <1>9, <2>1, TerminatorFacts
  <2>. QED
    BY <1>3, <1>5, <2>2 DEF Undropped
<1>10. ASSUME NEW i \in 1..a, NEW j \in 1..Len(f2.blocks[i].instrs)
       PROVE  ThinnedTo(f2.blocks[i].instrs[j], f.blocks[i].instrs[Nth(keep[i], j)])
  <2>1. PICK p \in 1..Len(f.blocks[i].instrs) : p = Nth(keep[i], j)
    BY <1>5
  <2>2. IsInstr(f.blocks[i].instrs[p])
    BY <1>5, CodeFacts
  <2>3. Trimmed(f2.blocks[i].instrs[j], f.blocks[i].instrs[p], m)
    BY <1>5, <2>1
  <2>4. PICK old, new : old = f.blocks[i].instrs[p] /\ new = f2.blocks[i].instrs[j]
    OBVIOUS
  <2>5. IsInstr(old) /\ Trimmed(new, old, m)
    BY <2>2, <2>3, <2>4
  <2>6. ThinnedTo(new, old)
    BY <1>1, <2>5, TrimmedFacts DEF ThinnedTo
  <2>. QED
    BY <2>1, <2>4, <2>6
<1> QED
  BY <1>1, <1>2, <1>3, <1>5, <1>6, <1>7, <1>8, <1>9, <1>10 DEF Thins, e, keep

(* What stands for a register outlasts it: where the register is defined,  *)
(* at one place, what stands for it is available and is not replaced.      *)
StandsFor(f, m, r) ==
    /\ r \notin Params(f)
    /\ \E i, p : /\ DefinedOnlyAt(f, r, i, p)
                 /\ f.blocks[i].label \in OnSomePath(f) =>
                       m[r].name \notin DOMAIN m /\ Available(f, m[r].name, f.blocks[i].label, p)
Stands(f, m) == \A r \in DOMAIN m : m[r].k = "reg" => StandsFor(f, m, r)

(* A rewriting by a table whose values stand for their registers makes no  *)
(* use undefined.                                                          *)
LEMMA RewritesKeepUses ==
    ASSUME NEW f, NEW f2, NEW m, Rewrites(f2, f, m), WellDefined(f), Stands(f, m)
    PROVE  WellDefined(f2)
<1> DEFINE e == SameBlock(f)
           keep == UndroppedAt(f, m)
<1>0. CheckCfg(f) = {} /\ Knows(m)
  BY DEF WellDefined, Rewrites
<1>1. Thins(f2, f, e, keep)
  BY <1>0, RewritesThin
<1>2. /\ CheckCfg(f2) = {} /\ IsFunction(f2) /\ IsFunction(f)
      /\ OnSomePath(f2) \subseteq OnSomePath(f)
  BY <1>0, <1>1, ThinnedGraph
<1>3. /\ Len(f2.blocks) = Len(f.blocks)
      /\ \A i \in 1..Len(f.blocks) :
            e[i] = i /\ keep[i] = Undropped(f.blocks[i].instrs, m) /\ f2.blocks[i].label = f.blocks[i].label
  BY DEF Rewrites, SameBlock, UndroppedAt
<1>4. \A r : r \notin DOMAIN m =>
         \A i \in 1..Len(f2.blocks) : \A p \in 1..Len(f.blocks[e[i]].instrs) :
             r \in Dest(f.blocks[e[i]].instrs[p]) => p \in keep[i]
  <2>. SUFFICES ASSUME NEW r, r \notin DOMAIN m, NEW i \in 1..Len(f.blocks),
                       NEW p \in 1..Len(f.blocks[i].instrs), r \in Dest(f.blocks[i].instrs[p])
                PROVE  p \in Undropped(f.blocks[i].instrs, m)
    BY <1>3
  <2>1. DOMAIN f.blocks[i].instrs = 1..Len(f.blocks[i].instrs)
    BY <1>2, FunctionFacts, CodeFacts
  <2>. QED
    BY <2>1 DEF Undropped, Dest
<1>5. ASSUME NEW i \in 1..Len(f2.blocks), f2.blocks[i].label \in OnSomePath(f2),
             NEW j \in 1..Len(f2.blocks[i].instrs), NEW u \in Uses(f2.blocks[i].instrs[j])
      PROVE  Available(f2, u, f2.blocks[i].label, j)
  <2> DEFINE l == f2.blocks[i].label
             p == Nth(keep[i], j)
             old == f.blocks[i].instrs[p]
  <2>1. /\ i \in 1..Len(f.blocks) /\ f.blocks[i].label = l /\ l \in OnSomePath(f)
        /\ IsCode(f.blocks[i].instrs)
    BY <1>2, <1>3, <1>5, FunctionFacts
  <2>2. p \in 1..Len(f.blocks[i].instrs) /\ Len(f.blocks[i].instrs) \in Nat
    <3>1. Leaves(f2, f, e, keep)
      BY <1>1 DEF Thins
    <3>. HIDE DEF e, keep
    <3>. QED
      BY <1>3, <2>1, <3>1, KeptPlaces, SMTT(30)
  <2>3. IsInstr(old)
    BY <2>1, <2>2, CodeFacts
  <2>4. Trimmed(f2.blocks[i].instrs[j], old, m)
    BY <1>3, <2>1 DEF Rewrites
  <2>. HIDE DEF e, keep, p, old
  <2>5. \/ u \in Uses(old) \ DOMAIN m
        \/ \E r \in Uses(old) \cap DOMAIN m : m[r].k = "reg" /\ m[r].name = u
    BY <1>0, <2>3, <2>4, TrimmedFacts
  <2>6. \A r \in Uses(old) : Available(f, r, l, p)
    <3>1. \A r \in Uses(f.blocks[i].instrs[p]) : Available(f, r, f.blocks[i].label, p)
      BY <1>0, <1>2, <2>1, <2>2, UsesAvailable
    <3>. QED
      BY <2>1, <3>1 DEF old
  <2>7. u \notin DOMAIN m /\ Available(f, u, l, p)
    <3>1. CASE u \in Uses(old) \ DOMAIN m
      BY <2>6, <3>1
    <3>2. CASE \E r \in Uses(old) \cap DOMAIN m : m[r].k = "reg" /\ m[r].name = u
      <4>1. PICK r \in Uses(old) \cap DOMAIN m : m[r].k = "reg" /\ m[r].name = u
        BY <3>2
      <4>2. StandsFor(f, m, r)
        BY <4>1 DEF Stands
      <4>3. PICK k, q : /\ DefinedOnlyAt(f, r, k, q)
                        /\ f.blocks[k].label \in OnSomePath(f) =>
                              u \notin DOMAIN m /\ Available(f, u, f.blocks[k].label, q)
        BY <4>1, <4>2 DEF StandsFor
      <4>4. Available(f, r, f.blocks[i].label, p) /\ r \notin Params(f)
        BY <2>1, <2>6, <4>1, <4>2 DEF StandsFor
      <4>5. p \in Nat \ {0} /\ p <= Len(f.blocks[i].instrs) /\ f.blocks[i].label \in OnSomePath(f)
        BY <2>1, <2>2
      <4>6. /\ f.blocks[k].label \in OnSomePath(f)
            /\ \A v : Available(f, v, f.blocks[k].label, q) => Available(f, v, f.blocks[i].label, p)
        BY <1>0, <1>2, <2>1, <4>3, <4>4, <4>5, AvailableThrough
      <4>. QED
        BY <2>1, <4>3, <4>6
    <3>. QED
      BY <2>5, <3>1, <3>2
  <2>8. Available(f, u, f2.blocks[i].label, Nth(keep[i], j))
    BY <2>7 DEF p
  <2>9. \A k \in 1..Len(f2.blocks) : \A q \in 1..Len(f.blocks[e[k]].instrs) :
             u \in Dest(f.blocks[e[k]].instrs[q]) => q \in keep[k]
    BY <1>4, <2>7
  <2>. QED
    BY <1>0, <1>1, <2>8, <2>9, ThinnedAvailable DEF e, keep
<1> QED
  BY <1>2, <1>5, UsesAvailable

-----------------------------------------------------------------------------
(* The blocks that stay are those some path leads to.                      *)
LEMMA LiveBlocksFacts ==
    ASSUME NEW f, IsFunction(f), CheckCfg(f) = {}
    PROVE  \A i \in 1..Len(f.blocks) : i \in LiveBlocks(f) <=> f.blocks[i].label \in OnSomePath(f)
<1>1. DOMAIN f.blocks = 1..Len(f.blocks) /\ Len(f.blocks) \in Nat
  BY FunctionFacts
<1>2. UniqueLabels(f)
  BY CheckedGraph
<1>3. ASSUME NEW i \in 1..Len(f.blocks), NEW j \in 1..(i - 1) PROVE f.blocks[j].label # f.blocks[i].label
  <2>1. j \in DOMAIN f.blocks /\ i \in DOMAIN f.blocks /\ j # i
    BY <1>1
  <2>. QED
    BY <1>2, <2>1 DEF UniqueLabels
<1> QED
  BY <1>1, <1>3 DEF LiveBlocks

(* A turn of dead-code elimination thins the function out. *)
LEMMA SweptThins ==
    ASSUME NEW f, IsFunction(f), CheckCfg(f) = {}
    PROVE  Thins(Swept(f), f, SweptBlock(f), SweptAt(f))
<1> DEFINE f2 == Swept(f)
           e == SweptBlock(f)
           keep == SweptAt(f)
<1>1. /\ Leaves(f2, f, e, keep) /\ f2.params = f.params /\ IsFunction(f2)
      /\ \A i \in 1..Len(f2.blocks) :
            /\ e[i] \in LiveBlocks(f) /\ LiveBlocks(f) \in SUBSET (1..Len(f.blocks))
            /\ f2.blocks[i].label = f.blocks[e[i]].label
            /\ \A j \in 1..Len(f2.blocks[i].instrs) :
                  f2.blocks[i].instrs[j] = f.blocks[e[i]].instrs[Nth(keep[i], j)]
      /\ \A p \in LiveBlocks(f) : \E i \in 1..Len(f2.blocks) : e[i] = p
  BY SweptLeaves, ZenonT(30) DEF Leaves
<1>2. \A i \in 1..Len(f2.blocks) :
         keep[i] = LiveAt(KeepReachable(f), f.blocks[e[i]].instrs)
  BY DEF SweptBlock, SweptAt
<1> HIDE DEF f2, e, keep
<1>3. \A i \in 1..Len(f.blocks) : i \in LiveBlocks(f) <=> f.blocks[i].label \in OnSomePath(f)
  BY LiveBlocksFacts
<1>4. ClosedUnderEdges(f, OnSomePath(f)) /\ OnSomePath(f) \subseteq Labels(f)
  BY OnSomePathClosed
<1>5. \E i \in 1..Len(f2.blocks) : e[i] = 1
  <2>1. 1 \in 1..Len(f.blocks)
    <3>1. f.blocks # <<>> /\ Len(f.blocks) \in Nat /\ IsList(f.blocks)
      BY CheckedGraph, FunctionFacts DEF IsFunction
    <3>2. Len(f.blocks) # 0
      BY <3>1 DEF IsList
    <3>. QED
      BY <3>1, <3>2
  <2>2. 1 \in LiveBlocks(f)
    BY <1>3, <1>4, <2>1 DEF ClosedUnderEdges, Entry
  <2>. QED
    BY <1>1, <2>2
<1>6. Labels(f2) = {f2.blocks[i].label : i \in 1..Len(f2.blocks)}
  BY <1>1, FunctionFacts DEF Labels
<1>7. ASSUME NEW i \in 1..Len(f2.blocks)
      PROVE  Range(BlockSuccessors(f.blocks[e[i]])) \subseteq Labels(f2)
  <2>1. e[i] \in 1..Len(f.blocks) /\ f.blocks[e[i]].label \in OnSomePath(f)
    BY <1>1, <1>3
  <2>2. Range(BlockSuccessors(f.blocks[e[i]])) \subseteq OnSomePath(f)
    <3>1. Successors(f, f.blocks[e[i]].label) = BlockSuccessors(f.blocks[e[i]])
      BY <2>1, BlockAt
    <3>. QED
      BY <1>4, <2>1, <3>1 DEF ClosedUnderEdges
  <2>. SUFFICES ASSUME NEW x \in OnSomePath(f) PROVE x \in Labels(f2)
    BY <2>2
  <2>3. PICK k \in 1..Len(f.blocks) : f.blocks[k].label = x
    BY <1>4, LabelHasBlock
  <2>4. PICK n \in 1..Len(f2.blocks) : e[n] = k
    BY <1>1, <1>3, <2>3
  <2>. QED
    BY <1>1, <1>6, <2>3, <2>4
<1>8. ASSUME NEW i \in 1..Len(f2.blocks), NEW p \in 1..Len(f.blocks[e[i]].instrs),
             IsTerminator(f.blocks[e[i]].instrs[p])
      PROVE  p \in keep[i]
  <2>1. DOMAIN f.blocks[e[i]].instrs = 1..Len(f.blocks[e[i]].instrs)
    BY <1>1, FunctionFacts, CodeFacts
  <2>. QED
    BY <1>2, <1>8, <2>1 DEF LiveAt, Dead
<1>9. \A i \in 1..Len(f2.blocks) : \A j \in 1..Len(f2.blocks[i].instrs) :
         ThinnedTo(f2.blocks[i].instrs[j], f.blocks[e[i]].instrs[Nth(keep[i], j)])
  BY <1>1 DEF ThinnedTo
<1>10. Thins(f2, f, e, keep)
  BY <1>1, <1>5, <1>7, <1>8, <1>9 DEF Thins
<1> QED
  BY <1>10 DEF f2, e, keep

(* What is read in a block that stays is defined where it was.             *)
LEMMA SweptKeepsUses ==
    ASSUME NEW f, IsFunction(f), WellDefined(f)
    PROVE  WellDefined(Swept(f))
<1> DEFINE f2 == Swept(f)
           e == SweptBlock(f)
           keep == SweptAt(f)
<1>0. CheckCfg(f) = {}
  BY DEF WellDefined
<1>1. Thins(f2, f, e, keep)
  BY <1>0, SweptThins
<1>2. /\ CheckCfg(f2) = {} /\ IsFunction(f2) /\ OnSomePath(f2) \subseteq OnSomePath(f)
  BY <1>0, <1>1, ThinnedGraph
<1>3. \A i \in 1..Len(f2.blocks) :
         /\ keep[i] = LiveAt(KeepReachable(f), f.blocks[e[i]].instrs)
         /\ KeepReachable(f).blocks[i] = f.blocks[e[i]]
         /\ f2.blocks[i].label = f.blocks[e[i]].label
         /\ \A j \in 1..Len(f2.blocks[i].instrs) :
               f2.blocks[i].instrs[j] = f.blocks[e[i]].instrs[Nth(keep[i], j)]
  <2>1. \A i \in 1..Len(f2.blocks) : keep[i] = LiveAt(KeepReachable(f), f.blocks[e[i]].instrs)
    BY DEF SweptBlock, SweptAt
  <2>. HIDE DEF f2, e, keep
  <2>2. \A i \in 1..Len(f2.blocks) :
         /\ KeepReachable(f).blocks[i] = f.blocks[e[i]]
         /\ f2.blocks[i].label = f.blocks[e[i]].label
         /\ \A j \in 1..Len(f2.blocks[i].instrs) :
               f2.blocks[i].instrs[j] = f.blocks[e[i]].instrs[Nth(keep[i], j)]
    BY SweptLeaves, SMTT(30) DEF f2, e, keep
  <2>. QED
    BY <2>1, <2>2
<1>4. Leaves(f2, f, e, keep)
  BY <1>1 DEF Thins
<1>5. Len(f2.blocks) = Len(KeepReachable(f).blocks) /\ IsFunction(KeepReachable(f))
  BY KeepReachableFacts, KeepLiveFacts DEF Swept
<1> HIDE DEF f2, e, keep
<1>6. ASSUME NEW i \in 1..Len(f2.blocks), f2.blocks[i].label \in OnSomePath(f2),
             NEW j \in 1..Len(f2.blocks[i].instrs), NEW u \in Uses(f2.blocks[i].instrs[j])
      PROVE  Available(f2, u, f2.blocks[i].label, j)
  <2> DEFINE p == Nth(keep[i], j)
             old == f.blocks[e[i]].instrs[p]
  <2>1. /\ e[i] \in 1..Len(f.blocks) /\ p \in 1..Len(f.blocks[e[i]].instrs)
        /\ f.blocks[e[i]].label \in OnSomePath(f) /\ u \in Uses(old)
    BY <1>2, <1>3, <1>4, <1>6, KeptPlaces
  <2>2. old \in Instructions(KeepReachable(f))
    <3>1. \A q \in 1..Len(KeepReachable(f).blocks[i].instrs) :
             KeepReachable(f).blocks[i].instrs[q] \in Instructions(KeepReachable(f))
      BY <1>5, FunctionFacts
    <3>. QED
      BY <1>3, <2>1, <3>1
  <2>3. u \in Used(KeepReachable(f))
    BY <2>1, <2>2 DEF Used
  <2>. HIDE DEF old, p
  <2>4. ASSUME NEW k \in 1..Len(f2.blocks), NEW q \in 1..Len(f.blocks[e[k]].instrs),
               u \in Dest(f.blocks[e[k]].instrs[q])
        PROVE  q \in keep[k]
    <3>1. DOMAIN f.blocks[e[k]].instrs = 1..Len(f.blocks[e[k]].instrs)
      BY <1>4, KeptPlaces, CodeFacts
    <3>2. f.blocks[e[k]].instrs[q].dest = u
      BY <2>4 DEF Dest
    <3>. QED
      BY <1>3, <2>3, <3>1, <3>2 DEF LiveAt, Dead
  <2>5. Available(f, u, f.blocks[e[i]].label, p)
    <3>1. \A r \in Uses(f.blocks[e[i]].instrs[p]) : Available(f, r, f.blocks[e[i]].label, p)
      BY <1>0, <2>1, UsesAvailable
    <3>. QED
      BY <2>1, <3>1 DEF old
  <2>6. Available(f, u, f2.blocks[i].label, Nth(keep[i], j))
    BY <1>3, <2>5 DEF p
  <2>. QED
    BY <1>0, <1>1, <2>4, <2>6, ThinnedAvailable
<1>7. WellDefined(f2)
  BY <1>2, <1>6, UsesAvailable
<1> QED
  BY <1>7 DEF f2

-----------------------------------------------------------------------------
(* A value that is not replaced is the end of its chain; one that stands   *)
(* for another and is not replaced is the end after one hop.               *)
LEMMA ChaseStays ==
    ASSUME NEW a, NEW m, Knows(m)
    PROVE  /\ ~(a.k = "reg" /\ a.name \in DOMAIN m) => Chase(a, m) = a
           /\ a.k = "reg" /\ a.name \in DOMAIN m /\ ~(m[a.name].k = "reg" /\ m[a.name].name \in DOMAIN m)
                => Chase(a, m) = m[a.name]
<1>1. PICK h : Hops(a, m, h) /\ Chase(a, m) = h[Cardinality(DOMAIN m)]
  BY ChaseHops
<1>2. PICK c \in Nat : c = Cardinality(DOMAIN m)
  BY FS_CardinalityType DEF Knows
<1>3. h[0] = a /\ \A n \in 1..c : h[n] = Resolve(h[n - 1], m)
  BY <1>1, <1>2 DEF Hops
<1>4. ASSUME ~(a.k = "reg" /\ a.name \in DOMAIN m) PROVE h[c] = a
  <2> DEFINE S == {n \in 0..c : h[n] = a}
  <2>1. Inductive(S, 0, c)
    <3>1. 0 \in S
      BY <1>3
    <3>2. ASSUME NEW n \in 0..(c - 1), n \in S PROVE n + 1 \in S
      <4>1. n + 1 \in 1..c /\ (n + 1) - 1 = n
        OBVIOUS
      <4>2. h[n + 1] = Resolve(a, m)
        BY <1>3, <3>2, <4>1
      <4>. QED
        BY <1>4, <4>1, <4>2 DEF Resolve
    <3>. QED
      BY <3>1, <3>2 DEF Inductive
  <2>2. \A n \in 0..c : n \in S
    <3>. HIDE DEF S
    <3>. QED
      BY <2>1, UpTo
  <2>. QED
    BY <2>2
<1>5. ASSUME a.k = "reg", a.name \in DOMAIN m, ~(m[a.name].k = "reg" /\ m[a.name].name \in DOMAIN m)
      PROVE  h[c] = m[a.name]
  <2> DEFINE S == {n \in 1..c : h[n] = m[a.name]}
  <2>1. 1 <= c
    <3>1. IsFiniteSet(DOMAIN m) /\ DOMAIN m # {}
      BY <1>5 DEF Knows
    <3>2. Cardinality(DOMAIN m) # 0
      BY <3>1, FS_EmptySet
    <3>. QED
      BY <1>2, <3>2
  <2>2. Inductive(S, 1, c)
    <3>1. 1 \in S
      <4>1. 1 \in 1..c /\ 1 - 1 = 0
        BY <2>1
      <4>2. h[1] = Resolve(a, m)
        BY <1>3, <4>1
      <4>. QED
        BY <1>5, <4>1, <4>2 DEF Resolve
    <3>2. ASSUME NEW n \in 1..(c - 1), n \in S PROVE n + 1 \in S
      <4>1. n + 1 \in 1..c /\ (n + 1) - 1 = n
        OBVIOUS
      <4>2. h[n + 1] = Resolve(m[a.name], m)
        BY <1>3, <3>2, <4>1
      <4>. QED
        BY <1>5, <4>1, <4>2 DEF Resolve
    <3>. QED
      BY <3>1, <3>2 DEF Inductive
  <2>3. \A n \in 1..c : n \in S
    <3>. HIDE DEF S
    <3>. QED
      BY <2>2, UpTo
  <2>. QED
    BY <2>1, <2>3
<1> QED
  BY <1>1, <1>2, <1>4, <1>5

(* The places of a function and the positions of its listing.              *)
Layout(f, start) == Flattens(Code(f), Listing(f), start)

(* A function has a layout.                                                *)
LEMMA Layouts ==
    ASSUME NEW f, IsFunction(f)
    PROVE  \E start : Layout(f, start)
BY ListingFlattens DEF Layout

(* Every place has its position in the listing, and every position its     *)
(* place.                                                                  *)
LEMMA LayoutFacts ==
    ASSUME NEW f, IsFunction(f), NEW start, Layout(f, start)
    PROVE  /\ \A r, i, p : DefinedAt(f, r, i, p) =>
                start[i] + p \in 1..Len(Listing(f)) /\ Listing(f)[start[i] + p].dest = r
           /\ \A k \in 1..Len(Listing(f)) :
                \E i \in 1..Len(f.blocks) : \E p \in 1..Len(f.blocks[i].instrs) :
                   k = start[i] + p /\ Listing(f)[k] = f.blocks[i].instrs[p]
<1>1. Flattens(Code(f), Listing(f), start)
  BY DEF Layout
<1>2. /\ \A i \in 1..Len(f.blocks) : \A j \in 1..Len(f.blocks[i].instrs) :
                /\ start[i] + j \in 1..Len(Listing(f))
                /\ Listing(f)[start[i] + j] = f.blocks[i].instrs[j]
      /\ \A k \in 1..Len(Listing(f)) :
                \E i \in 1..Len(f.blocks) : \E j \in 1..Len(f.blocks[i].instrs) :
                    k = start[i] + j /\ Listing(f)[k] = f.blocks[i].instrs[j]
  BY <1>1, ListedPlaces
<1>3. ASSUME NEW r, NEW i, NEW p, DefinedAt(f, r, i, p)
      PROVE  start[i] + p \in 1..Len(Listing(f)) /\ Listing(f)[start[i] + p].dest = r
  <2>1. i \in 1..Len(f.blocks) /\ p \in 1..Len(f.blocks[i].instrs) /\ r \in Dest(f.blocks[i].instrs[p])
    BY <1>3 DEF DefinedAt
  <2>. QED
    BY <1>2, <2>1 DEF Dest
<1> QED
  BY <1>2, <1>3

(* The place of one position.                                              *)
LEMMA LayoutPlace ==
    ASSUME NEW f, IsFunction(f), NEW start, Layout(f, start), NEW k \in 1..Len(Listing(f))
    PROVE  \E i \in 1..Len(f.blocks) : \E p \in 1..Len(f.blocks[i].instrs) :
              k = start[i] + p /\ Listing(f)[k] = f.blocks[i].instrs[p]
BY LayoutFacts

(* Positions are in the order of places.                                   *)
LEMMA LayoutOrder ==
    ASSUME NEW f, IsFunction(f), NEW start, Layout(f, start),
           NEW i \in 1..Len(f.blocks), NEW p \in 1..Len(f.blocks[i].instrs),
           NEW k \in 1..Len(f.blocks), NEW q \in 1..Len(f.blocks[k].instrs)
    PROVE  /\ i < k \/ (i = k /\ p < q) => start[i] + p < start[k] + q
           /\ start[i] + p = start[k] + q => i = k /\ p = q
<1>1. AreLists(Code(f)) /\ Len(Code(f)) = Len(f.blocks) /\ Code(f)[i] = f.blocks[i].instrs
      /\ Code(f)[k] = f.blocks[k].instrs
  BY ListingFlattens
<1>2. Starts(Code(f), start)
  BY DEF Layout, Flattens
<1>3. /\ i < k => start[i] + p < start[k] + q
      /\ i = k /\ p < q => start[i] + p < start[k] + q
  <2>1. i \in 1..Len(Code(f)) /\ p \in 1..Len(Code(f)[i]) /\ k \in 1..Len(Code(f)) /\ q \in 1..Len(Code(f)[k])
    BY <1>1
  <2>. QED
    BY <1>1, <1>2, <2>1, PlaceOrder
<1>4. ASSUME start[i] + p = start[k] + q PROVE i = k /\ p = q
  <2>1. i \in 1..Len(Code(f)) /\ p \in 1..Len(Code(f)[i]) /\ k \in 1..Len(Code(f)) /\ q \in 1..Len(Code(f)[k])
    BY <1>1
  <2>. QED
    BY <1>1, <1>2, <1>4, <2>1, PlaceUnique
<1> QED
  BY <1>3, <1>4

(* A register the pass counted one definition of has one place.            *)
LEMMA OnceAt ==
    ASSUME NEW f, IsFunction(f), NEW S, Once(f, S), NEW r \in S, NEW start, Layout(f, start),
           NEW i \in 1..Len(f.blocks), NEW p \in 1..Len(f.blocks[i].instrs), f.blocks[i].instrs[p].dest = r
    PROVE  DefinedOnlyAt(f, r, i, p)
<1>1. r # NoName
  BY DEF Once
<1>2. DefinedAt(f, r, i, p)
  BY <1>1 DEF DefinedAt, Dest
<1>3. ASSUME NEW j, NEW q, DefinedAt(f, r, j, q) PROVE j = i /\ q = p
  <2>1. /\ start[i] + p \in 1..Len(Listing(f)) /\ Listing(f)[start[i] + p].dest = r
        /\ start[j] + q \in 1..Len(Listing(f)) /\ Listing(f)[start[j] + q].dest = r
    BY <1>2, <1>3, LayoutFacts
  <2>2. start[i] + p = start[j] + q
    BY <2>1 DEF Once
  <2>3. j \in 1..Len(f.blocks) /\ q \in 1..Len(f.blocks[j].instrs)
    BY <1>3 DEF DefinedAt
  <2>. QED
    BY <2>2, <2>3, LayoutOrder
<1> QED
  BY <1>2, <1>3 DEF DefinedOnlyAt

-----------------------------------------------------------------------------
(* What is assigned nowhere after a position and available at it: a        *)
(* parameter, or defined before the position.                              *)
HeldBehind(f, v, n) == v \in Params(f) \/ \E k \in 1..(n - 1) : Listing(f)[k].dest = v

(* What is available at a place of a function listed in order is behind    *)
(* it.                                                                     *)
LEMMA EarlierBehind ==
    ASSUME NEW f, IsFunction(f), CheckCfg(f) = {}, ListedInOrder(f), NEW start, Layout(f, start),
           NEW k \in 1..Len(f.blocks), f.blocks[k].label \in OnSomePath(f),
           NEW q \in 1..Len(f.blocks[k].instrs), NEW r, Available(f, r, f.blocks[k].label, q)
    PROVE  HeldBehind(f, r, start[k] + q)
<1>1. SUFFICES ASSUME r \notin Params(f) PROVE HeldBehind(f, r, start[k] + q)
  BY DEF HeldBehind
<1>2. Len(f.blocks[k].instrs) \in Nat /\ Len(f.blocks) \in Nat /\ q \in Nat \ {0}
  BY FunctionFacts, CodeFacts
<1>3. \/ \E p \in 1..(q - 1) : r \in Dest(f.blocks[k].instrs[p])
      \/ \E i \in 1..(k - 1) : \E p \in 1..Len(f.blocks[i].instrs) : DefinedAt(f, r, i, p)
  BY <1>1, <1>2, DefinedEarlier
<1>4. PICK i, p : DefinedAt(f, r, i, p) /\ (i < k \/ (i = k /\ p < q))
  <2>1. CASE \E p \in 1..(q - 1) : r \in Dest(f.blocks[k].instrs[p])
    <3>1. PICK p \in 1..(q - 1) : r \in Dest(f.blocks[k].instrs[p])
      BY <2>1
    <3>2. DefinedAt(f, r, k, p) /\ p < q
      BY <1>2, <3>1 DEF DefinedAt
    <3>. QED
      BY <3>2
  <2>2. CASE \E i \in 1..(k - 1) : \E p \in 1..Len(f.blocks[i].instrs) : DefinedAt(f, r, i, p)
    BY <2>2
  <2>. QED
    BY <1>3, <2>1, <2>2
<1>5. i \in 1..Len(f.blocks) /\ p \in 1..Len(f.blocks[i].instrs)
  BY <1>4 DEF DefinedAt
<1>6. start[i] + p < start[k] + q
  BY <1>4, <1>5, LayoutOrder
<1>7. start[i] + p \in 1..Len(Listing(f)) /\ Listing(f)[start[i] + p].dest = r
  BY <1>4, LayoutFacts
<1>8. start[k] + q \in 1..Len(Listing(f)) /\ Len(Listing(f)) \in Nat
  <2>1. Flattens(Code(f), Listing(f), start)
    BY DEF Layout
  <2>. QED
    BY <2>1, ListedPlaces, ListedInstrs
<1>9. start[i] + p \in 1..((start[k] + q) - 1)
  <2> DEFINE x == start[i] + p
             y == start[k] + q
  <2>1. x \in 1..Len(Listing(f)) /\ y \in 1..Len(Listing(f)) /\ x < y
    BY <1>6, <1>7, <1>8
  <2>. HIDE DEF x, y
  <2>2. x \in 1..(y - 1)
    BY <1>8, <2>1
  <2>. QED
    BY <2>2 DEF x, y
<1> QED
  BY <1>7, <1>9 DEF HeldBehind

(* What the listing defines is no parameter.                               *)
LEMMA NotAParam ==
    ASSUME NEW f, IsFunction(f), ParamsKept(f), NEW k \in 1..Len(Listing(f)), NEW r, Listing(f)[k].dest = r
    PROVE  r \notin Params(f)
<1>1. k \in DefinitionsOf(f, r)
  BY ListedInstrs DEF DefinitionsOf
<1> QED
  BY <1>1 DEF ParamsKept

(* What a copy stands for holds where the copy is defined, if a path leads *)
(* there: it is not replaced, it is behind, and it is available.           *)
Carried(f, m, n, r) ==
    m[r].k = "reg" =>
        \A i, p : DefinedAt(f, r, i, p) /\ f.blocks[i].label \in OnSomePath(f) =>
            /\ m[r].name \notin DOMAIN m /\ HeldBehind(f, m[r].name, n)
            /\ Available(f, m[r].name, f.blocks[i].label, p)
ValuesKept ==
    /\ pass = "constfold" => \A r \in DOMAIN known : known[r].k # "reg"
    /\ pass = "copyprop" /\ Keepable(fn) => \A r \in DOMAIN known : Carried(fn, known, at, r)

(* A known register is defined at one place, behind the walk.              *)
LEMMA KnownPlace ==
    ASSUME Inv, NEW start, Layout(fn, start), NEW r \in DOMAIN known
    PROVE  \E i \in 1..Len(fn.blocks) : \E p \in 1..Len(fn.blocks[i].instrs) :
              DefinedOnlyAt(fn, r, i, p) /\ start[i] + p \in 1..(at - 1)
<1>1. IsFunction(fn) /\ Once(fn, single) /\ r \in single /\ Len(Listing(fn)) \in Nat
  BY ListedInstrs DEF Inv, TypeOK, KnownBehind
<1>2. PICK k \in 1..(at - 1) : Listing(fn)[k].dest = r
  BY DEF Inv, KnownBehind
<1>3. k \in 1..Len(Listing(fn))
  BY <1>1, <1>2 DEF Inv, TypeOK
<1>4. PICK i \in 1..Len(fn.blocks) : \E p \in 1..Len(fn.blocks[i].instrs) :
         k = start[i] + p /\ Listing(fn)[k] = fn.blocks[i].instrs[p]
  <2>1. \A x \in 1..Len(Listing(fn)) :
           \E i \in 1..Len(fn.blocks) : \E p \in 1..Len(fn.blocks[i].instrs) :
              x = start[i] + p /\ Listing(fn)[x] = fn.blocks[i].instrs[p]
    BY <1>1, LayoutFacts
  <2>. QED
    BY <1>3, <2>1
<1>5. PICK p \in 1..Len(fn.blocks[i].instrs) : k = start[i] + p /\ Listing(fn)[k] = fn.blocks[i].instrs[p]
  BY <1>4
<1>6. fn.blocks[i].instrs[p].dest = r
  BY <1>2, <1>5
<1>7. DefinedOnlyAt(fn, r, i, p)
  BY <1>1, <1>6, OnceAt
<1> QED
  BY <1>2, <1>5, <1>7

(* A known register is no parameter.                                       *)
LEMMA KnownNotParam ==
    ASSUME Inv, ParamsKept(fn), NEW r \in DOMAIN known
    PROVE  r \notin Params(fn)
<1>1. PICK k \in 1..(at - 1) : Listing(fn)[k].dest = r
  BY DEF Inv, KnownBehind
<1>2. k \in 1..Len(Listing(fn)) /\ IsFunction(fn)
  BY <1>1, ListedInstrs DEF Inv, TypeOK
<1> QED
  BY <1>1, <1>2, NotAParam

-----------------------------------------------------------------------------
(* The value a copy is bound to.                                           *)
LEMMA CopyHolds ==
    ASSUME Inv, ValuesKept, Keepable(fn), pass = "copyprop", at # Len(Listing(fn)) + 1,
           Ins.dest \in single, IsCopy(Ins), NEW start, Layout(fn, start),
           NEW v, v = Chase(CopySource(Ins), known), v.k = "reg",
           NEW i \in 1..Len(fn.blocks), NEW p \in 1..Len(fn.blocks[i].instrs),
           at = start[i] + p, Ins = fn.blocks[i].instrs[p], fn.blocks[i].label \in OnSomePath(fn)
    PROVE  /\ v.name \notin DOMAIN known /\ HeldBehind(fn, v.name, at)
           /\ Available(fn, v.name, fn.blocks[i].label, p)
<1> DEFINE src == CopySource(Ins)
           l == fn.blocks[i].label
<1>1. /\ IsFunction(fn) /\ Knows(known) /\ CheckCfg(fn) = {} /\ WellDefined(fn) /\ ListedInOrder(fn)
      /\ ParamsKept(fn) /\ IsInstr(Ins)
  BY WalkStep DEF Inv, TypeOK, Keepable, WellDefined
<1>2. IsOperand(src)
  BY <1>1, CopySourceFacts
<1>3. src.k = "reg"
  <2>1. SUFFICES ASSUME src.k # "reg" PROVE FALSE
    OBVIOUS
  <2>2. v = src
    BY <1>1, <2>1, ChaseStays
  <2>. QED
    BY <2>1, <2>2
<1>4. src.name \in Uses(Ins)
  <2>1. Len(Ins.args) = 2 /\ IsList(Ins.args)
    BY <1>1 DEF IsCopy, IsInstr
  <2>2. 1 \in DOMAIN Ins.args /\ 2 \in DOMAIN Ins.args
    BY <2>1, ListDomain
  <2>3. src \in Range(Ins.args)
    BY <2>2 DEF CopySource, Range
  <2>. HIDE DEF src
  <2>. QED
    BY <1>3, <2>3 DEF Uses
<1> HIDE DEF src
<1>5. Available(fn, src.name, l, p)
  <2>1. \A u \in Uses(fn.blocks[i].instrs[p]) : Available(fn, u, fn.blocks[i].label, p)
    BY <1>1, UsesAvailable
  <2>. QED
    BY <1>4, <2>1
<1>6. CASE src.name \notin DOMAIN known
  <2>1. v = src
    BY <1>1, <1>6, ChaseStays DEF src
  <2>2. HeldBehind(fn, src.name, start[i] + p)
    BY <1>1, <1>5, EarlierBehind
  <2>. QED
    BY <1>5, <1>6, <2>1, <2>2
<1>7. CASE src.name \in DOMAIN known
  <2>1. PICK s : s = src.name /\ s \in DOMAIN known
    BY <1>7
  <2>2. s \notin Params(fn)
    BY <1>1, <2>1, KnownNotParam
  <2>3. PICK k \in 1..Len(fn.blocks) : \E q \in 1..Len(fn.blocks[k].instrs) :
              DefinedOnlyAt(fn, s, k, q) /\ start[k] + q \in 1..(at - 1)
    BY <2>1, KnownPlace
  <2>4. PICK q \in 1..Len(fn.blocks[k].instrs) : DefinedOnlyAt(fn, s, k, q)
    BY <2>3
  <2>5. p \in Nat \ {0} /\ p <= Len(fn.blocks[i].instrs) /\ Len(fn.blocks[i].instrs) \in Nat
    BY <1>1, FunctionFacts, CodeFacts
  <2>6. Available(fn, s, fn.blocks[i].label, p)
    BY <1>5, <2>1
  <2>7. /\ fn.blocks[k].label \in OnSomePath(fn)
        /\ \A w : Available(fn, w, fn.blocks[k].label, q) => Available(fn, w, fn.blocks[i].label, p)
    BY <1>1, <2>2, <2>4, <2>5, <2>6, AvailableThrough
  <2>8. known[s].k = "reg" =>
          /\ known[s].name \notin DOMAIN known /\ HeldBehind(fn, known[s].name, at)
          /\ Available(fn, known[s].name, fn.blocks[k].label, q)
    BY <2>1, <2>4, <2>7 DEF ValuesKept, Carried, DefinedOnlyAt
  <2>9. ~(known[s].k = "reg" /\ known[s].name \in DOMAIN known)
    BY <2>8
  <2>10. v = known[s]
    BY <1>1, <1>3, <2>1, <2>9, ChaseStays DEF src
  <2>. QED
    BY <2>7, <2>8, <2>10
<1> QED
  BY <1>6, <1>7

(* Binding another register or going on takes nothing from what is carried. *)
LEMMA CarriedOn ==
    ASSUME Inv, ParamsKept(fn), at # Len(Listing(fn)) + 1, NEW r \in DOMAIN known, NEW n, n = at + 1,
           Carried(fn, known, at, r), NEW m, m[r] = known[r],
           \/ m = known
           \/ Ins.dest \in single /\ DOMAIN m = DOMAIN known \cup {Ins.dest}
    PROVE  Carried(fn, m, n, r)
<1>. SUFFICES ASSUME m[r].k = "reg", NEW i, NEW p, DefinedAt(fn, r, i, p),
                     fn.blocks[i].label \in OnSomePath(fn)
              PROVE  /\ m[r].name \notin DOMAIN m /\ HeldBehind(fn, m[r].name, n)
                     /\ Available(fn, m[r].name, fn.blocks[i].label, p)
  BY DEF Carried
<1>1. at \in 1..Len(Listing(fn)) /\ Len(Listing(fn)) \in Nat /\ IsFunction(fn)
  BY WalkStep DEF Inv, TypeOK
<1>2. PICK v : v = m[r].name /\ v = known[r].name
  OBVIOUS
<1>3. v \notin DOMAIN known /\ HeldBehind(fn, v, at) /\ Available(fn, v, fn.blocks[i].label, p)
  BY <1>2 DEF Carried
<1>4. HeldBehind(fn, v, n)
  <2>1. 1..(at - 1) \subseteq 1..(n - 1)
    BY <1>1
  <2>. QED
    BY <1>3, <2>1 DEF HeldBehind
<1>5. Ins.dest \in single => v # Ins.dest
  <2>1. SUFFICES ASSUME Ins.dest \in single, v = Ins.dest PROVE FALSE
    OBVIOUS
  <2>2. Listing(fn)[at].dest = v
    BY <2>1 DEF Ins
  <2>3. CASE v \in Params(fn)
    BY <1>1, <2>2, <2>3, NotAParam
  <2>4. CASE \E k \in 1..(at - 1) : Listing(fn)[k].dest = v
    <3>1. PICK k \in 1..(at - 1) : Listing(fn)[k].dest = v
      BY <2>4
    <3>2. k \in 1..Len(Listing(fn)) /\ k # at
      BY <1>1
    <3>. QED
      BY <1>1, <2>1, <2>2, <3>1, <3>2 DEF Inv, Once
  <2>. QED
    BY <1>3, <2>3, <2>4 DEF HeldBehind
<1> QED
  BY <1>2, <1>3, <1>4, <1>5

-----------------------------------------------------------------------------
(* The place of the instruction a walk is at. *)
LEMMA InsPlace ==
    ASSUME Inv, at # Len(Listing(fn)) + 1, NEW start, Layout(fn, start)
    PROVE  \E i \in 1..Len(fn.blocks) : \E p \in 1..Len(fn.blocks[i].instrs) :
              at = start[i] + p /\ Ins = fn.blocks[i].instrs[p]
<1>1. at \in 1..Len(Listing(fn)) /\ IsFunction(fn)
  BY WalkStep DEF Inv, TypeOK
<1>3. PICK i \in 1..Len(fn.blocks) : \E p \in 1..Len(fn.blocks[i].instrs) :
            at = start[i] + p /\ Listing(fn)[at] = fn.blocks[i].instrs[p]
  BY <1>1, LayoutPlace
<1> QED
  BY <1>3 DEF Ins

(* The table is empty when run() begins.                                   *)
LEMMA InitValues == Init => ValuesKept
<1>1. ASSUME Init PROVE DOMAIN known = {}
  BY <1>1, NothingKnown DEF Init
<1> QED
  BY <1>1 DEF ValuesKept

(* Constant folding binds constants.                                       *)
LEMMA ValuesFold == Inv /\ ValuesKept /\ FoldInstr => ValuesKept'
<1>. SUFFICES ASSUME Inv, ValuesKept, FoldInstr PROVE ValuesKept'
  OBVIOUS
<1>1. /\ pass = "constfold" /\ pass' = "constfold" /\ at # Len(Listing(fn)) + 1
  BY DEF FoldInstr, Analysed
<1> DEFINE v == Folded(Substitute(Ins, known))
<1>2. \/ known' = known
      \/ Ins.dest \in single /\ known' = Bind(known, Ins.dest, v)
  BY DEF FoldInstr
<1>3. v.k # "reg"
  BY DEF Folded, ConstInt
<1> HIDE DEF v
<1>4. \A r \in DOMAIN known : known[r].k # "reg"
  BY <1>1 DEF ValuesKept
<1>5. \A r \in DOMAIN known' : known'[r].k # "reg"
  BY <1>2, <1>3, <1>4 DEF Bind
<1> QED
  BY <1>1, <1>5 DEF ValuesKept

(* Copy propagation binds what the copy stands for.                        *)
LEMMA ValuesCopy == Inv /\ ValuesKept /\ CopyInstr => ValuesKept'
<1>. SUFFICES ASSUME Inv, ValuesKept, CopyInstr PROVE ValuesKept'
  OBVIOUS
<1>1. /\ pass = "copyprop" /\ pass' = "copyprop" /\ at # Len(Listing(fn)) + 1
      /\ at' = at + 1 /\ fn' = fn
  BY DEF CopyInstr, Analysed
<1>2. SUFFICES ASSUME Keepable(fn), NEW r \in DOMAIN known' PROVE Carried(fn, known', at', r)
  BY <1>1 DEF ValuesKept
<1>3. /\ ParamsKept(fn) /\ IsFunction(fn) /\ Knows(known) /\ IsInstr(Ins) /\ at \in 1..Len(Listing(fn))
      /\ Ins.dest \in single => Ins.dest # NoName /\ Ins.dest \notin DOMAIN known
  BY <1>1, <1>2, WalkStep DEF Keepable, Inv, TypeOK
<1> DEFINE v == Chase(CopySource(Ins), known)
<1>4. \/ known' = known
      \/ /\ Ins.dest \in single /\ known' = Bind(known, Ins.dest, v)
         /\ IsCopy(Ins) /\ NamesAnother(Ins, v)
  BY DEF CopyInstr
<1> HIDE DEF v
<1>5. \A x \in DOMAIN known : Carried(fn, known, at, x)
  BY <1>1, <1>2 DEF ValuesKept
<1>6. CASE known' = known
  <2>1. r \in DOMAIN known /\ Carried(fn, known, at, r)
    BY <1>2, <1>5, <1>6
  <2>. QED
    BY <1>1, <1>3, <1>6, <2>1, CarriedOn
<1>7. CASE /\ Ins.dest \in single /\ known' = Bind(known, Ins.dest, v)
           /\ IsCopy(Ins) /\ NamesAnother(Ins, v)
  <2>1. DOMAIN known' = DOMAIN known \cup {Ins.dest} /\ known'[Ins.dest] = v
        /\ \A x \in DOMAIN known : known'[x] = known[x]
    BY <1>3, <1>7 DEF Bind
  <2>2. CASE r \in DOMAIN known
    <3>1. Carried(fn, known, at, r) /\ known'[r] = known[r]
      BY <1>5, <2>1, <2>2
    <3>. QED
      BY <1>1, <1>3, <1>7, <2>1, <2>2, <3>1, CarriedOn
  <2>3. CASE r = Ins.dest
    <3>. SUFFICES ASSUME v.k = "reg", NEW j, NEW q, DefinedAt(fn, r, j, q),
                         fn.blocks[j].label \in OnSomePath(fn)
                  PROVE  /\ v.name \notin DOMAIN known' /\ HeldBehind(fn, v.name, at')
                         /\ Available(fn, v.name, fn.blocks[j].label, q)
      BY <2>1, <2>3 DEF Carried
    <3>1. PICK start : Layout(fn, start)
      BY <1>3, Layouts
    <3>2. PICK i \in 1..Len(fn.blocks) : \E p \in 1..Len(fn.blocks[i].instrs) :
             at = start[i] + p /\ Ins = fn.blocks[i].instrs[p]
      BY <1>1, <3>1, InsPlace
    <3>3. PICK p \in 1..Len(fn.blocks[i].instrs) : at = start[i] + p /\ Ins = fn.blocks[i].instrs[p]
      BY <3>2
    <3>4. DefinedOnlyAt(fn, r, i, p)
      <4>1. Once(fn, single) /\ r \in single /\ fn.blocks[i].instrs[p].dest = r
        BY <1>7, <2>3, <3>3 DEF Inv
      <4>. QED
        BY <1>3, <3>1, <4>1, OnceAt
    <3>5. j = i /\ q = p
      BY <3>4 DEF DefinedOnlyAt
    <3>6. /\ v.name \notin DOMAIN known /\ HeldBehind(fn, v.name, at)
          /\ Available(fn, v.name, fn.blocks[i].label, p)
      <4>1. v = Chase(CopySource(Ins), known) /\ fn.blocks[i].label \in OnSomePath(fn)
        BY <3>5 DEF v
      <4>. QED
        BY <1>1, <1>2, <1>7, <3>1, <3>3, <4>1, CopyHolds
    <3>7. v.name # Ins.dest
      BY <1>7 DEF NamesAnother
    <3>8. HeldBehind(fn, v.name, at')
      <4>1. 1..(at - 1) \subseteq 1..(at' - 1)
        BY <1>1, <1>3, ListedInstrs
      <4>. QED
        BY <3>6, <4>1 DEF HeldBehind
    <3>. QED
      BY <2>1, <3>5, <3>6, <3>7, <3>8
  <2>. QED
    BY <2>1, <2>2, <2>3
<1> QED
  BY <1>4, <1>6, <1>7

(* Every step keeps what is claimed of the values of the table.            *)
LEMMA ValuesStep == Inv /\ ValuesKept /\ [Next]_vars => ValuesKept'
<1>. SUFFICES ASSUME Inv, ValuesKept, [Next]_vars PROVE ValuesKept'
  OBVIOUS
<1>1. ASSUME known' = <<>> PROVE ValuesKept'
  <2>1. DOMAIN known' = {}
    BY <1>1, NothingKnown
  <2>. QED
    BY <2>1 DEF ValuesKept
<1>2. CASE FoldRewrite
  <2>1. IsFunction(fn') /\ Once(fn', single) /\ pass # "done" /\ TypeOK /\ (Again \/ Return)
    BY <1>2, FoldRewriteSteps DEF Inv
  <2>. QED
    BY <1>1, <2>1, Resumes
<1>3. CASE CopyRewrite
  <2>1. IsFunction(fn') /\ Once(fn', single) /\ pass # "done" /\ TypeOK /\ (Again \/ Return)
    BY <1>3, CopyRewriteSteps DEF Inv
  <2>. QED
    BY <1>1, <2>1, Resumes
<1>4. CASE Eliminate
  <2>1. IsFunction(fn') /\ Once(fn', single) /\ pass # "done" /\ TypeOK /\ (Again \/ Return)
    BY <1>4, EliminateSteps DEF Inv
  <2>. QED
    BY <1>1, <2>1, Resumes
<1>5. CASE UNCHANGED vars
  BY <1>5 DEF vars, ValuesKept
<1> QED
  BY <1>2, <1>3, <1>4, <1>5, ValuesFold, ValuesCopy DEF Next

(* So, at a rewriting, what the table holds stands for what it replaces.   *)
LEMMA CopiesStand ==
    ASSUME Inv, ValuesKept, Keepable(fn), pass \in {"constfold", "copyprop"}
    PROVE  Stands(fn, known)
<1>. SUFFICES ASSUME NEW r \in DOMAIN known, known[r].k = "reg" PROVE StandsFor(fn, known, r)
  BY DEF Stands
<1>1. Carried(fn, known, at, r)
  BY DEF ValuesKept
<1>2. r \notin Params(fn)
  BY KnownNotParam DEF Keepable
<1>3. PICK start : Layout(fn, start)
  BY Layouts DEF Inv, TypeOK
<1>4. PICK i \in 1..Len(fn.blocks) : \E p \in 1..Len(fn.blocks[i].instrs) :
              DefinedOnlyAt(fn, r, i, p) /\ start[i] + p \in 1..(at - 1)
  BY <1>3, KnownPlace
<1>5. PICK p \in 1..Len(fn.blocks[i].instrs) : DefinedOnlyAt(fn, r, i, p)
  BY <1>4
<1> QED
  BY <1>1, <1>2, <1>5 DEF StandsFor, Carried, DefinedOnlyAt

-----------------------------------------------------------------------------
(* A rewriting assigns no parameter.                                       *)
LEMMA ParamsStay ==
    ASSUME NEW f, NEW f2, IsFunction(f), IsFunction(f2), f2.params = f.params, ParamsKept(f),
           NEW em, Drawn(Listing(f2), Listing(f), em)
    PROVE  ParamsKept(f2)
<1>. SUFFICES ASSUME NEW q \in Params(f2), NEW k \in DefinitionsOf(f2, q) PROVE FALSE
  BY DEF ParamsKept
<1>1. q \in Params(f)
  BY DEF Params
<1>2. k \in 1..Len(Listing(f2)) /\ Listing(f2)[k].dest = q
  BY ListedInstrs DEF DefinitionsOf
<1>3. em[k] \in 1..Len(Listing(f)) /\ Listing(f)[em[k]].dest = q
  BY <1>2 DEF Drawn
<1> QED
  BY <1>1, <1>3, NotAParam

(* A function thinned out to one without undefined uses is as good as it   *)
(* was.                                                                    *)
LEMMA ThinnedKeeps ==
    ASSUME NEW f, NEW f2, Keepable(f), NEW e, NEW keep, Thins(f2, f, e, keep), WellDefined(f2),
           NEW em, Drawn(Listing(f2), Listing(f), em)
    PROVE  Keepable(f2)
<1>1. CheckCfg(f) = {} /\ ListedInOrder(f) /\ ParamsKept(f)
  BY DEF Keepable, WellDefined
<1>2. IsFunction(f) /\ IsFunction(f2) /\ f2.params = f.params
  BY DEF Thins, Leaves
<1> QED
  BY <1>1, <1>2, ThinnedOrder, ParamsStay DEF Keepable

(* No step makes a good function a bad one.                                *)
LEMMA KeepableStep ==
    ASSUME Inv, ValuesKept, Keepable(fn), [Next]_vars
    PROVE  Keepable(fn')
<1>1. IsFunction(fn) /\ CheckCfg(fn) = {} /\ WellDefined(fn)
  BY DEF Inv, TypeOK, Keepable, WellDefined
<1>2. CASE \E m : Rewrites(fn', fn, m) /\ Stands(fn, m)
  <2>1. PICK m : Rewrites(fn', fn, m) /\ Stands(fn, m)
    BY <1>2
  <2>2. Thins(fn', fn, SameBlock(fn), UndroppedAt(fn, m))
    BY <1>1, <2>1, RewritesThin
  <2>3. WellDefined(fn')
    BY <1>1, <2>1, RewritesKeepUses
  <2>4. PICK em : Drawn(Listing(fn'), Listing(fn), em)
    BY <2>1, RewritesDraws
  <2>. QED
    BY <2>2, <2>3, <2>4, ThinnedKeeps
<1>3. CASE FoldRewrite
  <2>1. Rewrites(fn', fn, known) /\ Stands(fn, known)
    BY <1>3, FoldRewriteSteps, CopiesStand
  <2>. QED
    BY <1>2, <2>1
<1>4. CASE CopyRewrite
  <2>1. Rewrites(fn', fn, known) /\ Stands(fn, known)
    BY <1>4, CopyRewriteSteps, CopiesStand
  <2>. QED
    BY <1>2, <2>1
<1>5. CASE Eliminate
  <2>1. fn' = Swept(fn)
    BY <1>5, EliminateSteps
  <2>2. WellDefined(Swept(fn))
    BY <1>1, SweptKeepsUses
  <2>3. PICK em : Drawn(Listing(Swept(fn)), Listing(fn), em)
    BY <1>1, SweptFacts
  <2>4. Thins(Swept(fn), fn, SweptBlock(fn), SweptAt(fn))
    BY <1>1, SweptThins
  <2>. QED
    BY <2>1, <2>2, <2>3, <2>4, ThinnedKeeps
<1>6. CASE FoldInstr \/ CopyInstr \/ UNCHANGED vars
  <2>1. fn' = fn
    BY <1>6 DEF FoldInstr, CopyInstr, vars
  <2>. QED
    BY <2>1
<1> QED
  BY <1>3, <1>4, <1>5, <1>6 DEF Next

(* Whatever the passes do to a function without a use of an undefined      *)
(* register, listed in order and with its parameters never assigned, leaves *)
(* such a function (Passes.h:99).                                          *)
THEOREM KeepsDefined == Spec => StaysWellDefined
<1>1. Inv /\ ValuesKept /\ [Next]_vars => [fn' # fn /\ Keepable(fn) => Keepable(fn')]_vars
  BY KeepableStep
<1> QED
  BY <1>1, InitInv, InvStep, InitValues, ValuesStep, PTL DEF Spec, StaysWellDefined

(* So a program of such functions never has, at any moment of the          *)
(* optimisation, a use some path reaches undefined or a broken graph.      *)
THEOREM AlwaysDefined ==
    ASSUME \A f \in Functions : Keepable(f)
    PROVE  Spec => []WellDefined(fn)
<1>1. Init => Keepable(fn)
  BY DEF Init
<1>2. Inv /\ ValuesKept /\ Keepable(fn) /\ [Next]_vars => Keepable(fn)'
  <2>. SUFFICES ASSUME Inv, ValuesKept, Keepable(fn), [Next]_vars PROVE Keepable(fn')
    OBVIOUS
  <2>. QED
    BY KeepableStep
<1>3. Keepable(fn) => WellDefined(fn)
  BY DEF Keepable
<1> QED
  BY <1>1, <1>2, <1>3, InitInv, InvStep, InitValues, ValuesStep, PTL DEF Spec

=============================================================================
