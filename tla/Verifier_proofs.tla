--------------------------- MODULE Verifier_proofs ---------------------------
(***************************************************************************)
(* What verify() does guarantee, for every function: an accepted graph is  *)
(* sound but for duplicate labels, and a function whose blocks are listed  *)
(* along paths gets no false alarm.                                        *)
(***************************************************************************)
EXTENDS Verifier, CFG_proofs, FiniteSetTheorems

N == Len(fn.blocks)

SoundBlock(b) ==
    /\ b.instrs # <<>>
    /\ TerminatedOnce(b)
    /\ Range(BlockSuccessors(b)) \subseteq Labels(fn)

GraphInv ==
    /\ fn \in Functions
    /\ i \in 1..(N + 2)
    /\ N = 0 => errors # {}
    /\ errors = {} => \A k \in 1..N : k < i => SoundBlock(fn.blocks[k])
    /\ \A k \in 1..N : k < i => Edges(fn.blocks[k]) \subseteq preds
    /\ i = N + 2 /\ errors = {} => Entry(fn) \notin preds

(* The blocks seen so far contain a path to each of them, and what they do *)
(* not define is missing on it.                                            *)
PathInv ==
    WellDefined(fn) /\ ListedAfterPredecessor =>
        /\ "use before definition" \notin errors
        /\ Params(fn) \subseteq defs
        /\ \A k \in 1..N : k < i =>
              /\ UNION {Dest(ins) : ins \in Range(fn.blocks[k].instrs)} \subseteq defs
              /\ fn.blocks[k].label \in OnSomePath(fn)
              /\ \A r : r \notin defs => fn.blocks[k].label \in MissingAt(fn, r)
-----------------------------------------------------------------------------
LEMMA BlocksAreListed ==
    ASSUME NEW f, IsFunction(f)
    PROVE  /\ Len(f.blocks) \in Nat /\ DOMAIN f.blocks = 1..Len(f.blocks)
           /\ f.blocks = <<>> <=> Len(f.blocks) = 0
           /\ \A k \in 1..Len(f.blocks) :
                 /\ f.blocks[k] \in Range(f.blocks)
                 /\ f.blocks[k].label \in Labels(f)
                 /\ IsList(f.blocks[k].instrs)
<1>1. Len(f.blocks) \in Nat /\ DOMAIN f.blocks = 1..Len(f.blocks)
  BY ListDomain DEF IsFunction
<1>2. f.blocks = <<>> <=> Len(f.blocks) = 0
  BY EmptySeq DEF IsFunction, IsList
<1> QED
  BY <1>1, <1>2 DEF Range, Labels, IsFunction

(* One terminator, at the end: nothing follows a terminator. *)
LEMMA TerminatedOnceShape ==
    ASSUME NEW b, IsList(b.instrs), b.instrs # <<>>, TerminatedOnce(b)
    PROVE  /\ HasTerminator(b)
           /\ \A j \in 1..(Len(b.instrs) - 1) : ~IsTerminator(b.instrs[j])
<1> DEFINE n == Len(b.instrs)
           T == {j \in DOMAIN b.instrs : IsTerminator(b.instrs[j])}
<1>1. n \in Nat \ {0} /\ DOMAIN b.instrs = 1..n
  BY ListDomain, EmptySeq DEF IsList
<1>2. IsTerminator(b.instrs[n]) /\ Cardinality(T) = 1
  BY DEF TerminatedOnce
<1>3. IsFiniteSet(T)
  <2>1. T \in SUBSET (1..n) /\ IsFiniteSet(1..n)
    BY <1>1, FS_Interval
  <2>. QED
    BY <2>1, FS_Subset
<1>4. n \in T
  BY <1>1, <1>2
<1> HIDE DEF T
<1>5. PICK x : T = {x}
  BY <1>2, <1>3, FS_Singleton
<1>6. \A j \in T : j = n
  BY <1>4, <1>5
<1>7. ASSUME NEW j \in 1..(n - 1) PROVE ~IsTerminator(b.instrs[j])
  BY <1>1, <1>6, <1>7 DEF T
<1> QED
  BY <1>2, <1>7 DEF HasTerminator

(* The block a label of an accepted graph names. *)
LEMMA BlockAt ==
    ASSUME NEW f, IsFunction(f), CheckCfg(f) = {}, NEW k \in 1..Len(f.blocks)
    PROVE  Block(f, f.blocks[k].label) = f.blocks[k]
<1>1. k \in DOMAIN f.blocks /\ f.blocks[k].label \in Labels(f)
  BY BlocksAreListed
<1>2. PICK m \in DOMAIN f.blocks :
        f.blocks[m].label = f.blocks[k].label /\ Block(f, f.blocks[k].label) = f.blocks[m]
  BY <1>1, BlockOfLabel
<1>3. m = k
  BY <1>1, <1>2, CheckedGraph DEF UniqueLabels
<1> QED
  BY <1>2, <1>3
-----------------------------------------------------------------------------
LEMMA GraphStep == GraphInv /\ [Next]_vars => GraphInv'
<1> SUFFICES ASSUME GraphInv, [Next]_vars PROVE GraphInv'
  OBVIOUS
<1>1. /\ fn \in Functions /\ IsFunction(fn) /\ N \in Nat
      /\ DOMAIN fn.blocks = 1..N /\ i \in 1..(N + 2)
  BY FunctionsAssumption, BlocksAreListed DEF GraphInv, N
<1>2. CASE CheckEmptyBlock
  <2>1. /\ i \in 1..N /\ i' = i + 1 /\ fn' = fn /\ preds' = preds /\ errors' # {}
    <3>1. /\ Checking /\ i' = i + 1 /\ fn' = fn /\ preds' = preds
          /\ errors' = errors \cup {"empty block"}
      BY <1>2, Zenon DEF CheckEmptyBlock
    <3>2. i \in 1..N
      <4>1. i <= N
        BY <3>1 DEF Checking, N
      <4>. QED
        BY <1>1, <4>1
    <3>. QED
      BY <3>1, <3>2
  <2>0. fn.blocks[i].instrs = <<>>
    BY <1>2, Zenon DEF CheckEmptyBlock, B
  <2>2. BlockSuccessors(fn.blocks[i]) = <<>>
    BY <2>0 DEF BlockSuccessors, HasTerminator
  <2>3. Edges(fn.blocks[i]) = {}
    BY <2>2 DEF Edges, Range
  <2>4. \A k \in 1..N : k < i' => k < i \/ k = i
    BY <1>1, <2>1
  <2>. QED
    BY <1>1, <2>1, <2>3, <2>4 DEF GraphInv, N, Edges
<1>3. CASE CheckBlock
  <2>1. /\ i \in 1..N /\ i' = i + 1 /\ fn' = fn
        /\ preds' = preds \cup Edges(fn.blocks[i])
        /\ errors' = errors \cup BlockErrors(fn.blocks[i], defs)
        /\ fn.blocks[i].instrs # <<>>
    BY <1>1, <1>3 DEF CheckBlock, Checking, B, N
  <2>2. errors' = {} => SoundBlock(fn.blocks[i])
    BY <2>1 DEF BlockErrors, SoundBlock
  <2>3. \A k \in 1..N : k < i' => k < i \/ k = i
    BY <1>1, <2>1
  <2>4. errors' = {} => errors = {}
    BY <2>1
  <2>5. \A k \in 1..N : Edges(fn.blocks[k])' = Edges(fn.blocks[k])
                        /\ (SoundBlock(fn.blocks[k])' <=> SoundBlock(fn.blocks[k]))
    BY <2>1 DEF Edges, SoundBlock, TerminatedOnce
  <2>6. /\ errors = {} => \A k \in 1..N : k < i => SoundBlock(fn.blocks[k])
        /\ \A k \in 1..N : k < i => Edges(fn.blocks[k]) \subseteq preds
        /\ N = 0 => errors # {}
    BY DEF GraphInv
  <2>7. N' = N /\ i' # N + 2 /\ i' \in 1..(N + 2)
    BY <1>1, <2>1 DEF N
  <2>. QED
    BY <1>1, <2>1, <2>2, <2>3, <2>4, <2>5, <2>6, <2>7 DEF GraphInv
<1>4. CASE Finish
  <2>1. /\ i = N + 1 /\ i' = i + 1 /\ fn' = fn /\ preds' = preds
        /\ errors' = errors \cup FinalErrors
    BY <1>4 DEF Finish, N
  <2>2. errors' = {} => Entry(fn) \notin preds /\ errors = {}
    BY <2>1 DEF FinalErrors
  <2>3. \A k \in 1..N : k < i
    BY <1>1, <2>1
  <2>4. N' = N /\ i' \in 1..(N + 2)
    BY <1>1, <2>1 DEF N
  <2>5. \A k \in 1..N : Edges(fn.blocks[k])' = Edges(fn.blocks[k])
                        /\ (SoundBlock(fn.blocks[k])' <=> SoundBlock(fn.blocks[k]))
    BY <2>1 DEF Edges, SoundBlock, TerminatedOnce
  <2>6. /\ errors = {} => \A k \in 1..N : k < i => SoundBlock(fn.blocks[k])
        /\ \A k \in 1..N : k < i => Edges(fn.blocks[k]) \subseteq preds
        /\ N = 0 => errors # {}
    BY DEF GraphInv
  <2>. QED
    BY <1>1, <2>1, <2>2, <2>3, <2>4, <2>5, <2>6 DEF GraphInv
<1>5. CASE UNCHANGED vars
  BY <1>5 DEF vars, GraphInv, N, SoundBlock, TerminatedOnce, Edges
<1> QED
  BY <1>2, <1>3, <1>4, <1>5 DEF Next

LEMMA GraphInit == Init => GraphInv
<1> SUFFICES ASSUME Init PROVE GraphInv
  OBVIOUS
<1>1. IsFunction(fn) /\ i = 1 /\ fn \in Functions
  BY FunctionsAssumption DEF Init
<1>2. N \in Nat /\ (fn.blocks = <<>> <=> N = 0)
  BY <1>1, BlocksAreListed DEF N
<1>3. N = 0 => errors # {}
  BY <1>2 DEF Init
<1> QED
  BY <1>1, <1>2, <1>3 DEF GraphInv

(* verify() accepts no graph checkCFG has a rule against, the one against  *)
(* duplicate labels apart.                                                 *)
THEOREM AcceptedGraphsAreSound == Spec => []AcceptedGraphIsSound
<1>1. GraphInv => AcceptedGraphIsSound
  <2> SUFFICES ASSUME GraphInv, Accepts, UniqueLabels(fn) PROVE CheckCfg(fn) = {}
    BY DEF AcceptedGraphIsSound
  <2>1. /\ IsFunction(fn) /\ N \in Nat /\ DOMAIN fn.blocks = 1..N
        /\ fn.blocks = <<>> <=> N = 0
        /\ i \in 1..(N + 2)
        /\ \A k \in 1..N : IsList(fn.blocks[k].instrs)
    BY FunctionsAssumption, BlocksAreListed DEF GraphInv, N
  <2>2. errors = {} /\ fn.blocks # <<>> /\ i = N + 2
    BY <2>1 DEF Accepts, Done, GraphInv, N
  <2>3. \A k \in 1..N : k < i
    BY <2>1, <2>2
  <2>4. \A k \in 1..N : SoundBlock(fn.blocks[k]) /\ Edges(fn.blocks[k]) \subseteq preds
    BY <2>2, <2>3 DEF GraphInv
  <2>5. Entry(fn) \notin preds
    BY <2>2 DEF GraphInv
  <2>6. \A b \in Range(fn.blocks) : \E k \in 1..N : b = fn.blocks[k]
    BY <2>1 DEF Range
  <2>7. EndsInTerminator(fn) /\ NothingAfterTerminator(fn)
    BY <2>1, <2>4, <2>6, TerminatedOnceShape
       DEF SoundBlock, EndsInTerminator, NothingAfterTerminator
  <2>8. TargetsExist(fn)
    BY <2>4, <2>6 DEF SoundBlock, TargetsExist
  <2>9. EntryHasNoPredecessor(fn)
    <3>1. Entry(fn) \in Labels(fn)
      BY <2>1, <2>2 DEF Entry, Labels
    <3>2. \A k \in 1..N : Entry(fn) \notin Range(BlockSuccessors(fn.blocks[k]))
      BY <2>4, <2>5, <3>1 DEF Edges
    <3>. QED
      BY <2>1, <3>2 DEF EntryHasNoPredecessor, Predecessors
  <2>. QED
    BY <2>2, <2>7, <2>8, <2>9 DEF CheckCfg
<1> QED
  BY <1>1, GraphInit, GraphStep, PTL DEF Spec
-----------------------------------------------------------------------------
(* The next block is on a path of listed blocks, and what they do not      *)
(* define is missing at its start.                                         *)
LEMMA NextOnPath ==
    ASSUME GraphInv, PathInv, WellDefined(fn), ListedAfterPredecessor, i \in 1..N
    PROVE  /\ fn.blocks[i].label \in OnSomePath(fn)
           /\ \A r : r \notin defs => fn.blocks[i].label \in MissingAt(fn, r)
<1>1. /\ IsFunction(fn) /\ CheckCfg(fn) = {} /\ N \in Nat /\ DOMAIN fn.blocks = 1..N
      /\ \A k \in 1..N : fn.blocks[k].label \in Labels(fn) /\ IsList(fn.blocks[k].instrs)
  BY FunctionsAssumption, BlocksAreListed DEF GraphInv, WellDefined, N
<1>2. CASE i = 1
  <2>1. fn.blocks[i].label = Entry(fn) /\ Entry(fn) \in OnSomePath(fn)
    BY <1>1, <1>2, OnSomePathClosed DEF Entry, ClosedUnderEdges
  <2>2. ASSUME NEW r, r \notin defs PROVE Entry(fn) \in MissingAt(fn, r)
    BY <1>1, <2>2, MissingClosed DEF PathInv, ClosedAvoiding
  <2>. QED
    BY <2>1, <2>2
<1>3. CASE i # 1
  <2>1. PICK k \in 1..(i - 1) :
          fn.blocks[i].label \in Range(BlockSuccessors(fn.blocks[k]))
    BY <1>1, <1>3 DEF ListedAfterPredecessor
  <2>2. k \in 1..N /\ k < i
    BY <1>1, <2>1
  <2> DEFINE l == fn.blocks[k].label
  <2>3. /\ l \in OnSomePath(fn)
        /\ \A r : r \notin defs => l \in MissingAt(fn, r)
        /\ UNION {Dest(ins) : ins \in Range(fn.blocks[k].instrs)} \subseteq defs
    BY <2>2 DEF PathInv
  <2>4. Block(fn, l) = fn.blocks[k] /\ l \in Labels(fn)
    BY <1>1, <2>2, BlockAt DEF N
  <2>5. Range(Successors(fn, l)) = Range(BlockSuccessors(fn.blocks[k]))
    BY <2>4 DEF Successors
  <2>6. DefinedBy(fn, l, {}) \subseteq defs
    <3>1. /\ Instrs(fn, l) = fn.blocks[k].instrs
          /\ DOMAIN fn.blocks[k].instrs = 1..Len(fn.blocks[k].instrs)
      BY <1>1, <2>2, <2>4, ListDomain DEF Instrs
    <3>2. \A m \in 1..Len(fn.blocks[k].instrs) :
              fn.blocks[k].instrs[m] \in Range(fn.blocks[k].instrs)
      BY <3>1 DEF Range
    <3>. QED
      BY <2>3, <3>1, <3>2 DEF DefinedBy, DefinedBefore
  <2>7. fn.blocks[i].label \in OnSomePath(fn)
    BY <1>1, <2>1, <2>3, <2>5, OnSomePathClosed DEF ClosedUnderEdges
  <2>8. ASSUME NEW r, r \notin defs PROVE fn.blocks[i].label \in MissingAt(fn, r)
    <3>1. l \in MissingAt(fn, r) /\ r \notin DefinedBy(fn, l, {})
      BY <2>3, <2>6, <2>8
    <3>. QED
      BY <1>1, <2>1, <2>5, <3>1, MissingClosed DEF ClosedAvoiding
  <2>. QED
    BY <2>7, <2>8
<1> QED
  BY <1>2, <1>3

(* So it reads nothing that is not yet in defs. *)
LEMMA NoUndefinedUse ==
    ASSUME GraphInv, PathInv, WellDefined(fn), ListedAfterPredecessor, i \in 1..N
    PROVE  ~UndefinedIn(fn.blocks[i], defs)
<1> DEFINE b == fn.blocks[i]
           l == b.label
<1>1. IsFunction(fn) /\ CheckCfg(fn) = {} /\ N \in Nat
  BY FunctionsAssumption, BlocksAreListed DEF GraphInv, WellDefined, N
<1>2. Instrs(fn, l) = b.instrs /\ l \in OnSomePath(fn)
  BY <1>1, BlockAt, NextOnPath DEF Instrs, N
<1> SUFFICES ASSUME NEW j \in DOMAIN b.instrs, NEW r \in Uses(b.instrs[j]),
                    r \notin DefsAt(b, j, defs)
             PROVE  FALSE
  BY DEF UndefinedIn
<1>3. r \notin defs /\ r \notin DefinedBefore(fn, l, j - 1)
  BY <1>2 DEF DefsAt, DefinedBefore
<1>4. l \in MissingAt(fn, r)
  BY <1>3, NextOnPath
<1>5. b.instrs[j] \in Range(b.instrs)
  BY DEF Range
<1>6. r \in UndefinedOnSomePath(fn, l)
  BY <1>2, <1>3, <1>4, <1>5 DEF UndefinedOnSomePath
<1> QED
  BY <1>2, <1>6 DEF WellDefined

LEMMA PathStep == GraphInv /\ PathInv /\ [Next]_vars => PathInv'
<1> SUFFICES ASSUME GraphInv, PathInv, [Next]_vars,
                    fn' = fn => WellDefined(fn) /\ ListedAfterPredecessor
             PROVE  PathInv'
  BY DEF PathInv, ListedAfterPredecessor, Next, CheckEmptyBlock, CheckBlock, Finish, vars
<1>1. fn' = fn /\ WellDefined(fn) /\ ListedAfterPredecessor
  BY DEF Next, CheckEmptyBlock, CheckBlock, Finish, vars
<1>2. /\ "use before definition" \notin errors /\ Params(fn) \subseteq defs
      /\ \A k \in 1..N : k < i =>
              /\ UNION {Dest(ins) : ins \in Range(fn.blocks[k].instrs)} \subseteq defs
              /\ fn.blocks[k].label \in OnSomePath(fn)
              /\ \A r : r \notin defs => fn.blocks[k].label \in MissingAt(fn, r)
  BY <1>1 DEF PathInv
<1>3. IsFunction(fn) /\ CheckCfg(fn) = {} /\ N \in Nat /\ i \in 1..(N + 2)
  BY <1>1, FunctionsAssumption, BlocksAreListed DEF GraphInv, WellDefined, N
<1>4. CASE CheckEmptyBlock
  <2>1. i \in 1..N
    <3>1. Checking
      BY <1>4, Zenon DEF CheckEmptyBlock
    <3>. QED
      BY <1>3, <3>1 DEF Checking, N
  <2>0. fn.blocks[i].instrs = <<>>
    BY <1>4, Zenon DEF CheckEmptyBlock, B
  <2>2. HasTerminator(fn.blocks[i])
    BY <1>3, <2>1, CheckedGraph, BlocksAreListed DEF EndsInTerminator, N
  <2>. QED
    BY <2>0, <2>2 DEF HasTerminator
<1>5. CASE CheckBlock
  <2>1. /\ i \in 1..N /\ i' = i + 1
        /\ defs' = defs \cup UNION {Dest(ins) : ins \in Range(fn.blocks[i].instrs)}
        /\ errors' = errors \cup BlockErrors(fn.blocks[i], defs)
    BY <1>3, <1>5 DEF CheckBlock, Checking, B, N, DefsAfter
  <2>2. "use before definition" \notin errors'
    BY <1>1, <1>2, <2>1, NoUndefinedUse DEF BlockErrors
  <2>3. /\ fn.blocks[i].label \in OnSomePath(fn)
        /\ \A r : r \notin defs => fn.blocks[i].label \in MissingAt(fn, r)
    BY <1>1, <2>1, NextOnPath
  <2>4. \A k \in 1..N : k < i' => k < i \/ k = i
    BY <1>3, <2>1
  <2>5. \A k \in 1..N : k < i' =>
              /\ UNION {Dest(ins) : ins \in Range(fn.blocks[k].instrs)} \subseteq defs'
              /\ fn.blocks[k].label \in OnSomePath(fn)
              /\ \A r : r \notin defs' => fn.blocks[k].label \in MissingAt(fn, r)
    BY <1>2, <2>1, <2>3, <2>4
  <2>6. Params(fn) \subseteq defs'
    BY <1>2, <2>1
  <2>. QED
    BY <1>1, <2>2, <2>5, <2>6 DEF PathInv, N
<1>6. CASE Finish
  <2>1. /\ i = N + 1 /\ i' = i + 1 /\ defs' = defs
        /\ errors' = errors \cup FinalErrors
    BY <1>6 DEF Finish, N
  <2>2. "use before definition" \notin errors'
    BY <1>2, <2>1 DEF FinalErrors
  <2>3. \A k \in 1..N : k < i
    BY <1>3, <2>1
  <2>. QED
    BY <1>1, <1>2, <2>1, <2>2, <2>3 DEF PathInv, N
<1>7. CASE UNCHANGED vars
  BY <1>2, <1>7 DEF vars, PathInv, N
<1> QED
  BY <1>4, <1>5, <1>6, <1>7 DEF Next

(* A well-defined function whose blocks are listed along paths is never    *)
(* turned away for a use before definition.                                *)
THEOREM NoFalseAlarms == Spec => []NoFalseAlarmInPathOrder
<1>1. Init => PathInv
  <2> SUFFICES ASSUME Init PROVE PathInv
    OBVIOUS
  <2>1. i = 1 /\ defs = Params(fn) /\ "use before definition" \notin errors
    BY DEF Init
  <2>2. N \in Nat
    BY GraphInit, FunctionsAssumption, BlocksAreListed DEF GraphInv, N
  <2>3. \A k \in 1..N : ~(k < i)
    <3>1. \A n \in Nat : \A k \in 1..n : ~(k < 1)
      OBVIOUS
    <3>. QED
      BY <2>1, <2>2, <3>1, Zenon
  <2>. QED
    <3>1. \A k \in 1..N : k < i => FALSE
      BY <2>3
    <3>2. Params(fn) \subseteq defs
      BY <2>1
    <3>. QED
      BY <2>1, <3>1, <3>2, Zenon DEF PathInv
<1>2. PathInv => NoFalseAlarmInPathOrder
  BY DEF PathInv, NoFalseAlarmInPathOrder
<1> QED
  BY <1>1, <1>2, GraphInit, GraphStep, PathStep, PTL DEF Spec
=============================================================================
