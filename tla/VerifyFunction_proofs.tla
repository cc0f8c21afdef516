----------------------- MODULE VerifyFunction_proofs -----------------------
(***************************************************************************)
(* The definedness check is right for every function: its loops keep the   *)
(* invariant IInv below, and at the end IInv says that `seen` is the set   *)
(* of labels some path leads to, that the order visits all of it, that     *)
(* entryIn is what every path defines, and that the report is exact.       *)
(***************************************************************************)
EXTENDS VerifyFunction, CFG_proofs, FiniteSetTheorems

(* Past checkCFG, the graph is sound. *)
Checked == phase \notin {"cfg", "done"} => CheckCfg(fn) = {}

(* What computeReachability has still to look at: every edge out of what it has seen *)
(* leads to something seen or stacked, and only such edges were stacked.     *)
Pending == seen \cup Range(work)
Exploring ==
    phase = "reach" =>
        /\ Entry(fn) \in Pending
        /\ \A l \in seen : Range(Successors(fn, l)) \subseteq Pending
        /\ Range(work) \subseteq
              {Entry(fn)} \cup UNION {Range(Successors(fn, l)) : l \in seen}
        /\ \A S \in SUBSET Labels(fn) : ClosedUnderEdges(fn, S) => Pending \subseteq S

Analysed == phase \in {"flow", "uses"} \/ (phase = "done" /\ CheckCfg(fn) = {})
Closed == phase = "order" \/ Analysed

(* Once it has returned, `seen` is the least closed set. *)
Explored ==
    /\ Closed => /\ seen = OnSomePath(fn)
                   /\ ClosedUnderEdges(fn, seen)
    /\ phase = "cfg" => seen = {}

(* The depth-first walk: what it opened is finished or on its stack, and     *)
(* every successor of a finished block, and every child taken from a block   *)
(* on the stack, is opened.  Then the order lists the whole of `seen`.       *)
Walking ==
    /\ phase = "order" =>
          /\ opened = Range(order) \cup {walk[i].id : i \in DOMAIN walk}
          /\ Entry(fn) \in opened
          /\ opened \subseteq seen
          /\ \A l \in Range(order) : Range(Successors(fn, l)) \subseteq opened
          /\ \A i \in DOMAIN walk : \A k \in DOMAIN Successors(fn, walk[i].id) :
                 k < walk[i].next => Successors(fn, walk[i].id)[k] \in opened
    /\ phase \in {"cfg", "reach"} => order = <<>> /\ todo = <<>>
    /\ Analysed => Range(order) = seen /\ Range(todo) \subseteq seen

(* The entry keeps its parameters; nothing every path defines is ever lost; *)
(* a block visited since the last change equals its meet.                   *)
Narrowing ==
    /\ Analysed =>
          /\ entryIn \in [seen -> SUBSET AllRegs(fn)]
          /\ entryIn[Entry(fn)] = Params(fn)
          /\ \A l \in seen : \A r \in AllRegs(fn) :
                 l \notin MissingAt(fn, r) => r \in entryIn[l]
    /\ phase = "flow" /\ ~changed =>
          \A l \in seen \ (Range(todo) \cup {Entry(fn)}) :
              entryIn[l] = Meet(fn, seen, entryIn, l)
    /\ phase = "uses" \/ (phase = "done" /\ CheckCfg(fn) = {}) =>
          \A l \in seen \ {Entry(fn)} : entryIn[l] = Meet(fn, seen, entryIn, l)

(* The report covers the blocks the last loop has passed. *)
Reporting ==
    /\ phase \in {"reach", "order", "flow"} => errors = {}
    /\ phase = "uses" =>
          /\ UNION {{l} \X UndefinedUses(fn, l, entryIn[l]) : l \in seen \ Range(todo)}
                \subseteq errors
          /\ errors \subseteq UNION {{l} \X UndefinedUses(fn, l, entryIn[l]) : l \in seen}
    /\ phase = "done" =>
          errors = IF CheckCfg(fn) = {}
                   THEN UNION {{l} \X UndefinedUses(fn, l, entryIn[l]) : l \in seen}
                   ELSE CheckCfg(fn) \X {NoName}

IInv == TypeOK /\ Checked /\ Exploring /\ Explored /\ Walking /\ Narrowing /\ Reporting
-----------------------------------------------------------------------------
LEMMA FnIsFunction == ASSUME TypeOK PROVE IsFunction(fn)
BY FunctionsAssumption DEF TypeOK

(* The meet keeps every register no path misses: one block further, the *)
(* register is either defined or was already not missing.               *)
LEMMA MeetKeepsDefined ==
    ASSUME NEW f, IsFunction(f), CheckCfg(f) = {},
           NEW live, live = OnSomePath(f),
           NEW avail \in [live -> SUBSET AllRegs(f)],
           \A l \in live : \A r \in AllRegs(f) :
               l \notin MissingAt(f, r) => r \in avail[l],
           NEW l \in live, l # Entry(f), NEW r \in AllRegs(f),
           l \notin MissingAt(f, r)
    PROVE  r \in Meet(f, live, avail, l)
<1>1. l \in Labels(f)
  BY DEF OnSomePath
<1>2. LivePreds(f, live, l) # {}
  <2> DEFINE S == live \ {l}
  <2>1. SUFFICES ASSUME LivePreds(f, live, l) = {} PROVE FALSE
    OBVIOUS
  <2>2. S \in SUBSET Labels(f)
    BY DEF OnSomePath
  <2>3. ClosedUnderEdges(f, live) /\ live \subseteq Labels(f)
    BY OnSomePathClosed
  <2>4. \A p \in S : l \notin Range(Successors(f, p))
    BY <2>1, <2>3, PredecessorsInvertEdges DEF LivePreds
  <2>5. ClosedUnderEdges(f, S)
    BY <2>3, <2>4 DEF ClosedUnderEdges
  <2>. QED
    BY <2>2, <2>5 DEF OnSomePath
<1>3. ASSUME NEW p \in LivePreds(f, live, l) PROVE r \in DefinedBy(f, p, avail[p])
  <2>1. p \in live /\ p \in Labels(f) /\ l \in Range(Successors(f, p))
    BY <1>3, PredecessorsInvertEdges DEF LivePreds
  <2>2. CASE r \in DefinedBy(f, p, {})
    BY <2>2 DEF DefinedBy
  <2>3. CASE r \notin DefinedBy(f, p, {})
    <3>1. p \notin MissingAt(f, r)
      BY <2>1, <2>3, MissingClosed DEF ClosedAvoiding
    <3>. QED
      BY <3>1, <2>1 DEF DefinedBy
  <2>. QED
    BY <2>2, <2>3
<1> QED
  BY <1>2, <1>3 DEF Meet

(* The pushed successors are those not reached yet, and no others. *)
LEMMA FreshIsUnseen ==
    ASSUME NEW T, NEW s \in Seq(T), Len(s) \in 0..2, NEW S
    PROVE  Fresh(s, S) \in Seq(T) /\ Range(Fresh(s, S)) = Range(s) \ S
<1> DEFINE One(x) == Range(Unless(x, S)) = {x} \ S
<1>1. ASSUME NEW x \in T PROVE Unless(x, S) \in Seq(T) /\ Range(Unless(x, S)) = {x} \ S
  <2>1. <<>> \in Seq(T) /\ <<x>> \in Seq(T)
    BY EmptySeq
  <2>2. Range(<<x>>) = {x} /\ Range(<<>>) = {}
    BY DEF Range
  <2>. QED
    BY <2>1, <2>2 DEF Unless
<1>2. Range(s) = {s[i] : i \in 1..Len(s)}
  BY RangeEquality
<1>3. CASE Len(s) = 0
  <2>1. Range(<<>>) = {} /\ <<>> \in Seq(T)
    BY EmptySeq DEF Range
  <2>2. Range(s) = {}
    BY <1>2, <1>3
  <2>. QED
    BY <1>3, <2>1, <2>2 DEF Fresh
<1>4. CASE Len(s) = 1
  <2>1. Range(s) = {s[1]} /\ s[1] \in T
    BY <1>2, <1>4
  <2>. QED
    BY <1>1, <1>4, <2>1 DEF Fresh
<1>5. CASE Len(s) = 2
  <2>1. s[1] \in T /\ s[2] \in T
    BY <1>5
  <2>2. Range(s) = {s[1], s[2]}
    <3>1. 1..2 = {1, 2}
      OBVIOUS
    <3>. QED
      BY <1>2, <1>5, <3>1
  <2>3. Unless(s[1], S) \in Seq(T) /\ Unless(s[2], S) \in Seq(T)
    BY <1>1, <2>1
  <2>4. Range(Unless(s[1], S) \o Unless(s[2], S))
           = Range(Unless(s[1], S)) \cup Range(Unless(s[2], S))
    BY <2>3, RangeConcatenation
  <2>5. Fresh(s, S) = Unless(s[1], S) \o Unless(s[2], S)
    BY <1>5 DEF Fresh
  <2>6. Fresh(s, S) \in Seq(T)
    BY <2>3, <2>5
  <2>7. Range(Fresh(s, S)) = ({s[1]} \ S) \cup ({s[2]} \ S)
    BY <1>1, <2>1, <2>4, <2>5
  <2>. QED
    BY <2>2, <2>6, <2>7
<1> QED
  BY <1>3, <1>4, <1>5
-----------------------------------------------------------------------------
(* The invariant holds initially. *)
LEMMA InitInv == Init => IInv
<1>. SUFFICES ASSUME Init PROVE IInv
  OBVIOUS
<1>. USE DEF Init
<1>1. TypeOK
  <2>1. <<>> \in Seq(Labels(fn)) /\ <<>> \in Seq(Frames)
    BY EmptySeq
  <2>. QED
    BY <2>1 DEF TypeOK, Phases
<1>2. Checked /\ Exploring /\ Explored /\ Walking /\ Narrowing /\ Reporting
  BY DEF Checked, Exploring, Explored, Walking, Narrowing, Reporting, Closed, Analysed
<1> QED
  BY <1>1, <1>2 DEF IInv

(* checkCFG: either the check ends with its report or the worklist starts. *)
LEMMA CheckGraphInv == ASSUME IInv, CheckGraph PROVE IInv'
<1>. USE DEF CheckGraph, walkVars
<1>1. /\ TypeOK /\ IsFunction(fn) /\ seen = {} /\ phase = "cfg"
      /\ order = <<>> /\ todo = <<>>
  BY FnIsFunction DEF IInv, Explored, Walking
<1>2. CASE CheckCfg(fn) # {}
  <2>1. TypeOK'
    BY <1>1, <1>2 DEF TypeOK, Phases, Frames
  <2>. QED
    BY <1>1, <1>2, <2>1
       DEF IInv, Checked, Exploring, Explored, Walking, Narrowing, Reporting, Closed, Analysed
<1>3. CASE CheckCfg(fn) = {}
  <2>1. Entry(fn) \in Labels(fn)
    BY <1>1, <1>3, EntryFacts
  <2>2. TypeOK'
    <3>1. <<Entry(fn)>> \in Seq(Labels(fn))
      BY <2>1
    <3>2. work' = <<Entry(fn)>> /\ phase' = "reach"
      BY <1>3
    <3>. QED
      BY <1>1, <3>1, <3>2 DEF TypeOK, Phases, Frames
  <2>3. Range(work') = {Entry(fn)}
    BY <1>3 DEF Range
  <2>4. Exploring'
    BY <1>1, <1>3, <2>3 DEF Exploring, Pending, ClosedUnderEdges
  <2>5. errors' = {}
    BY <1>3
  <2>. QED
    BY <1>1, <1>3, <2>2, <2>4, <2>5
       DEF IInv, Checked, Explored, Walking, Narrowing, Reporting, Closed, Analysed
<1> QED
  BY <1>2, <1>3

(* One turn of the worklist: what is popped is seen, what it leads to is *)
(* seen or stacked, and both stay inside every closed set.               *)
LEMMA VisitInv == ASSUME IInv, Visit PROVE IInv'
<1>. USE DEF Visit, walkVars
<1> DEFINE label == work[Len(work)]
           rest  == SubSeq(work, 1, Len(work) - 1)
           fresh == Fresh(Successors(fn, label), seen')
<1>1. /\ TypeOK /\ IsFunction(fn) /\ phase = "reach" /\ CheckCfg(fn) = {}
      /\ work \in Seq(Labels(fn)) /\ work # <<>>
  BY FnIsFunction DEF IInv, TypeOK, Checked
<1>2. /\ label \in Labels(fn) /\ rest \in Seq(Labels(fn))
      /\ Range(work) = Range(rest) \cup {label}
  BY <1>1, PopStack
<1>3. /\ rest \o fresh \in Seq(Labels(fn))
      /\ Range(rest \o fresh)
            = Range(rest) \cup (Range(Successors(fn, label)) \ seen')
  <2>1. Successors(fn, label) \in Seq(Labels(fn)) /\ Len(Successors(fn, label)) \in 0..2
    BY <1>1, <1>2, SuccessorsAreLabels, AtMostTwoSuccessors
  <2>2. fresh \in Seq(Labels(fn)) /\ Range(fresh) = Range(Successors(fn, label)) \ seen'
    BY <2>1, FreshIsUnseen
  <2>. HIDE DEF label, rest, fresh
  <2>. QED
    BY <1>2, <2>2, RangeConcatenation
<1>4. Exploring
  BY DEF IInv
<1>5. CASE label \in seen
  <2>1. work' = rest /\ seen' = seen
    BY <1>5
  <2>2. TypeOK'
    BY <1>1, <1>2, <2>1 DEF TypeOK, Frames
  <2>3. Pending' = Pending
    BY <1>2, <1>5, <2>1 DEF Pending
  <2>4. Exploring'
    BY <1>1, <1>2, <1>4, <2>1, <2>3 DEF Exploring
  <2>. QED
    BY <1>1, <2>1, <2>2, <2>4
       DEF IInv, Checked, Explored, Walking, Narrowing, Reporting, Closed, Analysed
<1>6. CASE label \notin seen
  <2>1. work' = rest \o fresh /\ seen' = seen \cup {label}
    BY <1>6
  <2>2. TypeOK'
    BY <1>1, <1>2, <1>3, <2>1 DEF TypeOK, Frames
  <2>3. Pending' = Pending \cup Range(Successors(fn, label))
    BY <1>2, <1>3, <2>1 DEF Pending
  <2>4. \A l \in seen' : Range(Successors(fn, l)) \subseteq Pending'
    BY <1>1, <1>4, <2>1, <2>3 DEF Exploring
  <2>5. Range(work') \subseteq
           {Entry(fn)} \cup UNION {Range(Successors(fn, l)) : l \in seen'}
    <3>1. Range(work') \subseteq Range(work) \cup Range(Successors(fn, label))
      BY <1>2, <1>3, <2>1
    <3>2. Range(work) \subseteq {Entry(fn)} \cup UNION {Range(Successors(fn, l)) : l \in seen}
      BY <1>1, <1>4 DEF Exploring
    <3>. QED
      BY <2>1, <3>1, <3>2
  <2>6. ASSUME NEW S \in SUBSET Labels(fn), ClosedUnderEdges(fn, S)
        PROVE  Pending' \subseteq S
    <3>1. Pending \subseteq S /\ label \in S
      BY <1>1, <1>2, <1>4, <2>6 DEF Exploring, Pending
    <3>. QED
      BY <2>3, <2>6, <3>1 DEF ClosedUnderEdges
  <2>7. Exploring'
    BY <1>1, <1>4, <2>3, <2>4, <2>5, <2>6 DEF Exploring
  <2>. QED
    BY <1>1, <2>1, <2>2, <2>7
       DEF IInv, Checked, Explored, Walking, Narrowing, Reporting, Closed, Analysed
<1> QED
  BY <1>5, <1>6

(* The worklist is empty: `seen` is closed, and inside every closed set. *)
LEMMA WorklistDone ==
    ASSUME IInv, phase = "reach", work = <<>>
    PROVE  seen = OnSomePath(fn) /\ ClosedUnderEdges(fn, seen)
<1>1. TypeOK /\ IsFunction(fn) /\ CheckCfg(fn) = {} /\ Exploring
  BY FnIsFunction DEF IInv, TypeOK, Checked
<1>2. Pending = seen
  BY DEF Pending, Range
<1>3. ClosedUnderEdges(fn, seen) /\ seen \subseteq Labels(fn)
  BY <1>1, <1>2 DEF Exploring, ClosedUnderEdges, TypeOK
<1>4. OnSomePath(fn) \subseteq seen
  BY <1>3 DEF OnSomePath
<1>5. seen \subseteq OnSomePath(fn)
  BY <1>1, <1>2, <1>3 DEF OnSomePath, Exploring
<1> QED
  BY <1>3, <1>4, <1>5

LEMMA StartOrderInv == ASSUME IInv, StartOrder PROVE IInv'
<1>. USE DEF StartOrder
<1>1. /\ TypeOK /\ IsFunction(fn) /\ phase = "reach" /\ CheckCfg(fn) = {}
      /\ order = <<>> /\ todo = <<>> /\ errors = {}
  BY FnIsFunction DEF IInv, Checked, Walking, Reporting
<1>2. seen = OnSomePath(fn) /\ ClosedUnderEdges(fn, seen)
  BY WorklistDone
<1>3. Entry(fn) \in seen /\ Entry(fn) \in Labels(fn)
  BY <1>1, <1>2, EntryFacts DEF ClosedUnderEdges
<1> DEFINE frame == [id |-> Entry(fn), next |-> 1]
<1>4. /\ frame \in Frames
      /\ walk' \in Seq(Frames) /\ DOMAIN walk' = {1} /\ walk'[1] = frame
  <2>1. frame \in Frames
    BY <1>3 DEF Frames
  <2>. HIDE DEF frame
  <2>2. walk' = <<frame>>
    BY DEF frame
  <2>. QED
    BY <2>1, <2>2
<1>5. TypeOK'
  BY <1>1, <1>3, <1>4 DEF TypeOK, Phases, Frames
<1>6. Walking'
  <2>1. \A k \in DOMAIN Successors(fn, Entry(fn)) : ~(k < 1)
    <3>1. Successors(fn, Entry(fn)) \in Seq(Labels(fn))
      BY <1>1, <1>3, SuccessorsAreLabels
    <3>. QED
      BY <3>1
  <2>2. Range(order') = {}
    BY <1>1 DEF Range
  <2>3. {walk'[i].id : i \in DOMAIN walk'} = {Entry(fn)}
    BY <1>4
  <2>4. opened' = {Entry(fn)} /\ phase' = "order" /\ fn' = fn /\ seen' = seen
    OBVIOUS
  <2>. QED
    BY <1>3, <1>4, <2>1, <2>2, <2>3, <2>4 DEF Walking, Analysed
<1> QED
  BY <1>1, <1>2, <1>5, <1>6
     DEF IInv, Checked, Exploring, Explored, Narrowing, Reporting, Closed, Analysed

(* What the block on top of the walk's stack is. *)
LEMMA TopOfWalk ==
    ASSUME IInv, phase = "order", walk # <<>>
    PROVE  /\ IsFunction(fn) /\ CheckCfg(fn) = {}
           /\ Len(walk) \in DOMAIN walk /\ DOMAIN walk = 1..Len(walk) /\ Len(walk) \in Nat
           /\ Top \in Frames /\ Top.id \in seen /\ seen \subseteq Labels(fn)
           /\ Successors(fn, Top.id) \in Seq(Labels(fn))
           /\ Range(Successors(fn, Top.id)) \subseteq seen
<1>1. /\ TypeOK /\ Walking /\ Explored /\ IsFunction(fn) /\ CheckCfg(fn) = {}
      /\ walk \in Seq(Frames) /\ seen \subseteq Labels(fn)
  BY FnIsFunction DEF IInv, Checked, TypeOK
<1>2. /\ Len(walk) \in DOMAIN walk /\ DOMAIN walk = 1..Len(walk) /\ Len(walk) \in Nat
      /\ Top \in Frames
  BY <1>1 DEF Top
<1>3. Top.id \in seen
  BY <1>1, <1>2 DEF Walking, Top
<1>4. ClosedUnderEdges(fn, seen)
  BY <1>1 DEF Explored, Closed
<1> QED
  BY <1>1, <1>2, <1>3, <1>4, SuccessorsAreLabels DEF ClosedUnderEdges

LEMMA DescendInv == ASSUME IInv, Descend PROVE IInv'
<1>. USE DEF Descend
<1>1. TypeOK /\ Walking /\ phase = "order" /\ walk # <<>> /\ walk \in Seq(Frames)
  BY DEF IInv, TypeOK
<1> DEFINE n == Len(walk)
           succs == Successors(fn, Top.id)
<1>2. /\ n \in DOMAIN walk /\ DOMAIN walk = 1..n /\ n \in Nat
      /\ Top \in Frames /\ Top.id \in seen /\ seen \subseteq Labels(fn)
      /\ succs \in Seq(Labels(fn)) /\ Range(succs) \subseteq seen
  BY <1>1, TopOfWalk
<1>3. Top.next \in DOMAIN succs /\ Child = succs[Top.next] /\ Child \in seen
      /\ Top.next \in Nat
  BY <1>2 DEF MoreChildren, Child, Frames, Range
<1>4. /\ Taken \in Seq(Frames) /\ DOMAIN Taken = DOMAIN walk /\ Len(Taken) = n
      /\ \A i \in DOMAIN walk : Taken[i].id = walk[i].id
      /\ \A i \in DOMAIN walk \ {n} : Taken[i] = walk[i]
      /\ Taken[n].next = Top.next + 1
  <2>1. [Top EXCEPT !.next = @ + 1] \in Frames
    BY <1>2, <1>3 DEF Frames
  <2>2. Taken = [walk EXCEPT ![n] = [Top EXCEPT !.next = @ + 1]]
    BY DEF Taken, Top
  <2>3. /\ Taken \in Seq(Frames) /\ Len(Taken) = n /\ DOMAIN Taken = DOMAIN walk
        /\ Taken[n] = [Top EXCEPT !.next = @ + 1]
        /\ \A i \in DOMAIN walk \ {n} : Taken[i] = walk[i]
    BY <1>1, <1>2, <2>1, <2>2
  <2>. QED
    BY <1>2, <2>3 DEF Top, Frames
<1> DEFINE frame == [id |-> Child, next |-> 1]
<1>5. frame \in Frames
  BY <1>2, <1>3 DEF Frames
<1>6. /\ walk' \in Seq(Frames)
      /\ \A i \in DOMAIN walk : i \in DOMAIN walk' /\ walk'[i] = Taken[i]
      /\ \A i \in DOMAIN walk' \ DOMAIN walk : walk'[i] = frame /\ Child \notin opened
      /\ Child \in opened => DOMAIN walk' = DOMAIN walk
      /\ Child \notin opened => n + 1 \in DOMAIN walk' \ DOMAIN walk
  <2>1. CASE Child \in opened
    BY <1>4, <2>1
  <2>2. CASE Child \notin opened
    <3>. HIDE DEF frame
    <3>1. walk' = Append(Taken, frame)
      BY <2>2 DEF frame
    <3>2. /\ Append(Taken, frame) \in Seq(Frames)
          /\ DOMAIN Append(Taken, frame) = 1..(Len(Taken) + 1)
          /\ \A i \in 1..Len(Taken) : Append(Taken, frame)[i] = Taken[i]
          /\ Append(Taken, frame)[Len(Taken) + 1] = frame
      BY <1>4, <1>5
    <3>3. /\ walk' \in Seq(Frames) /\ DOMAIN walk' = 1..(n + 1)
          /\ \A i \in 1..n : walk'[i] = Taken[i]
          /\ walk'[n + 1] = frame
      BY <1>4, <3>1, <3>2
    <3>. HIDE DEF n
    <3>4. 1..(n + 1) = 1..n \cup {n + 1} /\ n + 1 \notin 1..n
      BY <1>2
    <3>. QED
      BY <1>2, <2>2, <3>3, <3>4
  <2>. QED
    BY <2>1, <2>2
<1>. HIDE DEF succs, n
<1>7. TypeOK'
  BY <1>1, <1>2, <1>3, <1>6 DEF TypeOK, Frames
<1>8. opened' = Range(order) \cup {walk'[i].id : i \in DOMAIN walk'}
  <2>1. {walk'[i].id : i \in DOMAIN walk'} \subseteq {walk[i].id : i \in DOMAIN walk} \cup {Child}
    BY <1>4, <1>6
  <2>2. {walk[i].id : i \in DOMAIN walk} \subseteq {walk'[i].id : i \in DOMAIN walk'}
    BY <1>4, <1>6
  <2>3. Child \in opened \/ Child \in {walk'[i].id : i \in DOMAIN walk'}
    BY <1>6
  <2>4. opened' = opened \cup {Child} /\ opened = Range(order) \cup {walk[i].id : i \in DOMAIN walk}
    BY <1>1 DEF Walking
  <2>. QED
    BY <1>6, <2>1, <2>2, <2>3, <2>4
<1>9. ASSUME NEW i \in DOMAIN walk', NEW k \in DOMAIN Successors(fn, walk'[i].id),
             k < walk'[i].next
      PROVE  Successors(fn, walk'[i].id)[k] \in opened'
  <2>1. CASE i \notin DOMAIN walk
    <3>1. walk'[i] = frame
      BY <1>6, <2>1
    <3>2. Successors(fn, Child) \in Seq(Labels(fn))
      BY <1>1, <1>2, <1>3, TopOfWalk, SuccessorsAreLabels
    <3>3. k \in Nat /\ k >= 1 /\ k < 1
      BY <1>9, <3>1, <3>2
    <3>. QED
      BY <3>3
  <2>2. CASE i \in DOMAIN walk /\ i # n
    <3>1. walk'[i] = walk[i]
      BY <1>4, <1>6, <2>2
    <3>. QED
      BY <1>1, <1>9, <2>2, <3>1 DEF Walking
  <2>3. CASE i = n
    <3>1. walk'[n].id = Top.id /\ walk'[n].next = Top.next + 1
      BY <1>2, <1>4, <1>6 DEF Top, n
    <3>2. k \in DOMAIN succs /\ k \in Nat /\ (k < Top.next \/ k = Top.next)
      BY <1>2, <1>3, <1>9, <2>3, <3>1 DEF succs
    <3>3. CASE k < Top.next
      BY <1>1, <1>2, <2>3, <3>1, <3>2, <3>3 DEF Walking, Top, succs, n
    <3>4. CASE k = Top.next
      BY <1>3, <2>3, <3>1, <3>4 DEF succs
    <3>. QED
      BY <3>2, <3>3, <3>4
  <2>. QED
    BY <2>1, <2>2, <2>3
<1>10. Walking'
  <2>1. /\ phase' = "order" /\ fn' = fn /\ seen' = seen /\ order' = order
        /\ opened' = opened \cup {Child}
    BY <1>1
  <2>. QED
    BY <1>1, <1>3, <1>8, <1>9, <2>1 DEF Walking, Analysed
<1> QED
  BY <1>1, <1>7, <1>10
     DEF IInv, Checked, Exploring, Explored, Narrowing, Reporting, Closed, Analysed

LEMMA FinishBlockInv == ASSUME IInv, FinishBlock PROVE IInv'
<1>. USE DEF FinishBlock
<1>1. TypeOK /\ Walking /\ phase = "order" /\ walk # <<>> /\ walk \in Seq(Frames)
      /\ order \in Seq(Labels(fn))
  BY DEF IInv, TypeOK
<1> DEFINE n == Len(walk)
           succs == Successors(fn, Top.id)
<1>2. /\ n \in DOMAIN walk /\ DOMAIN walk = 1..n /\ n \in Nat
      /\ Top \in Frames /\ Top.id \in seen /\ seen \subseteq Labels(fn)
      /\ succs \in Seq(Labels(fn)) /\ Range(succs) \subseteq seen
  BY <1>1, TopOfWalk
<1>3. \A k \in DOMAIN succs : k < Top.next
  BY <1>2 DEF MoreChildren, Frames
<1>4. Range(succs) \subseteq opened
  BY <1>1, <1>2, <1>3 DEF Walking, Top, Range
<1>5. order' \in Seq(Labels(fn)) /\ Range(order') = {Top.id} \cup Range(order)
  <2>1. <<Top.id>> \in Seq(Labels(fn))
    BY <1>2
  <2>2. Range(<<Top.id>>) = {Top.id}
    BY DEF Range
  <2>3. <<Top.id>> \o order \in Seq(Labels(fn))
    BY <1>1, <2>1
  <2>4. Range(<<Top.id>> \o order) = Range(<<Top.id>>) \cup Range(order)
    BY <1>1, <2>1, RangeConcatenation, ZenonT(30)
  <2>. QED
    BY <2>2, <2>3, <2>4
<1>6. /\ walk' \in Seq(Frames) /\ DOMAIN walk' = 1..(n - 1)
      /\ \A i \in DOMAIN walk' : walk'[i] = walk[i]
  <2>1. \A i \in 1..(n - 1) : walk[i] \in Frames
    BY <1>1
  <2>2. /\ walk' \in Seq(Frames)
        /\ Len(walk') = IF 1 <= n - 1 THEN (n - 1) - 1 + 1 ELSE 0
        /\ \A i \in 1..((n - 1) - 1 + 1) : walk'[i] = walk[1 + i - 1]
    BY <1>2, <2>1, SubSeqProperties
  <2>. QED
    BY <1>2, <2>2
<1>. HIDE DEF succs, n
<1>7. TypeOK'
  BY <1>1, <1>5, <1>6 DEF TypeOK, Frames
<1>8. {walk[i].id : i \in DOMAIN walk} = {Top.id} \cup {walk'[i].id : i \in DOMAIN walk'}
  <2>1. DOMAIN walk = {n} \cup DOMAIN walk' /\ Top = walk[n]
    BY <1>2, <1>6 DEF Top, n
  <2>. QED
    BY <1>6, <2>1
<1>9. Walking'
  <2>1. /\ phase' = "order" /\ fn' = fn /\ seen' = seen /\ opened' = opened
        /\ \A i \in DOMAIN walk' : i \in DOMAIN walk
    BY <1>1, <1>2, <1>6
  <2>2. opened' = Range(order') \cup {walk'[i].id : i \in DOMAIN walk'}
    BY <1>1, <1>5, <1>8, <2>1 DEF Walking
  <2>3. \A l \in Range(order') : Range(Successors(fn, l)) \subseteq opened
    BY <1>1, <1>4, <1>5 DEF Walking, succs
  <2>. QED
    BY <1>1, <1>6, <2>1, <2>2, <2>3 DEF Walking, Analysed
<1> QED
  BY <1>1, <1>7, <1>9
     DEF IInv, Checked, Exploring, Explored, Narrowing, Reporting, Closed, Analysed

(* The walk is over: everything it opened is finished, and closed. *)
LEMMA WalkDone ==
    ASSUME IInv, phase = "order", walk = <<>>
    PROVE  Range(order) = seen
<1>1. /\ TypeOK /\ Walking /\ seen = OnSomePath(fn) /\ ClosedUnderEdges(fn, seen)
      /\ seen \subseteq Labels(fn)
  BY DEF IInv, Explored, Closed, TypeOK
<1>2. opened = Range(order) /\ opened \subseteq seen
  BY <1>1 DEF Walking
<1>3. ClosedUnderEdges(fn, opened) /\ opened \in SUBSET Labels(fn)
  BY <1>1, <1>2 DEF Walking, ClosedUnderEdges
<1>4. seen \subseteq opened
  BY <1>1, <1>3 DEF OnSomePath
<1> QED
  BY <1>2, <1>4

LEMMA StartFlowInv == ASSUME IInv, StartFlow PROVE IInv'
<1>. USE DEF StartFlow, walkVars
<1>1. TypeOK /\ IsFunction(fn) /\ phase = "order" /\ CheckCfg(fn) = {}
  BY FnIsFunction DEF IInv, Checked
<1>2. seen = OnSomePath(fn) /\ ClosedUnderEdges(fn, seen)
  BY <1>1 DEF IInv, Explored, Closed
<1>3. /\ entryIn' \in [seen -> SUBSET AllRegs(fn)]
      /\ entryIn'[Entry(fn)] = Params(fn)
      /\ \A l \in seen \ {Entry(fn)} : entryIn'[l] = AllRegs(fn)
  BY <1>2 DEF InitialAvail, ClosedUnderEdges, AllRegs
<1>4. ASSUME NEW l \in seen, NEW r \in AllRegs(fn), l \notin MissingAt(fn, r)
      PROVE  r \in entryIn'[l]
  <2>1. CASE l # Entry(fn)
    BY <1>3, <2>1
  <2>2. CASE l = Entry(fn)
    <3>1. r \in Params(fn)
      BY <1>1, <1>4, <2>2, MissingClosed DEF ClosedAvoiding
    <3>. QED
      BY <1>3, <2>2, <3>1
  <2>. QED
    BY <2>1, <2>2
<1>5. Range(order) = seen
  BY <1>1, WalkDone
<1>6. TypeOK'
  BY <1>1, <1>3 DEF TypeOK, Phases, Frames
<1>7. Narrowing'
  BY <1>2, <1>3, <1>4, <1>5 DEF Narrowing, Analysed
<1>8. Explored' /\ Walking'
  BY <1>2, <1>5 DEF Explored, Walking, Closed, Analysed
<1>9. Reporting'
  BY <1>1 DEF IInv, Reporting
<1> QED
  BY <1>1, <1>6, <1>7, <1>8, <1>9 DEF IInv, Checked, Exploring

LEMMA FlowBlockInv == ASSUME IInv, FlowBlock PROVE IInv'
<1>. USE DEF FlowBlock, walkVars
<1> DEFINE label == Head(todo)
<1>1. /\ TypeOK /\ IsFunction(fn) /\ phase = "flow" /\ CheckCfg(fn) = {}
      /\ Explored /\ Walking /\ Narrowing /\ Reporting
  BY FnIsFunction DEF IInv, Checked
<1>2. /\ seen = OnSomePath(fn) /\ ClosedUnderEdges(fn, seen)
      /\ entryIn \in [seen -> SUBSET AllRegs(fn)]
      /\ entryIn[Entry(fn)] = Params(fn)
      /\ \A l \in seen : \A r \in AllRegs(fn) :
             l \notin MissingAt(fn, r) => r \in entryIn[l]
  BY <1>1 DEF Explored, Narrowing, Closed, Analysed
<1>3. /\ todo \in Seq(Labels(fn)) /\ todo' \in Seq(Labels(fn))
      /\ Range(todo) = {label} \cup Range(todo') /\ Range(todo) \subseteq seen
  BY <1>1, HeadAndTail DEF TypeOK, Walking, Analysed
<1>4. label \in seen
  BY <1>3
<1>5. Walking'
  BY <1>1, <1>3 DEF Walking, Analysed
<1>. HIDE DEF label
<1>6. CASE label = Entry(fn) \/ Meet(fn, seen, entryIn, label) = entryIn[label]
  <2>1. UNCHANGED <<entryIn, changed>>
    BY <1>6 DEF label
  <2>2. TypeOK'
    BY <1>1, <1>3, <2>1 DEF TypeOK, Frames
  <2>3. Narrowing'
    BY <1>1, <1>3, <1>6, <2>1 DEF Narrowing, Analysed
  <2>. QED
    BY <1>1, <1>5, <2>1, <2>2, <2>3
       DEF IInv, Checked, Exploring, Explored, Reporting, Closed, Analysed
<1>7. CASE ~(label = Entry(fn) \/ Meet(fn, seen, entryIn, label) = entryIn[label])
  <2>1. /\ entryIn' = [entryIn EXCEPT ![label] = Meet(fn, seen, entryIn, label)]
        /\ changed' = TRUE
    BY <1>7 DEF label
  <2>2. Meet(fn, seen, entryIn, label) \in SUBSET AllRegs(fn)
    BY DEF Meet
  <2>3. entryIn' \in [seen -> SUBSET AllRegs(fn)]
    BY <1>2, <2>1, <2>2
  <2>4. entryIn'[Entry(fn)] = Params(fn)
    BY <1>2, <1>7, <2>1 DEF ClosedUnderEdges
  <2>5. ASSUME NEW l \in seen, NEW r \in AllRegs(fn), l \notin MissingAt(fn, r)
        PROVE  r \in entryIn'[l]
    <3>1. CASE l # label
      BY <1>2, <2>1, <2>5, <3>1
    <3>2. CASE l = label
      <4>1. r \in Meet(fn, seen, entryIn, label)
        BY <1>1, <1>2, <1>7, <2>5, <3>2, MeetKeepsDefined
      <4>. QED
        BY <1>2, <1>4, <2>1, <3>2, <4>1
    <3>. QED
      BY <3>1, <3>2
  <2>6. TypeOK'
    BY <1>1, <1>3, <2>1, <2>3 DEF TypeOK, Frames
  <2>7. Narrowing'
    BY <1>1, <2>1, <2>3, <2>4, <2>5 DEF Narrowing, Analysed
  <2>. QED
    BY <1>1, <1>5, <2>1, <2>6, <2>7
       DEF IInv, Checked, Exploring, Explored, Reporting, Closed, Analysed
<1> QED
  BY <1>6, <1>7

LEMMA EndRoundInv == ASSUME IInv, EndRound PROVE IInv'
<1>. USE DEF EndRound, walkVars
<1>1. TypeOK /\ phase = "flow" /\ CheckCfg(fn) = {} /\ errors = {} /\ Range(order) = seen
  BY DEF IInv, Checked, Reporting, Walking, Analysed
<1>2. TypeOK'
  BY <1>1 DEF TypeOK, Phases, Frames
<1>3. Range(todo) = {}
  BY DEF Range
<1>4. Narrowing'
  BY <1>1, <1>3 DEF IInv, Narrowing, Analysed
<1>5. Reporting'
  BY <1>1 DEF Reporting
<1>6. Explored' /\ Walking'
  BY <1>1 DEF IInv, Explored, Walking, Closed, Analysed
<1> QED
  BY <1>1, <1>2, <1>4, <1>5, <1>6 DEF IInv, Checked, Exploring

LEMMA ReportBlockInv == ASSUME IInv, ReportBlock PROVE IInv'
<1>. USE DEF ReportBlock, walkVars
<1> DEFINE label == Head(todo)
<1>1. TypeOK /\ Walking /\ Reporting /\ phase = "uses" /\ CheckCfg(fn) = {}
  BY DEF IInv, Checked
<1>2. /\ todo' \in Seq(Labels(fn)) /\ Range(todo) = {label} \cup Range(todo')
      /\ Range(todo) \subseteq seen
  BY <1>1, HeadAndTail DEF TypeOK, Walking, Analysed
<1>3. label \in seen /\ seen \ Range(todo') \subseteq (seen \ Range(todo)) \cup {label}
  BY <1>2
<1>4. TypeOK'
  BY <1>1, <1>2 DEF TypeOK, Frames
<1>5. errors' = errors \cup ({label} \X UndefinedUses(fn, label, entryIn[label]))
  OBVIOUS
<1>. HIDE DEF label
<1>6. Reporting'
  <2> DEFINE Found(l) == {l} \X UndefinedUses(fn, l, entryIn[l])
  <2>1. UNCHANGED <<fn, phase, seen, entryIn>>
    OBVIOUS
  <2>2. /\ UNION {Found(l) : l \in seen \ Range(todo)} \subseteq errors
        /\ errors \subseteq UNION {Found(l) : l \in seen}
    BY <1>1 DEF Reporting
  <2>3. errors' = errors \cup Found(label)
    BY <1>5
  <2>. HIDE DEF Found
  <2>4. /\ UNION {Found(l) : l \in seen \ Range(todo')} \subseteq errors'
        /\ errors' \subseteq UNION {Found(l) : l \in seen}
    BY <1>3, <2>2, <2>3
  <2>. QED
    BY <1>1, <2>1, <2>4 DEF Reporting, Found
<1>7. Narrowing' /\ Explored' /\ Walking'
  BY <1>1, <1>2 DEF IInv, Narrowing, Explored, Walking, Closed, Analysed
<1> QED
  BY <1>1, <1>4, <1>6, <1>7 DEF IInv, Checked, Exploring

LEMMA CheckTypesInv == ASSUME IInv, CheckTypes PROVE IInv'
<1>. USE DEF CheckTypes, walkVars
<1>1. TypeOK /\ phase = "uses" /\ CheckCfg(fn) = {} /\ Reporting
  BY DEF IInv, Checked
<1>2. TypeOK'
  BY <1>1 DEF TypeOK, Phases, Frames
<1>3. seen \ Range(todo) = seen
  BY DEF Range
<1>4. errors = UNION {{l} \X UndefinedUses(fn, l, entryIn[l]) : l \in seen}
  BY <1>1, <1>3 DEF Reporting
<1> QED
  BY <1>1, <1>2, <1>4
     DEF IInv, Checked, Exploring, Explored, Walking, Narrowing, Reporting, Closed, Analysed

(* The invariant is inductive. *)
LEMMA NextInv == IInv /\ [Next]_vars => IInv'
<1>. SUFFICES ASSUME IInv, [Next]_vars PROVE IInv'
  OBVIOUS
<1>1. CASE Next
  BY <1>1, CheckGraphInv, VisitInv, StartOrderInv, DescendInv, FinishBlockInv, StartFlowInv,
     FlowBlockInv, EndRoundInv, ReportBlockInv, CheckTypesInv DEF Next
<1>2. CASE UNCHANGED vars
  BY <1>2 DEF vars, walkVars, IInv, TypeOK, Frames, Checked, Exploring, Pending, Explored, Walking,
              Narrowing, Reporting, Closed, Analysed
<1> QED
  BY <1>1, <1>2
-----------------------------------------------------------------------------
(* A fixpoint of the meet holds available only what no path misses: the    *)
(* blocks where it does not hold r are closed under the edges out of       *)
(* blocks that do not define r.                                            *)
LEMMA FixpointIsExact ==
    ASSUME NEW f, IsFunction(f), CheckCfg(f) = {},
           NEW live, live = OnSomePath(f),
           NEW avail \in [live -> SUBSET AllRegs(f)],
           avail[Entry(f)] = Params(f),
           \A l \in live \ {Entry(f)} : avail[l] = Meet(f, live, avail, l),
           NEW l \in live, NEW r, r \in avail[l]
    PROVE  l \notin MissingAt(f, r)
<1> DEFINE S == {m \in live : r \notin avail[m]}
<1>1. ClosedUnderEdges(f, live) /\ live \subseteq Labels(f)
  BY OnSomePathClosed
<1>2. ASSUME NEW m \in S, r \notin DefinedBy(f, m, {}), NEW n \in Range(Successors(f, m))
      PROVE  n \in S
  <2>1. n \in live /\ m \in Labels(f)
    BY <1>1, <1>2 DEF ClosedUnderEdges
  <2>2. n # Entry(f)
    BY <1>2, <2>1, EntryFacts
  <2>3. m \in LivePreds(f, live, n)
    BY <1>2, <2>1, PredecessorsInvertEdges DEF LivePreds
  <2>4. r \notin DefinedBy(f, m, avail[m])
    BY <1>2 DEF DefinedBy
  <2>5. r \notin Meet(f, live, avail, n)
    BY <2>3, <2>4 DEF Meet
  <2>. QED
    BY <2>1, <2>2, <2>5
<1>3. r \notin Params(f) => Entry(f) \in S
  BY <1>1 DEF ClosedUnderEdges
<1>4. ClosedAvoiding(f, r, S)
  BY <1>2, <1>3 DEF ClosedAvoiding
<1>5. S \in SUBSET Labels(f)
  BY <1>1
<1> QED
  BY <1>4, <1>5 DEF MissingAt

(* What the invariant says once the analysis has settled. *)
LEMMA SettledIsExact == IInv => AvailableOnEveryPath
<1>. SUFFICES ASSUME IInv, phase \in {"uses", "done"}, CheckCfg(fn) = {}
              PROVE  /\ seen = OnSomePath(fn)
                     /\ \A l \in seen :
                           entryIn[l] = {r \in AllRegs(fn) : l \notin MissingAt(fn, r)}
  BY DEF AvailableOnEveryPath
<1>1. IsFunction(fn) /\ Analysed
  BY FnIsFunction DEF IInv, Analysed
<1>2. /\ seen = OnSomePath(fn)
      /\ entryIn \in [seen -> SUBSET AllRegs(fn)]
      /\ entryIn[Entry(fn)] = Params(fn)
      /\ \A l \in seen : \A r \in AllRegs(fn) :
             l \notin MissingAt(fn, r) => r \in entryIn[l]
      /\ \A l \in seen \ {Entry(fn)} : entryIn[l] = Meet(fn, seen, entryIn, l)
  BY <1>1 DEF IInv, Explored, Narrowing, Closed, Analysed
<1>3. ASSUME NEW l \in seen
      PROVE  entryIn[l] = {r \in AllRegs(fn) : l \notin MissingAt(fn, r)}
  <2>1. \A r \in entryIn[l] : l \notin MissingAt(fn, r)
    BY <1>1, <1>2, <1>3, FixpointIsExact
  <2>. QED
    BY <1>2, <1>3, <2>1
<1> QED
  BY <1>2, <1>3

(* At such a block, a use is reported exactly when some path misses it. *)
LEMMA ReportIsExact ==
    ASSUME IInv, phase \in {"uses", "done"}, CheckCfg(fn) = {}, NEW l \in seen
    PROVE  UndefinedUses(fn, l, entryIn[l]) = UndefinedOnSomePath(fn, l)
<1>1. /\ IsFunction(fn) /\ seen = OnSomePath(fn)
      /\ entryIn[l] = {r \in AllRegs(fn) : l \notin MissingAt(fn, r)}
  BY FnIsFunction, SettledIsExact DEF IInv, AvailableOnEveryPath
<1>2. ASSUME NEW r, r \notin AllRegs(fn) PROVE l \in MissingAt(fn, r)
  <2>1. \A m \in Labels(fn) : r \notin DefinedBy(fn, m, {})
    BY <1>1, <1>2, DefinedAreRegs
  <2>2. r \notin Params(fn)
    BY <1>2 DEF AllRegs
  <2>3. \A S \in SUBSET Labels(fn) : ClosedAvoiding(fn, r, S) => ClosedUnderEdges(fn, S)
    BY <2>1, <2>2 DEF ClosedAvoiding, ClosedUnderEdges
  <2>. QED
    BY <1>1, <2>3 DEF OnSomePath, MissingAt
<1>3. \A r : r \notin entryIn[l] <=> l \in MissingAt(fn, r)
  BY <1>1, <1>2
<1> QED
  BY <1>3 DEF UndefinedUses, UndefinedOnSomePath

LEMMA DoneIsExact == IInv => ReportsExactlyUndefinedUses
<1>. SUFFICES ASSUME IInv, phase = "done" PROVE ReportsExactlyUndefinedUses
  BY DEF ReportsExactlyUndefinedUses
<1>1. CASE CheckCfg(fn) = {}
  <2>1. seen = OnSomePath(fn)
    BY <1>1, SettledIsExact DEF AvailableOnEveryPath
  <2>2. errors = UNION {{l} \X UndefinedUses(fn, l, entryIn[l]) : l \in seen}
    BY <1>1 DEF IInv, Reporting
  <2>3. \A l \in seen : UndefinedUses(fn, l, entryIn[l]) = UndefinedOnSomePath(fn, l)
    BY <1>1, ReportIsExact
  <2>. QED
    BY <1>1, <2>1, <2>2, <2>3 DEF ReportsExactlyUndefinedUses
<1>2. CASE CheckCfg(fn) # {}
  BY <1>2 DEF IInv, Reporting, ReportsExactlyUndefinedUses
<1> QED
  BY <1>1, <1>2

LEMMA InvariantHolds == Spec => []IInv
<1>1. Init => IInv
  BY InitInv
<1>2. IInv /\ [Next]_vars => IInv'
  BY NextInv
<1> QED
  BY <1>1, <1>2, PTL DEF Spec

(* verifyFunction's variables keep their types. *)
THEOREM TypeCorrect == Spec => []TypeOK
<1>1. IInv => TypeOK
  BY DEF IInv
<1> QED
  BY <1>1, InvariantHolds, PTL

(* When the iteration of checkDefinitions settles, `seen` is what some path leads *)
(* to and entryIn is what every path to a block defines.                   *)
THEOREM AnalysisIsExact == Spec => []AvailableOnEveryPath
  BY SettledIsExact, InvariantHolds, PTL

(* verifyFunction reports the uses some path reaches undefined, all of them *)
(* and nothing else; a broken graph gives exactly the broken rules.         *)
THEOREM CheckIsExact == Spec => []ReportsExactlyUndefinedUses
  BY DoneIsExact, InvariantHolds, PTL
-----------------------------------------------------------------------------
(* The meet is monotone. *)
LEMMA MeetMonotone ==
    ASSUME NEW f, NEW live, NEW low, NEW high,
           \A l \in live : low[l] \subseteq high[l], NEW l
    PROVE  Meet(f, live, low, l) \subseteq Meet(f, live, high, l)
<1>1. \A p \in LivePreds(f, live, l) :
          DefinedBy(f, p, low[p]) \subseteq DefinedBy(f, p, high[p])
  BY DEF LivePreds, DefinedBy
<1> QED
  BY <1>1 DEF Meet

(* During the iteration every entry set lies above its meet. *)
AboveMeet ==
    phase = "flow" =>
        \A l \in seen \ {Entry(fn)} : Meet(fn, seen, entryIn, l) \subseteq entryIn[l]

(* The rounds visit reached blocks only. *)
LEMMA VisitedIsSeen ==
    ASSUME IInv, phase = "flow", todo # <<>> PROVE Head(todo) \in seen
<1>1. todo \in Seq(Labels(fn)) /\ Range(todo) \subseteq seen
  BY DEF IInv, TypeOK, Walking, Analysed
<1> QED
  BY <1>1, HeadAndTail

(* One block of a round lowers its own entry set and no other. *)
LEMMA FlowBlockLowers ==
    ASSUME IInv, AboveMeet, FlowBlock
    PROVE  \A l \in seen : entryIn'[l] \subseteq entryIn[l]
<1> DEFINE label == Head(todo)
<1>1. TypeOK /\ phase = "flow"
  BY DEF IInv, FlowBlock
<1>2. IF label = Entry(fn) \/ Meet(fn, seen, entryIn, label) = entryIn[label]
      THEN UNCHANGED <<entryIn, changed>>
      ELSE /\ entryIn' = [entryIn EXCEPT ![label] = Meet(fn, seen, entryIn, label)]
           /\ changed' = TRUE
  BY DEF FlowBlock
<1>3. label \in seen /\ entryIn \in [seen -> SUBSET AllRegs(fn)]
  BY <1>1, VisitedIsSeen DEF TypeOK, FlowBlock
<1>. HIDE DEF label
<1>4. CASE label = Entry(fn) \/ Meet(fn, seen, entryIn, label) = entryIn[label]
  BY <1>2, <1>4
<1>5. CASE ~(label = Entry(fn) \/ Meet(fn, seen, entryIn, label) = entryIn[label])
  <2>1. Meet(fn, seen, entryIn, label) \subseteq entryIn[label]
    BY <1>1, <1>3, <1>5 DEF AboveMeet
  <2>2. entryIn' = [entryIn EXCEPT ![label] = Meet(fn, seen, entryIn, label)]
    BY <1>2, <1>5
  <2>. QED
    BY <1>3, <2>1, <2>2
<1> QED
  BY <1>4, <1>5

LEMMA AboveMeetInductive ==
    ASSUME IInv, AboveMeet, [Next]_vars PROVE AboveMeet'
<1>1. CASE StartFlow
  <2>1. \A l \in seen \ {Entry(fn)} : entryIn'[l] = AllRegs(fn)
    BY <1>1 DEF StartFlow, InitialAvail
  <2>. QED
    BY <1>1, <2>1 DEF StartFlow, AboveMeet, Meet
<1>2. CASE FlowBlock
  <2>1. \A l \in seen : entryIn'[l] \subseteq entryIn[l]
    BY <1>2, FlowBlockLowers
  <2>2. \A l : Meet(fn, seen, entryIn', l) \subseteq Meet(fn, seen, entryIn, l)
    BY <2>1, MeetMonotone
  <2>3. /\ phase = "flow" /\ fn' = fn /\ seen' = seen /\ phase' = phase
        /\ entryIn \in [seen -> SUBSET AllRegs(fn)] /\ Head(todo) \in seen
    BY <1>2, VisitedIsSeen DEF FlowBlock, IInv, TypeOK
  <2>4. \/ entryIn' = entryIn
        \/ entryIn' = [entryIn EXCEPT ![Head(todo)] = Meet(fn, seen, entryIn, Head(todo))]
    BY <1>2 DEF FlowBlock
  <2>5. \A l \in seen : entryIn'[l] = entryIn[l]
                        \/ entryIn'[l] = Meet(fn, seen, entryIn, l)
    BY <2>3, <2>4
  <2>6. \A l \in seen \ {Entry(fn)} : Meet(fn, seen, entryIn', l) \subseteq entryIn'[l]
    BY <2>2, <2>3, <2>5 DEF AboveMeet
  <2>. QED
    BY <2>3, <2>6 DEF AboveMeet
<1>3. CASE EndRound
  BY <1>3 DEF EndRound, AboveMeet
<1>4. CASE CheckGraph \/ Visit \/ StartOrder \/ Descend \/ FinishBlock \/ ReportBlock \/ CheckTypes
  BY <1>4 DEF CheckGraph, Visit, StartOrder, Descend, FinishBlock, ReportBlock, CheckTypes, AboveMeet
<1>5. CASE UNCHANGED vars
  BY <1>5 DEF vars, AboveMeet
<1> QED
  BY <1>1, <1>2, <1>3, <1>4, <1>5 DEF Next

(* No round ever makes a register available again: the iteration terminates *)
(* because each round that changes something takes registers away.          *)
THEOREM IterationNarrows == Spec => OnlyNarrows
<1> DEFINE A == phase = "flow" /\ phase' = "flow" =>
                   \A l \in seen : entryIn'[l] \subseteq entryIn[l]
<1>1. Init => AboveMeet
  BY DEF Init, AboveMeet
<1>2. IInv /\ AboveMeet /\ [Next]_vars => AboveMeet'
  BY AboveMeetInductive
<1>3. IInv /\ AboveMeet /\ [Next]_vars => [A]_vars
  <2>. SUFFICES ASSUME IInv, AboveMeet, Next, phase = "flow", phase' = "flow",
                       NEW l \in seen
                PROVE  entryIn'[l] \subseteq entryIn[l]
    OBVIOUS
  <2>1. CASE FlowBlock
    BY <2>1, FlowBlockLowers
  <2>2. CASE EndRound
    BY <2>2 DEF EndRound
  <2>. QED
    BY <2>1, <2>2 DEF Next, CheckGraph, Visit, StartOrder, Descend, FinishBlock, StartFlow,
                      ReportBlock, CheckTypes
<1> QED
  BY <1>1, <1>2, <1>3, InvariantHolds, PTL DEF Spec, OnlyNarrows
-----------------------------------------------------------------------------
(* The instance reads the operators of CFG as this module does. *)
LEMMA SameGraph ==
    ASSUME NEW f, NEW l
    PROVE  /\ Abstract!Entry(f) = Entry(f)
           /\ Abstract!EntryLabels(f) = EntryLabels(f)
           /\ Abstract!AllRegs(f) = AllRegs(f)
           /\ Abstract!Params(f) = Params(f)
           /\ Abstract!Instrs(f, l) = Instrs(f, l)
           /\ Abstract!Range(Abstract!Successors(f, l)) = Range(Successors(f, l))
           /\ Abstract!Predecessors(f, l) = Predecessors(f, l)
<1>. USE DEF Abstract!Range, Range
<1>1. \A b : Abstract!BlockSuccessors(b) = BlockSuccessors(b)
  BY DEF Abstract!BlockSuccessors, BlockSuccessors, Abstract!HasTerminator,
         HasTerminator, Abstract!IsTerminator, IsTerminator,
         Abstract!Terminators, Terminators
<1>2. Abstract!Block(f, l) = Block(f, l) /\ Abstract!Labels(f) = Labels(f)
  BY DEF Abstract!Block, Block, Abstract!Labels, Labels
<1>3. Abstract!Successors(f, l) = Successors(f, l)
  BY <1>1, <1>2 DEF Abstract!Successors, Successors
<1>4. Abstract!Predecessors(f, l) = Predecessors(f, l)
  BY <1>1 DEF Abstract!Predecessors, Predecessors
<1>5. \A ins : Abstract!Dest(ins) = Dest(ins)
  BY DEF Abstract!Dest, Dest, Abstract!NoName, NoName
<1>6. Abstract!AllRegs(f) = AllRegs(f)
  BY <1>5 DEF Abstract!AllRegs, AllRegs, Abstract!Params, Params,
               Abstract!Instructions, Instructions
<1> QED
  BY <1>2, <1>3, <1>4, <1>6
     DEF Abstract!Entry, Entry, Abstract!EntryLabels, EntryLabels,
         Abstract!Params, Params, Abstract!Instrs, Instrs

LEMMA SameAnalysis ==
    ASSUME NEW f, NEW live, NEW avail, NEW l, NEW a
    PROVE  /\ Abstract!Meet(f, live, avail, l) = Meet(f, live, avail, l)
           /\ Abstract!InitialAvail(f, live) = InitialAvail(f, live)
           /\ Abstract!UndefinedUses(f, l, a) = UndefinedUses(f, l, a)
<1>1. \A ins : Abstract!Dest(ins) = Dest(ins) /\ Abstract!Uses(ins) = Uses(ins)
  BY DEF Abstract!Dest, Dest, Abstract!NoName, NoName, Abstract!Uses, Uses,
         Abstract!Range, Range
<1>2. \A m, n : Abstract!DefinedBefore(f, m, n) = DefinedBefore(f, m, n)
  BY <1>1, SameGraph DEF Abstract!DefinedBefore, DefinedBefore
<1>3. \A m, inc : Abstract!DefinedBy(f, m, inc) = DefinedBy(f, m, inc)
  BY <1>2, SameGraph DEF Abstract!DefinedBy, DefinedBy
<1>4. Abstract!LivePreds(f, live, l) = LivePreds(f, live, l)
  BY SameGraph DEF Abstract!LivePreds, LivePreds
<1>5. Abstract!Meet(f, live, avail, l) = Meet(f, live, avail, l)
  BY <1>3, <1>4, SameGraph DEF Abstract!Meet, Meet
<1>6. Abstract!InitialAvail(f, live) = InitialAvail(f, live)
  BY SameGraph DEF Abstract!InitialAvail, InitialAvail
<1>7. Abstract!UndefinedUses(f, l, a) = UndefinedUses(f, l, a)
  BY <1>1, <1>2, SameGraph
     DEF Abstract!UndefinedUses, UndefinedUses, Abstract!Range, Range
<1> QED
  BY <1>5, <1>6, <1>7

(* What has been stacked and not seen is on the abstract frontier. *)
LEMMA StackedIsFrontier ==
    ASSUME IInv, phase = "reach"
    PROVE  Range(work) \ seen \subseteq Abstract!Frontier
<1>1. TypeOK /\ IsFunction(fn) /\ CheckCfg(fn) = {} /\ Exploring
  BY FnIsFunction DEF IInv, Checked
<1>2. EntryLabels(fn) = {Entry(fn)}
  BY <1>1, EntryFacts
<1>3. Range(work) \ seen \subseteq Abstract!Frontier
  BY <1>1, <1>2, SameGraph DEF Exploring, Abstract!Frontier
<1> QED
  BY <1>3

(* Once the reachable blocks are known, nothing is left to explore. *)
LEMMA NothingLeftToExplore ==
    ASSUME IInv, phase = "order" PROVE Abstract!Frontier = {} /\ seen # {}
<1>1. IsFunction(fn) /\ CheckCfg(fn) = {} /\ ClosedUnderEdges(fn, seen)
  BY FnIsFunction DEF IInv, Checked, Explored, Closed
<1>2. EntryLabels(fn) = {Entry(fn)}
  BY <1>1, EntryFacts
<1> QED
  BY <1>1, <1>2, SameGraph DEF ClosedUnderEdges, Abstract!Frontier

(* Every step of the loops is a step of the order-free analysis or none. *)
LEMMA StepRefines ==
    ASSUME IInv, IInv', [Next]_vars PROVE [Abstract!Next]_(Abstract!vars)
<1>. USE DEF Abstract!vars
<1>1. ASSUME CheckGraph PROVE UNCHANGED Abstract!vars
  <2>1. phase = "cfg" /\ seen' = seen /\ fn' = fn /\ entryIn' = entryIn
    BY <1>1 DEF CheckGraph
  <2>2. Stage = "explore" /\ Stage' = "explore"
    BY <1>1 DEF CheckGraph, Stage
  <2>. QED
    BY <2>1, <2>2 DEF Verdict
<1>2. ASSUME Visit PROVE Abstract!Explore \/ UNCHANGED Abstract!vars
  <2>1. /\ phase = "reach" /\ fn' = fn /\ entryIn' = entryIn
        /\ Stage = "explore" /\ Stage' = "explore"
        /\ Verdict' = Verdict
    BY <1>2 DEF Visit, Stage, Verdict
  <2>2. TypeOK /\ work \in Seq(Labels(fn)) /\ work # <<>>
    BY <1>2 DEF Visit, IInv, TypeOK
  <2>3. work[Len(work)] \in Range(work)
    BY <2>2, PopStack
  <2>4. CASE work[Len(work)] \in seen
    BY <1>2, <2>1, <2>4 DEF Visit
  <2>5. CASE work[Len(work)] \notin seen
    <3>1. work[Len(work)] \in Abstract!Frontier
      BY <2>1, <2>3, <2>5, StackedIsFrontier
    <3>2. seen' = seen \cup {work[Len(work)]}
      BY <1>2, <2>5 DEF Visit
    <3>. QED
      BY <2>1, <3>1, <3>2 DEF Abstract!Explore
  <2>. QED
    BY <2>4, <2>5
<1>3. ASSUME StartFlow PROVE Abstract!Start
  <2>1. Abstract!Frontier = {} /\ seen # {}
    BY <1>3, NothingLeftToExplore DEF StartFlow
  <2>2. Stage = "explore" /\ Stage' = "narrow" /\ Verdict' = Verdict
    BY <1>3 DEF StartFlow, Stage, Verdict
  <2>. QED
    BY <1>3, <2>1, <2>2, SameAnalysis DEF StartFlow, Abstract!Start
<1>4. ASSUME FlowBlock PROVE Abstract!Lower \/ UNCHANGED Abstract!vars
  <2>1. /\ phase = "flow" /\ phase' = "flow" /\ fn' = fn /\ seen' = seen
        /\ Stage = "narrow" /\ Stage' = "narrow" /\ Verdict' = Verdict
    BY <1>4 DEF FlowBlock, Stage, Verdict
  <2> DEFINE label == Head(todo)
  <2>2. IF label = Entry(fn) \/ Meet(fn, seen, entryIn, label) = entryIn[label]
        THEN UNCHANGED <<entryIn, changed>>
        ELSE /\ entryIn' = [entryIn EXCEPT ![label] = Meet(fn, seen, entryIn, label)]
             /\ changed' = TRUE
    BY <1>4 DEF FlowBlock
  <2>3. label \in seen
    BY <1>4, VisitedIsSeen DEF FlowBlock
  <2>4. CASE label = Entry(fn) \/ Meet(fn, seen, entryIn, label) = entryIn[label]
    BY <2>1, <2>2, <2>4
  <2>5. CASE ~(label = Entry(fn) \/ Meet(fn, seen, entryIn, label) = entryIn[label])
    <3>1. label \in seen \ {Abstract!Entry(fn)}
      BY <2>3, <2>5, SameGraph
    <3>2. entryIn' = [entryIn EXCEPT ![label] = Abstract!Meet(fn, seen, entryIn, label)]
      BY <2>2, <2>5, SameAnalysis
    <3>. QED
      BY <2>1, <3>1, <3>2 DEF Abstract!Lower
  <2>. QED
    BY <2>4, <2>5
<1>5. ASSUME EndRound PROVE Abstract!Settle \/ UNCHANGED Abstract!vars
  <2>1. /\ phase = "flow" /\ fn' = fn /\ seen' = seen /\ entryIn' = entryIn
        /\ CheckCfg(fn) = {} /\ Stage = "narrow" /\ todo = <<>>
    BY <1>5 DEF EndRound, Stage, IInv, Checked
  <2>2. CASE changed
    BY <1>5, <2>1, <2>2 DEF EndRound, Stage, Verdict
  <2>3. CASE ~changed
    <3>1. \A l \in seen \ {Entry(fn)} : entryIn[l] = Meet(fn, seen, entryIn, l)
      BY <2>1, <2>3, Range(<<>>) = {} DEF IInv, Narrowing, Range
    <3>2. phase' = "uses"
      BY <1>5, <2>3 DEF EndRound
    <3>3. Stage' = "settled"
      BY <2>1, <3>2 DEF Stage
    <3>4. Verdict' = {l \in seen : UndefinedUses(fn, l, entryIn[l]) # {}}
      BY <2>1, <3>3 DEF Verdict
    <3>5. /\ Abstract!Entry(fn) = Entry(fn)
          /\ \A l : Abstract!Meet(fn, seen, entryIn, l) = Meet(fn, seen, entryIn, l)
          /\ \A l : Abstract!UndefinedUses(fn, l, entryIn[l]) = UndefinedUses(fn, l, entryIn[l])
      BY SameGraph, SameAnalysis
    <3>. QED
      BY <2>1, <3>1, <3>3, <3>4, <3>5 DEF Abstract!Settle
  <2>. QED
    BY <2>2, <2>3 DEF IInv, TypeOK
<1>6. ASSUME ReportBlock \/ CheckTypes PROVE UNCHANGED Abstract!vars
  <2>1. /\ fn' = fn /\ seen' = seen /\ entryIn' = entryIn /\ CheckCfg(fn) = {}
        /\ phase = "uses" /\ phase' \in {"uses", "done"}
    BY <1>6 DEF ReportBlock, CheckTypes, IInv, Checked
  <2>. QED
    BY <2>1 DEF Stage, Verdict
<1>7. ASSUME UNCHANGED vars PROVE UNCHANGED Abstract!vars
  BY <1>7 DEF vars, Stage, Verdict
<1>8. ASSUME StartOrder \/ Descend \/ FinishBlock PROVE UNCHANGED Abstract!vars
  <2>1. /\ fn' = fn /\ seen' = seen /\ entryIn' = entryIn
        /\ phase \in {"reach", "order"} /\ phase' = "order"
    BY <1>8 DEF StartOrder, Descend, FinishBlock
  <2>. QED
    BY <2>1 DEF Stage, Verdict
<1> QED
  BY <1>1, <1>2, <1>3, <1>4, <1>5, <1>6, <1>7, <1>8 DEF Next, Abstract!Next

(* checkDefinitions implements the order-free definedness analysis. *)
THEOREM Refines == Spec => ImplementsDefinedness
<1>1. Init => Abstract!Init
  BY DEF Init, Abstract!Init, Stage, Verdict
<1>2. IInv /\ IInv' /\ [Next]_vars => [Abstract!Next]_(Abstract!vars)
  BY StepRefines
<1> QED
  BY <1>1, <1>2, InvariantHolds, PTL DEF Spec, ImplementsDefinedness, Abstract!Spec

-----------------------------------------------------------------------------
(* The depth-first order.  While the walk goes on, the stack leads from    *)
(* the entry to its top, each block on it once and none of them finished;  *)
(* an edge out of a finished block leads to one finished before it, or     *)
(* back to one that leads to it.                                           *)
Stacked ==
    /\ \A i, j \in DOMAIN walk : walk[i].id = walk[j].id => i = j
    /\ \A i \in DOMAIN walk : walk[i].id \notin Range(order)
    /\ \A i, j \in DOMAIN walk : i <= j => walk[j].id \in PathsFrom(walk[i].id)
    /\ walk # <<>> => walk[1].id = Entry(fn)
    /\ walk = <<>> => order # <<>> /\ order[1] = Entry(fn)
Backwards ==
    /\ \A i, j \in DOMAIN order : order[i] = order[j] => i = j
    /\ \A i \in DOMAIN order : \A m \in Range(Successors(fn, order[i])) :
          \/ \E j \in DOMAIN order : i < j /\ order[j] = m
          \/ order[i] \in PathsFrom(m)
Ordered ==
    /\ phase = "order" => Stacked /\ Backwards
    /\ phase = "flow" => Backwards /\ order # <<>> /\ order[1] = Entry(fn)

(* PathsFrom follows the edges. *)
LEMMA PathsOn ==
    ASSUME IsFunction(fn), CheckCfg(fn) = {}, NEW l \in Labels(fn)
    PROVE  /\ l \in PathsFrom(l) /\ PathsFrom(l) \subseteq Labels(fn)
           /\ \A k \in PathsFrom(l) : Range(Successors(fn, k)) \subseteq PathsFrom(l)
<1>1. l \in PathsFrom(l) /\ PathsFrom(l) \subseteq Labels(fn)
  BY DEF PathsFrom
<1>2. ASSUME NEW k \in PathsFrom(l), NEW m \in Range(Successors(fn, k)) PROVE m \in PathsFrom(l)
  <2>1. k \in Labels(fn) /\ m \in Labels(fn)
    BY <1>1, SuccessorsAreLabels
  <2>2. ASSUME NEW S \in SUBSET Labels(fn), l \in S, \A x \in S : Range(Successors(fn, x)) \subseteq S
        PROVE  m \in S
    <3>1. k \in S
      BY <2>2 DEF PathsFrom
    <3>. QED
      BY <2>2, <3>1
  <2>. QED
    BY <2>1, <2>2 DEF PathsFrom
<1> QED
  BY <1>1, <1>2

(* StartOrder puts the entry alone on the stack. *)
LEMMA StartOrderOrdered == ASSUME IInv, StartOrder PROVE Ordered'
<1>1. /\ phase' = "order" /\ walk' = <<[id |-> Entry(fn), next |-> 1]>> /\ order = <<>> /\ order' = <<>>
      /\ fn' = fn /\ IsFunction(fn) /\ CheckCfg(fn) = {}
  BY FnIsFunction DEF StartOrder, IInv, Walking, Checked
<1>2. DOMAIN walk' = {1} /\ walk' # <<>> /\ walk'[1].id = Entry(fn)
  BY <1>1
<1>3. Entry(fn) \in PathsFrom(Entry(fn))
  BY <1>1, EntryFacts, PathsOn
<1>4. \A l : PathsFrom(l)' = PathsFrom(l)
  BY <1>1 DEF PathsFrom
<1>5. DOMAIN order' = {} /\ Range(order') = {}
  BY <1>1 DEF Range
<1>6. Stacked'
  BY <1>1, <1>2, <1>3, <1>4, <1>5 DEF Stacked
<1>7. Backwards'
  BY <1>5 DEF Backwards
<1> QED
  BY <1>1, <1>6, <1>7 DEF Ordered

(* Descend stacks a block no path of the stack has met, one edge from its top. *)
LEMMA DescendOrdered == ASSUME IInv, Ordered, Descend PROVE Ordered'
<1>1. /\ phase = "order" /\ phase' = "order" /\ walk # <<>> /\ order' = order /\ fn' = fn
      /\ walk \in Seq(Frames) /\ Stacked /\ Backwards /\ Walking
  BY DEF Descend, IInv, TypeOK, Ordered
<1> DEFINE n == Len(walk)
           succs == Successors(fn, Top.id)
<1>2. /\ n \in DOMAIN walk /\ DOMAIN walk = 1..n /\ n \in Nat
      /\ Top \in Frames /\ Top.id \in seen /\ seen \subseteq Labels(fn)
      /\ succs \in Seq(Labels(fn)) /\ IsFunction(fn) /\ CheckCfg(fn) = {}
  BY <1>1, TopOfWalk
<1>3. Top.next \in DOMAIN succs /\ Child = succs[Top.next] /\ Child \in Range(succs)
  BY <1>2 DEF Descend, MoreChildren, Child, Frames, Range
<1>4. /\ Taken \in Seq(Frames) /\ DOMAIN Taken = 1..n /\ Len(Taken) = n
      /\ \A i \in 1..n : Taken[i].id = walk[i].id
  <2>1. [Top EXCEPT !.next = @ + 1] \in Frames
    BY <1>2, <1>3 DEF Frames
  <2>2. Taken = [walk EXCEPT ![n] = [Top EXCEPT !.next = @ + 1]]
    BY DEF Taken, Top
  <2>3. /\ Taken \in Seq(Frames) /\ Len(Taken) = n /\ DOMAIN Taken = DOMAIN walk
        /\ Taken[n] = [Top EXCEPT !.next = @ + 1]
        /\ \A i \in DOMAIN walk \ {n} : Taken[i] = walk[i]
    BY <1>1, <1>2, <2>1, <2>2
  <2>. QED
    BY <1>2, <2>3 DEF Top, Frames
<1>5. \A l : PathsFrom(l)' = PathsFrom(l)
  BY <1>1 DEF PathsFrom
<1>6. Backwards'
  BY <1>1, <1>5 DEF Backwards
<1>7. CASE Child \in opened
  <2>1. walk' = Taken
    BY <1>7 DEF Descend
  <2>2. DOMAIN walk' = DOMAIN walk /\ walk' # <<>> /\ 1 \in DOMAIN walk /\ \A i \in DOMAIN walk : walk'[i].id = walk[i].id
    BY <1>2, <1>4, <2>1
  <2>3. Stacked'
    BY <1>1, <1>5, <2>2 DEF Stacked
  <2>. QED
    BY <1>1, <1>6, <2>3 DEF Ordered
<1>8. CASE Child \notin opened
  <2> DEFINE frame == [id |-> Child, next |-> 1]
  <2>0. frame.id = Child
    OBVIOUS
  <2>1. walk' = Append(Taken, frame)
    BY <1>8 DEF Descend
  <2>. HIDE DEF frame, n
  <2>2. /\ DOMAIN walk' = 1..(n + 1) /\ walk'[n + 1].id = Child
        /\ \A i \in 1..n : walk'[i].id = walk[i].id
        /\ walk' # <<>> /\ 1 \in 1..n
    BY <1>2, <1>4, <2>0, <2>1 DEF n
  <2>3. Child \notin Range(order) /\ \A i \in 1..n : walk[i].id # Child
    BY <1>1, <1>2, <1>8 DEF Walking
  <2>4. \A i \in 1..n : Child \in PathsFrom(walk[i].id)
    <3>. SUFFICES ASSUME NEW i \in 1..n PROVE Child \in PathsFrom(walk[i].id)
      OBVIOUS
    <3>1. walk[i].id \in Labels(fn)
      <4>1. walk[i] \in Frames
        BY <1>1, <1>2
      <4>. QED
        BY <4>1 DEF Frames
    <3>2. Top.id \in PathsFrom(walk[i].id)
      BY <1>1, <1>2 DEF Stacked, Top, n
    <3>. QED
      BY <1>2, <1>3, <3>1, <3>2, PathsOn
  <2>5. Child \in PathsFrom(Child)
    <3>1. Child \in Labels(fn)
      BY <1>2, <1>3
    <3>. QED
      BY <1>2, <3>1, PathsOn
  <2>6. \A i \in DOMAIN walk' : i \in 1..n \/ i = n + 1
    BY <1>2, <2>2
  <2>7. ASSUME NEW i \in DOMAIN walk', NEW j \in DOMAIN walk', walk'[i].id = walk'[j].id PROVE i = j
    BY <1>1, <1>2, <2>2, <2>3, <2>6, <2>7 DEF Stacked
  <2>8. ASSUME NEW i \in DOMAIN walk' PROVE walk'[i].id \notin Range(order)
    BY <1>1, <1>2, <2>2, <2>3, <2>6 DEF Stacked
  <2>9. ASSUME NEW i \in DOMAIN walk', NEW j \in DOMAIN walk', i <= j PROVE walk'[j].id \in PathsFrom(walk'[i].id)
    <3>1. CASE j \in 1..n
      <4>1. i \in 1..n
        BY <1>2, <2>6, <2>9, <3>1
      <4>. QED
        BY <1>1, <1>2, <2>2, <2>9, <3>1, <4>1 DEF Stacked
    <3>2. CASE j = n + 1
      BY <2>2, <2>4, <2>5, <2>6, <3>2
    <3>. QED
      BY <2>6, <3>1, <3>2
  <2>10. walk'[1].id = Entry(fn)
    BY <1>1, <2>2 DEF Stacked
  <2>11. Stacked'
    BY <1>1, <1>5, <2>2, <2>7, <2>8, <2>9, <2>10 DEF Stacked
  <2>. QED
    BY <1>1, <1>6, <2>11 DEF Ordered
<1> QED
  BY <1>7, <1>8

(* FinishBlock lists a block each of whose successors is listed already, or  *)
(* leads to it from below on the stack.                                      *)
LEMMA FinishBlockOrdered == ASSUME IInv, Ordered, FinishBlock PROVE Ordered'
<1>1. /\ phase = "order" /\ phase' = "order" /\ walk # <<>> /\ fn' = fn /\ order' = <<Top.id>> \o order
      /\ walk' = SubSeq(walk, 1, Len(walk) - 1)
      /\ walk \in Seq(Frames) /\ order \in Seq(Labels(fn)) /\ Stacked /\ Backwards /\ Walking
  BY DEF FinishBlock, IInv, TypeOK, Ordered
<1> DEFINE n == Len(walk)
           succs == Successors(fn, Top.id)
<1>2. /\ n \in DOMAIN walk /\ DOMAIN walk = 1..n /\ n \in Nat
      /\ Top \in Frames /\ Top.id \in seen /\ seen \subseteq Labels(fn)
      /\ succs \in Seq(Labels(fn)) /\ Range(succs) \subseteq seen
      /\ IsFunction(fn) /\ CheckCfg(fn) = {}
  BY <1>1, TopOfWalk
<1>3. Range(succs) \subseteq opened
  <2>1. \A k \in DOMAIN succs : k < Top.next
    BY <1>2 DEF FinishBlock, MoreChildren, Frames
  <2>. QED
    BY <1>1, <1>2, <2>1 DEF Walking, Top, Range
<1>4. PICK a \in Nat : /\ a = Len(order) /\ DOMAIN order = 1..a /\ DOMAIN order' = 1..(a + 1)
                       /\ order'[1] = Top.id /\ order' # <<>>
                       /\ \A k \in 1..a : order'[k + 1] = order[k]
  <2>1. Top.id \in Labels(fn)
    BY <1>2
  <2>2. PICK t : t = Top.id
    OBVIOUS
  <2>3. order' = <<t>> \o order /\ t \in Labels(fn)
    BY <1>1, <2>1, <2>2
  <2>4. /\ Len(order) \in Nat /\ DOMAIN order = 1..Len(order) /\ DOMAIN order' = 1..(Len(order) + 1)
        /\ order'[1] = t /\ order' # <<>>
        /\ \A k \in 1..Len(order) : order'[k + 1] = order[k]
    BY <1>1, <2>3
  <2>. QED
    BY <2>2, <2>4
<1>5. \A k \in 1..(a + 1) : k = 1 \/ (k - 1 \in 1..a /\ order'[k] = order[k - 1])
  BY <1>4
<1>6. /\ walk' \in Seq(Frames) /\ DOMAIN walk' = 1..(n - 1)
      /\ \A i \in 1..(n - 1) : walk'[i] = walk[i]
  <2>1. \A i \in 1..(n - 1) : walk[i] \in Frames
    BY <1>1
  <2>2. /\ walk' \in Seq(Frames)
        /\ Len(walk') = IF 1 <= n - 1 THEN (n - 1) - 1 + 1 ELSE 0
        /\ \A i \in 1..((n - 1) - 1 + 1) : walk'[i] = walk[1 + i - 1]
    BY <1>1, <1>2, <2>1, SubSeqProperties
  <2>. HIDE DEF n
  <2>3. Len(walk') = n - 1
    <3>1. n \in Nat /\ n \in 1..n
      BY <1>2
    <3>2. Len(walk') = IF 1 <= n - 1 THEN n - 1 ELSE 0
      BY <2>2, <3>1
    <3>. QED
      BY <3>1, <3>2
  <2>4. \A i \in 1..(n - 1) : i \in 1..((n - 1) - 1 + 1) /\ 1 + i - 1 = i
    BY <1>2
  <2>5. DOMAIN walk' = 1..(n - 1)
    BY <2>2, <2>3
  <2>6. \A i \in 1..(n - 1) : walk'[i] = walk[i]
    BY <2>2, <2>4
  <2>. QED
    BY <2>2, <2>5, <2>6
<1>7. \A l : PathsFrom(l)' = PathsFrom(l)
  BY <1>1 DEF PathsFrom
<1>8. Top.id \notin Range(order) /\ Top.id = walk[n].id
  BY <1>1, <1>2 DEF Stacked, Top
<1>9. ASSUME NEW x, x \in Range(order') PROVE x = Top.id \/ x \in Range(order)
  BY <1>4, <1>5, <1>9, SMTT(30) DEF Range
<1> HIDE DEF n, succs
<1>10. Stacked'
  <2>1. ASSUME NEW i \in DOMAIN walk' PROVE i \in DOMAIN walk /\ walk'[i] = walk[i] /\ i # n
    BY <1>2, <1>6
  <2>2. ASSUME NEW i \in DOMAIN walk' PROVE walk'[i].id \notin Range(order')
    BY <1>1, <1>2, <1>8, <1>9, <2>1 DEF Stacked
  <2>3. ASSUME walk' # <<>> PROVE walk'[1].id = Entry(fn)
    <3>1. 1 \in DOMAIN walk'
      BY <1>2, <1>6, <2>3
    <3>. QED
      BY <1>1, <2>1, <3>1 DEF Stacked
  <2>4. ASSUME walk' = <<>> PROVE order'[1] = Entry(fn)
    <3>1. n = 1
      BY <1>2, <1>6, <2>4
    <3>. QED
      BY <1>1, <1>4, <1>8, <3>1 DEF Stacked
  <2>. QED
    BY <1>1, <1>4, <1>7, <2>1, <2>2, <2>3, <2>4, ZenonT(30) DEF Stacked
<1>11. Backwards'
  <2>1. ASSUME NEW i \in 1..(a + 1), NEW j \in 1..(a + 1), order'[i] = order'[j] PROVE i = j
    <3>1. \A k \in 1..a : order[k] # Top.id
      BY <1>4, <1>8 DEF Range
    <3>2. CASE i = 1 \/ j = 1
      BY <1>4, <1>5, <2>1, <3>1, <3>2
    <3>3. CASE i # 1 /\ j # 1
      <4>1. i - 1 \in 1..a /\ j - 1 \in 1..a /\ order[i - 1] = order[j - 1]
        BY <1>5, <2>1, <3>3
      <4>2. i - 1 = j - 1
        BY <1>1, <1>4, <4>1 DEF Backwards
      <4>. QED
        BY <1>4, <4>2
    <3>. QED
      BY <3>2, <3>3
  <2>2. ASSUME NEW i \in 1..(a + 1), NEW m \in Range(Successors(fn, order'[i]))
        PROVE  \/ \E j \in 1..(a + 1) : i < j /\ order'[j] = m
               \/ order'[i] \in PathsFrom(m)
    <3>1. CASE i = 1
      <4>1. m \in opened /\ order'[i] = Top.id
        BY <1>3, <1>4, <2>2, <3>1 DEF succs
      <4>2. CASE m \in Range(order)
        <5>1. PICK k \in 1..a : order[k] = m
          BY <1>4, <4>2 DEF Range
        <5>. QED
          BY <1>4, <3>1, <5>1
      <4>3. CASE \E k \in DOMAIN walk : walk[k].id = m
        <5>1. PICK k \in 1..n : walk[k].id = m
          BY <1>2, <4>3
        <5>2. k \in DOMAIN walk /\ n \in DOMAIN walk /\ k <= n
          BY <1>2, <5>1
        <5>3. walk[n].id \in PathsFrom(walk[k].id)
          BY <1>1, <5>2 DEF Stacked
        <5>4. Top.id \in PathsFrom(m)
          BY <1>8, <5>1, <5>3
        <5>. QED
          BY <4>1, <5>4
      <4>. QED
        BY <1>1, <4>1, <4>2, <4>3, ZenonT(30) DEF Walking
    <3>2. CASE i # 1
      <4>1. i - 1 \in 1..a /\ order'[i] = order[i - 1]
        BY <1>5, <3>2
      <4>2. CASE \E j \in DOMAIN order : i - 1 < j /\ order[j] = m
        <5>1. PICK j \in 1..a : i - 1 < j /\ order[j] = m
          BY <1>4, <4>2
        <5>2. j + 1 \in 1..(a + 1) /\ i < j + 1 /\ order'[j + 1] = m
          BY <1>4, <5>1
        <5>. QED
          BY <5>2
      <4>3. CASE order[i - 1] \in PathsFrom(m)
        BY <4>1, <4>3
      <4>. QED
        BY <1>1, <1>4, <2>2, <4>1, <4>2, <4>3 DEF Backwards
    <3>. QED
      BY <3>1, <3>2
  <2>. QED
    BY <1>1, <1>4, <1>7, <2>1, <2>2 DEF Backwards
<1> QED
  BY <1>1, <1>10, <1>11 DEF Ordered

(* Every step keeps the order one of a depth-first walk. *)
LEMMA OrderedStep == ASSUME IInv, Ordered, [Next]_vars PROVE Ordered'
<1>1. CASE StartOrder
  BY <1>1, StartOrderOrdered
<1>2. CASE Descend
  BY <1>2, DescendOrdered
<1>3. CASE FinishBlock
  BY <1>3, FinishBlockOrdered
<1>4. ASSUME phase' = "flow", phase = "order" => walk = <<>>, phase \in {"order", "flow"}, order' = order, fn' = fn
      PROVE  Ordered'
  <2>1. Backwards /\ order # <<>> /\ order[1] = Entry(fn)
    BY <1>4 DEF Ordered, Stacked
  <2>2. \A l : PathsFrom(l)' = PathsFrom(l)
    BY <1>4 DEF PathsFrom
  <2>. QED
    BY <1>4, <2>1, <2>2 DEF Ordered, Backwards
<1>5. CASE StartFlow
  <2>1. phase = "order" /\ phase' = "flow" /\ walk = <<>> /\ order' = order /\ fn' = fn
    BY <1>5 DEF StartFlow, walkVars
  <2>. QED
    BY <1>4, <2>1
<1>6. CASE FlowBlock
  BY <1>4, <1>6 DEF FlowBlock, walkVars
<1>7. CASE EndRound
  <2>1. phase = "flow" /\ order' = order /\ fn' = fn /\ phase' \in {"flow", "uses"}
    BY <1>7 DEF EndRound, walkVars
  <2>. QED
    BY <1>4, <2>1 DEF Ordered
<1>8. CASE CheckGraph \/ Visit \/ ReportBlock \/ CheckTypes
  <2>1. phase' \notin {"order", "flow"}
    <3>1. CASE CheckGraph
      BY <3>1 DEF CheckGraph
    <3>2. CASE Visit \/ ReportBlock \/ CheckTypes
      BY <3>2 DEF Visit, ReportBlock, CheckTypes
    <3>. QED
      BY <1>8, <3>1, <3>2
  <2>2. phase' # "order" /\ phase' # "flow"
    BY <2>1
  <2>. QED
    BY <2>2 DEF Ordered
<1>9. CASE UNCHANGED vars
  <2>1. \A l : PathsFrom(l)' = PathsFrom(l)
    BY <1>9 DEF PathsFrom, vars
  <2>. QED
    BY <1>9, <2>1 DEF vars, walkVars, Ordered, Stacked, Backwards
<1> QED
  BY <1>1, <1>2, <1>3, <1>5, <1>6, <1>7, <1>8, <1>9 DEF Next

(* Such an order, once the walk is done, lists what is seen, against closing edges only. *)
LEMMA OrderedIsReversePostorder ==
    ASSUME IInv, Ordered PROVE OrderIsReversePostorder
<1>. SUFFICES ASSUME phase = "flow"
              PROVE  /\ Range(order) = OnSomePath(fn)
                     /\ Len(order) = Cardinality(OnSomePath(fn))
                     /\ order[1] = Entry(fn)
                     /\ \A l \in Range(order) : \A m \in Range(Successors(fn, l)) :
                            Position(l) < Position(m) \/ l \in PathsFrom(m)
  BY DEF OrderIsReversePostorder
<1>1. Backwards /\ order[1] = Entry(fn) /\ order \in Seq(Labels(fn)) /\ Range(order) = OnSomePath(fn)
  BY DEF Ordered, IInv, TypeOK, Walking, Explored, Analysed, Closed
<1>2. PICK a \in Nat : a = Len(order) /\ DOMAIN order = 1..a
  BY <1>1
<1>3. Cardinality(Range(order)) = a
  <2>1. order \in Bijection(1..a, Range(order))
    <3>1. order \in [1..a -> Range(order)] /\ \A s \in Range(order) : \E i \in 1..a : order[i] = s
      BY <1>1, <1>2 DEF Range
    <3>. QED
      BY <1>1, <1>2, <3>1 DEF Backwards, Bijection, Injection, Surjection, IsInjective
  <2>2. ExistsBijection(1..a, Range(order))
    BY <2>1 DEF ExistsBijection
  <2>. QED
    BY <1>2, <2>2, FS_CountingElements
<1>4. \A i \in 1..a : Position(order[i]) = i
  <2>. SUFFICES ASSUME NEW i \in 1..a PROVE Position(order[i]) = i
    OBVIOUS
  <2>1. i \in DOMAIN order /\ \A j \in DOMAIN order : order[j] = order[i] => j = i
    BY <1>1, <1>2 DEF Backwards
  <2>. QED
    BY <2>1 DEF Position
<1>5. ASSUME NEW l \in Range(order), NEW m \in Range(Successors(fn, l))
      PROVE  Position(l) < Position(m) \/ l \in PathsFrom(m)
  <2>1. PICK i \in 1..a : order[i] = l
    BY <1>2 DEF Range
  <2>2. CASE \E j \in DOMAIN order : i < j /\ order[j] = m
    BY <1>2, <1>4, <2>1, <2>2
  <2>3. CASE order[i] \in PathsFrom(m)
    BY <2>1, <2>3
  <2>. QED
    BY <1>1, <1>2, <1>5, <2>1, <2>2, <2>3 DEF Backwards
<1> QED
  BY <1>1, <1>2, <1>3, <1>5

(* The order the rounds follow lists every block a path leads to once, the *)
(* entry first, and goes against an edge only where it closes a cycle.     *)
THEOREM OrderIsRight == Spec => []OrderIsReversePostorder
<1>1. Init => Ordered
  BY DEF Init, Ordered
<1> QED
  BY <1>1, OrderedStep, OrderedIsReversePostorder, InitInv, NextInv, PTL DEF Spec
=============================================================================
