------------------------- MODULE Structurer_proofs -------------------------
(***************************************************************************)
(* What structure() makes of every graph the verifier passes.              *)
(***************************************************************************)
EXTENDS Structurer, CFG_proofs

(***************************************************************************)
(* The search.  Its stack from the bottom up, and then what it has         *)
(* finished, last one first, are a line of labels: to finish a label moves *)
(* the mark between the two, to descend puts a new label at the mark.      *)
(***************************************************************************)
Before(s, x, y) == \E i, j \in DOMAIN s : i < j /\ s[i] = x /\ s[j] = y

(* What l leads to through labels that come after it in s. *)
ClosedAbove(f, s, l, T) ==
    /\ l \in T
    /\ \A x \in T : \A y \in Range(Successors(f, x)) : Before(s, l, y) => y \in T
Above(f, s, l) ==
    {x \in Labels(f) : \A T \in SUBSET Labels(f) : ClosedAbove(f, s, l, T) => x \in T}

(* The line s with its mark after n: every label but the first has a        *)
(* predecessor before it, the stack is a path, and an edge back from a      *)
(* finished label closes a cycle of labels no earlier than its target.      *)
Line(f, s, n) ==
    /\ s \in Seq(Labels(f)) /\ n \in 0..Len(s)
    /\ \A i, j \in DOMAIN s : s[i] = s[j] => i = j
    /\ s # <<>> /\ s[1] = Entry(f)
    /\ \A i \in 2..Len(s) : \E j \in 1..(i - 1) : s[i] \in Range(Successors(f, s[j]))
    /\ \A i \in 1..n : \A j \in 1..i : s[i] \in Above(f, s, s[j])
    /\ \A i \in (n + 1)..Len(s) : \A m \in Range(Successors(f, s[i])) :
          \E j \in DOMAIN s : s[j] = m /\ (j <= i => s[i] \in Above(f, s, m))

(* The labels above another are closed under the edges that stay there. *)
LEMMA AboveCloses ==
    ASSUME NEW f, IsFunction(f), CheckCfg(f) = {}, NEW s, NEW l \in Labels(f)
    PROVE  /\ l \in Above(f, s, l) /\ Above(f, s, l) \subseteq Labels(f)
           /\ \A x \in Above(f, s, l) : \A y \in Range(Successors(f, x)) :
                 Before(s, l, y) => y \in Above(f, s, l)
<1>1. l \in Above(f, s, l) /\ Above(f, s, l) \subseteq Labels(f)
  BY DEF Above, ClosedAbove
<1>2. ASSUME NEW x \in Above(f, s, l), NEW y \in Range(Successors(f, x)), Before(s, l, y)
      PROVE  y \in Above(f, s, l)
  <2>1. y \in Labels(f)
    BY <1>1, SuccessorsAreLabels
  <2>2. ASSUME NEW T \in SUBSET Labels(f), ClosedAbove(f, s, l, T) PROVE y \in T
    <3>1. x \in T
      BY <2>2 DEF Above
    <3>. QED
      BY <1>2, <2>2, <3>1 DEF ClosedAbove
  <2>. QED
    BY <2>1, <2>2 DEF Above
<1> QED
  BY <1>1, <1>2

(* A line that keeps the order of another leads at least as far. *)
LEMMA AboveGrows ==
    ASSUME NEW f, IsFunction(f), CheckCfg(f) = {}, NEW s, NEW s2, NEW l \in Labels(f),
           \A y : Before(s, l, y) => Before(s2, l, y)
    PROVE  Above(f, s, l) \subseteq Above(f, s2, l)
<1>1. ClosedAbove(f, s, l, Above(f, s2, l))
  BY AboveCloses DEF ClosedAbove
<1>2. Above(f, s2, l) \in SUBSET Labels(f)
  BY DEF Above
<1> QED
  BY <1>1, <1>2 DEF Above

(* A label all of whose successors are on the line is finished. *)
LEMMA FinishLine ==
    ASSUME NEW f, IsFunction(f), CheckCfg(f) = {}, NEW s, NEW n \in Nat, Line(f, s, n), n # 0,
           Range(Successors(f, s[n])) \subseteq Range(s)
    PROVE  Line(f, s, n - 1)
<1>1. n \in 1..Len(s) /\ DOMAIN s = 1..Len(s)
  BY DEF Line
<1>2. ASSUME NEW i \in (n - 1 + 1)..Len(s), NEW m \in Range(Successors(f, s[i]))
      PROVE  \E j \in DOMAIN s : s[j] = m /\ (j <= i => s[i] \in Above(f, s, m))
  <2>1. CASE i = n
    <3>1. PICK j \in DOMAIN s : s[j] = m
      BY <1>2, <2>1 DEF Range
    <3>2. j <= i => s[i] \in Above(f, s, m)
      BY <1>1, <2>1, <3>1 DEF Line
    <3>. QED
      BY <3>1, <3>2
  <2>2. CASE i # n
    <3>1. i \in (n + 1)..Len(s)
      BY <1>1, <2>2
    <3>. QED
      BY <1>2, <3>1 DEF Line
  <2>. QED
    BY <2>1, <2>2
<1>3. n - 1 \in 0..Len(s) /\ \A i \in 1..(n - 1) : i \in 1..n
  BY <1>1
<1> QED
  BY <1>2, <1>3 DEF Line

(* s2 is s with t put after the n-th label. *)
Inserted(s, s2, n, t) ==
    /\ Len(s2) = Len(s) + 1 /\ s2[n + 1] = t
    /\ \A i \in 1..n : s2[i] = s[i]
    /\ \A i \in (n + 1)..Len(s) : s2[i + 1] = s[i]

(* A label not met before, a successor of the top of the stack, is put on it. *)
LEMMA DescendLine ==
    ASSUME NEW f, IsFunction(f), CheckCfg(f) = {}, NEW s, NEW n \in Nat, Line(f, s, n), n # 0,
           NEW s2 \in Seq(Labels(f)), NEW t \in Range(Successors(f, s[n])), t \notin Range(s),
           Inserted(s, s2, n, t)
    PROVE  Line(f, s2, n + 1) /\ Range(s2) = Range(s) \cup {t}
<1>1. /\ n \in 1..Len(s) /\ DOMAIN s = 1..Len(s) /\ Len(s) \in Nat /\ DOMAIN s2 = 1..(Len(s) + 1)
      /\ \A i \in DOMAIN s : s[i] \in Labels(f)
  BY DEF Line, Inserted
<1> DEFINE e(i) == IF i <= n THEN i ELSE i + 1
<1>2. \A i \in DOMAIN s : e(i) \in DOMAIN s2 /\ s2[e(i)] = s[i] /\ e(i) # n + 1
  BY <1>1 DEF Inserted
<1>3. \A k \in DOMAIN s2 : k = n + 1 \/ \E i \in DOMAIN s : k = e(i)
  <2>. SUFFICES ASSUME NEW k \in DOMAIN s2, k # n + 1 PROVE \E i \in DOMAIN s : k = e(i)
    OBVIOUS
  <2>1. CASE k <= n
    BY <1>1, <2>1
  <2>2. CASE k > n + 1
    <3>1. k - 1 \in DOMAIN s /\ k = e(k - 1)
      BY <1>1, <2>2
    <3>. QED
      BY <3>1
  <2>. QED
    BY <1>1, <2>1, <2>2
<1>4. \A i, j \in DOMAIN s : (i < j <=> e(i) < e(j)) /\ (i = j <=> e(i) = e(j))
  BY <1>1
<1>5. s2[n + 1] = t /\ n + 1 \in DOMAIN s2 /\ \A i \in DOMAIN s : i <= n <=> e(i) < n + 1
  BY <1>1 DEF Inserted
<1>6. \A i \in 1..n : i \in DOMAIN s /\ e(i) = i
  BY <1>1
<1>7. \A i \in DOMAIN s : s[i] # t
  BY DEF Range
<1> HIDE DEF e
<1>8. Range(s2) = Range(s) \cup {t}
  <2>1. \A y \in Range(s2) : y = t \/ y \in Range(s)
    BY <1>2, <1>3, <1>5 DEF Range
  <2>2. t \in Range(s2) /\ \A y \in Range(s) : y \in Range(s2)
    BY <1>2, <1>5 DEF Range
  <2>. QED
    BY <2>1, <2>2
<1>9. ASSUME NEW j \in DOMAIN s2, NEW k \in DOMAIN s2, s2[j] = s2[k] PROVE j = k
  <2>1. CASE j = n + 1 /\ k = n + 1
    BY <2>1
  <2>2. CASE j # n + 1 /\ k # n + 1
    <3>1. PICK a \in DOMAIN s, b \in DOMAIN s : j = e(a) /\ k = e(b)
      BY <1>3, <2>2
    <3>2. s[a] = s[b]
      BY <1>2, <1>9, <3>1
    <3>3. a = b
      BY <3>2 DEF Line
    <3>. QED
      BY <3>1, <3>3
  <2>3. CASE j = n + 1 /\ k # n + 1
    BY <1>2, <1>3, <1>5, <1>7, <1>9, <2>3
  <2>4. CASE j # n + 1 /\ k = n + 1
    BY <1>2, <1>3, <1>5, <1>7, <1>9, <2>4
  <2>. QED
    BY <2>1, <2>2, <2>3, <2>4
<1>10. s2 # <<>> /\ s2[1] = Entry(f)
  <2>1. 1 \in 1..n /\ s[1] = Entry(f)
    BY <1>1 DEF Line
  <2>. QED
    BY <1>1, <1>2, <1>6, <2>1
<1>11. ASSUME NEW k \in DOMAIN s2, k # 1
       PROVE  \E j \in DOMAIN s2 : j < k /\ s2[k] \in Range(Successors(f, s2[j]))
  <2>1. CASE k = n + 1
    <3>1. n \in DOMAIN s /\ e(n) = n
      BY <1>1, <1>6
    <3>2. n \in DOMAIN s2 /\ s2[n] = s[n] /\ n < k
      BY <1>2, <2>1, <3>1
    <3>. QED
      BY <1>5, <2>1, <3>2
  <2>2. CASE k # n + 1
    <3>1. PICK i \in DOMAIN s : k = e(i)
      BY <1>3, <2>2
    <3>2. i \in 2..Len(s)
      <4>1. 1 \in 1..n
        BY <1>1
      <4>2. i # 1
        BY <1>6, <1>11, <3>1, <4>1
      <4>. QED
        BY <1>1, <4>2
    <3>3. PICK j \in 1..(i - 1) : s[i] \in Range(Successors(f, s[j]))
      BY <3>2 DEF Line
    <3>4. j \in DOMAIN s /\ j < i
      BY <1>1, <3>2
    <3>5. e(j) \in DOMAIN s2 /\ e(j) < k /\ s2[e(j)] = s[j] /\ s2[k] = s[i]
      BY <1>2, <1>4, <3>1, <3>4
    <3>. QED
      BY <3>3, <3>5
  <2>. QED
    BY <2>1, <2>2
<1>12. ASSUME NEW l \in Labels(f) PROVE Above(f, s, l) \subseteq Above(f, s2, l)
  <2>1. ASSUME NEW y, Before(s, l, y) PROVE Before(s2, l, y)
    <3>1. PICK i \in DOMAIN s, j \in DOMAIN s : i < j /\ s[i] = l /\ s[j] = y
      BY <2>1 DEF Before
    <3>2. e(i) \in DOMAIN s2 /\ e(j) \in DOMAIN s2 /\ e(i) < e(j) /\ s2[e(i)] = l /\ s2[e(j)] = y
      BY <1>2, <1>4, <3>1
    <3>. QED
      BY <3>2 DEF Before
  <2>. QED
    BY <2>1, AboveGrows
<1>13. ASSUME NEW i \in 1..(n + 1), NEW j \in 1..i PROVE s2[i] \in Above(f, s2, s2[j])
  <2>1. CASE i # n + 1
    <3>1. i \in 1..n /\ j \in 1..n
      BY <1>1, <2>1
    <3>2. s[i] \in Above(f, s, s[j])
      BY <3>1 DEF Line
    <3>3. s2[i] = s[i] /\ s2[j] = s[j] /\ s[j] \in Labels(f)
      BY <1>1, <1>2, <1>6, <3>1
    <3>. QED
      BY <1>12, <3>2, <3>3
  <2>2. CASE i = n + 1 /\ j = n + 1
    <3>1. t \in Labels(f)
      BY <1>1, <1>5
    <3>. QED
      BY <1>5, <2>2, <3>1, AboveCloses
  <2>3. CASE i = n + 1 /\ j # n + 1
    <3>1. j \in 1..n /\ n \in 1..n
      BY <1>1, <2>3
    <3>2. s[n] \in Above(f, s, s[j])
      BY <3>1 DEF Line
    <3>3. j \in DOMAIN s2 /\ s2[j] = s[j] /\ s[j] \in Labels(f) /\ j < n + 1
      BY <1>1, <1>2, <1>6, <3>1
    <3>4. Before(s2, s[j], t)
      BY <1>5, <3>3 DEF Before
    <3>5. s[n] \in Above(f, s2, s[j])
      BY <1>12, <3>2, <3>3
    <3>6. t \in Above(f, s2, s[j])
      BY <3>3, <3>4, <3>5, AboveCloses
    <3>. QED
      BY <1>5, <2>3, <3>3, <3>6
  <2>. QED
    BY <2>1, <2>2, <2>3
<1>14. ASSUME NEW k \in (n + 1 + 1)..Len(s2), NEW m \in Range(Successors(f, s2[k]))
       PROVE  \E j \in DOMAIN s2 : s2[j] = m /\ (j <= k => s2[k] \in Above(f, s2, m))
  <2>1. k \in DOMAIN s2 /\ k # n + 1 /\ ~(k < n + 1)
    BY <1>1
  <2>2. PICK i \in DOMAIN s : k = e(i)
    BY <1>3, <2>1
  <2>3. i \in (n + 1)..Len(s) /\ s2[k] = s[i]
    <3>1. ~(i <= n) /\ s2[k] = s[i]
      BY <1>2, <1>5, <2>1, <2>2
    <3>. QED
      BY <1>1, <3>1
  <2>4. PICK j \in DOMAIN s : s[j] = m /\ (j <= i => s[i] \in Above(f, s, m))
    <3>1. m \in Range(Successors(f, s[i]))
      BY <1>14, <2>3
    <3>. QED
      BY <2>3, <3>1 DEF Line
  <2>5. e(j) \in DOMAIN s2 /\ s2[e(j)] = m /\ (e(j) <= k => j <= i)
    <3>1. e(j) \in Nat /\ k \in Nat /\ i \in Nat /\ j \in Nat
      BY <1>1, <1>2, <2>1
    <3>2. j <= i <=> j < i \/ j = i
      BY <3>1
    <3>. QED
      BY <1>2, <1>4, <2>2, <2>4, <3>1, <3>2
  <2>6. m \in Labels(f)
    BY <1>1, <2>4
  <2>. QED
    BY <1>12, <2>3, <2>4, <2>5, <2>6
<1>15. s2 \in Seq(Labels(f)) /\ n + 1 \in 0..Len(s2) /\ \A k \in 2..Len(s2) : k \in DOMAIN s2 /\ k # 1
  BY <1>1
<1>16. ASSUME NEW k \in 2..Len(s2) PROVE \E j \in 1..(k - 1) : s2[k] \in Range(Successors(f, s2[j]))
  <2>1. PICK j \in DOMAIN s2 : j < k /\ s2[k] \in Range(Successors(f, s2[j]))
    BY <1>11, <1>15
  <2>2. j \in 1..(k - 1)
    BY <1>1, <2>1
  <2>. QED
    BY <2>1, <2>2
<1> QED
  BY <1>8, <1>9, <1>10, <1>13, <1>14, <1>15, <1>16 DEF Line

-----------------------------------------------------------------------------
(***************************************************************************)
(* The tree of the dominators: a partial map that sends the first label of *)
(* a list to itself and every other label it knows to an earlier one.      *)
(***************************************************************************)
Listing(s) ==
    /\ s # <<>> /\ Len(s) \in Nat /\ DOMAIN s = 1..Len(s)
    /\ \A i, j \in DOMAIN s : s[i] = s[j] => i = j
Place(s, l) == CHOOSE i \in DOMAIN s : s[i] = l

IsTree(s, m) ==
    /\ DOMAIN m \subseteq Range(s) /\ s[1] \in DOMAIN m /\ m[s[1]] = s[1]
    /\ \A x \in DOMAIN m \ {s[1]} : m[x] \in DOMAIN m /\ Place(s, m[x]) < Place(s, x)

(* The labels on the way from l to the root. *)
ClimbsFrom(m, l, T) == l \in T /\ \A x \in T : m[x] \in T
Up(m, l) == {x \in DOMAIN m : \A T \in SUBSET DOMAIN m : ClimbsFrom(m, l, T) => x \in T}

(* A label of a list and its place. *)
LEMMA PlaceOf ==
    ASSUME NEW s, Listing(s)
    PROVE  /\ \A l \in Range(s) : Place(s, l) \in 1..Len(s) /\ s[Place(s, l)] = l
           /\ \A i \in 1..Len(s) : s[i] \in Range(s) /\ Place(s, s[i]) = i
           /\ s[1] \in Range(s) /\ Place(s, s[1]) = 1 /\ Len(s) \in Nat /\ 1 \in 1..Len(s)
<1>1. DOMAIN s = 1..Len(s) /\ Len(s) \in Nat /\ 1 \in 1..Len(s)
  BY DEF Listing
<1>2. ASSUME NEW l \in Range(s) PROVE Place(s, l) \in 1..Len(s) /\ s[Place(s, l)] = l
  <2>1. \E i \in DOMAIN s : s[i] = l
    BY DEF Range
  <2>. QED
    BY <1>1, <2>1 DEF Place
<1>3. ASSUME NEW i \in 1..Len(s) PROVE s[i] \in Range(s) /\ Place(s, s[i]) = i
  <2>1. s[i] \in Range(s)
    BY <1>1 DEF Range
  <2>2. Place(s, s[i]) \in 1..Len(s) /\ s[Place(s, s[i])] = s[i]
    BY <1>2, <2>1
  <2>. QED
    BY <1>1, <2>1, <2>2 DEF Listing
<1> QED
  BY <1>1, <1>2, <1>3

(* Places order the labels. *)
LEMMA SamePlace ==
    ASSUME NEW s, Listing(s), NEW x \in Range(s), NEW y \in Range(s)
    PROVE  /\ Place(s, x) \in Nat /\ Place(s, y) \in Nat
           /\ Place(s, x) = Place(s, y) => x = y
           /\ Place(s, x) < Place(s, y) <=> Before(s, x, y)
<1>1. Place(s, x) \in 1..Len(s) /\ s[Place(s, x)] = x /\ Place(s, y) \in 1..Len(s) /\ s[Place(s, y)] = y
  BY PlaceOf
<1>2. DOMAIN s = 1..Len(s)
  BY DEF Listing
<1>3. ASSUME Before(s, x, y) PROVE Place(s, x) < Place(s, y)
  <2>1. PICK i \in DOMAIN s, j \in DOMAIN s : i < j /\ s[i] = x /\ s[j] = y
    BY <1>3 DEF Before
  <2>2. Place(s, x) = i /\ Place(s, y) = j
    BY <1>1, <1>2, <2>1 DEF Listing
  <2>. QED
    BY <2>1, <2>2
<1>4. ASSUME Place(s, x) < Place(s, y) PROVE Before(s, x, y)
  BY <1>1, <1>2, <1>4 DEF Before
<1> QED
  BY <1>1, <1>3, <1>4

(* The way up starts at the label and follows the tree; *)
LEMMA UpCloses ==
    ASSUME NEW s, NEW m, IsTree(s, m), NEW l \in DOMAIN m
    PROVE  /\ l \in Up(m, l) /\ Up(m, l) \subseteq DOMAIN m
           /\ \A x \in Up(m, l) : m[x] \in Up(m, l)
<1>1. l \in Up(m, l) /\ Up(m, l) \subseteq DOMAIN m
  BY DEF Up, ClimbsFrom
<1>2. \A x \in DOMAIN m : m[x] \in DOMAIN m
  BY DEF IsTree
<1>3. ASSUME NEW x \in Up(m, l) PROVE m[x] \in Up(m, l)
  BY <1>1, <1>2 DEF Up, ClimbsFrom
<1> QED
  BY <1>1, <1>3

(* and it is the least set that does. *)
LEMMA UpLeast ==
    ASSUME NEW m, NEW l, NEW T \in SUBSET DOMAIN m, ClimbsFrom(m, l, T)
    PROVE  Up(m, l) \subseteq T
BY DEF Up

(* From a label on the way up the way is part of it. *)
LEMMA UpInside ==
    ASSUME NEW s, NEW m, IsTree(s, m), NEW l \in DOMAIN m, NEW x \in Up(m, l)
    PROVE  Up(m, x) \subseteq Up(m, l)
<1>1. Up(m, l) \in SUBSET DOMAIN m /\ ClimbsFrom(m, x, Up(m, l))
  BY UpCloses DEF ClimbsFrom
<1> QED
  BY <1>1, UpLeast

(* A label, then the way up from the one above it. *)
LEMMA UpParts ==
    ASSUME NEW s, NEW m, IsTree(s, m), NEW l \in DOMAIN m
    PROVE  m[l] \in DOMAIN m /\ Up(m, l) = {l} \cup Up(m, m[l])
<1>1. m[l] \in DOMAIN m
  BY DEF IsTree
<1>2. m[l] \in Up(m, l) /\ l \in Up(m, l)
  BY UpCloses
<1>3. {l} \cup Up(m, m[l]) \subseteq Up(m, l)
  BY <1>2, UpInside
<1> DEFINE T == {l} \cup Up(m, m[l])
<1>4. T \in SUBSET DOMAIN m /\ ClimbsFrom(m, l, T)
  BY <1>1, UpCloses DEF ClimbsFrom
<1>5. Up(m, l) \subseteq T
  <2>. HIDE DEF T
  <2>. QED
    BY <1>4, UpLeast
<1> QED
  BY <1>1, <1>3, <1>5

(* On the way up the labels come earlier and earlier; it ends at the root. *)
LEMMA UpBelow ==
    ASSUME NEW s, Listing(s), NEW m, IsTree(s, m), NEW l \in DOMAIN m
    PROVE  /\ \A x \in Up(m, l) : x = l \/ Place(s, x) < Place(s, l)
           /\ Up(m, s[1]) = {s[1]}
<1>0. \A x \in DOMAIN m : x \in Range(s) /\ Place(s, x) \in Nat
  BY PlaceOf DEF IsTree
<1> DEFINE T == {x \in DOMAIN m : x = l \/ Place(s, x) < Place(s, l)}
<1>1. T \in SUBSET DOMAIN m /\ ClimbsFrom(m, l, T)
  <2>1. ASSUME NEW x \in T PROVE m[x] \in T
    <3>1. CASE x = s[1]
      BY <3>1 DEF IsTree
    <3>2. CASE x # s[1]
      <4>1. m[x] \in DOMAIN m /\ Place(s, m[x]) < Place(s, x)
        BY <3>2 DEF IsTree
      <4>. QED
        BY <1>0, <4>1
    <3>. QED
      BY <3>1, <3>2
  <2>. QED
    BY <2>1 DEF ClimbsFrom
<1>2. Up(m, l) \subseteq T
  <2>. HIDE DEF T
  <2>. QED
    BY <1>1, UpLeast
<1>3. {s[1]} \in SUBSET DOMAIN m /\ ClimbsFrom(m, s[1], {s[1]})
  BY DEF IsTree, ClimbsFrom
<1>4. Up(m, s[1]) \subseteq {s[1]} /\ s[1] \in Up(m, s[1])
  BY <1>3, UpLeast, UpCloses DEF IsTree
<1> QED
  BY <1>2, <1>4

(* A label is determined by its way up. *)
LEMMA UpSame ==
    ASSUME NEW s, Listing(s), NEW m, IsTree(s, m), NEW a \in DOMAIN m, NEW b \in DOMAIN m,
           Up(m, a) = Up(m, b)
    PROVE  a = b
<1>1. a \in Up(m, b) /\ b \in Up(m, a)
  BY UpCloses
<1>2. (a = b \/ Place(s, a) < Place(s, b)) /\ (b = a \/ Place(s, b) < Place(s, a))
  BY <1>1, UpBelow
<1>3. Place(s, a) \in Nat /\ Place(s, b) \in Nat
  BY SamePlace DEF IsTree
<1> QED
  BY <1>2, <1>3

(* The labels above both of two labels are those above one label, the one  *)
(* that intersect climbs to.                                               *)
Meets(m, a, b, c) == c \in DOMAIN m /\ Up(m, c) = Up(m, a) \cap Up(m, b)

(* Where two labels meet: a step up from the later one changes nothing. *)
LEMMA MeetsStep ==
    ASSUME NEW s, Listing(s), NEW m, IsTree(s, m), NEW a \in DOMAIN m, NEW b \in DOMAIN m,
           a # b, NEW c
    PROVE  /\ Place(s, a) > Place(s, b) => (Meets(m, a, b, c) <=> Meets(m, m[a], b, c))
           /\ ~(Place(s, a) > Place(s, b)) => (Meets(m, a, b, c) <=> Meets(m, a, m[b], c))
<1>0. Place(s, a) \in Nat /\ Place(s, b) \in Nat /\ Place(s, a) # Place(s, b)
  BY SamePlace DEF IsTree
<1>1. ASSUME Place(s, a) > Place(s, b) PROVE a \notin Up(m, b)
  BY <1>0, <1>1, UpBelow
<1>2. ASSUME ~(Place(s, a) > Place(s, b)) PROVE b \notin Up(m, a)
  BY <1>0, <1>2, UpBelow
<1>3. Up(m, a) = {a} \cup Up(m, m[a]) /\ Up(m, b) = {b} \cup Up(m, m[b])
  BY UpParts
<1> QED
  BY <1>1, <1>2, <1>3 DEF Meets

(* The position the model looks up is the place of the list. *)
LEMMA IdxIsPlace == \A l : Idx(l) = Place(rpo, l)
BY DEF Idx, Place

MeetTable(D, h) ==
    h = [p \in D \X D |->
            IF p[1] = p[2] THEN p[1]
            ELSE IF Idx(p[1]) > Idx(p[2]) THEN h[<<idom[p[1]], p[2]>>]
            ELSE h[<<p[1], idom[p[2]]>>]]

(* The table exists: where two labels meet satisfies its equation. *)
LEMMA HasMeetTable ==
    ASSUME Listing(rpo), IsTree(rpo, idom)
    PROVE  \E h : MeetTable(DOMAIN idom, h)
<1>0. PICK D : D = DOMAIN idom
  OBVIOUS
<1> DEFINE M(a, b) == CHOOSE c : Meets(idom, a, b, c)
           h == [p \in D \X D |-> M(p[1], p[2])]
           Meeting(a, b) == IF a = b THEN a
                          ELSE IF Idx(a) > Idx(b) THEN M(idom[a], b) ELSE M(a, idom[b])
<1>1. ASSUME NEW a \in D PROVE idom[a] \in D
  BY <1>0, UpParts
<1>2. ASSUME NEW a \in D, NEW b \in D
      PROVE  M(a, b) = Meeting(a, b)
  <2>1. CASE a = b
    <3>1. Meets(idom, a, b, a)
      BY <1>0, <2>1 DEF Meets
    <3>2. \A c : Meets(idom, a, b, c) => c = a
      BY <1>0, <2>1, UpSame DEF Meets
    <3>. QED
      BY <2>1, <3>1, <3>2
  <2>2. CASE a # b /\ Idx(a) > Idx(b)
    <3>1. \A c : Meets(idom, a, b, c) <=> Meets(idom, idom[a], b, c)
      BY <2>2, <1>0, MeetsStep, IdxIsPlace
    <3>2. M(a, b) = M(idom[a], b)
      BY <3>1
    <3>. QED
      BY <2>2, <3>2
  <2>3. CASE a # b /\ ~(Idx(a) > Idx(b))
    <3>1. \A c : Meets(idom, a, b, c) <=> Meets(idom, a, idom[b], c)
      BY <2>3, <1>0, MeetsStep, IdxIsPlace
    <3>2. M(a, b) = M(a, idom[b])
      BY <3>1
    <3>. QED
      BY <2>3, <3>2
  <2>. QED
    BY <2>1, <2>2, <2>3
<1>3. ASSUME NEW p \in D \X D
      PROVE  h[p] = IF p[1] = p[2] THEN p[1]
                    ELSE IF Idx(p[1]) > Idx(p[2]) THEN h[<<idom[p[1]], p[2]>>]
                    ELSE h[<<p[1], idom[p[2]]>>]
  <2>1. PICK a \in D, b \in D : p = <<a, b>>
    <3>. HIDE DEF h, M
    <3>. QED
      BY <1>3
  <2>2. ASSUME NEW x \in D, NEW y \in D PROVE h[<<x, y>>] = M(x, y)
    <3>. HIDE DEF M
    <3>. QED
      OBVIOUS
  <2>3. h[p] = M(a, b) /\ h[<<idom[a], b>>] = M(idom[a], b) /\ h[<<a, idom[b]>>] = M(a, idom[b])
    <3>. HIDE DEF h, M
    <3>. QED
      BY <1>1, <2>1, <2>2
  <2>4. M(a, b) = Meeting(a, b)
    BY <1>2
  <2>. HIDE DEF h, M
  <2>. QED
    BY <2>1, <2>3, <2>4
<1>4. MeetTable(D, h)
  <2> DEFINE g == [p \in D \X D |->
                      IF p[1] = p[2] THEN p[1]
                      ELSE IF Idx(p[1]) > Idx(p[2]) THEN h[<<idom[p[1]], p[2]>>]
                      ELSE h[<<p[1], idom[p[2]]>>]]
  <2>1. \A p \in D \X D : h[p] = g[p]
    <3>1. \A p \in D \X D :
             g[p] = IF p[1] = p[2] THEN p[1]
                    ELSE IF Idx(p[1]) > Idx(p[2]) THEN h[<<idom[p[1]], p[2]>>]
                    ELSE h[<<p[1], idom[p[2]]>>]
      <4>. HIDE DEF h
      <4>. QED
        OBVIOUS
    <3>. HIDE DEF g, h
    <3>. QED
      BY <1>3, <3>1
  <2>2. h = [p \in D \X D |-> h[p]] /\ g = [p \in D \X D |-> g[p]]
    OBVIOUS
  <2>3. h = g
    <3>. HIDE DEF g, h
    <3>. QED
      BY <2>1, <2>2
  <2>. HIDE DEF h
  <2>. QED
    BY <2>3 DEF MeetTable
<1> HIDE DEF h
<1> QED
  BY <1>0, <1>4

(* intersect finds the label where the two ways up meet. *)
LEMMA IntersectMeets ==
    ASSUME Listing(rpo), IsTree(rpo, idom), NEW l1 \in DOMAIN idom, NEW l2 \in DOMAIN idom
    PROVE  Meets(idom, l1, l2, Intersect(l1, l2))
<1>0. PICK D : D = DOMAIN idom
  OBVIOUS
<1> DEFINE meeting == CHOOSE h : MeetTable(D, h)
           F(p) == IF p[1] = p[2] THEN p[1]
                   ELSE IF Idx(p[1]) > Idx(p[2]) THEN meeting[<<idom[p[1]], p[2]>>]
                   ELSE meeting[<<p[1], idom[p[2]]>>]
<1>1. MeetTable(D, meeting)
  BY <1>0, HasMeetTable
<1>2. Intersect(l1, l2) = meeting[<<l1, l2>>]
  <2>1. Intersect(l1, l2) = (CHOOSE h : MeetTable(Known, h))[<<l1, l2>>]
    BY DEF Intersect, MeetTable
  <2>. QED
    BY <1>0, <2>1 DEF Known
<1> HIDE DEF meeting
<1>3. \A a, b \in D : meeting[<<a, b>>] = F(<<a, b>>)
  <2>0. meeting = [p \in D \X D |-> F(p)]
    BY <1>1 DEF MeetTable
  <2>1. \A p \in D \X D : meeting[p] = F(p)
    <3>. HIDE DEF F
    <3>. QED
      BY <2>0
  <2>. HIDE DEF F
  <2>. QED
    BY <2>1
<1>4. \A a \in D : idom[a] \in D /\ Place(rpo, a) \in Nat
  BY <1>0, UpParts, SamePlace DEF IsTree
<1> DEFINE Both(a, b) == Place(rpo, a) + Place(rpo, b)
           Bad == {n \in Nat : \E a, b \in D : n = Both(a, b) /\ ~Meets(idom, a, b, meeting[<<a, b>>])}
<1>5. ASSUME Bad # {} PROVE FALSE
  <2>1. PICK n \in Bad : \A k \in Bad : n <= k
    <3>1. Bad \in SUBSET Nat
      OBVIOUS
    <3>. HIDE DEF Bad
    <3>. QED
      BY <1>5, <3>1, LeastNat
  <2>2. PICK a \in D, b \in D : n = Both(a, b) /\ ~Meets(idom, a, b, meeting[<<a, b>>])
    BY <2>1
  <2>3. \A x, y \in D : Both(x, y) < n => Meets(idom, x, y, meeting[<<x, y>>])
    <3>. SUFFICES ASSUME NEW x \in D, NEW y \in D, Both(x, y) < n, ~Meets(idom, x, y, meeting[<<x, y>>])
                  PROVE  FALSE
      OBVIOUS
    <3>1. Both(x, y) \in Nat
      BY <1>4
    <3>2. Both(x, y) \in Bad
      BY <3>1
    <3>. QED
      BY <2>1, <3>1, <3>2
  <2>4. a # b
    <3>. SUFFICES ASSUME a = b PROVE FALSE
      OBVIOUS
    <3>1. meeting[<<a, b>>] = a
      BY <1>3
    <3>. QED
      BY <1>0, <2>2, <3>1 DEF Meets
  <2>5. CASE Idx(a) > Idx(b)
    <3>1. meeting[<<a, b>>] = meeting[<<idom[a], b>>]
      BY <1>3, <2>4, <2>5
    <3>2. a # rpo[1]
      BY <1>0, <1>4, <2>5, PlaceOf, IdxIsPlace, SMTT(30) DEF IsTree
    <3>3. Both(idom[a], b) < n
      BY <1>0, <1>4, <2>2, <3>2 DEF IsTree
    <3>4. Meets(idom, idom[a], b, meeting[<<idom[a], b>>])
      BY <1>4, <2>3, <3>3
    <3>5. Meets(idom, a, b, meeting[<<idom[a], b>>])
      BY <1>0, <2>4, <2>5, <3>4, MeetsStep, IdxIsPlace
    <3>. QED
      BY <2>2, <3>1, <3>5
  <2>6. CASE ~(Idx(a) > Idx(b))
    <3>1. meeting[<<a, b>>] = meeting[<<a, idom[b]>>]
      <4>1. F(<<a, b>>) = meeting[<<a, idom[b]>>]
        BY <2>4, <2>6, Zenon
      <4>. HIDE DEF F
      <4>. QED
        BY <1>3, <4>1
    <3>2. b # rpo[1]
      <4>1. Place(rpo, a) # Place(rpo, b)
        BY <1>0, <2>4, SamePlace DEF IsTree
      <4>2. Place(rpo, a) \in 1..Len(rpo) /\ Place(rpo, rpo[1]) = 1 /\ Place(rpo, b) \in Nat
        BY <1>0, <1>4, PlaceOf DEF IsTree
      <4>. QED
        BY <2>6, <4>1, <4>2, IdxIsPlace
    <3>3. Both(a, idom[b]) < n
      BY <1>0, <1>4, <2>2, <3>2 DEF IsTree
    <3>4. Meets(idom, a, idom[b], meeting[<<a, idom[b]>>])
      BY <1>4, <2>3, <3>3
    <3>5. Meets(idom, a, b, meeting[<<a, idom[b]>>])
      BY <1>0, <2>4, <2>6, <3>4, MeetsStep, IdxIsPlace
    <3>. QED
      BY <2>2, <3>1, <3>5
  <2>. QED
    BY <2>5, <2>6
<1>6. ASSUME ~Meets(idom, l1, l2, meeting[<<l1, l2>>]) PROVE FALSE
  <2>1. Both(l1, l2) \in Nat
    BY <1>0, <1>4
  <2>2. Both(l1, l2) \in Bad
    BY <1>0, <1>6, <2>1
  <2>. QED
    BY <1>5, <2>2
<1> QED
  BY <1>0, <1>2, <1>6
-----------------------------------------------------------------------------
(* What _dominates walks through. *)
Climb(m, l, n, h) == h = [i \in 0..n |-> IF i = 0 THEN l ELSE m[h[i - 1]]]

(* It exists. *)
LEMMA HasClimb ==
    ASSUME NEW m, NEW l, NEW n \in Nat
    PROVE  \E h : Climb(m, l, n, h)
<1> DEFINE Step(i, x) == m[x]
           S == {k \in 0..n : \E h : Climb(m, l, k, h)}
<1>0. \A k, h : Climb(m, l, k, h) <=> h = [i \in 0..k |-> IF i = 0 THEN l ELSE Step(i, h[i - 1])]
  BY DEF Climb
<1> HIDE DEF Step
<1>1. 0 \in S
  <2> DEFINE h == [i \in 0..0 |-> l]
  <2>1. h = [i \in 0..0 |-> IF i = 0 THEN l ELSE Step(i, h[i - 1])]
    OBVIOUS
  <2>. HIDE DEF h
  <2>2. Climb(m, l, 0, h)
    BY <1>0, <2>1
  <2>. QED
    BY <2>2
<1>2. ASSUME NEW k \in 0..(n - 1), k \in S PROVE k + 1 \in S
  <2>1. PICK h : h = [i \in 0..k |-> IF i = 0 THEN l ELSE Step(i, h[i - 1])]
    BY <1>0, <1>2
  <2> DEFINE g == [i \in 0..(k + 1) |-> IF i = k + 1 THEN Step(i, h[k]) ELSE h[i]]
             e == [i \in 0..(k + 1) |-> IF i = 0 THEN l ELSE Step(i, g[i - 1])]
  <2>2. ASSUME NEW i \in 0..(k + 1)
        PROVE  g[i] = IF i = 0 THEN l ELSE Step(i, g[i - 1])
    <3>1. CASE i = k + 1
      <4>1. i # 0 /\ i - 1 = k /\ k \in 0..(k + 1) /\ k # k + 1
        BY <3>1
      <4>2. g[k] = h[k] /\ g[i] = Step(i, h[k])
        BY <3>1, <4>1
      <4>. QED
        BY <4>1, <4>2
    <3>2. CASE i # k + 1
      <4>1. i \in 0..k /\ (i # 0 => i - 1 \in 0..(k + 1) /\ i - 1 # k + 1)
        BY <3>2
      <4>2. h[i] = IF i = 0 THEN l ELSE Step(i, h[i - 1])
        BY <2>1, <4>1
      <4>3. g[i] = h[i] /\ (i # 0 => g[i - 1] = h[i - 1])
        BY <3>2, <4>1
      <4>. QED
        BY <4>2, <4>3
    <3>. QED
      BY <3>1, <3>2
  <2>3. g = e
    <3>1. \A i \in 0..(k + 1) : g[i] = e[i]
      BY <2>2
    <3>. QED
      BY <3>1
  <2>4. g = [i \in 0..(k + 1) |-> IF i = 0 THEN l ELSE Step(i, g[i - 1])]
    BY <2>3
  <2>. HIDE DEF g, e
  <2>5. Climb(m, l, k + 1, g)
    BY <1>0, <2>4
  <2>. QED
    BY <2>5
<1>3. n \in S
  <2>1. Inductive(S, 0, n)
    BY <1>1, <1>2 DEF Inductive
  <2>. HIDE DEF S
  <2>. QED
    BY <2>1, UpTo
<1> QED
  BY <1>3

(* Dominators lists the labels on the way up. *)
LEMMA DominatorsAreAbove ==
    ASSUME Listing(rpo), IsTree(rpo, idom), NEW l \in DOMAIN idom
    PROVE  Dominators(l) = Up(idom, l)
<1>0. PICK n \in Nat : n = Len(rpo)
  BY PlaceOf
<1> DEFINE up == CHOOSE h : Climb(idom, l, n, h)
<1>1. Climb(idom, l, n, up)
  BY HasClimb
<1>2. Dominators(l) = {up[i] : i \in 0..n}
  BY <1>0 DEF Dominators, Climb
<1> HIDE DEF up
<1>3. up[0] = l /\ \A i \in 1..n : up[i] = idom[up[i - 1]]
  BY <1>1 DEF Climb
<1>4. ASSUME NEW i \in 0..n PROVE up[i] \in Up(idom, l) /\ up[i] \in DOMAIN idom
  <2> DEFINE S == {k \in 0..n : up[k] \in Up(idom, l)}
  <2>1. 0 \in S
    BY <1>3, UpCloses
  <2>2. ASSUME NEW k \in 0..(n - 1), k \in S PROVE k + 1 \in S
    <3>1. k + 1 \in 1..n /\ (k + 1) - 1 = k
      OBVIOUS
    <3>2. up[k + 1] = idom[up[k]]
      BY <1>3, <3>1
    <3>. QED
      BY <2>2, <3>1, <3>2, UpCloses
  <2>3. Inductive(S, 0, n)
    BY <2>1, <2>2 DEF Inductive
  <2>4. i \in S
    <3>. HIDE DEF S
    <3>. QED
      BY <2>3, UpTo
  <2>. QED
    BY <2>4, UpCloses
<1>5. ASSUME NEW i \in 0..n PROVE up[i] = rpo[1] \/ Place(rpo, up[i]) + i <= n
  <2> DEFINE S == {k \in 0..n : up[k] = rpo[1] \/ Place(rpo, up[k]) + k <= n}
  <2>1. 0 \in S
    <3>1. Place(rpo, l) \in 1..n
      BY <1>0, PlaceOf DEF IsTree
    <3>. QED
      BY <1>3, <3>1
  <2>2. ASSUME NEW k \in 0..(n - 1), k \in S PROVE k + 1 \in S
    <3>1. k + 1 \in 1..n /\ (k + 1) - 1 = k
      OBVIOUS
    <3>2. up[k + 1] = idom[up[k]]
      BY <1>3, <3>1
    <3>3. CASE up[k] = rpo[1]
      BY <3>1, <3>2, <3>3 DEF IsTree
    <3>4. CASE up[k] # rpo[1]
      <4>1. up[k] \in DOMAIN idom /\ up[k + 1] \in DOMAIN idom
        BY <1>4, <3>1
      <4>2. Place(rpo, up[k + 1]) < Place(rpo, up[k])
        BY <3>2, <3>4, <4>1 DEF IsTree
      <4>3. Place(rpo, up[k + 1]) \in Nat /\ Place(rpo, up[k]) \in Nat
        BY <4>1, SamePlace DEF IsTree
      <4>. QED
        BY <2>2, <3>1, <3>4, <4>2, <4>3
    <3>. QED
      BY <3>3, <3>4
  <2>3. Inductive(S, 0, n)
    BY <2>1, <2>2 DEF Inductive
  <2>4. i \in S
    <3>. HIDE DEF S
    <3>. QED
      BY <2>3, UpTo
  <2>. QED
    BY <2>4
<1>6. up[n] = rpo[1]
  <2>1. up[n] = rpo[1] \/ Place(rpo, up[n]) + n <= n
    BY <1>5
  <2>2. Place(rpo, up[n]) \in 1..n
    BY <1>0, <1>4, PlaceOf DEF IsTree
  <2>. QED
    BY <2>1, <2>2
<1> DEFINE T == {up[i] : i \in 0..n}
<1>7. T \in SUBSET DOMAIN idom /\ ClimbsFrom(idom, l, T)
  <2>1. l \in T /\ \A x \in T : x \in DOMAIN idom
    BY <1>3, <1>4
  <2>2. ASSUME NEW i \in 0..n PROVE idom[up[i]] \in T
    <3>1. CASE i = n
      BY <1>6, <3>1 DEF IsTree
    <3>2. CASE i # n
      <4>1. i + 1 \in 1..n /\ (i + 1) - 1 = i /\ i + 1 \in 0..n
        BY <3>2
      <4>2. up[i + 1] = idom[up[i]]
        BY <1>3, <4>1
      <4>. QED
        BY <4>1, <4>2
    <3>. QED
      BY <3>1, <3>2
  <2>. QED
    BY <2>1, <2>2 DEF ClimbsFrom
<1>8. Up(idom, l) \subseteq T
  <2>. HIDE DEF T
  <2>. QED
    BY <1>7, UpLeast
<1> QED
  BY <1>2, <1>4, <1>8

-----------------------------------------------------------------------------
(* The running result of dominators for one label. *)
Results(v, n, h) ==
    h = [i \in 0..n |-> IF i = 0 THEN 0
                        ELSE IF ~Processed(rpo[i], v) THEN h[i - 1]
                        ELSE IF IsFirst(i, v) THEN rpo[i] ELSE Intersect(rpo[i], h[i - 1])]

(* It exists. *)
LEMMA HasResults ==
    ASSUME NEW v, NEW n \in Nat
    PROVE  \E h : Results(v, n, h)
<1> DEFINE Step(i, x) == IF ~Processed(rpo[i], v) THEN x
                         ELSE IF IsFirst(i, v) THEN rpo[i] ELSE Intersect(rpo[i], x)
           S == {k \in 0..n : \E h : Results(v, k, h)}
<1>0. \A k, h : Results(v, k, h) <=> h = [i \in 0..k |-> IF i = 0 THEN 0 ELSE Step(i, h[i - 1])]
  BY DEF Results
<1> HIDE DEF Step
<1>1. 0 \in S
  <2> DEFINE h == [i \in 0..0 |-> 0]
  <2>1. h = [i \in 0..0 |-> IF i = 0 THEN 0 ELSE Step(i, h[i - 1])]
    OBVIOUS
  <2>. HIDE DEF h
  <2>2. Results(v, 0, h)
    BY <1>0, <2>1
  <2>. QED
    BY <2>2
<1>2. ASSUME NEW k \in 0..(n - 1), k \in S PROVE k + 1 \in S
  <2>1. PICK h : h = [i \in 0..k |-> IF i = 0 THEN 0 ELSE Step(i, h[i - 1])]
    BY <1>0, <1>2
  <2> DEFINE g == [i \in 0..(k + 1) |-> IF i = k + 1 THEN Step(i, h[k]) ELSE h[i]]
             e == [i \in 0..(k + 1) |-> IF i = 0 THEN 0 ELSE Step(i, g[i - 1])]
  <2>2. ASSUME NEW i \in 0..(k + 1)
        PROVE  g[i] = IF i = 0 THEN 0 ELSE Step(i, g[i - 1])
    <3>1. CASE i = k + 1
      <4>1. i # 0 /\ i - 1 = k /\ k \in 0..(k + 1) /\ k # k + 1
        BY <3>1
      <4>2. g[k] = h[k] /\ g[i] = Step(i, h[k])
        BY <3>1, <4>1
      <4>. QED
        BY <4>1, <4>2
    <3>2. CASE i # k + 1
      <4>1. i \in 0..k /\ (i # 0 => i - 1 \in 0..(k + 1) /\ i - 1 # k + 1)
        BY <3>2
      <4>2. h[i] = IF i = 0 THEN 0 ELSE Step(i, h[i - 1])
        BY <2>1, <4>1
      <4>3. g[i] = h[i] /\ (i # 0 => g[i - 1] = h[i - 1])
        BY <3>2, <4>1
      <4>. QED
        BY <4>2, <4>3
    <3>. QED
      BY <3>1, <3>2
  <2>3. g = e
    <3>1. \A i \in 0..(k + 1) : g[i] = e[i]
      BY <2>2
    <3>. QED
      BY <3>1
  <2>4. g = [i \in 0..(k + 1) |-> IF i = 0 THEN 0 ELSE Step(i, g[i - 1])]
    BY <2>3
  <2>. HIDE DEF g, e
  <2>5. Results(v, k + 1, g)
    BY <1>0, <2>4
  <2>. QED
    BY <2>5
<1>3. n \in S
  <2>1. Inductive(S, 0, n)
    BY <1>1, <1>2 DEF Inductive
  <2>. HIDE DEF S
  <2>. QED
    BY <2>1, UpTo
<1> QED
  BY <1>3

(* What is above every predecessor that has been processed. *)
AboveAll(v, c) ==
    /\ c \in DOMAIN idom
    /\ Up(idom, c) = {x \in DOMAIN idom : \A i \in DOMAIN rpo : Processed(rpo[i], v) => x \in Up(idom, rpo[i])}

(* The candidate of a label is above all its processed predecessors. *)
LEMMA NewIdomMeets ==
    ASSUME Listing(rpo), IsTree(rpo, idom), NEW v, NEW p \in DOMAIN rpo, Processed(rpo[p], v)
    PROVE  AboveAll(v, NewIdom(v))
<1>0. PICK n \in Nat : n = Len(rpo) /\ DOMAIN rpo = 1..n
  BY DEF Listing
<1> DEFINE new == CHOOSE h : Results(v, n, h)
<1>1. Results(v, n, new)
  BY HasResults
<1>2. NewIdom(v) = new[n]
  BY <1>0 DEF NewIdom, Results
<1> HIDE DEF new
<1>3. /\ new[0] = 0
      /\ \A i \in 1..n : new[i] = IF ~Processed(rpo[i], v) THEN new[i - 1]
                                  ELSE IF IsFirst(i, v) THEN rpo[i] ELSE Intersect(rpo[i], new[i - 1])
  BY <1>1 DEF Results
<1> DEFINE Common(k) == {x \in DOMAIN idom : \A i \in 1..k : Processed(rpo[i], v) => x \in Up(idom, rpo[i])}
           Some(k) == \E i \in 1..k : Processed(rpo[i], v)
           S == {k \in 0..n : Some(k) => new[k] \in DOMAIN idom /\ Up(idom, new[k]) = Common(k)}
<1>4. 0 \in S
  OBVIOUS
<1>5. ASSUME NEW k \in 0..(n - 1), k \in S PROVE k + 1 \in S
  <2>0. k + 1 \in 1..n /\ (k + 1) - 1 = k /\ k + 1 \in 0..n /\ \A i : i \in 1..(k + 1) <=> i \in 1..k \/ i = k + 1
    OBVIOUS
  <2>1. CASE ~Processed(rpo[k + 1], v)
    <3>1. new[k + 1] = new[k]
      BY <1>3, <2>0, <2>1
    <3>2. (Some(k + 1) <=> Some(k)) /\ Common(k + 1) = Common(k)
      BY <2>0, <2>1
    <3>. HIDE DEF Some, Common
    <3>. QED
      BY <1>5, <2>0, <3>1, <3>2
  <2>2. CASE Processed(rpo[k + 1], v) /\ IsFirst(k + 1, v)
    <3>1. new[k + 1] = rpo[k + 1]
      BY <1>3, <2>0, <2>2
    <3>2. rpo[k + 1] \in DOMAIN idom
      BY <2>2 DEF Processed, Known
    <3>3. \A i \in 1..k : ~Processed(rpo[i], v)
      BY <2>0, <2>2 DEF IsFirst
    <3>4. Up(idom, rpo[k + 1]) \subseteq DOMAIN idom
      BY <3>2, UpCloses
    <3>5. Common(k + 1) = Up(idom, rpo[k + 1])
      BY <2>0, <2>2, <3>3, <3>4
    <3>. HIDE DEF Some, Common
    <3>. QED
      BY <2>0, <3>1, <3>2, <3>5
  <2>3. CASE Processed(rpo[k + 1], v) /\ ~IsFirst(k + 1, v)
    <3>1. new[k + 1] = Intersect(rpo[k + 1], new[k])
      BY <1>3, <2>0, <2>3
    <3>2. rpo[k + 1] \in DOMAIN idom
      BY <2>3 DEF Processed, Known
    <3>3. Some(k)
      BY <2>0, <2>3 DEF IsFirst
    <3>4. new[k] \in DOMAIN idom /\ Up(idom, new[k]) = Common(k)
      BY <1>5, <3>3
    <3>5. Meets(idom, rpo[k + 1], new[k], new[k + 1])
      BY <3>1, <3>2, <3>4, IntersectMeets
    <3>6. Up(idom, rpo[k + 1]) \subseteq DOMAIN idom
      BY <3>2, UpCloses
    <3>7. Common(k + 1) = Up(idom, rpo[k + 1]) \cap Common(k)
      BY <2>0, <2>3, <3>6
    <3>. HIDE DEF Some, Common
    <3>. QED
      BY <2>0, <3>4, <3>5, <3>7 DEF Meets
  <2>. QED
    BY <2>1, <2>2, <2>3
<1>6. n \in S
  <2>1. Inductive(S, 0, n)
    BY <1>4, <1>5 DEF Inductive
  <2>. HIDE DEF S
  <2>. QED
    BY <2>1, UpTo
<1>7. Some(n)
  BY <1>0
<1>8. new[n] \in DOMAIN idom /\ Up(idom, new[n]) = Common(n)
  BY <1>6, <1>7
<1> QED
  BY <1>0, <1>2, <1>8 DEF AboveAll
-----------------------------------------------------------------------------
(* One step of the iteration hangs v under c.  The ways up that do not go  *)
(* through v stay, and so does the part below v of the others.             *)
Hangs(m, v, c, m2) ==
    /\ DOMAIN m2 = DOMAIN m \cup {v} /\ m2[v] = c
    /\ \A x \in DOMAIN m \ {v} : m2[x] = m[x]

(* What hanging a label below another one does to the ways up. *)
LEMMA HangStep ==
    ASSUME NEW s, Listing(s), NEW m, IsTree(s, m), NEW v \in Range(s), v # s[1],
           NEW c \in DOMAIN m, Place(s, c) < Place(s, v), NEW m2, Hangs(m, v, c, m2)
    PROVE  /\ IsTree(s, m2)
           /\ Up(m2, v) = {v} \cup Up(m, c)
           /\ \A l \in DOMAIN m : v \notin Up(m, l) => Up(m2, l) = Up(m, l)
           /\ \A l \in DOMAIN m : v \in Up(m, l) =>
                 v \in Up(m2, l) /\ Up(m, l) \subseteq Up(m2, l) \cup Up(m, v)
<1>0. /\ DOMAIN m2 = DOMAIN m \cup {v} /\ m2[v] = c
      /\ \A x \in DOMAIN m \ {v} : m2[x] = m[x]
  BY DEF Hangs
<1>1. IsTree(s, m2)
  BY <1>0 DEF IsTree
<1>2. ASSUME NEW l \in DOMAIN m, v \notin Up(m, l) PROVE Up(m2, l) = Up(m, l)
  <2>1. Up(m, l) \subseteq DOMAIN m /\ l \in Up(m, l) /\ \A x \in Up(m, l) : m[x] \in Up(m, l)
    BY UpCloses
  <2>2. Up(m, l) \in SUBSET DOMAIN m2 /\ ClimbsFrom(m2, l, Up(m, l))
    BY <1>0, <1>2, <2>1 DEF ClimbsFrom
  <2>3. Up(m2, l) \subseteq Up(m, l)
    BY <2>2, UpLeast
  <2>4. l \in Up(m2, l) /\ \A x \in Up(m2, l) : m2[x] \in Up(m2, l)
    BY <1>0, <1>1, UpCloses
  <2>5. Up(m2, l) \in SUBSET DOMAIN m /\ ClimbsFrom(m, l, Up(m2, l))
    BY <1>0, <1>2, <2>1, <2>3, <2>4 DEF ClimbsFrom
  <2>6. Up(m, l) \subseteq Up(m2, l)
    BY <2>5, UpLeast
  <2>. QED
    BY <2>3, <2>6
<1>3. v \notin Up(m, c)
  <2>1. Place(s, c) \in Nat /\ Place(s, v) \in Nat
    BY SamePlace DEF IsTree
  <2>. QED
    BY <2>1, UpBelow
<1>4. Up(m2, v) = {v} \cup Up(m, c)
  <2>1. v \in DOMAIN m2 /\ m2[v] = c
    BY <1>0
  <2>2. Up(m2, v) = {v} \cup Up(m2, c)
    BY <1>1, <2>1, UpParts
  <2>. QED
    BY <1>2, <1>3, <2>2
<1>5. ASSUME NEW l \in DOMAIN m, v \in Up(m, l)
      PROVE  v \in Up(m2, l) /\ Up(m, l) \subseteq Up(m2, l) \cup Up(m, v)
  <2>1. Up(m2, l) \subseteq DOMAIN m2 /\ l \in Up(m2, l) /\ \A x \in Up(m2, l) : m2[x] \in Up(m2, l)
    BY <1>0, <1>1, UpCloses
  <2>2. v \in DOMAIN m
    BY <1>5, UpCloses
  <2>3. v \in Up(m2, l)
    <3>. SUFFICES ASSUME v \notin Up(m2, l) PROVE FALSE
      OBVIOUS
    <3>1. Up(m2, l) \in SUBSET DOMAIN m /\ ClimbsFrom(m, l, Up(m2, l))
      BY <1>0, <2>1 DEF ClimbsFrom
    <3>2. Up(m, l) \subseteq Up(m2, l)
      BY <3>1, UpLeast
    <3>. QED
      BY <1>5, <3>2
  <2> DEFINE T == (Up(m2, l) \cap DOMAIN m) \cup Up(m, v)
  <2>4. v \in Up(m, v) /\ Up(m, v) \subseteq DOMAIN m /\ \A x \in Up(m, v) : m[x] \in Up(m, v)
    BY <2>2, UpCloses
  <2>5. \A x \in DOMAIN m : m[x] \in DOMAIN m
    BY DEF IsTree
  <2>6. T \in SUBSET DOMAIN m /\ ClimbsFrom(m, l, T)
    <3>1. ASSUME NEW x \in T PROVE m[x] \in T
      BY <1>0, <2>1, <2>4, <2>5
    <3>. QED
      BY <2>1, <2>4, <3>1 DEF ClimbsFrom
  <2>7. Up(m, l) \subseteq T
    <3>. HIDE DEF T
    <3>. QED
      BY <2>6, UpLeast
  <2>. QED
    BY <2>3, <2>7
<1> QED
  BY <1>1, <1>2, <1>4, <1>5

-----------------------------------------------------------------------------
(* What is reached without the labels of D. *)
LEMMA ReachedCloses ==
    ASSUME IsFunction(fn), CheckCfg(fn) = {}, NEW D
    PROVE  /\ ReachedWithout(D) \subseteq Labels(fn) /\ ReachedWithout(D) \cap D = {}
           /\ Entry(fn) \notin D => Entry(fn) \in ReachedWithout(D)
           /\ \A l \in ReachedWithout(D) : \A m \in Range(Successors(fn, l)) :
                 m \notin D => m \in ReachedWithout(D)
<1>0. Entry(fn) \in Labels(fn) /\ \A l \in Labels(fn) : Range(Successors(fn, l)) \subseteq Labels(fn)
  BY EntryFacts, SuccessorsAreLabels
<1>1. ReachedWithout(D) \subseteq Labels(fn)
  BY DEF ReachedWithout
<1>2. Entry(fn) \notin D => Entry(fn) \in ReachedWithout(D)
  BY <1>0 DEF ReachedWithout, ClosedWithout
<1>3. ASSUME NEW l \in ReachedWithout(D), NEW m \in Range(Successors(fn, l)), m \notin D
      PROVE  m \in ReachedWithout(D)
  <2>1. m \in Labels(fn)
    BY <1>0, <1>1
  <2>2. ASSUME NEW S \in SUBSET Labels(fn), ClosedWithout(D, S) PROVE m \in S
    <3>1. l \in S
      BY <2>2 DEF ReachedWithout
    <3>. QED
      BY <1>3, <2>2, <3>1 DEF ClosedWithout
  <2>. QED
    BY <2>1, <2>2 DEF ReachedWithout
<1>4. ReachedWithout(D) \cap D = {}
  <2>1. (Labels(fn) \ D) \in SUBSET Labels(fn) /\ ClosedWithout(D, Labels(fn) \ D)
    BY <1>0 DEF ClosedWithout
  <2>. QED
    BY <2>1 DEF ReachedWithout
<1> QED
  BY <1>1, <1>2, <1>3, <1>4

(* It is the least set that is closed. *)
LEMMA ReachedLeast ==
    ASSUME NEW D, NEW S \in SUBSET Labels(fn), ClosedWithout(D, S)
    PROVE  ReachedWithout(D) \subseteq S
BY DEF ReachedWithout

(* The labels of a finished search. *)
LEMMA SearchedFacts ==
    ASSUME IsFunction(fn), CheckCfg(fn) = {}, Line(fn, rpo, 0)
    PROVE  /\ Listing(rpo) /\ Range(rpo) \subseteq Labels(fn) /\ rpo[1] = Entry(fn)
           /\ \A u \in Range(rpo) : \A v \in Range(Successors(fn, u)) :
                 v \in Range(rpo) /\ (Place(rpo, v) <= Place(rpo, u) => u \in Above(fn, rpo, v))
           /\ \A v \in Range(rpo) \ {rpo[1]} : \E u \in Range(rpo) :
                 v \in Range(Successors(fn, u)) /\ Place(rpo, u) < Place(rpo, v)
<1>1. Listing(rpo) /\ rpo[1] = Entry(fn)
  BY DEF Line, Listing
<1>2. Range(rpo) \subseteq Labels(fn) /\ DOMAIN rpo = 1..Len(rpo) /\ Len(rpo) \in Nat
  BY DEF Line, Range
<1>3. ASSUME NEW u \in Range(rpo), NEW v \in Range(Successors(fn, u))
      PROVE  v \in Range(rpo) /\ (Place(rpo, v) <= Place(rpo, u) => u \in Above(fn, rpo, v))
  <2>1. Place(rpo, u) \in 1..Len(rpo) /\ rpo[Place(rpo, u)] = u
    BY <1>1, PlaceOf
  <2>2. PICK i \in 1..Len(rpo) : i = Place(rpo, u) /\ rpo[i] = u
    BY <2>1
  <2>3. i \in (0 + 1)..Len(rpo) /\ v \in Range(Successors(fn, rpo[i]))
    BY <2>2
  <2>4. PICK j \in DOMAIN rpo : rpo[j] = v /\ (j <= i => rpo[i] \in Above(fn, rpo, v))
    BY <2>3 DEF Line
  <2>5. v \in Range(rpo) /\ Place(rpo, v) = j
    BY <1>1, <1>2, <2>4, PlaceOf
  <2>. QED
    BY <2>2, <2>4, <2>5
<1>4. ASSUME NEW v \in Range(rpo), v # rpo[1]
      PROVE  \E u \in Range(rpo) : v \in Range(Successors(fn, u)) /\ Place(rpo, u) < Place(rpo, v)
  <2>1. PICK i \in 1..Len(rpo) : i = Place(rpo, v) /\ rpo[i] = v
    BY <1>1, PlaceOf
  <2>2. i \in 2..Len(rpo)
    BY <1>4, <2>1
  <2>3. PICK j \in 1..(i - 1) : v \in Range(Successors(fn, rpo[j]))
    BY <2>1, <2>2 DEF Line
  <2>4. j \in 1..Len(rpo) /\ j < i
    BY <1>2, <2>3
  <2>5. rpo[j] \in Range(rpo) /\ Place(rpo, rpo[j]) = j
    BY <1>1, <2>4, PlaceOf
  <2>. QED
    BY <2>1, <2>3, <2>4, <2>5
<1> QED
  BY <1>1, <1>2, <1>3, <1>4

(* What comes early enough is reached without what comes late. *)
LEMMA EarlyReached ==
    ASSUME IsFunction(fn), CheckCfg(fn) = {}, Line(fn, rpo, 0), NEW D,
           NEW k \in Nat, \A x \in Range(rpo) : Place(rpo, x) < k => x \notin D,
           NEW l \in Range(rpo), Place(rpo, l) < k
    PROVE  l \in ReachedWithout(D)
<1> DEFINE Bad == {n \in Nat : \E x \in Range(rpo) : n = Place(rpo, x) /\ n < k /\ x \notin ReachedWithout(D)}
<1>0. Listing(rpo) /\ \A x \in Range(rpo) : Place(rpo, x) \in Nat
  BY SearchedFacts, PlaceOf
<1>. SUFFICES ASSUME l \notin ReachedWithout(D) PROVE FALSE
  OBVIOUS
<1>1. Place(rpo, l) \in Bad /\ Bad \in SUBSET Nat
  BY <1>0
<1>2. PICK n \in Bad : \A j \in Bad : n <= j
  <2>. HIDE DEF Bad
  <2>. QED
    BY <1>1, LeastNat
<1>3. PICK x \in Range(rpo) : n = Place(rpo, x) /\ n < k /\ x \notin ReachedWithout(D)
  BY <1>2
<1>4. x \notin D
  BY <1>3
<1>5. CASE x = rpo[1]
  BY <1>3, <1>4, <1>5, SearchedFacts, ReachedCloses
<1>6. CASE x # rpo[1]
  <2>1. PICK u \in Range(rpo) : x \in Range(Successors(fn, u)) /\ Place(rpo, u) < Place(rpo, x)
    BY <1>6, SearchedFacts
  <2>2. u \in ReachedWithout(D)
    <3>. SUFFICES ASSUME u \notin ReachedWithout(D) PROVE FALSE
      OBVIOUS
    <3>1. Place(rpo, u) \in Bad
      BY <1>0, <1>2, <1>3, <2>1
    <3>. QED
      BY <1>0, <1>2, <1>3, <2>1, <3>1
  <2>. QED
    BY <1>3, <1>4, <2>1, <2>2, ReachedCloses
<1> QED
  BY <1>5, <1>6

(* The search lists what is reached from the start. *)
LEMMA ListsReached ==
    ASSUME IsFunction(fn), CheckCfg(fn) = {}, Line(fn, rpo, 0)
    PROVE  Range(rpo) = ReachedWithout({})
<1>1. Range(rpo) \in SUBSET Labels(fn) /\ ClosedWithout({}, Range(rpo))
  <2>1. rpo[1] \in Range(rpo)
    BY SearchedFacts, PlaceOf
  <2>. QED
    BY <2>1, SearchedFacts DEF ClosedWithout
<1>2. ReachedWithout({}) \subseteq Range(rpo)
  BY <1>1, ReachedLeast
<1>3. ASSUME NEW l \in Range(rpo) PROVE l \in ReachedWithout({})
  <2>1. Place(rpo, l) + 1 \in Nat /\ Place(rpo, l) < Place(rpo, l) + 1
    BY SearchedFacts, PlaceOf
  <2>2. PICK k \in Nat : k = Place(rpo, l) + 1
    BY <2>1
  <2>3. \A x \in Range(rpo) : Place(rpo, x) < k => x \notin {}
    OBVIOUS
  <2>. QED
    BY <2>1, <2>2, <2>3, EarlyReached
<1> QED
  BY <1>2, <1>3

(* What v leads to through later labels is reached without an earlier one  *)
(* if v is.                                                                *)
LEMMA AboveReached ==
    ASSUME IsFunction(fn), CheckCfg(fn) = {}, Line(fn, rpo, 0), NEW v \in Range(rpo),
           NEW d \in Range(rpo), Place(rpo, d) < Place(rpo, v), v \in ReachedWithout({d}),
           NEW l \in Above(fn, rpo, v)
    PROVE  l \in ReachedWithout({d})
<1> DEFINE T == ReachedWithout({d})
<1>0. Listing(rpo)
  BY SearchedFacts
<1>1. ASSUME NEW x \in T, NEW y \in Range(Successors(fn, x)), Before(rpo, v, y) PROVE y \in T
  <2>1. y \in Range(rpo)
    BY <1>1 DEF Before, Range
  <2>2. Place(rpo, v) < Place(rpo, y) /\ Place(rpo, v) \in Nat /\ Place(rpo, y) \in Nat /\ Place(rpo, d) \in Nat
    BY <1>0, <1>1, <2>1, SamePlace
  <2>3. y # d
    BY <2>2
  <2>. QED
    BY <2>3, ReachedCloses
<1>2. T \in SUBSET Labels(fn) /\ ClosedAbove(fn, rpo, v, T)
  BY <1>1, ReachedCloses DEF ClosedAbove
<1> QED
  BY <1>2 DEF Above

(* What was searched from a label searched from y was searched from y. *)
LEMMA AboveInside ==
    ASSUME IsFunction(fn), CheckCfg(fn) = {}, Line(fn, rpo, 0),
           NEW x \in Range(rpo), NEW y \in Range(rpo), x \in Above(fn, rpo, y), Place(rpo, y) <= Place(rpo, x)
    PROVE  Above(fn, rpo, x) \subseteq Above(fn, rpo, y)
<1>0. Listing(rpo) /\ x \in Labels(fn) /\ y \in Labels(fn)
  BY SearchedFacts
<1>1. ASSUME NEW z, Before(rpo, x, z) PROVE Before(rpo, y, z)
  <2>1. z \in Range(rpo)
    BY <1>1 DEF Before, Range
  <2>2. Place(rpo, x) < Place(rpo, z) /\ Place(rpo, x) \in Nat /\ Place(rpo, z) \in Nat
    BY <1>0, <1>1, <2>1, SamePlace
  <2>3. Place(rpo, y) < Place(rpo, z)
    <3>1. Place(rpo, y) \in Nat
      BY <1>0, SamePlace
    <3>. QED
      BY <2>2, <3>1
  <2>. QED
    BY <1>0, <2>1, <2>3, SamePlace
<1>2. Above(fn, rpo, y) \in SUBSET Labels(fn) /\ ClosedAbove(fn, rpo, x, Above(fn, rpo, y))
  BY <1>0, <1>1, AboveCloses DEF ClosedAbove
<1> QED
  BY <1>2 DEF Above

(* Every label on the way up leads to l through labels later than itself. *)
Leads(m) == \A l \in DOMAIN m : l \in Above(fn, rpo, m[l])

(* The search went from what is above a label to the label. *)
LEMMA UpLeads ==
    ASSUME IsFunction(fn), CheckCfg(fn) = {}, Line(fn, rpo, 0), NEW m, IsTree(rpo, m), Leads(m),
           NEW l \in DOMAIN m, NEW x \in Up(m, l)
    PROVE  l \in Above(fn, rpo, x)
<1> DEFINE T == {y \in DOMAIN m : l \in Above(fn, rpo, y)}
<1>0. \A y \in DOMAIN m : y \in Labels(fn) /\ y \in Range(rpo) /\ m[y] \in DOMAIN m
  BY SearchedFacts DEF IsTree
<1>1. l \in T
  BY <1>0, AboveCloses
<1>2. ASSUME NEW y \in T PROVE m[y] \in T
  <2>1. y \in Above(fn, rpo, m[y]) /\ m[y] \in DOMAIN m
    BY <1>0 DEF Leads
  <2>2. Place(rpo, m[y]) <= Place(rpo, y)
    <3>1. Place(rpo, m[y]) \in Nat /\ Place(rpo, y) \in Nat
      BY <1>0, SearchedFacts, SamePlace
    <3>. QED
      BY <3>1 DEF IsTree
  <2>3. Above(fn, rpo, y) \subseteq Above(fn, rpo, m[y])
    BY <1>0, <2>1, <2>2, AboveInside
  <2>. QED
    BY <2>1, <2>3
<1>3. T \in SUBSET DOMAIN m /\ ClimbsFrom(m, l, T)
  BY <1>1, <1>2 DEF ClimbsFrom
<1>4. Up(m, l) \subseteq T
  <2>. HIDE DEF T
  <2>. QED
    BY <1>3, UpLeast
<1> QED
  BY <1>4
-----------------------------------------------------------------------------
(***************************************************************************)
(* The invariant.                                                          *)
(***************************************************************************)
Phases == {"order", "dominators", "classify", "emit", "done", "irreducible"}
Graph == fn \in Functions /\ phase \in Phases

Searching ==
    /\ walk \in Seq(Labels(fn)) /\ rpo \in Seq(Labels(fn))
    /\ Line(fn, walk \o rpo, Len(walk)) /\ seen = Range(walk \o rpo)
    /\ phase # "order" => walk = <<>>

(* While the iteration runs the dominators of a label are above it. *)
Covers(m) == \A l \in DOMAIN m : \A d \in Range(rpo) : l \notin ReachedWithout({d}) => d \in Up(m, l)
Iterating ==
    phase = "dominators" =>
        /\ IsTree(rpo, idom) /\ Leads(idom) /\ Covers(idom)
        /\ pos \in 2..(Len(rpo) + 1) /\ \A i \in 1..(pos - 1) : rpo[i] \in DOMAIN idom
        /\ ~changed => \A i \in 2..(pos - 1) : idom[rpo[i]] = NewIdom(rpo[i])

(* Afterwards they are what is above it. *)
Exact ==
    \A l \in Range(rpo) : Dominators(l) = {d \in Range(rpo) : l \notin ReachedWithout({d})}
Iterated ==
    phase \in {"classify", "emit", "done", "irreducible"} =>
        /\ IsTree(rpo, idom) /\ DOMAIN idom = Range(rpo) /\ Exact

SInv == Graph /\ Searching /\ Iterating /\ Iterated

(* The function is one the verifier passes. *)
LEMMA GraphFacts == ASSUME Graph PROVE IsFunction(fn) /\ CheckCfg(fn) = {}
BY FunctionsAssumption DEF Graph

(* What the search line says once the stack is empty. *)
LEMMA SearchDone ==
    ASSUME Graph, Searching, walk = <<>> PROVE Line(fn, rpo, 0) /\ seen = Range(rpo)
<1>1. walk \o rpo = rpo /\ Len(walk) = 0
  BY DEF Searching
<1> QED
  BY <1>1 DEF Searching

(* It holds initially. *)
LEMMA SInit == Init => SInv
<1>. SUFFICES ASSUME Init PROVE SInv
  OBVIOUS
<1>1. Graph /\ IsFunction(fn) /\ CheckCfg(fn) = {}
  BY FunctionsAssumption DEF Init, Graph, Phases
<1>2. Entry(fn) \in Labels(fn)
  BY <1>1, EntryFacts
<1>3. walk = <<Entry(fn)>> /\ rpo = <<>> /\ walk \o rpo = <<Entry(fn)>> /\ Len(walk) = 1
  BY <1>2 DEF Init
<1>4. walk \in Seq(Labels(fn)) /\ rpo \in Seq(Labels(fn))
  BY <1>2, <1>3
<1> DEFINE s == <<Entry(fn)>>
<1>5. s \in Seq(Labels(fn)) /\ Len(s) = 1 /\ s # <<>> /\ s[1] = Entry(fn) /\ DOMAIN s = {1}
  BY <1>2
<1>6. Range(s) = {Entry(fn)}
  BY <1>5 DEF Range
<1>7. Line(fn, s, 1)
  <2>1. Entry(fn) \in Above(fn, s, Entry(fn))
    BY <1>1, <1>2, AboveCloses
  <2>. HIDE DEF s
  <2>2. \A i \in 1..1 : \A j \in 1..i : s[i] \in Above(fn, s, s[j])
    BY <1>5, <2>1
  <2>. QED
    BY <1>5, <2>2 DEF Line
<1>8. Searching
  BY <1>3, <1>4, <1>6, <1>7 DEF Init, Searching
<1>9. Iterating /\ Iterated
  BY DEF Init, Iterating, Iterated
<1> QED
  BY <1>1, <1>8, <1>9 DEF SInv

(* The search goes one label deeper. *)
LEMMA TopOfStack ==
    ASSUME Graph, Searching, phase = "order", walk # <<>>
    PROVE  /\ Len(walk) \in Nat \ {0} /\ Last(walk) = walk[Len(walk)] /\ Last(walk) \in Labels(fn)
           /\ (walk \o rpo)[Len(walk)] = Last(walk)
           /\ Successors(fn, Last(walk)) \in Seq(Labels(fn))
<1>1. walk \in Seq(Labels(fn)) /\ rpo \in Seq(Labels(fn))
  BY DEF Searching
<1>2. Len(walk) \in Nat \ {0} /\ Last(walk) = walk[Len(walk)] /\ Last(walk) \in Labels(fn)
  BY <1>1 DEF Last
<1>3. (walk \o rpo)[Len(walk)] = Last(walk)
  BY <1>1, <1>2
<1> QED
  BY <1>2, <1>3, GraphFacts, SuccessorsAreLabels

(* reverse_postorder visits a successor. *)
LEMMA SDescend == ASSUME SInv, Descend PROVE SInv'
<1>0. Graph /\ Searching /\ phase = "order" /\ walk # <<>> /\ IsFunction(fn) /\ CheckCfg(fn) = {}
  BY GraphFacts DEF SInv, Descend, At
<1> DEFINE top == Last(walk)
           n == Len(walk)
           t == FirstUnseen(top)
           s == walk \o rpo
           s2 == walk' \o rpo
<1>1. /\ n \in Nat /\ n # 0 /\ top \in Labels(fn) /\ s[n] = top /\ Successors(fn, top) \in Seq(Labels(fn))
      /\ walk \in Seq(Labels(fn)) /\ rpo \in Seq(Labels(fn))
  BY <1>0, TopOfStack DEF Searching
<1>2. t \in Range(Successors(fn, top)) /\ t \notin seen /\ t \in Labels(fn)
  <2>1. PICK m \in Nat : m = Len(Successors(fn, top)) /\ DOMAIN Successors(fn, top) = 1..m
    BY <1>1
  <2>2. Unseen(top) \in SUBSET (1..m) /\ Unseen(top) # {}
    BY <2>1 DEF Unseen, Descend
  <2>3. Cardinality(Unseen(top)) \in Nat /\ IsFiniteSet(Unseen(top)) /\ \A k \in 1..Cardinality(Unseen(top)) : Nth(Unseen(top), k) \in Unseen(top)
    BY <2>2, NthListsAll
  <2>4. Cardinality(Unseen(top)) # 0
    BY <2>2, <2>3, FS_EmptySet
  <2>5. Nth(Unseen(top), 1) \in Unseen(top)
    BY <2>3, <2>4
  <2>6. t \notin seen /\ Nth(Unseen(top), 1) \in DOMAIN Successors(fn, top)
    BY <2>5 DEF Unseen, FirstUnseen
  <2>7. t \in Range(Successors(fn, top))
    BY <2>6 DEF FirstUnseen, Range
  <2>. QED
    BY <1>0, <1>1, <2>6, <2>7, SuccessorsAreLabels
<1>3. walk' = Append(walk, t) /\ seen' = seen \cup {t} /\ rpo' = rpo /\ fn' = fn /\ phase' = phase
  BY DEF Descend
<1>4. walk' \in Seq(Labels(fn)) /\ Len(walk') = n + 1 /\ s2 \in Seq(Labels(fn))
  BY <1>1, <1>2, <1>3
<1>5. Inserted(s, s2, n, t)
  <2>1. Len(s) = n + Len(rpo) /\ Len(s2) = n + 1 + Len(rpo) /\ Len(rpo) \in Nat
    <3>1. Len(s) = Len(walk) + Len(rpo) /\ Len(rpo) \in Nat
      BY <1>1
    <3>2. PICK w \in Seq(Labels(fn)), r \in Seq(Labels(fn)) : w = walk' /\ r = rpo
      BY <1>1, <1>4
    <3>3. s2 = w \o r /\ Len(w) = n + 1 /\ Len(r) = Len(rpo)
      BY <1>4, <3>2
    <3>4. Len(w \o r) = Len(w) + Len(r)
      OBVIOUS
    <3>. QED
      BY <3>1, <3>3, <3>4
  <2>2. s2[n + 1] = t /\ \A i \in 1..n : s2[i] = s[i]
    BY <1>1, <1>2, <1>3
  <2>3. \A i \in (n + 1)..Len(s) : s2[i + 1] = s[i]
    <3>. SUFFICES ASSUME NEW i \in (n + 1)..Len(s) PROVE s2[i + 1] = s[i]
      OBVIOUS
    <3>1. s[i] = rpo[i - n]
      BY <1>1, <2>1
    <3>2. s2[i + 1] = rpo[(i + 1) - (n + 1)]
      BY <1>1, <1>4, <2>1
    <3>3. i - n = (i + 1) - (n + 1)
      BY <1>1, <2>1
    <3>. QED
      BY <3>1, <3>2, <3>3
  <2>4. Len(s2) = Len(s) + 1
    <3>1. n \in Nat
      BY <1>1
    <3>. HIDE DEF s, s2, n
    <3>. QED
      BY <2>1, <3>1
  <2>. HIDE DEF s, s2, t, n
  <2>. QED
    BY <2>2, <2>3, <2>4 DEF Inserted
<1>6. Line(fn, s, n) /\ seen = Range(s)
  BY <1>0 DEF Searching
<1>7. Line(fn, s2, n + 1) /\ Range(s2) = Range(s) \cup {t}
  <2>1. t \in Range(Successors(fn, s[n])) /\ t \notin Range(s)
    BY <1>1, <1>2, <1>6
  <2>. HIDE DEF s, s2, t, n
  <2>. QED
    BY <1>0, <1>1, <1>4, <1>5, <1>6, <2>1, DescendLine
<1>8. Searching'
  BY <1>0, <1>1, <1>3, <1>4, <1>6, <1>7 DEF Searching
<1>9. Graph' /\ Iterating' /\ Iterated'
  BY <1>0, <1>3 DEF Graph, Iterating, Iterated
<1> QED
  BY <1>8, <1>9 DEF SInv

Moves(T, w, r) ==
    /\ Front(w) \in Seq(T) /\ Len(Front(w)) = Len(w) - 1 /\ <<Last(w)>> \o r \in Seq(T)
    /\ Front(w) \o (<<Last(w)>> \o r) = w \o r

(* To finish the last of a stack moves the mark before it. *)
LEMMA MoveMark ==
    ASSUME NEW T, NEW w \in Seq(T), w # <<>>, NEW r \in Seq(T)
    PROVE  Moves(T, w, r)
<1>0. PICK n \in Nat : n = Len(w) /\ n # 0
  OBVIOUS
<1>1. Last(w) = w[n] /\ w[n] \in T /\ Front(w) = SubSeq(w, 1, n - 1) /\ \A i \in 1..(n - 1) : w[i] \in T
  BY <1>0 DEF Last, Front
<1>2. /\ Front(w) \in Seq(T) /\ Len(Front(w)) = n - 1
      /\ \A i \in 1..(n - 1) : Front(w)[i] = w[i]
  <2>1. 1 \in Int /\ n - 1 \in Int /\ (n - 1) - 1 + 1 = n - 1
    BY <1>0
  <2>2. /\ SubSeq(w, 1, n - 1) \in Seq(T)
        /\ Len(SubSeq(w, 1, n - 1)) = IF 1 <= n - 1 THEN (n - 1) - 1 + 1 ELSE 0
        /\ \A i \in 1..((n - 1) - 1 + 1) : SubSeq(w, 1, n - 1)[i] = w[1 + i - 1]
    BY <1>1, <2>1, SubSeqProperties
  <2>3. \A i \in 1..(n - 1) : 1 + i - 1 = i
    OBVIOUS
  <2>4. IF 1 <= n - 1 THEN (n - 1) - 1 + 1 = n - 1 ELSE 0 = n - 1
    BY <1>0
  <2>5. Len(SubSeq(w, 1, n - 1)) = n - 1
    BY <2>2, <2>4
  <2>6. \A i \in 1..(n - 1) : SubSeq(w, 1, n - 1)[i] = w[i]
    BY <2>1, <2>2, <2>3
  <2>. QED
    BY <1>1, <2>2, <2>5, <2>6
<1>3. PICK f, g : f = Front(w) /\ g = <<w[n]>> \o r
  OBVIOUS
<1>4. g \in Seq(T) /\ Len(g) = 1 + Len(r) /\ g[1] = w[n] /\ \A i \in 1..Len(r) : g[i + 1] = r[i]
  BY <1>1, <1>3
<1>5. f \in Seq(T) /\ Len(f) = n - 1 /\ \A i \in 1..(n - 1) : f[i] = w[i]
  BY <1>2, <1>3
<1>6. PICK k \in Nat : k = Len(r)
  OBVIOUS
<1>7. /\ f \o g \in Seq(T) /\ Len(f \o g) = n + k
      /\ \A i \in 1..(n + k) : (f \o g)[i] = IF i <= n - 1 THEN f[i] ELSE g[i - (n - 1)]
  <2>1. Len(f) + Len(g) = n + k
    BY <1>4, <1>5, <1>6
  <2>2. /\ f \o g \in Seq(T) /\ Len(f \o g) = Len(f) + Len(g)
        /\ \A i \in 1..(Len(f) + Len(g)) : (f \o g)[i] = IF i <= Len(f) THEN f[i] ELSE g[i - Len(f)]
    <3>1. f \in Seq(T) /\ g \in Seq(T)
      BY <1>4, <1>5
    <3>. QED
      BY <3>1, ConcatProperties, Zenon
  <2>. QED
    BY <1>5, <2>1, <2>2
<1>8. /\ w \o r \in Seq(T) /\ Len(w \o r) = n + k
      /\ \A i \in 1..(n + k) : (w \o r)[i] = IF i <= n THEN w[i] ELSE r[i - n]
  BY <1>0, <1>6, ConcatProperties
<1>9. PICK x, y : x = f \o g /\ y = w \o r
  OBVIOUS
<1>10. ASSUME NEW i \in 1..(n + k) PROVE x[i] = y[i]
  <2>1. x[i] = IF i <= n - 1 THEN f[i] ELSE g[i - (n - 1)]
    BY <1>7, <1>9
  <2>2. y[i] = IF i <= n THEN w[i] ELSE r[i - n]
    BY <1>8, <1>9
  <2>3. CASE i <= n - 1
    <3>1. i \in 1..(n - 1) /\ i <= n
      BY <2>3
    <3>. QED
      BY <1>5, <2>1, <2>2, <2>3, <3>1
  <2>4. CASE i = n
    <3>1. ~(i <= n - 1) /\ i - (n - 1) = 1 /\ i <= n
      BY <1>0, <2>4
    <3>. QED
      BY <1>4, <2>1, <2>2, <2>4, <3>1
  <2>5. CASE i > n
    <3>1. ~(i <= n - 1) /\ ~(i <= n) /\ i - n \in 1..Len(r) /\ (i - n) + 1 = i - (n - 1)
      BY <1>0, <1>6, <2>5
    <3>2. g[i - (n - 1)] = r[i - n]
      BY <1>4, <3>1
    <3>. QED
      BY <2>1, <2>2, <3>1, <3>2
  <2>. QED
    BY <1>0, <2>3, <2>4, <2>5
<1>11. x = y
  <2>1. x \in Seq(T) /\ Len(x) = n + k /\ y \in Seq(T) /\ Len(y) = n + k
    BY <1>7, <1>8, <1>9, Zenon
  <2>. QED
    BY <1>10, <2>1
<1> QED
  BY <1>0, <1>1, <1>2, <1>3, <1>4, <1>9, <1>11 DEF Moves

(* reverse_postorder finishes a label. *)
LEMMA SFinishLabel == ASSUME SInv, FinishLabel PROVE SInv'
<1>0. Graph /\ Searching /\ phase = "order" /\ walk # <<>> /\ IsFunction(fn) /\ CheckCfg(fn) = {}
  BY GraphFacts DEF SInv, FinishLabel, At
<1> DEFINE top == Last(walk)
           n == Len(walk)
           s == walk \o rpo
<1>1. /\ n \in Nat /\ n # 0 /\ top \in Labels(fn) /\ s[n] = top /\ Successors(fn, top) \in Seq(Labels(fn))
      /\ walk \in Seq(Labels(fn)) /\ rpo \in Seq(Labels(fn)) /\ top = walk[n]
  BY <1>0, TopOfStack DEF Searching
<1>2. walk' = Front(walk) /\ rpo' = <<top>> \o rpo /\ UNCHANGED <<fn, phase, seen>>
  BY DEF FinishLabel, Ordered
<1>3. /\ walk' \in Seq(Labels(fn)) /\ Len(walk') = n - 1 /\ rpo' \in Seq(Labels(fn))
      /\ walk' \o rpo' = s
  <2>1. walk \in Seq(Labels(fn)) /\ walk # <<>> /\ rpo \in Seq(Labels(fn))
    BY <1>0, <1>1
  <2>2. Moves(Labels(fn), walk, rpo)
    BY <2>1, MoveMark
  <2>. QED
    BY <1>2, <2>2, Zenon DEF Moves
<1>5. Line(fn, s, n) /\ seen = Range(s)
  BY <1>0 DEF Searching
<1>6. Range(Successors(fn, s[n])) \subseteq Range(s)
  <2>1. \A i \in DOMAIN Successors(fn, top) : Successors(fn, top)[i] \in seen
    BY DEF FinishLabel, Unseen
  <2>. QED
    BY <1>1, <1>5, <2>1 DEF Range
<1>7. Line(fn, s, n - 1)
  <2>. HIDE DEF s, n
  <2>. QED
    BY <1>0, <1>1, <1>5, <1>6, FinishLine
<1>8. Searching'
  BY <1>0, <1>2, <1>3, <1>5, <1>7 DEF Searching
<1>9. Graph' /\ Iterating' /\ Iterated'
  BY <1>0, <1>2 DEF Graph, Iterating, Iterated
<1> QED
  BY <1>8, <1>9 DEF SInv

(* The iteration starts from the entry alone. *)
LEMMA SStartDominators == ASSUME SInv, StartDominators PROVE SInv'
<1>0. Graph /\ Searching /\ phase = "order" /\ walk = <<>> /\ IsFunction(fn) /\ CheckCfg(fn) = {}
  BY GraphFacts DEF SInv, StartDominators, At
<1>1. Line(fn, rpo, 0)
  BY <1>0, SearchDone
<1>2. /\ phase' = "dominators" /\ pos' = 2 /\ changed' = FALSE
      /\ UNCHANGED <<fn, walk, seen, rpo>>
  BY DEF StartDominators
<1>3. DOMAIN idom' = {rpo[1]} /\ idom'[rpo[1]] = rpo[1]
  BY DEF StartDominators
<1>4. Listing(rpo) /\ rpo[1] = Entry(fn) /\ rpo[1] \in Range(rpo) /\ rpo[1] \in Labels(fn)
  BY <1>0, <1>1, SearchedFacts, PlaceOf
<1>5. IsTree(rpo, idom')
  BY <1>3, <1>4 DEF IsTree
<1>6. \A l \in DOMAIN idom' : l \in Above(fn, rpo, idom'[l])
  BY <1>0, <1>3, <1>4, AboveCloses
<1>7. ASSUME NEW l \in DOMAIN idom', NEW d \in Range(rpo), l \notin ReachedWithout({d})
      PROVE  d \in Up(idom', l)
  <2>1. l = Entry(fn)
    BY <1>3, <1>4
  <2>2. d = Entry(fn)
    BY <1>0, <1>7, <2>1, ReachedCloses
  <2>. QED
    BY <1>5, <2>1, <2>2, UpCloses
<1>8. \A d : ReachedWithout(d)' = ReachedWithout(d)
  BY <1>2 DEF ReachedWithout, ClosedWithout
<1>9. Leads(idom)' /\ Covers(idom)'
  BY <1>2, <1>6, <1>7, <1>8 DEF Leads, Covers
<1>10. Iterating'
  <2>1. \A i \in 1..(pos' - 1) : i = 1
    BY <1>2
  <2>2. pos' \in 2..(Len(rpo) + 1)
    BY <1>2, <1>4 DEF Listing
  <2>3. \A i \in 1..(pos' - 1) : rpo'[i] \in DOMAIN idom'
    BY <1>2, <1>3, <2>1
  <2>4. \A i \in 2..(pos' - 1) : FALSE
    BY <1>2
  <2>. QED
    BY <1>2, <1>5, <1>9, <2>2, <2>3, <2>4 DEF Iterating
<1> QED
  BY <1>0, <1>2, <1>10 DEF SInv, Graph, Phases, Searching, Iterated

(* The meeting point of the processed predecessors of a label.             *)
LEMMA VisitFacts ==
    ASSUME SInv, phase = "dominators", pos \in DOMAIN rpo, NEW v, v = rpo[pos], NEW c, c = NewIdom(v)
    PROVE  /\ v \in Range(rpo) /\ v # rpo[1] /\ Place(rpo, v) = pos
           /\ c \in DOMAIN idom /\ Place(rpo, c) < Place(rpo, v) /\ v \in Above(fn, rpo, c)
           /\ \A d \in Range(rpo) : v \notin ReachedWithout({d}) => d = v \/ d \in Up(idom, c)
<1>0. /\ Graph /\ Searching /\ IsFunction(fn) /\ CheckCfg(fn) = {} /\ walk = <<>>
      /\ IsTree(rpo, idom) /\ Leads(idom) /\ Covers(idom)
      /\ pos \in 2..(Len(rpo) + 1) /\ \A i \in 1..(pos - 1) : rpo[i] \in DOMAIN idom
  BY GraphFacts DEF SInv, Iterating, Searching
<1>1. Line(fn, rpo, 0)
  BY <1>0, SearchDone
<1>2. Listing(rpo) /\ DOMAIN rpo = 1..Len(rpo) /\ Range(rpo) \subseteq Labels(fn)
  BY <1>0, <1>1, SearchedFacts DEF Listing
<1>3. pos \in 2..Len(rpo) /\ 1 \in 1..Len(rpo) /\ Len(rpo) \in Nat
  BY <1>0, <1>2 DEF Listing
<1>4. v \in Range(rpo) /\ Place(rpo, v) = pos /\ Place(rpo, rpo[1]) = 1
  BY <1>2, <1>3, PlaceOf
<1>5. v # rpo[1]
  BY <1>3, <1>4
<1>6. PICK u \in Range(rpo) : v \in Range(Successors(fn, u)) /\ Place(rpo, u) < Place(rpo, v)
  BY <1>0, <1>1, <1>4, <1>5, SearchedFacts
<1>7. PICK p \in 1..Len(rpo) : rpo[p] = u /\ p = Place(rpo, u)
  BY <1>2, PlaceOf
<1>8. u \in DOMAIN idom
  <2>1. p \in 1..(pos - 1)
    BY <1>3, <1>4, <1>6, <1>7
  <2>. QED
    BY <1>0, <1>7, <2>1
<1>9. Processed(rpo[p], v) /\ p \in DOMAIN rpo
  BY <1>2, <1>6, <1>7, <1>8 DEF Processed, Known
<1>10. AboveAll(v, c)
  BY <1>0, <1>2, <1>9, NewIdomMeets
<1>11. /\ c \in DOMAIN idom
       /\ Up(idom, c) = {x \in DOMAIN idom : \A i \in DOMAIN rpo : Processed(rpo[i], v) => x \in Up(idom, rpo[i])}
  BY <1>10 DEF AboveAll
<1>12. c \in Up(idom, u)
  <2>1. c \in Up(idom, c)
    BY <1>0, <1>11, UpCloses
  <2>. QED
    BY <1>7, <1>9, <1>11, <2>1
<1>13. Place(rpo, c) <= Place(rpo, u) /\ Place(rpo, c) < Place(rpo, v) /\ c \in Range(rpo)
  <2>1. c \in Range(rpo) /\ Place(rpo, c) \in Nat /\ Place(rpo, u) \in Nat /\ Place(rpo, v) \in Nat
    <3>1. c \in Range(rpo)
      BY <1>0, <1>11 DEF IsTree
    <3>. QED
      BY <1>2, <1>4, <1>6, <3>1, PlaceOf
  <2>2. c = u \/ Place(rpo, c) < Place(rpo, u)
    BY <1>0, <1>2, <1>8, <1>12, UpBelow
  <2>. QED
    BY <1>6, <2>1, <2>2
<1>14. v \in Above(fn, rpo, c)
  <2>1. u \in Above(fn, rpo, c)
    BY <1>0, <1>1, <1>8, <1>12, UpLeads
  <2>2. Before(rpo, c, v)
    BY <1>2, <1>4, <1>13, SamePlace
  <2>. QED
    BY <1>0, <1>2, <1>6, <1>13, <2>1, <2>2, AboveCloses
<1>15. ASSUME NEW d \in Range(rpo), v \notin ReachedWithout({d}), d # v PROVE d \in Up(idom, c)
  <2>1. ASSUME NEW i \in DOMAIN rpo, Processed(rpo[i], v) PROVE d \in Up(idom, rpo[i])
    <3>1. rpo[i] \in DOMAIN idom /\ v \in Range(Successors(fn, rpo[i]))
      BY <2>1 DEF Processed, Known
    <3>2. rpo[i] \notin ReachedWithout({d})
      BY <1>0, <1>15, <3>1, ReachedCloses
    <3>. QED
      BY <1>0, <3>1, <3>2 DEF Covers
  <2>2. d \in DOMAIN idom
    BY <1>0, <1>7, <1>8, <1>9, <2>1, UpCloses
  <2>. QED
    BY <1>11, <2>1, <2>2
<1> QED
  BY <1>4, <1>5, <1>11, <1>13, <1>14, <1>15

(* A label gets a new dominator, or keeps the one it has. *)
LEMMA SVisitLabel == ASSUME SInv, VisitLabel PROVE SInv'
<1>0. /\ Graph /\ Searching /\ IsFunction(fn) /\ CheckCfg(fn) = {} /\ walk = <<>> /\ phase = "dominators"
      /\ IsTree(rpo, idom) /\ Leads(idom) /\ Covers(idom)
      /\ pos \in 2..(Len(rpo) + 1) /\ \A i \in 1..(pos - 1) : rpo[i] \in DOMAIN idom
      /\ ~changed => \A i \in 2..(pos - 1) : idom[rpo[i]] = NewIdom(rpo[i])
  BY GraphFacts DEF SInv, Iterating, Searching, VisitLabel, At
<1>1. Line(fn, rpo, 0) /\ Listing(rpo) /\ DOMAIN rpo = 1..Len(rpo)
  BY <1>0, SearchDone, SearchedFacts DEF Listing
<1>2. PICK v, c : v = rpo[pos] /\ c = NewIdom(v)
  OBVIOUS
<1>3. /\ pos \in DOMAIN rpo /\ pos' = pos + 1 /\ UNCHANGED <<fn, phase, walk, seen, rpo>>
      /\ IF v \in DOMAIN idom /\ idom[v] = c
         THEN UNCHANGED <<idom, changed>>
         ELSE idom' = [l \in Known \cup {v} |-> IF l = v THEN c ELSE idom[l]] /\ changed' = TRUE
  BY <1>2 DEF VisitLabel
<1>4. /\ v \in Range(rpo) /\ v # rpo[1] /\ Place(rpo, v) = pos
      /\ c \in DOMAIN idom /\ Place(rpo, c) < Place(rpo, v) /\ v \in Above(fn, rpo, c)
      /\ \A d \in Range(rpo) : v \notin ReachedWithout({d}) => d = v \/ d \in Up(idom, c)
  BY <1>0, <1>2, <1>3, VisitFacts
<1>5. \A d : ReachedWithout(d)' = ReachedWithout(d)
  BY <1>3 DEF ReachedWithout, ClosedWithout
<1>6. Graph' /\ Searching' /\ Iterated'
  BY <1>0, <1>3 DEF Graph, Searching, Iterated
<1>7. pos' \in 2..(Len(rpo) + 1) /\ pos' - 1 = pos /\ \A i \in 1..pos : i = pos \/ i \in 1..(pos - 1)
  BY <1>0, <1>1, <1>3
<1>8. CASE v \in DOMAIN idom /\ idom[v] = c
  <2>1. UNCHANGED <<idom, changed>>
    BY <1>3, <1>8
  <2>2. \A x : NewIdom(x)' = NewIdom(x)
    BY <1>3, <2>1 DEF NewIdom, Processed, Known, IsFirst, Intersect, Idx
  <2>3. \A i \in 1..(pos' - 1) : rpo[i] \in DOMAIN idom
    BY <1>0, <1>2, <1>7, <1>8
  <2>4. ASSUME ~changed, NEW i \in 2..(pos' - 1) PROVE idom[rpo[i]] = NewIdom(rpo[i])
    <3>1. i = pos \/ i \in 2..(pos - 1)
      BY <1>0, <1>7
    <3>. QED
      BY <1>0, <1>2, <1>8, <2>4, <3>1
  <2>5. Leads(idom)' /\ Covers(idom)'
    BY <1>0, <1>3, <1>5, <2>1 DEF Leads, Covers
  <2>6. Iterating'
    BY <1>0, <1>3, <1>7, <2>1, <2>2, <2>3, <2>4, <2>5 DEF Iterating
  <2>. QED
    BY <1>6, <2>6 DEF SInv
<1>9. CASE ~(v \in DOMAIN idom /\ idom[v] = c)
  <2>1. idom' = [l \in Known \cup {v} |-> IF l = v THEN c ELSE idom[l]] /\ changed' = TRUE
    BY <1>3, <1>9
  <2>2. Hangs(idom, v, c, idom')
    BY <2>1 DEF Hangs, Known
  <2>3. /\ IsTree(rpo, idom')
        /\ Up(idom', v) = {v} \cup Up(idom, c)
        /\ \A l \in DOMAIN idom : v \notin Up(idom, l) => Up(idom', l) = Up(idom, l)
        /\ \A l \in DOMAIN idom : v \in Up(idom, l) =>
              v \in Up(idom', l) /\ Up(idom, l) \subseteq Up(idom', l) \cup Up(idom, v)
    BY <1>0, <1>1, <1>4, <2>2, HangStep
  <2>4. \A l \in DOMAIN idom' : l \in Above(fn, rpo, idom'[l])
    BY <1>0, <1>4, <2>2 DEF Hangs, Leads
  <2>5. ASSUME NEW l \in DOMAIN idom', NEW d \in Range(rpo), l \notin ReachedWithout({d})
        PROVE  d \in Up(idom', l)
    <3>1. CASE l = v
      BY <1>4, <2>3, <2>5, <3>1
    <3>2. CASE l # v /\ v \notin Up(idom, l)
      BY <1>0, <2>2, <2>3, <2>5, <3>2 DEF Hangs, Covers
    <3>3. CASE l # v /\ v \in Up(idom, l)
      <4>1. l \in DOMAIN idom
        BY <2>2, <3>3 DEF Hangs
      <4>2. d \in Up(idom, l)
        BY <1>0, <2>5, <4>1 DEF Covers
      <4>3. CASE d \in Up(idom', l)
        BY <4>3
      <4>4. CASE d \in Up(idom, v) /\ d # v
        <5>1. v \in DOMAIN idom
          BY <1>0, <3>3, <4>1, UpCloses
        <5>2. Place(rpo, d) < Place(rpo, v)
          BY <1>0, <1>1, <4>4, <5>1, UpBelow
        <5>3. l \in Above(fn, rpo, v)
          BY <1>0, <1>1, <3>3, <4>1, UpLeads
        <5>4. v \notin ReachedWithout({d})
          BY <1>0, <1>1, <1>4, <2>5, <5>2, <5>3, AboveReached
        <5>5. d \in Up(idom', v)
          BY <1>4, <2>3, <5>4
        <5>6. v \in Up(idom', l)
          BY <2>3, <3>3, <4>1
        <5>7. Up(idom', v) \subseteq Up(idom', l)
          BY <2>3, <2>5, <5>6, UpInside
        <5>. QED
          BY <5>5, <5>7
      <4>. QED
        BY <2>3, <3>3, <4>1, <4>2, <4>3, <4>4
    <3>. QED
      BY <3>1, <3>2, <3>3
  <2>6. Leads(idom)' /\ Covers(idom)'
    BY <1>3, <1>5, <2>4, <2>5 DEF Leads, Covers
  <2>7. \A i \in 1..(pos' - 1) : rpo[i] \in DOMAIN idom'
    BY <1>0, <1>2, <1>7, <2>2 DEF Hangs
  <2>8. Iterating'
    BY <1>3, <1>7, <2>1, <2>3, <2>6, <2>7 DEF Iterating
  <2>. QED
    BY <1>6, <2>8 DEF SInv
<1> QED
  BY <1>8, <1>9

(* When a round changes nothing, every label is above exactly the labels   *)
(* that are not reached without it.                                        *)
LEMMA SettledExact ==
    ASSUME SInv, phase = "dominators", pos \notin DOMAIN rpo, ~changed
    PROVE  Exact
<1>0. /\ Graph /\ Searching /\ IsFunction(fn) /\ CheckCfg(fn) = {} /\ walk = <<>>
      /\ IsTree(rpo, idom) /\ Covers(idom)
      /\ pos \in 2..(Len(rpo) + 1) /\ \A i \in 1..(pos - 1) : rpo[i] \in DOMAIN idom
      /\ \A i \in 2..(pos - 1) : idom[rpo[i]] = NewIdom(rpo[i])
  BY GraphFacts DEF SInv, Iterating, Searching
<1>1. Line(fn, rpo, 0) /\ Listing(rpo) /\ DOMAIN rpo = 1..Len(rpo) /\ Len(rpo) \in Nat /\ rpo[1] = Entry(fn)
  BY <1>0, SearchDone, SearchedFacts DEF Listing
<1>2. pos - 1 = Len(rpo)
  BY <1>0, <1>1
<1>3. DOMAIN idom = Range(rpo)
  BY <1>0, <1>1, <1>2 DEF Range, IsTree
<1>4. ASSUME NEW d \in Range(rpo), NEW l \in Range(rpo), NEW m \in Range(Successors(fn, l)), m # d,
             d \in Up(idom, m)
      PROVE  d \in Up(idom, l)
  <2>1. m \in Range(rpo) /\ l \in Labels(fn)
    BY <1>0, <1>1, SearchedFacts
  <2>2. m # rpo[1]
    BY <1>0, <1>1, <2>1, EntryFacts
  <2>3. PICK i \in 1..Len(rpo) : rpo[i] = m /\ i = Place(rpo, m)
    BY <1>1, <2>1, PlaceOf
  <2>4. i \in 2..(pos - 1)
    BY <1>1, <1>2, <2>2, <2>3
  <2>5. idom[m] = NewIdom(m)
    BY <1>0, <2>3, <2>4
  <2>6. PICK p \in DOMAIN rpo : rpo[p] = l
    BY DEF Range
  <2>7. Processed(rpo[p], m)
    BY <1>3, <1>4, <2>6 DEF Processed, Known
  <2>8. AboveAll(m, idom[m])
    BY <1>0, <1>1, <2>5, <2>7, NewIdomMeets
  <2>9. Up(idom, m) = {m} \cup Up(idom, idom[m])
    BY <1>0, <1>3, <2>1, UpParts
  <2>10. d \in Up(idom, idom[m])
    BY <1>4, <2>9
  <2>. QED
    BY <2>6, <2>7, <2>8, <2>10 DEF AboveAll
<1>5. ASSUME NEW d \in Range(rpo), NEW l \in Range(rpo), d \in Up(idom, l) PROVE l \notin ReachedWithout({d})
  <2> DEFINE S == {x \in Range(rpo) : d \notin Up(idom, x)}
  <2>1. S \in SUBSET Labels(fn)
    BY <1>0, <1>1, SearchedFacts
  <2>2. Entry(fn) \notin {d} => Entry(fn) \in S
    <3>1. Up(idom, rpo[1]) = {rpo[1]} /\ rpo[1] \in Range(rpo)
      BY <1>0, <1>1, <1>3, UpBelow, PlaceOf
    <3>. QED
      BY <1>1, <3>1
  <2>3. ASSUME NEW x \in S, NEW m \in Range(Successors(fn, x)) \ {d} PROVE m \in S
    <3>1. m \in Range(rpo)
      BY <1>0, <1>1, SearchedFacts
    <3>. QED
      BY <1>4, <2>3, <3>1
  <2>4. ClosedWithout({d}, S)
    BY <2>2, <2>3 DEF ClosedWithout
  <2>5. ReachedWithout({d}) \subseteq S
    <3>. HIDE DEF S
    <3>. QED
      BY <2>1, <2>4, ReachedLeast
  <2>. QED
    BY <1>5, <2>5
<1>6. ASSUME NEW l \in Range(rpo)
      PROVE  Dominators(l) = {d \in Range(rpo) : l \notin ReachedWithout({d})}
  <2>1. Dominators(l) = Up(idom, l) /\ Up(idom, l) \subseteq Range(rpo)
    BY <1>0, <1>1, <1>3, DominatorsAreAbove, UpCloses
  <2>2. \A d \in Range(rpo) : l \notin ReachedWithout({d}) => d \in Up(idom, l)
    BY <1>0, <1>3 DEF Covers
  <2>. QED
    BY <1>5, <2>1, <2>2
<1> QED
  BY <1>6 DEF Exact

(* A round ends: another one, or the dominators are found. *)
LEMMA SEndRound == ASSUME SInv, EndRound PROVE SInv'
<1>0. /\ Graph /\ Searching /\ walk = <<>> /\ phase = "dominators" /\ pos \notin DOMAIN rpo
      /\ IsTree(rpo, idom) /\ Leads(idom) /\ Covers(idom)
      /\ pos \in 2..(Len(rpo) + 1) /\ \A i \in 1..(pos - 1) : rpo[i] \in DOMAIN idom
  BY DEF SInv, Iterating, Searching, EndRound, At
<1>1. DOMAIN rpo = 1..Len(rpo) /\ Len(rpo) \in Nat
  BY <1>0 DEF Searching
<1>2. pos - 1 = Len(rpo)
  BY <1>0, <1>1
<1>3. DOMAIN idom = Range(rpo)
  BY <1>0, <1>1, <1>2 DEF Range, IsTree
<1>4. changed' = FALSE /\ UNCHANGED <<fn, walk, seen, rpo, idom>>
  BY DEF EndRound
<1>5. \A d : ReachedWithout(d)' = ReachedWithout(d)
  BY <1>4 DEF ReachedWithout, ClosedWithout
<1>6. CASE Settled
  <2>1. phase' = "classify"
    BY <1>6 DEF EndRound
  <2>2. Exact
    BY <1>0, <1>6, SettledExact DEF Settled
  <2>3. Exact'
    BY <1>4, <1>5, <2>2 DEF Exact, Dominators
  <2>. QED
    BY <1>0, <1>3, <1>4, <2>1, <2>3 DEF SInv, Graph, Phases, Searching, Iterating, Iterated
<1>7. CASE ~Settled
  <2>1. phase' = phase /\ pos' = 2
    BY <1>7 DEF EndRound
  <2>2. Leads(idom)' /\ Covers(idom)'
    BY <1>0, <1>4, <1>5 DEF Leads, Covers
  <2>3. rpo # <<>>
    <3>1. Line(fn, rpo, 0)
      BY <1>0, SearchDone
    <3>. QED
      BY <3>1 DEF Line
  <2>4. 2 \in 2..(Len(rpo) + 1) /\ \A i \in 1..(2 - 1) : i \in 1..(pos - 1)
    BY <1>0, <1>1, <2>3
  <2>5. ~changed' => \A i \in 2..(pos' - 1) : idom'[rpo'[i]] = NewIdom(rpo[i])'
    BY <2>1
  <2>6. Iterating'
    BY <1>0, <1>4, <2>1, <2>2, <2>4, <2>5 DEF Iterating
  <2>. QED
    BY <1>0, <1>4, <2>1, <2>6 DEF SInv, Graph, Phases, Searching, Iterated
<1> QED
  BY <1>6, <1>7

(* What comes after leaves the tree alone. *)
Later == {"classify", "emit", "done", "irreducible"}

(* No later step changes the tree. *)
LEMMA SLater ==
    ASSUME SInv, phase \in Later, phase' \in Later, UNCHANGED <<fn, walk, seen, rpo, idom>>
    PROVE  SInv'
<1>1. \A d : ReachedWithout(d)' = ReachedWithout(d)
  BY DEF ReachedWithout, ClosedWithout
<1>2. Iterated'
  <2>1. IsTree(rpo, idom) /\ DOMAIN idom = Range(rpo) /\ Exact
    BY DEF SInv, Iterated, Later
  <2>2. rpo' = rpo /\ \A l : Dominators(l)' = Dominators(l)
    BY DEF Dominators
  <2>3. Exact'
    BY <1>1, <2>1, <2>2 DEF Exact
  <2>. QED
    BY <2>1, <2>3 DEF Iterated
<1> QED
  BY <1>2 DEF SInv, Later, Graph, Phases, Searching, Iterating

(* Every step keeps the invariant. *)
LEMMA SNext == SInv /\ [Next]_vars => SInv'
<1>. SUFFICES ASSUME SInv, [Next]_vars PROVE SInv'
  OBVIOUS
<1>1. CASE Descend \/ FinishLabel \/ StartDominators \/ VisitLabel \/ EndRound
  BY <1>1, SDescend, SFinishLabel, SStartDominators, SVisitLabel, SEndRound
<1>2. CASE Classify
  <2>1. phase \in Later /\ phase' \in Later /\ UNCHANGED <<fn, walk, seen, rpo, idom>>
    BY <1>2 DEF Classify, At, Later
  <2>. QED
    BY <2>1, SLater
<1>3. CASE StartEmit \/ Finish
  <2>1. phase \in Later /\ phase' \in Later /\ UNCHANGED <<fn, walk, seen, rpo, idom>>
    BY <1>3 DEF StartEmit, Finish, At, Later
  <2>. QED
    BY <2>1, SLater
<1>4. CASE DoTree \/ NodeWithin \/ EmitBlock \/ FollowBranch \/ WriteMark
  <2>1. phase = "emit" /\ UNCHANGED <<fn, phase, walk, seen, rpo, idom>>
    BY <1>4 DEF DoTree, NodeWithin, EmitBlock, FollowBranch, WriteMark, Doing, At, Replace
  <2>2. phase \in Later /\ phase' \in Later /\ UNCHANGED <<fn, walk, seen, rpo, idom>>
    BY <2>1 DEF Later
  <2>. QED
    BY <2>2, SLater
<1>5. CASE UNCHANGED vars
  <2>1. UNCHANGED <<fn, phase, walk, seen, rpo, idom, changed, pos>>
    BY <1>5 DEF vars
  <2>2. \A d : ReachedWithout(d)' = ReachedWithout(d)
    BY <2>1 DEF ReachedWithout, ClosedWithout
  <2>3. rpo' = rpo /\ \A l : Dominators(l)' = Dominators(l)
    BY <2>1 DEF Dominators
  <2>6. Leads(idom) => Leads(idom)'
    BY <2>1 DEF Leads
  <2>7. Covers(idom) => Covers(idom)'
    BY <2>1, <2>2 DEF Covers
  <2>8. Exact => Exact'
    BY <2>2, <2>3 DEF Exact
  <2>4. \A x : NewIdom(x)' = NewIdom(x)
    BY <2>1 DEF NewIdom, Processed, Known, IsFirst, Intersect, Idx
  <2>5. Iterating' /\ Iterated'
    BY <2>1, <2>4, <2>6, <2>7, <2>8 DEF SInv, Iterating, Iterated
  <2>. QED
    BY <2>1, <2>5 DEF SInv, Graph, Searching
<1> QED
  BY <1>1, <1>2, <1>3, <1>4, <1>5 DEF Next

(* So it holds in every state. *)
LEMMA StructuringInvariant == Spec => []SInv
<1>1. SInv /\ [Next]_vars => SInv'
  BY SNext
<1> QED
  BY <1>1, SInit, PTL DEF Spec

(* The iteration of Cooper, Harvey and Kennedy settles on the dominators   *)
(* of every graph the verifier passes: d is above l exactly when every     *)
(* path to l goes through d.                                               *)
THEOREM IterationFindsDominators == Spec => []DominatorsExact
<1>1. SInv => DominatorsExact
  <2>. SUFFICES ASSUME SInv, phase = "classify", NEW d \in Range(rpo)
                PROVE  {l \in Range(rpo) : d \in Dominators(l)} = Range(rpo) \ ReachedWithout({d})
    BY DEF DominatorsExact, At
  <2>1. Exact
    BY DEF SInv, Iterated
  <2>. QED
    BY <2>1 DEF Exact
<1> QED
  BY <1>1, StructuringInvariant, PTL
-----------------------------------------------------------------------------
(***************************************************************************)
(* The refusal.  A retreating edge to a label that does not dominate its   *)
(* source closes a loop with two entries; and a loop with two entries has  *)
(* such an edge, to the label of it the search met first.                  *)
(***************************************************************************)
LEMMA ListedFinite == ASSUME Listing(rpo) PROVE IsFiniteSet(Range(rpo))
<1>1. PICK n \in Nat : n = Len(rpo) /\ DOMAIN rpo = 1..n
  BY DEF Listing
<1>2. IsFiniteSet(1..n)
  BY FS_Interval
<1>3. PICK g : g = [i \in 1..n |-> rpo[i]]
  OBVIOUS
<1>4. g \in Surjection(1..n, Range(rpo))
  <2>1. g \in [1..n -> Range(rpo)] /\ \A y \in Range(rpo) : \E i \in 1..n : g[i] = y
    BY <1>1, <1>3 DEF Range
  <2>. QED
    BY <2>1 DEF Surjection
<1> QED
  BY <1>2, <1>4, FS_Surjection

(* More than one element is two that differ. *)
LEMMA TwoOfThem ==
    ASSUME NEW S, IsFiniteSet(S)
    PROVE  Cardinality(S) > 1 <=> \E x, y \in S : x # y
<1>1. Cardinality(S) \in Nat
  BY FS_CardinalityType
<1>2. ASSUME NEW x \in S, \A y \in S : x = y PROVE Cardinality(S) = 1
  <2>1. S = {x}
    BY <1>2
  <2>. QED
    BY <2>1, FS_Singleton
<1>3. S = {} => Cardinality(S) = 0
  BY FS_EmptySet
<1>4. ASSUME NEW x \in S, NEW y \in S, x # y PROVE Cardinality(S) > 1
  <2>1. /\ IsFiniteSet(S \ {x}) /\ Cardinality(S \ {x}) = Cardinality(S) - 1
    BY FS_RemoveElement
  <2>2. y \in S \ {x}
    BY <1>4
  <2>3. Cardinality(S \ {x}) # 0
    BY <2>1, <2>2, FS_EmptySet
  <2>4. Cardinality(S \ {x}) \in Nat
    BY <2>1, FS_CardinalityType
  <2>. QED
    BY <1>1, <2>1, <2>3, <2>4
<1> QED
  BY <1>1, <1>2, <1>3, <1>4

(* The labels from which u is reached inside A. *)
LeadsInto(A, u, T) ==
    u \in T /\ \A x \in A : \A y \in Range(Successors(fn, x)) : y \in T => x \in T
Into(A, u) == {x \in A : \A T \in SUBSET A : LeadsInto(A, u, T) => x \in T}

(* They contain u and whatever of A leads to them. *)
LEMMA IntoCloses ==
    ASSUME NEW A, NEW u \in A
    PROVE  /\ u \in Into(A, u) /\ Into(A, u) \subseteq A
           /\ \A x \in A : \A y \in Range(Successors(fn, x)) : y \in Into(A, u) => x \in Into(A, u)
<1>1. u \in Into(A, u) /\ Into(A, u) \subseteq A
  BY DEF Into, LeadsInto
<1>2. ASSUME NEW x \in A, NEW y \in Range(Successors(fn, x)), y \in Into(A, u) PROVE x \in Into(A, u)
  BY <1>2 DEF Into, LeadsInto
<1> QED
  BY <1>1, <1>2

(* The loop of a retreating edge from u to v: what lies on the way from v  *)
(* to u through later labels.                                              *)
LEMMA LoopConnected ==
    ASSUME IsFunction(fn), CheckCfg(fn) = {}, Line(fn, rpo, 0), NEW v \in Range(rpo),
           NEW A, A = Above(fn, rpo, v), NEW u \in A, v \in Range(Successors(fn, u)),
           NEW S, S = Into(A, u)
    PROVE  v \in S /\ u \in S /\ S \subseteq A /\ Connected(S)
<1>0. /\ u \in S /\ S \subseteq A
      /\ \A x \in A : \A y \in Range(Successors(fn, x)) : y \in S => x \in S
  BY IntoCloses
<1>1. /\ v \in A /\ A \subseteq Labels(fn)
      /\ \A x \in A : \A y \in Range(Successors(fn, x)) : Before(rpo, v, y) => y \in A
  <2>1. v \in Labels(fn)
    BY SearchedFacts
  <2>. QED
    BY <2>1, AboveCloses
<1>2. \A T \in SUBSET A : ClosedAbove(fn, rpo, v, T) => A \subseteq T
  BY <1>1 DEF Above
<1>3. v \in S
  <2>. SUFFICES ASSUME v \notin S PROVE FALSE
    OBVIOUS
  <2>1. ClosedAbove(fn, rpo, v, A \ S)
    BY <1>0, <1>1 DEF ClosedAbove
  <2>2. A \subseteq A \ S
    BY <1>2, <2>1
  <2>. QED
    BY <1>0, <2>2
<1>4. ASSUME NEW T \in SUBSET S, T # {}, \A l \in T : Range(Successors(fn, l)) \cap S \subseteq T
      PROVE  T = S
  <2>1. u \in T
    <3>. SUFFICES ASSUME u \notin T PROVE FALSE
      OBVIOUS
    <3>1. (S \ T) \in SUBSET A /\ LeadsInto(A, u, S \ T)
      <4>1. ASSUME NEW x \in A, NEW y \in Range(Successors(fn, x)), y \in S \ T PROVE x \in S \ T
        BY <1>0, <1>4, <4>1
      <4>. QED
        BY <1>0, <4>1 DEF LeadsInto
    <3>2. S \subseteq S \ T
      BY <3>1 DEF Into
    <3>. QED
      BY <1>4, <3>2
  <2>2. v \in T
    BY <1>3, <1>4, <2>1
  <2> DEFINE Y == T \cup (A \ S)
  <2>3. ASSUME NEW x \in Y, NEW y \in Range(Successors(fn, x)), Before(rpo, v, y) PROVE y \in Y
    <3>1. x \in A /\ y \in A
      BY <1>0, <1>1, <2>3
    <3>2. CASE x \in T
      BY <1>4, <3>1, <3>2
    <3>3. CASE x \in A \ S
      BY <1>0, <3>1, <3>3
    <3>. QED
      BY <3>2, <3>3
  <2>4. Y \in SUBSET A /\ ClosedAbove(fn, rpo, v, Y)
    BY <1>0, <2>2, <2>3 DEF ClosedAbove
  <2>5. A \subseteq Y
    <3>. HIDE DEF Y
    <3>. QED
      BY <1>2, <2>4
  <2>. QED
    BY <1>0, <2>5
<1> QED
  BY <1>0, <1>3, <1>4 DEF Connected

(* A refused edge closes a loop with two entries. *)
LEMMA RefusedIsIrreducible ==
    ASSUME IsFunction(fn), CheckCfg(fn) = {}, Line(fn, rpo, 0), NEW v \in Range(rpo), NEW u \in Range(rpo),
           v \in Range(Successors(fn, u)), Place(rpo, v) <= Place(rpo, u), u \in ReachedWithout({v})
    PROVE  IsIrreducible
<1>0. PICK A, S : A = Above(fn, rpo, v) /\ S = Into(A, u)
  OBVIOUS
<1>1. u \in A /\ Listing(rpo)
  BY <1>0, SearchedFacts
<1>2. v \in S /\ u \in S /\ S \subseteq A /\ Connected(S)
  BY <1>0, <1>1, LoopConnected
<1>3. u # v
  BY ReachedCloses
<1>4. ASSUME NEW x \in A PROVE x \in Range(rpo) /\ Place(rpo, v) <= Place(rpo, x)
  <2> DEFINE T == {y \in Labels(fn) : y \in Range(rpo) /\ Place(rpo, v) <= Place(rpo, y)}
  <2>1. v \in T
    BY <1>1, SearchedFacts, PlaceOf
  <2>2. ASSUME NEW y \in T, NEW z \in Range(Successors(fn, y)), Before(rpo, v, z) PROVE z \in T
    <3>1. z \in Range(rpo) /\ z \in Labels(fn)
      BY <2>2, SearchedFacts
    <3>2. Place(rpo, v) < Place(rpo, z) /\ Place(rpo, v) \in Nat /\ Place(rpo, z) \in Nat
      BY <1>1, <2>2, <3>1, SamePlace
    <3>. QED
      BY <3>1, <3>2
  <2>3. T \in SUBSET Labels(fn) /\ ClosedAbove(fn, rpo, v, T)
    BY <2>1, <2>2 DEF ClosedAbove
  <2>4. x \in T
    <3>. HIDE DEF T
    <3>. QED
      BY <1>0, <2>3 DEF Above
  <2>. QED
    BY <2>4
<1>5. S \subseteq Range(rpo) /\ \A x \in S : Place(rpo, v) <= Place(rpo, x)
  BY <1>2, <1>4
<1>6. v \in Entries(S)
  <2>1. v # rpo[1]
    <3>1. u \in Labels(fn)
      BY SearchedFacts
    <3>. QED
      BY <3>1, SearchedFacts, EntryFacts
  <2>2. PICK p \in Range(rpo) : v \in Range(Successors(fn, p)) /\ Place(rpo, p) < Place(rpo, v)
    BY <2>1, SearchedFacts
  <2>3. PICK k \in Nat : k = Place(rpo, v)
    BY <1>1, PlaceOf
  <2>4. \A x \in Range(rpo) : Place(rpo, x) < k => x \notin S
    <3>1. \A x \in Range(rpo) : Place(rpo, x) \in Nat
      BY <1>1, PlaceOf
    <3>. QED
      BY <1>5, <2>3, <3>1
  <2>5. p \in ReachedWithout(S)
    BY <2>2, <2>3, <2>4, EarlyReached
  <2>. QED
    BY <1>2, <2>2, <2>5 DEF Entries
<1>7. \E e \in Entries(S) : e # v
  <2>. SUFFICES ASSUME \A e \in Entries(S) : e = v PROVE FALSE
    OBVIOUS
  <2>0. \A e \in S : e = Entry(fn) \/ (\E l \in ReachedWithout(S) : e \in Range(Successors(fn, l))) => e = v
    BY DEF Entries
  <2>1. Entry(fn) \notin {v} => Entry(fn) \in ReachedWithout(S)
    BY <2>0, ReachedCloses
  <2>2. \A l \in ReachedWithout(S) : \A m \in Range(Successors(fn, l)) \ {v} : m \in ReachedWithout(S)
    BY <2>0, ReachedCloses
  <2>3. ClosedWithout({v}, ReachedWithout(S)) /\ ReachedWithout(S) \in SUBSET Labels(fn)
    BY <2>1, <2>2, ReachedCloses DEF ClosedWithout
  <2>4. u \in ReachedWithout(S)
    BY <2>3, ReachedLeast
  <2>. QED
    BY <1>2, <2>4, ReachedCloses
<1>8. IsFiniteSet(S) /\ IsFiniteSet(Entries(S))
  <2>1. IsFiniteSet(Range(rpo)) /\ Entries(S) \subseteq Range(rpo)
    BY <1>1, <1>5, ListedFinite DEF Entries
  <2>. QED
    BY <1>5, <2>1, FS_Subset
<1>9. Cardinality(S) > 1 /\ Cardinality(Entries(S)) > 1
  BY <1>2, <1>3, <1>6, <1>7, <1>8, TwoOfThem
<1> QED
  BY <1>2, <1>5, <1>9 DEF IsIrreducible

(* A loop with two entries has an edge that is refused. *)
LEMMA IrreducibleIsRefused ==
    ASSUME IsFunction(fn), CheckCfg(fn) = {}, Line(fn, rpo, 0), IsIrreducible
    PROVE  \E v, u \in Range(rpo) :
              /\ v \in Range(Successors(fn, u)) /\ Place(rpo, v) <= Place(rpo, u)
              /\ u \in ReachedWithout({v})
<1>0. Listing(rpo) /\ IsFiniteSet(Range(rpo)) /\ \A x \in Range(rpo) : Place(rpo, x) \in Nat
  BY SearchedFacts, ListedFinite, PlaceOf
<1>1. PICK S \in SUBSET Range(rpo) : Connected(S) /\ Cardinality(Entries(S)) > 1
  BY DEF IsIrreducible
<1>2. PICK a \in Entries(S), b \in Entries(S) : a # b
  <2>1. IsFiniteSet(Entries(S))
    BY <1>0, <1>1, FS_Subset DEF Entries
  <2>. QED
    BY <1>1, <2>1, TwoOfThem
<1>3. PICK h \in S : \A x \in S : Place(rpo, h) <= Place(rpo, x)
  <2> DEFINE P == {Place(rpo, x) : x \in S}
  <2>1. P \in SUBSET Nat /\ P # {}
    BY <1>0, <1>2 DEF Entries
  <2>2. PICK n \in P : \A k \in P : n <= k
    <3>. HIDE DEF P
    <3>. QED
      BY <2>1, LeastNat
  <2>. QED
    BY <2>2
<1>4. PICK e \in Entries(S) : e # h
  BY <1>2
<1>5. ReachedWithout(S) \subseteq ReachedWithout({h})
  <2>1. ClosedWithout(S, ReachedWithout({h})) /\ ReachedWithout({h}) \in SUBSET Labels(fn)
    BY ReachedCloses DEF ClosedWithout
  <2>. QED
    BY <2>1, ReachedLeast
<1>6. e \in S /\ e \in ReachedWithout({h})
  <2>1. e \in S /\ (e = Entry(fn) \/ \E l \in ReachedWithout(S) : e \in Range(Successors(fn, l)))
    BY DEF Entries
  <2>. QED
    BY <1>4, <1>5, <2>1, ReachedCloses
<1> DEFINE T == S \cap ReachedWithout({h})
<1>7. T # {} /\ T # S
  BY <1>3, <1>6, ReachedCloses
<1>8. PICK u \in T : ~(Range(Successors(fn, u)) \cap S \subseteq T)
  BY <1>1, <1>7 DEF Connected
<1>9. h \in Range(Successors(fn, u))
  BY <1>8, ReachedCloses
<1>10. h \in Range(rpo) /\ u \in Range(rpo) /\ Place(rpo, h) <= Place(rpo, u)
  BY <1>1, <1>3, <1>8
<1> QED
  BY <1>8, <1>9, <1>10

-----------------------------------------------------------------------------
(* The classification: the labels looked at, and in the end all of them,   *)
(* are allowed, and merges has those with two forward edges.               *)
IsMerge(v) == Cardinality(Forward(v)) >= 2
Classifying ==
    /\ phase \in {"order", "dominators"} => merges = {}
    /\ phase = "classify" =>
          /\ pos \in 1..(Len(rpo) + 1) /\ \A i \in 1..(pos - 1) : Allowed(rpo[i])
          /\ merges = {rpo[i] : i \in {j \in 1..(pos - 1) : IsMerge(rpo[j])}}
    /\ phase \in {"emit", "done"} =>
          /\ \A v \in Range(rpo) : Allowed(v)
          /\ merges = {v \in Range(rpo) : IsMerge(v)}
    /\ phase = "irreducible" => \E v \in Range(rpo) : ~Allowed(v)

(* What a label is depends on the graph and the tree alone. *)
LEMMA SameClasses ==
    ASSUME UNCHANGED <<fn, rpo, idom>>
    PROVE  \A v : (Allowed(v)' <=> Allowed(v)) /\ (IsMerge(v)' <=> IsMerge(v))
<1>1. fn' = fn /\ rpo' = rpo /\ idom' = idom
  OBVIOUS
<1>2. \A l : Idx(l)' = Idx(l) /\ Dominators(l)' = Dominators(l)
  BY <1>1 DEF Idx, Dominators
<1>3. \A v : Preds(v)' = Preds(v)
  BY <1>1 DEF Preds
<1>4. \A v : Retreating(v)' = Retreating(v)
  BY <1>2, <1>3 DEF Retreating
<1>5. \A v : Forward(v)' = Forward(v)
  <2>1. \A v : InEdges(v)' = InEdges(v)
    BY <1>1, <1>3 DEF InEdges
  <2>. QED
    BY <1>2, <2>1 DEF Forward
<1>6. ASSUME NEW v PROVE Allowed(v)' <=> Allowed(v)
  BY <1>2, <1>4 DEF Allowed
<1>7. ASSUME NEW v PROVE IsMerge(v)' <=> IsMerge(v)
  BY <1>5 DEF IsMerge
<1> QED
  BY <1>6, <1>7

(* What is known of the labels after the iteration. *)
LEMMA SearchedLater ==
    ASSUME SInv, phase \in Later
    PROVE  /\ IsFunction(fn) /\ CheckCfg(fn) = {} /\ Line(fn, rpo, 0) /\ Listing(rpo)
           /\ DOMAIN rpo = 1..Len(rpo) /\ Len(rpo) \in Nat \ {0} /\ Range(rpo) = {rpo[i] : i \in 1..Len(rpo)}
           /\ IsTree(rpo, idom) /\ DOMAIN idom = Range(rpo) /\ Exact
<1>1. Graph /\ Searching /\ walk = <<>> /\ IsFunction(fn) /\ CheckCfg(fn) = {}
  BY GraphFacts DEF SInv, Searching, Later
<1>2. Line(fn, rpo, 0)
  BY <1>1, SearchDone
<1>3. Listing(rpo)
  BY <1>1, <1>2, SearchedFacts
<1> QED
  BY <1>1, <1>2, <1>3, PlaceOf DEF SInv, Iterated, Later, Listing, Range

(* Every step keeps it. *)
LEMMA ClassifyingNext == ASSUME SInv, Classifying, [Next]_vars PROVE Classifying'
<1>1. CASE Descend \/ FinishLabel \/ StartDominators \/ VisitLabel
  BY <1>1 DEF Descend, FinishLabel, StartDominators, VisitLabel, At, Classifying
<1>2. CASE EndRound
  <2>1. merges' = {} /\ phase = "dominators"
    BY <1>2 DEF EndRound, At, Classifying
  <2>2. CASE phase' = "classify" /\ pos' = 1
    <3>1. Len(rpo') \in Nat
      BY <1>2 DEF EndRound, SInv, Searching
    <3>2. {i \in 1..(pos' - 1) : IsMerge(rpo[i])'} = {}
      BY <2>2
    <3>3. {rpo[i] : i \in {j \in 1..(pos - 1) : IsMerge(rpo[j])}}' = {}
      BY <2>2
    <3>. QED
      BY <2>1, <2>2, <3>1, <3>3 DEF Classifying
  <2>3. CASE phase' = phase
    BY <2>1, <2>3 DEF Classifying
  <2>. QED
    BY <1>2, <2>2, <2>3 DEF EndRound
<1>3. CASE Classify
  <2>0. /\ phase = "classify" /\ pos \in 1..Len(rpo) /\ Len(rpo) \in Nat /\ UNCHANGED <<fn, rpo, idom>>
        /\ Range(rpo) = {rpo[i] : i \in 1..Len(rpo)}
    BY <1>3, SearchedLater DEF Classify, At, Later
  <2>1. \A x : (Allowed(x)' <=> Allowed(x)) /\ (IsMerge(x)' <=> IsMerge(x))
    BY <2>0, SameClasses
  <2>2. PICK v : v = rpo[pos]
    OBVIOUS
  <2>3. CASE ~Allowed(v)
    <3>1. phase' = "irreducible"
      BY <1>3, <2>2, <2>3 DEF Classify
    <3>2. v \in Range(rpo')
      BY <2>0, <2>2
    <3>. QED
      BY <2>1, <2>3, <3>1, <3>2 DEF Classifying
  <2>4. CASE Allowed(v)
    <3>1. /\ phase' = "classify" /\ pos' = pos + 1 /\ rpo' = rpo
          /\ merges' = IF IsMerge(v) THEN merges \cup {v} ELSE merges
      BY <1>3, <2>0, <2>2, <2>4 DEF Classify, IsMerge
    <3>2. pos' - 1 = pos /\ pos' \in 1..(Len(rpo) + 1) /\ \A i : i \in 1..pos <=> i \in 1..(pos - 1) \/ i = pos
      BY <2>0, <3>1
    <3>3. \A i \in 1..(pos' - 1) : Allowed(rpo[i])
      BY <2>0, <2>2, <2>4, <3>2 DEF Classifying
    <3>4. merges = {rpo[i] : i \in {j \in 1..(pos - 1) : IsMerge(rpo[j])}}
      BY <2>0 DEF Classifying
    <3>5. merges' = {rpo[i] : i \in {j \in 1..pos : IsMerge(rpo[j])}}
      BY <2>2, <3>1, <3>2, <3>4
    <3>6. merges' = {rpo[i] : i \in {j \in 1..(pos' - 1) : IsMerge(rpo[j])'}}
      BY <2>1, <3>1, <3>2, <3>5
    <3>7. \A i \in 1..(pos' - 1) : Allowed(rpo[i])'
      BY <2>1, <3>1, <3>3
    <3>. QED
      BY <3>1, <3>2, <3>6, <3>7 DEF Classifying
  <2>. QED
    BY <2>3, <2>4
<1>4. CASE StartEmit
  <2>0. /\ phase = "classify" /\ pos \notin 1..Len(rpo) /\ Len(rpo) \in Nat /\ UNCHANGED <<fn, rpo, idom>>
        /\ Range(rpo) = {rpo[i] : i \in 1..Len(rpo)} /\ phase' = "emit" /\ merges' = merges
    BY <1>4, SearchedLater DEF StartEmit, At, Later
  <2>1. \A x : (Allowed(x)' <=> Allowed(x)) /\ (IsMerge(x)' <=> IsMerge(x))
    BY <2>0, SameClasses
  <2>2. pos - 1 = Len(rpo)
    BY <2>0 DEF Classifying
  <2>3. \A v \in Range(rpo) : Allowed(v)
    BY <2>0, <2>2 DEF Classifying
  <2>4. merges = {rpo[i] : i \in {j \in 1..Len(rpo) : IsMerge(rpo[j])}}
    BY <2>0, <2>2 DEF Classifying
  <2>5. merges = {v \in Range(rpo) : IsMerge(v)}
    BY <2>0, <2>4
  <2>6. \A v \in Range(rpo') : Allowed(v)'
    BY <2>0, <2>1, <2>3
  <2>7. merges' = {v \in Range(rpo') : IsMerge(v)'}
    BY <2>0, <2>1, <2>5
  <2>. QED
    BY <2>0, <2>6, <2>7 DEF Classifying
<1>5. CASE DoTree \/ NodeWithin \/ EmitBlock \/ FollowBranch \/ WriteMark \/ Finish \/ UNCHANGED vars
  <2>0. /\ phase' = phase \/ (phase = "emit" /\ phase' = "done")
        /\ UNCHANGED <<fn, rpo, idom, pos, merges>>
    BY <1>5 DEF DoTree, NodeWithin, EmitBlock, FollowBranch, WriteMark, Finish, Doing, At, Replace, vars
  <2>1. \A x : (Allowed(x)' <=> Allowed(x)) /\ (IsMerge(x)' <=> IsMerge(x))
    BY <2>0, SameClasses
  <2>2. CASE phase \in {"order", "dominators"}
    BY <2>0, <2>2 DEF Classifying
  <2>3. CASE phase = "classify"
    <3>1. merges = {rpo[i] : i \in {j \in 1..(pos - 1) : IsMerge(rpo[j])}}
      BY <2>3 DEF Classifying
    <3>2. merges' = {rpo[i] : i \in {j \in 1..(pos - 1) : IsMerge(rpo[j])}}'
      BY <2>0, <2>1, <3>1
    <3>3. \A i \in 1..(pos' - 1) : Allowed(rpo[i])'
      BY <2>0, <2>1, <2>3 DEF Classifying
    <3>. QED
      BY <2>0, <2>3, <3>2, <3>3 DEF Classifying
  <2>4. CASE phase \in {"emit", "done"}
    <3>1. merges' = {v \in Range(rpo') : IsMerge(v)'}
      BY <2>0, <2>1, <2>4 DEF Classifying
    <3>2. \A v \in Range(rpo') : Allowed(v)'
      BY <2>0, <2>1, <2>4 DEF Classifying
    <3>. QED
      BY <2>0, <2>4, <3>1, <3>2 DEF Classifying
  <2>5. CASE phase = "irreducible"
    BY <2>0, <2>1, <2>5 DEF Classifying
  <2>. QED
    BY <2>2, <2>3, <2>4, <2>5 DEF SInv, Graph, Phases
<1> QED
  BY <1>1, <1>2, <1>3, <1>4, <1>5 DEF Next

CInv == SInv /\ Classifying

(* So it holds in every state. *)
LEMMA ClassifyingInvariant == Spec => []CInv
<1>1. Init => CInv
  BY SInit DEF CInv, Init, Classifying
<1>2. CInv /\ [Next]_vars => CInv'
  BY SNext, ClassifyingNext DEF CInv
<1> QED
  BY <1>1, <1>2, PTL DEF Spec

(* What the test of a header means for the graph. *)
LEMMA AllowedMeans ==
    ASSUME SInv, phase \in Later, NEW v \in Range(rpo)
    PROVE  Allowed(v) <=>
              \A u \in Range(rpo) : v \in Range(Successors(fn, u)) /\ Place(rpo, v) <= Place(rpo, u)
                                       => u \notin ReachedWithout({v})
<1>1. Exact
  BY SearchedLater
<1>2. \A u \in Range(rpo) : v \in Dominators(u) <=> u \notin ReachedWithout({v})
  BY <1>1 DEF Exact
<1> QED
  BY <1>2, IdxIsPlace DEF Allowed, Retreating, Preds

(* structure() refuses a graph that has a loop with two entries and no     *)
(* other one.                                                              *)
THEOREM RefusalIsExact == Spec => []RefusesExactlyIrreducible
<1>1. CInv => RefusesExactlyIrreducible
  <2>1. ASSUME CInv, phase = "irreducible" PROVE IsIrreducible
    <3>1. PICK v \in Range(rpo) : ~Allowed(v)
      BY <2>1 DEF CInv, Classifying
    <3>2. PICK u \in Range(rpo) : /\ v \in Range(Successors(fn, u)) /\ Place(rpo, v) <= Place(rpo, u)
                                  /\ u \in ReachedWithout({v})
      BY <2>1, <3>1, AllowedMeans DEF CInv, Later
    <3>. QED
      BY <2>1, <3>2, SearchedLater, RefusedIsIrreducible DEF CInv, Later
  <2>2. ASSUME CInv, phase = "emit" PROVE ~IsIrreducible
    <3>. SUFFICES ASSUME IsIrreducible PROVE FALSE
      OBVIOUS
    <3>1. PICK v \in Range(rpo), u \in Range(rpo) :
             /\ v \in Range(Successors(fn, u)) /\ Place(rpo, v) <= Place(rpo, u)
             /\ u \in ReachedWithout({v})
      BY <2>2, SearchedLater, IrreducibleIsRefused DEF CInv, Later
    <3>2. Allowed(v)
      BY <2>2 DEF CInv, Classifying
    <3>. QED
      BY <2>2, <3>1, <3>2, AllowedMeans DEF CInv, Later
  <2>. QED
    BY <2>1, <2>2 DEF RefusesExactlyIrreducible, At
<1> QED
  BY <1>1, ClassifyingInvariant, PTL
-----------------------------------------------------------------------------
(***************************************************************************)
(* The emission.  A call still to make is due to write the code of some    *)
(* labels; its own label is entered once the call node_within is made, and *)
(* left once its code is written and its branches are followed.            *)
(***************************************************************************)
Kinds == {"loop", "block", "end", "code", "return", "if", "else", "br loop", "br block"}
Marks(L) == [k : Kinds, l : L, l2 : {0}]
Calls(L) ==
    {Tree(x) : x \in L} \cup {Task("within", x, ys) : x \in L, ys \in Seq(L)}
    \cup {Write(m) : m \in Marks(L)} \cup {Branch(u, v) : u \in L, v \in L}

(* The branches in whose place the target is written. *)
Links == {e \in Range(rpo) \X Range(rpo) : Place(rpo, e[1]) < Place(rpo, e[2]) /\ e[2] \notin merges}

Due(I, k) ==
    IF k.t = "tree" THEN {k.x}
    ELSE IF k.t = "within" THEN {k.x} \cup Range(k.ys)
    ELSE IF k.t = "branch" THEN IF <<k.ys[1], k.x>> \in I THEN {k.x} ELSE {}
    ELSE IF k.ys[1].k = "code" THEN {k.x} ELSE {}
Entered(k) == IF k.t = "within" \/ (k.t = "write" /\ k.ys[1].k = "code") THEN {k.x} ELSE {}
Left(k) == IF k.t = "write" /\ k.ys[1].k = "code" THEN {k.x} ELSE {}

AllDue(I, ts) == UNION {Due(I, k) : k \in Range(ts)}
AllEntered(ts) == UNION {Entered(k) : k \in Range(ts)}
AllLeft(ts) == UNION {Left(k) : k \in Range(ts)}
Apart(I, ts) == \A i, j \in DOMAIN ts : i # j => Due(I, ts[i]) \cap Due(I, ts[j]) = {}
Holds(I, T, K, ts) == ts \in Seq(T) /\ Range(ts) = K /\ Apart(I, ts)

Distinct(s) == \A i, j \in DOMAIN s : s[i] = s[j] => i = j
Proper(k) == k.t = "within" => k.x \notin Range(k.ys) /\ Distinct(k.ys)

(* What the calls of each kind are due to write. *)
LEMMA TreeParts ==
    /\ \A x : Entered(Tree(x)) = {} /\ Left(Tree(x)) = {} /\ Proper(Tree(x))
    /\ \A I, x : Due(I, Tree(x)) = {x}
BY DEF Due, Entered, Left, Proper, Tree, Task

(* The call of node_within; *)
LEMMA WithinParts ==
    /\ \A x, ys : Entered(Task("within", x, ys)) = {x} /\ Left(Task("within", x, ys)) = {}
    /\ \A I, x, ys : Due(I, Task("within", x, ys)) = {x} \cup Range(ys)
    /\ \A x, ys : Proper(Task("within", x, ys)) <=> x \notin Range(ys) /\ Distinct(ys)
BY DEF Due, Entered, Left, Proper, Task

(* a mark; *)
LEMMA WriteParts ==
    /\ \A c, x : c # "code" => /\ Entered(Write(Mark(c, x))) = {} /\ Left(Write(Mark(c, x))) = {}
                               /\ \A I : Due(I, Write(Mark(c, x))) = {}
    /\ \A x : Entered(Write(Mark("code", x))) = {x} /\ Left(Write(Mark("code", x))) = {x}
    /\ \A I, x : Due(I, Write(Mark("code", x))) = {x}
    /\ \A c, x : Proper(Write(Mark(c, x)))
BY DEF Due, Entered, Left, Proper, Write, Task, Mark

(* a branch. *)
LEMMA BranchParts ==
    /\ \A u, x : Entered(Branch(u, x)) = {} /\ Left(Branch(u, x)) = {} /\ Proper(Branch(u, x))
    /\ \A I, u, x : Due(I, Branch(u, x)) = IF <<u, x>> \in I THEN {x} ELSE {}
BY DEF Due, Entered, Left, Proper, Branch, Task

(* A label is entered before it is left, and due all the while. *)
LEMMA Stages == \A I, k : Left(k) \subseteq Entered(k) /\ Entered(k) \subseteq Due(I, k)
BY DEF Due, Entered, Left

(* The same for a list of calls. *)
LEMMA StagesOfAll ==
    ASSUME NEW I, NEW ts
    PROVE  AllLeft(ts) \subseteq AllEntered(ts) /\ AllEntered(ts) \subseteq AllDue(I, ts)
BY Stages DEF AllLeft, AllEntered, AllDue

(* A call is of one of the four kinds. *)
LEMMA CallIs ==
    ASSUME NEW L, NEW k \in Calls(L)
    PROVE  /\ k.t = "tree" => k.x \in L /\ k = Tree(k.x)
           /\ k.t = "within" => k.x \in L /\ k.ys \in Seq(L) /\ k = Task("within", k.x, k.ys)
           /\ k.t = "write" => \E m \in Marks(L) : k = Write(m) /\ k.ys = <<m>>
           /\ k.t = "branch" => k.x \in L /\ k.ys[1] \in L /\ k = Branch(k.ys[1], k.x)
<1>1. CASE k \in {Tree(x) : x \in L}
  BY <1>1 DEF Tree, Task
<1>2. CASE k \in {Task("within", x, ys) : x \in L, ys \in Seq(L)}
  BY <1>2 DEF Task
<1>3. CASE k \in {Write(m) : m \in Marks(L)}
  BY <1>3 DEF Write, Task
<1>4. CASE k \in {Branch(u, v) : u \in L, v \in L}
  BY <1>4 DEF Branch, Task
<1> QED
  BY <1>1, <1>2, <1>3, <1>4 DEF Calls

(* And what is built as one is one. *)
LEMMA AreCalls ==
    ASSUME NEW L, NEW x \in L
    PROVE  /\ Tree(x) \in Calls(L)
           /\ \A ys \in Seq(L) : Task("within", x, ys) \in Calls(L)
           /\ \A c \in Kinds : Write(Mark(c, x)) \in Calls(L)
           /\ \A u \in L : Branch(u, x) \in Calls(L)
<1>1. \A c \in Kinds : Mark(c, x) \in Marks(L)
  BY DEF Mark, Marks
<1> QED
  BY <1>1 DEF Calls

(* A list of calls and its parts. *)
LEMMA Joined ==
    ASSUME NEW T, NEW a \in Seq(T), NEW b \in Seq(T)
    PROVE  /\ a \o b \in Seq(T) /\ Range(a \o b) = Range(a) \cup Range(b)
           /\ \A I : Apart(I, a) /\ Apart(I, b) /\ AllDue(I, a) \cap AllDue(I, b) = {} => Apart(I, a \o b)
<1>0. PICK n \in Nat, m \in Nat : n = Len(a) /\ m = Len(b)
  OBVIOUS
<1>1. DOMAIN a = 1..n /\ DOMAIN b = 1..m
  BY <1>0
<1>2. /\ a \o b \in Seq(T) /\ Len(a \o b) = n + m
      /\ \A i \in 1..(n + m) : (a \o b)[i] = IF i <= n THEN a[i] ELSE b[i - n]
  BY <1>0, ConcatProperties
<1>3. PICK c : c = a \o b
  OBVIOUS
<1>4. c \in Seq(T) /\ DOMAIN c = 1..(n + m)
  BY <1>2, <1>3
<1>5. \A i \in 1..(n + m) : /\ i <= n => i \in 1..n /\ c[i] = a[i]
                            /\ ~(i <= n) => i - n \in 1..m /\ c[i] = b[i - n]
  BY <1>0, <1>2, <1>3
<1>6. \A i \in 1..n : i \in 1..(n + m) /\ c[i] = a[i]
  BY <1>0, <1>5
<1>7. \A i \in 1..m : i + n \in 1..(n + m) /\ c[i + n] = b[i]
  <2>. SUFFICES ASSUME NEW i \in 1..m PROVE i + n \in 1..(n + m) /\ c[i + n] = b[i]
    OBVIOUS
  <2>1. i + n \in 1..(n + m) /\ ~(i + n <= n) /\ (i + n) - n = i
    BY <1>0
  <2>. QED
    BY <1>5, <2>1
<1>8. Range(c) = Range(a) \cup Range(b)
  <2>1. ASSUME NEW i \in 1..(n + m) PROVE c[i] \in Range(a) \cup Range(b)
    BY <1>1, <1>5 DEF Range
  <2>2. \A i \in 1..n : a[i] \in Range(c)
    BY <1>4, <1>6 DEF Range
  <2>3. \A i \in 1..m : b[i] \in Range(c)
    BY <1>4, <1>7 DEF Range
  <2>4. Range(c) \subseteq Range(a) \cup Range(b)
    BY <1>4, <2>1 DEF Range
  <2>. QED
    BY <1>1, <2>2, <2>3, <2>4 DEF Range
<1>9. ASSUME NEW I, Apart(I, a), Apart(I, b), AllDue(I, a) \cap AllDue(I, b) = {} PROVE Apart(I, c)
  <2>1. ASSUME NEW i \in 1..n, NEW j \in 1..m PROVE Due(I, a[i]) \cap Due(I, b[j]) = {}
    <3>1. Due(I, a[i]) \subseteq AllDue(I, a) /\ Due(I, b[j]) \subseteq AllDue(I, b)
      BY <1>1 DEF AllDue, Range
    <3>. QED
      BY <1>9, <3>1
  <2>2. ASSUME NEW i \in 1..(n + m), NEW j \in 1..(n + m), i # j
        PROVE  Due(I, c[i]) \cap Due(I, c[j]) = {}
    <3>1. CASE i <= n /\ j <= n
      BY <1>1, <1>5, <1>9, <2>2, <3>1 DEF Apart
    <3>2. CASE i <= n /\ ~(j <= n)
      BY <1>5, <2>1, <3>2
    <3>3. CASE ~(i <= n) /\ j <= n
      BY <1>5, <2>1, <3>3
    <3>4. CASE ~(i <= n) /\ ~(j <= n)
      <4>1. i - n \in 1..m /\ j - n \in 1..m /\ c[i] = b[i - n] /\ c[j] = b[j - n] /\ i - n # j - n
        BY <1>0, <1>5, <2>2, <3>4
      <4>. QED
        BY <1>1, <1>9, <4>1 DEF Apart
    <3>. QED
      BY <3>1, <3>2, <3>3, <3>4
  <2>. QED
    BY <1>4, <2>2 DEF Apart
<1> QED
  BY <1>2, <1>3, <1>8, <1>9

(* The part of it that names no links. *)
LEMMA JoinedLists ==
    ASSUME NEW T, NEW a \in Seq(T), NEW b \in Seq(T)
    PROVE  a \o b \in Seq(T) /\ Range(a \o b) = Range(a) \cup Range(b)
BY Joined, Zenon

(* A list of one call. *)
LEMMA One ==
    ASSUME NEW T, NEW k \in T
    PROVE  <<k>> \in Seq(T) /\ Range(<<k>>) = {k} /\ \A I : Apart(I, <<k>>)
<1>1. PICK s : s = <<k>>
  OBVIOUS
<1>2. s \in Seq(T) /\ DOMAIN s = {1} /\ s[1] = k
  BY <1>1
<1>3. Range(s) = {k} /\ \A I : Apart(I, s)
  BY <1>2 DEF Range, Apart
<1> QED
  BY <1>1, <1>2, <1>3

(* What it is due to write. *)
LEMMA AllOfOne ==
    ASSUME NEW k, NEW c, Range(c) = {k}
    PROVE  AllEntered(c) = Entered(k) /\ AllLeft(c) = Left(k) /\ \A I : AllDue(I, c) = Due(I, k)
BY DEF AllDue, AllEntered, AllLeft

(* The call at hand and those after it share no label. *)
LEMMA FirstCall ==
    ASSUME NEW I, NEW T, NEW ts \in Seq(T), ts # <<>>
    PROVE  /\ Head(ts) \in T /\ Tail(ts) \in Seq(T) /\ Range(ts) = {Head(ts)} \cup Range(Tail(ts))
           /\ Apart(I, ts) => Apart(I, Tail(ts)) /\ Due(I, Head(ts)) \cap AllDue(I, Tail(ts)) = {}
<1>0. PICK n \in Nat \ {0} : n = Len(ts)
  OBVIOUS
<1>1. PICK r : r = Tail(ts)
  OBVIOUS
<1>2. /\ r \in Seq(T) /\ DOMAIN r = 1..(n - 1) /\ DOMAIN ts = 1..n /\ ts[1] = Head(ts) /\ ts[1] \in T
      /\ \A i \in 1..(n - 1) : r[i] = ts[i + 1]
  BY <1>0, <1>1
<1>4. ASSUME Apart(I, ts) PROVE Apart(I, r) /\ Due(I, ts[1]) \cap AllDue(I, r) = {}
  <2>1. ASSUME NEW i \in 1..(n - 1), NEW j \in 1..(n - 1), i # j PROVE Due(I, r[i]) \cap Due(I, r[j]) = {}
    <3>1. i + 1 \in 1..n /\ j + 1 \in 1..n /\ i + 1 # j + 1
      BY <1>0, <2>1
    <3>. QED
      BY <1>2, <1>4, <3>1 DEF Apart
  <2>2. ASSUME NEW i \in 1..(n - 1) PROVE Due(I, ts[1]) \cap Due(I, r[i]) = {}
    <3>1. i + 1 \in 1..n /\ 1 \in 1..n /\ i + 1 # 1
      BY <1>0
    <3>. QED
      BY <1>2, <1>4, <3>1 DEF Apart
  <2>3. Apart(I, r)
    BY <1>2, <2>1 DEF Apart
  <2>. QED
    BY <1>2, <2>2, <2>3 DEF AllDue, Range
<1>5. Head(ts) = ts[1]
  BY <1>2
<1>6. Head(ts) \in T /\ Tail(ts) \in Seq(T)
  BY <1>1, <1>2, <1>5
<1>7. Range(ts) = {Head(ts)} \cup Range(Tail(ts))
  BY HeadAndTail
<1>8. Apart(I, ts) => Apart(I, Tail(ts)) /\ Due(I, Head(ts)) \cap AllDue(I, Tail(ts)) = {}
  BY <1>1, <1>4, <1>5
<1> QED
  BY <1>6, <1>7, <1>8

(* How far the emission is: what is written or due, what is entered, what  *)
(* is left.  A label that merges is due once its dominator is entered, any *)
(* other once the branch to it is followed.                                *)
CodeAt(tx) == {i \in DOMAIN tx : tx[i].k = "code"}
Coded(tx) == {tx[i].l : i \in CodeAt(tx)}
Reached(I, ts, tx) == AllDue(I, ts) \cup Coded(tx)
Opened(ts, tx) == AllEntered(ts) \cup Coded(tx)
Done(ts, tx) == AllLeft(ts) \cup Coded(tx)
Ready(I, open, done, v) ==
    IF v \in merges THEN idom[v] \in open
    ELSE \E u \in done : <<u, v>> \in I /\ v \in Range(Successors(fn, u))

Listed(I, ts) ==
    ts \in Seq(Calls(Range(rpo))) /\ Apart(I, ts) /\ \A k \in Range(ts) : Proper(k)
Emission(I, ts, tx) ==
    /\ Listed(I, ts) /\ AllDue(I, ts) \cap Coded(tx) = {}
    /\ tx \in Seq(Marks(Range(rpo))) /\ \A i, j \in CodeAt(tx) : tx[i].l = tx[j].l => i = j
    /\ rpo[1] \in Reached(I, ts, tx)
    /\ \A v \in Range(rpo) \ {rpo[1]} :
          v \in Reached(I, ts, tx) <=> Ready(I, Opened(ts, tx), Done(ts, tx), v)

Emitting ==
    /\ phase = "done" => tasks = <<>>
    /\ phase \in {"emit", "done"} => Emission(Links, tasks, text)
    /\ phase \in {"order", "dominators", "classify"} => text = <<>>

(* A call makes others, which are due to write what it was due to write    *)
(* and labels F that were not reached before and now are.                  *)
LEMMA Continues ==
    ASSUME NEW I, NEW ts, NEW tx, Emission(I, ts, tx), ts # <<>>, NEW new, Listed(I, new),
           NEW F, NEW E, NEW D,
           AllDue(I, new) = Due(I, Head(ts)) \cup F, F \cap Reached(I, ts, tx) = {},
           AllEntered(new) = Entered(Head(ts)) \cup E, AllLeft(new) = Left(Head(ts)) \cup D,
           \A v \in Range(rpo) \ {rpo[1]} :
               Ready(I, Opened(ts, tx) \cup E, Done(ts, tx) \cup D, v)
                   <=> Ready(I, Opened(ts, tx), Done(ts, tx), v) \/ v \in F
    PROVE  Emission(I, new \o Tail(ts), tx)
<1>0. PICK T : T = Calls(Range(rpo))
  OBVIOUS
<1>1. PICK k, r, t2 : k = Head(ts) /\ r = Tail(ts) /\ t2 = new \o r
  OBVIOUS
<1>2. ts \in Seq(T) /\ new \in Seq(T) /\ Apart(I, ts) /\ Apart(I, new)
  BY <1>0 DEF Emission, Listed
<1>3. /\ r \in Seq(T) /\ Range(ts) = {k} \cup Range(r)
      /\ Apart(I, r) /\ Due(I, k) \cap AllDue(I, r) = {}
  BY <1>1, <1>2, FirstCall
<1>4. /\ AllDue(I, ts) = Due(I, k) \cup AllDue(I, r)
      /\ AllEntered(ts) = Entered(k) \cup AllEntered(r)
      /\ AllLeft(ts) = Left(k) \cup AllLeft(r)
  BY <1>3 DEF AllDue, AllEntered, AllLeft
<1>5. AllDue(I, new) \cap AllDue(I, r) = {}
  BY <1>1, <1>3, <1>4 DEF Reached
<1>6. t2 \in Seq(T) /\ Range(t2) = Range(new) \cup Range(r) /\ Apart(I, t2)
  <2>1. new \o r \in Seq(T) /\ Range(new \o r) = Range(new) \cup Range(r)
    BY <1>2, <1>3, JoinedLists
  <2>2. Apart(I, new \o r)
    BY <1>2, <1>3, <1>5, Joined
  <2>. QED
    BY <1>1, <2>1, <2>2
<1>7. /\ AllDue(I, t2) = AllDue(I, new) \cup AllDue(I, r)
      /\ AllEntered(t2) = AllEntered(new) \cup AllEntered(r)
      /\ AllLeft(t2) = AllLeft(new) \cup AllLeft(r)
  BY <1>6 DEF AllDue, AllEntered, AllLeft
<1>8. Listed(I, t2)
  BY <1>0, <1>3, <1>6 DEF Emission, Listed
<1>9. AllDue(I, t2) \cap Coded(tx) = {}
  BY <1>1, <1>4, <1>7 DEF Emission, Reached
<1>10. /\ Reached(I, t2, tx) = Reached(I, ts, tx) \cup F
       /\ Opened(t2, tx) = Opened(ts, tx) \cup E
       /\ Done(t2, tx) = Done(ts, tx) \cup D
  BY <1>1, <1>4, <1>7 DEF Reached, Opened, Done
<1>11. \A v \in Range(rpo) \ {rpo[1]} :
          v \in Reached(I, t2, tx) <=> Ready(I, Opened(t2, tx), Done(t2, tx), v)
  BY <1>10 DEF Emission
<1>12. Emission(I, t2, tx)
  BY <1>8, <1>9, <1>10, <1>11 DEF Emission
<1> QED
  BY <1>1, <1>12

(* The same when it reaches nothing new. *)
LEMMA ContinuesInPlace ==
    ASSUME NEW I, NEW ts, NEW tx, Emission(I, ts, tx), ts # <<>>, NEW new, Listed(I, new),
           AllDue(I, new) = Due(I, Head(ts)),
           AllEntered(new) = Entered(Head(ts)), AllLeft(new) = Left(Head(ts))
    PROVE  Emission(I, new \o Tail(ts), tx)
<1>1. /\ AllDue(I, new) = Due(I, Head(ts)) \cup {} /\ {} \cap Reached(I, ts, tx) = {}
      /\ AllEntered(new) = Entered(Head(ts)) \cup {} /\ AllLeft(new) = Left(Head(ts)) \cup {}
      /\ Opened(ts, tx) \cup {} = Opened(ts, tx) /\ Done(ts, tx) \cup {} = Done(ts, tx)
  OBVIOUS
<1>2. \A v \in Range(rpo) \ {rpo[1]} :
               Ready(I, Opened(ts, tx) \cup {}, Done(ts, tx) \cup {}, v)
                   <=> Ready(I, Opened(ts, tx), Done(ts, tx), v) \/ v \in {}
  BY <1>1
<1> QED
  BY <1>1, <1>2, Continues

(* What the call at hand is due to write is reached, and not entered       *)
(* before it is.                                                           *)
LEMMA CallAtHand ==
    ASSUME NEW I, NEW ts, NEW tx, Emission(I, ts, tx), ts # <<>>, NEW x \in Due(I, Head(ts))
    PROVE  /\ Head(ts) \in Calls(Range(rpo)) /\ Proper(Head(ts))
           /\ x \notin Entered(Head(ts)) => x \notin Opened(ts, tx)
           /\ x \notin Left(Head(ts)) => x \notin Done(ts, tx)
<1>0. PICK k, r : k = Head(ts) /\ r = Tail(ts)
  OBVIOUS
<1>1. ts \in Seq(Calls(Range(rpo))) /\ Apart(I, ts) /\ AllDue(I, ts) \cap Coded(tx) = {}
  BY DEF Emission, Listed
<1>2. /\ k \in Calls(Range(rpo)) /\ Range(ts) = {k} \cup Range(r) /\ Due(I, k) \cap AllDue(I, r) = {}
  BY <1>0, <1>1, FirstCall
<1>3. /\ AllDue(I, ts) = Due(I, k) \cup AllDue(I, r)
      /\ AllEntered(ts) = Entered(k) \cup AllEntered(r)
      /\ AllLeft(ts) = Left(k) \cup AllLeft(r)
  BY <1>2 DEF AllDue, AllEntered, AllLeft
<1>4. AllEntered(r) \subseteq AllDue(I, r) /\ AllLeft(r) \subseteq AllDue(I, r)
  BY StagesOfAll
<1>5. x \notin AllDue(I, r) /\ x \notin Coded(tx)
  BY <1>0, <1>1, <1>2, <1>3
<1>6. k \in Range(ts)
  BY <1>2
<1> QED
  BY <1>0, <1>2, <1>3, <1>4, <1>5, <1>6 DEF Opened, Done, Emission, Listed

(* A label that does not merge has one forward edge. *)
LEMMA OneForward ==
    ASSUME SInv, phase \in Later, NEW v \in Range(rpo), ~IsMerge(v),
           NEW e1 \in Forward(v), NEW e2 \in Forward(v)
    PROVE  e1 = e2
<1>1. Forward(v) \subseteq Range(rpo) \X {1, 2}
  BY DEF Forward, InEdges, Preds
<1>2. IsFiniteSet(Range(rpo))
  BY SearchedLater, ListedFinite
<1>3. IsFiniteSet({1, 2})
  <2>1. {1, 2} = 1..2 /\ 1 \in Int /\ 2 \in Int
    OBVIOUS
  <2>. QED
    BY <2>1, FS_Interval
<1>4. IsFiniteSet(Range(rpo) \X {1, 2})
  BY <1>2, <1>3, FS_Product
<1>5. IsFiniteSet(Forward(v))
  BY <1>1, <1>4, FS_Subset
<1>6. Cardinality(Forward(v)) \in Nat
  BY <1>5, FS_CardinalityType
<1>7. ~(Cardinality(Forward(v)) > 1)
  BY <1>6 DEF IsMerge
<1> QED
  BY <1>5, <1>7, TwoOfThem

(* The branches that are inlined: there is one to each label at most.      *)
LEMMA ForwardLinks ==
    ASSUME CInv, phase = "emit", NEW u \in Range(rpo), NEW v \in Range(rpo), <<u, v>> \in Links,
           NEW i \in DOMAIN Successors(fn, u), Successors(fn, u)[i] = v
    PROVE  <<u, i>> \in Forward(v) /\ ~IsMerge(v)
<1>1. IsFunction(fn) /\ CheckCfg(fn) = {} /\ Range(rpo) \subseteq Labels(fn)
  BY SearchedLater, SearchedFacts DEF CInv, Later
<1>2. Successors(fn, u) \in Seq(Labels(fn)) /\ Len(Successors(fn, u)) \in 0..2
  BY <1>1, SuccessorsAreLabels, AtMostTwoSuccessors
<1>3. i \in {1, 2}
  BY <1>2
<1>4. u \in Preds(v)
  BY DEF Preds, Range
<1>5. Place(rpo, u) < Place(rpo, v) /\ v \notin merges
  BY DEF Links
<1>6. <<u, i>> \in InEdges(v)
  BY <1>3, <1>4 DEF InEdges
<1>7. <<u, i>> \in Forward(v)
  BY <1>5, <1>6, IdxIsPlace DEF Forward
<1>8. ~IsMerge(v)
  BY <1>5 DEF CInv, Classifying
<1> QED
  BY <1>7, <1>8

(* So a label is inlined at one branch at most. *)
LEMMA OneLink ==
    ASSUME CInv, phase = "emit", NEW v \in Range(rpo),
           NEW u \in Range(rpo), <<u, v>> \in Links, NEW i \in DOMAIN Successors(fn, u), Successors(fn, u)[i] = v,
           NEW w \in Range(rpo), <<w, v>> \in Links, NEW j \in DOMAIN Successors(fn, w), Successors(fn, w)[j] = v
    PROVE  u = w /\ i = j
<1>1. <<u, i>> \in Forward(v) /\ <<w, j>> \in Forward(v) /\ ~IsMerge(v)
  BY ForwardLinks
<1>2. <<u, i>> = <<w, j>>
  BY <1>1, OneForward DEF CInv, Later
<1> QED
  BY <1>2

(* do_tree: the children that merge, none of them twice. *)
LEMMA Children ==
    ASSUME CInv, phase = "emit", NEW x \in Range(rpo)
    PROVE  /\ MergeChildren(x) \in Seq(Range(rpo)) /\ Distinct(MergeChildren(x))
           /\ Range(MergeChildren(x)) = {v \in Range(rpo) \ {rpo[1]} : v \in merges /\ idom[v] = x}
           /\ x \notin Range(MergeChildren(x))
<1>0. /\ Listing(rpo) /\ IsTree(rpo, idom) /\ DOMAIN idom = Range(rpo)
      /\ DOMAIN rpo = 1..Len(rpo) /\ Len(rpo) \in Nat /\ Range(rpo) = {rpo[i] : i \in 1..Len(rpo)}
      /\ rpo \in Seq(Labels(fn))
  BY SearchedLater DEF CInv, Later, SInv, Searching
<1>1. PICK K : K = Merging(x)
  OBVIOUS
<1>2. K \in SUBSET (1..Len(rpo)) /\ Positions(K, rpo)
  BY <1>0, <1>1 DEF Merging, Positions
<1>3. PICK c, n, s : c = Kept(rpo, K) /\ n = Cardinality(K) /\ s = MergeChildren(x)
  OBVIOUS
<1>4. /\ n \in Nat /\ Len(c) = n /\ DOMAIN c = 1..n
      /\ \A j \in 1..n : Nth(K, j) \in K /\ Nth(K, j) \in 1..Len(rpo) /\ c[j] = rpo[Nth(K, j)]
      /\ \A p \in K : \E j \in 1..n : Nth(K, j) = p
  <2>0. Positions(K, rpo)
    BY <1>2
  <2>1. Cardinality(K) \in Nat /\ Len(Kept(rpo, K)) = Cardinality(K) /\ DOMAIN Kept(rpo, K) = 1..Cardinality(K)
    BY <2>0, KeptFacts
  <2>2. \A j \in 1..Cardinality(K) :
              Nth(K, j) \in K /\ Nth(K, j) \in 1..Len(rpo) /\ Kept(rpo, K)[j] = rpo[Nth(K, j)]
    BY <1>2, <2>1, NthListsAll, <1>0 DEF Kept
  <2>3. \A p \in K : \E j \in 1..Cardinality(K) : Nth(K, j) = p
    BY <2>0, KeptOrder
  <2>. QED
    BY <1>3, <2>1, <2>2, <2>3
<1>5. \A i, j \in 1..n : i < j => Nth(K, i) < Nth(K, j)
  BY <1>0, <1>2, <1>3, NthListsAll
<1>6. s = [i \in 1..n |-> c[n - i + 1]]
  <2>1. s = Reverse(c)
    BY <1>1, <1>3 DEF MergeChildren
  <2>. QED
    BY <1>4, <2>1 DEF Reverse
<1>7. DOMAIN s = 1..n /\ \A i \in 1..n : n - i + 1 \in 1..n /\ s[i] = c[n - i + 1]
  BY <1>4, <1>6
<1>8. ASSUME NEW i \in 1..n
      PROVE  /\ s[i] \in Range(rpo) /\ s[i] # rpo[1] /\ s[i] \in merges /\ idom[s[i]] = x
             /\ s[i] = rpo[Nth(K, n - i + 1)]
  <2>1. PICK p : p = Nth(K, n - i + 1)
    OBVIOUS
  <2>2. p \in K /\ p \in 1..Len(rpo) /\ s[i] = rpo[p]
    BY <1>4, <1>7, <2>1
  <2>3. p # 1 /\ idom[rpo[p]] = x /\ rpo[p] \in merges
    BY <1>1, <2>2 DEF Merging
  <2>4. rpo[p] # rpo[1] /\ rpo[p] \in Range(rpo)
    BY <1>0, <2>2, <2>3 DEF Listing
  <2>. QED
    BY <2>1, <2>2, <2>3, <2>4
<1>9. ASSUME NEW v \in Range(rpo) \ {rpo[1]}, v \in merges, idom[v] = x PROVE \E i \in 1..n : s[i] = v
  <2>1. PICK p \in 1..Len(rpo) : rpo[p] = v
    BY <1>0
  <2>2. p \in K
    <3>1. p # 1
      BY <1>9, <2>1
    <3>2. p \in 2..Len(rpo)
      BY <1>0, <2>1, <3>1
    <3>. QED
      BY <1>1, <1>9, <2>1, <3>2 DEF Merging
  <2>3. PICK j \in 1..n : Nth(K, j) = p
    BY <1>4, <2>2
  <2>4. n - j + 1 \in 1..n /\ n - (n - j + 1) + 1 = j
    BY <1>4
  <2>5. s[n - j + 1] = c[j]
    BY <1>7, <2>4
  <2>6. s[n - j + 1] = v
    BY <1>4, <2>1, <2>3, <2>5
  <2>. QED
    BY <2>4, <2>6
<1>10. Range(s) = {v \in Range(rpo) \ {rpo[1]} : v \in merges /\ idom[v] = x}
  BY <1>7, <1>8, <1>9 DEF Range
<1>11. Distinct(s)
  <2>. SUFFICES ASSUME NEW i \in 1..n, NEW j \in 1..n, s[i] = s[j], i # j PROVE FALSE
    BY <1>7 DEF Distinct
  <2>1. PICK a \in 1..n, b \in 1..n : a = n - i + 1 /\ b = n - j + 1
    BY <1>7
  <2>2. a # b
    BY <1>4, <2>1
  <2>3. Nth(K, a) \in 1..Len(rpo) /\ Nth(K, b) \in 1..Len(rpo) /\ rpo[Nth(K, a)] = rpo[Nth(K, b)]
    BY <1>4, <1>8, <2>1
  <2>4. Nth(K, a) = Nth(K, b)
    BY <1>0, <2>3 DEF Listing
  <2>5. a < b \/ b < a
    BY <1>4, <2>2
  <2>. QED
    BY <1>0, <1>5, <2>3, <2>4, <2>5
<1>12. s \in Seq(Range(rpo))
  <2>1. s \in [1..n -> Range(rpo)]
    BY <1>6, <1>7, <1>8
  <2>. QED
    BY <1>4, <2>1
<1>13. x \notin Range(s)
  <2>. SUFFICES ASSUME x \in Range(s) PROVE FALSE
    OBVIOUS
  <2>1. x \in Range(rpo) /\ x # rpo[1] /\ idom[x] = x
    BY <1>10
  <2>2. Place(rpo, x) < Place(rpo, x) /\ Place(rpo, x) \in Nat
    BY <1>0, <2>1, PlaceOf DEF IsTree
  <2>. QED
    BY <2>2
<1> QED
  BY <1>3, <1>10, <1>11, <1>12, <1>13

(* The emission depends on the graph, the tree and the merges alone. *)
LEMMA SameEmission ==
    ASSUME UNCHANGED <<fn, rpo, idom, merges>>, Emission(Links, tasks', text')
    PROVE  Emission(Links, tasks, text)'
<1>1. fn' = fn /\ rpo' = rpo /\ idom' = idom /\ merges' = merges
  OBVIOUS
<1>2. Links' = Links
  BY <1>1 DEF Links
<1>3. \A I, open, done, v : Ready(I, open, done, v)' <=> Ready(I, open, done, v)
  BY <1>1 DEF Ready
<1>4. Listed(Links, tasks') => Listed(Links, tasks)'
  BY <1>1, <1>2 DEF Listed
<1> QED
  BY <1>1, <1>2, <1>3, <1>4 DEF Emission

(* No call is due to write anything. *)
LEMMA AllOfNone == \A I : AllDue(I, <<>>) = {} /\ AllEntered(<<>>) = {} /\ AllLeft(<<>>) = {} /\ Apart(I, <<>>)
<1>1. PICK s : s = <<>>
  OBVIOUS
<1>2. DOMAIN s = {}
  BY <1>1
<1>3. Range(s) = {}
  BY <1>2 DEF Range
<1>4. \A I : AllDue(I, s) = {} /\ AllEntered(s) = {} /\ AllLeft(s) = {} /\ Apart(I, s)
  BY <1>2, <1>3 DEF AllDue, AllEntered, AllLeft, Apart
<1> QED
  BY <1>1, <1>4

(* The emission starts with the tree of the entry. *)
LEMMA EStart ==
    ASSUME CInv, phase = "classify", text = <<>>, StartEmit
    PROVE  Emission(Links, tasks', text')
<1>0. Listing(rpo) /\ rpo[1] \in Range(rpo) /\ rpo' = rpo
  BY SearchedLater, PlaceOf DEF CInv, Later, StartEmit
<1>1. PICK ts, k : ts = tasks' /\ k = Tree(rpo[1])
  OBVIOUS
<1>2. k \in Calls(Range(rpo)) /\ ts = <<k>> /\ text' = <<>>
  BY <1>0, <1>1, AreCalls DEF StartEmit
<1>3. ts \in Seq(Calls(Range(rpo))) /\ Range(ts) = {k} /\ Apart(Links, ts)
  BY <1>2, One
<1>4. /\ AllDue(Links, ts) = {rpo[1]} /\ AllEntered(ts) = {} /\ AllLeft(ts) = {} /\ Proper(k)
  <2>1. Due(Links, k) = {rpo[1]} /\ Entered(k) = {} /\ Left(k) = {} /\ Proper(k)
    BY <1>1, TreeParts
  <2>2. AllDue(Links, ts) = Due(Links, k) /\ AllEntered(ts) = Entered(k) /\ AllLeft(ts) = Left(k)
    BY <1>3, AllOfOne
  <2>. QED
    BY <2>1, <2>2
<1>5. PICK tx : tx = text'
  OBVIOUS
<1>6. tx \in Seq(Marks(Range(rpo))) /\ CodeAt(tx) = {} /\ Coded(tx) = {}
  <2>1. DOMAIN tx = {} /\ tx \in Seq(Marks(Range(rpo)))
    BY <1>2, <1>5
  <2>2. CodeAt(tx) = {}
    BY <2>1 DEF CodeAt
  <2>. QED
    BY <2>1, <2>2 DEF Coded
<1>7. Reached(Links, ts, tx) = {rpo[1]} /\ Opened(ts, tx) = {} /\ Done(ts, tx) = {}
  BY <1>4, <1>6 DEF Reached, Opened, Done
<1>8. \A v : ~Ready(Links, {}, {}, v)
  BY DEF Ready
<1>9. Listed(Links, ts)
  BY <1>3, <1>4 DEF Listed
<1>10. Emission(Links, ts, tx)
  BY <1>4, <1>6, <1>7, <1>8, <1>9 DEF Emission
<1> QED
  BY <1>1, <1>5, <1>10

(* A call between two marks. *)
LEMMA Bracketed ==
    ASSUME NEW I, NEW T, NEW a \in T, NEW b \in T, NEW c \in T, Due(I, a) = {}, Due(I, c) = {},
           NEW s, s = <<a>> \o <<b>> \o <<c>>
    PROVE  Holds(I, T, {a, b, c}, s)
<1>1. PICK x, y, z, xy : x = <<a>> /\ y = <<b>> /\ z = <<c>> /\ xy = x \o y /\ s = xy \o z
  OBVIOUS
<1>2. /\ x \in Seq(T) /\ Range(x) = {a} /\ Apart(I, x)
      /\ y \in Seq(T) /\ Range(y) = {b} /\ Apart(I, y)
      /\ z \in Seq(T) /\ Range(z) = {c} /\ Apart(I, z)
  BY <1>1, One
<1>3. AllDue(I, x) = {} /\ AllDue(I, z) = {}
  BY <1>2, AllOfOne
<1>4. xy \in Seq(T) /\ Range(xy) = {a, b} /\ Apart(I, xy)
  <2>1. AllDue(I, x) \cap AllDue(I, y) = {}
    BY <1>3
  <2>2. x \o y \in Seq(T) /\ Range(x \o y) = Range(x) \cup Range(y)
    <3>1. x \in Seq(T) /\ y \in Seq(T)
      BY <1>2
    <3>. QED
      BY <3>1, JoinedLists
  <2>3. Apart(I, x \o y)
    BY <1>2, <2>1, Joined
  <2>. QED
    BY <1>1, <1>2, <2>2, <2>3
<1>5. s \in Seq(T) /\ Range(s) = {a, b, c} /\ Apart(I, s)
  <2>1. AllDue(I, xy) \cap AllDue(I, z) = {}
    BY <1>3
  <2>2. xy \o z \in Seq(T) /\ Range(xy \o z) = Range(xy) \cup Range(z)
    BY <1>2, <1>4, JoinedLists
  <2>3. Apart(I, xy \o z)
    BY <1>2, <1>4, <2>1, Joined
  <2>. QED
    BY <1>1, <1>2, <1>4, <2>2, <2>3
<1> QED
  BY <1>5 DEF Holds

(* do_tree makes the merging children due. *)
LEMMA EDoTree ==
    ASSUME CInv, phase = "emit", Emission(Links, tasks, text), DoTree
    PROVE  Emission(Links, tasks', text')
<1>0. PICK k, x, ys, w : k = Head(tasks) /\ x = k.x /\ ys = MergeChildren(x) /\ w = Task("within", x, ys)
  OBVIOUS
<1>1. tasks # <<>> /\ k.t = "tree" /\ x = X /\ tasks \in Seq(Calls(Range(rpo))) /\ text' = text
  BY <1>0 DEF DoTree, Doing, X, Replace, Emission, Listed
<1>2. k \in Calls(Range(rpo))
  BY <1>0, <1>1, FirstCall
<1>3. x \in Range(rpo) /\ k = Tree(x)
  BY <1>0, <1>1, <1>2, CallIs
<1>4. Due(Links, k) = {x} /\ Entered(k) = {} /\ Left(k) = {}
  BY <1>3, TreeParts
<1>5. x \notin Opened(tasks, text)
  BY <1>0, <1>1, <1>4, CallAtHand
<1>6. /\ ys \in Seq(Range(rpo)) /\ Distinct(ys) /\ x \notin Range(ys)
      /\ Range(ys) = {v \in Range(rpo) \ {rpo[1]} : v \in merges /\ idom[v] = x}
  BY <1>0, <1>3, Children
<1>7. /\ w \in Calls(Range(rpo)) /\ Proper(w) /\ Due(Links, w) = {x} \cup Range(ys)
      /\ Entered(w) = {x} /\ Left(w) = {}
  <2>1. w \in Calls(Range(rpo))
    BY <1>0, <1>3, <1>6, AreCalls
  <2>. QED
    BY <1>0, <1>6, <2>1, WithinParts
<1>8. PICK new : /\ new = IF x \in headers THEN <<Write(Mark("loop", x))>> \o <<w>> \o <<Write(Mark("end", x))>>
                          ELSE <<w>>
                 /\ tasks' = new \o Tail(tasks)
  BY <1>0, <1>1 DEF DoTree, Replace
<1>9. /\ Listed(Links, new) /\ AllDue(Links, new) = {x} \cup Range(ys)
      /\ AllEntered(new) = {x} /\ AllLeft(new) = {}
  <2>1. CASE x \notin headers
    <3>1. new = <<w>>
      BY <1>8, <2>1
    <3>2. new \in Seq(Calls(Range(rpo))) /\ Range(new) = {w} /\ Apart(Links, new)
      BY <1>7, <3>1, One
    <3>. QED
      BY <1>7, <3>2, AllOfOne DEF Listed
  <2>2. CASE x \in headers
    <3>1. PICK a, c : a = Write(Mark("loop", x)) /\ c = Write(Mark("end", x))
      OBVIOUS
    <3>2. /\ a \in Calls(Range(rpo)) /\ Due(Links, a) = {} /\ Entered(a) = {} /\ Left(a) = {} /\ Proper(a)
          /\ c \in Calls(Range(rpo)) /\ Due(Links, c) = {} /\ Entered(c) = {} /\ Left(c) = {} /\ Proper(c)
      <4>1. "loop" \in Kinds /\ "end" \in Kinds
        BY DEF Kinds
      <4>2. a \in Calls(Range(rpo)) /\ c \in Calls(Range(rpo))
        BY <1>3, <3>1, <4>1, AreCalls
      <4>. QED
        BY <3>1, <4>2, WriteParts
    <3>3. new = <<a>> \o <<w>> \o <<c>>
      BY <1>8, <2>2, <3>1
    <3>4. new \in Seq(Calls(Range(rpo))) /\ Range(new) = {a, w, c} /\ Apart(Links, new)
      <4>1. w \in Calls(Range(rpo)) /\ a \in Calls(Range(rpo)) /\ c \in Calls(Range(rpo))
        BY <1>7, <3>2
      <4>2. Due(Links, a) = {} /\ Due(Links, c) = {}
        BY <3>2
      <4>3. Holds(Links, Calls(Range(rpo)), {a, w, c}, new)
        BY <3>3, <4>1, <4>2, Bracketed
      <4>. QED
        BY <4>3 DEF Holds
    <3>5. Listed(Links, new)
      BY <1>7, <3>2, <3>4 DEF Listed
    <3>. QED
      BY <1>7, <3>2, <3>4, <3>5 DEF AllDue, AllEntered, AllLeft
  <2>. QED
    BY <2>1, <2>2
<1>10. Range(ys) \cap Reached(Links, tasks, text) = {}
  BY <1>5, <1>6 DEF Emission, Ready
<1>11. ASSUME NEW v \in Range(rpo) \ {rpo[1]}
       PROVE  Ready(Links, Opened(tasks, text) \cup {x}, Done(tasks, text) \cup {}, v)
                 <=> Ready(Links, Opened(tasks, text), Done(tasks, text), v) \/ v \in Range(ys)
  BY <1>6 DEF Ready
<1>12. /\ AllDue(Links, new) = Due(Links, Head(tasks)) \cup Range(ys)
       /\ AllEntered(new) = Entered(Head(tasks)) \cup {x} /\ AllLeft(new) = Left(Head(tasks)) \cup {}
  BY <1>0, <1>4, <1>9
<1>13. Emission(Links, new \o Tail(tasks), text)
  BY <1>1, <1>9, <1>10, <1>11, <1>12, Continues
<1> QED
  BY <1>1, <1>8, <1>13

(* A list of four calls, two of them marks; *)
LEMMA FourCalls ==
    ASSUME NEW I, NEW T, NEW a \in T, NEW b \in T, NEW c \in T, NEW d \in T, NEW s, s = <<a, b, c, d>>,
           Due(I, a) = {}, Due(I, c) = {}, Due(I, b) \cap Due(I, d) = {}
    PROVE  Holds(I, T, {a, b, c, d}, s)
<1>1. s \in Seq(T) /\ DOMAIN s = 1..4 /\ s[1] = a /\ s[2] = b /\ s[3] = c /\ s[4] = d
  OBVIOUS
<1>2. \A i \in 1..4 : i = 1 \/ i = 2 \/ i = 3 \/ i = 4
  OBVIOUS
<1>3. 1 \in 1..4 /\ 2 \in 1..4 /\ 3 \in 1..4 /\ 4 \in 1..4
  OBVIOUS
<1>4. Range(s) = {a, b, c, d}
  BY <1>1, <1>2, <1>3 DEF Range
<1>5. Apart(I, s)
  BY <1>1, <1>2 DEF Apart
<1> QED
  BY <1>1, <1>4, <1>5 DEF Holds

(* and of five, three of them marks. *)
LEMMA FiveCalls ==
    ASSUME NEW I, NEW T, NEW a \in T, NEW b \in T, NEW c \in T, NEW d \in T, NEW e \in T,
           NEW s, s = <<a, b, c, d, e>>,
           Due(I, a) = {}, Due(I, c) = {}, Due(I, e) = {}, Due(I, b) \cap Due(I, d) = {}
    PROVE  Holds(I, T, {a, b, c, d, e}, s)
<1>1. s \in Seq(T) /\ DOMAIN s = 1..5 /\ s[1] = a /\ s[2] = b /\ s[3] = c /\ s[4] = d /\ s[5] = e
  OBVIOUS
<1>2. \A i \in 1..5 : i = 1 \/ i = 2 \/ i = 3 \/ i = 4 \/ i = 5
  OBVIOUS
<1>3. 1 \in 1..5 /\ 2 \in 1..5 /\ 3 \in 1..5 /\ 4 \in 1..5 /\ 5 \in 1..5
  OBVIOUS
<1>4. Range(s) = {a, b, c, d, e}
  BY <1>1, <1>2, <1>3 DEF Range
<1>5. Apart(I, s)
  BY <1>1, <1>2 DEF Apart
<1> QED
  BY <1>1, <1>4, <1>5 DEF Holds

(* The first of a list without repetition is not among the rest. *)
LEMMA DistinctParts ==
    ASSUME NEW T, NEW ys \in Seq(T), ys # <<>>, Distinct(ys)
    PROVE  /\ Head(ys) \in T /\ Tail(ys) \in Seq(T) /\ Range(ys) = {Head(ys)} \cup Range(Tail(ys))
           /\ Head(ys) \notin Range(Tail(ys)) /\ Distinct(Tail(ys))
<1>a. PICK n \in Nat : n = Len(ys) /\ n # 0
  OBVIOUS
<1>b. PICK r : r = Tail(ys)
  OBVIOUS
<1>0. n \in Nat /\ n = Len(ys) /\ n # 0 /\ r = Tail(ys)
  BY <1>a, <1>b
<1>1. /\ r \in Seq(T) /\ DOMAIN r = 1..(n - 1) /\ DOMAIN ys = 1..n /\ ys[1] = Head(ys) /\ ys[1] \in T
      /\ \A i \in 1..(n - 1) : r[i] = ys[i + 1]
  BY <1>0
<1>2. \A i \in 1..(n - 1) : i + 1 \in 1..n /\ i + 1 # 1
  BY <1>0
<1>3. 1 \in 1..n
  BY <1>0
<1>4. ys[1] \notin Range(r)
  BY <1>1, <1>2, <1>3 DEF Range, Distinct
<1>5. Distinct(r)
  <2>. SUFFICES ASSUME NEW i \in 1..(n - 1), NEW j \in 1..(n - 1), r[i] = r[j] PROVE i = j
    BY <1>1 DEF Distinct
  <2>1. i + 1 = j + 1
    BY <1>1, <1>2 DEF Distinct
  <2>. QED
    BY <1>0, <2>1
<1>6. Range(ys) = {Head(ys)} \cup Range(r)
  BY <1>0, HeadAndTail
<1>7. Head(ys) = ys[1]
  BY <1>1
<1> QED
  BY <1>0, <1>1, <1>4, <1>5, <1>6, <1>7

(* node_within opens a block and leaves its label to a tree after it. *)
LEMMA ENodeWithin ==
    ASSUME CInv, phase = "emit", Emission(Links, tasks, text), NodeWithin
    PROVE  Emission(Links, tasks', text')
<1>0. PICK k, x, ys, y, r, L : /\ k = Head(tasks) /\ x = k.x /\ ys = k.ys /\ y = Head(ys) /\ r = Tail(ys)
                               /\ L = Range(rpo)
  OBVIOUS
<1>1. tasks # <<>> /\ k.t = "within" /\ x = X /\ tasks \in Seq(Calls(L)) /\ ys # <<>> /\ text' = text
  BY <1>0 DEF NodeWithin, Doing, X, Replace, Emission, Listed
<1>2. k \in Calls(L)
  BY <1>0, <1>1, FirstCall
<1>3. x \in L /\ ys \in Seq(L) /\ k = Task("within", x, ys)
  BY <1>0, <1>1, <1>2, CallIs
<1>4. Due(Links, k) = {x} \cup Range(ys) /\ Entered(k) = {x} /\ Left(k) = {}
  BY <1>3, WithinParts
<1>5. x \notin Range(ys) /\ Distinct(ys)
  <2>1. Proper(k)
    BY <1>0, <1>1, <1>4, CallAtHand
  <2>. QED
    BY <1>3, <2>1, WithinParts
<1>6. /\ y \in L /\ r \in Seq(L) /\ Range(ys) = {y} \cup Range(r)
      /\ y \notin Range(r) /\ Distinct(r)
  <2>1. ys \in Seq(L) /\ ys # <<>> /\ Distinct(ys)
    BY <1>1, <1>3, <1>5
  <2>. QED
    BY <1>0, <2>1, DistinctParts
<1>7. PICK a, b, c, d : /\ a = Write(Mark("block", y)) /\ b = Task("within", x, r)
                        /\ c = Write(Mark("end", y)) /\ d = Tree(y)
  OBVIOUS
<1>8. a \in Calls(L) /\ b \in Calls(L) /\ c \in Calls(L) /\ d \in Calls(L)
  <2>1. "block" \in Kinds /\ "end" \in Kinds
    BY DEF Kinds
  <2>. QED
    BY <1>3, <1>6, <1>7, <2>1, AreCalls
<1>9. /\ Due(Links, a) = {} /\ Entered(a) = {} /\ Left(a) = {} /\ Proper(a)
      /\ Due(Links, c) = {} /\ Entered(c) = {} /\ Left(c) = {} /\ Proper(c)
  BY <1>7, WriteParts
<1>10. /\ Due(Links, b) = {x} \cup Range(r) /\ Entered(b) = {x} /\ Left(b) = {}
       /\ Due(Links, d) = {y} /\ Entered(d) = {} /\ Left(d) = {}
  BY <1>7, WithinParts, TreeParts
<1>11. Proper(b) /\ Proper(d)
  BY <1>5, <1>6, <1>7, WithinParts, TreeParts
<1>12. PICK new : new = <<a, b, c, d>> /\ tasks' = new \o Tail(tasks)
  BY <1>0, <1>1, <1>7 DEF NodeWithin, Replace
<1>13. new \in Seq(Calls(L)) /\ Range(new) = {a, b, c, d} /\ Apart(Links, new)
  <2>1. Due(Links, b) \cap Due(Links, d) = {}
    BY <1>5, <1>6, <1>10
  <2>2. Due(Links, a) = {} /\ Due(Links, c) = {}
    BY <1>9
  <2>3. Holds(Links, Calls(L), {a, b, c, d}, new)
    BY <1>8, <1>12, <2>1, <2>2, FourCalls
  <2>. QED
    BY <2>3 DEF Holds
<1>14. Listed(Links, new)
  BY <1>0, <1>9, <1>11, <1>13 DEF Listed
<1>15. /\ AllDue(Links, new) = Due(Links, Head(tasks)) /\ AllEntered(new) = Entered(Head(tasks))
       /\ AllLeft(new) = Left(Head(tasks))
  <2>1. /\ AllDue(Links, new) = {x} \cup Range(r) \cup {y}
        /\ AllEntered(new) = {x} /\ AllLeft(new) = {}
    BY <1>9, <1>10, <1>13 DEF AllDue, AllEntered, AllLeft
  <2>. QED
    BY <1>0, <1>4, <1>6, <2>1
<1>16. Emission(Links, new \o Tail(tasks), text)
  BY <1>1, <1>14, <1>15, ContinuesInPlace
<1> QED
  BY <1>1, <1>12, <1>16

(* branch writes the target in place, or a br to it. *)
LEMMA EFollowBranch ==
    ASSUME CInv, phase = "emit", Emission(Links, tasks, text), FollowBranch
    PROVE  Emission(Links, tasks', text')
<1>0. PICK k, x, u, L : k = Head(tasks) /\ x = k.x /\ u = k.ys[1] /\ L = Range(rpo)
  OBVIOUS
<1>1. tasks # <<>> /\ k.t = "branch" /\ x = X /\ tasks \in Seq(Calls(L)) /\ text' = text
  BY <1>0 DEF FollowBranch, Doing, X, Replace, Emission, Listed
<1>2. k \in Calls(L)
  BY <1>0, <1>1, FirstCall
<1>3. x \in L /\ u \in L /\ k = Branch(u, x)
  BY <1>0, <1>1, <1>2, CallIs
<1>4. Due(Links, k) = (IF <<u, x>> \in Links THEN {x} ELSE {}) /\ Entered(k) = {} /\ Left(k) = {}
  BY <1>3, BranchParts
<1>5. PICK c : /\ tasks' = <<c>> \o Tail(tasks)
               /\ c = IF Idx(x) <= Idx(u) THEN Write(Mark("br loop", x))
                      ELSE IF Inlined(u, x) THEN Tree(x) ELSE Write(Mark("br block", x))
  BY <1>0, <1>1 DEF FollowBranch, Replace
<1>6. <<u, x>> \in Links <=> ~(Idx(x) <= Idx(u)) /\ Inlined(u, x)
  <2>1. Listing(rpo)
    BY SearchedLater DEF CInv, Later
  <2>2. Place(rpo, u) \in Nat /\ Place(rpo, x) \in Nat
    BY <1>0, <1>3, <2>1, PlaceOf
  <2>3. <<u, x>> \in Links <=> Place(rpo, u) < Place(rpo, x) /\ x \notin merges
    BY <1>0, <1>3 DEF Links
  <2>. QED
    BY <2>2, <2>3, IdxIsPlace DEF Inlined
<1>7. /\ c \in Calls(L) /\ Proper(c) /\ Entered(c) = {} /\ Left(c) = {}
      /\ Due(Links, c) = IF <<u, x>> \in Links THEN {x} ELSE {}
  <2>1. "br loop" \in Kinds /\ "br block" \in Kinds /\ "br loop" # "code" /\ "br block" # "code"
    BY DEF Kinds
  <2>2. CASE <<u, x>> \in Links
    BY <1>3, <1>5, <1>6, <2>2, AreCalls, TreeParts
  <2>3. CASE <<u, x>> \notin Links
    <3>1. PICK m \in {"br loop", "br block"} : c = Write(Mark(m, x))
      BY <1>5, <1>6, <2>3
    <3>2. c \in Calls(L)
      BY <1>3, <2>1, <3>1, AreCalls
    <3>. QED
      BY <2>1, <2>3, <3>1, <3>2, WriteParts
  <2>. QED
    BY <2>2, <2>3
<1>8. PICK new : new = <<c>>
  OBVIOUS
<1>9. new \in Seq(Calls(L)) /\ Range(new) = {c} /\ Apart(Links, new)
  BY <1>7, <1>8, One
<1>10. Listed(Links, new)
  BY <1>0, <1>7, <1>9 DEF Listed
<1>11. /\ AllDue(Links, new) = Due(Links, Head(tasks)) /\ AllEntered(new) = Entered(Head(tasks))
       /\ AllLeft(new) = Left(Head(tasks))
  <2>1. AllDue(Links, new) = Due(Links, c) /\ AllEntered(new) = Entered(c) /\ AllLeft(new) = Left(c)
    BY <1>9, AllOfOne
  <2>. QED
    BY <1>0, <1>4, <1>7, <2>1
<1>12. Emission(Links, new \o Tail(tasks), text)
  BY <1>1, <1>10, <1>11, ContinuesInPlace
<1> QED
  BY <1>1, <1>5, <1>8, <1>12

(* node_within writes the block and makes the inlined targets due. *)
LEMMA EEmitBlock ==
    ASSUME CInv, phase = "emit", Emission(Links, tasks, text), EmitBlock
    PROVE  Emission(Links, tasks', text')
<1>0. PICK k, x, to, L, F : /\ k = Head(tasks) /\ x = k.x /\ to = Successors(fn, x) /\ L = Range(rpo)
                            /\ F = {v \in Range(to) : <<x, v>> \in Links}
  OBVIOUS
<1>1. /\ tasks # <<>> /\ k.t = "within" /\ x = X /\ tasks \in Seq(Calls(L)) /\ k.ys = <<>> /\ text' = text
  BY <1>0 DEF EmitBlock, Doing, X, Replace, Emission, Listed
<1>2. k \in Calls(L)
  BY <1>0, <1>1, FirstCall
<1>3. x \in L /\ k = Task("within", x, <<>>)
  BY <1>0, <1>1, <1>2, CallIs
<1>4. Due(Links, k) = {x} /\ Entered(k) = {x} /\ Left(k) = {}
  <2>1. DOMAIN k.ys = {}
    BY <1>1
  <2>2. Range(k.ys) = {}
    BY <2>1 DEF Range
  <2>. QED
    BY <1>0, <1>1, <2>2 DEF Due, Entered, Left
<1>5. x \notin Done(tasks, text)
  BY <1>0, <1>1, <1>4, CallAtHand
<1>6. /\ IsFunction(fn) /\ CheckCfg(fn) = {} /\ Listing(rpo) /\ L \subseteq Labels(fn) /\ rpo[1] = Entry(fn)
      /\ \A y \in L : Range(Successors(fn, y)) \subseteq L
  BY <1>0, SearchedLater, SearchedFacts DEF CInv, Later
<1>7. to \in Seq(L) /\ Len(to) \in 0..2 /\ DOMAIN to = 1..Len(to) /\ \A i \in DOMAIN to : to[i] \in L
  <2>1. to \in Seq(Labels(fn)) /\ Len(to) \in 0..2
    BY <1>0, <1>3, <1>6, SuccessorsAreLabels, AtMostTwoSuccessors
  <2>2. \A i \in DOMAIN to : to[i] \in L
    BY <1>0, <1>3, <1>6 DEF Range
  <2>. QED
    BY <2>1, <2>2
<1>8. /\ F \subseteq L \ {rpo[1]} /\ x \notin F
      /\ \A v \in F : v \notin merges /\ \E i \in DOMAIN to : to[i] = v
  <2>1. ASSUME NEW v \in F PROVE v \in L /\ v # rpo[1] /\ v # x /\ v \notin merges /\ \E i \in DOMAIN to : to[i] = v
    <3>1. v \in Range(to) /\ <<x, v>> \in Links
      BY <1>0
    <3>2. v \in L /\ v # rpo[1]
      BY <1>0, <1>3, <1>6, <3>1, EntryFacts
    <3>3. Place(rpo, x) < Place(rpo, v) /\ v \notin merges
      BY <3>1 DEF Links
    <3>4. Place(rpo, x) \in Nat
      BY <1>0, <1>3, <1>6, PlaceOf
    <3>5. v # x
      BY <3>3, <3>4
    <3>. QED
      BY <3>1, <3>2, <3>3, <3>5 DEF Range
  <2>. QED
    BY <2>1
<1>9. ASSUME NEW i \in DOMAIN to, NEW v, to[i] = v, <<x, v>> \in Links,
             NEW u, <<u, v>> \in Links, NEW j \in DOMAIN Successors(fn, u), Successors(fn, u)[j] = v
      PROVE  u = x /\ i = j
  <2>1. v \in Range(rpo) /\ u \in Range(rpo) /\ x \in Range(rpo)
    BY <1>9 DEF Links
  <2>2. i \in DOMAIN Successors(fn, x) /\ Successors(fn, x)[i] = v
    BY <1>0, <1>9
  <2>. QED
    BY <1>9, <2>1, <2>2, OneLink
<1>10. F \cap Reached(Links, tasks, text) = {}
  <2>. SUFFICES ASSUME NEW v \in F, v \in Reached(Links, tasks, text) PROVE FALSE
    OBVIOUS
  <2>1. v \in L \ {rpo[1]} /\ v \notin merges /\ <<x, v>> \in Links
    BY <1>0, <1>8
  <2>2. Ready(Links, Opened(tasks, text), Done(tasks, text), v)
    BY <1>0, <2>1 DEF Emission
  <2>3. PICK u \in Done(tasks, text) : <<u, v>> \in Links /\ v \in Range(Successors(fn, u))
    BY <2>1, <2>2 DEF Ready
  <2>4. PICK j \in DOMAIN Successors(fn, u) : Successors(fn, u)[j] = v
    BY <2>3 DEF Range
  <2>5. PICK i \in DOMAIN to : to[i] = v
    BY <1>8
  <2>6. u = x
    BY <1>9, <2>1, <2>3, <2>4, <2>5
  <2>. QED
    BY <1>5, <2>3, <2>6
<1>11. ASSUME NEW v \in Range(rpo) \ {rpo[1]}
       PROVE  Ready(Links, Opened(tasks, text) \cup {}, Done(tasks, text) \cup {x}, v)
                 <=> Ready(Links, Opened(tasks, text), Done(tasks, text), v) \/ v \in F
  BY <1>0, <1>8 DEF Ready
<1>12. PICK w, rest, new : /\ w = Write(Mark("code", x)) /\ new = <<w>> \o rest /\ tasks' = new \o Tail(tasks)
             /\ rest = CASE Len(to) = 0 -> <<Write(Mark("return", x))>>
                         [] Len(to) = 1 -> <<Branch(x, to[1])>>
                         [] Len(to) = 2 -> <<Write(Mark("if", x)), Branch(x, to[1]),
                                             Write(Mark("else", x)), Branch(x, to[2]),
                                             Write(Mark("end", x))>>
  BY <1>0, <1>1 DEF EmitBlock, Replace
<1>13. "code" \in Kinds /\ "return" \in Kinds /\ "if" \in Kinds /\ "else" \in Kinds /\ "end" \in Kinds
  BY DEF Kinds
<1>14. /\ w \in Calls(L) /\ Proper(w) /\ Due(Links, w) = {x} /\ Entered(w) = {x} /\ Left(w) = {x}
  BY <1>3, <1>12, <1>13, AreCalls, WriteParts
<1>15. ASSUME NEW i \in DOMAIN to
       PROVE  /\ Branch(x, to[i]) \in Calls(L) /\ Proper(Branch(x, to[i]))
              /\ Due(Links, Branch(x, to[i])) = {v \in F : v = to[i]}
              /\ Entered(Branch(x, to[i])) = {} /\ Left(Branch(x, to[i])) = {}
  <2>1. Branch(x, to[i]) \in Calls(L)
    BY <1>3, <1>7, AreCalls
  <2>2. to[i] \in F <=> <<x, to[i]>> \in Links
    BY <1>0 DEF Range
  <2>3. Due(Links, Branch(x, to[i])) = IF <<x, to[i]>> \in Links THEN {to[i]} ELSE {}
    BY BranchParts
  <2>. QED
    BY <2>1, <2>2, <2>3, BranchParts
<1>16. /\ Listed(Links, rest) /\ AllDue(Links, rest) = F /\ AllEntered(rest) = {} /\ AllLeft(rest) = {}
  <2>1. CASE Len(to) = 0
    <3>1. PICK a : a = Write(Mark("return", x))
      OBVIOUS
    <3>2. a \in Calls(L) /\ Proper(a) /\ Due(Links, a) = {} /\ Entered(a) = {} /\ Left(a) = {}
      BY <1>3, <1>13, <3>1, AreCalls, WriteParts
    <3>3. rest = <<a>>
      BY <1>12, <2>1, <3>1
    <3>4. rest \in Seq(Calls(L)) /\ Range(rest) = {a} /\ Apart(Links, rest)
      BY <3>2, <3>3, One
    <3>5. F = {}
      BY <1>7, <1>8, <2>1
    <3>. QED
      BY <1>0, <3>2, <3>4, <3>5, AllOfOne DEF Listed
  <2>2. CASE Len(to) = 1
    <3>1. PICK a : a = Branch(x, to[1])
      OBVIOUS
    <3>2. DOMAIN to = {1}
      BY <1>7, <2>2
    <3>3. /\ a \in Calls(L) /\ Proper(a) /\ Due(Links, a) = {v \in F : v = to[1]}
          /\ Entered(a) = {} /\ Left(a) = {}
      BY <1>15, <3>1, <3>2
    <3>4. rest = <<a>>
      BY <1>12, <2>2, <3>1
    <3>5. rest \in Seq(Calls(L)) /\ Range(rest) = {a} /\ Apart(Links, rest)
      BY <3>3, <3>4, One
    <3>6. F = {v \in F : v = to[1]}
      BY <1>8, <3>2
    <3>7. AllDue(Links, rest) = Due(Links, a) /\ AllEntered(rest) = Entered(a) /\ AllLeft(rest) = Left(a)
      BY <3>5, AllOfOne
    <3>. QED
      BY <1>0, <3>3, <3>5, <3>6, <3>7 DEF Listed
  <2>3. CASE Len(to) = 2
    <3>1. PICK a, b, c, d, e : /\ a = Write(Mark("if", x)) /\ b = Branch(x, to[1]) /\ c = Write(Mark("else", x))
                               /\ d = Branch(x, to[2]) /\ e = Write(Mark("end", x))
      OBVIOUS
    <3>2. DOMAIN to = {1, 2}
      BY <1>7, <2>3
    <3>3. /\ a \in Calls(L) /\ Proper(a) /\ Due(Links, a) = {} /\ Entered(a) = {} /\ Left(a) = {}
          /\ c \in Calls(L) /\ Proper(c) /\ Due(Links, c) = {} /\ Entered(c) = {} /\ Left(c) = {}
          /\ e \in Calls(L) /\ Proper(e) /\ Due(Links, e) = {} /\ Entered(e) = {} /\ Left(e) = {}
      <4>1. a \in Calls(L) /\ c \in Calls(L) /\ e \in Calls(L)
        BY <1>3, <1>13, <3>1, AreCalls
      <4>. QED
        BY <3>1, <4>1, WriteParts
    <3>4. /\ b \in Calls(L) /\ Proper(b) /\ Due(Links, b) = {v \in F : v = to[1]} /\ Entered(b) = {} /\ Left(b) = {}
          /\ d \in Calls(L) /\ Proper(d) /\ Due(Links, d) = {v \in F : v = to[2]} /\ Entered(d) = {} /\ Left(d) = {}
      BY <1>15, <3>1, <3>2
    <3>5. rest = <<a, b, c, d, e>>
      BY <1>12, <2>3, <3>1
    <3>6. Due(Links, b) \cap Due(Links, d) = {}
      <4>. SUFFICES ASSUME NEW v \in F, to[1] = v, to[2] = v PROVE FALSE
        BY <3>4
      <4>1. <<x, v>> \in Links /\ 1 \in DOMAIN to /\ 2 \in DOMAIN Successors(fn, x) /\ Successors(fn, x)[2] = v
        BY <1>0, <3>2
      <4>2. 1 = 2
        BY <1>9, <4>1
      <4>. QED
        BY <4>2
    <3>7. Holds(Links, Calls(L), {a, b, c, d, e}, rest)
      <4>1. Due(Links, a) = {} /\ Due(Links, c) = {} /\ Due(Links, e) = {}
        BY <3>3
      <4>2. a \in Calls(L) /\ b \in Calls(L) /\ c \in Calls(L) /\ d \in Calls(L) /\ e \in Calls(L)
        BY <3>3, <3>4
      <4>. QED
        BY <3>5, <3>6, <4>1, <4>2, FiveCalls
    <3>8. rest \in Seq(Calls(L)) /\ Range(rest) = {a, b, c, d, e} /\ Apart(Links, rest)
      BY <3>7 DEF Holds
    <3>9. Listed(Links, rest)
      BY <1>0, <3>3, <3>4, <3>8 DEF Listed
    <3>10. F = {v \in F : v = to[1]} \cup {v \in F : v = to[2]}
      BY <1>8, <3>2
    <3>11. AllDue(Links, rest) = F
      BY <3>3, <3>4, <3>8, <3>10 DEF AllDue
    <3>12. AllEntered(rest) = {} /\ AllLeft(rest) = {}
      BY <3>3, <3>4, <3>8 DEF AllEntered, AllLeft
    <3>. QED
      BY <3>9, <3>11, <3>12
  <2>. QED
    BY <1>7, <2>1, <2>2, <2>3
<1>17. Listed(Links, new) /\ Range(new) = {w} \cup Range(rest)
  <2>1. PICK s : s = <<w>>
    OBVIOUS
  <2>2. s \in Seq(Calls(L)) /\ Range(s) = {w} /\ Apart(Links, s) /\ new = s \o rest
    BY <1>12, <1>14, <2>1, One
  <2>3. rest \in Seq(Calls(L)) /\ Apart(Links, rest) /\ \A c \in Range(rest) : Proper(c)
    BY <1>0, <1>16 DEF Listed
  <2>4. AllDue(Links, s) = {x}
    BY <1>14, <2>2, AllOfOne
  <2>5. AllDue(Links, s) \cap AllDue(Links, rest) = {}
    BY <1>8, <1>16, <2>4
  <2>6. new \in Seq(Calls(L)) /\ Range(new) = Range(s) \cup Range(rest)
    BY <2>2, <2>3, JoinedLists
  <2>7. Apart(Links, s \o rest)
    BY <2>2, <2>3, <2>5, Joined
  <2>. QED
    BY <1>0, <1>14, <2>2, <2>3, <2>6, <2>7 DEF Listed
<1>18. /\ AllDue(Links, new) = Due(Links, Head(tasks)) \cup F
       /\ AllEntered(new) = Entered(Head(tasks)) \cup {} /\ AllLeft(new) = Left(Head(tasks)) \cup {x}
  <2>1. /\ AllDue(Links, new) = Due(Links, w) \cup AllDue(Links, rest)
        /\ AllEntered(new) = Entered(w) \cup AllEntered(rest) /\ AllLeft(new) = Left(w) \cup AllLeft(rest)
    BY <1>17 DEF AllDue, AllEntered, AllLeft
  <2>. QED
    BY <1>0, <1>4, <1>14, <1>16, <2>1
<1>19. Emission(Links, new \o Tail(tasks), text)
  BY <1>1, <1>10, <1>11, <1>17, <1>18, Continues
<1> QED
  BY <1>1, <1>12, <1>19

(* A mark is written: what was due is written. *)
LEMMA EWriteMark ==
    ASSUME CInv, phase = "emit", Emission(Links, tasks, text), WriteMark
    PROVE  Emission(Links, tasks', text')
<1>0. PICK k, r, tx, L : k = Head(tasks) /\ r = Tail(tasks) /\ tx = text' /\ L = Range(rpo)
  OBVIOUS
<1>1. /\ tasks # <<>> /\ k.t = "write" /\ tasks \in Seq(Calls(L)) /\ Apart(Links, tasks)
      /\ text \in Seq(Marks(L)) /\ tasks' = r
  BY <1>0 DEF WriteMark, Doing, Emission, Listed
<1>2. /\ k \in Calls(L) /\ r \in Seq(Calls(L)) /\ Range(tasks) = {k} \cup Range(r)
      /\ Apart(Links, r) /\ Due(Links, k) \cap AllDue(Links, r) = {}
  BY <1>0, <1>1, FirstCall
<1>3. PICK m \in Marks(L) : k = Write(m) /\ k.ys = <<m>>
  BY <1>1, <1>2, CallIs
<1>4. tx = Append(text, m)
  <2>1. text' = text \o k.ys
    BY <1>0 DEF WriteMark
  <2>2. text \o <<m>> = Append(text, m)
    BY <1>1
  <2>. QED
    BY <1>0, <1>3, <2>1, <2>2
<1>5. PICK n \in Nat : n = Len(text)
  BY <1>1
<1>6. /\ tx \in Seq(Marks(L)) /\ DOMAIN tx = 1..(n + 1) /\ tx[n + 1] = m /\ DOMAIN text = 1..n
      /\ \A i \in 1..n : i \in 1..(n + 1) /\ tx[i] = text[i] /\ i # n + 1
      /\ \A i \in 1..(n + 1) : i \in 1..n \/ i = n + 1
  BY <1>1, <1>4, <1>5
<1> DEFINE N == IF m.k = "code" THEN {m.l} ELSE {}
<1>7. Due(Links, k) = N /\ Entered(k) = N /\ Left(k) = N
  BY <1>3 DEF Due, Entered, Left, Write, Task
<1>8. Coded(tx) = Coded(text) \cup N
  <2>1. CodeAt(tx) = CodeAt(text) \cup {i \in {n + 1} : m.k = "code"}
    BY <1>5, <1>6 DEF CodeAt
  <2>2. CodeAt(text) \subseteq 1..n
    BY <1>6 DEF CodeAt
  <2>. QED
    BY <1>6, <2>1, <2>2 DEF Coded
<1>9. /\ AllDue(Links, tasks) = N \cup AllDue(Links, r)
      /\ AllEntered(tasks) = N \cup AllEntered(r)
      /\ AllLeft(tasks) = N \cup AllLeft(r)
  BY <1>2, <1>7 DEF AllDue, AllEntered, AllLeft
<1>10. /\ Reached(Links, r, tx) = Reached(Links, tasks, text)
       /\ Opened(r, tx) = Opened(tasks, text) /\ Done(r, tx) = Done(tasks, text)
  BY <1>8, <1>9 DEF Reached, Opened, Done
<1>11. N \cap Coded(text) = {} /\ AllDue(Links, r) \cap Coded(tx) = {}
  BY <1>2, <1>7, <1>8, <1>9 DEF Emission
<1>12. ASSUME NEW i \in CodeAt(tx), NEW j \in CodeAt(tx), tx[i].l = tx[j].l PROVE i = j
  <2>1. \A a \in CodeAt(tx) : (a \in CodeAt(text) /\ tx[a] = text[a]) \/ (a = n + 1 /\ tx[a] = m /\ m.k = "code")
    BY <1>6 DEF CodeAt
  <2>2. \A a \in CodeAt(text) : m.k = "code" => text[a].l # m.l
    BY <1>11 DEF Coded
  <2>3. \A a, b \in CodeAt(text) : text[a].l = text[b].l => a = b
    BY DEF Emission
  <2>. QED
    BY <1>12, <2>1, <2>2, <2>3
<1>13. Listed(Links, r)
  BY <1>0, <1>2 DEF Emission, Listed
<1>14. rpo[1] \in Reached(Links, r, tx)
  BY <1>10 DEF Emission
<1>15. \A v \in Range(rpo) \ {rpo[1]} :
          v \in Reached(Links, r, tx) <=> Ready(Links, Opened(r, tx), Done(r, tx), v)
  BY <1>10 DEF Emission
<1>16. tx \in Seq(Marks(Range(rpo)))
  BY <1>0, <1>6
<1>17. Emission(Links, r, tx)
  BY <1>11, <1>12, <1>13, <1>14, <1>15, <1>16 DEF Emission
<1> QED
  BY <1>0, <1>1, <1>17

(* Every step keeps it. *)
LEMMA EmittingNext == ASSUME CInv, Emitting, [Next]_vars PROVE Emitting'
<1>1. CASE Descend \/ FinishLabel \/ StartDominators \/ VisitLabel \/ EndRound \/ Classify
  <2>1. text' = text /\ phase' \in {"order", "dominators", "classify", "irreducible"}
        /\ phase \in {"order", "dominators", "classify"}
    BY <1>1 DEF Descend, FinishLabel, StartDominators, VisitLabel, EndRound, Classify, At
  <2>. QED
    BY <2>1 DEF Emitting
<1>2. CASE StartEmit
  <2>1. phase = "classify" /\ phase' = "emit" /\ text = <<>> /\ UNCHANGED <<fn, rpo, idom, merges>>
    BY <1>2 DEF StartEmit, At, Emitting
  <2>2. Emission(Links, tasks', text')
    BY <1>2, <2>1, EStart
  <2>3. Emission(Links, tasks, text)'
    BY <2>1, <2>2, SameEmission
  <2>. QED
    BY <2>1, <2>3 DEF Emitting
<1>3. CASE DoTree \/ NodeWithin \/ EmitBlock \/ FollowBranch \/ WriteMark
  <2>1. phase = "emit" /\ phase' = "emit" /\ UNCHANGED <<fn, rpo, idom, merges>>
    BY <1>3 DEF DoTree, NodeWithin, EmitBlock, FollowBranch, WriteMark, Doing, At, Replace
  <2>2. Emission(Links, tasks, text)
    BY <2>1 DEF Emitting
  <2>3. Emission(Links, tasks', text')
    BY <1>3, <2>1, <2>2, EDoTree, ENodeWithin, EEmitBlock, EFollowBranch, EWriteMark
  <2>4. Emission(Links, tasks, text)'
    BY <2>1, <2>3, SameEmission
  <2>. QED
    BY <2>1, <2>4 DEF Emitting
<1>4. CASE Finish
  <2>1. /\ phase = "emit" /\ phase' = "done" /\ tasks = <<>> /\ tasks' = tasks /\ text' = text
        /\ UNCHANGED <<fn, rpo, idom, merges>>
    BY <1>4 DEF Finish, At
  <2>2. Emission(Links, tasks', text')
    BY <2>1 DEF Emitting
  <2>3. Emission(Links, tasks, text)'
    BY <2>1, <2>2, SameEmission
  <2>. QED
    BY <2>1, <2>3 DEF Emitting
<1>5. CASE UNCHANGED vars
  <2>1. phase' = phase /\ tasks' = tasks /\ text' = text /\ UNCHANGED <<fn, rpo, idom, merges>>
    BY <1>5 DEF vars
  <2>2. CASE phase \in {"emit", "done"}
    <3>1. Emission(Links, tasks', text')
      BY <2>1, <2>2 DEF Emitting
    <3>2. Emission(Links, tasks, text)'
      BY <2>1, <3>1, SameEmission
    <3>. QED
      BY <2>1, <2>2, <3>2 DEF Emitting
  <2>3. CASE phase \notin {"emit", "done"}
    BY <2>1, <2>3 DEF Emitting
  <2>. QED
    BY <2>2, <2>3
<1> QED
  BY <1>1, <1>2, <1>3, <1>4, <1>5 DEF Next

(* When nothing is left to do every label of rpo is written: the first     *)
(* that is not would have been due once what comes before it was.          *)
LEMMA AllWritten ==
    ASSUME SInv, phase \in Later, NEW tx, Emission(Links, <<>>, tx)
    PROVE  Coded(tx) = Range(rpo)
<1>0. /\ Listing(rpo) /\ IsTree(rpo, idom) /\ DOMAIN idom = Range(rpo)
      /\ \A x \in Range(rpo) : Place(rpo, x) \in Nat
      /\ IsFunction(fn) /\ CheckCfg(fn) = {} /\ Line(fn, rpo, 0)
  BY SearchedLater, PlaceOf
<1>1. /\ Reached(Links, <<>>, tx) = Coded(tx) /\ Opened(<<>>, tx) = Coded(tx) /\ Done(<<>>, tx) = Coded(tx)
  BY AllOfNone DEF Reached, Opened, Done
<1>2. rpo[1] \in Coded(tx) /\ \A v \in Range(rpo) \ {rpo[1]} : v \in Coded(tx) <=> Ready(Links, Coded(tx), Coded(tx), v)
  BY <1>1 DEF Emission
<1>3. Coded(tx) \subseteq Range(rpo)
  <2>1. tx \in Seq(Marks(Range(rpo)))
    BY DEF Emission
  <2>2. \A i \in DOMAIN tx : tx[i] \in Marks(Range(rpo))
    BY <2>1
  <2>. QED
    BY <2>2 DEF Coded, CodeAt, Marks
<1> DEFINE Bad == {n \in Nat : \E v \in Range(rpo) : n = Place(rpo, v) /\ v \notin Coded(tx)}
<1>4. ASSUME NEW l \in Range(rpo), l \notin Coded(tx) PROVE FALSE
  <2>1. Bad \in SUBSET Nat /\ Bad # {}
    BY <1>0, <1>4
  <2>2. PICK n \in Bad : \A j \in Bad : n <= j
    <3>. HIDE DEF Bad
    <3>. QED
      BY <2>1, LeastNat
  <2>3. PICK v \in Range(rpo) : n = Place(rpo, v) /\ v \notin Coded(tx)
    BY <2>2
  <2>4. \A u \in Range(rpo) : Place(rpo, u) < Place(rpo, v) => u \in Coded(tx)
    <3>. SUFFICES ASSUME NEW u \in Range(rpo), Place(rpo, u) < Place(rpo, v), u \notin Coded(tx) PROVE FALSE
      OBVIOUS
    <3>1. Place(rpo, u) \in Bad /\ Place(rpo, u) \in Nat /\ Place(rpo, v) \in Nat
      BY <1>0
    <3>. QED
      BY <2>2, <2>3, <3>1
  <2>5. v # rpo[1]
    BY <1>2, <2>3
  <2>6. CASE v \in merges
    <3>1. idom[v] \in Range(rpo) /\ Place(rpo, idom[v]) < Place(rpo, v)
      BY <1>0, <2>5 DEF IsTree
    <3>2. Ready(Links, Coded(tx), Coded(tx), v)
      BY <2>4, <2>6, <3>1 DEF Ready
    <3>. QED
      BY <1>2, <2>3, <2>5, <3>2
  <2>7. CASE v \notin merges
    <3>1. PICK u \in Range(rpo) : v \in Range(Successors(fn, u)) /\ Place(rpo, u) < Place(rpo, v)
      BY <1>0, <2>5, SearchedFacts
    <3>2. <<u, v>> \in Links
      BY <2>7, <3>1 DEF Links
    <3>3. Ready(Links, Coded(tx), Coded(tx), v)
      BY <2>4, <2>7, <3>1, <3>2 DEF Ready
    <3>. QED
      BY <1>2, <2>3, <2>5, <3>3
  <2>. QED
    BY <2>6, <2>7
<1> QED
  BY <1>3, <1>4

(* So it holds in every state. *)
LEMMA EmissionInvariant == Spec => [](CInv /\ Emitting)
<1>1. Init => CInv /\ Emitting
  BY SInit DEF CInv, Init, Classifying, Emitting
<1>2. CInv /\ Emitting /\ [Next]_vars => CInv' /\ Emitting'
  BY SNext, ClassifyingNext, EmittingNext DEF CInv
<1> QED
  BY <1>1, <1>2, PTL DEF Spec

(* The text has the code of every label that is reached once, and of no    *)
(* other one.                                                              *)
THEOREM WritesEveryBlockOnce == Spec => []EmittedOnce
<1>1. CInv /\ Emitting => EmittedOnce
  <2>. SUFFICES ASSUME CInv, Emitting, phase = "done"
                PROVE  /\ Coded(text) = ReachedWithout({})
                       /\ \A i, j \in CodeAt(text) : text[i].l = text[j].l => i = j
    BY DEF EmittedOnce, At, Coded, CodeAt
  <2>1. Emission(Links, <<>>, text)
    BY DEF Emitting
  <2>2. Coded(text) = Range(rpo)
    BY <2>1, AllWritten DEF CInv, Later
  <2>3. Range(rpo) = ReachedWithout({})
    BY SearchedLater, ListsReached DEF CInv, Later
  <2>. QED
    BY <2>1, <2>2, <2>3 DEF Emission
<1> QED
  BY <1>1, EmissionInvariant, PTL
=============================================================================
