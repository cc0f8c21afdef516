----------------------------- MODULE CFG_proofs -----------------------------
(***************************************************************************)
(* Facts the other proofs rest on.  About lists: induction over the        *)
(* naturals by way of least elements, what is kept of a list, and where    *)
(* the elements of a flattened list come from.  About a function that      *)
(* passes checkCFG: its edges, predecessors, paths and blocks.             *)
(***************************************************************************)
EXTENDS CFG, Lists, SequencesExt, FiniteSetTheorems, SequenceTheorems, TLAPS

(* A set of naturals has a least element. *)
LEMMA LeastNat ==
    ASSUME NEW S \in SUBSET Nat, S # {}
    PROVE  \E n \in S : \A m \in S : n <= m
<1> DEFINE R == {ss \in Nat \X Nat : ss[1] < ss[2]}
<1>1. IsWellFoundedOn(R, Nat)
  BY NatLessThanWellFounded DEF OpToRel
<1>2. \E x \in S : \A y \in S : ~ (<<y, x>> \in R)
  <2>. HIDE DEF R
  <2>. QED
    BY <1>1, WFMin
<1>3. PICK x \in S : \A y \in S : ~ (<<y, x>> \in R)
  BY <1>2
<1>4. \A y \in S : ~(y < x)
  BY <1>3
<1> QED
  BY <1>4

(* A set that holds a and with n also n + 1 holds all of a..b. *)
Inductive(S, a, b) ==
    /\ a <= b => a \in S
    /\ \A n \in a..(b - 1) : n \in S => n + 1 \in S

(* Counting up from a to b: a set that holds a and with each number the    *)
(* next one holds them all.                                                *)
LEMMA UpTo ==
    ASSUME NEW a \in Int, NEW b \in Int, NEW S, Inductive(S, a, b)
    PROVE  \A n \in a..b : n \in S
<1> DEFINE Bad == {k \in Nat : k <= b - a /\ a + k \notin S}
<1>1. SUFFICES ASSUME Bad # {} PROVE FALSE
  <2>1. SUFFICES ASSUME NEW n \in a..b, n \notin S PROVE FALSE
    OBVIOUS
  <2>2. n - a \in Nat /\ n - a <= b - a /\ a + (n - a) = n
    BY <2>1
  <2>3. n - a \in Bad
    BY <2>1, <2>2
  <2>. QED
    BY <2>3, <1>1
<1>2. PICK k \in Bad : \A m \in Bad : k <= m
  <2>. Bad \in SUBSET Nat
    OBVIOUS
  <2>. HIDE DEF Bad
  <2>. QED
    BY <1>1, LeastNat
<1>3. k # 0
  BY <1>2 DEF Inductive
<1>4. k - 1 \in Nat /\ k - 1 \notin Bad
  BY <1>2, <1>3
<1>5. a + (k - 1) \in S
  BY <1>2, <1>4
<1>6. a + (k - 1) \in a..(b - 1) /\ (a + (k - 1)) + 1 = a + k
  BY <1>2, <1>3
<1> QED
  BY <1>2, <1>5, <1>6 DEF Inductive

-----------------------------------------------------------------------------
(* Maps between positions that keep their order. *)
Increasing(e, n) == \A i, j \in 1..n : i < j => e[i] < e[j]

(* An increasing map never falls behind; onto as few positions as it maps  *)
(* it is the identity.                                                     *)
LEMMA IncreasingGrows ==
    ASSUME NEW a \in Nat, NEW b \in Nat, NEW e \in [1..a -> 1..b], Increasing(e, a)
    PROVE  /\ a <= b
           /\ a = b => \A k \in 1..a : e[k] = k
<1>1. \A k \in 1..a : k <= e[k]
  <2> DEFINE S == {k \in 1..a : k <= e[k]}
  <2>1. 1 <= a => 1 \in S
    OBVIOUS
  <2>2. \A n \in 1..(a - 1) : n \in S => n + 1 \in S
    <3>. SUFFICES ASSUME NEW n \in 1..(a - 1), n \in S PROVE n + 1 \in S
      OBVIOUS
    <3>1. n \in 1..a /\ n + 1 \in 1..a /\ e[n] < e[n + 1]
      BY DEF Increasing
    <3>. QED
      BY <3>1
  <2>3. \A n \in 1..a : n \in S
    <3>1. Inductive(S, 1, a)
      BY <2>1, <2>2 DEF Inductive
    <3>. HIDE DEF S
    <3>. QED
      BY <3>1, UpTo
  <2>. QED
    BY <2>3
<1>2. a <= b
  <2>1. CASE a = 0
    BY <2>1
  <2>2. CASE a > 0
    <3>1. a \in 1..a
      BY <2>2
    <3>. QED
      BY <3>1, <1>1
  <2>. QED
    BY <2>1, <2>2
<1>3. ASSUME a = b PROVE \A k \in 1..a : e[k] <= k
  <2> DEFINE S == {j \in 0..(a - 1) : e[a - j] <= a - j}
  <2>1. 0 <= a - 1 => 0 \in S
    BY <1>3
  <2>2. \A n \in 0..((a - 1) - 1) : n \in S => n + 1 \in S
    <3>. SUFFICES ASSUME NEW n \in 0..((a - 1) - 1), n \in S PROVE n + 1 \in S
      OBVIOUS
    <3>1. a - n \in 1..a /\ a - (n + 1) \in 1..a /\ a - (n + 1) < a - n
      OBVIOUS
    <3>2. e[a - (n + 1)] < e[a - n]
      BY <3>1 DEF Increasing
    <3>3. e[a - (n + 1)] \in Int /\ e[a - n] \in Int /\ e[a - n] <= a - n
      BY <3>1
    <3>4. e[a - (n + 1)] <= a - (n + 1)
      BY <3>2, <3>3
    <3>. QED
      BY <3>4
  <2>3. \A n \in 0..(a - 1) : n \in S
    <3>1. Inductive(S, 0, a - 1)
      BY <2>1, <2>2 DEF Inductive
    <3>. HIDE DEF S
    <3>. QED
      BY <3>1, UpTo
  <2>. SUFFICES ASSUME NEW k \in 1..a PROVE e[k] <= k
    OBVIOUS
  <2>4. a - k \in 0..(a - 1) /\ a - (a - k) = k
    OBVIOUS
  <2>. QED
    BY <2>3, <2>4
<1> QED
  BY <1>1, <1>2, <1>3

(* Nth lists a set of positions, in order and completely. *)
LEMMA NthListsAll ==
    ASSUME NEW n \in Nat, NEW K \in SUBSET (1..n)
    PROVE  /\ Cardinality(K) \in 0..n
           /\ IsFiniteSet(K)
           /\ \A m \in 1..Cardinality(K) : Nth(K, m) \in K
           /\ \A m, o \in 1..Cardinality(K) : m < o => Nth(K, m) < Nth(K, o)
           /\ \A i \in K : \E m \in 1..Cardinality(K) : Nth(K, m) = i
<1> DEFINE Low(i) == {j \in K : j <= i}
           rank == [i \in K |-> Cardinality(Low(i))]
           c == Cardinality(K)
<1>1. IsFiniteSet(1..n) /\ Cardinality(1..n) = n
  BY FS_Interval
<1>2. IsFiniteSet(K) /\ c \in 0..n
  <2>1. IsFiniteSet(K) /\ c <= n
    BY <1>1, FS_Subset
  <2>2. c \in Nat
    BY <2>1, FS_CardinalityType
  <2>. QED
    BY <2>1, <2>2
<1> K \subseteq Nat /\ c \in Nat
  BY <1>2
<1>3. \A i \in K : IsFiniteSet(Low(i)) /\ rank[i] \in 1..c
  <2>. SUFFICES ASSUME NEW i \in K PROVE IsFiniteSet(Low(i)) /\ Cardinality(Low(i)) \in 1..c
    OBVIOUS
  <2>1. i \in Low(i)
    OBVIOUS
  <2>2. IsFiniteSet(Low(i)) /\ Cardinality(Low(i)) <= c
    BY <1>2, FS_Subset
  <2>3. Cardinality(Low(i)) \in Nat /\ Cardinality(Low(i)) # 0
    BY <2>1, <2>2, FS_CardinalityType, FS_EmptySet
  <2>. QED
    BY <2>2, <2>3, <1>2
<1>4. \A i, k \in K : i < k => rank[i] < rank[k]
  <2>. SUFFICES ASSUME NEW i \in K, NEW k \in K, i < k PROVE rank[i] < rank[k]
    OBVIOUS
  <2>0. i \in Int /\ k \in Int
    OBVIOUS
  <2>1. k \in Low(k) /\ k \notin Low(i)
    BY <2>0
  <2>3. Low(i) \subseteq Low(k)
    <3>. SUFFICES ASSUME NEW x \in K, x <= i PROVE x <= k
      OBVIOUS
    <3>1. x \in Int
      OBVIOUS
    <3>. QED
      BY <3>1, <2>0
  <2>2. Cardinality(Low(i)) <= Cardinality(Low(k)) /\ Cardinality(Low(i)) # Cardinality(Low(k))
    <3>. HIDE DEF Low
    <3>. QED
      BY <2>1, <2>3, <1>3, FS_Subset
  <2>. QED
    BY <2>2, <1>3
<1>5. rank \in Injection(K, 1..c)
  <2>0. c \in Int
    OBVIOUS
  <2>1. rank \in [K -> 1..c]
    BY <1>3
  <2>2. \A i, k \in K : rank[i] = rank[k] => i = k
    <3>. HIDE DEF rank
    <3>. SUFFICES ASSUME NEW i \in K, NEW k \in K, rank[i] = rank[k], i # k PROVE FALSE
      OBVIOUS
    <3>1. i < k \/ k < i
      OBVIOUS
    <3>2. rank[i] \in Int /\ rank[k] \in Int
      BY <2>1, <1>2
    <3>. QED
      BY <3>1, <3>2, <1>4
  <2>. HIDE DEF rank
  <2>. QED
    BY <2>1, <2>2 DEF Injection, IsInjective
<1>6. rank \in Surjection(K, 1..c)
  <2>1. IsFiniteSet(1..c) /\ Cardinality(1..c) = c
    BY <1>2, FS_Interval
  <2>. HIDE DEF rank
  <2>. QED
    BY <2>1, <1>2, <1>5, FS_Injection
<1>7. \A m \in 1..c : \E i \in K : rank[i] = m
  <2>. HIDE DEF rank
  <2>. QED
    BY <1>6 DEF Surjection
<1>8. \A m \in 1..c : Nth(K, m) \in K /\ rank[Nth(K, m)] = m
  BY <1>7 DEF Nth
<1>9. \A i \in K : Nth(K, rank[i]) = i
  <2>. HIDE DEF rank
  <2>. SUFFICES ASSUME NEW i \in K PROVE Nth(K, rank[i]) = i
    OBVIOUS
  <2>1. rank[i] \in 1..c
    BY <1>3
  <2>2. Nth(K, rank[i]) \in K /\ rank[Nth(K, rank[i])] = rank[i]
    BY <2>1, <1>8
  <2>. QED
    BY <2>2, <1>5 DEF Injection, IsInjective
<1>10. \A m, o \in 1..c : m < o => Nth(K, m) < Nth(K, o)
  <2>. HIDE DEF rank
  <2>. SUFFICES ASSUME NEW m \in 1..c, NEW o \in 1..c, m < o PROVE Nth(K, m) < Nth(K, o)
    OBVIOUS
  <2>1. Nth(K, m) \in K /\ Nth(K, o) \in K /\ rank[Nth(K, m)] = m /\ rank[Nth(K, o)] = o
    BY <1>8
  <2>0. m \in Nat /\ o \in Nat
    OBVIOUS
  <2>2. PICK x \in K, y \in K : x = Nth(K, m) /\ y = Nth(K, o) /\ rank[x] = m /\ rank[y] = o
    BY <2>1
  <2>3. x \in Int /\ y \in Int
    OBVIOUS
  <2>4. x # y /\ ~(y < x)
    BY <2>0, <2>2, <1>4
  <2>. QED
    BY <2>2, <2>3, <2>4
<1> QED
  <2>. HIDE DEF rank
  <2>. QED
    BY <1>2, <1>3, <1>8, <1>9, <1>10

(* What is kept of a list is a list, and all of it if everything is kept. *)
LEMMA KeptIsList ==
    ASSUME NEW T, NEW n \in Nat, NEW s \in [1..n -> T], NEW K \in SUBSET (1..n)
    PROVE  /\ Kept(s, K) \in Seq(T)
           /\ Len(Kept(s, K)) = Cardinality(K)
           /\ DOMAIN Kept(s, K) = 1..Cardinality(K)
           /\ \A m \in 1..Cardinality(K) : Kept(s, K)[m] = s[Nth(K, m)]
           /\ K = 1..n => Kept(s, K) = s
<1>1. /\ Cardinality(K) \in Nat
      /\ \A m \in 1..Cardinality(K) : Nth(K, m) \in K
  BY NthListsAll
<1>2. Kept(s, K) \in [1..Cardinality(K) -> T]
  BY <1>1 DEF Kept
<1>3. ASSUME K = 1..n PROVE Kept(s, K) = s
  <2>1. Cardinality(K) = n
    BY <1>3, FS_Interval
  <2> DEFINE e == [m \in 1..n |-> Nth(K, m)]
  <2>2. e \in [1..n -> 1..n]
    BY <2>1, <1>1, <1>3
  <2>3. Increasing(e, n)
    BY <2>1, NthListsAll DEF Increasing
  <2>4. \A m \in 1..n : e[m] = m
    <3>. HIDE DEF e
    <3>. QED
      BY <2>2, <2>3, IncreasingGrows
  <2>. QED
    BY <2>1, <2>4 DEF Kept
<1> QED
  BY <1>1, <1>2, <1>3 DEF Kept

-----------------------------------------------------------------------------
(* Where the lists of a list of lists start when they are laid end to end. *)
Starts(ss, start) ==
    /\ start \in [1..(Len(ss) + 1) -> Nat]
    /\ start[1] = 0
    /\ \A i \in 1..Len(ss) : start[i + 1] = start[i] + Len(ss[i])

(* A later list starts where an earlier one has ended. *)
LEMMA StartsGrow ==
    ASSUME NEW T, NEW n \in Nat, NEW ss \in [1..n -> Seq(T)], NEW start, Starts(ss, start)
    PROVE  \A i \in 1..n : \A k \in (i + 1)..(n + 1) : start[i] + Len(ss[i]) <= start[k]
<1>0. Len(ss) = n
  OBVIOUS
<1>. SUFFICES ASSUME NEW i \in 1..n
              PROVE  \A k \in (i + 1)..(n + 1) : start[i] + Len(ss[i]) <= start[k]
  OBVIOUS
<1> DEFINE S == {k \in (i + 1)..(n + 1) : start[i] + Len(ss[i]) <= start[k]}
<1>1. i \in 1..(n + 1) /\ i + 1 \in 1..(n + 1) /\ i + 1 \in Int /\ n + 1 \in Int
  OBVIOUS
<1>2. \A k \in 1..(n + 1) : start[k] \in Nat
  BY <1>0 DEF Starts
<1>3. \A k \in 1..n : Len(ss[k]) \in Nat
  OBVIOUS
<1>4. Inductive(S, i + 1, n + 1)
  <2>1. i + 1 \in S
    BY <1>0, <1>1, <1>2, <1>3 DEF Starts
  <2>2. ASSUME NEW k \in (i + 1)..((n + 1) - 1), k \in S PROVE k + 1 \in S
    <3>1. k \in 1..n /\ k + 1 \in (i + 1)..(n + 1) /\ k \in 1..(n + 1) /\ k + 1 \in 1..(n + 1)
      OBVIOUS
    <3>2. start[k + 1] = start[k] + Len(ss[k])
      BY <3>1, <1>0 DEF Starts
    <3>3. start[k + 1] \in Nat /\ start[k] \in Nat /\ Len(ss[k]) \in Nat /\ start[i] \in Nat /\ Len(ss[i]) \in Nat
      BY <3>1, <1>1, <1>2, <1>3
    <3>. QED
      BY <2>2, <3>1, <3>2, <3>3
  <2>. QED
    BY <2>1, <2>2 DEF Inductive
<1>5. \A k \in (i + 1)..(n + 1) : k \in S
  <2>. HIDE DEF S
  <2>. QED
    BY <1>1, <1>4, UpTo
<1> QED
  BY <1>5

(* The first m lists laid end to end: every element keeps its place in its *)
(* own list, and every place comes from one.                               *)
LaidOut(ss, m, flat, start) ==
    /\ Len(flat) = start[m + 1]
    /\ \A i \in 1..m : \A j \in 1..Len(ss[i]) :
          start[i] + j \in 1..Len(flat) /\ flat[start[i] + j] = ss[i][j]
    /\ \A k \in 1..Len(flat) : \E i \in 1..m : \E j \in 1..Len(ss[i]) : k = start[i] + j
Flattens(ss, flat, start) == Starts(ss, start) /\ LaidOut(ss, Len(ss), flat, start)

(* One list more. *)
LEMMA FlattenStep ==
    ASSUME NEW T, NEW n \in Nat, NEW ss \in [1..n -> Seq(T)], NEW m \in 0..(n - 1),
           NEW start, Starts(ss, start), NEW f \in Seq(T), LaidOut(ss, m, f, start)
    PROVE  f \o ss[m + 1] \in Seq(T) /\ LaidOut(ss, m + 1, f \o ss[m + 1], start)
<1> DEFINE t == ss[m + 1]
           g == f \o t
<1>0. /\ Len(f) = start[m + 1]
      /\ \A i \in 1..m : \A j \in 1..Len(ss[i]) :
            start[i] + j \in 1..Len(f) /\ f[start[i] + j] = ss[i][j]
      /\ \A k \in 1..Len(f) : \E i \in 1..m : \E j \in 1..Len(ss[i]) : k = start[i] + j
  BY DEF LaidOut
<1>1. /\ m + 1 \in 1..n /\ Len(ss) = n /\ m + 1 \in 1..(n + 1) /\ m + 2 \in 1..(n + 1)
      /\ m \in Nat /\ (m + 1) + 1 = m + 2
  OBVIOUS
<1>2. t \in Seq(T) /\ Len(t) \in Nat /\ Len(f) \in Nat
  BY <1>1
<1>3. start[m + 1] \in Nat /\ start[m + 2] = start[m + 1] + Len(t)
  BY <1>1 DEF Starts
<1>4. g \in Seq(T) /\ Len(g) = Len(f) + Len(t)
  BY <1>2
<1>5. \A k \in 1..Len(f) : k \in 1..Len(g) /\ g[k] = f[k]
  BY <1>2, <1>4
<1>6. \A j \in 1..Len(t) : Len(f) + j \in 1..Len(g) /\ g[Len(f) + j] = t[j]
  BY <1>2, <1>4
<1>7. \A k \in 1..Len(g) : k \in 1..Len(f) \/ \E j \in 1..Len(t) : k = Len(f) + j
  <2>. SUFFICES ASSUME NEW k \in 1..Len(g), k \notin 1..Len(f) PROVE \E j \in 1..Len(t) : k = Len(f) + j
    OBVIOUS
  <2>1. k - Len(f) \in 1..Len(t) /\ k = Len(f) + (k - Len(f))
    BY <1>2, <1>4
  <2>. QED
    BY <2>1
<1> HIDE DEF t, g
<1>8. ASSUME NEW i \in 1..(m + 1), NEW j \in 1..Len(ss[i])
      PROVE  start[i] + j \in 1..Len(g) /\ g[start[i] + j] = ss[i][j]
  <2>1. CASE i \in 1..m
    BY <2>1, <1>0, <1>5
  <2>2. CASE i = m + 1
    BY <2>2, <1>0, <1>6 DEF t
  <2>. QED
    BY <2>1, <2>2, <1>1
<1>9. ASSUME NEW k \in 1..Len(g)
      PROVE  \E i \in 1..(m + 1) : \E j \in 1..Len(ss[i]) : k = start[i] + j
  <2>1. CASE k \in 1..Len(f)
    <3>1. PICK i \in 1..m : \E j \in 1..Len(ss[i]) : k = start[i] + j
      BY <2>1, <1>0
    <3>2. i \in 1..(m + 1)
      BY <1>1
    <3>. QED
      BY <3>1, <3>2
  <2>2. CASE \E j \in 1..Len(t) : k = Len(f) + j
    <3>1. m + 1 \in 1..(m + 1)
      BY <1>1
    <3>. QED
      BY <2>2, <3>1, <1>0 DEF t
  <2>. QED
    BY <2>1, <2>2, <1>7
<1> QED
  <2>1. LaidOut(ss, m + 1, g, start)
    BY <1>0, <1>1, <1>3, <1>4, <1>8, <1>9 DEF LaidOut
  <2>. QED
    BY <2>1, <1>4 DEF t, g

(* Every list of lists has its starts. *)
LEMMA HasStarts ==
    ASSUME NEW T, NEW n \in Nat, NEW ss \in [1..n -> Seq(T)]
    PROVE  \E start : Starts(ss, start)
<1> DEFINE Up(k, st) == /\ st \in [1..(k + 1) -> Nat]
                        /\ st[1] = 0
                        /\ \A i \in 1..k : st[i + 1] = st[i] + Len(ss[i])
           S == {k \in 0..n : \E st : Up(k, st)}
<1>1. 0 \in S
  <2> DEFINE st == [i \in 1..1 |-> 0]
  <2>1. Up(0, st)
    OBVIOUS
  <2>2. \E s \in {st} : Up(0, s)
    BY <2>1
  <2>. HIDE DEF st, Up
  <2>. QED
    BY <2>2
<1>2. ASSUME NEW k \in 0..(n - 1), k \in S PROVE k + 1 \in S
  <2>1. PICK st : Up(k, st)
    BY <1>2
  <2> DEFINE new == [i \in 1..((k + 1) + 1) |-> IF i = k + 2 THEN st[k + 1] + Len(ss[k + 1]) ELSE st[i]]
  <2>2. k + 1 \in 1..n /\ k \in Nat /\ Len(ss[k + 1]) \in Nat
    OBVIOUS
  <2>3. st[k + 1] \in Nat
    BY <2>1, <2>2
  <2>4. new \in [1..((k + 1) + 1) -> Nat]
    BY <2>1, <2>2, <2>3
  <2>5. new[1] = 0
    BY <2>1, <2>2
  <2>6. ASSUME NEW i \in 1..(k + 1) PROVE new[i + 1] = new[i] + Len(ss[i])
    <3>1. CASE i = k + 1
      BY <3>1, <2>2
    <3>2. CASE i \in 1..k
      <4>1. i \in 1..((k + 1) + 1) /\ i + 1 \in 1..((k + 1) + 1) /\ i # k + 2 /\ i + 1 # k + 2
        BY <3>2, <2>2
      <4>. QED
        BY <4>1, <3>2, <2>1
    <3>. QED
      BY <3>1, <3>2, <2>2
  <2>7. Up(k + 1, new)
    BY <2>4, <2>5, <2>6
  <2>. HIDE DEF new, Up
  <2>. QED
    BY <2>7, <2>2
<1>3. n \in S
  <2>1. Inductive(S, 0, n)
    BY <1>1, <1>2 DEF Inductive
  <2>. HIDE DEF S
  <2>. QED
    BY <2>1, UpTo
<1>4. PICK st : Up(n, st)
  BY <1>3
<1> QED
  <2>1. Starts(ss, st)
    BY <1>4 DEF Starts
  <2>. QED
    BY <2>1

(* FlattenSeq lays the lists end to end. *)
Concatenations(ss, n, h) ==
    h = [i \in 1..n |-> IF i = 1 THEN ss[i] ELSE h[i - 1] \o ss[i]]

(* FlattenSeq counts up the concatenations of the first lists; there are   *)
(* such.                                                                   *)
LEMMA HasPrefixes ==
    ASSUME NEW ss, NEW n \in Nat
    PROVE  \E h : Concatenations(ss, n, h)
<1> DEFINE S == {k \in 0..n : \E h : Concatenations(ss, k, h)}
<1>1. 0 \in S
  <2> DEFINE h == [i \in 1..0 |-> ss[1]]
  <2>1. h = [i \in 1..0 |-> IF i = 1 THEN ss[i] ELSE h[i - 1] \o ss[i]]
    OBVIOUS
  <2>2. Concatenations(ss, 0, h)
    BY <2>1 DEF Concatenations
  <2>. QED
    BY <2>2
<1>2. ASSUME NEW k \in 0..(n - 1), k \in S PROVE k + 1 \in S
  <2>1. PICK h : Concatenations(ss, k, h)
    BY <1>2
  <2> DEFINE last == IF k = 0 THEN ss[1] ELSE h[k] \o ss[k + 1]
             new == [i \in 1..(k + 1) |-> IF i = k + 1 THEN last ELSE h[i]]
             right == [i \in 1..(k + 1) |-> IF i = 1 THEN ss[i] ELSE new[i - 1] \o ss[i]]
  <2>2. ASSUME NEW i \in 1..(k + 1)
        PROVE  new[i] = IF i = 1 THEN ss[i] ELSE new[i - 1] \o ss[i]
    <3>1. CASE i = k + 1
      <4>1. CASE k = 0
        BY <3>1, <4>1
      <4>2. CASE k # 0
        <5>1. i # 1 /\ i - 1 = k /\ k \in 1..(k + 1) /\ k # k + 1
          BY <3>1, <4>2
        <5>2. new[k] = h[k] /\ new[i] = h[k] \o ss[k + 1]
          BY <5>1, <3>1, <4>2
        <5>. QED
          BY <5>1, <5>2, <3>1
      <4>. QED
        BY <4>1, <4>2
    <3>2. CASE i # k + 1
      <4>1. i \in 1..k /\ (i # 1 => i - 1 \in 1..(k + 1) /\ i - 1 # k + 1)
        BY <3>2
      <4>2. h[i] = IF i = 1 THEN ss[i] ELSE h[i - 1] \o ss[i]
        BY <2>1, <4>1 DEF Concatenations
      <4>3. new[i] = h[i] /\ (i # 1 => new[i - 1] = h[i - 1])
        BY <3>2, <4>1
      <4>. QED
        BY <4>2, <4>3
    <3>. QED
      BY <3>1, <3>2
  <2>3. new = right
    <3>. HIDE DEF last
    <3>1. \A i \in 1..(k + 1) : new[i] = right[i]
      BY <2>2
    <3>. QED
      BY <3>1
  <2>4. Concatenations(ss, k + 1, new)
    BY <2>3 DEF Concatenations
  <2>. QED
    BY <2>4
<1>3. n \in S
  <2>1. Inductive(S, 0, n)
    BY <1>1, <1>2 DEF Inductive
  <2>. HIDE DEF S
  <2>. QED
    BY <2>1, UpTo
<1> QED
  BY <1>3

(* FlattenSeq lays the lists end to end, each where its start says.        *)
LEMMA FlattenFlattens ==
    ASSUME NEW T, NEW n \in Nat, NEW ss \in [1..n -> Seq(T)], NEW start, Starts(ss, start)
    PROVE  FlattenSeq(ss) \in Seq(T) /\ Flattens(ss, FlattenSeq(ss), start)
<1>0. Len(ss) = n
  OBVIOUS
<1>1. CASE n = 0
  <2>1. FlattenSeq(ss) = ss
    BY <1>0, <1>1 DEF FlattenSeq
  <2>2. ss = <<>>
    BY <1>1
  <2>. QED
    BY <1>0, <1>1, <2>1, <2>2 DEF Flattens, LaidOut, Starts
<1>2. CASE n > 0
  <2> DEFINE F == CHOOSE h : Concatenations(ss, n, h)
  <2>1. F = [i \in 1..n |-> IF i = 1 THEN ss[i] ELSE F[i - 1] \o ss[i]]
    BY HasPrefixes DEF Concatenations
  <2>2. FlattenSeq(ss) = F[n]
    BY <1>0, <1>2 DEF FlattenSeq, Concatenations
  <2> HIDE DEF F
  <2>3. F[1] = ss[1] /\ \A i \in 2..n : F[i] = F[i - 1] \o ss[i]
    <3>1. 1 \in 1..n /\ \A i \in 2..n : i \in 1..n /\ i # 1
      BY <1>2
    <3>2. \A i \in 1..n : F[i] = IF i = 1 THEN ss[i] ELSE F[i - 1] \o ss[i]
      BY <2>1
    <3>. QED
      BY <3>1, <3>2
  <2> DEFINE S == {m \in 1..n : F[m] \in Seq(T) /\ LaidOut(ss, m, F[m], start)}
  <2>4. start[1] = 0 /\ \A i \in 1..n : start[i + 1] = start[i] + Len(ss[i])
    BY <1>0 DEF Starts
  <2>5. 1 \in S
    <3>1. 1 \in 1..n /\ ss[1] \in Seq(T) /\ Len(ss[1]) \in Nat /\ start[2] = Len(ss[1])
      BY <1>2, <2>4
    <3>2. \A i \in 1..1 : i = 1
      OBVIOUS
    <3>3. F[1] \in Seq(T) /\ LaidOut(ss, 1, F[1], start)
      BY <3>1, <3>2, <2>3, <2>4 DEF LaidOut
    <3>. QED
      BY <3>1, <3>3
  <2>6. ASSUME NEW m \in 1..(n - 1), m \in S PROVE m + 1 \in S
    <3>1. m \in 0..(n - 1) /\ m + 1 \in 2..n /\ (m + 1) - 1 = m /\ m + 1 \in 1..n
      OBVIOUS
    <3>2. F[m + 1] = F[m] \o ss[m + 1]
      BY <3>1, <2>3
    <3>3. F[m] \in Seq(T) /\ LaidOut(ss, m, F[m], start)
      BY <2>6
    <3>4. F[m + 1] \in Seq(T) /\ LaidOut(ss, m + 1, F[m + 1], start)
      <4> DEFINE f == F[m]
      <4>1. f \in Seq(T) /\ LaidOut(ss, m, f, start)
        BY <3>3
      <4>2. f \o ss[m + 1] \in Seq(T) /\ LaidOut(ss, m + 1, f \o ss[m + 1], start)
        <5>. HIDE DEF f, S
        <5>. QED
          BY <3>1, <4>1, FlattenStep
      <4>. QED
        BY <3>2, <4>2
    <3>. QED
      BY <3>1, <3>4
  <2>7. n \in S
    <3>1. Inductive(S, 1, n)
      BY <2>5, <2>6, <1>2 DEF Inductive
    <3>. HIDE DEF S
    <3>. QED
      BY <3>1, <1>2, UpTo
  <2>8. F[n] \in Seq(T) /\ LaidOut(ss, n, F[n], start)
    BY <2>7
  <2>. QED
    BY <2>8, <2>2, <1>0 DEF Flattens
<1> QED
  BY <1>1, <1>2

(* A list of lists, of elements of some kind. *)
AreLists(ss) == \E T : ss \in [1..Len(ss) -> Seq(T)] /\ Len(ss) \in Nat

(* It has its starts, and FlattenSeq lays it end to end. *)
LEMMA Flattened ==
    ASSUME NEW ss, AreLists(ss)
    PROVE  \E start : Flattens(ss, FlattenSeq(ss), start)
<1>1. PICK n, T : n \in Nat /\ ss \in [1..n -> Seq(T)]
  BY DEF AreLists
<1>2. PICK start : Starts(ss, start)
  BY <1>1, HasStarts
<1> QED
  BY <1>1, <1>2, FlattenFlattens

(* Places are ordered by their list first and in their list second. *)
LEMMA PlaceOrder ==
    ASSUME NEW ss, AreLists(ss), NEW start, Starts(ss, start),
           NEW i \in 1..Len(ss), NEW j \in 1..Len(ss[i]), NEW k \in 1..Len(ss), NEW l \in 1..Len(ss[k])
    PROVE  /\ start[i] \in Nat /\ Len(ss[i]) \in Nat
           /\ i < k => start[i] + j < start[k] + l
           /\ i = k /\ j < l => start[i] + j < start[k] + l
<1>0. PICK n, T : n \in Nat /\ ss \in [1..n -> Seq(T)] /\ n = Len(ss)
  BY DEF AreLists
<1>1. Len(ss[i]) \in Nat /\ Len(ss[k]) \in Nat /\ i \in 1..(n + 1) /\ k \in 1..(n + 1) /\ i \in 1..n /\ k \in 1..n
  BY <1>0
<1>2. start[i] \in Nat /\ start[k] \in Nat
  BY <1>0, <1>1 DEF Starts
<1>3. j \in Nat /\ l \in Nat /\ 1 <= l /\ j <= Len(ss[i]) /\ 1 <= j /\ l <= Len(ss[k]) /\ i \in Nat /\ k \in Nat
  BY <1>1
<1>4. ASSUME i < k PROVE start[i] + j < start[k] + l
  <2>1. k \in (i + 1)..(n + 1)
    BY <1>1, <1>4
  <2>2. start[i] + Len(ss[i]) <= start[k]
    BY <1>0, <1>1, <2>1, StartsGrow
  <2>. QED
    BY <1>1, <1>2, <1>3, <2>2
<1> QED
  BY <1>1, <1>2, <1>3, <1>4

(* So a position is one place. *)
LEMMA PlaceUnique ==
    ASSUME NEW ss, AreLists(ss), NEW start, Starts(ss, start),
           NEW i \in 1..Len(ss), NEW j \in 1..Len(ss[i]), NEW k \in 1..Len(ss), NEW l \in 1..Len(ss[k]),
           start[i] + j = start[k] + l
    PROVE  i = k /\ j = l
<1>1. start[i] \in Nat /\ start[k] \in Nat /\ Len(ss[i]) \in Nat /\ Len(ss[k]) \in Nat
  BY PlaceOrder
<1>2. i < k => start[i] + j < start[k] + l
  BY PlaceOrder
<1>3. k < i => start[k] + l < start[i] + j
  BY PlaceOrder
<1>4. i = k /\ j < l => start[i] + j < start[k] + l
  BY PlaceOrder
<1>5. i = k /\ l < j => start[k] + l < start[i] + j
  BY PlaceOrder
<1>6. i \in Int /\ j \in Int /\ k \in Int /\ l \in Int
  BY <1>1 DEF AreLists
<1> QED
  BY <1>1, <1>2, <1>3, <1>4, <1>5, <1>6

(* A list of lists inside another: each list inside one of the other's,    *)
(* both in order.                                                          *)
Embeds(tt, ss, e, g) ==
    /\ e \in [1..Len(tt) -> 1..Len(ss)] /\ Increasing(e, Len(tt))
    /\ \A i \in 1..Len(tt) : /\ g[i] \in [1..Len(tt[i]) -> 1..Len(ss[e[i]])]
                             /\ Increasing(g[i], Len(tt[i]))

(* Then what they flatten to is one inside the other: em[k] is the place   *)
(* of flat the k-th of flut comes from.                                    *)
Lies(em, tt, flut, begin, flat, start, e, g) ==
    /\ em \in [1..Len(flut) -> 1..Len(flat)] /\ Increasing(em, Len(flut))
    /\ \A k \in 1..Len(flut) : \E i \in 1..Len(tt) : \E j \in 1..Len(tt[i]) :
          k = begin[i] + j /\ em[k] = start[e[i]] + g[i][j]

(* Lists inside lists flatten to a list inside a list.                     *)
LEMMA FlattenEmbeds ==
    ASSUME NEW ss, AreLists(ss), NEW flat, NEW start, Flattens(ss, flat, start),
           NEW tt, AreLists(tt), NEW flut, NEW begin, Flattens(tt, flut, begin),
           NEW e, NEW g, Embeds(tt, ss, e, g)
    PROVE  \E em : Lies(em, tt, flut, begin, flat, start, e, g)
<1>0. PICK n \in Nat, m \in Nat : n = Len(ss) /\ m = Len(tt)
  BY DEF AreLists
<1>1. Len(ss) = n /\ Len(tt) = m /\ Len(flat) \in Nat /\ Len(flut) \in Nat
  BY <1>0 DEF Flattens, LaidOut, Starts
<1>2. Starts(ss, start) /\ Starts(tt, begin)
  BY DEF Flattens
<1>3. \A k \in 1..Len(flut) : \E i \in 1..m : \E j \in 1..Len(tt[i]) : k = begin[i] + j
  BY <1>1 DEF Flattens, LaidOut
<1>4. \A i \in 1..n : \A j \in 1..Len(ss[i]) : start[i] + j \in 1..Len(flat)
  BY <1>1 DEF Flattens, LaidOut
<1>5. e \in [1..m -> 1..n] /\ Increasing(e, m)
  BY <1>1 DEF Embeds
<1>6. \A i \in 1..m : g[i] \in [1..Len(tt[i]) -> 1..Len(ss[e[i]])] /\ Increasing(g[i], Len(tt[i]))
  BY <1>1 DEF Embeds
<1> DEFINE To(k, p) == \E i \in 1..m : \E j \in 1..Len(tt[i]) :
                          k = begin[i] + j /\ p = start[e[i]] + g[i][j]
           em == [k \in 1..Len(flut) |-> CHOOSE p \in 1..Len(flat) : To(k, p)]
<1>7. \A k \in 1..Len(flut) : \E p \in 1..Len(flat) : To(k, p)
  <2>. SUFFICES ASSUME NEW k \in 1..Len(flut) PROVE \E p \in 1..Len(flat) : To(k, p)
    OBVIOUS
  <2>1. PICK i \in 1..m : \E j \in 1..Len(tt[i]) : k = begin[i] + j
    BY <1>3
  <2>2. PICK j \in 1..Len(tt[i]) : k = begin[i] + j
    BY <2>1
  <2>3. g[i][j] \in 1..Len(ss[e[i]]) /\ e[i] \in 1..n
    BY <1>5, <1>6
  <2>. QED
    BY <2>2, <2>3, <1>4
<1>8. \A k \in 1..Len(flut) : em[k] \in 1..Len(flat) /\ To(k, em[k])
  <2>. HIDE DEF To
  <2>. QED
    BY <1>7
<1>9. em \in [1..Len(flut) -> 1..Len(flat)]
  <2>. HIDE DEF To
  <2>. QED
    BY <1>8
<1>10. Increasing(em, Len(flut))
  <2>. SUFFICES ASSUME NEW k \in 1..Len(flut), NEW l \in 1..Len(flut), k < l PROVE em[k] < em[l]
    BY DEF Increasing
  <2>. HIDE DEF em
  <2>0. PICK i \in 1..m, x \in 1..m :
          /\ \E j \in 1..Len(tt[i]) : k = begin[i] + j /\ em[k] = start[e[i]] + g[i][j]
          /\ \E y \in 1..Len(tt[x]) : l = begin[x] + y /\ em[l] = start[e[x]] + g[x][y]
    BY <1>8
  <2>1. PICK j \in 1..Len(tt[i]) : k = begin[i] + j /\ em[k] = start[e[i]] + g[i][j]
    BY <2>0
  <2>2. PICK y \in 1..Len(tt[x]) : l = begin[x] + y /\ em[l] = start[e[x]] + g[x][y]
    BY <2>0
  <2>3. e[i] \in 1..n /\ e[x] \in 1..n /\ g[i][j] \in 1..Len(ss[e[i]]) /\ g[x][y] \in 1..Len(ss[e[x]])
    BY <1>5, <1>6
  <2>4. k \in Int /\ l \in Int /\ i \in Int /\ x \in Int
    BY <1>1
  <2>5. j \in Int /\ y \in Int
    OBVIOUS
  <2>6. \/ i < x
        \/ i = x /\ j < y
    <3>1. x < i => begin[x] + y < begin[i] + j
      BY <1>0, <1>2, PlaceOrder
    <3>2. x = i /\ y < j => begin[x] + y < begin[i] + j
      BY <1>0, <1>2, PlaceOrder
    <3>. QED
      BY <2>1, <2>2, <2>4, <2>5, <3>1, <3>2, <1>0
  <2>7. CASE i < x
    <3>1. e[i] < e[x]
      BY <2>7, <1>5 DEF Increasing
    <3>2. start[e[i]] + g[i][j] < start[e[x]] + g[x][y]
      <4> DEFINE a == e[i]
                 b == g[i][j]
                 c == e[x]
                 d == g[x][y]
      <4>1. a \in 1..n /\ c \in 1..n /\ b \in 1..Len(ss[a]) /\ d \in 1..Len(ss[c]) /\ a < c
        BY <2>3, <3>1
      <4>. HIDE DEF a, b, c, d
      <4>2. start[a] + b < start[c] + d
        BY <4>1, <1>0, <1>2, PlaceOrder
      <4>. QED
        BY <4>2 DEF a, b, c, d
    <3>. QED
      BY <3>2, <2>1, <2>2
  <2>8. CASE i = x /\ j < y
    <3>1. g[i][j] < g[i][y]
      BY <2>8, <1>6 DEF Increasing
    <3> DEFINE a == e[i]
               b == g[i][j]
               d == g[x][y]
    <3>2. a \in 1..n /\ b \in 1..Len(ss[a]) /\ d \in 1..Len(ss[a]) /\ b < d
      BY <2>3, <2>8, <3>1
    <3>3. start[a] + b < start[a] + d
      <4>. HIDE DEF a, b, d
      <4>. QED
        BY <3>2, <1>0, <1>2, PlaceOrder
    <3>. QED
      BY <3>3, <2>1, <2>2, <2>8
  <2>. QED
    BY <2>6, <2>7, <2>8
<1>11. Lies(em, tt, flut, begin, flat, start, e, g)
  <2>. HIDE DEF em
  <2>. QED
    BY <1>0, <1>8, <1>9, <1>10 DEF Lies
<1> QED
  BY <1>11

(* What is kept of a list, at some of its positions. *)
Positions(K, s) ==
    /\ Len(s) \in Nat /\ DOMAIN s = 1..Len(s) /\ s \in [1..Len(s) -> {s[i] : i \in 1..Len(s)}]
    /\ K \in SUBSET (1..Len(s))

(* What Kept keeps of a list: how many, from where, and that all of it is  *)
(* the list.                                                               *)
LEMMA KeptFacts ==
    ASSUME NEW s, NEW K, Positions(K, s)
    PROVE  /\ Cardinality(K) \in Nat /\ Cardinality(K) <= Len(s)
           /\ Len(Kept(s, K)) = Cardinality(K) /\ DOMAIN Kept(s, K) = 1..Cardinality(K)
           /\ Kept(s, K) = [j \in 1..Cardinality(K) |-> Kept(s, K)[j]]
           /\ \A j \in 1..Cardinality(K) :
                Nth(K, j) \in K /\ Nth(K, j) \in 1..Len(s) /\ Kept(s, K)[j] = s[Nth(K, j)]
           /\ Increasing([j \in 1..Cardinality(K) |-> Nth(K, j)], Cardinality(K))
           /\ \A p \in K : \E j \in 1..Cardinality(K) : Nth(K, j) = p
           /\ Cardinality(K) = Len(s) => K = 1..Len(s)
           /\ K = 1..Len(s) => Kept(s, K) = s
<1>1. PICK n, T : n \in Nat /\ n = Len(s) /\ s \in [1..n -> T] /\ K \in SUBSET (1..n)
  BY DEF Positions
<1>2. /\ Cardinality(K) \in 0..n /\ \A j \in 1..Cardinality(K) : Nth(K, j) \in K
      /\ \A m, o \in 1..Cardinality(K) : m < o => Nth(K, m) < Nth(K, o)
      /\ \A i \in K : \E m \in 1..Cardinality(K) : Nth(K, m) = i
  BY <1>1, NthListsAll
<1>3. /\ Len(Kept(s, K)) = Cardinality(K)
      /\ DOMAIN Kept(s, K) = 1..Cardinality(K)
      /\ \A m \in 1..Cardinality(K) : Kept(s, K)[m] = s[Nth(K, m)]
      /\ K = 1..n => Kept(s, K) = s
  BY <1>1, KeptIsList
<1>4. ASSUME Cardinality(K) = n PROVE K = 1..n
  <2>1. IsFiniteSet(1..n) /\ Cardinality(1..n) = n
    <3>1. n \in Nat /\ n \in Int /\ 1 \in Int
      BY <1>1
    <3>2. IsFiniteSet(1..n) /\ Cardinality(1..n) = IF 1 > n THEN 0 ELSE n - 1 + 1
      BY <3>1, FS_Interval
    <3>. QED
      BY <3>1, <3>2
  <2>2. K \in SUBSET (1..n) /\ Cardinality(K) = Cardinality(1..n)
    BY <1>1, <1>4, <2>1
  <2>. QED
    BY <2>1, <2>2, FS_Subset
<1>5. Kept(s, K) = [j \in 1..Cardinality(K) |-> Kept(s, K)[j]]
  BY DEF Kept
<1>6. Increasing([j \in 1..Cardinality(K) |-> Nth(K, j)], Cardinality(K))
  BY <1>2 DEF Increasing
<1> QED
  BY <1>1, <1>2, <1>3, <1>4, <1>5, <1>6

(* Kept keeps the order and drops none of its positions.                   *)
LEMMA KeptOrder ==
    ASSUME NEW s, NEW K, Positions(K, s)
    PROVE  /\ Increasing([j \in 1..Cardinality(K) |-> Nth(K, j)], Cardinality(K))
           /\ \A p \in K : \E j \in 1..Cardinality(K) : Nth(K, j) = p
<1>1. PICK n \in Nat : K \in SUBSET (1..n)
  BY DEF Positions
<1>2. /\ \A m, o \in 1..Cardinality(K) : m < o => Nth(K, m) < Nth(K, o)
      /\ \A i \in K : \E m \in 1..Cardinality(K) : Nth(K, m) = i
  BY <1>1, NthListsAll
<1> QED
  BY <1>2 DEF Increasing

(* Lists of lists of the same lengths are laid out alike. *)
LEMMA LaidOutAlike ==
    ASSUME NEW ss, AreLists(ss), NEW start, Starts(ss, start),
           NEW tt, AreLists(tt), Len(tt) = Len(ss), \A i \in 1..Len(ss) : Len(tt[i]) = Len(ss[i])
    PROVE  Flattens(tt, FlattenSeq(tt), start)
<1>1. PICK n, T : n \in Nat /\ tt \in [1..n -> Seq(T)]
  BY DEF AreLists
<1>2. Len(tt) = n /\ Len(ss) = n
  BY <1>1
<1>3. Starts(tt, start)
  BY <1>2 DEF Starts
<1> QED
  BY <1>1, <1>3, FlattenFlattens

-----------------------------------------------------------------------------
(* A list's domain is an initial segment of the naturals. *)
LEMMA ListDomain ==
    ASSUME NEW s, IsList(s)
    PROVE  /\ Len(s) \in Nat
           /\ DOMAIN s = 1..Len(s)
           /\ s \in [1..Len(s) -> Range(s)]
BY DEF IsList

(* An empty checkCFG report means each of its rules holds. *)
LEMMA CheckedGraph ==
    ASSUME NEW fn, IsFunction(fn), CheckCfg(fn) = {}
    PROVE  /\ fn.blocks # <<>>
           /\ UniqueLabels(fn)
           /\ EndsInTerminator(fn)
           /\ NothingAfterTerminator(fn)
           /\ TargetsExist(fn)
           /\ EntryHasNoPredecessor(fn)
<1>1. fn.blocks # <<>>
  BY DEF CheckCfg
<1>2. {e \in {"CIR09", "CIR01", "CIR02", "CIR03", "CIR05"} :
            \/ e = "CIR09" /\ ~UniqueLabels(fn)
            \/ e = "CIR01" /\ ~EndsInTerminator(fn)
            \/ e = "CIR02" /\ ~NothingAfterTerminator(fn)
            \/ e = "CIR03" /\ ~TargetsExist(fn)
            \/ e = "CIR05" /\ ~EntryHasNoPredecessor(fn)} = {}
  BY <1>1 DEF CheckCfg
<1> QED
  BY <1>1, <1>2

(* Function::block finds the one block that carries the label. *)
LEMMA BlockOfLabel ==
    ASSUME NEW fn, IsFunction(fn), CheckCfg(fn) = {}, NEW l \in Labels(fn)
    PROVE  \E i \in DOMAIN fn.blocks :
              /\ fn.blocks[i].label = l
              /\ Block(fn, l) = fn.blocks[i]
<1>1. PICK i \in DOMAIN fn.blocks : fn.blocks[i].label = l
  BY DEF Labels
<1>2. IsList(fn.blocks) /\ UniqueLabels(fn)
  BY CheckedGraph DEF IsFunction
<1>3. DOMAIN fn.blocks = 1..Len(fn.blocks) /\ Len(fn.blocks) \in Nat
  BY <1>2, ListDomain
<1>4. \A j \in 1..(i - 1) : fn.blocks[j].label # l
  <2>. SUFFICES ASSUME NEW j \in 1..(i - 1) PROVE fn.blocks[j].label # l
    OBVIOUS
  <2>1. j \in DOMAIN fn.blocks /\ j # i
    BY <1>1, <1>3
  <2>. QED
    BY <2>1, <1>1, <1>2 DEF UniqueLabels
<1>5. \A j \in DOMAIN fn.blocks : fn.blocks[j].label = l => j = i
  BY <1>1, <1>2 DEF UniqueLabels
<1>6. (CHOOSE j \in DOMAIN fn.blocks :
          /\ fn.blocks[j].label = l
          /\ \A k \in 1..(j - 1) : fn.blocks[k].label # l) = i
  BY <1>1, <1>4, <1>5
<1> QED
  BY <1>1, <1>6 DEF Block

(* In a checked graph every edge leads to a block of the function. *)
LEMMA SuccessorsAreLabels ==
    ASSUME NEW fn, IsFunction(fn), CheckCfg(fn) = {}, NEW l \in Labels(fn)
    PROVE  /\ Successors(fn, l) \in Seq(Labels(fn))
           /\ Range(Successors(fn, l)) \subseteq Labels(fn)
<1>1. PICK i \in DOMAIN fn.blocks :
          fn.blocks[i].label = l /\ Block(fn, l) = fn.blocks[i]
  BY BlockOfLabel
<1>2. Successors(fn, l) = BlockSuccessors(fn.blocks[i])
  BY <1>1 DEF Successors
<1>3. fn.blocks[i] \in Range(fn.blocks)
  BY <1>1 DEF Range
<1>4. Range(Successors(fn, l)) \subseteq Labels(fn)
  BY <1>2, <1>3, CheckedGraph DEF TargetsExist
<1>5. Successors(fn, l) \in Seq(Range(Successors(fn, l)))
  <2> DEFINE b == fn.blocks[i]
  <2>1. IsList(b.instrs) /\ \A ins \in Range(b.instrs) : IsList(ins.labels)
    BY <1>3 DEF IsFunction, IsInstr
  <2>2. CASE HasTerminator(b)
    <3>1. b.instrs # <<>> /\ DOMAIN b.instrs = 1..Len(b.instrs) /\ Len(b.instrs) \in Nat
      BY <2>1, <2>2, ListDomain DEF HasTerminator
    <3>2. Len(b.instrs) # 0
      BY <2>1, <3>1 DEF IsList
    <3>3. b.instrs[Len(b.instrs)] \in Range(b.instrs)
      BY <3>1, <3>2 DEF Range
    <3>. QED
      BY <1>2, <2>1, <2>2, <3>3 DEF BlockSuccessors, IsList
  <2>3. CASE ~HasTerminator(b)
    BY <1>2, <2>3 DEF BlockSuccessors
  <2>. QED
    BY <2>2, <2>3
<1>6. Successors(fn, l) \in Seq(Labels(fn))
  <2>1. /\ Len(Successors(fn, l)) \in Nat
        /\ Successors(fn, l) \in
              [1..Len(Successors(fn, l)) -> Range(Successors(fn, l))]
    BY <1>5
  <2>2. Successors(fn, l) \in [1..Len(Successors(fn, l)) -> Labels(fn)]
    BY <2>1, <1>4
  <2>. QED
    BY <2>1, <2>2
<1> QED
  BY <1>4, <1>6

(* predecessors() is the inverse of the edges. *)
LEMMA PredecessorsInvertEdges ==
    ASSUME NEW fn, IsFunction(fn), CheckCfg(fn) = {}, NEW p, NEW l
    PROVE  p \in Predecessors(fn, l)
              <=> p \in Labels(fn) /\ l \in Range(Successors(fn, p))
<1>1. ASSUME p \in Predecessors(fn, l)
      PROVE  p \in Labels(fn) /\ l \in Range(Successors(fn, p))
  <2>1. PICK i \in DOMAIN fn.blocks :
           fn.blocks[i].label = p /\ l \in Range(BlockSuccessors(fn.blocks[i]))
    BY <1>1 DEF Predecessors
  <2>2. p \in Labels(fn)
    BY <2>1 DEF Labels
  <2>3. PICK j \in DOMAIN fn.blocks :
           fn.blocks[j].label = p /\ Block(fn, p) = fn.blocks[j]
    BY <2>2, BlockOfLabel
  <2>4. i = j
    BY <2>1, <2>3, CheckedGraph DEF UniqueLabels
  <2>. QED
    BY <2>1, <2>2, <2>3, <2>4 DEF Successors
<1>2. ASSUME p \in Labels(fn), l \in Range(Successors(fn, p))
      PROVE  p \in Predecessors(fn, l)
  <2>1. PICK j \in DOMAIN fn.blocks :
           fn.blocks[j].label = p /\ Block(fn, p) = fn.blocks[j]
    BY <1>2, BlockOfLabel
  <2>. QED
    BY <1>2, <2>1 DEF Successors, Predecessors
<1> QED
  BY <1>1, <1>2

(* The entry is a label, and no edge leads to it. *)
LEMMA EntryFacts ==
    ASSUME NEW fn, IsFunction(fn), CheckCfg(fn) = {}
    PROVE  /\ Entry(fn) \in Labels(fn)
           /\ EntryLabels(fn) = {Entry(fn)}
           /\ \A p \in Labels(fn) : Entry(fn) \notin Range(Successors(fn, p))
<1>1. fn.blocks # <<>> /\ IsList(fn.blocks)
  BY CheckedGraph DEF IsFunction
<1>2. 1 \in DOMAIN fn.blocks
  BY <1>1, ListDomain DEF IsList
<1>3. Predecessors(fn, Entry(fn)) = {}
  BY CheckedGraph DEF EntryHasNoPredecessor
<1> QED
  BY <1>1, <1>2, <1>3, PredecessorsInvertEdges DEF Labels, Entry, EntryLabels

(* What a block defines are registers of the function. *)
LEMMA DefinedAreRegs ==
    ASSUME NEW fn, IsFunction(fn), CheckCfg(fn) = {}, NEW l \in Labels(fn),
           NEW avail \in SUBSET AllRegs(fn)
    PROVE  DefinedBy(fn, l, avail) \subseteq AllRegs(fn)
<1>1. PICK i \in DOMAIN fn.blocks : Block(fn, l) = fn.blocks[i]
  BY BlockOfLabel
<1>2. fn.blocks[i] \in Range(fn.blocks) /\ IsList(fn.blocks[i].instrs)
  BY DEF Range, IsFunction
<1>3. \A j \in 1..Len(Instrs(fn, l)) : Instrs(fn, l)[j] \in Range(fn.blocks[i].instrs)
  BY <1>1, <1>2, ListDomain DEF Range, Instrs
<1>4. \A j \in 1..Len(Instrs(fn, l)) : Dest(Instrs(fn, l)[j]) \subseteq AllRegs(fn)
  BY <1>2, <1>3 DEF AllRegs, Instructions
<1> QED
  BY <1>4 DEF DefinedBy, DefinedBefore

(* The labels some path leads to form a closed set. *)
LEMMA OnSomePathClosed ==
    ASSUME NEW f, IsFunction(f), CheckCfg(f) = {}
    PROVE  ClosedUnderEdges(f, OnSomePath(f)) /\ OnSomePath(f) \subseteq Labels(f)
<1>1. Entry(f) \in OnSomePath(f)
  BY EntryFacts DEF OnSomePath, ClosedUnderEdges
<1>2. ASSUME NEW l \in OnSomePath(f), NEW m \in Range(Successors(f, l))
      PROVE  m \in OnSomePath(f)
  <2>1. l \in Labels(f) /\ m \in Labels(f)
    BY <1>2, SuccessorsAreLabels DEF OnSomePath
  <2>2. ASSUME NEW S \in SUBSET Labels(f), ClosedUnderEdges(f, S) PROVE m \in S
    <3>1. l \in S
      BY <2>2 DEF OnSomePath
    <3>. QED
      BY <3>1, <2>2, <1>2 DEF ClosedUnderEdges
  <2>. QED
    BY <2>1, <2>2 DEF OnSomePath
<1> QED
  BY <1>1, <1>2 DEF ClosedUnderEdges, OnSomePath

(* The labels a register is missing at are closed under the edges out of *)
(* blocks that do not define it.                                         *)
LEMMA MissingClosed ==
    ASSUME NEW f, IsFunction(f), CheckCfg(f) = {}, NEW r
    PROVE  ClosedAvoiding(f, r, MissingAt(f, r))
<1>1. r \notin Params(f) => Entry(f) \in MissingAt(f, r)
  BY EntryFacts DEF MissingAt, ClosedAvoiding
<1>2. ASSUME NEW l \in MissingAt(f, r), r \notin DefinedBy(f, l, {}),
             NEW m \in Range(Successors(f, l))
      PROVE  m \in MissingAt(f, r)
  <2>1. l \in Labels(f) /\ m \in Labels(f)
    BY <1>2, SuccessorsAreLabels DEF MissingAt
  <2>2. ASSUME NEW S \in SUBSET Labels(f), ClosedAvoiding(f, r, S) PROVE m \in S
    <3>1. l \in S
      BY <2>2 DEF MissingAt
    <3>. QED
      BY <3>1, <2>2, <1>2 DEF ClosedAvoiding
  <2>. QED
    BY <2>1, <2>2 DEF MissingAt
<1> QED
  BY <1>1, <1>2 DEF ClosedAvoiding

(* Popping a stack takes one element off its range at most. *)
LEMMA PopStack ==
    ASSUME NEW S, NEW w \in Seq(S), w # <<>>
    PROVE  /\ w[Len(w)] \in S
           /\ SubSeq(w, 1, Len(w) - 1) \in Seq(S)
           /\ Range(w) = Range(SubSeq(w, 1, Len(w) - 1)) \cup {w[Len(w)]}
<1> DEFINE n == Len(w)
           rest == SubSeq(w, 1, n - 1)
<1>1. n \in Nat /\ n >= 1 /\ w \in [1..n -> S]
  OBVIOUS
<1>2. /\ rest \in Seq(S)
      /\ Len(rest) = n - 1
      /\ \A i \in 1..(n - 1) : rest[i] = w[i]
  <2>1. \A i \in 1..(n - 1) : w[i] \in S
    BY <1>1
  <2>2. /\ rest \in Seq(S)
        /\ Len(rest) = IF 1 <= n - 1 THEN (n - 1) - 1 + 1 ELSE 0
        /\ \A i \in 1..((n - 1) - 1 + 1) : rest[i] = w[1 + i - 1]
    BY <1>1, <2>1, SubSeqProperties
  <2>. QED
    BY <1>1, <2>2
<1>3. Range(w) = {w[i] : i \in 1..n} /\ Range(rest) = {rest[i] : i \in 1..(n - 1)}
  BY <1>2, RangeEquality
<1>4. 1..n = 1..(n - 1) \cup {n}
  BY <1>1
<1>5. Range(rest) = {w[i] : i \in 1..(n - 1)}
  BY <1>2, <1>3
<1> QED
  BY <1>1, <1>2, <1>3, <1>4, <1>5

(* A terminator has two targets at most. *)
LEMMA AtMostTwoSuccessors ==
    ASSUME NEW fn, IsFunction(fn), CheckCfg(fn) = {}, NEW l \in Labels(fn)
    PROVE  Len(Successors(fn, l)) \in 0..2
<1>1. PICK i \in DOMAIN fn.blocks :
          fn.blocks[i].label = l /\ Block(fn, l) = fn.blocks[i]
  BY BlockOfLabel
<1> DEFINE b == fn.blocks[i]
<1>2. b \in Range(fn.blocks)
  BY <1>1 DEF Range
<1>3. IsList(b.instrs) /\ \A ins \in Range(b.instrs) : IsInstr(ins)
  BY <1>2 DEF IsFunction
<1>4. HasTerminator(b)
  BY <1>2, CheckedGraph DEF EndsInTerminator
<1> DEFINE last == b.instrs[Len(b.instrs)]
<1>5. last \in Range(b.instrs) /\ last.op \in {"br", "br.cond", "ret"}
  <2>1. b.instrs # <<>> /\ DOMAIN b.instrs = 1..Len(b.instrs) /\ Len(b.instrs) \in Nat
    BY <1>3, <1>4, ListDomain DEF HasTerminator
  <2>2. Len(b.instrs) # 0
    BY <1>3, <2>1 DEF IsList
  <2>. QED
    BY <1>4, <2>1, <2>2 DEF Range, HasTerminator, IsTerminator, Terminators
<1>6. Len(last.labels) \in 0..2
  BY <1>3, <1>5 DEF IsInstr
<1> QED
  BY <1>1, <1>4, <1>6 DEF Successors, BlockSuccessors

(* A list is its head and what follows. *)
LEMMA HeadAndTail ==
    ASSUME NEW S, NEW w \in Seq(S), w # <<>>
    PROVE  /\ Head(w) \in S
           /\ Tail(w) \in Seq(S)
           /\ Range(w) = {Head(w)} \cup Range(Tail(w))
<1>1. Head(w) \in S /\ Tail(w) \in Seq(S)
  OBVIOUS
<1>2. Range(w) = {w[i] : i \in 1..Len(w)}
  BY RangeEquality
<1>3. Range(Tail(w)) = {w[i] : i \in 2..Len(w)}
  <2> DEFINE t == Tail(w)
             n == Len(w)
  <2>1. Range(t) = {t[i] : i \in 1..(n - 1)} /\ n \in Nat
    <3>1. Range(t) = {t[i] : i \in 1..Len(t)}
      BY <1>1, RangeEquality
    <3>. QED
      BY <3>1
  <2>2. \A i \in 1..(n - 1) : t[i] = w[i + 1]
    OBVIOUS
  <2>. HIDE DEF t, n
  <2>3. ASSUME NEW i \in 2..n PROVE w[i] \in Range(t)
    BY <2>1, <2>2, i - 1 \in 1..(n - 1), w[i] = t[i - 1]
  <2>4. ASSUME NEW i \in 1..(n - 1) PROVE t[i] \in {w[j] : j \in 2..n}
    BY <2>1, <2>2, i + 1 \in 2..n
  <2>5. Range(t) = {w[i] : i \in 2..n}
    BY <2>1, <2>3, <2>4
  <2>. QED
    BY <2>5 DEF t, n
<1>4. 1..Len(w) = {1} \cup 2..Len(w) /\ Head(w) = w[1]
  OBVIOUS
<1> QED
  BY <1>1, <1>2, <1>3, <1>4
=============================================================================
