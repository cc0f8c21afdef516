-------------------------- MODULE WasmFlow_proofs --------------------------
(***************************************************************************)
(* The body of a WebAssembly function nests its regions, every branch of   *)
(* it is inside the region it names, and a run of it is a walk over the    *)
(* graph of the function: of the regions of structure() as of the dispatch *)
(* loop, for every function whose graph passes checkCFG.                   *)
(***************************************************************************)
EXTENDS WasmFlow, Structurer_proofs

(***************************************************************************)
(* Nesting.  A text is followed by its depth: how many regions are open    *)
(* after each mark.  Beside its kind and its label a mark has what it      *)
(* wants: the regions, by kind and label, that must be around it.          *)
(***************************************************************************)
Numbered(s) == Len(s) \in Nat /\ DOMAIN s = 1..Len(s)
Turn(k) == IF k \in Opens THEN 1 ELSE IF k = "end" THEN -1 ELSE 0
Profile(s, d) ==
    /\ d \in [0..Len(s) -> Int] /\ d[0] = 0
    /\ \A i \in 1..Len(s) : d[i] = d[i - 1] + Turn(s[i].k)
Level(s, d) == Profile(s, d) /\ d[Len(s)] = 0 /\ \A i \in 0..Len(s) : d[i] >= 0
Keeps(d, p, q) == \A j \in p..q : d[j] >= d[p]

(* The regions around a place, an if with its else, and a text in which    *)
(* every mark has what it wants, but for what is in w.                     *)
IsAround(s, d, o, i) == o \in 1..(i - 1) /\ s[o].k \in Opens /\ Keeps(d, o, i - 1)
Named(s, d, i) == {<<s[o].k, s[o].l>> : o \in {j \in 1..(i - 1) : IsAround(s, d, j, i)}}
Parts(s, d, p) ==
    \E q \in (p + 1)..Len(s) : s[q].k = "else" /\ d[q] = d[p] /\ Keeps(d, p, q)
Fits(s, d, w) ==
    /\ Numbered(s) /\ Level(s, d)
    /\ \A i \in 1..Len(s) :
          (s[i].k = "if" => Parts(s, d, i)) /\ s[i].w \subseteq w \cup Named(s, d, i)

(* A call is replaced by what it makes.                                    *)
Placed(s, t, new, n, k, m) ==
    /\ Len(s) = n + 1 + m /\ Len(t) = n + k + m /\ Len(new) = k /\ Numbered(t)
    /\ \A i \in 1..n : t[i] = s[i]
    /\ \A i \in 1..k : t[n + i] = new[i]
    /\ \A i \in 1..m : t[n + k + i] = s[n + 1 + i]
Deepened(d, e, n, k, m) ==
    [i \in 0..(n + k + m) |-> IF i <= n THEN d[i]
                              ELSE IF i <= n + k THEN d[n] + e[i - n] ELSE d[i - k + 1]]

(* The depths are those before, and those inside what the call makes upon  *)
(* the depth of the call.                                                  *)
Deepens(f, d, e, n, k, m) ==
    /\ f \in [0..(n + k + m) -> Int]
    /\ \A i \in 0..n : f[i] = d[i]
    /\ \A i \in 0..k : f[n + i] = d[n] + e[i]
    /\ \A i \in 0..m : f[n + k + i] = d[n + 1 + i]

(* The new depths are as Deepens says. *)
LEMMA DeepenedFacts ==
    ASSUME NEW n \in Nat, NEW k \in Nat, NEW m \in Nat, NEW s, NEW t, NEW new, NEW d, NEW e,
           Placed(s, t, new, n, k, m), Level(s, d), Level(new, e), s[n + 1].k = "call"
    PROVE  Deepens(Deepened(d, e, n, k, m), d, e, n, k, m)
<1>0. PICK f : f = Deepened(d, e, n, k, m)
  OBVIOUS
<1>1. d \in [0..(n + 1 + m) -> Int] /\ e \in [0..k -> Int] /\ e[0] = 0 /\ e[k] = 0
  BY DEF Placed, Level, Profile
<1>2. d[n + 1] = d[n]
  <2>1. n + 1 \in 1..(n + 1 + m) /\ (n + 1) - 1 = n
    OBVIOUS
  <2>2. d[n + 1] = d[(n + 1) - 1] + Turn(s[n + 1].k)
    BY <2>1 DEF Placed, Level, Profile
  <2>3. Turn(s[n + 1].k) = 0
    BY DEF Turn, Opens
  <2>4. d[n] \in Int
    BY <1>1
  <2>. QED
    BY <2>1, <2>2, <2>3, <2>4
<1>3. ASSUME NEW i \in 0..(n + k + m)
      PROVE  f[i] = IF i <= n THEN d[i] ELSE IF i <= n + k THEN d[n] + e[i - n] ELSE d[i - k + 1]
  BY <1>0 DEF Deepened
<1>4. f \in [0..(n + k + m) -> Int]
  <2>1. ASSUME NEW i \in 0..(n + k + m) PROVE f[i] \in Int
    <3>1. i <= n => d[i] \in Int
      BY <1>1
    <3>2. i > n /\ i <= n + k => d[n] \in Int /\ e[i - n] \in Int
      <4>1. i > n /\ i <= n + k => i - n \in 0..k /\ n \in 0..(n + 1 + m)
        OBVIOUS
      <4>. QED
        BY <1>1, <4>1
    <3>3. i > n + k => d[i - k + 1] \in Int
      <4>1. i > n + k => i - k + 1 \in 0..(n + 1 + m)
        OBVIOUS
      <4>. QED
        BY <1>1, <4>1
    <3>. QED
      BY <1>3, <3>1, <3>2, <3>3
  <2>2. f = [i \in 0..(n + k + m) |-> f[i]]
    BY <1>0 DEF Deepened
  <2>. QED
    BY <2>1, <2>2
<1>5. \A i \in 0..n : f[i] = d[i]
  BY <1>3
<1>6. ASSUME NEW i \in 0..k PROVE f[n + i] = d[n] + e[i]
  <2>1. CASE i = 0
    <3>1. n + i = n /\ d[n] \in Int
      BY <1>1, <2>1
    <3>. QED
      BY <1>1, <1>5, <2>1, <3>1
  <2>2. CASE i # 0
    <3>1. n + i \in 0..(n + k + m) /\ ~(n + i <= n) /\ n + i <= n + k /\ (n + i) - n = i
      BY <2>2
    <3>. QED
      BY <1>3, <3>1
  <2>. QED
    BY <2>1, <2>2
<1>7. ASSUME NEW i \in 0..m PROVE f[n + k + i] = d[n + 1 + i]
  <2>1. CASE i = 0
    <3>1. n + k + i = n + k /\ n + 1 + i = n + 1 /\ d[n] \in Int /\ k \in 0..k
      BY <1>1, <2>1
    <3>2. f[n + k] = d[n] + e[k]
      BY <1>6, <3>1
    <3>. QED
      BY <1>1, <1>2, <3>1, <3>2
  <2>2. CASE i # 0
    <3>1. /\ n + k + i \in 0..(n + k + m) /\ ~(n + k + i <= n) /\ ~(n + k + i <= n + k)
          /\ (n + k + i) - k + 1 = n + 1 + i
      BY <2>2
    <3>. QED
      BY <1>3, <3>1
  <2>. QED
    BY <2>1, <2>2
<1> QED
  BY <1>0, <1>4, <1>5, <1>6, <1>7 DEF Deepens

(* They are the depths of the new text. *)
LEMMA DeepenedLevel ==
    ASSUME NEW n \in Nat, NEW k \in Nat, NEW m \in Nat, NEW s, NEW t, NEW new, NEW d, NEW e, NEW f,
           Placed(s, t, new, n, k, m), Level(s, d), Level(new, e), Deepens(f, d, e, n, k, m)
    PROVE  Level(t, f)
<1>1. /\ d \in [0..(n + 1 + m) -> Int] /\ e \in [0..k -> Int] /\ f \in [0..(n + k + m) -> Int]
      /\ d[0] = 0 /\ e[0] = 0 /\ e[k] = 0 /\ d[n + 1 + m] = 0
      /\ \A i \in 0..(n + 1 + m) : d[i] >= 0
      /\ \A i \in 0..k : e[i] >= 0
  BY DEF Placed, Level, Profile, Deepens
<1>2. /\ \A i \in 1..(n + 1 + m) : d[i] = d[i - 1] + Turn(s[i].k)
      /\ \A i \in 1..k : e[i] = e[i - 1] + Turn(new[i].k)
  BY DEF Placed, Level, Profile
<1>3. /\ \A i \in 0..n : f[i] = d[i]
      /\ \A i \in 0..k : f[n + i] = d[n] + e[i]
      /\ \A i \in 0..m : f[n + k + i] = d[n + 1 + i]
  BY DEF Deepens
<1>4. /\ \A i \in 1..n : t[i] = s[i]
      /\ \A i \in 1..k : t[n + i] = new[i]
      /\ \A i \in 1..m : t[n + k + i] = s[n + 1 + i]
      /\ Len(t) = n + k + m
  BY DEF Placed
<1>5. \A c : Turn(c) \in Int
  BY DEF Turn
<1>6. ASSUME NEW i \in 1..(n + k + m) PROVE f[i] = f[i - 1] + Turn(t[i].k)
  <2>1. CASE i <= n
    <3>1. i \in 0..n /\ i - 1 \in 0..n /\ i \in 1..n /\ i \in 1..(n + 1 + m)
      BY <2>1
    <3>. QED
      BY <1>2, <1>3, <1>4, <3>1
  <2>2. CASE i > n /\ i <= n + k
    <3>1. PICK j \in 1..k : j = i - n
      BY <2>2
    <3>2. i = n + j /\ i - 1 = n + (j - 1) /\ j \in 0..k /\ j - 1 \in 0..k
      BY <3>1
    <3>3. f[i] = d[n] + e[j] /\ f[i - 1] = d[n] + e[j - 1] /\ e[j] = e[j - 1] + Turn(new[j].k) /\ t[i] = new[j]
      BY <1>2, <1>3, <1>4, <3>2
    <3>4. d[n] \in Int /\ e[j] \in Int /\ e[j - 1] \in Int /\ Turn(new[j].k) \in Int
      BY <1>1, <1>5, <3>2
    <3>. QED
      BY <3>3, <3>4
  <2>3. CASE i > n + k
    <3>1. PICK j \in 1..m : j = i - n - k
      BY <2>3
    <3>2. /\ i = n + k + j /\ i - 1 = n + k + (j - 1) /\ j \in 0..m /\ j - 1 \in 0..m
          /\ n + 1 + j \in 1..(n + 1 + m) /\ n + 1 + (j - 1) = (n + 1 + j) - 1
      BY <3>1
    <3>3. /\ f[i] = d[n + 1 + j] /\ f[i - 1] = d[n + 1 + (j - 1)] /\ t[i] = s[n + 1 + j]
      BY <1>3, <1>4, <3>2
    <3>4. d[n + 1 + j] = d[(n + 1 + j) - 1] + Turn(s[n + 1 + j].k)
      BY <1>2, <3>2
    <3>. QED
      BY <3>2, <3>3, <3>4
  <2>. QED
    BY <2>1, <2>2, <2>3
<1>7. ASSUME NEW i \in 0..(n + k + m) PROVE f[i] >= 0
  <2>1. CASE i <= n
    <3>1. i \in 0..n /\ i \in 0..(n + 1 + m)
      BY <2>1
    <3>. QED
      BY <1>1, <1>3, <3>1
  <2>2. CASE i > n /\ i <= n + k
    <3>1. PICK j \in 0..k : i = n + j
      <4>1. i - n \in 0..k /\ i = n + (i - n)
        BY <2>2
      <4>. QED
        BY <4>1
    <3>2. f[i] = d[n] + e[j] /\ d[n] >= 0 /\ e[j] >= 0 /\ d[n] \in Int /\ e[j] \in Int
      BY <1>1, <1>3, <3>1
    <3>. QED
      BY <3>2
  <2>3. CASE i > n + k
    <3>1. PICK j \in 0..m : i = n + k + j
      <4>1. i - n - k \in 0..m /\ i = n + k + (i - n - k)
        BY <2>3
      <4>. QED
        BY <4>1
    <3>2. n + 1 + j \in 0..(n + 1 + m)
      OBVIOUS
    <3>. QED
      BY <1>1, <1>3, <3>1, <3>2
  <2>. QED
    BY <2>1, <2>2, <2>3
<1>8. f[n + k + m] = 0 /\ f[0] = 0
  BY <1>1, <1>3
<1> QED
  BY <1>1, <1>4, <1>6, <1>7, <1>8 DEF Level, Profile

(* A region around a place is around the same place in the new text, ...   *)
LEMMA AroundBefore ==
    ASSUME NEW n \in Nat, NEW k \in Nat, NEW m \in Nat, NEW s, NEW t, NEW new, NEW d, NEW e, NEW f,
           Placed(s, t, new, n, k, m), Level(s, d), Level(new, e), Deepens(f, d, e, n, k, m),
           NEW i \in 1..n, NEW o, IsAround(s, d, o, i)
    PROVE  IsAround(t, f, o, i) /\ t[o] = s[o]
<1>1. o \in 1..(i - 1) /\ o \in 1..n /\ o \in 0..n
  BY DEF IsAround
<1>2. t[o] = s[o]
  BY <1>1 DEF Placed
<1>3. ASSUME NEW j \in o..(i - 1) PROVE f[j] >= f[o]
  <2>1. j \in 0..n
    BY <1>1
  <2>2. f[j] = d[j] /\ f[o] = d[o]
    BY <1>1, <2>1 DEF Deepens
  <2>. QED
    BY <2>2 DEF IsAround, Keeps
<1> QED
  BY <1>1, <1>2, <1>3 DEF IsAround, Keeps

(* one around the call is around all that the call makes,                  *)
LEMMA AroundCall ==
    ASSUME NEW n \in Nat, NEW k \in Nat, NEW m \in Nat, NEW s, NEW t, NEW new, NEW d, NEW e, NEW f,
           Placed(s, t, new, n, k, m), Level(s, d), Level(new, e), Deepens(f, d, e, n, k, m),
           NEW h \in {n + 1}, NEW p \in (n + 1)..(n + k + 1), NEW o, IsAround(s, d, o, h)
    PROVE  IsAround(t, f, o, p) /\ t[o] = s[o]
<1>1. o \in 1..n /\ o \in 0..n /\ n \in 0..n /\ s[o].k \in Opens /\ \A j \in o..n : d[j] >= d[o]
  <2>1. (n + 1) - 1 = n
    OBVIOUS
  <2>. QED
    BY <2>1 DEF IsAround, Keeps
<1>2. t[o] = s[o]
  BY <1>1 DEF Placed
<1>3. ASSUME NEW j \in o..(p - 1) PROVE f[j] >= f[o]
  <2>0. f[o] = d[o]
    BY <1>1 DEF Deepens
  <2>1. CASE j <= n
    <3>1. j \in 0..n /\ j \in o..n
      BY <1>1, <2>1
    <3>2. f[j] = d[j]
      BY <3>1 DEF Deepens
    <3>. QED
      BY <1>1, <2>0, <3>1, <3>2
  <2>2. CASE j > n
    <3>1. PICK l \in 0..k : j = n + l
      <4>1. j - n \in 0..k /\ j = n + (j - n)
        BY <2>2
      <4>. QED
        BY <4>1
    <3>2. f[n + l] = d[n] + e[l]
      BY DEF Deepens
    <3>3. e[l] >= 0 /\ e[l] \in Int
      BY DEF Placed, Level, Profile
    <3>4. d[n] \in Int /\ d[o] \in Int
      <4>1. n \in 0..(n + 1 + m) /\ o \in 0..(n + 1 + m)
        BY <1>1
      <4>. QED
        BY <4>1 DEF Placed, Level, Profile
    <3>5. d[n] >= d[o]
      BY <1>1
    <3>. QED
      BY <2>0, <3>1, <3>2, <3>3, <3>4, <3>5
  <2>. QED
    BY <1>1, <2>1, <2>2
<1>4. o \in 1..(p - 1)
  BY <1>1
<1> QED
  BY <1>1, <1>2, <1>3, <1>4 DEF IsAround, Keeps

(* one inside what the call makes is,                                      *)
LEMMA AroundInside ==
    ASSUME NEW n \in Nat, NEW k \in Nat, NEW m \in Nat, NEW s, NEW t, NEW new, NEW d, NEW e, NEW f,
           Placed(s, t, new, n, k, m), Level(s, d), Level(new, e), Deepens(f, d, e, n, k, m),
           NEW i \in 1..k, NEW p, p = n + i, NEW o, IsAround(new, e, o, i)
    PROVE  \E q : IsAround(t, f, q, p) /\ t[q] = new[o]
<1>1. o \in 1..(i - 1) /\ o \in 1..k /\ new[o].k \in Opens /\ \A j \in o..(i - 1) : e[j] >= e[o]
  BY DEF IsAround, Keeps
<1>2. t[n + o] = new[o]
  BY <1>1 DEF Placed
<1>3. ASSUME NEW j \in (n + o)..(n + i - 1) PROVE f[j] >= f[n + o]
  <2>1. PICK l \in o..(i - 1) : j = n + l
    <3>1. j - n \in o..(i - 1) /\ j = n + (j - n)
      BY <1>1
    <3>. QED
      BY <3>1
  <2>2. l \in 0..k /\ o \in 0..k
    BY <1>1
  <2>3. f[n + l] = d[n] + e[l] /\ f[n + o] = d[n] + e[o]
    BY <2>2 DEF Deepens
  <2>4. d[n] \in Int /\ e[l] \in Int /\ e[o] \in Int
    <3>1. n \in 0..(n + 1 + m)
      OBVIOUS
    <3>. QED
      BY <2>2, <3>1 DEF Placed, Level, Profile
  <2>. QED
    BY <1>1, <2>1, <2>3, <2>4
<1>4. n + o \in 1..(n + i - 1)
  BY <1>1
<1> QED
  BY <1>1, <1>2, <1>3, <1>4 DEF IsAround, Keeps

(* and one around a place behind the call is, moved with it or not.        *)
LEMMA KeepsAcross ==
    ASSUME NEW n \in Nat, NEW k \in Nat, NEW m \in Nat, NEW s, NEW t, NEW new, NEW d, NEW e, NEW f,
           Placed(s, t, new, n, k, m), Level(s, d), Level(new, e), Deepens(f, d, e, n, k, m),
           NEW i \in 0..m, NEW o \in 1..n, Keeps(d, o, n + 1 + i)
    PROVE  Keeps(f, o, n + k + i)
<1>1. o \in 0..n /\ \A j \in o..(n + 1 + i) : d[j] >= d[o]
  BY DEF Keeps
<1>2. f[o] = d[o] /\ d[o] \in Int /\ d[n] \in Int /\ d[n] >= d[o]
  <2>1. o \in 0..(n + 1 + m) /\ n \in 0..(n + 1 + m) /\ n \in o..(n + 1 + i)
    BY <1>1
  <2>. QED
    BY <1>1, <2>1 DEF Deepens, Placed, Level, Profile
<1>3. ASSUME NEW j \in o..(n + k + i) PROVE f[j] >= f[o]
  <2>1. CASE j <= n
    <3>1. j \in 0..n /\ j \in o..(n + 1 + i)
      BY <1>1, <2>1
    <3>2. f[j] = d[j]
      BY <3>1 DEF Deepens
    <3>. QED
      BY <1>1, <1>2, <3>1, <3>2
  <2>2. CASE j > n /\ j <= n + k
    <3>1. PICK l \in 0..k : j = n + l
      <4>1. j - n \in 0..k /\ j = n + (j - n)
        BY <2>2
      <4>. QED
        BY <4>1
    <3>2. f[n + l] = d[n] + e[l]
      BY DEF Deepens
    <3>3. e[l] >= 0 /\ e[l] \in Int
      BY DEF Placed, Level, Profile
    <3>. QED
      BY <1>2, <3>1, <3>2, <3>3
  <2>3. CASE j > n + k
    <3>1. PICK l \in 0..i : j = n + k + l
      <4>1. j - n - k \in 0..i /\ j = n + k + (j - n - k)
        BY <2>3
      <4>. QED
        BY <4>1
    <3>2. l \in 0..m /\ n + 1 + l \in o..(n + 1 + i)
      OBVIOUS
    <3>3. f[n + k + l] = d[n + 1 + l]
      BY <3>2 DEF Deepens
    <3>. QED
      BY <1>1, <1>2, <3>1, <3>2, <3>3
  <2>. QED
    BY <1>1, <2>1, <2>2, <2>3
<1> QED
  BY <1>3 DEF Keeps

(* Behind what was made the depths keep as they did, *)
LEMMA KeepsBehind ==
    ASSUME NEW n \in Nat, NEW k \in Nat, NEW m \in Nat, NEW d, NEW e, NEW f, Deepens(f, d, e, n, k, m),
           NEW i \in 0..m, NEW o \in 1..m, Keeps(d, n + 1 + o, n + 1 + i)
    PROVE  Keeps(f, n + k + o, n + k + i)
<1>1. ASSUME NEW j \in (n + k + o)..(n + k + i) PROVE f[j] >= f[n + k + o]
  <2>1. PICK l \in o..i : j = n + k + l
    <3>1. j - n - k \in o..i /\ j = n + k + (j - n - k)
      OBVIOUS
    <3>. QED
      BY <3>1
  <2>2. l \in 0..m /\ o \in 0..m /\ n + 1 + l \in (n + 1 + o)..(n + 1 + i)
    OBVIOUS
  <2>3. f[n + k + l] = d[n + 1 + l] /\ f[n + k + o] = d[n + 1 + o]
    BY <2>2 DEF Deepens
  <2>. QED
    BY <2>1, <2>2, <2>3 DEF Keeps
<1> QED
  BY <1>1 DEF Keeps

(* and the same regions are around. *)
LEMMA AroundBehind ==
    ASSUME NEW n \in Nat, NEW k \in Nat, NEW m \in Nat, NEW s, NEW t, NEW new, NEW d, NEW e, NEW f,
           Placed(s, t, new, n, k, m), Level(s, d), Level(new, e), Deepens(f, d, e, n, k, m),
           NEW c, c = n + 1, s[c].k = "call",
           NEW g \in (n + 2)..(n + 1 + m), NEW o, IsAround(s, d, o, g)
    PROVE  \E p : IsAround(t, f, p, g + k - 1) /\ t[p] = s[o]
<1>0. PICK i \in 1..m : g = n + 1 + i /\ g + k - 1 = n + k + i
  <2>1. g - n - 1 \in 1..m /\ g = n + 1 + (g - n - 1) /\ g + k - 1 = n + k + (g - n - 1)
    OBVIOUS
  <2>. QED
    BY <2>1
<1>1. o \in 1..(n + 1 + i - 1) /\ s[o].k \in Opens /\ Keeps(d, o, n + 1 + i - 1)
  BY <1>0 DEF IsAround
<1>2. PICK h \in 0..m : n + 1 + i - 1 = n + 1 + h /\ n + k + i - 1 = n + k + h
  <2>1. i - 1 \in 0..m /\ n + 1 + i - 1 = n + 1 + (i - 1) /\ n + k + i - 1 = n + k + (i - 1)
    OBVIOUS
  <2>. QED
    BY <2>1
<1>3. CASE o <= n
  <2>1. o \in 1..n /\ Keeps(d, o, n + 1 + h)
    BY <1>1, <1>2, <1>3
  <2>2. Keeps(f, o, n + k + h)
    <3>1. Keeps(d, o, n + 1 + h) /\ o \in 1..n
      BY <2>1
    <3>. QED
      BY <3>1, KeepsAcross
  <2>3. t[o] = s[o] /\ o \in 1..(n + k + i - 1)
    <3>1. t[o] = s[o]
      BY <2>1 DEF Placed
    <3>2. o \in 1..(n + k + i - 1)
      BY <2>1
    <3>. QED
      BY <3>1, <3>2
  <2>4. IsAround(t, f, o, g + k - 1)
    BY <1>0, <1>1, <1>2, <2>2, <2>3 DEF IsAround
  <2>. QED
    BY <2>3, <2>4
<1>4. CASE o > n
  <2>1. o # n + 1
    BY <1>1 DEF Opens
  <2>2. PICK p \in 1..m : o = n + 1 + p
    <3>1. o - n - 1 \in 1..m /\ o = n + 1 + (o - n - 1)
      BY <1>1, <1>4, <2>1
    <3>. QED
      BY <3>1
  <2>3. Keeps(d, n + 1 + p, n + 1 + h)
    BY <1>1, <1>2, <2>2
  <2>4. Keeps(f, n + k + p, n + k + h)
    BY <2>3, KeepsBehind
  <2>5. t[n + k + p] = s[o] /\ n + k + p \in 1..(n + k + i - 1)
    <3>1. t[n + k + p] = s[n + 1 + p]
      BY DEF Placed
    <3>2. n + k + p \in 1..(n + k + i - 1)
      BY <1>1, <2>2
    <3>. QED
      BY <2>2, <3>1, <3>2
  <2>6. IsAround(t, f, n + k + p, g + k - 1)
    BY <1>0, <1>1, <1>2, <2>4, <2>5 DEF IsAround
  <2>. QED
    BY <2>5, <2>6
<1> QED
  BY <1>1, <1>3, <1>4

(* So a place keeps the regions it had, *)
LEMMA NamedKept ==
    ASSUME NEW n \in Nat, NEW k \in Nat, NEW m \in Nat, NEW s, NEW t, NEW new, NEW d, NEW e, NEW f,
           Placed(s, t, new, n, k, m), Level(s, d), Level(new, e), Deepens(f, d, e, n, k, m),
           s[n + 1].k = "call"
    PROVE  /\ \A i \in 1..n : Named(s, d, i) \subseteq Named(t, f, i)
           /\ \A i \in 1..k : Named(s, d, n + 1) \subseteq Named(t, f, n + i)
           /\ \A i \in 1..k : Named(new, e, i) \subseteq Named(t, f, n + i)
           /\ \A i \in 1..m : Named(s, d, n + 1 + i) \subseteq Named(t, f, n + k + i)
<1>1. \A a, b, i, o : IsAround(a, b, o, i) => <<a[o].k, a[o].l>> \in Named(a, b, i)
  BY DEF Named, IsAround
<1>2. ASSUME NEW i \in 1..n, NEW x \in Named(s, d, i) PROVE x \in Named(t, f, i)
  <2>1. PICK o : IsAround(s, d, o, i) /\ x = <<s[o].k, s[o].l>>
    BY <1>2 DEF Named
  <2>2. IsAround(t, f, o, i) /\ t[o] = s[o]
    BY <2>1, AroundBefore
  <2>. QED
    BY <1>1, <2>1, <2>2
<1>3. ASSUME NEW i \in 1..k, NEW x \in Named(s, d, n + 1) PROVE x \in Named(t, f, n + i)
  <2>1. PICK o : IsAround(s, d, o, n + 1) /\ x = <<s[o].k, s[o].l>>
    BY <1>3 DEF Named
  <2>2. PICK p, h : p = n + i /\ h = n + 1
    OBVIOUS
  <2>3. IsAround(t, f, o, p) /\ t[o] = s[o]
    <3>1. p \in (n + 1)..(n + k + 1) /\ IsAround(s, d, o, h)
      BY <2>1, <2>2
    <3>2. h \in {n + 1}
      BY <2>2
    <3>. QED
      BY <3>1, <3>2, AroundCall
  <2>. QED
    BY <1>1, <2>1, <2>2, <2>3
<1>4. ASSUME NEW i \in 1..k, NEW x \in Named(new, e, i) PROVE x \in Named(t, f, n + i)
  <2>1. PICK o : IsAround(new, e, o, i) /\ x = <<new[o].k, new[o].l>>
    BY <1>4 DEF Named
  <2>2. PICK p : p = n + i
    OBVIOUS
  <2>3. PICK q : IsAround(t, f, q, p) /\ t[q] = new[o]
    BY <2>1, <2>2, AroundInside
  <2>. QED
    BY <1>1, <2>1, <2>2, <2>3
<1>5. ASSUME NEW i \in 1..m, NEW x \in Named(s, d, n + 1 + i) PROVE x \in Named(t, f, n + k + i)
  <2>1. PICK o : IsAround(s, d, o, n + 1 + i) /\ x = <<s[o].k, s[o].l>>
    BY <1>5 DEF Named
  <2>2. PICK c, g, q : c = n + 1 /\ g = n + 1 + i /\ q = n + k + i /\ q = g + k - 1 /\ g \in (n + 2)..(n + 1 + m)
    <3>1. n + k + i = (n + 1 + i) + k - 1 /\ n + 1 + i \in (n + 2)..(n + 1 + m)
      OBVIOUS
    <3>. QED
      BY <3>1
  <2>3. s[c].k = "call" /\ IsAround(s, d, o, g)
    BY <2>1, <2>2
  <2>4. PICK p : IsAround(t, f, p, g + k - 1) /\ t[p] = s[o]
    BY <2>2, <2>3, AroundBehind
  <2>. QED
    BY <1>1, <2>1, <2>2, <2>4
<1> QED
  BY <1>2, <1>3, <1>4, <1>5

(* and an if its else. *)
LEMMA PartsKept ==
    ASSUME NEW n \in Nat, NEW k \in Nat, NEW m \in Nat, NEW s, NEW t, NEW new, NEW d, NEW e, NEW f,
           Placed(s, t, new, n, k, m), Level(s, d), Level(new, e), Deepens(f, d, e, n, k, m),
           s[n + 1].k = "call"
    PROVE  /\ \A i \in 1..n : Parts(s, d, i) => Parts(t, f, i)
           /\ \A i \in 1..k : Parts(new, e, i) => Parts(t, f, n + i)
           /\ \A i \in 1..m : Parts(s, d, n + 1 + i) => Parts(t, f, n + k + i)
<1>0. Len(s) = n + 1 + m /\ Len(t) = n + k + m /\ Len(new) = k
  BY DEF Placed
<1>1. ASSUME NEW i \in 1..n, Parts(s, d, i) PROVE Parts(t, f, i)
  <2>1. PICK q \in (i + 1)..(n + 1 + m) : s[q].k = "else" /\ d[q] = d[i] /\ Keeps(d, i, q)
    BY <1>0, <1>1 DEF Parts
  <2>2. f[i] = d[i]
    <3>1. i \in 0..n
      OBVIOUS
    <3>. QED
      BY <3>1 DEF Deepens
  <2>3. CASE q <= n
    <3>1. q \in 1..n /\ q \in 0..n
      BY <2>3
    <3>2. t[q] = s[q] /\ f[q] = d[q]
      BY <3>1 DEF Placed, Deepens
    <3>3. \A j \in i..q : f[j] >= f[i]
      <4>1. \A j \in i..q : j \in 0..n
        BY <3>1
      <4>. QED
        BY <2>1, <2>2, <4>1 DEF Deepens, Keeps
    <3>4. q \in (i + 1)..Len(t)
      BY <1>0, <2>1, <3>1
    <3>. QED
      BY <2>1, <2>2, <3>2, <3>3, <3>4 DEF Parts, Keeps
  <2>4. CASE q > n
    <3>1. q # n + 1
      BY <2>1
    <3>2. PICK p \in 1..m : q = n + 1 + p
      <4>1. q - n - 1 \in 1..m /\ q = n + 1 + (q - n - 1)
        BY <2>1, <2>4, <3>1
      <4>. QED
        BY <4>1
    <3>3. p \in 0..m /\ Keeps(d, i, n + 1 + p)
      BY <2>1, <3>2
    <3>4. Keeps(f, i, n + k + p)
      BY <3>3, KeepsAcross
    <3>5. t[n + k + p] = s[q] /\ f[n + k + p] = d[q]
      BY <3>2, <3>3 DEF Placed, Deepens
    <3>6. n + k + p \in (i + 1)..Len(t)
      BY <1>0
    <3>. QED
      BY <2>1, <2>2, <3>4, <3>5, <3>6 DEF Parts
  <2>. QED
    BY <2>1, <2>3, <2>4
<1>2. ASSUME NEW i \in 1..k, Parts(new, e, i) PROVE Parts(t, f, n + i)
  <2>1. PICK q \in (i + 1)..k : new[q].k = "else" /\ e[q] = e[i] /\ Keeps(e, i, q)
    BY <1>0, <1>2 DEF Parts
  <2>2. q \in 1..k /\ q \in 0..k /\ i \in 0..k
    BY <2>1
  <2>3. t[n + q] = new[q] /\ f[n + q] = d[n] + e[q] /\ f[n + i] = d[n] + e[i]
    BY <2>2 DEF Placed, Deepens
  <2>4. ASSUME NEW j \in (n + i)..(n + q) PROVE f[j] >= f[n + i]
    <3>1. PICK l \in i..q : j = n + l
      <4>1. j - n \in i..q /\ j = n + (j - n)
        BY <2>2
      <4>. QED
        BY <4>1
    <3>2. l \in 0..k
      BY <2>2
    <3>3. f[n + l] = d[n] + e[l]
      BY <3>2 DEF Deepens
    <3>4. d[n] \in Int /\ e[l] \in Int /\ e[i] \in Int
      <4>1. n \in 0..(n + 1 + m)
        OBVIOUS
      <4>. QED
        BY <2>2, <3>2, <4>1 DEF Placed, Level, Profile
    <3>5. e[l] >= e[i]
      BY <2>1 DEF Keeps
    <3>. QED
      BY <2>3, <3>1, <3>3, <3>4, <3>5
  <2>5. n + q \in (n + i + 1)..Len(t)
    BY <1>0, <2>1
  <2>. QED
    BY <2>1, <2>3, <2>4, <2>5 DEF Parts, Keeps
<1>3. ASSUME NEW i \in 1..m, Parts(s, d, n + 1 + i) PROVE Parts(t, f, n + k + i)
  <2>1. PICK q \in (n + 1 + i + 1)..(n + 1 + m) : s[q].k = "else" /\ d[q] = d[n + 1 + i] /\ Keeps(d, n + 1 + i, q)
    BY <1>0, <1>3 DEF Parts
  <2>2. PICK p \in (i + 1)..m : q = n + 1 + p
    <3>1. q - n - 1 \in (i + 1)..m /\ q = n + 1 + (q - n - 1)
      BY <2>1
    <3>. QED
      BY <3>1
  <2>3. p \in 0..m /\ p \in 1..m /\ i \in 0..m /\ Keeps(d, n + 1 + i, n + 1 + p)
    BY <2>1, <2>2
  <2>4. Keeps(f, n + k + i, n + k + p)
    BY <2>3, KeepsBehind
  <2>5. t[n + k + p] = s[n + 1 + p] /\ f[n + k + p] = d[n + 1 + p] /\ f[n + k + i] = d[n + 1 + i]
    BY <2>3 DEF Placed, Deepens
  <2>6. n + k + p \in (n + k + i + 1)..Len(t)
    BY <1>0, <2>2
  <2>. QED
    BY <2>1, <2>2, <2>4, <2>5, <2>6 DEF Parts
<1> QED
  BY <1>1, <1>2, <1>3

(* A call that wants what is around it may be replaced by marks and calls  *)
(* that want no more than it did and what is around them.                  *)
LEMMA Replaced ==
    ASSUME NEW n \in Nat, NEW k \in Nat, NEW m \in Nat, NEW s, NEW t, NEW new, NEW d, NEW e,
           Placed(s, t, new, n, k, m), NEW v, Fits(s, d, v), s[n + 1].k = "call", Fits(new, e, s[n + 1].w)
    PROVE  \E f : Fits(t, f, v)
<1>1. PICK f : f = Deepened(d, e, n, k, m)
  OBVIOUS
<1>2. Level(s, d) /\ Level(new, e)
  BY DEF Fits
<1>3. Deepens(f, d, e, n, k, m)
  BY <1>1, <1>2, DeepenedFacts
<1>4. Level(t, f)
  BY <1>2, <1>3, DeepenedLevel
<1>5. /\ \A i \in 1..n : Named(s, d, i) \subseteq Named(t, f, i)
      /\ \A i \in 1..k : Named(s, d, n + 1) \subseteq Named(t, f, n + i)
      /\ \A i \in 1..k : Named(new, e, i) \subseteq Named(t, f, n + i)
      /\ \A i \in 1..m : Named(s, d, n + 1 + i) \subseteq Named(t, f, n + k + i)
  BY <1>2, <1>3, NamedKept
<1>6. /\ \A i \in 1..n : Parts(s, d, i) => Parts(t, f, i)
      /\ \A i \in 1..k : Parts(new, e, i) => Parts(t, f, n + i)
      /\ \A i \in 1..m : Parts(s, d, n + 1 + i) => Parts(t, f, n + k + i)
  BY <1>2, <1>3, PartsKept
<1>7. Len(s) = n + 1 + m /\ Len(t) = n + k + m /\ Len(new) = k /\ Numbered(t)
  BY DEF Placed
<1>8. ASSUME NEW i \in 1..(n + k + m)
      PROVE  (t[i].k = "if" => Parts(t, f, i)) /\ t[i].w \subseteq v \cup Named(t, f, i)
  <2>1. CASE i <= n
    <3>1. i \in 1..n /\ i \in 1..(n + 1 + m)
      BY <2>1
    <3>2. t[i] = s[i]
      BY <3>1 DEF Placed
    <3>3. (s[i].k = "if" => Parts(s, d, i)) /\ s[i].w \subseteq v \cup Named(s, d, i)
      BY <1>7, <3>1 DEF Fits
    <3>. QED
      BY <1>5, <1>6, <3>1, <3>2, <3>3
  <2>2. CASE i > n /\ i <= n + k
    <3>1. PICK j \in 1..k : i = n + j
      <4>1. i - n \in 1..k /\ i = n + (i - n)
        BY <2>2
      <4>. QED
        BY <4>1
    <3>2. t[n + j] = new[j]
      BY DEF Placed
    <3>3. (new[j].k = "if" => Parts(new, e, j)) /\ new[j].w \subseteq s[n + 1].w \cup Named(new, e, j)
      BY <1>7 DEF Fits
    <3>4. s[n + 1].w \subseteq v \cup Named(s, d, n + 1)
      <4>1. n + 1 \in 1..(n + 1 + m)
        OBVIOUS
      <4>. QED
        BY <1>7, <4>1 DEF Fits
    <3>. QED
      BY <1>5, <1>6, <3>1, <3>2, <3>3, <3>4
  <2>3. CASE i > n + k
    <3>1. PICK j \in 1..m : i = n + k + j
      <4>1. i - n - k \in 1..m /\ i = n + k + (i - n - k)
        BY <2>3
      <4>. QED
        BY <4>1
    <3>2. t[n + k + j] = s[n + 1 + j] /\ n + 1 + j \in 1..(n + 1 + m)
      BY DEF Placed
    <3>3. /\ s[n + 1 + j].k = "if" => Parts(s, d, n + 1 + j)
          /\ s[n + 1 + j].w \subseteq v \cup Named(s, d, n + 1 + j)
      BY <1>7, <3>2 DEF Fits
    <3>. QED
      BY <1>5, <1>6, <3>1, <3>2, <3>3
  <2>. QED
    BY <2>1, <2>2, <2>3
<1>9. Fits(t, f, v)
  BY <1>4, <1>7, <1>8 DEF Fits
<1> QED
  BY <1>9
-----------------------------------------------------------------------------
(***************************************************************************)
(* The regions of the body.  What WebAssembly counts is the depth.         *)
(***************************************************************************)
(* Before its first place nothing is counted, *)
LEMMA CountNone ==
    ASSUME NEW p \in Nat, NEW q \in Nat, NEW ks, q < p
    PROVE  Count(p, q, ks) = 0
<1>1. {i \in p..q : body[i].k \in ks} = {}
  OBVIOUS
<1> QED
  BY <1>1, FS_EmptySet DEF Count

(* A count is a number. *)
LEMMA CountIsNat ==
    ASSUME NEW p \in Nat, NEW q \in Nat, NEW ks
    PROVE  IsFiniteSet({i \in p..q : body[i].k \in ks}) /\ Count(p, q, ks) \in Nat
<1>1. IsFiniteSet(p..q)
  BY FS_Interval
<1>2. IsFiniteSet({i \in p..q : body[i].k \in ks})
  BY <1>1, FS_Subset
<1> QED
  BY <1>2, FS_CardinalityType DEF Count

(* and one mark more is counted or not. *)
LEMMA CountStep ==
    ASSUME NEW p \in Nat, NEW q \in Nat, NEW ks, NEW r \in {q + 1}, p <= r
    PROVE  Count(p, r, ks) = Count(p, q, ks) + (IF body[r].k \in ks THEN 1 ELSE 0)
<1>1. PICK a, b : a = {i \in p..q : body[i].k \in ks} /\ b = {i \in p..r : body[i].k \in ks}
  OBVIOUS
<1>2. IsFiniteSet(a) /\ Cardinality(a) \in Nat /\ Count(p, q, ks) = Cardinality(a) /\ Count(p, r, ks) = Cardinality(b)
  BY <1>1, CountIsNat DEF Count
<1>3. CASE body[r].k \in ks
  <2>1. b = a \cup {r} /\ r \notin a
    BY <1>1, <1>3
  <2>2. Cardinality(a \cup {r}) = Cardinality(a) + 1
    BY <1>2, <2>1, FS_AddElement
  <2>. QED
    BY <1>2, <1>3, <2>1, <2>2
<1>4. CASE body[r].k \notin ks
  <2>1. b = a
    BY <1>1, <1>4
  <2>. QED
    BY <1>2, <1>4, <2>1
<1> QED
  BY <1>3, <1>4

(* The balance is the difference of two depths.                            *)
LEMMA BalanceIsDepth ==
    ASSUME NEW d, Numbered(body), Profile(body, d), NEW p \in 1..Len(body), NEW q \in p..Len(body)
    PROVE  Balance(p, q) = d[q] - d[p - 1]
<1>0. PICK n \in Nat : n = Len(body)
  BY DEF Numbered
<1>1. d \in [0..n -> Int] /\ \A i \in 1..n : d[i] = d[i - 1] + Turn(body[i].k)
  BY <1>0 DEF Profile
<1>2. p \in Nat /\ p - 1 \in 0..n /\ p \in 1..n
  BY <1>0
<1> DEFINE S == {r \in (p - 1)..n : Count(p, r, Opens) - Count(p, r, {"end"}) = d[r] - d[p - 1]}
<1>3. p - 1 \in S
  <2>1. Count(p, p - 1, Opens) = 0 /\ Count(p, p - 1, {"end"}) = 0
    <3>1. PICK z \in Nat : z = p - 1 /\ z < p
      BY <1>2
    <3>2. Count(p, z, Opens) = 0 /\ Count(p, z, {"end"}) = 0
      BY <1>2, <3>1, CountNone
    <3>. QED
      BY <3>1, <3>2
  <2>2. d[p - 1] \in Int
    BY <1>1, <1>2
  <2>. QED
    BY <1>2, <2>1, <2>2
<1>4. ASSUME NEW r \in (p - 1)..(n - 1), r \in S PROVE r + 1 \in S
  <2>1. r \in Nat /\ p <= r + 1 /\ r + 1 \in 1..n /\ (r + 1) - 1 = r /\ r \in 0..n
    BY <1>2
  <2>0. PICK z : z = r + 1
    OBVIOUS
  <2>2. /\ Count(p, r + 1, Opens) = Count(p, r, Opens) + (IF body[r + 1].k \in Opens THEN 1 ELSE 0)
        /\ Count(p, r, Opens) \in Nat
    <3>1. p <= z /\ z \in {r + 1} /\ p \in Nat /\ r \in Nat
      BY <1>2, <2>0, <2>1
    <3>2. Count(p, z, Opens) = Count(p, r, Opens) + (IF body[z].k \in Opens THEN 1 ELSE 0)
      BY <3>1, CountStep
    <3>. QED
      BY <2>0, <3>1, <3>2, CountIsNat
  <2>3. /\ Count(p, r + 1, {"end"}) = Count(p, r, {"end"}) + (IF body[r + 1].k \in {"end"} THEN 1 ELSE 0)
        /\ Count(p, r, {"end"}) \in Nat
    <3>1. p <= z /\ z \in {r + 1} /\ p \in Nat /\ r \in Nat
      BY <1>2, <2>0, <2>1
    <3>2. Count(p, z, {"end"}) = Count(p, r, {"end"}) + (IF body[z].k \in {"end"} THEN 1 ELSE 0)
      BY <3>1, CountStep
    <3>. QED
      BY <2>0, <3>1, <3>2, CountIsNat
  <2>4. d[r + 1] = d[r] + Turn(body[r + 1].k) /\ d[r] \in Int /\ d[p - 1] \in Int
    BY <1>1, <1>2, <2>1
  <2>5. Turn(body[r + 1].k) = (IF body[r + 1].k \in Opens THEN 1 ELSE 0) - (IF body[r + 1].k \in {"end"} THEN 1 ELSE 0)
    BY DEF Turn, Opens
  <2>6. Count(p, r, Opens) - Count(p, r, {"end"}) = d[r] - d[p - 1]
    BY <1>4
  <2>7. r + 1 \in (p - 1)..n
    BY <2>1
  <2>8. PICK x, y : /\ x = (IF body[r + 1].k \in Opens THEN 1 ELSE 0)
                    /\ y = (IF body[r + 1].k \in {"end"} THEN 1 ELSE 0) /\ x \in Int /\ y \in Int
    OBVIOUS
  <2>9. PICK a, b : a = Count(p, r, Opens) /\ b = Count(p, r, {"end"}) /\ a \in Nat /\ b \in Nat
    BY <2>2, <2>3
  <2>10. Count(p, r + 1, Opens) = a + x /\ Count(p, r + 1, {"end"}) = b + y
    BY <2>2, <2>3, <2>8, <2>9
  <2>11. d[r + 1] = d[r] + (x - y) /\ a - b = d[r] - d[p - 1]
    BY <2>4, <2>5, <2>6, <2>8, <2>9
  <2>12. (a + x) - (b + y) = d[r + 1] - d[p - 1]
    <3>1. PICK u, v, w : u = d[r] /\ v = d[p - 1] /\ w = d[r + 1] /\ u \in Int /\ v \in Int
      BY <2>4
    <3>2. w = u + (x - y) /\ a - b = u - v
      BY <2>11, <3>1
    <3>3. (a + x) - (b + y) = w - v
      <4>1. x \in Int /\ y \in Int /\ a \in Int /\ b \in Int /\ u \in Int /\ v \in Int
        BY <2>8, <2>9, <3>1
      <4>. QED
        BY <3>2, <4>1
    <3>. QED
      BY <3>1, <3>3
  <2>. QED
    BY <2>7, <2>10, <2>12
<1>5. Inductive(S, p - 1, n)
  BY <1>3, <1>4 DEF Inductive
<1>6. q \in S
  <2>1. q \in (p - 1)..n /\ p - 1 \in Int /\ n \in Int
    BY <1>0, <1>2
  <2>. HIDE DEF S
  <2>. QED
    BY <1>5, <2>1, UpTo
<1> QED
  BY <1>6 DEF Balance

(* A region ends where the depth first falls below its own: that is an end. *)
LEMMA EndOfRegion ==
    ASSUME NEW d, Numbered(body), Level(body, d), NEW p \in 1..Len(body), body[p].k \in Opens
    PROVE  /\ EndOf(p) \in (p + 1)..Len(body) /\ body[EndOf(p)].k = "end"
           /\ d[EndOf(p)] = d[p] - 1 /\ Keeps(d, p, EndOf(p) - 1)
<1>0. PICK n \in Nat : n = Len(body)
  BY DEF Numbered
<1>1. /\ d \in [0..n -> Int] /\ d[n] = 0 /\ \A i \in 0..n : d[i] >= 0
      /\ \A i \in 1..n : d[i] = d[i - 1] + Turn(body[i].k)
  BY <1>0 DEF Level, Profile
<1>2. p \in 1..n /\ p - 1 \in 0..n /\ d[p] = d[p - 1] + 1 /\ d[p] \in Int /\ d[p - 1] \in Int /\ d[p - 1] >= 0
  <2>1. p \in 1..n /\ p - 1 \in 0..n /\ p \in 0..n
    BY <1>0
  <2>2. Turn(body[p].k) = 1
    BY DEF Turn
  <2>. QED
    BY <1>1, <2>1, <2>2
<1>3. \A q \in p..n : Balance(p, q) = d[q] - d[p - 1] /\ d[q] \in Int
  <2>. SUFFICES ASSUME NEW q \in p..n PROVE Balance(p, q) = d[q] - d[p - 1] /\ d[q] \in Int
    OBVIOUS
  <2>1. q \in p..Len(body) /\ Profile(body, d)
    BY <1>0 DEF Level
  <2>2. d[q] \in Int
    BY <1>1, <1>2
  <2>. QED
    BY <2>1, <2>2, BalanceIsDepth
<1> DEFINE S == {q \in p..n : d[q] < d[p]}
<1>4. PICK q \in S : \A r \in S : q <= r
  <2>1. n \in S
    BY <1>1, <1>2
  <2>2. S \in SUBSET Nat
    BY <1>2
  <2>. HIDE DEF S
  <2>. QED
    BY <2>1, <2>2, LeastNat
<1>5. q \in (p + 1)..n /\ \A j \in p..(q - 1) : d[j] >= d[p]
  <2>1. q # p
    BY <1>2, <1>4
  <2>2. ASSUME NEW j \in p..(q - 1) PROVE d[j] >= d[p]
    <3>1. j \notin S /\ j \in p..n
      BY <1>4
    <3>. QED
      BY <1>2, <1>3, <3>1
  <2>. QED
    BY <2>1, <2>2
<1>6. d[q] = d[p] - 1 /\ body[q].k = "end"
  <2>1. q - 1 \in p..(q - 1) /\ q \in 1..n /\ q - 1 \in p..n
    BY <1>2, <1>5
  <2>2. d[q - 1] >= d[p] /\ d[q] < d[p] /\ d[q] = d[q - 1] + Turn(body[q].k)
    BY <1>1, <1>4, <1>5, <2>1
  <2>3. d[q] \in Int /\ d[q - 1] \in Int
    BY <1>3, <2>1
  <2>4. Turn(body[q].k) \in {-1, 0, 1} /\ (Turn(body[q].k) = -1 => body[q].k = "end")
    BY DEF Turn
  <2>. QED
    BY <1>2, <2>2, <2>3, <2>4
<1>7. Balance(p, q) = 0 /\ \A r \in p..(q - 1) : Balance(p, r) # 0
  <2>1. Balance(p, q) = d[q] - d[p - 1] /\ d[q] \in Int
    BY <1>3, <1>5
  <2>2. ASSUME NEW r \in p..(q - 1) PROVE Balance(p, r) # 0
    <3>1. r \in p..n /\ d[r] >= d[p]
      BY <1>5
    <3>2. Balance(p, r) = d[r] - d[p - 1] /\ d[r] \in Int
      BY <1>3, <3>1
    <3>. QED
      BY <1>2, <3>1, <3>2
  <2>. QED
    BY <1>2, <1>6, <2>1, <2>2
<1>8. PICK e : e = EndOf(p)
  OBVIOUS
<1>9. e \in p..n /\ Balance(p, e) = 0 /\ \A r \in p..(e - 1) : Balance(p, r) # 0
  <2>1. \E x \in p..n : Balance(p, x) = 0 /\ \A r \in p..(x - 1) : Balance(p, r) # 0
    BY <1>5, <1>7
  <2>. QED
    BY <1>0, <1>8, <2>1 DEF EndOf
<1>10. e = q
  <2>1. ~(e < q)
    <3>1. e < q => e \in p..(q - 1)
      BY <1>5, <1>9
    <3>. QED
      BY <1>7, <1>9, <3>1
  <2>2. ~(q < e)
    <3>1. q < e => q \in p..(e - 1)
      BY <1>5, <1>9
    <3>. QED
      BY <1>7, <1>9, <3>1
  <2>. QED
    BY <1>5, <1>9, <2>1, <2>2
<1> QED
  BY <1>0, <1>5, <1>6, <1>8, <1>10 DEF Keeps

(* The else of an if lies inside it, at its depth. *)
LEMMA ElseOfIf ==
    ASSUME NEW d, Numbered(body), Level(body, d), NEW p \in 1..Len(body), Parts(body, d, p), body[p].k \in Opens
    PROVE  /\ ElseOf(p) \in (p + 1)..Len(body) /\ body[ElseOf(p)].k = "else"
           /\ d[ElseOf(p)] = d[p] /\ Keeps(d, p, ElseOf(p))
<1>0. PICK n \in Nat : n = Len(body)
  BY DEF Numbered
<1>1. d \in [0..n -> Int] /\ p \in 1..n /\ p - 1 \in 0..n /\ d[p] = d[p - 1] + 1 /\ d[p] \in Int /\ d[p - 1] \in Int
  <2>1. d \in [0..n -> Int] /\ p \in 1..n /\ p - 1 \in 0..n /\ p \in 0..n /\ d[p] = d[p - 1] + Turn(body[p].k)
    BY <1>0 DEF Level, Profile
  <2>2. Turn(body[p].k) = 1
    BY DEF Turn
  <2>. QED
    BY <2>1, <2>2
<1>2. ASSUME NEW q \in p..n PROVE (Balance(p, q) = 1 <=> d[q] = d[p])
  <2>1. q \in p..Len(body) /\ Profile(body, d) /\ d[q] \in Int
    BY <1>0, <1>1 DEF Level
  <2>2. Balance(p, q) = d[q] - d[p - 1]
    BY <2>1, BalanceIsDepth
  <2>. QED
    BY <1>1, <2>1, <2>2
<1>3. PICK q \in (p + 1)..n : body[q].k = "else" /\ d[q] = d[p] /\ Keeps(d, p, q)
  BY <1>0 DEF Parts
<1> DEFINE S == {r \in p..n : body[r].k = "else" /\ Balance(p, r) = 1}
<1>4. PICK f \in S : \A r \in S : f <= r
  <2>1. q \in S
    BY <1>2, <1>3
  <2>2. S \in SUBSET Nat
    BY <1>1
  <2>. HIDE DEF S
  <2>. QED
    BY <2>1, <2>2, LeastNat
<1>5. PICK e : e = ElseOf(p)
  OBVIOUS
<1>6. e \in p..n /\ body[e].k = "else" /\ Balance(p, e) = 1 /\ \A r \in p..(e - 1) : ~(body[r].k = "else" /\ Balance(p, r) = 1)
  <2>1. \A r \in p..(f - 1) : ~(body[r].k = "else" /\ Balance(p, r) = 1)
    <3>1. ASSUME NEW r \in p..(f - 1) PROVE r \notin S /\ r \in p..n
      BY <1>4
    <3>. QED
      BY <3>1
  <2>2. \E x \in p..n : /\ body[x].k = "else" /\ Balance(p, x) = 1
                        /\ \A r \in p..(x - 1) : ~(body[r].k = "else" /\ Balance(p, r) = 1)
    BY <1>4, <2>1
  <2>. QED
    BY <1>0, <1>5, <2>2 DEF ElseOf
<1>7. e <= q
  <2>1. q < e => q \in p..(e - 1)
    BY <1>3, <1>6
  <2>2. Balance(p, q) = 1
    BY <1>2, <1>3
  <2>. QED
    BY <1>3, <1>6, <2>1, <2>2
<1>8. e # p
  BY <1>6 DEF Opens
<1>9. d[e] = d[p] /\ Keeps(d, p, e)
  BY <1>2, <1>3, <1>6, <1>7 DEF Keeps
<1> QED
  BY <1>0, <1>5, <1>6, <1>8, <1>9
-----------------------------------------------------------------------------
(* The regions around a place of the body, and how they change as the      *)
(* body is executed.                                                       *)
Rounds(d, p) == {o \in 1..(p - 1) : IsAround(body, d, o, p)}
Nested(d) == Numbered(body) /\ Level(body, d)

(* The depths next to a mark. *)
LEMMA DepthAt ==
    ASSUME NEW d, Nested(d), NEW p \in 1..Len(body)
    PROVE  /\ d[p - 1] \in Int /\ d[p] \in Int /\ d[p] = d[p - 1] + Turn(body[p].k)
           /\ body[p].k \in Opens => d[p] = d[p - 1] + 1
           /\ body[p].k \notin Opens /\ body[p].k # "end" => d[p] = d[p - 1]
<1>0. PICK n \in Nat : n = Len(body)
  BY DEF Nested, Numbered
<1>1. p - 1 \in 0..n /\ p \in 0..n /\ p \in 1..n
  BY <1>0
<1>2. d \in [0..n -> Int] /\ d[p] = d[p - 1] + Turn(body[p].k)
  BY <1>0, <1>1 DEF Nested, Level, Profile
<1>3. d[p - 1] \in Int /\ d[p] \in Int
  BY <1>1, <1>2
<1>4. /\ body[p].k \in Opens => Turn(body[p].k) = 1
      /\ body[p].k \notin Opens /\ body[p].k # "end" => Turn(body[p].k) = 0
  BY DEF Turn
<1> QED
  BY <1>2, <1>3, <1>4

(* What a region around a place is. *)
LEMMA InRounds ==
    ASSUME NEW d, Nested(d), NEW p \in 1..(Len(body) + 1), NEW o
    PROVE  o \in Rounds(d, p) <=>
              /\ o \in 1..(p - 1) /\ o \in 1..Len(body) /\ body[o].k \in Opens
              /\ \A j \in o..(p - 1) : d[j] \in Int /\ d[o] \in Int /\ d[j] >= d[o]
<1>0. PICK n \in Nat : n = Len(body)
  BY DEF Nested, Numbered
<1>1. ASSUME o \in 1..(p - 1), NEW j \in o..(p - 1) PROVE d[j] \in Int /\ d[o] \in Int /\ o \in 1..n
  <2>1. j \in 0..n /\ o \in 0..n /\ o \in 1..n
    BY <1>0, <1>1
  <2>2. d \in [0..n -> Int]
    BY <1>0 DEF Nested, Level, Profile
  <2>. QED
    BY <2>1, <2>2
<1>2. ASSUME o \in 1..(p - 1) PROVE o \in 1..n
  BY <1>0, <1>2
<1> QED
  BY <1>0, <1>1, <1>2 DEF Rounds, IsAround, Keeps

(* They are those whose end comes later. *)
LEMMA AroundIs ==
    ASSUME NEW d, Nested(d), NEW p \in 1..Len(body)
    PROVE  Around(p) = Rounds(d, p)
<1>0. PICK n \in Nat : n = Len(body)
  BY DEF Nested, Numbered
<1>1. ASSUME NEW o \in 1..(p - 1), body[o].k \in Opens
      PROVE  EndOf(o) >= p <=> Keeps(d, o, p - 1)
  <2>1. PICK e \in (o + 1)..n : e = EndOf(o) /\ d[e] = d[o] - 1 /\ Keeps(d, o, e - 1)
    <3>1. o \in 1..Len(body) /\ Numbered(body) /\ Level(body, d)
      BY <1>0 DEF Nested
    <3>. QED
      BY <1>0, <1>1, <3>1, EndOfRegion
  <2>2. CASE e >= p
    BY <2>1, <2>2 DEF Keeps
  <2>3. CASE e < p
    <3>1. e \in o..(p - 1) /\ o \in 1..Len(body)
      BY <1>0, <2>1, <2>3
    <3>2. d[o] \in Int
      BY <3>1, DepthAt
    <3>. QED
      BY <2>1, <2>3, <3>1, <3>2 DEF Keeps
  <2>. QED
    BY <2>1, <2>2, <2>3
<1> QED
  BY <1>1 DEF Around, Rounds, IsAround

(* To enter a region is to be in it too; *)
LEMMA RoundsEnter ==
    ASSUME NEW d, Nested(d), NEW p \in 1..Len(body), body[p].k \in Opens, NEW q \in {p + 1}
    PROVE  Rounds(d, q) = Rounds(d, p) \cup {p}
<1>0. PICK n \in Nat : n = Len(body)
  BY DEF Nested, Numbered
<1>1. d[p - 1] \in Int /\ d[p] = d[p - 1] + 1 /\ d[p] \in Int
  BY DepthAt
<1>2. q \in 1..(Len(body) + 1) /\ p \in 1..(Len(body) + 1)
  BY <1>0
<1>3. p \in Rounds(d, q)
  <2>1. p \in 1..(q - 1) /\ \A j \in p..(q - 1) : j = p
    BY <1>0
  <2>. QED
    BY <1>1, <1>2, <2>1, InRounds
<1>4. ASSUME NEW o \in Rounds(d, p) PROVE o \in Rounds(d, q)
  <2>1. o \in 1..(p - 1) /\ o \in 1..Len(body) /\ body[o].k \in Opens
        /\ \A j \in o..(p - 1) : d[j] \in Int /\ d[o] \in Int /\ d[j] >= d[o]
    BY <1>2, InRounds
  <2>2. p - 1 \in o..(p - 1)
    BY <1>0, <2>1
  <2>3. d[p] >= d[o] /\ d[o] \in Int
    BY <1>1, <2>1, <2>2
  <2>4. \A j \in o..(q - 1) : j \in o..(p - 1) \/ j = p
    BY <1>0, <2>1
  <2>5. o \in 1..(q - 1)
    BY <1>0, <2>1
  <2>. QED
    BY <1>1, <1>2, <2>1, <2>3, <2>4, <2>5, InRounds
<1>5. ASSUME NEW o \in Rounds(d, q) PROVE o \in Rounds(d, p) \cup {p}
  <2>1. o \in 1..(q - 1) /\ o \in 1..Len(body) /\ body[o].k \in Opens
        /\ \A j \in o..(q - 1) : d[j] \in Int /\ d[o] \in Int /\ d[j] >= d[o]
    BY <1>2, InRounds
  <2>2. CASE o = p
    BY <2>2
  <2>3. CASE o # p
    <3>1. o \in 1..(p - 1) /\ \A j \in o..(p - 1) : j \in o..(q - 1)
      BY <1>0, <2>1, <2>3
    <3>. QED
      BY <1>2, <2>1, <3>1, InRounds
  <2>. QED
    BY <2>2, <2>3
<1> QED
  BY <1>3, <1>4, <1>5

(* a mark that opens and ends none changes nothing; *)
LEMMA RoundsStep ==
    ASSUME NEW d, Nested(d), NEW p \in 1..Len(body), body[p].k \notin Opens, body[p].k # "end",
           NEW q \in {p + 1}
    PROVE  Rounds(d, q) = Rounds(d, p)
<1>0. PICK n \in Nat : n = Len(body)
  BY DEF Nested, Numbered
<1>1. d[p - 1] \in Int /\ d[p] = d[p - 1] /\ d[p] \in Int
  BY DepthAt
<1>2. q \in 1..(Len(body) + 1) /\ p \in 1..(Len(body) + 1)
  BY <1>0
<1>3. ASSUME NEW o \in Rounds(d, p) PROVE o \in Rounds(d, q)
  <2>1. o \in 1..(p - 1) /\ o \in 1..Len(body) /\ body[o].k \in Opens
        /\ \A j \in o..(p - 1) : d[j] \in Int /\ d[o] \in Int /\ d[j] >= d[o]
    BY <1>2, InRounds
  <2>2. p - 1 \in o..(p - 1)
    BY <1>0, <2>1
  <2>3. d[p] >= d[o] /\ d[o] \in Int
    BY <1>1, <2>1, <2>2
  <2>4. \A j \in o..(q - 1) : j \in o..(p - 1) \/ j = p
    BY <1>0, <2>1
  <2>5. o \in 1..(q - 1)
    BY <1>0, <2>1
  <2>. QED
    BY <1>1, <1>2, <2>1, <2>3, <2>4, <2>5, InRounds
<1>4. ASSUME NEW o \in Rounds(d, q) PROVE o \in Rounds(d, p)
  <2>1. o \in 1..(q - 1) /\ o \in 1..Len(body) /\ body[o].k \in Opens
        /\ \A j \in o..(q - 1) : d[j] \in Int /\ d[o] \in Int /\ d[j] >= d[o]
    BY <1>2, InRounds
  <2>2. o # p
    BY <2>1
  <2>3. o \in 1..(p - 1) /\ \A j \in o..(p - 1) : j \in o..(q - 1)
    BY <1>0, <2>1, <2>2
  <2>. QED
    BY <1>2, <2>1, <2>3, InRounds
<1> QED
  BY <1>3, <1>4

(* behind its end a region is left; *)
LEMMA RoundsLeave ==
    ASSUME NEW d, Nested(d), NEW p \in 1..Len(body), body[p].k \in Opens, NEW q \in {EndOf(p) + 1}
    PROVE  q \in 1..(Len(body) + 1) /\ Rounds(d, q) = Rounds(d, p)
<1>0. PICK n \in Nat : n = Len(body)
  BY DEF Nested, Numbered
<1>1. d[p - 1] \in Int /\ d[p] = d[p - 1] + 1 /\ d[p] \in Int
  BY DepthAt
<1>2. PICK e \in (p + 1)..n : /\ e = EndOf(p) /\ body[e].k = "end" /\ d[e] = d[p] - 1
                              /\ \A j \in p..(e - 1) : d[j] >= d[p]
  BY <1>0, EndOfRegion DEF Nested, Keeps
<1>3. q = e + 1 /\ q \in 1..(Len(body) + 1) /\ p \in 1..(Len(body) + 1)
  BY <1>0, <1>2
<1>4. ASSUME NEW o \in Rounds(d, p) PROVE o \in Rounds(d, q)
  <2>1. o \in 1..(p - 1) /\ o \in 1..Len(body) /\ body[o].k \in Opens
        /\ \A j \in o..(p - 1) : d[j] \in Int /\ d[o] \in Int /\ d[j] >= d[o]
    BY <1>3, InRounds
  <2>2. p - 1 \in o..(p - 1)
    BY <1>0, <2>1
  <2>3. d[p - 1] >= d[o] /\ d[o] \in Int
    BY <2>1, <2>2
  <2>4. ASSUME NEW j \in o..(q - 1) PROVE d[j] \in Int /\ d[j] >= d[o]
    <3>1. CASE j <= p - 1
      <4>1. j \in o..(p - 1)
        BY <1>0, <2>1, <3>1
      <4>. QED
        BY <2>1, <4>1
    <3>2. CASE j > p - 1 /\ j # e
      <4>1. j \in p..(e - 1) /\ j \in 1..Len(body)
        BY <1>0, <1>3, <2>1, <3>2
      <4>2. d[j] \in Int
        BY <4>1, DepthAt
      <4>3. d[j] >= d[p]
        BY <1>2, <4>1
      <4>. QED
        BY <1>1, <2>3, <4>2, <4>3
    <3>3. CASE j = e
      <4>1. d[e] = d[p - 1]
        BY <1>1, <1>2
      <4>2. d[e] \in Int /\ d[e] >= d[o]
        BY <1>1, <2>3, <4>1
      <4>. QED
        BY <3>3, <4>2
    <3>. QED
      BY <2>1, <3>1, <3>2, <3>3
  <2>5. o \in 1..(q - 1)
    BY <1>0, <1>3, <2>1
  <2>. QED
    BY <1>3, <2>1, <2>3, <2>4, <2>5, InRounds
<1>5. ASSUME NEW o \in Rounds(d, q) PROVE o \in Rounds(d, p)
  <2>1. o \in 1..(q - 1) /\ o \in 1..Len(body) /\ body[o].k \in Opens
        /\ \A j \in o..(q - 1) : d[j] \in Int /\ d[o] \in Int /\ d[j] >= d[o]
    BY <1>3, InRounds
  <2>2. e \in o..(q - 1)
    BY <1>3, <2>1
  <2>3. d[e] >= d[o] /\ d[o] \in Int
    BY <2>1, <2>2
  <2>4. o # e
    BY <1>2, <2>1 DEF Opens
  <2>5. ~(o \in p..(e - 1))
    BY <1>1, <1>2, <2>3
  <2>6. o \in 1..(p - 1) /\ \A j \in o..(p - 1) : j \in o..(q - 1)
    BY <1>0, <1>3, <2>1, <2>4, <2>5
  <2>. QED
    BY <1>3, <2>1, <2>6, InRounds
<1> QED
  BY <1>3, <1>4, <1>5

(* behind its else an if is still around;                                  *)
LEMMA RoundsElse ==
    ASSUME NEW d, Nested(d), NEW p \in 1..Len(body), body[p].k \in Opens, Parts(body, d, p),
           NEW q \in {ElseOf(p) + 1}
    PROVE  q \in 1..(Len(body) + 1) /\ Rounds(d, q) = Rounds(d, p) \cup {p}
<1>0. PICK n \in Nat : n = Len(body)
  BY DEF Nested, Numbered
<1>1. d[p - 1] \in Int /\ d[p] = d[p - 1] + 1 /\ d[p] \in Int
  BY DepthAt
<1>2. PICK e \in (p + 1)..n : /\ e = ElseOf(p) /\ body[e].k = "else" /\ d[e] = d[p]
                              /\ \A j \in p..e : d[j] >= d[p]
  BY <1>0, ElseOfIf DEF Nested, Keeps
<1>3. q = e + 1 /\ q \in 1..(Len(body) + 1) /\ p \in 1..(Len(body) + 1)
  BY <1>0, <1>2
<1>4. ASSUME NEW j \in p..(q - 1) PROVE d[j] \in Int /\ d[j] >= d[p]
  <2>1. j \in p..e /\ j \in 1..Len(body)
    BY <1>0, <1>3
  <2>2. d[j] \in Int
    BY <2>1, DepthAt
  <2>. QED
    BY <1>2, <2>1, <2>2
<1>5. ASSUME NEW o \in Rounds(d, p) PROVE o \in Rounds(d, q)
  <2>1. o \in 1..(p - 1) /\ o \in 1..Len(body) /\ body[o].k \in Opens
        /\ \A j \in o..(p - 1) : d[j] \in Int /\ d[o] \in Int /\ d[j] >= d[o]
    BY <1>3, InRounds
  <2>2. p - 1 \in o..(p - 1)
    BY <1>0, <2>1
  <2>3. d[p - 1] >= d[o] /\ d[o] \in Int
    BY <2>1, <2>2
  <2>4. ASSUME NEW j \in o..(q - 1) PROVE d[j] \in Int /\ d[j] >= d[o]
    <3>1. CASE j <= p - 1
      <4>1. j \in o..(p - 1)
        BY <1>0, <2>1, <3>1
      <4>. QED
        BY <2>1, <4>1
    <3>2. CASE j > p - 1
      <4>1. j \in p..(q - 1)
        BY <1>0, <1>3, <2>1, <3>2
      <4>. QED
        BY <1>1, <1>4, <2>3, <4>1
    <3>. QED
      BY <2>1, <3>1, <3>2
  <2>5. o \in 1..(q - 1)
    BY <1>0, <1>3, <2>1
  <2>. QED
    BY <1>3, <2>1, <2>3, <2>4, <2>5, InRounds
<1>6. p \in Rounds(d, q)
  <2>1. p \in 1..(q - 1)
    BY <1>0, <1>3
  <2>. QED
    BY <1>1, <1>3, <1>4, <2>1, InRounds
<1>7. ASSUME NEW o \in Rounds(d, q) PROVE o \in Rounds(d, p) \cup {p}
  <2>1. o \in 1..(q - 1) /\ o \in 1..Len(body) /\ body[o].k \in Opens
        /\ \A j \in o..(q - 1) : d[j] \in Int /\ d[o] \in Int /\ d[j] >= d[o]
    BY <1>3, InRounds
  <2>2. e \in o..(q - 1)
    BY <1>3, <2>1
  <2>3. d[p] >= d[o] /\ d[o] \in Int
    BY <1>2, <2>1, <2>2
  <2>4. ~(o > p)
    <3>. SUFFICES ASSUME o > p PROVE FALSE
      OBVIOUS
    <3>1. o - 1 \in p..(q - 1) /\ o \in 1..Len(body)
      BY <1>0, <2>1
    <3>2. d[o] = d[o - 1] + 1 /\ d[o - 1] \in Int
      BY <2>1, <3>1, DepthAt
    <3>3. d[o - 1] >= d[p]
      BY <1>4, <3>1
    <3>. QED
      BY <1>1, <2>3, <3>2, <3>3
  <2>5. CASE o = p
    BY <2>5
  <2>6. CASE o # p
    <3>1. o \in 1..(p - 1) /\ \A j \in o..(p - 1) : j \in o..(q - 1)
      BY <1>0, <1>3, <2>1, <2>4, <2>6
    <3>2. o \in Rounds(d, p)
      BY <1>3, <2>1, <3>1, InRounds
    <3>. QED
      BY <3>2
  <2>. QED
    BY <2>5, <2>6
<1> QED
  BY <1>3, <1>5, <1>6, <1>7

(* and around a region are those that were entered before it.              *)
LEMMA RoundsOuter ==
    ASSUME NEW d, Nested(d), NEW p \in 1..Len(body), NEW o \in Rounds(d, p)
    PROVE  /\ o \in 1..Len(body) /\ body[o].k \in Opens
           /\ Rounds(d, o) = {j \in Rounds(d, p) : j < o}
<1>0. PICK n \in Nat : n = Len(body)
  BY DEF Nested, Numbered
<1>1. p \in 1..(Len(body) + 1)
  BY <1>0
<1>2. /\ o \in 1..(p - 1) /\ o \in 1..Len(body) /\ body[o].k \in Opens
      /\ \A j \in o..(p - 1) : d[j] \in Int /\ d[o] \in Int /\ d[j] >= d[o]
  BY <1>1, InRounds
<1>3. o \in 1..(Len(body) + 1)
  BY <1>0, <1>2
<1>4. d[o - 1] \in Int /\ d[o] = d[o - 1] + 1 /\ d[o] \in Int
  BY <1>2, DepthAt
<1>5. ASSUME NEW i \in Rounds(d, o) PROVE i \in Rounds(d, p) /\ i < o
  <2>1. i \in 1..(o - 1) /\ i \in 1..Len(body) /\ body[i].k \in Opens
        /\ \A j \in i..(o - 1) : d[j] \in Int /\ d[i] \in Int /\ d[j] >= d[i]
    BY <1>3, InRounds
  <2>2. o - 1 \in i..(o - 1)
    BY <1>2, <2>1
  <2>3. d[o - 1] >= d[i] /\ d[i] \in Int
    BY <2>1, <2>2
  <2>4. ASSUME NEW j \in i..(p - 1) PROVE d[j] \in Int /\ d[j] >= d[i]
    <3>1. CASE j <= o - 1
      <4>1. j \in i..(o - 1)
        BY <1>2, <2>1, <3>1
      <4>. QED
        BY <2>1, <4>1
    <3>2. CASE j > o - 1
      <4>1. j \in o..(p - 1)
        BY <1>2, <2>1, <3>2
      <4>. QED
        BY <1>2, <1>4, <2>3, <4>1
    <3>. QED
      BY <1>2, <2>1, <3>1, <3>2
  <2>5. i \in 1..(p - 1) /\ i < o
    BY <1>2, <2>1
  <2>. QED
    BY <1>1, <2>1, <2>3, <2>4, <2>5, InRounds
<1>6. ASSUME NEW i \in Rounds(d, p), i < o PROVE i \in Rounds(d, o)
  <2>1. i \in 1..(p - 1) /\ i \in 1..Len(body) /\ body[i].k \in Opens
        /\ \A j \in i..(p - 1) : d[j] \in Int /\ d[i] \in Int /\ d[j] >= d[i]
    BY <1>1, InRounds
  <2>2. i \in 1..(o - 1) /\ \A j \in i..(o - 1) : j \in i..(p - 1)
    BY <1>2, <1>6, <2>1
  <2>. QED
    BY <1>3, <2>1, <2>2, InRounds
<1> QED
  BY <1>2, <1>5, <1>6
-----------------------------------------------------------------------------
(***************************************************************************)
(* The execution.  The regions entered, outermost first, are the regions   *)
(* around the place that has been reached.                                 *)
(***************************************************************************)
Rising(s) == s \in Seq(Nat) /\ \A i, j \in 1..Len(s) : i < j => s[i] < s[j]
Within(d, s, p) == Rising(s) /\ Range(s) = Rounds(d, p)

(* A region is entered inside the others; *)
LEMMA RisingAppend ==
    ASSUME NEW s, Rising(s), NEW x \in Nat, \A y \in Range(s) : y < x
    PROVE  Rising(Append(s, x)) /\ Range(Append(s, x)) = Range(s) \cup {x}
<1>0. PICK n \in Nat : n = Len(s)
  BY DEF Rising
<1>1. PICK t : t = Append(s, x)
  OBVIOUS
<1>2. s \in Seq(Nat) /\ DOMAIN s = 1..n
  BY <1>0 DEF Rising
<1>3. t \in Seq(Nat) /\ Len(t) = n + 1 /\ DOMAIN t = 1..(n + 1)
  BY <1>0, <1>1, <1>2
<1>4. t[n + 1] = x /\ \A i \in 1..n : t[i] = s[i] /\ t[i] \in Range(s)
  BY <1>0, <1>1, <1>2 DEF Range
<1>5. ASSUME NEW i \in 1..(n + 1), NEW j \in 1..(n + 1), i < j PROVE t[i] < t[j]
  <2>1. i \in 1..n
    BY <1>5
  <2>2. CASE j = n + 1
    BY <1>4, <2>1, <2>2
  <2>3. CASE j # n + 1
    <3>1. j \in 1..n
      BY <2>3
    <3>. QED
      BY <1>0, <1>4, <1>5, <2>1, <3>1 DEF Rising
  <2>. QED
    BY <2>2, <2>3
<1>6. Range(t) = Range(s) \cup {x}
  <2>1. ASSUME NEW y \in Range(t) PROVE y \in Range(s) \cup {x}
    <3>1. PICK i \in 1..(n + 1) : t[i] = y
      BY <1>3 DEF Range
    <3>2. i = n + 1 \/ i \in 1..n
      OBVIOUS
    <3>. QED
      BY <1>4, <3>1, <3>2
  <2>2. ASSUME NEW y \in Range(s) PROVE y \in Range(t)
    <3>1. PICK i \in 1..n : s[i] = y
      BY <1>2 DEF Range
    <3>2. i \in 1..(n + 1)
      OBVIOUS
    <3>. QED
      BY <1>3, <1>4, <3>1, <3>2 DEF Range
  <2>3. n + 1 \in 1..(n + 1)
    OBVIOUS
  <2>. QED
    BY <1>3, <1>4, <2>1, <2>2, <2>3 DEF Range
<1> QED
  BY <1>1, <1>3, <1>5, <1>6 DEF Rising

(* and left with those inside it. *)
LEMMA RisingCut ==
    ASSUME NEW s, Rising(s), NEW i \in 1..Len(s), NEW m \in {i - 1, i}
    PROVE  /\ Rising(SubSeq(s, 1, m))
           /\ Range(SubSeq(s, 1, m)) = {y \in Range(s) : y < s[i]} \cup (IF m = i THEN {s[i]} ELSE {})
<1>0. PICK n \in Nat : n = Len(s)
  BY DEF Rising
<1>1. PICK t : t = SubSeq(s, 1, m)
  OBVIOUS
<1>2. s \in Seq(Nat) /\ DOMAIN s = 1..n /\ m \in 0..n
  BY <1>0 DEF Rising
<1>3. t \in Seq(Nat) /\ Len(t) = m /\ DOMAIN t = 1..m /\ \A j \in 1..m : t[j] = s[j]
  BY <1>0, <1>1, <1>2
<1>4. Rising(t)
  <2>1. ASSUME NEW a \in 1..m, NEW b \in 1..m, a < b PROVE t[a] < t[b]
    <3>1. a \in 1..n /\ b \in 1..n
      BY <1>2
    <3>. QED
      BY <1>0, <1>3, <2>1, <3>1 DEF Rising
  <2>. QED
    BY <1>3, <2>1 DEF Rising
<1>5. ASSUME NEW j \in 1..n
      PROVE  /\ j < i => s[j] < s[i]
             /\ i < j => s[i] < s[j]
             /\ s[j] \in Nat /\ s[i] \in Nat
  BY <1>0, <1>2 DEF Rising
<1>6. ASSUME NEW y \in Range(t) PROVE y \in {z \in Range(s) : z < s[i]} \cup (IF m = i THEN {s[i]} ELSE {})
  <2>1. PICK j \in 1..m : t[j] = y
    BY <1>3 DEF Range
  <2>2. j \in 1..n /\ s[j] = y /\ y \in Range(s)
    BY <1>2, <1>3, <2>1 DEF Range
  <2>3. j < i \/ (j = i /\ m = i)
    BY <1>2, <2>1
  <2>. QED
    BY <1>5, <2>2, <2>3
<1>7. ASSUME NEW y \in Range(s), y < s[i] PROVE y \in Range(t)
  <2>1. PICK j \in 1..n : s[j] = y
    BY <1>2 DEF Range
  <2>2. j < i
    <3>1. i \in 1..n
      BY <1>0
    <3>2. ~(i < j) /\ j # i
      BY <1>5, <1>7, <2>1
    <3>. QED
      BY <3>1, <3>2
  <2>3. j \in 1..m
    BY <1>0, <2>2
  <2>. QED
    BY <1>3, <2>1, <2>3 DEF Range
<1>8. m = i => s[i] \in Range(t)
  <2>1. m = i => i \in 1..m
    BY <1>0
  <2>. QED
    BY <1>3, <2>1 DEF Range
<1> QED
  BY <1>1, <1>4, <1>6, <1>7, <1>8

(* The innermost region is one of them. *)
LEMMA InnermostIs ==
    ASSUME NEW n \in Nat, NEW S \in SUBSET (1..n), S # {}
    PROVE  Innermost(S) \in S
<1> DEFINE R == {k \in 0..n : n - k \in S}
<1>1. PICK j : j \in S
  OBVIOUS
<1>2. n - j \in R /\ R \in SUBSET Nat
  BY <1>1
<1>3. PICK k \in R : \A m \in R : k <= m
  <2>. HIDE DEF R
  <2>. QED
    BY <1>2, LeastNat
<1>4. n - k \in S /\ \A h \in S : h <= n - k
  <2>1. ASSUME NEW h \in S PROVE h <= n - k
    <3>1. h \in Int /\ n - h \in R /\ k \in Int
      OBVIOUS
    <3>2. k <= n - h
      BY <1>3, <3>1
    <3>. QED
      BY <3>1, <3>2
  <2>. QED
    BY <1>3, <2>1
<1> QED
  BY <1>4 DEF Innermost

(* The marks of a text and what each wants. *)
Item(k, l, w) == [k |-> k, l |-> l, w |-> w]
Wants(m) ==
    IF m.k = "br block" THEN {<<"block", m.l>>} ELSE IF m.k = "br loop" THEN {<<"loop", m.l>>} ELSE {}
ItemOf(m) == Item(m.k, m.l, Wants(m))
Items(s) == [i \in 1..Len(s) |-> ItemOf(s[i])]
Sound(s, d) == Numbered(s) /\ Fits(Items(s), d, {})

(* In a text that fits every branch is inside what it names. *)
LEMMA SoundBody ==
    ASSUME NEW d, Sound(body, d)
    PROVE  /\ Nested(d)
           /\ \A p \in 1..Len(body) :
                 /\ body[p].k = "if" => Parts(body, d, p)
                 /\ body[p].k = "br block" =>
                       \E o \in Rounds(d, p) : body[o].k = "block" /\ body[o].l = body[p].l
                 /\ body[p].k = "br loop" =>
                       \E o \in Rounds(d, p) : body[o].k = "loop" /\ body[o].l = body[p].l
<1>a. PICK n \in Nat : n = Len(body)
  BY DEF Sound, Numbered
<1>b. PICK s : s = Items(body)
  OBVIOUS
<1>0. n = Len(body) /\ s = Items(body)
  BY <1>a, <1>b
<1>1. /\ s = [i \in 1..n |-> ItemOf(body[i])] /\ DOMAIN s = 1..n /\ Len(s) = n
      /\ \A i \in 1..n : s[i].k = body[i].k /\ s[i].l = body[i].l /\ s[i].w = Wants(body[i])
  <2>1. s = [i \in 1..n |-> ItemOf(body[i])]
    BY <1>0 DEF Items
  <2>2. DOMAIN s = 1..n /\ Len(s) = n
    BY <2>1
  <2>3. \A i \in 1..n : s[i] = ItemOf(body[i])
    BY <2>1
  <2>. QED
    BY <2>1, <2>2, <2>3 DEF ItemOf, Item
<1>2. Fits(s, d, {})
  BY <1>0 DEF Sound
<1>3. Nested(d)
  BY <1>0, <1>1, <1>2 DEF Fits, Level, Profile, Nested, Sound
<1>4. ASSUME NEW p \in 1..n, s[p].k = "if" PROVE Parts(body, d, p)
  <2>1. PICK q \in (p + 1)..n : s[q].k = "else" /\ d[q] = d[p] /\ Keeps(d, p, q)
    BY <1>1, <1>2, <1>4 DEF Fits, Parts
  <2>2. q \in 1..n /\ q \in (p + 1)..Len(body)
    BY <1>0
  <2>. QED
    BY <1>1, <2>1, <2>2 DEF Parts
<1>5. ASSUME NEW p \in 1..n, NEW x \in s[p].w
      PROVE  \E o \in Rounds(d, p) : x = <<body[o].k, body[o].l>>
  <2>1. x \in Named(s, d, p)
    BY <1>1, <1>2 DEF Fits
  <2>2. PICK o \in 1..(p - 1) : IsAround(s, d, o, p) /\ x = <<s[o].k, s[o].l>>
    BY <2>1 DEF Named
  <2>3. o \in 1..n
    OBVIOUS
  <2>4. o \in Rounds(d, p)
    BY <1>1, <2>2, <2>3 DEF IsAround, Rounds
  <2>. QED
    BY <1>1, <2>2, <2>3, <2>4
<1>6. ASSUME NEW p \in 1..n, body[p].k = "br block"
      PROVE  \E o \in Rounds(d, p) : body[o].k = "block" /\ body[o].l = body[p].l
  <2>1. <<"block", body[p].l>> \in s[p].w
    BY <1>1, <1>6 DEF Wants
  <2>. QED
    BY <1>5, <2>1
<1>7. ASSUME NEW p \in 1..n, body[p].k = "br loop"
      PROVE  \E o \in Rounds(d, p) : body[o].k = "loop" /\ body[o].l = body[p].l
  <2>1. <<"loop", body[p].l>> \in s[p].w
    BY <1>1, <1>7 DEF Wants
  <2>. QED
    BY <1>5, <2>1
<1> QED
  BY <1>0, <1>1, <1>3, <1>4, <1>6, <1>7

(* The invariant of the execution. *)
Arrives(d) == pc \in 1..(Len(body) + 1) /\ Within(d, open, pc)
Running ==
    /\ pc = 0 => body = <<>> /\ open = <<>>
    /\ pc # 0 => \E d : Sound(body, d) /\ Arrives(d)

(* To enter a region, by whatever mark. *)
LEMMA Enters ==
    ASSUME NEW d, Nested(d), NEW p \in 1..Len(body), body[p].k \in Opens,
           NEW s, Within(d, s, p), NEW q, Rounds(d, q) = Rounds(d, p) \cup {p}
    PROVE  Within(d, Append(s, p), q)
<1>1. p \in Nat /\ p \in 1..(Len(body) + 1)
  BY DEF Nested, Numbered
<1>2. \A y \in Range(s) : y < p
  BY <1>1, InRounds DEF Within
<1>3. Rising(s)
  BY DEF Within
<1>4. Rising(Append(s, p)) /\ Range(Append(s, p)) = Range(s) \cup {p}
  BY <1>1, <1>2, <1>3, RisingAppend
<1> QED
  BY <1>4 DEF Within

(* What holds at the next mark after each step. *)
LEMMA REnter ==
    ASSUME NEW d, Sound(body, d), Arrives(d), EnterRegion \/ Choose \/ When
    PROVE  Arrives(d)'
<1>0. PICK n \in Nat : n = Len(body)
  BY DEF Sound, Numbered
<1>1. /\ Nested(d) /\ pc \in 1..Len(body) /\ body' = body /\ Within(d, open, pc) /\ body[pc].k \in Opens
      /\ body[pc].k = "if" => Parts(body, d, pc)
  <2>1. pc \in DOMAIN body /\ body' = body /\ body[pc].k \in Opens
    BY DEF EnterRegion, Choose, When, Go, Reading, Opens
  <2>2. DOMAIN body = 1..Len(body)
    BY DEF Sound, Numbered
  <2>. QED
    BY <2>1, <2>2, SoundBody DEF Arrives
<1>2. \A s, p : Within(d, s, p)' <=> Rising(s') /\ Range(s') = Rounds(d, p')
  BY <1>1 DEF Within, Rounds
<1>3. ASSUME pc' = pc + 1, open' = Append(open, pc) PROVE Arrives(d)'
  <2>1. PICK q : q = pc + 1
    OBVIOUS
  <2>2. q \in 1..(Len(body) + 1) /\ Rounds(d, q) = Rounds(d, pc) \cup {pc}
    BY <1>0, <1>1, <2>1, RoundsEnter
  <2>3. Within(d, Append(open, pc), q)
    BY <1>1, <2>2, Enters
  <2>. QED
    BY <1>1, <1>3, <2>1, <2>2, <2>3 DEF Arrives, Within, Rounds
<1>4. ASSUME pc' = ElseOf(pc) + 1, open' = Append(open, pc), body[pc].k = "if" PROVE Arrives(d)'
  <2>1. PICK q : q = ElseOf(pc) + 1
    OBVIOUS
  <2>2. q \in 1..(Len(body) + 1) /\ Rounds(d, q) = Rounds(d, pc) \cup {pc}
    BY <1>1, <1>4, <2>1, RoundsElse
  <2>3. Within(d, Append(open, pc), q)
    BY <1>1, <2>2, Enters
  <2>. QED
    BY <1>1, <1>4, <2>1, <2>2, <2>3 DEF Arrives, Within, Rounds
<1>5. ASSUME pc' = EndOf(pc) + 1, open' = open PROVE Arrives(d)'
  <2>1. PICK q : q = EndOf(pc) + 1
    OBVIOUS
  <2>2. q \in 1..(Len(body) + 1) /\ Rounds(d, q) = Rounds(d, pc)
    BY <1>1, <2>1, RoundsLeave
  <2>. QED
    BY <1>1, <1>5, <2>1, <2>2 DEF Arrives, Within, Rounds
<1>6. CASE EnterRegion
  BY <1>3, <1>6 DEF EnterRegion, Go
<1>7. CASE Choose
  BY <1>3, <1>4, <1>7 DEF Choose, Go, Reading
<1>8. CASE When
  BY <1>3, <1>5, <1>8 DEF When, Go
<1> QED
  BY <1>6, <1>7, <1>8

(* A branch leaves or repeats a region, and arrives in those around it. *)
LEMMA RBranch ==
    ASSUME NEW d, Sound(body, d), Arrives(d), BranchOut \/ BranchBack
    PROVE  Arrives(d)'
<1>0. PICK n \in Nat : n = Len(body)
  BY DEF Sound, Numbered
<1>1. Nested(d) /\ pc \in 1..Len(body) /\ body' = body /\ Rising(open) /\ Range(open) = Rounds(d, pc)
  <2>1. pc \in DOMAIN body /\ body' = body
    BY DEF BranchOut, BranchBack, Go, Reading
  <2>2. DOMAIN body = 1..Len(body)
    BY DEF Sound, Numbered
  <2>. QED
    BY <2>1, <2>2, SoundBody DEF Arrives, Within
<1>2. Len(open) \in Nat /\ DOMAIN open = 1..Len(open)
  BY <1>1 DEF Rising
<1>3. ASSUME NEW k, Enclosing(k) # {}
      PROVE  /\ Innermost(Enclosing(k)) \in 1..Len(open)
             /\ open[Innermost(Enclosing(k))] \in Rounds(d, pc)
  <2>1. PICK S : S = Enclosing(k)
    OBVIOUS
  <2>2. S \in SUBSET (1..Len(open)) /\ S # {}
    BY <1>2, <1>3, <2>1 DEF Enclosing
  <2>3. Innermost(S) \in S
    BY <1>2, <2>2, InnermostIs
  <2>. QED
    BY <1>1, <1>2, <2>1, <2>2, <2>3 DEF Range
<1>4. ASSUME NEW i \in 1..Len(open), open[i] \in Rounds(d, pc)
      PROVE  /\ open[i] \in 1..Len(body) /\ body[open[i]].k \in Opens
             /\ Rounds(d, open[i]) = {y \in Range(open) : y < open[i]}
  BY <1>1, <1>4, RoundsOuter
<1>5. CASE BranchOut
  <2>1. PICK i : /\ i \in 1..Len(open) /\ open[i] \in Rounds(d, pc)
                 /\ pc' = EndOf(open[i]) + 1 /\ open' = SubSeq(open, 1, i - 1)
    BY <1>3, <1>5 DEF BranchOut, Go
  <2>2. PICK o, q, m : o = open[i] /\ q = EndOf(o) + 1 /\ m = i - 1
    OBVIOUS
  <2>3. o \in 1..Len(body) /\ body[o].k \in Opens /\ Rounds(d, o) = {y \in Range(open) : y < open[i]}
    BY <1>4, <2>1, <2>2
  <2>4. q \in 1..(Len(body) + 1) /\ Rounds(d, q) = Rounds(d, o)
    BY <1>1, <2>2, <2>3, RoundsLeave
  <2>5. /\ Rising(SubSeq(open, 1, m))
        /\ Range(SubSeq(open, 1, m)) = {y \in Range(open) : y < open[i]} \cup (IF m = i THEN {open[i]} ELSE {})
    <3>1. i \in 1..Len(open) /\ m \in {i - 1, i}
      BY <2>1, <2>2
    <3>. QED
      BY <1>1, <3>1, RisingCut
  <2>6. m # i
    BY <1>2, <2>1, <2>2
  <2>7. Rising(open') /\ Range(open') = Rounds(d, q)
    BY <2>1, <2>2, <2>3, <2>4, <2>5, <2>6
  <2>. QED
    BY <1>1, <2>1, <2>2, <2>4, <2>7 DEF Arrives, Within, Rounds
<1>6. CASE BranchBack
  <2>1. PICK i : /\ i \in 1..Len(open) /\ open[i] \in Rounds(d, pc)
                 /\ pc' = open[i] + 1 /\ open' = SubSeq(open, 1, i)
    BY <1>3, <1>6 DEF BranchBack, Go
  <2>2. PICK o, q : o = open[i] /\ q = o + 1
    OBVIOUS
  <2>3. o \in 1..Len(body) /\ body[o].k \in Opens /\ Rounds(d, o) = {y \in Range(open) : y < open[i]}
    BY <1>4, <2>1, <2>2
  <2>4. q \in 1..(Len(body) + 1) /\ Rounds(d, q) = Rounds(d, o) \cup {o}
    <3>1. Rounds(d, q) = Rounds(d, o) \cup {o}
      BY <1>1, <2>2, <2>3, RoundsEnter
    <3>. QED
      BY <1>0, <2>2, <2>3, <3>1
  <2>5. /\ Rising(SubSeq(open, 1, i))
        /\ Range(SubSeq(open, 1, i)) = {y \in Range(open) : y < open[i]} \cup (IF i = i THEN {open[i]} ELSE {})
    <3>1. i \in 1..Len(open) /\ i \in {i - 1, i}
      BY <2>1
    <3>. QED
      BY <1>1, <3>1, RisingCut
  <2>7. Rising(open') /\ Range(open') = Rounds(d, q)
    BY <2>1, <2>2, <2>3, <2>4, <2>5
  <2>. QED
    BY <1>1, <2>1, <2>2, <2>4, <2>7 DEF Arrives, Within, Rounds
<1> QED
  BY <1>5, <1>6

(* What is no region and no branch goes on to the next mark. *)
LEMMA RPlain ==
    ASSUME NEW d, Sound(body, d), Arrives(d), RunBlock \/ SetTarget
    PROVE  Arrives(d)'
<1>0. PICK n \in Nat : n = Len(body)
  BY DEF Sound, Numbered
<1>1. /\ Nested(d) /\ pc \in 1..Len(body) /\ body' = body /\ Rising(open) /\ Range(open) = Rounds(d, pc)
      /\ body[pc].k \notin Opens /\ body[pc].k # "end" /\ pc' = pc + 1 /\ open' = open
  <2>1. /\ pc \in DOMAIN body /\ body' = body /\ body[pc].k \in {"code", "set", "select"}
        /\ pc' = pc + 1 /\ open' = open
    BY DEF RunBlock, SetTarget, Go, Reading
  <2>2. DOMAIN body = 1..Len(body)
    BY DEF Sound, Numbered
  <2>3. body[pc].k \notin Opens /\ body[pc].k # "end"
    BY <2>1 DEF Opens
  <2>. QED
    BY <2>1, <2>2, <2>3, SoundBody DEF Arrives, Within
<1>2. PICK q : q = pc + 1
  OBVIOUS
<1>3. q \in 1..(Len(body) + 1) /\ Rounds(d, q) = Rounds(d, pc)
  BY <1>0, <1>1, <1>2, RoundsStep
<1> QED
  BY <1>1, <1>2, <1>3 DEF Arrives, Within, Rounds

(* The invariant gives the property. *)
LEMMA RunningEnclosed == Running => BranchesEnclosed
<1>0. CASE pc \notin DOMAIN body
  BY <1>0 DEF BranchesEnclosed, Reading
<1>1. CASE pc \in DOMAIN body /\ pc # 0 /\ Running
  <2>1. PICK d : Sound(body, d) /\ Arrives(d)
    BY <1>1 DEF Running
  <2>2. pc \in 1..Len(body) /\ DOMAIN body = 1..Len(body)
    BY <1>1, <2>1 DEF Sound, Numbered
  <2>3. Rising(open) /\ Range(open) = Rounds(d, pc) /\ Nested(d)
    BY <2>1, SoundBody DEF Arrives, Within
  <2>4. Range(open) = Around(pc)
    BY <2>2, <2>3, AroundIs
  <2>5. ASSUME NEW k, NEW o \in Rounds(d, pc), body[o].k = k, body[o].l = body[pc].l
        PROVE  Enclosing(k) # {}
    <3>1. PICK i \in DOMAIN open : open[i] = o
      BY <2>3 DEF Range
    <3>2. i \in Enclosing(k)
      BY <2>5, <3>1 DEF Enclosing, L
    <3>. QED
      BY <3>2
  <2>6. /\ body[pc].k = "br block" => Enclosing("block") # {}
        /\ body[pc].k = "br loop" => Enclosing("loop") # {}
    BY <2>1, <2>2, <2>5, SoundBody
  <2>. QED
    BY <2>4, <2>6 DEF BranchesEnclosed, Reading
<1>2. CASE pc = 0 /\ Running
  <2>1. DOMAIN body = {}
    BY <1>2 DEF Running
  <2>. QED
    BY <2>1 DEF BranchesEnclosed, Reading
<1> QED
  BY <1>0, <1>1, <1>2
-----------------------------------------------------------------------------
(* A mark that opens and closes nothing. *)
Plain(i) == i.k \notin Opens /\ i.k # "end"

(* Texts that fit: one region and what follows it, or no region; *)
LEMMA FitsRegion ==
    ASSUME NEW n \in Nat, NEW m \in 0..n, NEW s, Numbered(s), Len(s) = n, NEW w, m # 1,
           m # 0 => s[1].k \in Opens /\ s[1].k # "if" /\ s[m].k = "end" /\ s[1].w \subseteq w /\ s[m].w \subseteq w,
           \A i \in 2..(m - 1) : Plain(s[i]) /\ s[i].w \subseteq w \cup {<<s[1].k, s[1].l>>},
           \A i \in (m + 1)..n : Plain(s[i]) /\ s[i].w \subseteq w
    PROVE  \E e : Fits(s, e, w)
<1>1. PICK e : e = [i \in 0..n |-> IF i \in 1..(m - 1) THEN 1 ELSE 0]
  OBVIOUS
<1>2. \A i \in 0..n : e[i] = IF i \in 1..(m - 1) THEN 1 ELSE 0
  BY <1>1
<1>3. e \in [0..n -> Int] /\ e[0] = 0 /\ e[n] = 0 /\ \A i \in 0..n : e[i] >= 0
  BY <1>1, <1>2
<1>4. ASSUME NEW i \in 1..n PROVE e[i] = e[i - 1] + Turn(s[i].k)
  <2>0. i \in 0..n /\ i - 1 \in 0..n
    OBVIOUS
  <2>1. CASE m # 0 /\ i = 1
    BY <1>2, <2>0, <2>1 DEF Turn
  <2>2. CASE m # 0 /\ i = m
    <3>1. Turn(s[i].k) = -1
      BY <2>2 DEF Turn, Opens
    <3>. QED
      BY <1>2, <2>0, <2>2, <3>1
  <2>3. CASE i \in 2..(m - 1) \/ i \in (m + 1)..n
    <3>1. Turn(s[i].k) = 0
      BY <2>3 DEF Turn, Plain
    <3>. QED
      BY <1>2, <2>0, <2>3, <3>1
  <2>. QED
    BY <2>1, <2>2, <2>3
<1>5. Level(s, e)
  BY <1>3, <1>4 DEF Level, Profile
<1>6. ASSUME NEW i \in 1..n PROVE s[i].k # "if" /\ s[i].w \subseteq w \cup Named(s, e, i)
  <2>1. CASE m # 0 /\ i \in {1, m}
    BY <2>1
  <2>2. CASE i \in (m + 1)..n
    BY <2>2 DEF Plain, Opens
  <2>3. CASE i \in 2..(m - 1)
    <3>1. m # 0 /\ 1 \in 1..(i - 1) /\ s[1].k \in Opens
      BY <2>3
    <3>2. \A j \in 1..(i - 1) : e[j] >= e[1]
      <4>1. \A j \in 1..(i - 1) : j \in 0..n /\ j \in 1..(m - 1)
        BY <2>3
      <4>. QED
        BY <1>2, <3>1, <4>1
    <3>3. IsAround(s, e, 1, i)
      BY <3>1, <3>2 DEF IsAround, Keeps
    <3>4. <<s[1].k, s[1].l>> \in Named(s, e, i)
      BY <3>1, <3>3 DEF Named
    <3>. QED
      BY <2>3, <3>4 DEF Plain, Opens
  <2>. QED
    BY <2>1, <2>2, <2>3
<1> QED
  BY <1>5, <1>6 DEF Fits

(* a mark, and an if with an else. *)
LEMMA FitsChoice ==
    ASSUME NEW s, Numbered(s), Len(s) = 6, NEW w,
           s[2].k = "if", s[4].k = "else", s[6].k = "end",
           \A i \in {1, 3, 5} : Plain(s[i]), \A i \in 1..6 : s[i].w \subseteq w
    PROVE  \E e : Fits(s, e, w)
<1>1. PICK e : e = [i \in 0..6 |-> IF i \in 2..5 THEN 1 ELSE 0]
  OBVIOUS
<1>2. \A i \in 0..6 : e[i] = IF i \in 2..5 THEN 1 ELSE 0
  BY <1>1
<1>3. e \in [0..6 -> Int] /\ e[0] = 0 /\ e[6] = 0 /\ \A i \in 0..6 : e[i] >= 0
  BY <1>1, <1>2
<1>4. ASSUME NEW i \in 1..6 PROVE e[i] = e[i - 1] + Turn(s[i].k)
  <2>0. i \in 0..6 /\ i - 1 \in 0..6
    OBVIOUS
  <2>1. CASE i = 2
    BY <1>2, <2>0, <2>1 DEF Turn, Opens
  <2>2. CASE i = 6
    <3>1. Turn(s[i].k) = -1
      BY <2>2 DEF Turn, Opens
    <3>. QED
      BY <1>2, <2>0, <2>2, <3>1
  <2>3. CASE i \in {1, 3, 4, 5}
    <3>1. Turn(s[i].k) = 0
      BY <2>3 DEF Turn, Plain, Opens
    <3>. QED
      BY <1>2, <2>0, <2>3, <3>1
  <2>. QED
    BY <2>1, <2>2, <2>3
<1>5. Level(s, e)
  BY <1>3, <1>4 DEF Level, Profile
<1>6. Parts(s, e, 2)
  <2>1. 4 \in (2 + 1)..6 /\ e[4] = e[2] /\ \A j \in 2..4 : e[j] >= e[2]
    BY <1>2
  <2>. QED
    BY <2>1 DEF Parts, Keeps
<1>7. ASSUME NEW i \in 1..6, s[i].k = "if" PROVE i = 2
  BY <1>7 DEF Plain, Opens
<1> QED
  BY <1>5, <1>6, <1>7 DEF Fits

-----------------------------------------------------------------------------
(***************************************************************************)
(* The emission.  The plan is the marks written and then the calls to      *)
(* make, each with what it needs around it: the loops of the headers above *)
(* its label, and the blocks of the merges that come later and hang from a *)
(* label above it.  A call of do_tree opens the loop of its label and the  *)
(* blocks of its children itself, one of node_within those it has yet to   *)
(* open.                                                                   *)
(***************************************************************************)
Loops(x) == {<<"loop", h>> : h \in {v \in headers : v \in Up(idom, x)}}
Blocks(x, S) ==
    {<<"block", v>> : v \in {u \in merges : u \notin S /\ idom[u] \in Up(idom, x) /\ Place(rpo, x) < Place(rpo, u)}}
Region(x, S) == Loops(x) \cup Blocks(x, S)
Hanging(x) == {v \in Range(rpo) : idom[v] = x}
Needs(k) ==
    IF k.t = "within" THEN Region(k.x, Range(k.ys))
    ELSE IF k.t = "branch" THEN Region(k.ys[1], {})
    ELSE Region(k.x, Hanging(k.x)) \ {<<"loop", k.x>>}
ItemFor(k) == IF k.t = "write" THEN ItemOf(k.ys[1]) ELSE Item("call", k.x, Needs(k))
Made(new) == [i \in 1..Len(new) |-> ItemFor(new[i])]
Plan(ts, tx) ==
    [i \in 1..(Len(tx) + Len(ts)) |-> IF i <= Len(tx) THEN ItemOf(tx[i]) ELSE ItemFor(ts[i - Len(tx)])]

(* The items of the calls. *)
LEMMA WriteItem ==
    ASSUME NEW c, NEW x
    PROVE  /\ ItemFor(Write(Mark(c, x))).k = c /\ ItemFor(Write(Mark(c, x))).l = x
           /\ c \notin {"br block", "br loop"} => ItemFor(Write(Mark(c, x))).w = {}
           /\ c = "br block" => ItemFor(Write(Mark(c, x))).w = {<<"block", x>>}
           /\ c = "br loop" => ItemFor(Write(Mark(c, x))).w = {<<"loop", x>>}
<1>1. PICK m : m = Mark(c, x)
  OBVIOUS
<1>2. m.k = c /\ m.l = x
  BY <1>1 DEF Mark
<1>3. PICK k : k = Write(m)
  OBVIOUS
<1>4. k.t = "write" /\ k.ys[1] = m
  BY <1>3 DEF Write, Task
<1>5. ItemFor(k) = Item(c, x, Wants(m))
  BY <1>2, <1>4 DEF ItemFor, ItemOf
<1>6. ItemFor(k).k = c /\ ItemFor(k).l = x /\ ItemFor(k).w = Wants(m)
  BY <1>5 DEF Item
<1>7. /\ c \notin {"br block", "br loop"} => Wants(m) = {}
      /\ c = "br block" => Wants(m) = {<<"block", x>>}
      /\ c = "br loop" => Wants(m) = {<<"loop", x>>}
  BY <1>2 DEF Wants
<1> QED
  BY <1>1, <1>3, <1>6, <1>7

(* What a call wants. *)
LEMMA CallItem ==
    /\ \A x : ItemFor(Tree(x)).k = "call" /\ ItemFor(Tree(x)).w = Region(x, Hanging(x)) \ {<<"loop", x>>}
    /\ \A x, ys : /\ ItemFor(Task("within", x, ys)).k = "call"
                  /\ ItemFor(Task("within", x, ys)).w = Region(x, Range(ys))
    /\ \A u, x : ItemFor(Branch(u, x)).k = "call" /\ ItemFor(Branch(u, x)).w = Region(u, {})
BY DEF ItemFor, Tree, Task, Branch, Item, Needs

(* The call at hand is replaced by those it makes. *)
LEMMA PlanReplaced ==
    ASSUME NEW T, NEW ts \in Seq(T), ts # <<>>, NEW new \in Seq(T), NEW S, NEW tx \in Seq(S),
           Head(ts).t # "write", NEW d, Fits(Plan(ts, tx), d, {}),
           NEW e, Fits(Made(new), e, Needs(Head(ts)))
    PROVE  \E f : Fits(Plan(new \o Tail(ts), tx), f, {})
<1>0. PICK n \in Nat, k \in Nat, m \in Nat : n = Len(tx) /\ k = Len(new) /\ m + 1 = Len(ts)
  <2>1. PICK a : a = Len(ts)
    OBVIOUS
  <2>2. a \in Nat /\ a # 0
    BY <2>1
  <2>3. a - 1 \in Nat /\ (a - 1) + 1 = a
    BY <2>2
  <2>4. Len(tx) \in Nat /\ Len(new) \in Nat
    OBVIOUS
  <2>. QED
    BY <2>1, <2>3, <2>4
<1>1. PICK r, us, s, t, nw : r = Tail(ts) /\ us = new \o r /\ s = Plan(ts, tx) /\ t = Plan(us, tx) /\ nw = Made(new)
  OBVIOUS
<1>2. /\ Len(r) = m /\ \A i \in 1..m : r[i] = ts[1 + i]
      /\ Len(us) = k + m /\ (\A i \in 1..k : us[i] = new[i]) /\ \A i \in 1..m : us[k + i] = r[i]
      /\ Head(ts) = ts[1]
  <2>1. r \in Seq(T) /\ Len(r) = m /\ \A i \in 1..m : r[i] = ts[1 + i]
    BY <1>0, <1>1
  <2>. QED
    BY <1>0, <1>1, <2>1
<1>3. s = [i \in 1..(n + 1 + m) |-> IF i <= n THEN ItemOf(tx[i]) ELSE ItemFor(ts[i - n])]
  <2>1. n + (m + 1) = n + 1 + m
    OBVIOUS
  <2>. QED
    BY <1>0, <1>1, <2>1 DEF Plan
<1>4. t = [i \in 1..(n + k + m) |-> IF i <= n THEN ItemOf(tx[i]) ELSE ItemFor(us[i - n])]
  <2>1. n + (k + m) = n + k + m
    OBVIOUS
  <2>. QED
    BY <1>0, <1>1, <1>2, <2>1 DEF Plan
<1>5. nw = [i \in 1..k |-> ItemFor(new[i])]
  BY <1>0, <1>1 DEF Made
<1>6. Len(s) = n + 1 + m /\ Len(t) = n + k + m /\ Len(nw) = k /\ Numbered(t)
  BY <1>3, <1>4, <1>5 DEF Numbered
<1>7. \A i \in 1..n : t[i] = s[i]
  BY <1>3, <1>4
<1>8. ASSUME NEW i \in 1..k PROVE t[n + i] = nw[i]
  <2>1. n + i \in 1..(n + k + m) /\ ~(n + i <= n) /\ (n + i) - n = i
    OBVIOUS
  <2>2. t[n + i] = ItemFor(us[(n + i) - n])
    BY <1>4, <2>1
  <2>. QED
    BY <1>2, <1>5, <2>1, <2>2
<1>9. ASSUME NEW i \in 1..m PROVE t[n + k + i] = s[n + 1 + i]
  <2>1. /\ n + k + i \in 1..(n + k + m) /\ ~(n + k + i <= n) /\ (n + k + i) - n = k + i
        /\ n + 1 + i \in 1..(n + 1 + m) /\ ~(n + 1 + i <= n) /\ (n + 1 + i) - n = 1 + i
    OBVIOUS
  <2>2. t[n + k + i] = ItemFor(us[k + i])
    BY <1>4, <2>1
  <2>3. s[n + 1 + i] = ItemFor(ts[1 + i])
    BY <1>3, <2>1
  <2>. QED
    BY <1>2, <2>2, <2>3
<1>10. Placed(s, t, nw, n, k, m)
  BY <1>6, <1>7, <1>8, <1>9 DEF Placed
<1>11. s[n + 1] = Item("call", Head(ts).x, Needs(Head(ts)))
  <2>1. n + 1 \in 1..(n + 1 + m) /\ ~(n + 1 <= n) /\ (n + 1) - n = 1
    OBVIOUS
  <2>2. s[n + 1] = ItemFor(ts[1])
    BY <1>3, <2>1
  <2>. QED
    BY <1>2, <2>2 DEF ItemFor
<1>12. s[n + 1].k = "call" /\ s[n + 1].w = Needs(Head(ts))
  BY <1>11 DEF Item
<1>13. Fits(s, d, {}) /\ Fits(nw, e, s[n + 1].w)
  BY <1>1, <1>12
<1>14. \E f : Fits(t, f, {})
  BY <1>10, <1>12, <1>13, Replaced
<1> QED
  BY <1>1, <1>14

(* The labels once the graph is accepted. *)
LEMMA EmitFacts ==
    ASSUME CInv, phase = "emit"
    PROVE  /\ Listing(rpo) /\ IsTree(rpo, idom) /\ DOMAIN idom = Range(rpo) /\ merges \subseteq Range(rpo)
           /\ rpo[1] \in Range(rpo) /\ Place(rpo, rpo[1]) = 1
           /\ \A x \in Range(rpo) :
                 /\ Place(rpo, x) \in Nat /\ Place(rpo, x) >= 1 /\ idom[x] \in Range(rpo)
                 /\ x # rpo[1] => Place(rpo, idom[x]) < Place(rpo, x) /\ Place(rpo, idom[x]) \in Nat
<1>1. Listing(rpo) /\ IsTree(rpo, idom) /\ DOMAIN idom = Range(rpo)
  BY SearchedLater DEF CInv, Later
<1>2. merges \subseteq Range(rpo)
  BY DEF CInv, Classifying
<1>3. rpo[1] \in Range(rpo) /\ Place(rpo, rpo[1]) = 1 /\ \A x \in Range(rpo) : Place(rpo, x) \in Nat /\ Place(rpo, x) >= 1
  BY <1>1, PlaceOf
<1>4. \A x \in Range(rpo) : idom[x] \in Range(rpo) /\ (x # rpo[1] => Place(rpo, idom[x]) < Place(rpo, x))
  BY <1>1 DEF IsTree
<1> QED
  BY <1>1, <1>2, <1>3, <1>4

(* Labels in falling order. *)
Falling(ys) == \A i, j \in DOMAIN ys : i < j => Place(rpo, ys[j]) < Place(rpo, ys[i])

(* The children that merge come so. *)
LEMMA ChildrenFall ==
    ASSUME CInv, phase = "emit", NEW x \in Range(rpo)
    PROVE  Falling(MergeChildren(x))
<1>0. Listing(rpo) /\ DOMAIN rpo = 1..Len(rpo) /\ Len(rpo) \in Nat
  BY SearchedLater DEF CInv, Later
<1>1. PICK K, n, c, s : K = Merging(x) /\ n = Cardinality(K) /\ c = Kept(rpo, K) /\ s = MergeChildren(x)
  OBVIOUS
<1>2. K \in SUBSET (1..Len(rpo))
  BY <1>1 DEF Merging
<1>3. /\ n \in Nat /\ \A j \in 1..n : Nth(K, j) \in K
      /\ \A i, j \in 1..n : i < j => Nth(K, i) < Nth(K, j)
  BY <1>0, <1>1, <1>2, NthListsAll
<1>4. c = [j \in 1..n |-> rpo[Nth(K, j)]] /\ Len(c) = n
  BY <1>1, <1>3 DEF Kept
<1>5. s = [i \in 1..n |-> c[n - i + 1]]
  BY <1>1, <1>4 DEF MergeChildren, Reverse
<1>6. ASSUME NEW i \in 1..n
      PROVE  n - i + 1 \in 1..n /\ Nth(K, n - i + 1) \in 1..Len(rpo) /\ Place(rpo, s[i]) = Nth(K, n - i + 1)
  <2>1. PICK j : j = n - i + 1
    OBVIOUS
  <2>2. j \in 1..n
    BY <1>3, <2>1
  <2>3. s[i] = rpo[Nth(K, j)] /\ Nth(K, j) \in 1..Len(rpo)
    BY <1>2, <1>3, <1>4, <1>5, <2>1, <2>2
  <2>4. Place(rpo, rpo[Nth(K, j)]) = Nth(K, j)
    BY <1>0, <2>3, PlaceOf
  <2>. QED
    BY <2>1, <2>2, <2>3, <2>4
<1>7. ASSUME NEW i \in 1..n, NEW j \in 1..n, i < j PROVE Place(rpo, s[j]) < Place(rpo, s[i])
  <2>1. PICK a \in 1..n, b \in 1..n : a = n - i + 1 /\ b = n - j + 1
    BY <1>6
  <2>2. b < a
    BY <1>3, <1>7, <2>1
  <2>3. Nth(K, b) < Nth(K, a)
    BY <1>3, <2>2
  <2>4. Place(rpo, s[i]) = Nth(K, a) /\ Place(rpo, s[j]) = Nth(K, b)
    BY <1>6, <2>1
  <2>. QED
    BY <2>3, <2>4
<1>8. DOMAIN s = 1..n
  BY <1>5
<1> QED
  BY <1>1, <1>7, <1>8 DEF Falling

(* do_tree: what node_within needs is around the tree, or its loop. *)
LEMMA TreeNeeds ==
    ASSUME CInv, phase = "emit", NEW x \in Range(rpo)
    PROVE  Region(x, Range(MergeChildren(x)))
              \subseteq (Region(x, Hanging(x)) \ {<<"loop", x>>}) \cup (IF x \in headers THEN {<<"loop", x>>} ELSE {})
<1>0. /\ merges \subseteq Range(rpo) /\ Place(rpo, rpo[1]) = 1 /\ \A y \in Range(rpo) : Place(rpo, y) \in Nat /\ Place(rpo, y) >= 1
  BY EmitFacts
<1>1. ASSUME NEW z \in Loops(x)
      PROVE  z \in (Region(x, Hanging(x)) \ {<<"loop", x>>}) \cup (IF x \in headers THEN {<<"loop", x>>} ELSE {})
  BY DEF Loops, Region
<1>2. ASSUME NEW z \in Blocks(x, Range(MergeChildren(x))) PROVE z \in Region(x, Hanging(x)) \ {<<"loop", x>>}
  <2>1. PICK u \in merges : /\ z = <<"block", u>> /\ u \notin Range(MergeChildren(x)) /\ idom[u] \in Up(idom, x)
                            /\ Place(rpo, x) < Place(rpo, u)
    BY DEF Blocks
  <2>2. u \in Range(rpo) \ {rpo[1]}
    BY <1>0, <2>1
  <2>3. u \notin Hanging(x)
    BY <2>1, <2>2, Children DEF Hanging
  <2>4. z \in Blocks(x, Hanging(x)) /\ z # <<"loop", x>>
    BY <2>1, <2>3 DEF Blocks
  <2>. QED
    BY <2>4 DEF Region
<1> QED
  BY <1>1, <1>2 DEF Region

(* node_within: what the tree of the last child needs is around it. *)
LEMMA ChildNeeds ==
    ASSUME CInv, phase = "emit", NEW x \in Range(rpo), NEW y \in Range(rpo) \ {rpo[1]}, idom[y] = x,
           NEW S \in SUBSET Range(rpo), \A v \in S : Place(rpo, v) <= Place(rpo, y)
    PROVE  Region(y, Hanging(y)) \ {<<"loop", y>>} \subseteq Region(x, S)
<1>0. /\ merges \subseteq Range(rpo) /\ Place(rpo, x) < Place(rpo, y)
      /\ \A v \in Range(rpo) : Place(rpo, v) \in Nat
  BY EmitFacts
<1>1. Up(idom, y) = {y} \cup Up(idom, x)
  BY EmitFacts, UpParts
<1>2. ASSUME NEW z \in Loops(y), z # <<"loop", y>> PROVE z \in Loops(x)
  BY <1>1, <1>2 DEF Loops
<1>3. ASSUME NEW z \in Blocks(y, Hanging(y)) PROVE z \in Blocks(x, S)
  <2>1. PICK u \in merges : /\ z = <<"block", u>> /\ u \notin Hanging(y) /\ idom[u] \in Up(idom, y)
                            /\ Place(rpo, y) < Place(rpo, u)
    BY DEF Blocks
  <2>2. u \in Range(rpo) /\ idom[u] \in Up(idom, x)
    BY <1>0, <1>1, <2>1 DEF Hanging
  <2>3. Place(rpo, x) < Place(rpo, u) /\ u \notin S
    BY <1>0, <2>1, <2>2
  <2>. QED
    BY <2>1, <2>2, <2>3 DEF Blocks
<1> QED
  BY <1>2, <1>3 DEF Region

(* branch: every retreating edge makes its target a header. *)
Looping ==
    /\ phase = "classify" =>
          \A i \in 1..(pos - 1) : Retreating(rpo[i]) # {} => rpo[i] \in headers
    /\ phase = "emit" => \A v \in Range(rpo) : Retreating(v) # {} => v \in headers

(* A branch back is inside the loop of its target. *)
LEMMA LoopNeeds ==
    ASSUME CInv, phase = "emit", Looping, NEW u \in Range(rpo), NEW v \in Range(rpo),
           v \in Range(Successors(fn, u)), Place(rpo, v) <= Place(rpo, u)
    PROVE  <<"loop", v>> \in Region(u, {})
<1>1. u \in Retreating(v)
  BY IdxIsPlace DEF Retreating, Preds
<1>2. v \in headers
  BY <1>1 DEF Looping
<1>3. v \in Dominators(u)
  BY <1>1 DEF CInv, Classifying, Allowed
<1>4. v \in Up(idom, u)
  BY <1>3, EmitFacts, DominatorsAreAbove
<1> QED
  BY <1>2, <1>4 DEF Region, Loops

(* What is above the target of a forward edge is above its source. *)
LEMMA AboveSource ==
    ASSUME CInv, phase = "emit", NEW u \in Range(rpo), NEW v \in Range(rpo),
           v \in Range(Successors(fn, u)), Place(rpo, u) < Place(rpo, v)
    PROVE  idom[v] \in Up(idom, idom[v]) /\ Up(idom, idom[v]) \subseteq Up(idom, u)
           /\ Up(idom, v) = {v} \cup Up(idom, idom[v])
<1>0. /\ Listing(rpo) /\ IsTree(rpo, idom) /\ DOMAIN idom = Range(rpo) /\ v # rpo[1] /\ idom[v] \in Range(rpo)
      /\ Place(rpo, idom[v]) < Place(rpo, v)
      /\ \A x \in Range(rpo) : Place(rpo, x) \in Nat
  BY EmitFacts
<1>1. Up(idom, v) = {v} \cup Up(idom, idom[v]) /\ idom[v] \in Up(idom, idom[v])
  BY <1>0, UpParts, UpCloses
<1>2. IsFunction(fn) /\ CheckCfg(fn) = {} /\ Exact
  BY SearchedLater DEF CInv, Later
<1>3. ASSUME NEW x \in Up(idom, idom[v]) PROVE x \in Up(idom, u)
  <2>1. x \in Range(rpo) /\ x \in Up(idom, v)
    BY <1>0, <1>1, UpCloses
  <2>2. x # v
    <3>1. x = idom[v] \/ Place(rpo, x) < Place(rpo, idom[v])
      BY <1>0, UpBelow
    <3>. QED
      BY <1>0, <2>1, <3>1
  <2>3. v \notin ReachedWithout({x})
    <3>1. x \in Dominators(v)
      BY <1>0, <2>1, DominatorsAreAbove
    <3>. QED
      BY <1>2, <3>1 DEF Exact
  <2>4. u \notin ReachedWithout({x})
    <3>1. \A l \in ReachedWithout({x}) : \A m \in Range(Successors(fn, l)) :
             m \notin {x} => m \in ReachedWithout({x})
      BY <1>2, ReachedCloses
    <3>. QED
      BY <2>2, <2>3, <3>1
  <2>5. x \in Dominators(u)
    BY <1>2, <2>1, <2>4 DEF Exact
  <2>. QED
    BY <1>0, <2>5, DominatorsAreAbove
<1> QED
  BY <1>1, <1>3

(* The block of a merge, or what its tree needs, is around the source. *)
LEMMA ForwardNeeds ==
    ASSUME CInv, phase = "emit", NEW u \in Range(rpo), NEW v \in Range(rpo),
           v \in Range(Successors(fn, u)), Place(rpo, u) < Place(rpo, v)
    PROVE  /\ v \in merges => <<"block", v>> \in Region(u, {})
           /\ Region(v, Hanging(v)) \ {<<"loop", v>>} \subseteq Region(u, {})
<1>0. merges \subseteq Range(rpo) /\ \A x \in Range(rpo) : Place(rpo, x) \in Nat
  BY EmitFacts
<1>1. /\ idom[v] \in Up(idom, u) /\ Up(idom, idom[v]) \subseteq Up(idom, u)
      /\ Up(idom, v) = {v} \cup Up(idom, idom[v])
  BY AboveSource
<1>2. v \in merges => <<"block", v>> \in Region(u, {})
  BY <1>1 DEF Region, Blocks
<1>3. ASSUME NEW z \in Loops(v), z # <<"loop", v>> PROVE z \in Loops(u)
  BY <1>1, <1>3 DEF Loops
<1>4. ASSUME NEW z \in Blocks(v, Hanging(v)) PROVE z \in Blocks(u, {})
  <2>1. PICK w \in merges : /\ z = <<"block", w>> /\ w \notin Hanging(v) /\ idom[w] \in Up(idom, v)
                            /\ Place(rpo, v) < Place(rpo, w)
    BY DEF Blocks
  <2>2. w \in Range(rpo) /\ idom[w] \in Up(idom, u)
    BY <1>0, <1>1, <2>1 DEF Hanging
  <2>3. Place(rpo, u) < Place(rpo, w)
    BY <1>0, <2>1, <2>2
  <2>. QED
    BY <2>1, <2>2, <2>3 DEF Blocks
<1> QED
  BY <1>2, <1>3, <1>4 DEF Region
-----------------------------------------------------------------------------
(* The plan fits, what a call has yet to open hangs from its label in      *)
(* falling order, and a branch follows an edge.                            *)
Orderly(k) ==
    /\ k.t = "within" => Falling(k.ys) /\ \A y \in Range(k.ys) : y # rpo[1] /\ idom[y] = k.x
    /\ k.t = "branch" => k.x \in Range(Successors(fn, k.ys[1]))
Nesting(ts, tx) == (\E d : Fits(Plan(ts, tx), d, {})) /\ \A k \in Range(ts) : Orderly(k)

(* The calls a call makes fit into its place. *)
LEMMA MadeItems ==
    ASSUME NEW T, NEW new \in Seq(T)
    PROVE  /\ Numbered(Made(new)) /\ Len(Made(new)) = Len(new)
           /\ \A i \in 1..Len(new) : Made(new)[i] = ItemFor(new[i])
BY DEF Made, Numbered

(* A call that is replaced by calls that fit leaves the plan nested. *)
LEMMA NestingStep ==
    ASSUME Emission(Links, tasks, text), Nesting(tasks, text), tasks # <<>>, Head(tasks).t # "write",
           NEW new \in Seq(Calls(Range(rpo))), NEW e, Fits(Made(new), e, Needs(Head(tasks))),
           \A k \in Range(new) : Orderly(k)
    PROVE  Nesting(new \o Tail(tasks), text)
<1>1. tasks \in Seq(Calls(Range(rpo))) /\ text \in Seq(Marks(Range(rpo)))
  BY DEF Emission, Listed
<1>2. PICK d : Fits(Plan(tasks, text), d, {})
  BY DEF Nesting
<1>3. \E f : Fits(Plan(new \o Tail(tasks), text), f, {})
  BY <1>1, <1>2, PlanReplaced
<1>4. Tail(tasks) \in Seq(Calls(Range(rpo))) /\ Range(tasks) = {Head(tasks)} \cup Range(Tail(tasks))
  BY <1>1, FirstCall
<1>5. Range(new \o Tail(tasks)) = Range(new) \cup Range(Tail(tasks))
  <2>1. PICK T, r : T = Calls(Range(rpo)) /\ r = Tail(tasks)
    OBVIOUS
  <2>2. new \in Seq(T) /\ r \in Seq(T)
    BY <1>4, <2>1
  <2>3. new \o r \in Seq(T) /\ Range(new \o r) = Range(new) \cup Range(r)
    BY <2>2, JoinedLists
  <2>. QED
    BY <2>1, <2>3
<1> QED
  BY <1>3, <1>4, <1>5 DEF Nesting

(* What the calls are in order for. *)
LEMMA AreOrderly ==
    /\ \A c, x : Orderly(Write(Mark(c, x)))
    /\ \A x : Orderly(Tree(x))
    /\ \A x, ys : Orderly(Task("within", x, ys))
                     <=> Falling(ys) /\ \A y \in Range(ys) : y # rpo[1] /\ idom[y] = x
    /\ \A u, x : Orderly(Branch(u, x)) <=> x \in Range(Successors(fn, u))
BY DEF Orderly, Write, Tree, Branch, Task

(* do_tree. *)
LEMMA NDoTree ==
    ASSUME CInv, phase = "emit", Emission(Links, tasks, text), Nesting(tasks, text), DoTree
    PROVE  Nesting(tasks', text')
<1>0. PICK k, x, ys, w : k = Head(tasks) /\ x = k.x /\ ys = MergeChildren(x) /\ w = Task("within", x, ys)
  OBVIOUS
<1>1. tasks # <<>> /\ k.t = "tree" /\ x = X /\ tasks \in Seq(Calls(Range(rpo))) /\ text' = text
  BY <1>0 DEF DoTree, Doing, X, Replace, Emission, Listed
<1>2. k \in Calls(Range(rpo))
  BY <1>0, <1>1, FirstCall
<1>3. x \in Range(rpo) /\ k = Tree(x)
  BY <1>0, <1>1, <1>2, CallIs
<1>4. /\ ys \in Seq(Range(rpo)) /\ Range(ys) = {v \in Range(rpo) \ {rpo[1]} : v \in merges /\ idom[v] = x}
      /\ Falling(ys)
  BY <1>0, <1>3, Children, ChildrenFall
<1>5. w \in Calls(Range(rpo)) /\ Orderly(w)
  BY <1>0, <1>3, <1>4, AreCalls, AreOrderly
<1>6. PICK new : /\ new = IF x \in headers THEN <<Write(Mark("loop", x))>> \o <<w>> \o <<Write(Mark("end", x))>>
                          ELSE <<w>>
                 /\ tasks' = new \o Tail(tasks)
  BY <1>0, <1>1 DEF DoTree, Replace
<1>7. PICK all : all = Needs(k)
  OBVIOUS
<1>8. all = Region(x, Hanging(x)) \ {<<"loop", x>>}
  BY <1>3, <1>7 DEF Needs, Tree, Task
<1>9. ItemFor(w).k = "call" /\ ItemFor(w).w \subseteq all \cup (IF x \in headers THEN {<<"loop", x>>} ELSE {})
  <2>1. ItemFor(w).k = "call" /\ ItemFor(w).w = Region(x, Range(ys))
    BY <1>0, CallItem
  <2>. QED
    BY <1>0, <1>3, <1>8, <2>1, TreeNeeds
<1>10. /\ new \in Seq(Calls(Range(rpo))) /\ \A c \in Range(new) : Orderly(c)
       /\ \E e : Fits(Made(new), e, all)
  <2>1. CASE x \notin headers
    <3>1. new = <<w>> /\ Len(new) = 1 /\ new[1] = w
      BY <1>6, <2>1
    <3>2. new \in Seq(Calls(Range(rpo))) /\ Range(new) = {w}
      BY <1>5, <3>1, One
    <3>3. PICK s : s = Made(new)
      OBVIOUS
    <3>4. Numbered(s) /\ Len(s) = 1 /\ s[1] = ItemFor(w)
      <4>1. 1 \in 1..1
        OBVIOUS
      <4>. QED
        BY <3>1, <3>2, <3>3, <4>1, MadeItems
    <3>5. Plain(s[1]) /\ s[1].w \subseteq all
      BY <1>9, <2>1, <3>4 DEF Plain, Opens
    <3>6. \E e : Fits(s, e, all)
      <4>1. /\ \A i \in 2..(0 - 1) : Plain(s[i]) /\ s[i].w \subseteq all \cup {<<s[1].k, s[1].l>>}
            /\ \A i \in (0 + 1)..1 : Plain(s[i]) /\ s[i].w \subseteq all
        BY <3>5
      <4>2. 0 \in 0..1 /\ 1 \in Nat /\ 0 # 1
        OBVIOUS
      <4>. QED
        BY <3>4, <4>1, <4>2, FitsRegion
    <3>. QED
      BY <1>5, <3>2, <3>3, <3>6
  <2>2. CASE x \in headers
    <3>1. PICK a, c : a = Write(Mark("loop", x)) /\ c = Write(Mark("end", x))
      OBVIOUS
    <3>2. /\ a \in Calls(Range(rpo)) /\ Orderly(a) /\ c \in Calls(Range(rpo)) /\ Orderly(c)
      <4>1. "loop" \in Kinds /\ "end" \in Kinds
        BY DEF Kinds
      <4>. QED
        BY <1>3, <3>1, <4>1, AreCalls, AreOrderly
    <3>4. /\ new \in Seq(Calls(Range(rpo))) /\ Len(new) = 3 /\ DOMAIN new = 1..3
          /\ new[1] = a /\ new[2] = w /\ new[3] = c
      <4>1. PICK T, p : T = Calls(Range(rpo)) /\ p = <<a>> \o <<w>>
        OBVIOUS
      <4>2. a \in T /\ w \in T /\ c \in T
        BY <1>5, <3>2, <4>1
      <4>3. p \in Seq(T) /\ Len(p) = 2 /\ p[1] = a /\ p[2] = w
        BY <4>1, <4>2
      <4>4. new = p \o <<c>>
        BY <1>6, <2>2, <3>1, <4>1
      <4>. QED
        BY <4>1, <4>2, <4>3, <4>4
    <3>5. Range(new) = {a, w, c}
      <4>1. 1..3 = {1, 2, 3}
        OBVIOUS
      <4>. QED
        BY <3>4, <4>1 DEF Range
    <3>6. PICK s : s = Made(new)
      OBVIOUS
    <3>7. Numbered(s) /\ Len(s) = 3 /\ s[1] = ItemFor(a) /\ s[2] = ItemFor(w) /\ s[3] = ItemFor(c)
      <4>1. 1 \in 1..3 /\ 2 \in 1..3 /\ 3 \in 1..3
        OBVIOUS
      <4>. QED
        BY <3>4, <3>6, <4>1, MadeItems
    <3>8. /\ s[1].k = "loop" /\ s[1].l = x /\ s[1].w = {} /\ s[3].k = "end" /\ s[3].w = {}
      <4>1. /\ ItemFor(Write(Mark("loop", x))).k = "loop" /\ ItemFor(Write(Mark("loop", x))).l = x
            /\ ItemFor(Write(Mark("end", x))).k = "end"
        BY WriteItem
      <4>2. ItemFor(Write(Mark("loop", x))).w = {} /\ ItemFor(Write(Mark("end", x))).w = {}
        <5>1. "loop" \notin {"br block", "br loop"} /\ "end" \notin {"br block", "br loop"}
          OBVIOUS
        <5>. QED
          BY <5>1, WriteItem
      <4>. QED
        BY <3>1, <3>7, <4>1, <4>2
    <3>9. Plain(s[2]) /\ s[2].w \subseteq all \cup {<<s[1].k, s[1].l>>}
      BY <1>9, <2>2, <3>7, <3>8 DEF Plain, Opens
    <3>10. \E e : Fits(s, e, all)
      <4>1. /\ s[1].k \in Opens /\ s[1].k # "if" /\ s[3].k = "end" /\ s[1].w \subseteq all /\ s[3].w \subseteq all
        BY <3>8 DEF Opens
      <4>2. /\ \A i \in 2..(3 - 1) : Plain(s[i]) /\ s[i].w \subseteq all \cup {<<s[1].k, s[1].l>>}
            /\ \A i \in (3 + 1)..3 : Plain(s[i]) /\ s[i].w \subseteq all
        BY <3>9
      <4>3. 3 \in 0..3 /\ 3 \in Nat /\ 3 # 1
        OBVIOUS
      <4>. QED
        BY <3>7, <4>1, <4>2, <4>3, FitsRegion
    <3>. QED
      BY <1>5, <3>2, <3>4, <3>5, <3>6, <3>10
  <2>. QED
    BY <2>1, <2>2
<1>11. PICK e : Fits(Made(new), e, Needs(Head(tasks)))
  BY <1>0, <1>7, <1>10
<1>12. Nesting(new \o Tail(tasks), text)
  <2>1. Head(tasks).t # "write"
    BY <1>0, <1>1
  <2>. QED
    BY <1>1, <1>10, <1>11, <2>1, NestingStep
<1> QED
  BY <1>1, <1>6, <1>12

(* node_within. *)
LEMMA FallingParts ==
    ASSUME CInv, phase = "emit", NEW ys \in Seq(Range(rpo)), ys # <<>>, Falling(ys)
    PROVE  Falling(Tail(ys)) /\ \A v \in Range(Tail(ys)) : Place(rpo, v) <= Place(rpo, Head(ys))
<1>a. PICK n \in Nat : n = Len(ys) /\ n # 0
  OBVIOUS
<1>b. PICK r : r = Tail(ys)
  OBVIOUS
<1>0. n \in Nat /\ n = Len(ys) /\ n # 0 /\ r = Tail(ys)
  BY <1>a, <1>b
<1>1. /\ DOMAIN r = 1..(n - 1) /\ DOMAIN ys = 1..n /\ ys[1] = Head(ys)
      /\ (\A i \in 1..(n - 1) : r[i] = ys[i + 1]) /\ \A i \in 1..n : ys[i] \in Range(rpo)
  BY <1>0
<1>2. \A i \in 1..(n - 1) : i + 1 \in 1..n /\ 1 \in 1..n /\ 1 < i + 1
  BY <1>0
<1>3. ASSUME NEW i \in 1..(n - 1), NEW j \in 1..(n - 1), i < j PROVE Place(rpo, r[j]) < Place(rpo, r[i])
  <2>1. i + 1 < j + 1
    BY <1>0, <1>3
  <2>. QED
    BY <1>1, <1>2, <2>1 DEF Falling
<1>4. ASSUME NEW i \in 1..(n - 1) PROVE Place(rpo, r[i]) <= Place(rpo, ys[1])
  <2>1. Place(rpo, ys[i + 1]) < Place(rpo, ys[1])
    BY <1>1, <1>2 DEF Falling
  <2>2. Place(rpo, ys[i + 1]) \in Nat /\ Place(rpo, ys[1]) \in Nat
    BY <1>1, <1>2, EmitFacts
  <2>. QED
    BY <1>1, <2>1, <2>2
<1> QED
  BY <1>0, <1>1, <1>3, <1>4 DEF Falling, Range

(* A child that merges: its block, and its tree behind it. *)
LEMMA NNodeWithin ==
    ASSUME CInv, phase = "emit", Emission(Links, tasks, text), Nesting(tasks, text), NodeWithin
    PROVE  Nesting(tasks', text')
<1>0. PICK k, x, ys, y, r, T : /\ k = Head(tasks) /\ x = k.x /\ ys = k.ys /\ y = Head(ys) /\ r = Tail(ys)
                               /\ T = Range(rpo)
  OBVIOUS
<1>1. tasks # <<>> /\ k.t = "within" /\ x = X /\ tasks \in Seq(Calls(T)) /\ ys # <<>> /\ text' = text
  BY <1>0 DEF NodeWithin, Doing, X, Replace, Emission, Listed
<1>2. k \in Calls(T) /\ Orderly(k)
  <2>1. Head(tasks) \in Calls(T) /\ Range(tasks) = {Head(tasks)} \cup Range(Tail(tasks))
    BY <1>1, FirstCall
  <2>. QED
    BY <1>0, <2>1 DEF Nesting
<1>3. x \in T /\ ys \in Seq(T) /\ k = Task("within", x, ys)
  BY <1>0, <1>1, <1>2, CallIs
<1>4. Falling(ys) /\ \A v \in Range(ys) : v # rpo[1] /\ idom[v] = x
  BY <1>0, <1>1, <1>2 DEF Orderly
<1>5. y \in T /\ r \in Seq(T) /\ Range(ys) = {y} \cup Range(r) /\ Range(r) \subseteq T
  <2>1. y \in T /\ r \in Seq(T) /\ Range(ys) = {y} \cup Range(r)
    <3>1. ys \in Seq(T) /\ ys # <<>>
      BY <1>1, <1>3
    <3>2. Head(ys) \in T /\ Tail(ys) \in Seq(T) /\ Range(ys) = {Head(ys)} \cup Range(Tail(ys))
      BY <3>1, HeadAndTail
    <3>3. y = Head(ys) /\ r = Tail(ys)
      BY <1>0
    <3>4. y \in T
      BY <3>2, <3>3, Zenon
    <3>5. r \in Seq(T)
      BY <3>2, <3>3, Zenon
    <3>6. Range(ys) = {y} \cup Range(r)
      BY <3>2, <3>3, Zenon
    <3>. QED
      BY <3>4, <3>5, <3>6, Zenon
  <2>2. Range(r) \subseteq T
    BY <2>1 DEF Range
  <2>. QED
    BY <2>1, <2>2, Zenon
<1>6. Falling(r) /\ \A v \in Range(ys) : Place(rpo, v) <= Place(rpo, y)
  <2>1. Falling(r) /\ \A v \in Range(r) : Place(rpo, v) <= Place(rpo, y)
    BY <1>0, <1>1, <1>3, <1>4, FallingParts
  <2>2. Place(rpo, y) \in Nat
    BY <1>0, <1>5, EmitFacts
  <2>. QED
    BY <1>5, <2>1, <2>2
<1>7. PICK all : all = Needs(k)
  OBVIOUS
<1>8. all = Region(x, Range(ys))
  BY <1>3, <1>7 DEF Needs, Task
<1>9. PICK a, b, c, d : /\ a = Write(Mark("block", y)) /\ b = Task("within", x, r)
                        /\ c = Write(Mark("end", y)) /\ d = Tree(y)
  OBVIOUS
<1>10. /\ a \in Calls(T) /\ b \in Calls(T) /\ c \in Calls(T) /\ d \in Calls(T)
       /\ Orderly(a) /\ Orderly(b) /\ Orderly(c) /\ Orderly(d)
  <2>1. "block" \in Kinds /\ "end" \in Kinds
    BY DEF Kinds
  <2>2. \A v \in Range(r) : v # rpo[1] /\ idom[v] = x
    BY <1>4, <1>5
  <2>. QED
    BY <1>3, <1>5, <1>6, <1>9, <2>1, <2>2, AreCalls, AreOrderly
<1>11. PICK new : new = <<a, b, c, d>> /\ tasks' = new \o Tail(tasks)
  BY <1>0, <1>1, <1>9 DEF NodeWithin, Replace
<1>12. /\ new \in Seq(Calls(T)) /\ Len(new) = 4 /\ DOMAIN new = 1..4
       /\ new[1] = a /\ new[2] = b /\ new[3] = c /\ new[4] = d
  BY <1>10, <1>11
<1>13. Range(new) = {a, b, c, d}
  <2>1. 1..4 = {1, 2, 3, 4}
    OBVIOUS
  <2>. QED
    BY <1>12, <2>1 DEF Range
<1>14. PICK s : s = Made(new)
  OBVIOUS
<1>15. /\ Numbered(s) /\ Len(s) = 4
       /\ s[1] = ItemFor(a) /\ s[2] = ItemFor(b) /\ s[3] = ItemFor(c) /\ s[4] = ItemFor(d)
  <2>1. 1 \in 1..4 /\ 2 \in 1..4 /\ 3 \in 1..4 /\ 4 \in 1..4
    OBVIOUS
  <2>. QED
    BY <1>12, <1>14, <2>1, MadeItems
<1>16. /\ s[1].k = "block" /\ s[1].l = y /\ s[1].w = {} /\ s[3].k = "end" /\ s[3].w = {}
  <2>1. /\ ItemFor(Write(Mark("block", y))).k = "block" /\ ItemFor(Write(Mark("block", y))).l = y
        /\ ItemFor(Write(Mark("end", y))).k = "end"
    BY WriteItem
  <2>2. ItemFor(Write(Mark("block", y))).w = {} /\ ItemFor(Write(Mark("end", y))).w = {}
    <3>1. "block" \notin {"br block", "br loop"} /\ "end" \notin {"br block", "br loop"}
      OBVIOUS
    <3>. QED
      BY <3>1, WriteItem
  <2>. QED
    BY <1>9, <1>15, <2>1, <2>2
<1>17. /\ s[2].k = "call" /\ s[2].w = Region(x, Range(r))
       /\ s[4].k = "call" /\ s[4].w = Region(y, Hanging(y)) \ {<<"loop", y>>}
  BY <1>9, <1>15, CallItem
<1>18. Plain(s[2]) /\ s[2].w \subseteq all \cup {<<s[1].k, s[1].l>>}
  <2>1. Blocks(x, Range(r)) \subseteq Blocks(x, Range(ys)) \cup {<<"block", y>>}
    BY <1>5 DEF Blocks
  <2>. QED
    BY <1>8, <1>16, <1>17, <2>1 DEF Region, Plain, Opens
<1>19. Plain(s[4]) /\ s[4].w \subseteq all
  <2>1. Region(y, Hanging(y)) \ {<<"loop", y>>} \subseteq Region(x, Range(ys))
    <3>1. y \in Range(rpo) \ {rpo[1]} /\ idom[y] = x /\ Range(ys) \in SUBSET Range(rpo) /\ x \in Range(rpo)
      BY <1>0, <1>3, <1>4, <1>5
    <3>. QED
      BY <1>6, <3>1, ChildNeeds
  <2>. QED
    BY <1>8, <1>17, <2>1 DEF Plain, Opens
<1>20. PICK e : Fits(s, e, all)
  <2>1. s[1].k \in Opens /\ s[1].k # "if" /\ s[3].k = "end" /\ s[1].w \subseteq all /\ s[3].w \subseteq all
    BY <1>16 DEF Opens
  <2>2. /\ \A i \in 2..(3 - 1) : Plain(s[i]) /\ s[i].w \subseteq all \cup {<<s[1].k, s[1].l>>}
        /\ \A i \in (3 + 1)..4 : Plain(s[i]) /\ s[i].w \subseteq all
    BY <1>18, <1>19
  <2>3. 3 \in 0..4 /\ 4 \in Nat /\ 3 # 1
    OBVIOUS
  <2>. QED
    BY <1>15, <2>1, <2>2, <2>3, FitsRegion
<1>21. Nesting(new \o Tail(tasks), text)
  <2>1. Head(tasks).t # "write" /\ Fits(Made(new), e, Needs(Head(tasks))) /\ new \in Seq(Calls(Range(rpo)))
    BY <1>0, <1>1, <1>7, <1>12, <1>14, <1>20
  <2>2. \A q \in Range(new) : Orderly(q)
    BY <1>10, <1>13
  <2>. QED
    BY <1>1, <2>1, <2>2, NestingStep
<1> QED
  BY <1>1, <1>11, <1>21

(* The block, and what its branches need. *)
LEMMA NEmitBlock ==
    ASSUME CInv, phase = "emit", Emission(Links, tasks, text), Nesting(tasks, text), EmitBlock
    PROVE  Nesting(tasks', text')
<1>0. PICK k, x, to, T : k = Head(tasks) /\ x = k.x /\ to = Successors(fn, x) /\ T = Range(rpo)
  OBVIOUS
<1>1. /\ tasks # <<>> /\ k.t = "within" /\ x = X /\ tasks \in Seq(Calls(T)) /\ k.ys = <<>> /\ text' = text
  BY <1>0 DEF EmitBlock, Doing, X, Replace, Emission, Listed
<1>2. k \in Calls(T)
  BY <1>0, <1>1, FirstCall
<1>3. x \in T /\ k = Task("within", x, <<>>)
  BY <1>0, <1>1, <1>2, CallIs
<1>4. /\ IsFunction(fn) /\ CheckCfg(fn) = {} /\ T \subseteq Labels(fn)
      /\ \A y \in T : Range(Successors(fn, y)) \subseteq T
  BY <1>0, SearchedLater, SearchedFacts DEF CInv, Later
<1>5. to \in Seq(T) /\ Len(to) \in 0..2 /\ DOMAIN to = 1..Len(to) /\ \A i \in DOMAIN to : to[i] \in T /\ to[i] \in Range(to)
  <2>1. to \in Seq(Labels(fn)) /\ Len(to) \in 0..2
    BY <1>0, <1>3, <1>4, SuccessorsAreLabels, AtMostTwoSuccessors
  <2>2. \A i \in DOMAIN to : to[i] \in T /\ to[i] \in Range(to)
    BY <1>0, <1>3, <1>4 DEF Range
  <2>. QED
    BY <2>1, <2>2
<1>6. PICK all : all = Needs(k)
  OBVIOUS
<1>7. all = Region(x, {})
  <2>1. Range(k.ys) = {}
    BY <1>1 DEF Range
  <2>. QED
    BY <1>0, <1>1, <1>6, <2>1 DEF Needs
<1>8. PICK w : w = Write(Mark("code", x))
  OBVIOUS
<1>9. /\ w \in Calls(T) /\ Orderly(w) /\ ItemFor(w).k = "code" /\ ItemFor(w).w = {}
  <2>1. "code" \in Kinds /\ "code" \notin {"br block", "br loop"}
    BY DEF Kinds
  <2>. QED
    BY <1>3, <1>8, <2>1, AreCalls, AreOrderly, WriteItem
<1>10. ASSUME NEW i \in DOMAIN to
       PROVE  /\ Branch(x, to[i]) \in Calls(T) /\ Orderly(Branch(x, to[i]))
              /\ ItemFor(Branch(x, to[i])).k = "call" /\ ItemFor(Branch(x, to[i])).w = all
  <2>1. Branch(x, to[i]) \in Calls(T)
    BY <1>3, <1>5, AreCalls
  <2>. QED
    BY <1>0, <1>5, <1>7, <2>1, AreOrderly, CallItem
<1>11. PICK new : /\ tasks' = new \o Tail(tasks)
                  /\ new = <<w>> \o CASE Len(to) = 0 -> <<Write(Mark("return", x))>>
                                      [] Len(to) = 1 -> <<Branch(x, to[1])>>
                                      [] Len(to) = 2 -> <<Write(Mark("if", x)), Branch(x, to[1]),
                                                          Write(Mark("else", x)), Branch(x, to[2]),
                                                          Write(Mark("end", x))>>
  BY <1>0, <1>1, <1>8 DEF EmitBlock, Replace
<1>12. PICK s : s = Made(new)
  OBVIOUS
<1>13. ASSUME NEW a \in Calls(T), Orderly(a), new = <<w>> \o <<a>>, Plain(ItemFor(a)), ItemFor(a).w \subseteq all
       PROVE  /\ new \in Seq(Calls(T)) /\ \A c \in Range(new) : Orderly(c)
              /\ \E e : Fits(s, e, all)
  <2>1. new \in Seq(Calls(T)) /\ Len(new) = 2 /\ DOMAIN new = 1..2 /\ new[1] = w /\ new[2] = a
    BY <1>9, <1>13
  <2>2. 1..2 = {1, 2}
    OBVIOUS
  <2>3. \A c \in Range(new) : Orderly(c)
    BY <1>9, <1>13, <2>1, <2>2 DEF Range
  <2>4. Numbered(s) /\ Len(s) = 2 /\ s[1] = ItemFor(w) /\ s[2] = ItemFor(a)
    <3>1. 1 \in 1..2 /\ 2 \in 1..2
      OBVIOUS
    <3>. QED
      BY <1>12, <2>1, <3>1, MadeItems
  <2>5. Plain(s[1]) /\ s[1].w \subseteq all /\ Plain(s[2]) /\ s[2].w \subseteq all
    BY <1>9, <1>13, <2>4 DEF Plain, Opens
  <2>6. /\ \A i \in 2..(0 - 1) : Plain(s[i]) /\ s[i].w \subseteq all \cup {<<s[1].k, s[1].l>>}
        /\ \A i \in (0 + 1)..2 : Plain(s[i]) /\ s[i].w \subseteq all
    BY <2>5
  <2>7. 0 \in 0..2 /\ 2 \in Nat /\ 0 # 1
    OBVIOUS
  <2>8. \E e : Fits(s, e, all)
    BY <2>4, <2>6, <2>7, FitsRegion
  <2>. QED
    BY <2>1, <2>3, <2>8
<1>14. ASSUME Len(to) = 0
       PROVE new \in Seq(Calls(T)) /\ (\A c \in Range(new) : Orderly(c)) /\ \E e : Fits(s, e, all)
  <2>1. PICK a : a = Write(Mark("return", x))
    OBVIOUS
  <2>2. a \in Calls(T) /\ Orderly(a) /\ ItemFor(a).k = "return" /\ ItemFor(a).w = {}
    <3>1. "return" \in Kinds /\ "return" \notin {"br block", "br loop"}
      BY DEF Kinds
    <3>. QED
      BY <1>3, <2>1, <3>1, AreCalls, AreOrderly, WriteItem
  <2>3. new = <<w>> \o <<a>>
    BY <1>11, <1>14, <2>1
  <2>4. Plain(ItemFor(a)) /\ ItemFor(a).w \subseteq all
    BY <2>2 DEF Plain, Opens
  <2>. QED
    BY <1>13, <2>2, <2>3, <2>4
<1>15. ASSUME Len(to) = 1
       PROVE new \in Seq(Calls(T)) /\ (\A c \in Range(new) : Orderly(c)) /\ \E e : Fits(s, e, all)
  <2>1. PICK a : a = Branch(x, to[1])
    OBVIOUS
  <2>2. 1 \in DOMAIN to
    BY <1>5, <1>15
  <2>3. a \in Calls(T) /\ Orderly(a) /\ Plain(ItemFor(a)) /\ ItemFor(a).w \subseteq all
    BY <1>10, <2>1, <2>2 DEF Plain, Opens
  <2>4. new = <<w>> \o <<a>>
    BY <1>11, <1>15, <2>1
  <2>. QED
    BY <1>13, <2>3, <2>4
<1>16. ASSUME Len(to) = 2
       PROVE new \in Seq(Calls(T)) /\ (\A c \in Range(new) : Orderly(c)) /\ \E e : Fits(s, e, all)
  <2>1. PICK a, b, c, d, e : /\ a = Write(Mark("if", x)) /\ b = Branch(x, to[1]) /\ c = Write(Mark("else", x))
                             /\ d = Branch(x, to[2]) /\ e = Write(Mark("end", x))
    OBVIOUS
  <2>2. 1 \in DOMAIN to /\ 2 \in DOMAIN to
    BY <1>5, <1>16
  <2>3. /\ a \in Calls(T) /\ Orderly(a) /\ ItemFor(a).k = "if" /\ ItemFor(a).w = {}
        /\ c \in Calls(T) /\ Orderly(c) /\ ItemFor(c).k = "else" /\ ItemFor(c).w = {}
        /\ e \in Calls(T) /\ Orderly(e) /\ ItemFor(e).k = "end" /\ ItemFor(e).w = {}
    <3>1. "if" \in Kinds /\ "else" \in Kinds /\ "end" \in Kinds
      BY DEF Kinds
    <3>2. \A q \in {"if", "else", "end"} : q \notin {"br block", "br loop"}
      OBVIOUS
    <3>3. a \in Calls(T) /\ c \in Calls(T) /\ e \in Calls(T)
      BY <1>3, <2>1, <3>1, AreCalls
    <3>4. Orderly(a) /\ Orderly(c) /\ Orderly(e)
      BY <2>1, AreOrderly
    <3>5. ItemFor(a).k = "if" /\ ItemFor(c).k = "else" /\ ItemFor(e).k = "end"
      BY <2>1, WriteItem
    <3>6. ItemFor(a).w = {} /\ ItemFor(c).w = {} /\ ItemFor(e).w = {}
      BY <2>1, <3>2, WriteItem
    <3>. QED
      BY <3>3, <3>4, <3>5, <3>6
  <2>4. /\ b \in Calls(T) /\ Orderly(b) /\ ItemFor(b).k = "call" /\ ItemFor(b).w = all
        /\ d \in Calls(T) /\ Orderly(d) /\ ItemFor(d).k = "call" /\ ItemFor(d).w = all
    BY <1>10, <2>1, <2>2
  <2>5. new = <<w>> \o <<a, b, c, d, e>>
    BY <1>11, <1>16, <2>1
  <2>6. /\ new \in Seq(Calls(T)) /\ Len(new) = 6 /\ DOMAIN new = 1..6 /\ new[1] = w /\ new[2] = a
        /\ new[3] = b /\ new[4] = c /\ new[5] = d /\ new[6] = e
    <3>1. PICK C, r : C = Calls(T) /\ r = <<a, b, c, d, e>>
      OBVIOUS
    <3>2. r \in Seq(C) /\ Len(r) = 5 /\ r[1] = a /\ r[2] = b /\ r[3] = c /\ r[4] = d /\ r[5] = e
      BY <2>3, <2>4, <3>1
    <3>3. new = <<w>> \o r /\ w \in C
      BY <1>9, <2>5, <3>1
    <3>. QED
      BY <3>1, <3>2, <3>3
  <2>7. 1..6 = {1, 2, 3, 4, 5, 6}
    OBVIOUS
  <2>8. \A q \in Range(new) : Orderly(q)
    <3>1. Range(new) = {w, a, b, c, d, e}
      BY <2>6, <2>7 DEF Range
    <3>. QED
      BY <1>9, <2>3, <2>4, <3>1
  <2>9. /\ Numbered(s) /\ Len(s) = 6 /\ s[1] = ItemFor(w) /\ s[2] = ItemFor(a) /\ s[3] = ItemFor(b)
        /\ s[4] = ItemFor(c) /\ s[5] = ItemFor(d) /\ s[6] = ItemFor(e)
    <3>1. 1 \in 1..6 /\ 2 \in 1..6 /\ 3 \in 1..6 /\ 4 \in 1..6 /\ 5 \in 1..6 /\ 6 \in 1..6
      OBVIOUS
    <3>. QED
      BY <1>12, <2>6, <3>1, MadeItems
  <2>10. s[2].k = "if" /\ s[4].k = "else" /\ s[6].k = "end"
    BY <2>3, <2>9
  <2>11. \A i \in {1, 3, 5} : Plain(s[i])
    BY <1>9, <2>4, <2>9 DEF Plain, Opens
  <2>12. \A i \in 1..6 : s[i].w \subseteq all
    BY <1>9, <2>3, <2>4, <2>7, <2>9
  <2>13. \E f : Fits(s, f, all)
    BY <2>9, <2>10, <2>11, <2>12, FitsChoice
  <2>. QED
    BY <2>6, <2>8, <2>13
<1>17. new \in Seq(Calls(T)) /\ (\A c \in Range(new) : Orderly(c)) /\ \E e : Fits(s, e, all)
  BY <1>5, <1>14, <1>15, <1>16
<1>18. PICK e : Fits(s, e, all)
  BY <1>17
<1>19. Nesting(new \o Tail(tasks), text)
  <2>1. Head(tasks).t # "write" /\ Fits(Made(new), e, Needs(Head(tasks))) /\ new \in Seq(Calls(Range(rpo)))
    BY <1>0, <1>1, <1>6, <1>12, <1>17, <1>18
  <2>. QED
    BY <1>1, <1>17, <2>1, NestingStep
<1> QED
  BY <1>1, <1>11, <1>19

(* A branch is a br to what is around it, or the tree of its target. *)
LEMMA NFollowBranch ==
    ASSUME CInv, phase = "emit", Looping, Emission(Links, tasks, text), Nesting(tasks, text), FollowBranch
    PROVE  Nesting(tasks', text')
<1>0. PICK k, x, u, T : k = Head(tasks) /\ x = k.x /\ u = k.ys[1] /\ T = Range(rpo)
  OBVIOUS
<1>1. tasks # <<>> /\ k.t = "branch" /\ x = X /\ tasks \in Seq(Calls(T)) /\ text' = text
  BY <1>0 DEF FollowBranch, Doing, X, Replace, Emission, Listed
<1>2. k \in Calls(T) /\ Orderly(k)
  <2>1. Head(tasks) \in Calls(T) /\ Range(tasks) = {Head(tasks)} \cup Range(Tail(tasks))
    BY <1>1, FirstCall
  <2>. QED
    BY <1>0, <2>1 DEF Nesting
<1>3. x \in T /\ u \in T /\ k = Branch(u, x) /\ x \in Range(Successors(fn, u))
  <2>1. x \in T /\ u \in T /\ k = Branch(u, x)
    BY <1>0, <1>1, <1>2, CallIs
  <2>. QED
    BY <1>2, <2>1, AreOrderly
<1>4. PICK all : all = Needs(k)
  OBVIOUS
<1>5. all = Region(u, {})
  BY <1>0, <1>1, <1>4 DEF Needs
<1>6. PICK c : /\ tasks' = <<c>> \o Tail(tasks)
               /\ c = IF Idx(x) <= Idx(u) THEN Write(Mark("br loop", x))
                      ELSE IF Inlined(u, x) THEN Tree(x) ELSE Write(Mark("br block", x))
  BY <1>0, <1>1 DEF FollowBranch, Replace
<1>7. /\ Place(rpo, x) \in Nat /\ Place(rpo, u) \in Nat
      /\ Idx(x) = Place(rpo, x) /\ Idx(u) = Place(rpo, u)
  BY <1>0, <1>3, EmitFacts, IdxIsPlace
<1>8. c \in Calls(T) /\ Orderly(c) /\ Plain(ItemFor(c)) /\ ItemFor(c).w \subseteq all
  <2>0. "br loop" \in Kinds /\ "br block" \in Kinds
    BY DEF Kinds
  <2>1. CASE Place(rpo, x) <= Place(rpo, u)
    <3>1. c = Write(Mark("br loop", x))
      BY <1>6, <1>7, <2>1
    <3>2. c \in Calls(T) /\ Orderly(c)
      BY <1>3, <2>0, <3>1, AreCalls, AreOrderly
    <3>3. ItemFor(c).k = "br loop" /\ ItemFor(c).w = {<<"loop", x>>}
      BY <3>1, WriteItem
    <3>4. <<"loop", x>> \in Region(u, {})
      BY <1>0, <1>3, <2>1, LoopNeeds
    <3>. QED
      BY <1>5, <3>2, <3>3, <3>4 DEF Plain, Opens
  <2>2. CASE Place(rpo, u) < Place(rpo, x) /\ x \in merges
    <3>0. ~(Idx(x) <= Idx(u))
      BY <1>7, <2>2
    <3>1. c = Write(Mark("br block", x))
      BY <1>6, <3>0, <2>2 DEF Inlined
    <3>2. c \in Calls(T) /\ Orderly(c)
      BY <1>3, <2>0, <3>1, AreCalls, AreOrderly
    <3>3. ItemFor(c).k = "br block" /\ ItemFor(c).w = {<<"block", x>>}
      BY <3>1, WriteItem
    <3>4. <<"block", x>> \in Region(u, {})
      BY <1>0, <1>3, <2>2, ForwardNeeds
    <3>. QED
      BY <1>5, <3>2, <3>3, <3>4 DEF Plain, Opens
  <2>3. CASE Place(rpo, u) < Place(rpo, x) /\ x \notin merges
    <3>0. ~(Idx(x) <= Idx(u))
      BY <1>7, <2>3
    <3>1. c = Tree(x)
      BY <1>6, <3>0, <2>3 DEF Inlined
    <3>2. c \in Calls(T) /\ Orderly(c)
      BY <1>3, <3>1, AreCalls, AreOrderly
    <3>3. ItemFor(c).k = "call" /\ ItemFor(c).w = Region(x, Hanging(x)) \ {<<"loop", x>>}
      BY <3>1, CallItem
    <3>4. Region(x, Hanging(x)) \ {<<"loop", x>>} \subseteq Region(u, {})
      BY <1>0, <1>3, <2>3, ForwardNeeds
    <3>. QED
      BY <1>5, <3>2, <3>3, <3>4 DEF Plain, Opens
  <2>. QED
    BY <1>7, <2>1, <2>2, <2>3
<1>9. PICK new : new = <<c>>
  OBVIOUS
<1>10. new \in Seq(Calls(T)) /\ Range(new) = {c} /\ Len(new) = 1 /\ new[1] = c
  <2>1. new \in Seq(Calls(T)) /\ Range(new) = {c}
    BY <1>8, <1>9, One
  <2>. QED
    BY <1>9, <2>1
<1>11. PICK s : s = Made(new)
  OBVIOUS
<1>12. Numbered(s) /\ Len(s) = 1 /\ s[1] = ItemFor(c)
  <2>1. 1 \in 1..1
    OBVIOUS
  <2>. QED
    BY <1>10, <1>11, <2>1, MadeItems
<1>13. PICK e : Fits(s, e, all)
  <2>1. Plain(s[1]) /\ s[1].w \subseteq all
    BY <1>8, <1>12
  <2>2. /\ \A i \in 2..(0 - 1) : Plain(s[i]) /\ s[i].w \subseteq all \cup {<<s[1].k, s[1].l>>}
        /\ \A i \in (0 + 1)..1 : Plain(s[i]) /\ s[i].w \subseteq all
    BY <2>1
  <2>3. 0 \in 0..1 /\ 1 \in Nat /\ 0 # 1
    OBVIOUS
  <2>. QED
    BY <1>12, <2>2, <2>3, FitsRegion
<1>14. Nesting(new \o Tail(tasks), text)
  <2>1. Head(tasks).t # "write" /\ Fits(Made(new), e, Needs(Head(tasks))) /\ new \in Seq(Calls(Range(rpo)))
    BY <1>0, <1>1, <1>4, <1>10, <1>11, <1>13
  <2>2. \A q \in Range(new) : Orderly(q)
    BY <1>8, <1>10
  <2>. QED
    BY <1>1, <2>1, <2>2, NestingStep
<1> QED
  BY <1>1, <1>6, <1>9, <1>14

(* To write a mark moves it from one half of the plan to the other. *)
LEMMA NWriteMark ==
    ASSUME CInv, phase = "emit", Emission(Links, tasks, text), Nesting(tasks, text), WriteMark
    PROVE  Nesting(tasks', text')
<1>0. PICK k, r, tx, T : k = Head(tasks) /\ r = Tail(tasks) /\ tx = text' /\ T = Range(rpo)
  OBVIOUS
<1>1. /\ tasks # <<>> /\ k.t = "write" /\ tasks \in Seq(Calls(T)) /\ text \in Seq(Marks(T)) /\ tasks' = r
  BY <1>0 DEF WriteMark, Doing, Emission, Listed
<1>2. k \in Calls(T) /\ Range(tasks) = {k} \cup Range(r)
  BY <1>0, <1>1, FirstCall
<1>3. PICK m \in Marks(T) : k = Write(m) /\ k.ys = <<m>>
  BY <1>1, <1>2, CallIs
<1>4. tx = Append(text, m)
  <2>1. text' = text \o k.ys
    BY <1>0 DEF WriteMark
  <2>2. text \o <<m>> = Append(text, m)
    BY <1>1
  <2>. QED
    BY <1>0, <1>3, <2>1, <2>2
<1>5. PICK n \in Nat : n = Len(text)
  BY <1>1
<1>6. PICK l \in Nat : l + 1 = Len(tasks)
  <2>1. PICK a : a = Len(tasks)
    OBVIOUS
  <2>2. a \in Nat /\ a # 0
    BY <1>1, <2>1
  <2>3. a - 1 \in Nat /\ (a - 1) + 1 = a
    BY <2>2
  <2>. QED
    BY <2>1, <2>3
<1>7. /\ Len(tx) = n + 1 /\ tx[n + 1] = m /\ \A i \in 1..n : tx[i] = text[i]
  BY <1>1, <1>4, <1>5
<1>8. /\ Len(r) = l /\ tasks[1] = k /\ \A i \in 1..l : r[i] = tasks[1 + i]
  BY <1>0, <1>1, <1>6
<1>9. PICK s, t : s = Plan(tasks, text) /\ t = Plan(r, tx)
  OBVIOUS
<1>10. s = [i \in 1..(n + 1 + l) |-> IF i <= n THEN ItemOf(text[i]) ELSE ItemFor(tasks[i - n])]
  <2>1. n + (l + 1) = n + 1 + l
    OBVIOUS
  <2>. QED
    BY <1>5, <1>6, <1>9, <2>1 DEF Plan
<1>11. t = [i \in 1..(n + 1 + l) |-> IF i <= n + 1 THEN ItemOf(tx[i]) ELSE ItemFor(r[i - (n + 1)])]
  BY <1>7, <1>8, <1>9 DEF Plan
<1>12. ASSUME NEW i \in 1..(n + 1 + l) PROVE s[i] = t[i]
  <2>1. CASE i <= n
    BY <1>7, <1>10, <1>11, <2>1
  <2>2. CASE i = n + 1
    <3>1. i - n = 1 /\ ~(i <= n)
      BY <2>2
    <3>2. s[i] = ItemFor(k)
      BY <1>8, <1>10, <3>1
    <3>3. t[i] = ItemOf(m)
      BY <1>7, <1>11, <2>2
    <3>4. ItemFor(k) = ItemOf(m)
      <4>1. k.ys[1] = m
        BY <1>3
      <4>. QED
        BY <1>1, <4>1 DEF ItemFor
    <3>. QED
      BY <3>2, <3>3, <3>4
  <2>3. CASE i > n + 1
    <3>1. PICK j \in 1..l : i = n + 1 + j
      <4>1. i - n - 1 \in 1..l /\ i = n + 1 + (i - n - 1)
        BY <2>3
      <4>. QED
        BY <4>1
    <3>2. i - n = 1 + j /\ i - (n + 1) = j /\ ~(i <= n) /\ ~(i <= n + 1)
      BY <3>1
    <3>3. s[i] = ItemFor(tasks[1 + j]) /\ t[i] = ItemFor(r[j])
      BY <1>10, <1>11, <3>2
    <3>. QED
      BY <1>8, <3>3
  <2>. QED
    BY <2>1, <2>2, <2>3
<1>13. s = t
  BY <1>10, <1>11, <1>12
<1>14. \A c \in Range(r) : Orderly(c)
  BY <1>2 DEF Nesting
<1> QED
  BY <1>0, <1>1, <1>9, <1>13, <1>14 DEF Nesting

(* At the start the plan is one call that needs nothing. *)
LEMMA NStart ==
    ASSUME CInv, phase = "classify", text = <<>>, StartEmit
    PROVE  Nesting(tasks', text')
<1>0. Listing(rpo) /\ IsTree(rpo, idom) /\ rpo[1] \in Range(rpo)
  BY SearchedLater, PlaceOf DEF CInv, Later
<1>1. PICK x, k, ts : x = rpo[1] /\ k = Tree(x) /\ ts = tasks'
  OBVIOUS
<1>2. ts = <<k>> /\ text' = <<>>
  BY <1>1 DEF StartEmit
<1>3. ts \in Seq({k}) /\ Range(ts) = {k} /\ Len(ts) = 1 /\ ts[1] = k
  <2>1. ts \in Seq({k}) /\ Range(ts) = {k}
    BY <1>2, One
  <2>. QED
    BY <1>2, <2>1
<1>4. PICK s : s = Plan(ts, <<>>)
  OBVIOUS
<1>5. s = [i \in 1..1 |-> ItemFor(k)]
  <2>1. Len(<<>>) = 0 /\ 0 + 1 = 1
    OBVIOUS
  <2>2. s = [i \in 1..1 |-> IF i <= 0 THEN ItemOf(<<>>[i]) ELSE ItemFor(ts[i - 0])]
    BY <1>3, <1>4, <2>1 DEF Plan
  <2>3. \A i \in 1..1 : ~(i <= 0) /\ i - 0 = 1
    OBVIOUS
  <2>. QED
    BY <1>3, <2>2, <2>3
<1>6. Numbered(s) /\ Len(s) = 1 /\ s[1] = ItemFor(k)
  BY <1>5 DEF Numbered
<1>7. s[1].k = "call" /\ s[1].w = Region(x, Hanging(x)) \ {<<"loop", x>>}
  BY <1>1, <1>6, CallItem
<1>8. Up(idom, x) = {x}
  BY <1>0, <1>1, UpBelow DEF IsTree
<1>9. s[1].w = {}
  <2>1. Loops(x) \subseteq {<<"loop", x>>}
    BY <1>8 DEF Loops
  <2>2. Blocks(x, Hanging(x)) = {}
    <3>1. merges \subseteq Range(rpo)
      <4>1. merges = {rpo[i] : i \in {j \in 1..(pos - 1) : IsMerge(rpo[j])}} /\ pos \in 1..(Len(rpo) + 1)
        BY DEF CInv, Classifying
      <4>2. \A i \in 1..(pos - 1) : i \in DOMAIN rpo
        BY <1>0, <4>1 DEF Listing
      <4>. QED
        BY <4>1, <4>2 DEF Range
    <3>. QED
      BY <1>8, <3>1 DEF Blocks, Hanging
  <2>. QED
    BY <1>7, <2>1, <2>2 DEF Region
<1>10. PICK d : Fits(s, d, {})
  <2>1. Plain(s[1]) /\ s[1].w \subseteq {}
    BY <1>7, <1>9 DEF Plain, Opens
  <2>2. /\ \A i \in 2..(0 - 1) : Plain(s[i]) /\ s[i].w \subseteq {} \cup {<<s[1].k, s[1].l>>}
        /\ \A i \in (0 + 1)..1 : Plain(s[i]) /\ s[i].w \subseteq {}
    BY <2>1
  <2>3. 0 \in 0..1 /\ 1 \in Nat /\ 0 # 1
    OBVIOUS
  <2>. QED
    BY <1>6, <2>2, <2>3, FitsRegion
<1>11. Orderly(k)
  BY <1>1, AreOrderly
<1> QED
  BY <1>1, <1>2, <1>3, <1>4, <1>10, <1>11 DEF Nesting
-----------------------------------------------------------------------------
(* Which edges retreat depends on the graph and its order alone. *)
LEMMA SameRetreating ==
    ASSUME UNCHANGED <<fn, rpo, idom>>
    PROVE  \A v : Retreating(v)' = Retreating(v)
<1>1. fn' = fn /\ rpo' = rpo
  OBVIOUS
<1>2. \A l : Idx(l)' = Idx(l)
  BY <1>1 DEF Idx
<1>3. \A v : Preds(v)' = Preds(v)
  BY <1>1 DEF Preds
<1> QED
  BY <1>2, <1>3 DEF Retreating

(* The headers looked for are those found. *)
LEMMA LoopingNext == ASSUME CInv, Looping, [Next]_vars PROVE Looping'
<1>1. CASE Descend \/ FinishLabel \/ StartDominators \/ VisitLabel \/ Finish
  BY <1>1 DEF Descend, FinishLabel, StartDominators, VisitLabel, Finish, At, Looping
<1>2. CASE EndRound
  <2>1. CASE phase' = "classify" /\ pos' = 1
    <3>1. 1..(pos' - 1) = {}
      BY <2>1
    <3>. QED
      BY <2>1, <3>1 DEF Looping
  <2>2. CASE phase' = phase /\ phase = "dominators"
    BY <2>2 DEF Looping
  <2>. QED
    BY <1>2, <2>1, <2>2 DEF EndRound, At
<1>3. CASE Classify
  <2>0. /\ phase = "classify" /\ pos \in 1..Len(rpo) /\ UNCHANGED <<fn, rpo, idom>>
    BY <1>3, SearchedLater DEF Classify, At, Later, CInv
  <2>1. \A v : Retreating(v)' = Retreating(v)
    BY <2>0, SameRetreating
  <2>2. PICK v : v = rpo[pos]
    OBVIOUS
  <2>3. CASE phase' = "irreducible"
    BY <2>3 DEF Looping
  <2>4. CASE /\ headers' = IF Retreating(v) # {} THEN headers \cup {v} ELSE headers
             /\ pos' = pos + 1 /\ phase' = phase
    <3>1. ASSUME NEW i \in 1..pos, Retreating(rpo[i]) # {} PROVE rpo[i] \in headers'
      <4>1. CASE i = pos
        BY <2>2, <2>4, <3>1, <4>1
      <4>2. CASE i # pos
        <5>1. i \in 1..(pos - 1)
          BY <2>0, <4>2
        <5>2. rpo[i] \in headers
          BY <2>0, <3>1, <5>1 DEF Looping
        <5>. QED
          BY <2>4, <5>2
      <4>. QED
        BY <4>1, <4>2
    <3>2. pos' - 1 = pos /\ rpo' = rpo
      BY <2>0, <2>4
    <3>. QED
      BY <2>0, <2>1, <2>4, <3>1, <3>2 DEF Looping
  <2>. QED
    BY <1>3, <2>2, <2>3, <2>4 DEF Classify
<1>4. CASE StartEmit
  <2>0. /\ phase = "classify" /\ pos \notin 1..Len(rpo) /\ Len(rpo) \in Nat /\ UNCHANGED <<fn, rpo, idom, headers>>
        /\ Range(rpo) = {rpo[i] : i \in 1..Len(rpo)} /\ phase' = "emit"
    BY <1>4, SearchedLater DEF StartEmit, At, Later, CInv
  <2>1. \A v : Retreating(v)' = Retreating(v)
    BY <2>0, SameRetreating
  <2>2. pos - 1 = Len(rpo)
    BY <2>0 DEF CInv, Classifying
  <2>3. \A v \in Range(rpo) : Retreating(v) # {} => v \in headers
    BY <2>0, <2>2 DEF Looping
  <2>. QED
    BY <2>0, <2>1, <2>3 DEF Looping
<1>5. CASE DoTree \/ NodeWithin \/ EmitBlock \/ FollowBranch \/ WriteMark \/ UNCHANGED vars
  <2>0. phase' = phase /\ UNCHANGED <<fn, rpo, idom, pos, headers>>
    BY <1>5 DEF DoTree, NodeWithin, EmitBlock, FollowBranch, WriteMark, Doing, At, Replace, vars
  <2>1. \A v : Retreating(v)' = Retreating(v)
    BY <2>0, SameRetreating
  <2>. QED
    BY <2>0, <2>1 DEF Looping
<1> QED
  BY <1>1, <1>2, <1>3, <1>4, <1>5 DEF Next

(* The plan depends on the graph, its order, the tree and the classes.     *)
LEMMA SameNesting ==
    ASSUME UNCHANGED <<fn, rpo, idom, merges, headers>>, Nesting(tasks', text')
    PROVE  Nesting(tasks, text)'
<1>1. fn' = fn /\ rpo' = rpo /\ idom' = idom /\ merges' = merges /\ headers' = headers
  OBVIOUS
<1>2. \A x : Loops(x)' = Loops(x)
  BY <1>1 DEF Loops
<1>3. \A x, S : Blocks(x, S)' = Blocks(x, S)
  BY <1>1 DEF Blocks
<1>4. \A x, S : Region(x, S)' = Region(x, S)
  BY <1>2, <1>3 DEF Region
<1>5. \A x : Hanging(x)' = Hanging(x)
  BY <1>1 DEF Hanging
<1>6. \A k : Needs(k)' = Needs(k)
  BY <1>4, <1>5 DEF Needs
<1>7. \A k : ItemFor(k)' = ItemFor(k)
  BY <1>6 DEF ItemFor
<1>8. \A ts, tx : Plan(ts, tx)' = Plan(ts, tx)
  BY <1>7 DEF Plan
<1>9. \A ys : Falling(ys)' <=> Falling(ys)
  BY <1>1 DEF Falling
<1>10. \A k : Orderly(k)' <=> Orderly(k)
  BY <1>1, <1>9 DEF Orderly
<1>11. \A ts, tx : Nesting(ts, tx)' <=> Nesting(ts, tx)
  BY <1>8, <1>10 DEF Nesting
<1>12. Nesting(tasks, text)' <=> Nesting(tasks', text')
  BY <1>8, <1>10 DEF Nesting
<1> QED
  BY <1>12

(* The plan fits while the tree is written, and when it is. *)
Planned == phase \in {"emit", "done"} => Nesting(tasks, text)

(* Every step of structure() keeps it so. *)
LEMMA PlannedNext == ASSUME CInv, Emitting, Looping, Planned, [Next]_vars PROVE Planned'
<1>1. CASE Descend \/ FinishLabel \/ StartDominators \/ VisitLabel \/ EndRound \/ Classify
  <2>1. phase' \in {"order", "dominators", "classify", "irreducible"}
    BY <1>1 DEF Descend, FinishLabel, StartDominators, VisitLabel, EndRound, Classify, At
  <2>. QED
    BY <2>1 DEF Planned
<1>2. CASE StartEmit
  <2>1. phase = "classify" /\ text = <<>> /\ UNCHANGED <<fn, rpo, idom, merges, headers>>
    BY <1>2 DEF StartEmit, At, Emitting
  <2>2. Nesting(tasks', text')
    BY <1>2, <2>1, NStart
  <2>3. Nesting(tasks, text)'
    BY <2>1, <2>2, SameNesting
  <2>. QED
    BY <2>3 DEF Planned
<1>3. CASE DoTree \/ NodeWithin \/ EmitBlock \/ FollowBranch \/ WriteMark
  <2>1. phase = "emit" /\ UNCHANGED <<fn, rpo, idom, merges, headers>>
    BY <1>3 DEF DoTree, NodeWithin, EmitBlock, FollowBranch, WriteMark, Doing, At, Replace
  <2>2. Emission(Links, tasks, text) /\ Nesting(tasks, text)
    BY <2>1 DEF Emitting, Planned
  <2>3. Nesting(tasks', text')
    BY <1>3, <2>1, <2>2, NDoTree, NNodeWithin, NEmitBlock, NFollowBranch, NWriteMark
  <2>4. Nesting(tasks, text)'
    BY <2>1, <2>3, SameNesting
  <2>. QED
    BY <2>4 DEF Planned
<1>4. CASE Finish \/ UNCHANGED vars
  <2>1. /\ phase' \in {"emit", "done"} => phase \in {"emit", "done"}
        /\ tasks' = tasks /\ text' = text /\ UNCHANGED <<fn, rpo, idom, merges, headers>>
    BY <1>4 DEF Finish, At, vars
  <2>2. CASE phase \in {"emit", "done"}
    <3>1. Nesting(tasks', text')
      BY <2>1, <2>2 DEF Planned
    <3>2. Nesting(tasks, text)'
      BY <2>1, <3>1, SameNesting
    <3>. QED
      BY <3>2 DEF Planned
  <2>3. CASE phase \notin {"emit", "done"}
    BY <2>1, <2>3 DEF Planned
  <2>. QED
    BY <2>2, <2>3
<1> QED
  BY <1>1, <1>2, <1>3, <1>4 DEF Next

(* What structure() has written is sound. *)
LEMMA StructuredSound ==
    ASSUME CInv, Emitting, Planned, phase = "done"
    PROVE  \E d : Sound(text, d)
<1>1. tasks = <<>> /\ text \in Seq(Marks(Range(rpo)))
  BY DEF Emitting, Emission
<1>2. PICK d : Fits(Plan(tasks, text), d, {})
  BY DEF Planned, Nesting
<1>3. PICK n \in Nat : n = Len(text)
  BY <1>1
<1>4. Numbered(text)
  BY <1>1 DEF Numbered
<1>5. Len(tasks) = 0
  BY <1>1
<1>6. Plan(tasks, text) = Items(text)
  <2>1. n + 0 = n
    OBVIOUS
  <2>2. Plan(tasks, text) = [i \in 1..n |-> IF i <= n THEN ItemOf(text[i]) ELSE ItemFor(tasks[i - n])]
    BY <1>3, <1>5, <2>1 DEF Plan
  <2>3. Items(text) = [i \in 1..n |-> ItemOf(text[i])]
    BY <1>3 DEF Items
  <2>4. \A i \in 1..n : i <= n
    OBVIOUS
  <2>. QED
    BY <2>2, <2>3, <2>4
<1> QED
  BY <1>2, <1>4, <1>6 DEF Sound
-----------------------------------------------------------------------------
(* A list of marks whose regions are whole, and whose branches are inside  *)
(* what they name or name a region of v.                                   *)
Whole(s, v) == Numbered(s) /\ \E d : Fits(Items(s), d, v)

(* Items go mark by mark. *)
LEMMA ItemsOf ==
    ASSUME NEW s, Numbered(s)
    PROVE  /\ Numbered(Items(s)) /\ Len(Items(s)) = Len(s)
           /\ \A i \in 1..Len(s) : Items(s)[i] = ItemOf(s[i])
BY DEF Items, Numbered

(* Two that follow each other. *)
LEMMA WholeJoined ==
    ASSUME NEW T, NEW a \in Seq(T), NEW b \in Seq(T), NEW v, Whole(a, v), Whole(b, v)
    PROVE  Whole(a \o b, v)
<1>0. PICK p, q, c, call : /\ p = Len(a) /\ q = Len(b) /\ c = a \o b /\ call = Item("call", 0, v)
  OBVIOUS
<1>1. /\ p \in Nat /\ q \in Nat /\ Len(c) = p + q /\ DOMAIN c = 1..(p + q) /\ Numbered(c)
      /\ (\A i \in 1..p : c[i] = a[i]) /\ \A i \in 1..q : c[p + i] = b[i]
  BY <1>0 DEF Numbered
<1>2. PICK x, y, z : x = Items(a) /\ y = Items(b) /\ z = Items(c)
  OBVIOUS
<1>3. /\ Numbered(x) /\ Len(x) = p /\ Numbered(y) /\ Len(y) = q /\ Numbered(z) /\ Len(z) = p + q
      /\ \A i \in 1..p : x[i] = ItemOf(a[i])
      /\ \A i \in 1..q : y[i] = ItemOf(b[i])
      /\ \A i \in 1..(p + q) : z[i] = ItemOf(c[i])
  BY <1>0, <1>1, <1>2, ItemsOf DEF Whole
<1>4. PICK s : s = [i \in 1..2 |-> call]
  OBVIOUS
<1>5. Numbered(s) /\ Len(s) = 2 /\ \A i \in 1..2 : s[i] = call
  BY <1>4 DEF Numbered
<1>6. call.k = "call" /\ call.w = v /\ Plain(call)
  BY <1>0 DEF Item, Plain, Opens
<1>7. PICK d : Fits(s, d, v)
  <2>1. /\ \A i \in 2..(0 - 1) : Plain(s[i]) /\ s[i].w \subseteq v \cup {<<s[1].k, s[1].l>>}
        /\ \A i \in (0 + 1)..2 : Plain(s[i]) /\ s[i].w \subseteq v
    BY <1>5, <1>6
  <2>2. 0 \in 0..2 /\ 2 \in Nat /\ 0 # 1
    OBVIOUS
  <2>. QED
    BY <1>5, <2>1, <2>2, FitsRegion
<1>8. PICK t : t = [i \in 1..(p + 1) |-> IF i <= p THEN x[i] ELSE call]
  OBVIOUS
<1>9. Numbered(t) /\ Len(t) = p + 1 /\ (\A i \in 1..p : t[i] = x[i]) /\ t[p + 1] = call
  BY <1>1, <1>8 DEF Numbered
<1>10. Placed(s, t, x, 0, p, 1)
  <2>1. Len(s) = 0 + 1 + 1 /\ Len(t) = 0 + p + 1 /\ Len(x) = p
    BY <1>1, <1>3, <1>5, <1>9
  <2>2. \A i \in 1..p : t[0 + i] = x[i]
    BY <1>9
  <2>3. \A i \in 1..1 : t[0 + p + i] = s[0 + 1 + i]
    <3>1. ASSUME NEW i \in 1..1 PROVE t[0 + p + i] = s[0 + 1 + i]
      <4>1. 0 + p + i = p + 1 /\ 0 + 1 + i = 2 /\ 2 \in 1..2
        BY <1>1
      <4>. QED
        BY <1>5, <1>9, <4>1
    <3>. QED
      BY <3>1
  <2>. QED
    BY <1>9, <2>1, <2>2, <2>3 DEF Placed
<1>11. PICK f : Fits(t, f, v)
  <2>1. PICK e : Fits(x, e, v)
    BY <1>2 DEF Whole
  <2>2. PICK n \in Nat : n = 0
    OBVIOUS
  <2>3. s[n + 1].k = "call" /\ s[n + 1].w = v
    BY <1>5, <1>6, <2>2
  <2>4. Fits(x, e, s[n + 1].w) /\ 1 \in Nat /\ Placed(s, t, x, n, p, 1) /\ n \in Nat /\ p \in Nat
    BY <1>1, <1>10, <2>1, <2>2, <2>3
  <2>5. Fits(s, d, v) /\ s[n + 1].k = "call"
    BY <1>7, <2>3
  <2>. QED
    BY <2>4, <2>5, Replaced, Zenon
<1>12. Placed(t, z, y, p, q, 0)
  <2>1. Len(t) = p + 1 + 0 /\ Len(z) = p + q + 0 /\ Len(y) = q
    BY <1>1, <1>3, <1>9
  <2>2. \A i \in 1..p : z[i] = t[i]
    BY <1>1, <1>3, <1>9
  <2>3. \A i \in 1..q : z[p + i] = y[i]
    <3>1. ASSUME NEW i \in 1..q PROVE z[p + i] = y[i]
      <4>1. PICK j \in 1..(p + q) : j = p + i
        BY <1>1
      <4>2. z[j] = ItemOf(c[j])
        BY <1>3
      <4>3. c[j] = b[i]
        BY <1>1, <4>1
      <4>. QED
        BY <1>3, <4>1, <4>2, <4>3
    <3>. QED
      BY <3>1
  <2>. QED
    BY <1>3, <2>1, <2>2, <2>3 DEF Placed
<1>13. \E g : Fits(z, g, v)
  <2>1. PICK e : Fits(y, e, v)
    BY <1>2 DEF Whole
  <2>2. t[p + 1].k = "call" /\ Fits(y, e, t[p + 1].w) /\ 0 \in Nat
    BY <1>6, <1>9, <2>1
  <2>. QED
    BY <1>1, <1>11, <1>12, <2>2, Replaced
<1> QED
  BY <1>0, <1>1, <1>2, <1>13 DEF Whole

(* One inside a region. *)
LEMMA WholeRegion ==
    ASSUME NEW T, NEW h \in Seq(T), NEW u, NEW o \in {"loop", "when"}, NEW l,
           Whole(h, u \cup {<<o, l>>}), Mark(o, l) \in T, Mark("end", l) \in T
    PROVE  Whole((<<Mark(o, l)>> \o h) \o <<Mark("end", l)>>, u)
<1>0. PICK p, a, b, c, v : /\ p = Len(h) /\ a = Mark(o, l) /\ b = Mark("end", l)
                           /\ c = (<<a>> \o h) \o <<b>> /\ v = u \cup {<<o, l>>}
  OBVIOUS
<1>1. /\ p \in Nat /\ Len(c) = 1 + p + 1 /\ Numbered(c)
      /\ c[1] = a /\ (\A i \in 1..p : c[1 + i] = h[i]) /\ c[1 + p + 1] = b
  <2>1. PICK g : g = <<a>> \o h
    OBVIOUS
  <2>2. a \in T /\ b \in T
    BY <1>0
  <2>3. g \in Seq(T) /\ Len(g) = 1 + p /\ g[1] = a /\ (\A i \in 1..p : g[1 + i] = h[i]) /\ p \in Nat
    BY <1>0, <2>1, <2>2
  <2>4. c = g \o <<b>>
    BY <1>0, <2>1
  <2>5. c \in Seq(T) /\ Len(c) = 1 + p + 1 /\ c[1 + p + 1] = b /\ \A i \in 1..(1 + p) : c[i] = g[i]
    BY <2>2, <2>3, <2>4
  <2>6. \A i \in 1..p : 1 + i \in 1..(1 + p) /\ 1 \in 1..(1 + p)
    BY <2>3
  <2>7. \A i \in 1..p : c[1 + i] = h[i]
    BY <2>3, <2>5, <2>6
  <2>8. c[1] = a
    BY <2>3, <2>5
  <2>9. Numbered(c)
    BY <2>5 DEF Numbered
  <2>. QED
    BY <2>3, <2>5, <2>7, <2>8, <2>9
<1>2. PICK x, z : x = Items(h) /\ z = Items(c)
  OBVIOUS
<1>3. /\ Numbered(x) /\ Len(x) = p /\ Numbered(z) /\ Len(z) = 1 + p + 1
      /\ \A i \in 1..p : x[i] = ItemOf(h[i])
      /\ \A i \in 1..(1 + p + 1) : z[i] = ItemOf(c[i])
  BY <1>0, <1>1, <1>2, ItemsOf DEF Whole
<1>4. PICK s : s = [i \in 1..3 |-> IF i = 1 THEN ItemOf(a) ELSE IF i = 2 THEN Item("call", 0, v) ELSE ItemOf(b)]
  OBVIOUS
<1>5. Numbered(s) /\ Len(s) = 3 /\ s[1] = ItemOf(a) /\ s[2] = Item("call", 0, v) /\ s[3] = ItemOf(b)
  BY <1>4 DEF Numbered
<1>6. /\ s[1].k = o /\ s[1].l = l /\ s[1].w = {} /\ s[2].k = "call" /\ s[2].w = v
      /\ s[3].k = "end" /\ s[3].w = {}
  <2>1. a.k = o /\ a.l = l /\ b.k = "end"
    BY <1>0 DEF Mark
  <2>2. Wants(a) = {} /\ Wants(b) = {}
    BY <2>1 DEF Wants
  <2>. QED
    BY <1>5, <2>1, <2>2 DEF ItemOf, Item
<1>7. PICK d : Fits(s, d, u)
  <2>1. s[1].k \in Opens /\ s[1].k # "if" /\ s[3].k = "end" /\ s[1].w \subseteq u /\ s[3].w \subseteq u
    BY <1>6 DEF Opens
  <2>2. /\ \A i \in 2..(3 - 1) : Plain(s[i]) /\ s[i].w \subseteq u \cup {<<s[1].k, s[1].l>>}
        /\ \A i \in (3 + 1)..3 : Plain(s[i]) /\ s[i].w \subseteq u
    BY <1>0, <1>6 DEF Plain, Opens
  <2>3. 3 \in 0..3 /\ 3 \in Nat /\ 3 # 1
    OBVIOUS
  <2>. QED
    BY <1>5, <2>1, <2>2, <2>3, FitsRegion
<1>8. Placed(s, z, x, 1, p, 1)
  <2>1. Len(s) = 1 + 1 + 1 /\ Len(z) = 1 + p + 1 /\ Len(x) = p
    BY <1>3, <1>5
  <2>2. z[1] = s[1] /\ z[1 + p + 1] = s[3]
    <3>1. 1 \in 1..(1 + p + 1) /\ 1 + p + 1 \in 1..(1 + p + 1)
      BY <1>1
    <3>. QED
      BY <1>1, <1>3, <1>5, <3>1
  <2>3. \A i \in 1..p : z[1 + i] = x[i]
    <3>1. ASSUME NEW i \in 1..p PROVE z[1 + i] = x[i]
      <4>1. PICK j \in 1..(1 + p + 1) : j = 1 + i
        BY <1>1
      <4>2. z[j] = ItemOf(c[j])
        BY <1>3
      <4>3. c[j] = h[i]
        BY <1>1, <4>1
      <4>. QED
        BY <1>3, <4>1, <4>2, <4>3
    <3>. QED
      BY <3>1
  <2>4. \A i \in 1..1 : i = 1 /\ z[i] = s[i] /\ z[1 + p + i] = s[1 + 1 + i]
    BY <2>2
  <2>. QED
    BY <1>3, <2>1, <2>3, <2>4 DEF Placed
<1>9. \E g : Fits(z, g, u)
  <2>1. PICK e : Fits(x, e, v)
    BY <1>0, <1>2 DEF Whole
  <2>2. s[1 + 1].k = "call" /\ Fits(x, e, s[1 + 1].w) /\ 1 \in Nat
    BY <1>6, <2>1
  <2>. QED
    BY <1>1, <1>7, <1>8, <2>2, Replaced
<1> QED
  BY <1>0, <1>1, <1>2, <1>9 DEF Whole

(* One mark by itself. *)
LEMMA WholeMark ==
    ASSUME NEW m, NEW v, Plain(m), Wants(m) \subseteq v
    PROVE  Whole(<<m>>, v)
<1>1. PICK s, x : s = <<m>> /\ x = Items(s)
  OBVIOUS
<1>2. Numbered(s) /\ Len(s) = 1 /\ s[1] = m
  BY <1>1 DEF Numbered
<1>3. Numbered(x) /\ Len(x) = 1 /\ x[1] = ItemOf(m)
  BY <1>1, <1>2, ItemsOf
<1>4. Plain(x[1]) /\ x[1].w \subseteq v
  BY <1>3 DEF ItemOf, Item, Plain
<1>5. \E d : Fits(x, d, v)
  <2>1. /\ \A i \in 2..(0 - 1) : Plain(x[i]) /\ x[i].w \subseteq v \cup {<<x[1].k, x[1].l>>}
        /\ \A i \in (0 + 1)..1 : Plain(x[i]) /\ x[i].w \subseteq v
    BY <1>4
  <2>2. 0 \in 0..1 /\ 1 \in Nat /\ 0 # 1
    OBVIOUS
  <2>. QED
    BY <1>3, <2>1, <2>2, FitsRegion
<1> QED
  BY <1>1, <1>2, <1>5 DEF Whole
-----------------------------------------------------------------------------
(* A list of two. *)
LEMMA PairJoined ==
    ASSUME NEW T, NEW x \in Seq(T), NEW y \in Seq(T), NEW p \in Seq(T), Len(x) = 1, Len(y) = 1, Len(p) = 2,
           p[1] = x[1], p[2] = y[1]
    PROVE  p = x \o y
<1>1. PICK q : q = x \o y
  OBVIOUS
<1>2. p = [i \in 1..2 |-> p[i]]
  OBVIOUS
<1>3. q \in Seq(T) /\ Len(q) = 2 /\ q[1] = x[1] /\ q[2] = y[1]
  <2>1. q \in Seq(T) /\ Len(q) = 2
    <3>1. x \o y \in Seq(T)
      BY ConcatProperties
    <3>2. Len(x \o y) = Len(x) + Len(y)
      BY ConcatProperties
    <3>3. Len(x \o y) = 2
      BY <3>2
    <3>. QED
      BY <1>1, <3>1, <3>3
  <2>2. 1 \in 1..(1 + 1) /\ 2 \in 1..(1 + 1) /\ 1 <= 1 /\ ~(2 <= 1) /\ 2 - 1 = 1
    OBVIOUS
  <2>3. q[1] = x[1]
    BY <1>1, <2>2, ConcatProperties
  <2>4. q[2] = y[1]
    BY <1>1, <2>2, ConcatProperties
  <2>. QED
    BY <2>1, <2>3, <2>4
<1>4. q = [i \in 1..2 |-> q[i]]
  BY <1>3
<1>5. \A i \in 1..2 : i = 1 \/ i = 2
  OBVIOUS
<1>6. \A i \in 1..2 : q[i] = p[i]
  BY <1>3, <1>5
<1>7. q = p
  BY <1>2, <1>4, <1>6
<1> QED
  BY <1>1, <1>7

(* The marks of the dispatch loop, and the arm of a block. *)
Steps ==
    [k : {"set", "select", "loop", "br loop", "return", "when", "code", "end"},
     l : Labels(fn) \cup {DispatchLoop}, l2 : Labels(fn) \cup {0}]

(* Each of its marks is one of them. *)
LEMMA MarkIsStep ==
    ASSUME NEW k \in {"set", "select", "loop", "br loop", "return", "when", "code", "end"},
           NEW l \in Labels(fn) \cup {DispatchLoop}
    PROVE  Mark(k, l) \in Steps /\ Mark(k, l).k = k /\ Mark(k, l).l = l
BY DEF Mark, Steps

(* No mark but a branch wants anything. *)
LEMMA StepWants ==
    ASSUME NEW m \in Steps
    PROVE  /\ m.k \in {"set", "select", "return", "code"} => Plain(m) /\ Wants(m) = {}
           /\ m.k = "br loop" => Plain(m) /\ Wants(m) = {<<"loop", m.l>>}
BY DEF Plain, Opens, Wants

(* How an arm leaves: to return, or to set the target and repeat the loop. *)
LEMMA LeavingWhole ==
    ASSUME IsFunction(fn), CheckCfg(fn) = {}, NEW l \in Labels(fn), NEW v, <<"loop", DispatchLoop>> \in v
    PROVE  Leaving(l) \in Seq(Steps) /\ Whole(Leaving(l), v)
<1>0. PICK to : to = Successors(fn, l)
  OBVIOUS
<1>1. to \in Seq(Labels(fn)) /\ Len(to) \in 0..2
  BY <1>0, SuccessorsAreLabels, AtMostTwoSuccessors
<1>2. \A i \in 1..Len(to) : to[i] \in Labels(fn)
  BY <1>1
<1>3. PICK b : b = Mark("br loop", DispatchLoop)
  OBVIOUS
<1>4. b \in Steps /\ b.k = "br loop" /\ b.l = DispatchLoop
  BY <1>3, MarkIsStep
<1>5. <<b>> \in Seq(Steps) /\ Whole(<<b>>, v)
  <2>1. Plain(b) /\ Wants(b) \subseteq v
    BY <1>4, StepWants
  <2>2. Whole(<<b>>, v)
    BY <2>1, WholeMark
  <2>3. <<b>> \in Seq(Steps)
    BY <1>4, One
  <2>. QED
    BY <2>2, <2>3
<1>6. ASSUME Len(to) = 0 PROVE Leaving(l) \in Seq(Steps) /\ Whole(Leaving(l), v)
  <2>1. PICK m : m = Mark("return", l)
    OBVIOUS
  <2>2. m \in Steps /\ m.k = "return"
    BY <2>1, MarkIsStep
  <2>3. Plain(m) /\ Wants(m) \subseteq v
    BY <2>2, StepWants
  <2>4. Leaving(l) = <<m>>
    BY <1>0, <1>6, <2>1 DEF Leaving
  <2>5. Whole(<<m>>, v)
    BY <2>3, WholeMark
  <2>. QED
    BY <2>2, <2>4, <2>5
<1>7. ASSUME NEW m \in Steps, m.k \in {"set", "select"}, Leaving(l) = <<m, b>>
      PROVE  Leaving(l) \in Seq(Steps) /\ Whole(Leaving(l), v)
  <2>1. PICK x, y : x = <<m>> /\ y = <<b>>
    OBVIOUS
  <2>2. Plain(m) /\ Wants(m) \subseteq v
    BY <1>7, StepWants
  <2>3. Whole(x, v)
    BY <2>1, <2>2, WholeMark
  <2>4. x \in Seq(Steps) /\ y \in Seq(Steps) /\ Whole(y, v)
    BY <1>5, <2>1
  <2>5. Leaving(l) = x \o y
    BY <1>7, <2>1
  <2>6. Whole(x \o y, v)
    BY <2>3, <2>4, WholeJoined
  <2>. QED
    BY <2>4, <2>5, <2>6
<1>8. ASSUME Len(to) = 1 PROVE Leaving(l) \in Seq(Steps) /\ Whole(Leaving(l), v)
  <2>1. PICK m : m = Mark("set", to[1])
    OBVIOUS
  <2>2. to[1] \in Labels(fn)
    BY <1>2, <1>8
  <2>3. m \in Steps /\ m.k \in {"set", "select"}
    <3>1. to[1] \in Labels(fn) \cup {DispatchLoop}
      BY <2>2
    <3>2. m \in Steps /\ m.k = "set"
      <4>1. PICK y \in Labels(fn) : y = to[1]
        BY <2>2
      <4>2. Mark("set", y) \in Steps /\ Mark("set", y).k = "set"
        BY DEF Mark, Steps
      <4>. QED
        BY <2>1, <4>1, <4>2
    <3>. QED
      BY <3>2
  <2>4. Leaving(l) = <<m, b>>
    <3>1. Len(Successors(fn, l)) = 1
      BY <1>0, <1>8
    <3>2. Leaving(l) = <<Mark("set", Successors(fn, l)[1]), Mark("br loop", DispatchLoop)>>
      <4>1. Len(Successors(fn, l)) # 0 /\ Len(Successors(fn, l)) # 2
        BY <3>1
      <4>. QED
        BY <3>1, <4>1, Zenon DEF Leaving
    <3>. QED
      BY <1>0, <1>3, <2>1, <3>2
  <2>. QED
    BY <1>7, <2>3, <2>4
<1>9. ASSUME Len(to) = 2 PROVE Leaving(l) \in Seq(Steps) /\ Whole(Leaving(l), v)
  <2>1. PICK m : m = Chosen(to)
    OBVIOUS
  <2>2. to[1] \in Labels(fn) /\ to[2] \in Labels(fn)
    BY <1>2, <1>9
  <2>3. m \in Steps /\ m.k \in {"set", "select"}
    <3>1. m = [k |-> "select", l |-> to[1], l2 |-> to[2]]
      BY <2>1 DEF Chosen, Mark
    <3>. QED
      BY <2>2, <3>1 DEF Steps
  <2>4. Leaving(l) = <<m, b>>
    <3>1. Len(Successors(fn, l)) = 2
      BY <1>0, <1>9
    <3>2. Leaving(l) = <<Chosen(Successors(fn, l)), Mark("br loop", DispatchLoop)>>
      <4>1. Len(Successors(fn, l)) # 0 /\ Len(Successors(fn, l)) # 1
        BY <3>1
      <4>. QED
        BY <3>1, <4>1, Zenon DEF Leaving
    <3>. QED
      BY <1>0, <1>3, <2>1, <3>2
  <2>. QED
    BY <1>7, <2>3, <2>4
<1> QED
  BY <1>1, <1>6, <1>8, <1>9

(* The marks of an arm: the block, and how it leaves, between two of its own. *)
LEMMA ArmIs ==
    ASSUME IsFunction(fn), CheckCfg(fn) = {}, NEW l \in Labels(fn)
    PROVE  \E x \in Seq(Steps), y \in Seq(Steps), z \in Seq(Steps) :
              /\ x = <<Mark("when", l)>> /\ y = <<Mark("code", l)>> /\ z = <<Mark("end", l)>>
              /\ DispatchArm(l) = (x \o (y \o Leaving(l))) \o z
<1>0. PICK T, a, b, c, f, s : /\ T = Steps /\ s = DispatchArm(l) /\ f = Leaving(l)
                              /\ a = Mark("when", l) /\ b = Mark("code", l) /\ c = Mark("end", l)
  OBVIOUS
<1>1. a \in T /\ b \in T /\ c \in T
  BY <1>0, MarkIsStep
<1>2. f \in Seq(T)
  <2>1. PICK v : v = {<<"loop", DispatchLoop>>}
    OBVIOUS
  <2>. QED
    BY <1>0, <2>1, LeavingWhole
<1>3. PICK x, y, z, p : x = <<a>> /\ y = <<b>> /\ z = <<c>> /\ p = <<a, b>>
  OBVIOUS
<1>4. /\ x \in Seq(T) /\ Len(x) = 1 /\ x[1] = a
      /\ y \in Seq(T) /\ Len(y) = 1 /\ y[1] = b /\ z \in Seq(T)
  BY <1>1, <1>3
<1>5. p \in Seq(T) /\ Len(p) = 2 /\ p[1] = a /\ p[2] = b
  BY <1>1, <1>3
<1>6. s = (p \o f) \o z
  BY <1>0, <1>3 DEF DispatchArm
<1>7. p = x \o y
  BY <1>4, <1>5, PairJoined
<1>8. (x \o y) \o f = x \o (y \o f)
  BY <1>2, <1>4, ConcatAssociative
<1> QED
  BY <1>0, <1>3, <1>4, <1>6, <1>7, <1>8

(* The arm of a block is a region, whose branch leaves for the loop. *)
LEMMA ArmWhole ==
    ASSUME IsFunction(fn), CheckCfg(fn) = {}, NEW l \in Labels(fn)
    PROVE  DispatchArm(l) \in Seq(Steps) /\ Whole(DispatchArm(l), {<<"loop", DispatchLoop>>})
<1>0. PICK v, u, b, f : /\ v = {<<"loop", DispatchLoop>>} /\ u = v \cup {<<"when", l>>}
                        /\ b = Mark("code", l) /\ f = Leaving(l)
  OBVIOUS
<1>1. PICK x \in Seq(Steps), y \in Seq(Steps), z \in Seq(Steps) :
              /\ x = <<Mark("when", l)>> /\ y = <<b>> /\ z = <<Mark("end", l)>>
              /\ DispatchArm(l) = (x \o (y \o f)) \o z
  BY <1>0, ArmIs
<1>2. f \in Seq(Steps) /\ Whole(f, u)
  BY <1>0, LeavingWhole
<1>3. Whole(y, u)
  <2>1. b \in Steps /\ b.k = "code"
    BY <1>0, MarkIsStep
  <2>2. Plain(b) /\ Wants(b) \subseteq u
    BY <2>1, StepWants
  <2>3. Whole(<<b>>, u)
    BY <2>2, WholeMark
  <2>. QED
    BY <1>1, <2>3
<1>4. PICK g : g = y \o f
  OBVIOUS
<1>5. g \in Seq(Steps) /\ Whole(g, u)
  <2>1. Whole(y \o f, u)
    BY <1>1, <1>2, <1>3, WholeJoined
  <2>. QED
    BY <1>1, <1>2, <1>4, <2>1
<1>6. Whole((<<Mark("when", l)>> \o g) \o <<Mark("end", l)>>, v)
  <2>1. Mark("when", l) \in Steps /\ Mark("end", l) \in Steps
    BY MarkIsStep
  <2>. QED
    BY <1>0, <1>5, <2>1, WholeRegion
<1>7. (x \o g) \o z \in Seq(Steps)
  <2>1. PICK h : h = x \o g
    OBVIOUS
  <2>2. h \in Seq(Steps)
    BY <1>1, <1>5, <2>1
  <2>3. h \o z \in Seq(Steps)
    BY <1>1, <2>2
  <2>. QED
    BY <2>1, <2>3
<1> QED
  BY <1>0, <1>1, <1>4, <1>6, <1>7
-----------------------------------------------------------------------------
(* So the arms in a row are whole, *)
LEMMA ArmsWhole ==
    ASSUME NEW T, NEW n \in Nat, NEW ss \in [1..n -> Seq(T)], n # 0, NEW v,
           \A i \in 1..n : Whole(ss[i], v)
    PROVE  FlattenSeq(ss) \in Seq(T) /\ Whole(FlattenSeq(ss), v)
<1> DEFINE F == CHOOSE h : Concatenations(ss, n, h)
<1>0. Len(ss) = n
  OBVIOUS
<1>1. F = [i \in 1..n |-> IF i = 1 THEN ss[i] ELSE F[i - 1] \o ss[i]]
  BY HasPrefixes DEF Concatenations
<1>2. FlattenSeq(ss) = F[n]
  BY <1>0 DEF FlattenSeq, Concatenations
<1> HIDE DEF F
<1>3. F[1] = ss[1] /\ \A i \in 2..n : F[i] = F[i - 1] \o ss[i]
  <2>1. 1 \in 1..n /\ \A i \in 2..n : i \in 1..n /\ i # 1
    OBVIOUS
  <2>2. \A i \in 1..n : F[i] = IF i = 1 THEN ss[i] ELSE F[i - 1] \o ss[i]
    BY <1>1
  <2>. QED
    BY <2>1, <2>2
<1> DEFINE S == {m \in 1..n : F[m] \in Seq(T) /\ Whole(F[m], v)}
<1>4. 1 \in S
  <2>1. 1 \in 1..n
    OBVIOUS
  <2>2. ss[1] \in Seq(T) /\ Whole(ss[1], v)
    BY <2>1
  <2>. QED
    BY <1>3, <2>1, <2>2
<1>5. ASSUME NEW m \in 1..(n - 1), m \in S PROVE m + 1 \in S
  <2>1. m + 1 \in 2..n /\ (m + 1) - 1 = m /\ m + 1 \in 1..n
    OBVIOUS
  <2>2. PICK f, g : f = F[m] /\ g = ss[m + 1]
    OBVIOUS
  <2>3. f \in Seq(T) /\ g \in Seq(T) /\ Whole(f, v) /\ Whole(g, v)
    BY <1>5, <2>1, <2>2
  <2>4. F[m + 1] = f \o g
    BY <1>3, <2>1, <2>2
  <2>5. f \o g \in Seq(T) /\ Whole(f \o g, v)
    BY <2>3, WholeJoined
  <2>. QED
    BY <2>1, <2>4, <2>5
<1>6. n \in S
  <2>1. Inductive(S, 1, n)
    BY <1>4, <1>5 DEF Inductive
  <2>. HIDE DEF S
  <2>. QED
    BY <2>1, UpTo
<1> QED
  BY <1>2, <1>6

(* The marks of the dispatch loop: the first target, and the arms in a     *)
(* region of their own.                                                    *)
LEMMA DispatchIs ==
    ASSUME IsFunction(fn), CheckCfg(fn) = {}
    PROVE  \E n \in Nat \ {0} : \E ss \in [1..n -> Seq(Steps)],
              x \in Seq(Steps), y \in Seq(Steps), z \in Seq(Steps) :
              /\ x = <<Mark("set", Entry(fn))>> /\ y = <<Mark("loop", DispatchLoop)>>
              /\ z = <<Mark("end", DispatchLoop)>>
              /\ \A i \in 1..n : \E l \in Labels(fn) : ss[i] = DispatchArm(l)
              /\ FlattenSeq(ss) \in Seq(Steps) => Dispatch = x \o ((y \o FlattenSeq(ss)) \o z)
<1>0. PICK n, ss, T : /\ n = Len(fn.blocks) /\ T = Steps
                      /\ ss = [i \in DOMAIN fn.blocks |-> DispatchArm(fn.blocks[i].label)]
  OBVIOUS
<1>1. n \in Nat /\ DOMAIN fn.blocks = 1..n /\ n # 0
  <2>1. fn.blocks # <<>> /\ IsList(fn.blocks)
    BY CheckedGraph DEF IsFunction
  <2>2. n \in Nat /\ DOMAIN fn.blocks = 1..n
    BY <1>0, <2>1, ListDomain
  <2>3. n # 0
    BY <1>0, <2>1 DEF IsList
  <2>. QED
    BY <2>2, <2>3
<1>2. ASSUME NEW i \in 1..n PROVE ss[i] \in Seq(T) /\ \E l \in Labels(fn) : ss[i] = DispatchArm(l)
  <2>1. PICK l : l = fn.blocks[i].label
    OBVIOUS
  <2>2. l \in Labels(fn)
    BY <1>1, <2>1 DEF Labels, Range
  <2>3. ss[i] = DispatchArm(l)
    BY <1>0, <1>1, <2>1
  <2>. QED
    BY <1>0, <2>2, <2>3, ArmWhole
<1>3. ss \in [1..n -> Seq(T)]
  <2>1. ss = [i \in 1..n |-> ss[i]]
    BY <1>0, <1>1
  <2>. QED
    BY <1>2, <2>1
<1>4. PICK a, b, c, f : /\ a = Mark("set", Entry(fn)) /\ b = Mark("loop", DispatchLoop)
                        /\ c = Mark("end", DispatchLoop) /\ f = FlattenSeq(ss)
  OBVIOUS
<1>5. a \in T /\ b \in T /\ c \in T
  <2>1. Entry(fn) \in Labels(fn)
    BY EntryFacts
  <2>. QED
    BY <1>0, <1>4, <2>1 DEF Mark, Steps
<1>6. PICK x, y, z, p : x = <<a>> /\ y = <<b>> /\ z = <<c>> /\ p = <<a, b>>
  OBVIOUS
<1>7. /\ x \in Seq(T) /\ Len(x) = 1 /\ x[1] = a
      /\ y \in Seq(T) /\ Len(y) = 1 /\ y[1] = b /\ z \in Seq(T)
  BY <1>5, <1>6
<1>8. p \in Seq(T) /\ Len(p) = 2 /\ p[1] = a /\ p[2] = b
  BY <1>5, <1>6
<1>9. Dispatch = (p \o f) \o z
  BY <1>0, <1>4, <1>6 DEF Dispatch
<1>10. p = x \o y
  BY <1>7, <1>8, PairJoined
<1>11. ASSUME f \in Seq(T) PROVE Dispatch = x \o ((y \o f) \o z)
  <2>1. (x \o y) \o f = x \o (y \o f)
    BY <1>7, <1>11, ConcatAssociative
  <2>2. PICK w : w = y \o f
    OBVIOUS
  <2>3. w \in Seq(T) /\ x \in Seq(T) /\ z \in Seq(T)
    BY <1>7, <1>11, <2>2
  <2>4. (x \o w) \o z = x \o (w \o z)
    BY <2>3, ConcatAssociative
  <2>. QED
    BY <1>9, <1>10, <2>1, <2>2, <2>4
<1>12. n \in Nat \ {0} /\ ss \in [1..n -> Seq(Steps)] /\ x \in Seq(Steps) /\ y \in Seq(Steps) /\ z \in Seq(Steps)
  BY <1>0, <1>1, <1>3, <1>7
<1>13. /\ x = <<Mark("set", Entry(fn))>> /\ y = <<Mark("loop", DispatchLoop)>> /\ z = <<Mark("end", DispatchLoop)>>
       /\ \A i \in 1..n : \E l \in Labels(fn) : ss[i] = DispatchArm(l)
       /\ FlattenSeq(ss) \in Seq(Steps) => Dispatch = x \o ((y \o FlattenSeq(ss)) \o z)
  BY <1>0, <1>2, <1>4, <1>6, <1>11
<1> QED
  BY <1>12, <1>13

(* and so is the dispatch loop. *)
LEMMA DispatchWhole ==
    ASSUME IsFunction(fn), CheckCfg(fn) = {}
    PROVE  Whole(Dispatch, {})
<1>n. PICK n \in Nat \ {0} : \E ss \in [1..n -> Seq(Steps)],
              x \in Seq(Steps), y \in Seq(Steps), z \in Seq(Steps) :
              /\ x = <<Mark("set", Entry(fn))>> /\ y = <<Mark("loop", DispatchLoop)>>
              /\ z = <<Mark("end", DispatchLoop)>>
              /\ \A i \in 1..n : \E l \in Labels(fn) : ss[i] = DispatchArm(l)
              /\ FlattenSeq(ss) \in Seq(Steps) => Dispatch = x \o ((y \o FlattenSeq(ss)) \o z)
  BY DispatchIs
<1>0. PICK ss \in [1..n -> Seq(Steps)], x \in Seq(Steps), y \in Seq(Steps), z \in Seq(Steps) :
              /\ x = <<Mark("set", Entry(fn))>> /\ y = <<Mark("loop", DispatchLoop)>>
              /\ z = <<Mark("end", DispatchLoop)>>
              /\ \A i \in 1..n : \E l \in Labels(fn) : ss[i] = DispatchArm(l)
              /\ FlattenSeq(ss) \in Seq(Steps) => Dispatch = x \o ((y \o FlattenSeq(ss)) \o z)
  BY <1>n
<1>1. PICK v, a, f, h : /\ v = {<<"loop", DispatchLoop>>} /\ a = Mark("set", Entry(fn))
                        /\ f = FlattenSeq(ss) /\ h = (y \o f) \o z
  OBVIOUS
<1>2. \A i \in 1..n : Whole(ss[i], v)
  BY <1>0, <1>1, ArmWhole
<1>3. f \in Seq(Steps) /\ Whole(f, v)
  BY <1>1, <1>2, ArmsWhole
<1>4. h \in Seq(Steps)
  <2>1. PICK w : w = y \o f
    OBVIOUS
  <2>2. w \in Seq(Steps)
    BY <1>3, <2>1
  <2>3. w \o z \in Seq(Steps)
    BY <2>2
  <2>. QED
    BY <1>1, <2>1, <2>3
<1>5. Whole(x, {})
  <2>1. a \in Steps /\ a.k = "set"
    <3>1. Entry(fn) \in Labels(fn)
      BY EntryFacts
    <3>. QED
      BY <1>1, <3>1 DEF Mark, Steps
  <2>2. Plain(a) /\ Wants(a) \subseteq {}
    BY <2>1, StepWants
  <2>3. Whole(<<a>>, {})
    BY <2>2, WholeMark
  <2>. QED
    BY <1>0, <1>1, <2>3
<1>6. Whole(h, {})
  <2>1. PICK l, o, u : l = DispatchLoop /\ o = "loop" /\ u = {}
    OBVIOUS
  <2>2. Mark(o, l) \in Steps /\ Mark("end", l) \in Steps
    BY <2>1 DEF Mark, Steps
  <2>3. o \in {"loop", "when"} /\ Whole(f, u \cup {<<o, l>>})
    BY <1>1, <1>3, <2>1
  <2>4. Whole((<<Mark(o, l)>> \o f) \o <<Mark("end", l)>>, u)
    BY <1>3, <2>2, <2>3, WholeRegion
  <2>. QED
    BY <1>0, <1>1, <2>1, <2>4
<1>7. Whole(x \o h, {})
  BY <1>4, <1>5, <1>6, WholeJoined
<1> QED
  BY <1>0, <1>1, <1>3, <1>7

(* A body that is whole may be run: nothing is entered yet. *)
LEMMA RStart == ASSUME CInv, Emitting, Planned, Running, StartBody PROVE Running'
<1>1. /\ pc' = 1 /\ open' = open /\ body' = IF phase = "done" THEN text ELSE Dispatch
      /\ pc = 0 /\ phase \in {"done", "irreducible"}
  BY DEF StartBody
<1>2. open = <<>>
  BY <1>1 DEF Running
<1>3. PICK d : Sound(body', d)
  <2>1. CASE phase = "done"
    BY <1>1, <2>1, StructuredSound
  <2>2. CASE phase # "done"
    <3>1. IsFunction(fn) /\ CheckCfg(fn) = {}
      BY GraphFacts DEF CInv, SInv
    <3>2. Whole(Dispatch, {})
      BY <3>1, DispatchWhole
    <3>. QED
      BY <1>1, <2>2, <3>2 DEF Whole, Sound
  <2>. QED
    BY <2>1, <2>2
<1>4. Sound(body, d)'
  BY <1>3 DEF Sound
<1>5. pc' \in 1..(Len(body') + 1)
  BY <1>1, <1>3 DEF Sound, Numbered
<1>6. Rounds(d, pc)' = {}
  <2>1. 1..(pc' - 1) = {}
    BY <1>1
  <2>. QED
    BY <2>1 DEF Rounds
<1>7. Rising(open') /\ Range(open') = {}
  <2>1. PICK s : s = open'
    OBVIOUS
  <2>2. s = <<>>
    BY <1>1, <1>2, <2>1
  <2>3. s \in Seq(Nat) /\ Len(s) = 0 /\ DOMAIN s = {}
    BY <2>2
  <2>. QED
    BY <2>1, <2>3 DEF Rising, Range
<1>8. Arrives(d)'
  BY <1>5, <1>6, <1>7 DEF Arrives, Within
<1> QED
  BY <1>1, <1>4, <1>8 DEF Running

(* Every step of the body arrives. *)
LEMMA RunningNext == ASSUME CInv, Emitting, Planned, Running, [NextFlow]_flowVars PROVE Running'
<1>1. CASE Structure \/ UNCHANGED flowVars
  <2>1. body' = body /\ pc' = pc /\ open' = open
    BY <1>1 DEF Structure, flowVars, runVars
  <2>2. CASE pc = 0
    BY <2>1, <2>2 DEF Running
  <2>3. CASE pc # 0
    <3>1. PICK d : Sound(body, d) /\ Arrives(d)
      BY <2>3 DEF Running
    <3>2. Sound(body, d)'
      BY <2>1, <3>1 DEF Sound
    <3>3. Rounds(d, pc)' = Rounds(d, pc)
      BY <2>1 DEF Rounds
    <3>4. Arrives(d)'
      BY <2>1, <3>1, <3>3 DEF Arrives, Within
    <3>. QED
      BY <2>1, <2>3, <3>2, <3>4 DEF Running
  <2>. QED
    BY <2>2, <2>3
<1>2. CASE StartBody
  BY <1>2, RStart
<1>3. CASE RunBody
  <2>1. pc \in DOMAIN body /\ body' = body
    BY <1>3 DEF RunBody, EnterRegion, Choose, BranchOut, BranchBack, RunBlock, SetTarget, When, Go, Reading
  <2>2. pc # 0
    <3>1. ASSUME pc = 0 PROVE FALSE
      <4>1. body = <<>>
        BY <3>1 DEF Running
      <4>. QED
        BY <2>1, <4>1
    <3>. QED
      BY <3>1
  <2>3. PICK d : Sound(body, d) /\ Arrives(d)
    BY <2>2 DEF Running
  <2>4. Arrives(d)'
    BY <1>3, <2>3, REnter, RBranch, RPlain DEF RunBody
  <2>5. Sound(body, d)'
    BY <2>1, <2>3 DEF Sound
  <2>6. pc' # 0
    BY <2>4 DEF Arrives
  <2>. QED
    BY <2>4, <2>5, <2>6 DEF Running
<1> QED
  BY <1>1, <1>2, <1>3 DEF NextFlow

(* A step of the flow is one of structure() or leaves it alone. *)
LEMMA FlowSteps == [NextFlow]_flowVars => [Next]_vars
<1>1. Structure => Next
  BY DEF Structure
<1>2. StartBody => UNCHANGED vars
  BY DEF StartBody
<1>3. RunBody => UNCHANGED vars
  BY DEF RunBody, EnterRegion, Choose, BranchOut, BranchBack, RunBlock, SetTarget, When, Go
<1>4. UNCHANGED flowVars => UNCHANGED vars
  BY DEF flowVars
<1> QED
  BY <1>1, <1>2, <1>3, <1>4 DEF NextFlow

(* What holds of the flow in every state. *)
FlowInv == CInv /\ Emitting /\ Looping /\ Planned /\ Running

(* It holds at first, *)
LEMMA FlowStarts == ASSUME InitFlow PROVE FlowInv
<1>1. Init /\ pc = 0 /\ body = <<>> /\ open = <<>>
  BY DEF InitFlow
<1>2. CInv /\ Emitting
  BY <1>1, SInit DEF CInv, Init, Classifying, Emitting
<1>3. Looping /\ Planned
  BY <1>1 DEF Init, Looping, Planned
<1>4. Running
  BY <1>1 DEF Running
<1> QED
  BY <1>2, <1>3, <1>4 DEF FlowInv

(* and every step keeps it. *)
LEMMA FlowNext == ASSUME FlowInv, [NextFlow]_flowVars PROVE FlowInv'
<1>1. [Next]_vars
  BY FlowSteps
<1>2. CInv' /\ Emitting'
  BY <1>1, SNext, ClassifyingNext, EmittingNext DEF FlowInv, CInv
<1>3. Looping' /\ Planned'
  BY <1>1, LoopingNext, PlannedNext DEF FlowInv
<1>4. Running'
  BY RunningNext DEF FlowInv
<1> QED
  BY <1>2, <1>3, <1>4 DEF FlowInv

(* Every branch of every body that is run is inside the region it names,   *)
(* and the regions entered are those the text nests the mark in.           *)
THEOREM BranchesAreEnclosed == SpecFlow => []BranchesEnclosed
<1>1. InitFlow => FlowInv
  BY FlowStarts
<1>2. FlowInv /\ [NextFlow]_flowVars => FlowInv'
  BY FlowNext
<1>3. FlowInv => BranchesEnclosed
  BY RunningEnclosed DEF FlowInv
<1> QED
  BY <1>1, <1>2, <1>3, PTL DEF SpecFlow
-----------------------------------------------------------------------------
(***************************************************************************)
(* Where a body leads.  The goals of a place say which block runs next if  *)
(* control comes there: a given one; the one the local $.pc names; one of  *)
(* the successors of the block that has just run; or the first of all.     *)
(***************************************************************************)
To(l) == <<"to", l>>
Aimed == <<"aimed", 0>>
Out(x) == <<"out", x>>
First == <<"first", 0>>
Again(l) == IF l = DispatchLoop THEN Aimed ELSE To(l)

(* The regions a place is in, innermost outermost, go from C to D behind a *)
(* mark; what is behind it has the goals H that who lands there needs; and *)
(* the mark serves a goal.                                                 *)
Stacks(m, C, D) ==
    IF m.k \in Opens THEN D = <<C, m.k, m.l>>
    ELSE IF m.k = "end" THEN \E k, l : C = <<D, k, l>>
    ELSE D = C
Lands(f, m, C, D, H) ==
    /\ m.k = "loop" => Again(m.l) \in H
    /\ m.k = "end" => \A l : /\ C = <<D, "block", l>> => To(l) \in H
                             /\ C = <<D, "when", l>> => Aimed \in H
    /\ m.k = "else" => \E B, x : /\ C = <<B, "if", x>> /\ Len(Successors(f, x)) = 2
                                 /\ To(Successors(f, x)[2]) \in H
    /\ m.k = "code" => \/ Out(m.l) \in H
                       \/ Len(Successors(f, m.l)) = 1 /\ To(Successors(f, m.l)[1]) \in H
Serves(f, m, goal, H) ==
    \/ m.k \in {"code", "call", "br block"} /\ goal = To(m.l)
    \/ m.k = "br loop" /\ goal = Again(m.l)
    \/ m.k \in {"block", "loop"} /\ goal \in H
    \/ m.k \in {"return", "end", "else"}
    \/ m.k = "if" /\ goal = Out(m.l) /\ Len(Successors(f, m.l)) = 2 /\ To(Successors(f, m.l)[1]) \in H
    \/ m.k = "when" /\ goal = Aimed /\ To(m.l) \in H
    \/ /\ m.k = "set" /\ Aimed \in H
       /\ \/ goal = First /\ m.l = Entry(f)
          \/ \E x : goal = Out(x) /\ Len(Successors(f, x)) = 1 /\ m.l = Successors(f, x)[1]
    \/ /\ m.k = "select" /\ Aimed \in H
       /\ \E x : /\ goal = Out(x) /\ Len(Successors(f, x)) = 2
                 /\ m.l = Successors(f, x)[1] /\ m.l2 = Successors(f, x)[2]
Goes(f, m, C, G, D, H) ==
    Stacks(m, C, D) /\ Lands(f, m, C, D, H) /\ \A goal \in G : Serves(f, m, goal, H)

(* A list of marks leads, from place to place.                             *)
Routes(f, s, c, g) == \A i \in 1..Len(s) : Goes(f, s[i], c[i], g[i], c[i + 1], g[i + 1])
Way(f, s, C, G, D, H) ==
    \E c, g : /\ c[1] = C /\ g[1] = G /\ c[Len(s) + 1] = D /\ g[Len(s) + 1] = H
              /\ Routes(f, s, c, g)

(* One mark, and none. *)
LEMMA WayOne ==
    ASSUME NEW f, NEW m, NEW C, NEW G, NEW D, NEW H, Goes(f, m, C, G, D, H)
    PROVE  Way(f, <<m>>, C, G, D, H)
<1>1. PICK s, c, g : s = <<m>> /\ c = <<C, D>> /\ g = <<G, H>>
  OBVIOUS
<1>2. Len(s) = 1 /\ s[1] = m /\ c[1] = C /\ c[2] = D /\ g[1] = G /\ g[2] = H
  BY <1>1
<1>3. Routes(f, s, c, g)
  <2>1. 1..1 = {1} /\ 1 + 1 = 2
    OBVIOUS
  <2>. QED
    BY <1>2, <2>1 DEF Routes
<1>4. c[Len(s) + 1] = D /\ g[Len(s) + 1] = H
  BY <1>2
<1> QED
  BY <1>1, <1>2, <1>3, <1>4 DEF Way

(* One mark, and none. *)
LEMMA WayNone ==
    ASSUME NEW f, NEW C, NEW G
    PROVE  Way(f, <<>>, C, G, C, G)
<1>1. PICK s, c, g : s = <<>> /\ c = <<C>> /\ g = <<G>>
  OBVIOUS
<1>2. Len(s) = 0 /\ c[1] = C /\ g[1] = G
  BY <1>1
<1>3. Routes(f, s, c, g)
  <2>1. 1..0 = {}
    OBVIOUS
  <2>. QED
    BY <1>2, <2>1 DEF Routes
<1>4. c[Len(s) + 1] = C /\ g[Len(s) + 1] = G
  BY <1>2
<1> QED
  BY <1>1, <1>2, <1>3, <1>4 DEF Way

(* Of no marks, none leads anywhere. *)
LEMMA WayEmpty ==
    ASSUME NEW f, NEW C, NEW G, NEW D, NEW H, Way(f, <<>>, C, G, D, H)
    PROVE  D = C /\ H = G
<1>1. PICK s : s = <<>>
  OBVIOUS
<1>2. PICK c, g : c[1] = C /\ g[1] = G /\ c[Len(s) + 1] = D /\ g[Len(s) + 1] = H
  BY <1>1 DEF Way
<1>3. Len(s) + 1 = 1
  BY <1>1
<1> QED
  BY <1>2, <1>3

(* Ways follow each other. *)
LEMMA WayJoined ==
    ASSUME NEW T, NEW s \in Seq(T), NEW t \in Seq(T), NEW f,
           NEW C, NEW G, NEW D, NEW H, NEW E, NEW K,
           Way(f, s, C, G, D, H), Way(f, t, D, H, E, K)
    PROVE  Way(f, s \o t, C, G, E, K)
<1>0. PICK n \in Nat, m \in Nat : n = Len(s) /\ m = Len(t)
  OBVIOUS
<1>1. PICK u : u = s \o t
  OBVIOUS
<1>2. Len(u) = n + m /\ (\A i \in 1..n : u[i] = s[i]) /\ \A i \in 1..m : u[n + i] = t[i]
  BY <1>0, <1>1
<1>3. PICK c, g : /\ c[1] = C /\ g[1] = G /\ c[n + 1] = D /\ g[n + 1] = H
                  /\ \A i \in 1..n : Goes(f, s[i], c[i], g[i], c[i + 1], g[i + 1])
  BY <1>0 DEF Way, Routes
<1>4. PICK b, h : /\ b[1] = D /\ h[1] = H /\ b[m + 1] = E /\ h[m + 1] = K
                  /\ \A i \in 1..m : Goes(f, t[i], b[i], h[i], b[i + 1], h[i + 1])
  BY <1>0 DEF Way, Routes
<1>5. PICK p, q : /\ p = [i \in 1..(n + m + 1) |-> IF i <= n THEN c[i] ELSE b[i - n]]
                  /\ q = [i \in 1..(n + m + 1) |-> IF i <= n THEN g[i] ELSE h[i - n]]
  OBVIOUS
<1>6. ASSUME NEW i \in 1..(n + 1) PROVE p[i] = c[i] /\ q[i] = g[i]
  <2>1. CASE i <= n
    BY <1>5, <2>1
  <2>2. CASE i = n + 1
    <3>1. i \in 1..(n + m + 1) /\ ~(i <= n) /\ i - n = 1
      BY <2>2
    <3>. QED
      BY <1>3, <1>4, <1>5, <2>2, <3>1
  <2>. QED
    BY <2>1, <2>2
<1>7. ASSUME NEW i \in 1..(m + 1) PROVE p[n + i] = b[i] /\ q[n + i] = h[i]
  <2>1. n + i \in 1..(n + m + 1) /\ ~(n + i <= n) /\ (n + i) - n = i
    OBVIOUS
  <2>. QED
    BY <1>5, <2>1
<1>8. ASSUME NEW i \in 1..(n + m) PROVE Goes(f, u[i], p[i], q[i], p[i + 1], q[i + 1])
  <2>1. CASE i <= n
    <3>1. i \in 1..n /\ i \in 1..(n + 1) /\ i + 1 \in 1..(n + 1)
      BY <2>1
    <3>. QED
      BY <1>2, <1>3, <1>6, <3>1
  <2>2. CASE i > n
    <3>1. PICK j \in 1..m : i = n + j
      <4>1. i - n \in 1..m /\ i = n + (i - n)
        BY <2>2
      <4>. QED
        BY <4>1
    <3>2. PICK r : r = j + 1
      OBVIOUS
    <3>3. j \in 1..(m + 1) /\ r \in 1..(m + 1) /\ i + 1 = n + r
      BY <3>1, <3>2
    <3>4. p[i] = b[j] /\ q[i] = h[j] /\ p[i + 1] = b[r] /\ q[i + 1] = h[r] /\ u[i] = t[j]
      BY <1>2, <1>7, <3>1, <3>3
    <3>5. Goes(f, t[j], b[j], h[j], b[r], h[r])
      BY <1>4, <3>2
    <3>. QED
      BY <3>4, <3>5
  <2>. QED
    BY <2>1, <2>2
<1>9. p[1] = C /\ q[1] = G
  <2>1. 1 \in 1..(n + 1)
    OBVIOUS
  <2>. QED
    BY <1>3, <1>6, <2>1
<1>10. p[n + m + 1] = E /\ q[n + m + 1] = K
  <2>1. PICK r : r = m + 1
    OBVIOUS
  <2>2. r \in 1..(m + 1) /\ n + m + 1 = n + r
    BY <2>1
  <2>. QED
    BY <1>4, <1>7, <2>1, <2>2
<1>11. Routes(f, u, p, q)
  BY <1>2, <1>8 DEF Routes
<1> QED
  BY <1>1, <1>2, <1>9, <1>10, <1>11 DEF Way

(* The first mark, and the way on. *)
LEMMA WayFirst ==
    ASSUME NEW T, NEW s \in Seq(T), s # <<>>, NEW f, NEW C, NEW G, NEW D, NEW H, Way(f, s, C, G, D, H)
    PROVE  \E B, F : Goes(f, Head(s), C, G, B, F) /\ Way(f, Tail(s), B, F, D, H)
<1>0. PICK n \in Nat : n + 1 = Len(s)
  <2>1. PICK a : a = Len(s)
    OBVIOUS
  <2>2. a \in Nat /\ a # 0
    BY <2>1
  <2>3. a - 1 \in Nat /\ (a - 1) + 1 = a
    BY <2>2
  <2>. QED
    BY <2>1, <2>3
<1>1. PICK r : r = Tail(s)
  OBVIOUS
<1>2. Head(s) = s[1] /\ Len(r) = n /\ \A i \in 1..n : r[i] = s[i + 1]
  BY <1>0, <1>1
<1>3. PICK c, g : /\ c[1] = C /\ g[1] = G /\ c[n + 1 + 1] = D /\ g[n + 1 + 1] = H
                  /\ \A i \in 1..(n + 1) : Goes(f, s[i], c[i], g[i], c[i + 1], g[i + 1])
  BY <1>0 DEF Way, Routes
<1>4. PICK b, h : b = [i \in 1..(n + 1) |-> c[i + 1]] /\ h = [i \in 1..(n + 1) |-> g[i + 1]]
  OBVIOUS
<1>5. ASSUME NEW i \in 1..n PROVE Goes(f, r[i], b[i], h[i], b[i + 1], h[i + 1])
  <2>1. PICK j : j = i + 1
    OBVIOUS
  <2>2. j \in 1..(n + 1) /\ i \in 1..(n + 1)
    BY <2>1
  <2>3. Goes(f, s[j], c[j], g[j], c[j + 1], g[j + 1])
    BY <1>3, <2>2
  <2>4. b[i] = c[j] /\ h[i] = g[j] /\ b[j] = c[j + 1] /\ h[j] = g[j + 1]
    BY <1>4, <2>1, <2>2
  <2>. QED
    BY <1>2, <2>1, <2>3, <2>4
<1>6. b[1] = c[2] /\ h[1] = g[2] /\ b[n + 1] = D /\ h[n + 1] = H
  <2>1. 1 \in 1..(n + 1) /\ n + 1 \in 1..(n + 1) /\ 1 + 1 = 2
    OBVIOUS
  <2>. QED
    BY <1>3, <1>4, <2>1
<1>7. Goes(f, s[1], C, G, c[2], g[2])
  <2>1. 1 \in 1..(n + 1) /\ 1 + 1 = 2
    OBVIOUS
  <2>. QED
    BY <1>3, <2>1
<1>8. Way(f, r, c[2], g[2], D, H)
  BY <1>2, <1>5, <1>6 DEF Way, Routes
<1> QED
  BY <1>1, <1>2, <1>7, <1>8
-----------------------------------------------------------------------------
(* A set of numbers up to n has a greatest. *)
LEMMA GreatestUpTo ==
    ASSUME NEW n \in Nat, NEW S \in SUBSET (0..n), S # {}
    PROVE  \E o \in S : \A j \in S : j <= o
<1> DEFINE R == {k \in 0..n : n - k \in S}
<1>1. PICK j : j \in S
  OBVIOUS
<1>2. n - j \in R /\ R \in SUBSET Nat
  <2>1. j \in 0..n /\ n - j \in 0..n /\ n - (n - j) = j
    BY <1>1
  <2>. QED
    BY <1>1, <2>1
<1>3. PICK k \in R : \A m \in R : k <= m
  <2>. HIDE DEF R
  <2>. QED
    BY <1>2, LeastNat
<1>4. ASSUME NEW h \in S PROVE h <= n - k
  <2>1. h \in 0..n /\ n - h \in 0..n /\ n - (n - h) = h /\ k \in 0..n
    OBVIOUS
  <2>2. n - h \in R
    BY <2>1
  <2>3. k <= n - h
    BY <1>3, <2>2
  <2>. QED
    BY <2>1, <2>3
<1>5. n - k \in S
  OBVIOUS
<1> QED
  BY <1>4, <1>5

(* Where the depth is back at what it was, and was not below it since, the *)
(* regions are those there were.                                           *)
LEMMA StackBack ==
    ASSUME NEW d, Nested(d), NEW f, NEW c, NEW g, Routes(f, body, c, g),
           NEW p \in 0..Len(body), NEW q \in p..Len(body), d[q] = d[p], Keeps(d, p, q)
    PROVE  c[q + 1] = c[p + 1]
<1>0. PICK n \in Nat : n = Len(body)
  BY DEF Nested, Numbered
<1>1. /\ d \in [0..n -> Int] /\ \A i \in 1..n : d[i] = d[i - 1] + Turn(body[i].k)
      /\ \A i \in 1..n : Stacks(body[i], c[i], c[i + 1])
  BY <1>0 DEF Nested, Level, Profile, Routes, Goes
<1>2. \A k : /\ Turn(k) \in {-1, 0, 1} /\ (Turn(k) = 1 <=> k \in Opens)
             /\ (Turn(k) = -1 <=> k \notin Opens /\ k = "end")
  BY DEF Turn
<1> DEFINE Back(a, b) == d[b] = d[a] /\ Keeps(d, a, b) => c[b + 1] = c[a + 1]
           S == {b \in 0..n : \E a \in 0..b : ~Back(a, b)}
<1>3. SUFFICES ASSUME S # {} PROVE FALSE
  <2>1. p \in 0..q /\ q \in 0..n
    BY <1>0
  <2>2. Back(p, q)
    BY <1>3, <2>1
  <2>. QED
    BY <2>2
<1>4. PICK y \in S : \A r \in S : y <= r
  <2>1. S \in SUBSET Nat
    OBVIOUS
  <2>. HIDE DEF S
  <2>. QED
    BY <1>3, <2>1, LeastNat
<1>5. PICK x \in 0..y : d[y] = d[x] /\ Keeps(d, x, y) /\ c[y + 1] # c[x + 1]
  <2>1. \E x \in 0..y : ~Back(x, y)
    OBVIOUS
  <2>. QED
    BY <2>1
<1>6. ASSUME NEW b \in 0..n, b < y, NEW a \in 0..b PROVE Back(a, b)
  <2>1. b \notin S
    <3>1. ~(y <= b)
      BY <1>6
    <3>. HIDE DEF S
    <3>. QED
      BY <1>4, <3>1
  <2>. QED
    BY <1>6, <2>1
<1>7. /\ y \in 1..n /\ y - 1 \in 0..n /\ y - 1 < y /\ x \in 0..(y - 1) /\ x \in 0..n /\ y \in 0..n
      /\ (y - 1) + 1 = y /\ y - 1 \in x..y
  <2>1. x # y /\ y \in 0..n
    BY <1>5
  <2>. QED
    BY <2>1
<1>8. d[y] \in Int /\ d[y - 1] \in Int /\ d[x] \in Int /\ d[y] = d[y - 1] + Turn(body[y].k) /\ d[y - 1] >= d[x]
  <2>1. d[y - 1] >= d[x]
    BY <1>5, <1>7 DEF Keeps
  <2>. QED
    BY <1>1, <1>7, <2>1
<1> HIDE DEF S, Back
<1>9. Stacks(body[y], c[y], c[y + 1])
  BY <1>1, <1>7
<1>10. CASE Turn(body[y].k) = 0
  <2>1. c[y + 1] = c[y]
    BY <1>2, <1>9, <1>10 DEF Stacks
  <2>2. d[y - 1] = d[x]
    BY <1>5, <1>8, <1>10
  <2>3. Keeps(d, x, y - 1)
    <3>1. \A j \in x..(y - 1) : j \in x..y
      BY <1>7
    <3>. QED
      BY <1>5, <3>1 DEF Keeps
  <2>4. Back(x, y - 1)
    BY <1>6, <1>7
  <2>5. c[(y - 1) + 1] = c[x + 1]
    BY <2>2, <2>3, <2>4 DEF Back
  <2>. QED
    BY <1>5, <1>7, <2>1, <2>5
<1>11. CASE Turn(body[y].k) = 1
  BY <1>5, <1>8, <1>11
<1>12. CASE Turn(body[y].k) = -1
  <2>1. PICK k, l : c[y] = <<c[y + 1], k, l>>
    BY <1>2, <1>9, <1>12 DEF Stacks
  <2>2. d[y - 1] = d[x] + 1
    BY <1>5, <1>8, <1>12
  <2> DEFINE O == {o \in 0..(y - 1) : o >= x /\ d[o] = d[x]}
  <2>3. O \in SUBSET (0..(y - 1)) /\ O # {} /\ y - 1 \in Nat
    <3>1. x \in O
      <4>1. x \in 0..(y - 1) /\ x >= x
        BY <1>7
      <4>. QED
        BY <4>1
    <3>2. O \in SUBSET (0..(y - 1))
      OBVIOUS
    <3>3. y - 1 \in Nat
      BY <1>7
    <3>. HIDE DEF O
    <3>. QED
      BY <3>1, <3>2, <3>3
  <2>4. PICK o \in O : \A j \in O : j <= o
    <3>. HIDE DEF O
    <3>. QED
      BY <2>3, GreatestUpTo
  <2>5. o \in 0..(y - 1) /\ o >= x /\ d[o] = d[x] /\ o # y - 1
    BY <1>8, <2>2
  <2>6. PICK u : u = o + 1
    OBVIOUS
  <2>7. u \in 1..n /\ u \in 0..(y - 1) /\ u - 1 = o /\ u \in 0..n /\ o \in 0..n /\ x \in 0..o /\ o < y
    BY <1>7, <2>5, <2>6
  <2>8. ASSUME NEW j \in u..(y - 1) PROVE d[j] \in Int /\ d[j] >= d[x] + 1
    <3>1. j \in 0..(y - 1) /\ j >= x /\ j \in x..y /\ j \in 0..n /\ ~(j <= o)
      BY <1>7, <2>5, <2>6
    <3>2. j \notin O
      <4>. HIDE DEF O
      <4>. QED
        BY <2>4, <3>1
    <3>3. d[j] # d[x]
      BY <3>1, <3>2
    <3>4. d[j] >= d[x] /\ d[j] \in Int
      BY <1>1, <1>5, <3>1 DEF Keeps
    <3>. QED
      BY <1>8, <3>3, <3>4
  <2> HIDE DEF O
  <2>9. d[u] = d[x] + 1 /\ body[u].k \in Opens
    <3>1. d[u] = d[u - 1] + Turn(body[u].k) /\ d[u - 1] = d[x]
      BY <1>1, <2>5, <2>7
    <3>2. d[u] \in Int /\ d[u] >= d[x] + 1
      <4>1. u \in u..(y - 1)
        BY <2>7
      <4>. QED
        BY <2>8, <4>1
    <3>3. Turn(body[u].k) \in {-1, 0, 1}
      BY <1>2
    <3>4. Turn(body[u].k) = 1
      BY <1>8, <3>1, <3>2, <3>3
    <3>. QED
      BY <1>2, <1>8, <3>1, <3>4
  <2>10. c[u + 1] = <<c[o + 1], body[u].k, body[u].l>>
    <3>1. Stacks(body[u], c[u], c[u + 1])
      BY <1>1, <2>7
    <3>. QED
      BY <2>6, <2>9, <3>1 DEF Stacks
  <2>11. c[o + 1] = c[x + 1]
    <3>1. Keeps(d, x, o)
      <4>1. \A j \in x..o : j \in x..y
        BY <1>7, <2>7
      <4>. QED
        BY <1>5, <4>1 DEF Keeps
    <3>2. Back(x, o)
      BY <1>6, <2>7
    <3>. QED
      BY <2>5, <3>1, <3>2 DEF Back
  <2>12. c[y] = c[u + 1]
    <3>1. Keeps(d, u, y - 1)
      BY <2>8, <2>9 DEF Keeps
    <3>2. Back(u, y - 1)
      BY <1>6, <1>7, <2>7
    <3>3. c[(y - 1) + 1] = c[u + 1]
      BY <2>2, <2>9, <3>1, <3>2 DEF Back
    <3>. QED
      BY <1>7, <3>3
  <2>. QED
    BY <1>5, <2>1, <2>10, <2>11, <2>12
<1> QED
  BY <1>2, <1>10, <1>11, <1>12

(* Behind the end of a region the regions are those before it; *)
LEMMA BehindEnd ==
    ASSUME NEW d, Nested(d), NEW f, NEW c, NEW g, Routes(f, body, c, g),
           NEW p \in 1..Len(body), body[p].k \in Opens
    PROVE  /\ EndOf(p) \in 1..Len(body)
           /\ body[p].k = "block" => To(body[p].l) \in g[EndOf(p) + 1]
           /\ body[p].k = "when" => Aimed \in g[EndOf(p) + 1]
<1>0. PICK n \in Nat : n = Len(body)
  BY DEF Nested, Numbered
<1>1. PICK e : e = EndOf(p)
  OBVIOUS
<1>2. e \in (p + 1)..n /\ body[e].k = "end" /\ d[e] = d[p] - 1 /\ Keeps(d, p, e - 1)
  BY <1>0, <1>1, EndOfRegion DEF Nested
<1>3. p \in 1..n /\ e \in 1..n /\ e - 1 \in p..n /\ (e - 1) + 1 = e /\ p \in 0..n /\ e - 1 \in 0..n
  BY <1>0, <1>2
<1>4. d[e - 1] = d[p]
  <2>1. d \in [0..n -> Int] /\ d[e] = d[e - 1] + Turn(body[e].k)
    BY <1>0, <1>3 DEF Nested, Level, Profile
  <2>2. Turn(body[e].k) = -1
    BY <1>2 DEF Turn, Opens
  <2>3. d[e - 1] \in Int /\ d[p] \in Int
    BY <1>3, <2>1
  <2>. QED
    BY <1>2, <2>1, <2>2, <2>3
<1>5. c[e] = c[p + 1]
  <2>1. PICK y : y = e - 1
    OBVIOUS
  <2>2. p \in 0..Len(body) /\ y \in p..Len(body) /\ d[y] = d[p] /\ Keeps(d, p, y)
    BY <1>0, <1>2, <1>3, <1>4, <2>1
  <2>3. c[y + 1] = c[p + 1]
    BY <2>2, StackBack
  <2>. QED
    BY <1>3, <2>1, <2>3
<1>6. /\ c[p + 1] = <<c[p], body[p].k, body[p].l>>
      /\ Stacks(body[e], c[e], c[e + 1]) /\ Lands(f, body[e], c[e], c[e + 1], g[e + 1])
  BY <1>0, <1>3 DEF Routes, Goes, Stacks
<1>7. c[e + 1] = c[p]
  <2>1. PICK k, l : c[e] = <<c[e + 1], k, l>>
    BY <1>2, <1>6 DEF Stacks, Opens
  <2>. QED
    BY <1>5, <1>6, <2>1
<1> QED
  BY <1>0, <1>1, <1>2, <1>3, <1>5, <1>6, <1>7 DEF Lands

(* and behind its else an if leads to the second successor. *)
LEMMA BehindElse ==
    ASSUME NEW d, Nested(d), NEW f, NEW c, NEW g, Routes(f, body, c, g),
           NEW p \in 1..Len(body), body[p].k = "if", Parts(body, d, p)
    PROVE  /\ ElseOf(p) \in 1..Len(body) /\ Len(Successors(f, body[p].l)) = 2
           /\ To(Successors(f, body[p].l)[2]) \in g[ElseOf(p) + 1]
<1>0. PICK n \in Nat : n = Len(body)
  BY DEF Nested, Numbered
<1>1. PICK e : e = ElseOf(p)
  OBVIOUS
<1>2. body[p].k \in Opens
  BY DEF Opens
<1>3. e \in (p + 1)..n /\ body[e].k = "else" /\ d[e] = d[p] /\ Keeps(d, p, e)
  BY <1>0, <1>1, <1>2, ElseOfIf DEF Nested
<1>4. p \in 1..n /\ e \in 1..n /\ e - 1 \in p..n /\ (e - 1) + 1 = e /\ p \in 0..n /\ e - 1 \in 0..n
  BY <1>0, <1>3
<1>5. d[e - 1] = d[p] /\ Keeps(d, p, e - 1)
  <2>1. d \in [0..n -> Int] /\ d[e] = d[e - 1] + Turn(body[e].k)
    BY <1>0, <1>4 DEF Nested, Level, Profile
  <2>2. Turn(body[e].k) = 0
    BY <1>3 DEF Turn, Opens
  <2>3. d[e - 1] \in Int /\ d[p] \in Int
    BY <1>4, <2>1
  <2>4. \A j \in p..(e - 1) : j \in p..e
    BY <1>4
  <2>. QED
    BY <1>3, <2>1, <2>2, <2>3, <2>4 DEF Keeps
<1>6. c[e] = c[p + 1]
  <2>1. PICK y : y = e - 1
    OBVIOUS
  <2>2. p \in 0..Len(body) /\ y \in p..Len(body) /\ d[y] = d[p] /\ Keeps(d, p, y)
    BY <1>0, <1>4, <1>5, <2>1
  <2>3. c[y + 1] = c[p + 1]
    BY <2>2, StackBack
  <2>. QED
    BY <1>4, <2>1, <2>3
<1>7. /\ c[p + 1] = <<c[p], body[p].k, body[p].l>> /\ Lands(f, body[e], c[e], c[e + 1], g[e + 1])
  BY <1>0, <1>2, <1>4 DEF Routes, Goes, Stacks
<1>8. PICK B, x : /\ c[e] = <<B, "if", x>> /\ Len(Successors(f, x)) = 2
                  /\ To(Successors(f, x)[2]) \in g[e + 1]
  BY <1>3, <1>7 DEF Lands
<1>9. x = body[p].l
  BY <1>6, <1>7, <1>8
<1> QED
  BY <1>0, <1>1, <1>4, <1>8, <1>9
-----------------------------------------------------------------------------
(* The block that may run next, by the arm taken since the last one, and   *)
(* the goals that hold.                                                    *)
Owed(l) ==
    IF at = 0 THEN l = Entry(fn) /\ pending = 0
    ELSE pending \in DOMAIN Successors(fn, at) /\ l = Successors(fn, at)[pending]
Met(goal) ==
    \/ \E l : goal = To(l) /\ Owed(l)
    \/ goal = Aimed /\ Owed(target)
    \/ \E x : goal = Out(x) /\ at = x /\ x # 0 /\ pending = 1
    \/ goal = First /\ at = 0 /\ pending = 0
Heads(g) == \E goal \in g[pc] : Met(goal)
Guided ==
    /\ at = 0 => arm = 0
    /\ pc = 0 => at = 0 /\ pending = 0
    /\ pc # 0 => \E c, g : Routes(fn, body, c, g) /\ Heads(g)

(* Which goal it is. *)
LEMMA GoalIs ==
    /\ \A l : Met(To(l)) <=> Owed(l)
    /\ Met(Aimed) <=> Owed(target)
    /\ \A x : Met(Out(x)) <=> at = x /\ x # 0 /\ pending = 1
    /\ Met(First) <=> at = 0 /\ pending = 0
<1>1. /\ \A l, x : To(l) # Aimed /\ To(l) # Out(x) /\ To(l) # First /\ Out(x) # Aimed /\ Out(x) # First
      /\ Aimed # First
      /\ \A l, x : (To(l) = To(x) => l = x) /\ (Out(l) = Out(x) => l = x)
  BY DEF To, Aimed, Out, First
<1> QED
  BY <1>1, Zenon DEF Met

(* Where blocks, arms and targets are the same, the same goals hold. *)
LEMMA SameGoals ==
    ASSUME UNCHANGED <<fn, at, pending, target>>
    PROVE  \A goal : Met(goal)' <=> Met(goal)
BY DEF Met, Owed

(* The mark control is at serves the goal that holds. *)
LEMMA AtMark ==
    ASSUME NEW d, Sound(body, d), Arrives(d), NEW c, NEW g, Routes(fn, body, c, g), Heads(g), RunBody
    PROVE  /\ Nested(d) /\ pc \in 1..Len(body) /\ fn' = fn /\ body' = body
           /\ Lands(fn, body[pc], c[pc], c[pc + 1], g[pc + 1])
           /\ \E goal \in g[pc] : Met(goal) /\ Serves(fn, body[pc], goal, g[pc + 1])
<1>1. pc \in DOMAIN body /\ UNCHANGED <<vars, body>>
  BY DEF RunBody, EnterRegion, Choose, BranchOut, BranchBack, RunBlock, SetTarget, When, Go, Reading
<1>2. DOMAIN body = 1..Len(body) /\ Nested(d)
  BY SoundBody DEF Sound, Numbered
<1>3. Goes(fn, body[pc], c[pc], g[pc], c[pc + 1], g[pc + 1])
  BY <1>1, <1>2 DEF Routes
<1>4. fn' = fn
  BY <1>1 DEF vars
<1> QED
  BY <1>1, <1>2, <1>3, <1>4 DEF Goes, Heads

(* A region that is left leads on behind its end, one that is repeated     *)
(* from its start.                                                         *)
LEMMA OpenRegion ==
    ASSUME NEW d, Sound(body, d), Arrives(d), NEW k, Enclosing(k) # {}
    PROVE  LET o == open[Innermost(Enclosing(k))]
           IN o \in 1..Len(body) /\ body[o].k = k /\ body[o].l = L
<1>1. Rising(open) /\ Range(open) = Rounds(d, pc) /\ pc \in 1..(Len(body) + 1)
  BY DEF Arrives, Within
<1>2. Len(open) \in Nat /\ DOMAIN open = 1..Len(open)
  BY <1>1 DEF Rising
<1>3. PICK S, i : S = Enclosing(k) /\ i = Innermost(S)
  OBVIOUS
<1>4. S \in SUBSET (1..Len(open)) /\ S # {}
  BY <1>2, <1>3 DEF Enclosing
<1>5. i \in S
  BY <1>2, <1>3, <1>4, InnermostIs
<1>6. body[open[i]].k = k /\ body[open[i]].l = L /\ i \in DOMAIN open
  BY <1>3, <1>5 DEF Enclosing
<1>7. open[i] \in Rounds(d, pc)
  BY <1>1, <1>6 DEF Range
<1>8. PICK n \in Nat : n = Len(body)
  BY DEF Sound, Numbered
<1>9. open[i] \in 1..Len(body)
  BY <1>1, <1>7, <1>8 DEF Rounds
<1> QED
  BY <1>3, <1>6, <1>9

(* Steps that change no block, arm or target keep the goal, or reach one   *)
(* that holds as well.                                                     *)
LEMMA GuidedBranch ==
    ASSUME NEW d, Sound(body, d), Arrives(d), NEW c, NEW g, Routes(fn, body, c, g), Heads(g),
           EnterRegion \/ BranchOut \/ BranchBack \/ When
    PROVE  Heads(g)' /\ UNCHANGED <<at, arm, beat>>
<1>0. RunBody
  BY DEF RunBody
<1>1. /\ Nested(d) /\ pc \in 1..Len(body) /\ fn' = fn /\ body' = body
      /\ Lands(fn, body[pc], c[pc], c[pc + 1], g[pc + 1])
  BY <1>0, AtMark
<1>2. PICK goal \in g[pc] : Met(goal) /\ Serves(fn, body[pc], goal, g[pc + 1])
  BY <1>0, AtMark
<1>3. UNCHANGED <<target, pending, at, arm, beat>>
  BY DEF EnterRegion, BranchOut, BranchBack, When, Same
<1>4. \A x : Met(x)' <=> Met(x)
  BY <1>1, <1>3, SameGoals
<1>5. ASSUME NEW x \in g[pc'], Met(x) PROVE Heads(g)'
  BY <1>4, <1>5 DEF Heads
<1>6. CASE EnterRegion
  <2>1. pc' = pc + 1 /\ body[pc].k \in {"block", "loop"}
    BY <1>6 DEF EnterRegion, Go, Reading
  <2>2. goal \in g[pc + 1]
    BY <1>2, <2>1 DEF Serves
  <2>. QED
    BY <1>2, <1>3, <1>5, <2>1, <2>2
<1>7. CASE BranchOut
  <2>1. PICK o : o = open[Innermost(Enclosing("block"))]
    OBVIOUS
  <2>2. body[pc].k = "br block" /\ Enclosing("block") # {} /\ pc' = EndOf(o) + 1
    BY <1>7, <2>1 DEF BranchOut, Go, Reading
  <2>3. o \in 1..Len(body) /\ body[o].k = "block" /\ body[o].l = body[pc].l
    BY <2>1, <2>2, OpenRegion DEF L
  <2>4. body[o].k \in Opens
    BY <2>3 DEF Opens
  <2>5. To(body[pc].l) \in g[EndOf(o) + 1]
    BY <1>1, <2>3, <2>4, BehindEnd
  <2>6. goal = To(body[pc].l)
    BY <1>2, <2>2 DEF Serves
  <2>. QED
    BY <1>2, <1>3, <1>5, <2>2, <2>5, <2>6
<1>8. CASE BranchBack
  <2>1. PICK o : o = open[Innermost(Enclosing("loop"))]
    OBVIOUS
  <2>2. body[pc].k = "br loop" /\ Enclosing("loop") # {} /\ pc' = o + 1
    BY <1>8, <2>1 DEF BranchBack, Go, Reading
  <2>3. o \in 1..Len(body) /\ body[o].k = "loop" /\ body[o].l = body[pc].l
    BY <2>1, <2>2, OpenRegion DEF L
  <2>4. Again(body[pc].l) \in g[o + 1]
    BY <2>3 DEF Routes, Goes, Lands
  <2>5. goal = Again(body[pc].l)
    BY <1>2, <2>2 DEF Serves
  <2>. QED
    BY <1>2, <1>3, <1>5, <2>2, <2>4, <2>5
<1>9. CASE When
  <2>1. body[pc].k = "when" /\ pc' = (IF target = body[pc].l THEN pc + 1 ELSE EndOf(pc) + 1)
    BY <1>9 DEF When, Go, Reading, L
  <2>2. goal = Aimed /\ To(body[pc].l) \in g[pc + 1]
    BY <1>2, <2>1 DEF Serves
  <2>3. Owed(target)
    BY <1>2, <2>2, GoalIs
  <2>4. CASE target = body[pc].l
    <3>1. Met(To(body[pc].l))
      BY <2>3, <2>4, GoalIs
    <3>. QED
      BY <1>3, <1>5, <2>1, <2>2, <2>4, <3>1
  <2>5. CASE target # body[pc].l
    <3>1. body[pc].k \in Opens
      BY <2>1 DEF Opens
    <3>2. Aimed \in g[EndOf(pc) + 1]
      BY <1>1, <2>1, <3>1, BehindEnd
    <3>. QED
      BY <1>2, <1>3, <1>5, <2>1, <2>2, <2>5, <3>2
  <2>. QED
    BY <2>4, <2>5
<1> QED
  BY <1>6, <1>7, <1>8, <1>9

(* A choice takes an arm to a successor of the block that has just run, or *)
(* aims at it.                                                             *)
LEMMA GuidedChoice ==
    ASSUME IsFunction(fn), CheckCfg(fn) = {}, NEW d, Sound(body, d), Arrives(d),
           NEW c, NEW g, Routes(fn, body, c, g), Heads(g), Choose \/ SetTarget
    PROVE  Heads(g)' /\ UNCHANGED <<at, arm, beat>>
<1>0. RunBody
  BY DEF RunBody
<1>1. Nested(d) /\ pc \in 1..Len(body) /\ fn' = fn /\ body' = body
  BY <1>0, AtMark
<1>2. PICK goal \in g[pc] : Met(goal) /\ Serves(fn, body[pc], goal, g[pc + 1])
  BY <1>0, AtMark
<1>3. UNCHANGED <<at, arm, beat>>
  BY DEF Choose, SetTarget
<1>4. ASSUME NEW x \in g[pc'], Met(x)' PROVE Heads(g)'
  BY <1>4 DEF Heads
<1>5. ASSUME NEW x, Len(Successors(fn, x)) \in 1..2 PROVE DOMAIN Successors(fn, x) = 1..Len(Successors(fn, x))
  <2>1. x \in Labels(fn)
    <3>1. ASSUME x \notin Labels(fn) PROVE FALSE
      <4>1. Successors(fn, x) = <<>>
        BY <3>1 DEF Successors
      <4>2. Len(Successors(fn, x)) = 0
        BY <4>1
      <4>. QED
        BY <1>5, <4>2
    <3>. QED
      BY <3>1
  <2>2. Successors(fn, x) \in Seq(Labels(fn))
    BY <2>1, SuccessorsAreLabels
  <2>. QED
    BY <2>2
<1>6. CASE Choose
  <2>1. PICK i \in {1, 2} : /\ pc' = IF i = 1 THEN pc + 1 ELSE ElseOf(pc) + 1
                            /\ pending' = i /\ body[pc].k = "if"
    BY <1>6 DEF Choose, Go, Reading
  <2>2. PICK x, to : x = body[pc].l /\ to = Successors(fn, x)
    OBVIOUS
  <2>3. goal = Out(x) /\ Len(to) = 2 /\ To(to[1]) \in g[pc + 1]
    BY <1>2, <2>1, <2>2 DEF Serves
  <2>4. at = x /\ x # 0
    BY <1>2, <2>3, GoalIs
  <2>5. Parts(body, d, pc)
    BY <1>1, <2>1, SoundBody
  <2>6. To(to[2]) \in g[ElseOf(pc) + 1]
    BY <1>1, <2>1, <2>2, <2>5, BehindElse
  <2>7. To(to[i]) \in g[pc']
    BY <2>1, <2>3, <2>6
  <2>8. i \in DOMAIN Successors(fn, x)
    BY <1>5, <2>2, <2>3
  <2>9. Owed(to[i])'
    BY <1>1, <1>3, <2>1, <2>2, <2>4, <2>8 DEF Owed
  <2>10. Met(To(to[i]))'
    BY <2>9 DEF Met
  <2>. QED
    BY <1>3, <1>4, <2>7, <2>10
<1>7. CASE Reading("set") /\ SetTarget
  <2>1. /\ body[pc].k = "set" /\ pc' = pc + 1 /\ target' = body[pc].l
        /\ pending' = IF at = 0 THEN 0 ELSE 1
    BY <1>7 DEF SetTarget, Go, Reading, L
  <2>2. /\ Aimed \in g[pc + 1]
        /\ \/ goal = First /\ body[pc].l = Entry(fn)
           \/ \E x : goal = Out(x) /\ Len(Successors(fn, x)) = 1 /\ body[pc].l = Successors(fn, x)[1]
    BY <1>2, <2>1 DEF Serves
  <2>3. Owed(target)'
    <3>1. CASE goal = First /\ body[pc].l = Entry(fn)
      <4>1. at = 0
        BY <1>2, <3>1, GoalIs
      <4>. QED
        BY <1>1, <1>3, <2>1, <3>1, <4>1 DEF Owed
    <3>2. ASSUME NEW x, goal = Out(x), Len(Successors(fn, x)) = 1, body[pc].l = Successors(fn, x)[1]
          PROVE  Owed(target)'
      <4>1. at = x /\ x # 0
        BY <1>2, <3>2, GoalIs
      <4>2. 1 \in DOMAIN Successors(fn, x)
        BY <1>5, <3>2
      <4>. QED
        BY <1>1, <1>3, <2>1, <3>2, <4>1, <4>2 DEF Owed
    <3>. QED
      BY <2>2, <3>1, <3>2
  <2>4. Met(Aimed)'
    BY <2>3 DEF Met
  <2>. QED
    BY <1>3, <1>4, <2>1, <2>2, <2>4
<1>8. CASE Reading("select") /\ SetTarget
  <2>1. PICK i \in {1, 2} : /\ body[pc].k = "select" /\ pc' = pc + 1 /\ pending' = i
                            /\ target' = (IF i = 1 THEN body[pc].l ELSE body[pc].l2)
    BY <1>8 DEF SetTarget, Go, Reading, L
  <2>2. Aimed \in g[pc + 1]
    BY <1>2, <2>1 DEF Serves
  <2>3. PICK x : /\ goal = Out(x) /\ Len(Successors(fn, x)) = 2
                 /\ body[pc].l = Successors(fn, x)[1] /\ body[pc].l2 = Successors(fn, x)[2]
    BY <1>2, <2>1 DEF Serves
  <2>4. at = x /\ x # 0
    BY <1>2, <2>3, GoalIs
  <2>5. i \in DOMAIN Successors(fn, x) /\ target' = Successors(fn, x)[i]
    BY <1>5, <2>1, <2>3
  <2>6. Owed(target)'
    BY <1>1, <1>3, <2>1, <2>4, <2>5 DEF Owed
  <2>7. Met(Aimed)'
    BY <2>6 DEF Met
  <2>. QED
    BY <1>3, <1>4, <2>1, <2>2, <2>7
<1>9. SetTarget => Reading("set") \/ Reading("select")
  BY DEF SetTarget
<1> QED
  BY <1>6, <1>7, <1>8, <1>9

(* The graph the walk sees is the same. *)
LEMMA SameGraph ==
    /\ \A f : W!Entry(f) = Entry(f)
    /\ \A f, l : W!Successors(f, l) = Successors(f, l)
<1>1. \A f : W!Entry(f) = Entry(f)
  BY DEF W!Entry, Entry
<1>2. \A b : W!BlockSuccessors(b) = BlockSuccessors(b)
  BY DEF W!BlockSuccessors, BlockSuccessors, W!HasTerminator, HasTerminator,
         W!IsTerminator, IsTerminator, W!Terminators, Terminators
<1>3. \A f, l : W!Block(f, l) = Block(f, l)
  BY DEF W!Block, Block
<1>4. \A f : W!Labels(f) = Labels(f)
  BY DEF W!Labels, Labels
<1>5. \A f, l : W!Successors(f, l) = Successors(f, l)
  BY <1>2, <1>3, <1>4 DEF W!Successors, Successors
<1> QED
  BY <1>1, <1>5

(* A block runs: the walk takes a step. *)
LEMMA GuidedRun ==
    ASSUME IsFunction(fn), CheckCfg(fn) = {}, 0 \notin Labels(fn), NEW d, Sound(body, d), Arrives(d),
           NEW c, NEW g, Routes(fn, body, c, g), Heads(g), at = 0 => arm = 0, RunBlock
    PROVE  Heads(g)' /\ at' # 0 /\ W!Next
<1>0. RunBody
  BY DEF RunBody
<1>1. /\ Nested(d) /\ pc \in 1..Len(body) /\ fn' = fn /\ body' = body
      /\ Lands(fn, body[pc], c[pc], c[pc + 1], g[pc + 1])
  BY <1>0, AtMark
<1>2. PICK goal \in g[pc] : Met(goal) /\ Serves(fn, body[pc], goal, g[pc + 1])
  BY <1>0, AtMark
<1>3. PICK l : l = body[pc].l
  OBVIOUS
<1>4. /\ body[pc].k = "code" /\ at' = l /\ arm' = pending /\ beat' = ~beat /\ pending' = 1
      /\ pc' = pc + 1
  BY <1>3 DEF RunBlock, Go, Reading, L
<1>5. goal = To(l)
  BY <1>2, <1>3, <1>4 DEF Serves
<1>6. Owed(l)
  BY <1>2, <1>5, GoalIs
<1>7. l \in Labels(fn) /\ W!Next
  <2>1. CASE at = 0
    <3>1. l = Entry(fn) /\ pending = 0 /\ arm = 0
      BY <1>6, <2>1 DEF Owed
    <3>2. W!Enter
      BY <1>1, <1>4, <2>1, <3>1, SameGraph DEF W!Enter, W!Starting
    <3>3. l \in Labels(fn)
      BY <3>1, EntryFacts
    <3>. QED
      BY <3>2, <3>3 DEF W!Next
  <2>2. CASE at # 0
    <3>1. PICK i : i = pending
      OBVIOUS
    <3>2. i \in DOMAIN Successors(fn, at) /\ l = Successors(fn, at)[i]
      BY <1>6, <2>2, <3>1 DEF Owed
    <3>3. W!Follow
      BY <1>1, <1>4, <2>2, <3>1, <3>2, SameGraph DEF W!Follow, W!Starting
    <3>4. l \in Labels(fn)
      <4>1. at \in Labels(fn)
        <5>1. ASSUME at \notin Labels(fn) PROVE FALSE
          <6>1. DOMAIN Successors(fn, at) = {}
            BY <5>1 DEF Successors
          <6>. QED
            BY <3>2, <6>1
        <5>. QED
          BY <5>1
      <4>2. Range(Successors(fn, at)) \subseteq Labels(fn)
        BY <4>1, SuccessorsAreLabels
      <4>. QED
        BY <3>2, <4>2 DEF Range
    <3>. QED
      BY <3>3, <3>4 DEF W!Next
  <2>. QED
    BY <2>1, <2>2
<1>8. l # 0
  BY <1>7
<1>9. Heads(g)'
  <2>1. CASE Out(l) \in g[pc + 1]
    <3>1. Met(Out(l))'
      BY <1>4, <1>8 DEF Met
    <3>. QED
      BY <1>4, <2>1, <3>1 DEF Heads
  <2>2. CASE Len(Successors(fn, l)) = 1 /\ To(Successors(fn, l)[1]) \in g[pc + 1]
    <3>1. 1 \in DOMAIN Successors(fn, l)
      <4>1. Successors(fn, l) \in Seq(Labels(fn))
        BY <1>7, SuccessorsAreLabels
      <4>. QED
        BY <2>2, <4>1
    <3>2. Owed(Successors(fn, l)[1])'
      BY <1>1, <1>4, <1>8, <3>1 DEF Owed
    <3>3. PICK x : x = Successors(fn, l)[1]
      OBVIOUS
    <3>4. Owed(x)'
      BY <1>1, <1>4, <1>8, <3>1, <3>3 DEF Owed
    <3>5. Met(To(x))'
      BY <3>4 DEF Met
    <3>. QED
      BY <1>4, <2>2, <3>3, <3>5 DEF Heads
  <2>3. \/ Out(l) \in g[pc + 1]
        \/ Len(Successors(fn, l)) = 1 /\ To(Successors(fn, l)[1]) \in g[pc + 1]
    BY <1>1, <1>3, <1>4 DEF Lands
  <2>. QED
    BY <2>1, <2>2, <2>3
<1> QED
  BY <1>4, <1>7, <1>8, <1>9
-----------------------------------------------------------------------------
(* The marks of a text that has still to be written: a call stands for     *)
(* what it makes, and leads to the block it is about.                      *)
MarkFor(k) == IF k.t = "write" THEN k.ys[1] ELSE Mark("call", k.x)
Sketch(ts) == [i \in 1..Len(ts) |-> MarkFor(ts[i])]
Leading(ts, tx) ==
    \E D, H : /\ Way(fn, tx, <<>>, {To(Entry(fn))}, D, H)
              /\ Way(fn, Sketch(ts), D, H, <<>>, {})

(* What each mark needs. *)
LEMMA MarkGoes ==
    ASSUME NEW f, NEW C, NEW G, NEW H, NEW x, NEW k, NEW m, m.k = k, m.l = x
    PROVE  /\ k \in {"call", "br block"} /\ G \subseteq {To(x)} => Goes(f, m, C, G, C, H)
           /\ k = "br loop" /\ G \subseteq {Again(x)} => Goes(f, m, C, G, C, H)
           /\ k = "return" => Goes(f, m, C, G, C, H)
           /\ k = "code" /\ G \subseteq {To(x)} /\ Out(x) \in H => Goes(f, m, C, G, C, H)
           /\ k = "code" /\ G \subseteq {To(x)} /\ Len(Successors(f, x)) = 1
              /\ To(Successors(f, x)[1]) \in H => Goes(f, m, C, G, C, H)
           /\ k = "if" /\ G \subseteq {Out(x)} /\ Len(Successors(f, x)) = 2
              /\ To(Successors(f, x)[1]) \in H => Goes(f, m, C, G, <<C, k, x>>, H)
           /\ k = "block" /\ G \subseteq H => Goes(f, m, C, G, <<C, k, x>>, H)
           /\ k = "loop" /\ G \subseteq H /\ Again(x) \in H => Goes(f, m, C, G, <<C, k, x>>, H)
           /\ k = "when" /\ G \subseteq {Aimed} /\ To(x) \in H => Goes(f, m, C, G, <<C, k, x>>, H)
           /\ k = "set" /\ G \subseteq {First} /\ x = Entry(f) /\ Aimed \in H => Goes(f, m, C, G, C, H)
<1>1. "call" \notin Opens /\ "br block" \notin Opens /\ "br loop" \notin Opens /\ "return" \notin Opens
      /\ "code" \notin Opens /\ "set" \notin Opens
      /\ "if" \in Opens /\ "block" \in Opens /\ "loop" \in Opens /\ "when" \in Opens
  BY DEF Opens
<1>2. CASE k \in {"call", "br block"}
  BY <1>1, <1>2 DEF Goes, Stacks, Lands, Serves
<1>3. CASE k = "br loop"
  BY <1>1, <1>3 DEF Goes, Stacks, Lands, Serves
<1>4. CASE k = "return"
  BY <1>1, <1>4 DEF Goes, Stacks, Lands, Serves
<1>5. CASE k = "code"
  BY <1>1, <1>5 DEF Goes, Stacks, Lands, Serves
<1>6. CASE k = "if"
  BY <1>1, <1>6 DEF Goes, Stacks, Lands, Serves
<1>7. CASE k = "block"
  BY <1>1, <1>7 DEF Goes, Stacks, Lands, Serves
<1>8. CASE k = "loop"
  BY <1>1, <1>8 DEF Goes, Stacks, Lands, Serves
<1>9. CASE k = "when"
  BY <1>1, <1>9 DEF Goes, Stacks, Lands, Serves
<1>10. CASE k = "set"
  BY <1>1, <1>10 DEF Goes, Stacks, Lands, Serves
<1> QED
  BY <1>2, <1>3, <1>4, <1>5, <1>6, <1>7, <1>8, <1>9, <1>10

(* What the end of a region needs, and the else of an if. *)
LEMMA CloseGoes ==
    ASSUME NEW f, NEW C, NEW k, NEW l, NEW D, D = <<C, k, l>>, NEW m, NEW H
    PROVE  /\ m.k = "end" /\ (k = "block" => To(l) \in H) /\ (k = "when" => Aimed \in H)
              => Goes(f, m, D, {}, C, H)
           /\ m.k = "else" /\ k = "if" /\ Len(Successors(f, l)) = 2 /\ To(Successors(f, l)[2]) \in H
              => Goes(f, m, D, {}, D, H)
<1>1. "end" \notin Opens /\ "else" \notin Opens
  BY DEF Opens
<1>2. \A a, b : D = <<C, a, b>> => a = k /\ b = l
  OBVIOUS
<1>3. CASE m.k = "end"
  <2>1. Stacks(m, D, C)
    BY <1>1, <1>3 DEF Stacks
  <2>2. (k = "block" => To(l) \in H) /\ (k = "when" => Aimed \in H) => Lands(f, m, D, C, H)
    BY <1>2, <1>3 DEF Lands
  <2>. QED
    BY <1>3, <2>1, <2>2 DEF Goes
<1>4. CASE m.k = "else"
  <2>1. Stacks(m, D, D)
    BY <1>1, <1>4 DEF Stacks
  <2>2. k = "if" /\ Len(Successors(f, l)) = 2 /\ To(Successors(f, l)[2]) \in H => Lands(f, m, D, D, H)
    BY <1>4 DEF Lands
  <2>. QED
    BY <1>4, <2>1, <2>2 DEF Goes
<1> QED
  BY <1>3, <1>4

(* The marks for calls. *)
LEMMA MarksFor ==
    /\ \A c, x : MarkFor(Write(Mark(c, x))).k = c /\ MarkFor(Write(Mark(c, x))).l = x
    /\ \A x : MarkFor(Tree(x)).k = "call" /\ MarkFor(Tree(x)).l = x
    /\ \A x, ys : MarkFor(Task("within", x, ys)).k = "call" /\ MarkFor(Task("within", x, ys)).l = x
    /\ \A u, x : MarkFor(Branch(u, x)).k = "call" /\ MarkFor(Branch(u, x)).l = x
<1>1. ASSUME NEW c, NEW x PROVE MarkFor(Write(Mark(c, x))).k = c /\ MarkFor(Write(Mark(c, x))).l = x
  <2>1. PICK m, k : m = Mark(c, x) /\ k = Write(m)
    OBVIOUS
  <2>2. k.t = "write" /\ k.ys[1] = m /\ m.k = c /\ m.l = x
    BY <2>1 DEF Write, Task, Mark
  <2>. QED
    BY <2>1, <2>2 DEF MarkFor
<1>2. \A x, ys : MarkFor(Task("within", x, ys)).k = "call" /\ MarkFor(Task("within", x, ys)).l = x
  BY DEF MarkFor, Task, Mark
<1>3. \A x : MarkFor(Tree(x)).k = "call" /\ MarkFor(Tree(x)).l = x
  BY DEF MarkFor, Tree, Task, Mark
<1>4. \A u, x : MarkFor(Branch(u, x)).k = "call" /\ MarkFor(Branch(u, x)).l = x
  BY DEF MarkFor, Branch, Task, Mark
<1> QED
  BY <1>1, <1>2, <1>3, <1>4

(* A sketch goes call by call. *)
LEMMA SketchParts ==
    ASSUME NEW T, NEW ts \in Seq(T)
    PROVE  /\ Sketch(ts) \in Seq({MarkFor(k) : k \in T})
           /\ Len(Sketch(ts)) = Len(ts) /\ \A i \in 1..Len(ts) : Sketch(ts)[i] = MarkFor(ts[i])
<1>a. PICK n \in Nat : n = Len(ts)
  OBVIOUS
<1>b. PICK s : s = Sketch(ts)
  OBVIOUS
<1>1. n = Len(ts) /\ s = Sketch(ts)
  BY <1>a, <1>b
<1>2. s = [i \in 1..n |-> MarkFor(ts[i])]
  BY <1>1 DEF Sketch
<1>3. \A i \in 1..n : ts[i] \in T
  BY <1>1
<1>4. s \in [1..n -> {MarkFor(k) : k \in T}]
  BY <1>2, <1>3
<1>5. s \in Seq({MarkFor(k) : k \in T}) /\ Len(s) = n
  BY <1>2, <1>4
<1> QED
  BY <1>1, <1>2, <1>5

(* It is joined as the calls are, *)
LEMMA SketchJoined ==
    ASSUME NEW T, NEW a \in Seq(T), NEW b \in Seq(T)
    PROVE  Sketch(a \o b) = Sketch(a) \o Sketch(b)
<1>a. PICK n \in Nat, m \in Nat : n = Len(a) /\ m = Len(b)
  OBVIOUS
<1>b. PICK c, p, q, r, s : c = a \o b /\ p = Sketch(a) /\ q = Sketch(b) /\ r = Sketch(c) /\ s = p \o q
  OBVIOUS
<1>1. /\ n = Len(a) /\ m = Len(b) /\ c = a \o b
      /\ p = Sketch(a) /\ q = Sketch(b) /\ r = Sketch(c) /\ s = p \o q
  BY <1>a, <1>b
<1>2. PICK M : M = {MarkFor(k) : k \in T}
  OBVIOUS
<1>3. /\ p \in Seq(M) /\ q \in Seq(M) /\ Len(p) = n /\ Len(q) = m
      /\ (\A i \in 1..n : p[i] = MarkFor(a[i])) /\ \A i \in 1..m : q[i] = MarkFor(b[i])
  BY <1>1, <1>2, SketchParts
<1>4. c \in Seq(T) /\ Len(c) = n + m /\ (\A i \in 1..n : c[i] = a[i]) /\ \A i \in 1..m : c[n + i] = b[i]
  BY <1>1
<1>5. r \in Seq(M) /\ Len(r) = n + m /\ \A i \in 1..(n + m) : r[i] = MarkFor(c[i])
  BY <1>1, <1>2, <1>4, SketchParts
<1>6. s \in Seq(M) /\ Len(s) = n + m /\ (\A i \in 1..n : s[i] = p[i]) /\ \A i \in 1..m : s[n + i] = q[i]
  BY <1>1, <1>3
<1>7. ASSUME NEW i \in 1..(n + m) PROVE r[i] = s[i]
  <2>1. CASE i \in 1..n
    BY <1>3, <1>4, <1>5, <1>6, <2>1
  <2>2. CASE i \notin 1..n
    <3>1. PICK j \in 1..m : i = n + j
      <4>1. i - n \in 1..m /\ i = n + (i - n)
        BY <2>2
      <4>. QED
        BY <4>1
    <3>2. s[n + j] = q[j] /\ c[n + j] = b[j] /\ q[j] = MarkFor(b[j])
      BY <1>3, <1>4, <1>6
    <3>3. r[n + j] = MarkFor(c[n + j])
      BY <1>5, <3>1
    <3>. QED
      BY <3>1, <3>2, <3>3
  <2>. QED
    BY <2>1, <2>2
<1>8. r = s
  BY <1>5, <1>6, <1>7
<1> QED
  BY <1>1, <1>8

(* and begins with the next call. *)
LEMMA SketchFirst ==
    ASSUME NEW T, NEW ts \in Seq(T), ts # <<>>
    PROVE  /\ Sketch(ts) # <<>> /\ Head(Sketch(ts)) = MarkFor(Head(ts)) /\ Tail(Sketch(ts)) = Sketch(Tail(ts))
<1>1. PICK n \in Nat : n + 1 = Len(ts)
  <2>1. PICK a : a = Len(ts)
    OBVIOUS
  <2>2. a \in Nat /\ a # 0
    BY <2>1
  <2>3. a - 1 \in Nat /\ (a - 1) + 1 = a
    BY <2>2
  <2>. QED
    BY <2>1, <2>3
<1>2. PICK M, s, r, p, q : /\ M = {MarkFor(k) : k \in T} /\ s = Sketch(ts) /\ r = Tail(ts)
                           /\ p = Sketch(r) /\ q = Tail(s)
  OBVIOUS
<1>3. s \in Seq(M) /\ Len(s) = n + 1 /\ \A i \in 1..(n + 1) : s[i] = MarkFor(ts[i])
  BY <1>1, <1>2, SketchParts
<1>4. r \in Seq(T) /\ Len(r) = n /\ \A i \in 1..n : r[i] = ts[i + 1]
  BY <1>1, <1>2
<1>5. p \in Seq(M) /\ Len(p) = n /\ \A i \in 1..n : p[i] = MarkFor(r[i])
  BY <1>2, <1>4, SketchParts
<1>6. s # <<>> /\ Head(s) = s[1]
  BY <1>3
<1>7. q \in Seq(M) /\ Len(q) = n /\ \A i \in 1..n : q[i] = s[i + 1]
  BY <1>2, <1>3, <1>6
<1>8. ASSUME NEW i \in 1..n PROVE p[i] = q[i]
  <2>1. i + 1 \in 1..(n + 1)
    OBVIOUS
  <2>. QED
    BY <1>3, <1>4, <1>5, <1>7, <2>1
<1>9. p = q
  BY <1>5, <1>7, <1>8
<1>10. Head(s) = MarkFor(Head(ts))
  <2>1. Head(ts) = ts[1] /\ 1 \in 1..(n + 1)
    BY <1>1
  <2>. QED
    BY <1>3, <1>6, <2>1
<1> QED
  BY <1>2, <1>6, <1>9, <1>10

(* A call is replaced by calls that lead to its block and then on, from    *)
(* wherever and to wherever.                                               *)
LEMMA LeadingStep ==
    ASSUME NEW T, tasks \in Seq(T), tasks # <<>>, Leading(tasks, text), Head(tasks).t # "write",
           NEW new \in Seq(T),
           \A C, G, H : G \subseteq {To(Head(tasks).x)} => Way(fn, Sketch(new), C, G, C, H)
    PROVE  Leading(new \o Tail(tasks), text)
<1>1. PICK D, H : Way(fn, text, <<>>, {To(Entry(fn))}, D, H) /\ Way(fn, Sketch(tasks), D, H, <<>>, {})
  BY DEF Leading
<1>2. PICK M, s, r, x, m : /\ M = {MarkFor(k) : k \in T} /\ s = Sketch(tasks) /\ r = Tail(tasks)
                           /\ x = Head(tasks).x /\ m = MarkFor(Head(tasks))
  OBVIOUS
<1>3. s \in Seq(M) /\ s # <<>> /\ Head(s) = m /\ Tail(s) = Sketch(r) /\ r \in Seq(T)
  <2>1. s \in Seq(M)
    BY <1>2, SketchParts
  <2>2. Sketch(tasks) # <<>> /\ Head(Sketch(tasks)) = MarkFor(Head(tasks))
        /\ Tail(Sketch(tasks)) = Sketch(Tail(tasks))
    BY SketchFirst
  <2>. QED
    BY <1>2, <2>1, <2>2
<1>4. PICK B, F : Goes(fn, m, D, H, B, F) /\ Way(fn, Sketch(r), B, F, <<>>, {})
  <2>1. \E B, F : Goes(fn, Head(s), D, H, B, F) /\ Way(fn, Tail(s), B, F, <<>>, {})
    BY <1>1, <1>2, <1>3, WayFirst
  <2>. QED
    BY <1>3, <2>1
<1>5. m.k = "call" /\ m.l = x
  BY <1>2 DEF MarkFor, Mark
<1>6. B = D /\ H \subseteq {To(x)}
  BY <1>4, <1>5 DEF Goes, Stacks, Serves, Opens
<1>7. Way(fn, Sketch(new), D, H, D, F)
  BY <1>2, <1>6
<1>8. PICK p, q : p = Sketch(new) /\ q = Sketch(r)
  OBVIOUS
<1>9. p \in Seq(M) /\ q \in Seq(M)
  BY <1>2, <1>3, <1>8, SketchParts
<1>10. Way(fn, p \o q, D, H, <<>>, {})
  <2>1. Way(fn, p, D, H, D, F) /\ Way(fn, q, D, F, <<>>, {})
    BY <1>4, <1>6, <1>7, <1>8
  <2>. QED
    BY <1>9, <2>1, WayJoined
<1>11. Sketch(new \o r) = p \o q
  BY <1>3, <1>8, SketchJoined
<1> QED
  BY <1>1, <1>2, <1>10, <1>11 DEF Leading
-----------------------------------------------------------------------------
(* What two lists make together. *)
LEMMA Beside ==
    ASSUME NEW T, NEW p \in Seq(T), NEW q \in Seq(T), NEW n \in Nat, NEW m \in Nat, NEW r,
           n = Len(p) /\ m = Len(q), r = p \o q
    PROVE  /\ r \in Seq(T) /\ Len(r) = n + m
           /\ \A i \in 1..n : r[i] = p[i]
           /\ \A i \in 1..m : r[n + i] = q[i]
<1>1. r \in Seq(T)
  OBVIOUS
<1>2. Len(r) = n + m /\ (\A i \in 1..n : r[i] = p[i]) /\ \A i \in 1..m : r[n + i] = q[i]
  OBVIOUS
<1> QED
  BY <1>1, <1>2

(* do_tree. *)
LEMMA LDoTree ==
    ASSUME CInv, phase = "emit", Emission(Links, tasks, text), Leading(tasks, text), DoTree,
           0 \notin Range(rpo)
    PROVE  Leading(tasks', text')
<1>0. PICK k, x, ys, w, T : /\ k = Head(tasks) /\ x = k.x /\ ys = MergeChildren(x) /\ w = Task("within", x, ys)
                            /\ T = Calls(Range(rpo))
  OBVIOUS
<1>1. tasks # <<>> /\ k.t = "tree" /\ x = X /\ tasks \in Seq(T) /\ text' = text
  BY <1>0 DEF DoTree, Doing, X, Replace, Emission, Listed
<1>2. k \in T
  BY <1>0, <1>1, FirstCall
<1>3. x \in Range(rpo) /\ x # 0
  BY <1>0, <1>1, <1>2, CallIs
<1>4. w \in T
  BY <1>0, <1>3, Children, AreCalls
<1>5. PICK new : /\ new = IF x \in headers THEN <<Write(Mark("loop", x))>> \o <<w>> \o <<Write(Mark("end", x))>>
                          ELSE <<w>>
                 /\ tasks' = new \o Tail(tasks)
  BY <1>0, <1>1 DEF DoTree, Replace
<1>6. MarkFor(w).k = "call" /\ MarkFor(w).l = x
  BY <1>0, MarksFor
<1>7. new \in Seq(T) /\ \A C, G, H : G \subseteq {To(x)} => Way(fn, Sketch(new), C, G, C, H)
  <2>1. CASE x \notin headers
    <3>1. new = <<w>> /\ new \in Seq(T) /\ Len(new) = 1 /\ new[1] = w
      BY <1>4, <1>5, <2>1
    <3>2. PICK s : s = Sketch(new)
      OBVIOUS
    <3>3. Len(s) = 1 /\ s[1] = MarkFor(w)
      <4>1. 1 \in 1..1
        OBVIOUS
      <4>. QED
        BY <3>1, <3>2, <4>1, SketchParts
    <3>4. ASSUME NEW C, NEW G, NEW H, G \subseteq {To(x)} PROVE Way(fn, s, C, G, C, H)
      <4>1. Goes(fn, s[1], C, G, C, H)
        BY <1>6, <3>3, <3>4, MarkGoes
      <4>2. PICK c, g : c = <<C, C>> /\ g = <<G, H>>
        OBVIOUS
      <4>3. c[1] = C /\ c[2] = C /\ g[1] = G /\ g[2] = H
        BY <4>2
      <4>4. 1..1 = {1} /\ 1 + 1 = 2
        OBVIOUS
      <4>5. Routes(fn, s, c, g)
        BY <3>3, <4>1, <4>3, <4>4 DEF Routes
      <4>6. c[Len(s) + 1] = C /\ g[Len(s) + 1] = H
        BY <3>3, <4>3, <4>4
      <4>. QED
        BY <4>3, <4>5, <4>6 DEF Way
    <3>. QED
      BY <3>1, <3>2, <3>4
  <2>2. CASE x \in headers
    <3>1. PICK a, e : a = Write(Mark("loop", x)) /\ e = Write(Mark("end", x))
      OBVIOUS
    <3>2. a \in T /\ e \in T
      <4>1. "loop" \in Kinds /\ "end" \in Kinds
        BY DEF Kinds
      <4>. QED
        BY <1>0, <1>3, <3>1, <4>1, AreCalls
    <3>3. new \in Seq(T) /\ Len(new) = 3 /\ new[1] = a /\ new[2] = w /\ new[3] = e
      <4>1. PICK p : p = <<a>> \o <<w>>
        OBVIOUS
      <4>2. a \in T /\ w \in T /\ e \in T
        BY <1>4, <3>2
      <4>3. p \in Seq(T) /\ Len(p) = 2 /\ p[1] = a /\ p[2] = w
        BY <4>1, <4>2
      <4>4. PICK q : q = <<e>>
        OBVIOUS
      <4>5. q \in Seq(T) /\ Len(q) = 1 /\ q[1] = e
        BY <4>2, <4>4
      <4>6. new = p \o q
        BY <1>5, <2>2, <3>1, <4>1, <4>4
      <4>7. PICK n, m : n = 2 /\ m = 1
        OBVIOUS
      <4>8. n \in Nat /\ m \in Nat /\ n = Len(p) /\ m = Len(q)
        BY <4>3, <4>5, <4>7
      <4>9. /\ new \in Seq(T) /\ Len(new) = n + m
            /\ (\A i \in 1..n : new[i] = p[i]) /\ \A i \in 1..m : new[n + i] = q[i]
        <5>1. p \in Seq(T) /\ q \in Seq(T)
          BY <4>3, <4>5
        <5>. QED
          BY <4>6, <4>8, <5>1, Beside
      <4>10. 1 \in 1..n /\ 2 \in 1..n /\ 1 \in 1..m /\ n + 1 = 3 /\ n + m = 3
        BY <4>7
      <4>. QED
        BY <4>3, <4>5, <4>9, <4>10
    <3>4. PICK s : s = Sketch(new)
      OBVIOUS
    <3>5. Len(s) = 3 /\ s[1] = MarkFor(a) /\ s[2] = MarkFor(w) /\ s[3] = MarkFor(e)
      <4>1. 1 \in 1..3 /\ 2 \in 1..3 /\ 3 \in 1..3
        OBVIOUS
      <4>. QED
        BY <3>3, <3>4, <4>1, SketchParts
    <3>6. s[1].k = "loop" /\ s[1].l = x /\ s[2].k = "call" /\ s[2].l = x /\ s[3].k = "end"
      <4>1. MarkFor(a).k = "loop" /\ MarkFor(a).l = x /\ MarkFor(e).k = "end"
        BY <3>1, MarksFor
      <4>. QED
        BY <1>6, <3>5, <4>1
    <3>7. ASSUME NEW C, NEW G, NEW H, G \subseteq {To(x)} PROVE Way(fn, s, C, G, C, H)
      <4>1. PICK D, F : D = <<C, "loop", x>> /\ F = {To(x)}
        OBVIOUS
      <4>2. Goes(fn, s[1], C, G, D, F)
        <5>1. Again(x) \in F /\ G \subseteq F
          BY <1>3, <3>7, <4>1 DEF Again, DispatchLoop
        <5>2. Goes(fn, s[1], C, G, <<C, "loop", x>>, F)
          BY <3>6, <5>1, MarkGoes
        <5>. QED
          BY <4>1, <5>2
      <4>3. Goes(fn, s[2], D, F, D, {})
        BY <3>6, <4>1, MarkGoes
      <4>4. Goes(fn, s[3], D, {}, C, H)
        BY <3>6, <4>1, CloseGoes
      <4>5. PICK c, g : c = <<C, D, D, C>> /\ g = <<G, F, {}, H>>
        OBVIOUS
      <4>6. /\ c[1] = C /\ c[2] = D /\ c[3] = D /\ c[4] = C
            /\ g[1] = G /\ g[2] = F /\ g[3] = {} /\ g[4] = H
        BY <4>5
      <4>7. 1..3 = {1, 2, 3} /\ 1 + 1 = 2 /\ 2 + 1 = 3 /\ 3 + 1 = 4
        OBVIOUS
      <4>8. Routes(fn, s, c, g)
        BY <3>5, <4>2, <4>3, <4>4, <4>6, <4>7 DEF Routes
      <4>9. c[Len(s) + 1] = C /\ g[Len(s) + 1] = H
        BY <3>5, <4>6, <4>7
      <4>. QED
        BY <4>6, <4>8, <4>9 DEF Way
    <3>. QED
      BY <3>3, <3>4, <3>7
  <2>. QED
    BY <2>1, <2>2
<1>8. Leading(new \o Tail(tasks), text)
  <2>1. Head(tasks).t # "write"
    BY <1>0, <1>1
  <2>. QED
    BY <1>0, <1>1, <1>7, <2>1, LeadingStep
<1> QED
  BY <1>1, <1>5, <1>8

(* node_within: behind the block of a label comes its tree. *)
LEMMA LNodeWithin ==
    ASSUME CInv, phase = "emit", Emission(Links, tasks, text), Leading(tasks, text), NodeWithin
    PROVE  Leading(tasks', text')
<1>0. PICK k, x, ys, y, r, T : /\ k = Head(tasks) /\ x = k.x /\ ys = k.ys /\ y = Head(ys) /\ r = Tail(ys)
                               /\ T = Calls(Range(rpo))
  OBVIOUS
<1>1. tasks # <<>> /\ k.t = "within" /\ x = X /\ tasks \in Seq(T) /\ ys # <<>> /\ text' = text
  BY <1>0 DEF NodeWithin, Doing, X, Replace, Emission, Listed
<1>2. k \in T
  BY <1>0, <1>1, FirstCall
<1>3. x \in Range(rpo) /\ ys \in Seq(Range(rpo))
  BY <1>0, <1>1, <1>2, CallIs
<1>4. y \in Range(rpo) /\ r \in Seq(Range(rpo))
  <2>1. PICK S : S = Range(rpo)
    OBVIOUS
  <2>2. y \in S /\ r \in Seq(S)
    BY <1>0, <1>1, <1>3, <2>1
  <2>. QED
    BY <2>1, <2>2
<1>5. PICK a, w, e, b : /\ a = Write(Mark("block", y)) /\ w = Task("within", x, r)
                        /\ e = Write(Mark("end", y)) /\ b = Tree(y)
  OBVIOUS
<1>6. a \in T /\ w \in T /\ e \in T /\ b \in T
  <2>1. "block" \in Kinds /\ "end" \in Kinds
    BY DEF Kinds
  <2>. QED
    BY <1>0, <1>3, <1>4, <1>5, <2>1, AreCalls
<1>7. PICK new : new = <<a, w, e, b>> /\ tasks' = new \o Tail(tasks)
  BY <1>0, <1>1, <1>5 DEF NodeWithin, Replace
<1>8. new \in Seq(T) /\ Len(new) = 4 /\ new[1] = a /\ new[2] = w /\ new[3] = e /\ new[4] = b
  BY <1>6, <1>7
<1>9. PICK s : s = Sketch(new)
  OBVIOUS
<1>10. Len(s) = 4 /\ s[1] = MarkFor(a) /\ s[2] = MarkFor(w) /\ s[3] = MarkFor(e) /\ s[4] = MarkFor(b)
  <2>1. 1 \in 1..4 /\ 2 \in 1..4 /\ 3 \in 1..4 /\ 4 \in 1..4
    OBVIOUS
  <2>. QED
    BY <1>8, <1>9, <2>1, SketchParts
<1>11. /\ s[1].k = "block" /\ s[1].l = y /\ s[2].k = "call" /\ s[2].l = x /\ s[3].k = "end"
       /\ s[4].k = "call" /\ s[4].l = y
  <2>1. /\ MarkFor(a).k = "block" /\ MarkFor(a).l = y /\ MarkFor(e).k = "end"
        /\ MarkFor(w).k = "call" /\ MarkFor(w).l = x /\ MarkFor(b).k = "call" /\ MarkFor(b).l = y
    BY <1>5, MarksFor
  <2>. QED
    BY <1>10, <2>1
<1>12. ASSUME NEW C, NEW G, NEW H, G \subseteq {To(x)} PROVE Way(fn, s, C, G, C, H)
  <2>1. PICK D, F, E : D = <<C, "block", y>> /\ F = {To(x)} /\ E = {To(y)}
    OBVIOUS
  <2>2. Goes(fn, s[1], C, G, D, F)
    <3>1. Goes(fn, s[1], C, G, <<C, "block", y>>, F)
      BY <1>11, <1>12, <2>1, MarkGoes
    <3>. QED
      BY <2>1, <3>1
  <2>3. Goes(fn, s[2], D, F, D, {})
    BY <1>11, <2>1, MarkGoes
  <2>4. Goes(fn, s[3], D, {}, C, E)
    BY <1>11, <2>1, CloseGoes
  <2>5. Goes(fn, s[4], C, E, C, H)
    BY <1>11, <2>1, MarkGoes
  <2>6. PICK c, g : c = <<C, D, D, C, C>> /\ g = <<G, F, {}, E, H>>
    OBVIOUS
  <2>7. /\ c[1] = C /\ c[2] = D /\ c[3] = D /\ c[4] = C /\ c[5] = C
        /\ g[1] = G /\ g[2] = F /\ g[3] = {} /\ g[4] = E /\ g[5] = H
    BY <2>6
  <2>8. 1..4 = {1, 2, 3, 4} /\ 1 + 1 = 2 /\ 2 + 1 = 3 /\ 3 + 1 = 4 /\ 4 + 1 = 5
    OBVIOUS
  <2>9. Routes(fn, s, c, g)
    BY <1>10, <2>2, <2>3, <2>4, <2>5, <2>7, <2>8 DEF Routes
  <2>10. c[Len(s) + 1] = C /\ g[Len(s) + 1] = H
    BY <1>10, <2>7, <2>8
  <2>. QED
    BY <2>7, <2>9, <2>10 DEF Way
<1>13. Leading(new \o Tail(tasks), text)
  <2>1. Head(tasks).t # "write"
    BY <1>0, <1>1
  <2>2. \A C, G, H : G \subseteq {To(Head(tasks).x)} => Way(fn, Sketch(new), C, G, C, H)
    BY <1>0, <1>9, <1>12
  <2>. QED
    BY <1>0, <1>1, <1>8, <2>1, <2>2, LeadingStep
<1> QED
  BY <1>1, <1>7, <1>13

(* A block is followed by what its terminator leads to. *)
LEMMA LEmitBlock ==
    ASSUME CInv, phase = "emit", Emission(Links, tasks, text), Leading(tasks, text), EmitBlock
    PROVE  Leading(tasks', text')
<1>0. PICK k, x, to, T : k = Head(tasks) /\ x = k.x /\ to = Successors(fn, x) /\ T = Calls(Range(rpo))
  OBVIOUS
<1>1. tasks # <<>> /\ k.t = "within" /\ x = X /\ tasks \in Seq(T) /\ text' = text
  BY <1>0 DEF EmitBlock, Doing, X, Replace, Emission, Listed
<1>2. k \in T
  BY <1>0, <1>1, FirstCall
<1>3. x \in Range(rpo)
  BY <1>0, <1>1, <1>2, CallIs
<1>4. Len(to) \in 0..2 /\ \A i \in 1..Len(to) : to[i] \in Range(rpo)
  <2>1. /\ IsFunction(fn) /\ CheckCfg(fn) = {} /\ x \in Labels(fn)
        /\ Range(to) \subseteq Range(rpo)
    BY <1>0, <1>3, SearchedLater, SearchedFacts DEF CInv, Later
  <2>2. to \in Seq(Labels(fn)) /\ Len(to) \in 0..2
    BY <1>0, <2>1, SuccessorsAreLabels, AtMostTwoSuccessors
  <2>3. \A i \in 1..Len(to) : to[i] \in Range(to)
    BY <2>2 DEF Range
  <2>. QED
    BY <2>1, <2>2, <2>3
<1>5. PICK w : w = Write(Mark("code", x))
  OBVIOUS
<1>6. /\ w \in T /\ MarkFor(w).k = "code" /\ MarkFor(w).l = x
  <2>1. "code" \in Kinds
    BY DEF Kinds
  <2>. QED
    BY <1>0, <1>3, <1>5, <2>1, AreCalls, MarksFor
<1>7. PICK new : /\ tasks' = new \o Tail(tasks)
                 /\ new = <<w>> \o CASE Len(to) = 0 -> <<Write(Mark("return", x))>>
                                     [] Len(to) = 1 -> <<Branch(x, to[1])>>
                                     [] Len(to) = 2 -> <<Write(Mark("if", x)), Branch(x, to[1]),
                                                         Write(Mark("else", x)), Branch(x, to[2]),
                                                         Write(Mark("end", x))>>
  BY <1>0, <1>1, <1>5 DEF EmitBlock, Replace
<1>8. PICK s : s = Sketch(new)
  OBVIOUS
<1>9. ASSUME NEW a \in T, new = <<w>> \o <<a>>, NEW C, NEW G, NEW H, NEW F,
             Goes(fn, MarkFor(w), C, G, C, F), Goes(fn, MarkFor(a), C, F, C, H)
      PROVE  Way(fn, s, C, G, C, H)
  <2>1. new \in Seq(T) /\ Len(new) = 2 /\ new[1] = w /\ new[2] = a
    BY <1>6, <1>9
  <2>2. Len(s) = 2 /\ s[1] = MarkFor(w) /\ s[2] = MarkFor(a)
    <3>1. 1 \in 1..2 /\ 2 \in 1..2
      OBVIOUS
    <3>. QED
      BY <1>8, <2>1, <3>1, SketchParts
  <2>3. PICK c, g : c = <<C, C, C>> /\ g = <<G, F, H>>
    OBVIOUS
  <2>4. c[1] = C /\ c[2] = C /\ c[3] = C /\ g[1] = G /\ g[2] = F /\ g[3] = H
    BY <2>3
  <2>5. 1..2 = {1, 2} /\ 1 + 1 = 2 /\ 2 + 1 = 3
    OBVIOUS
  <2>6. Routes(fn, s, c, g)
    BY <1>9, <2>2, <2>4, <2>5 DEF Routes
  <2>7. c[Len(s) + 1] = C /\ g[Len(s) + 1] = H
    BY <2>2, <2>4, <2>5
  <2>. QED
    BY <2>4, <2>6, <2>7 DEF Way
<1>10. ASSUME Len(to) = 0
       PROVE  new \in Seq(T) /\ \A C, G, H : G \subseteq {To(x)} => Way(fn, s, C, G, C, H)
  <2>1. PICK a : a = Write(Mark("return", x))
    OBVIOUS
  <2>2. a \in T /\ MarkFor(a).k = "return"
    <3>1. "return" \in Kinds
      BY DEF Kinds
    <3>. QED
      BY <1>0, <1>3, <2>1, <3>1, AreCalls, MarksFor
  <2>3. new = <<w>> \o <<a>>
    BY <1>7, <1>10, <2>1
  <2>4. ASSUME NEW C, NEW G, NEW H, G \subseteq {To(x)} PROVE Way(fn, s, C, G, C, H)
    <3>1. PICK F : F = {Out(x)}
      OBVIOUS
    <3>2. Goes(fn, MarkFor(w), C, G, C, F)
      <4>1. Out(x) \in F
        BY <3>1
      <4>. QED
        BY <1>6, <2>4, <4>1, MarkGoes
    <3>3. Goes(fn, MarkFor(a), C, F, C, H)
      BY <2>2, MarkGoes
    <3>. QED
      BY <1>9, <2>2, <2>3, <3>2, <3>3
  <2>5. new \in Seq(T)
    BY <1>6, <2>2, <2>3
  <2>. QED
    BY <2>4, <2>5
<1>11. ASSUME Len(to) = 1
       PROVE  new \in Seq(T) /\ \A C, G, H : G \subseteq {To(x)} => Way(fn, s, C, G, C, H)
  <2>1. PICK y, a : y = to[1] /\ a = Branch(x, y)
    OBVIOUS
  <2>2. a \in T /\ MarkFor(a).k = "call" /\ MarkFor(a).l = y
    <3>1. y \in Range(rpo)
      BY <1>4, <1>11, <2>1
    <3>2. a \in T
      BY <1>0, <1>3, <2>1, <3>1, AreCalls
    <3>3. MarkFor(a).k = "call" /\ MarkFor(a).l = y
      BY <2>1, MarksFor
    <3>. QED
      BY <3>2, <3>3
  <2>3. new = <<w>> \o <<a>>
    BY <1>7, <1>11, <2>1
  <2>4. ASSUME NEW C, NEW G, NEW H, G \subseteq {To(x)} PROVE Way(fn, s, C, G, C, H)
    <3>1. PICK F : F = {To(y)}
      OBVIOUS
    <3>2. Goes(fn, MarkFor(w), C, G, C, F)
      <4>1. Len(Successors(fn, x)) = 1 /\ To(Successors(fn, x)[1]) \in F
        BY <1>0, <1>11, <2>1, <3>1
      <4>. QED
        BY <1>6, <2>4, <4>1, MarkGoes
    <3>3. Goes(fn, MarkFor(a), C, F, C, H)
      BY <2>2, <3>1, MarkGoes
    <3>. QED
      BY <1>9, <2>2, <2>3, <3>2, <3>3
  <2>5. new \in Seq(T)
    BY <1>6, <2>2, <2>3
  <2>. QED
    BY <2>4, <2>5
<1>12. ASSUME Len(to) = 2
       PROVE  new \in Seq(T) /\ \A C, G, H : G \subseteq {To(x)} => Way(fn, s, C, G, C, H)
  <2>1. PICK y, z, a, b, c, d, e : /\ y = to[1] /\ z = to[2]
                             /\ a = Write(Mark("if", x)) /\ b = Branch(x, y) /\ c = Write(Mark("else", x))
                             /\ d = Branch(x, z) /\ e = Write(Mark("end", x))
    OBVIOUS
  <2>2. /\ a \in T /\ MarkFor(a).k = "if" /\ MarkFor(a).l = x
        /\ c \in T /\ MarkFor(c).k = "else" /\ e \in T /\ MarkFor(e).k = "end"
    <3>1. "if" \in Kinds /\ "else" \in Kinds /\ "end" \in Kinds
      BY DEF Kinds
    <3>2. a \in T /\ c \in T /\ e \in T
      BY <1>0, <1>3, <2>1, <3>1, AreCalls
    <3>3. MarkFor(a).k = "if" /\ MarkFor(a).l = x /\ MarkFor(c).k = "else" /\ MarkFor(e).k = "end"
      BY <2>1, MarksFor
    <3>. QED
      BY <3>2, <3>3
  <2>3. /\ b \in T /\ MarkFor(b).k = "call" /\ MarkFor(b).l = y
        /\ d \in T /\ MarkFor(d).k = "call" /\ MarkFor(d).l = z
    <3>1. y \in Range(rpo) /\ z \in Range(rpo)
      BY <1>4, <1>12, <2>1
    <3>2. b \in T /\ d \in T
      BY <1>0, <1>3, <2>1, <3>1, AreCalls
    <3>3. MarkFor(b).k = "call" /\ MarkFor(b).l = y /\ MarkFor(d).k = "call" /\ MarkFor(d).l = z
      BY <2>1, MarksFor
    <3>. QED
      BY <3>2, <3>3
  <2>4. /\ new \in Seq(T) /\ Len(new) = 6 /\ new[1] = w /\ new[2] = a
        /\ new[3] = b /\ new[4] = c /\ new[5] = d /\ new[6] = e
    <3>1. PICK r : r = <<a, b, c, d, e>>
      OBVIOUS
    <3>2. a \in T /\ b \in T /\ c \in T /\ d \in T /\ e \in T /\ w \in T
      BY <1>6, <2>2, <2>3
    <3>3. r \in Seq(T) /\ Len(r) = 5 /\ r[1] = a /\ r[2] = b /\ r[3] = c /\ r[4] = d /\ r[5] = e
      BY <3>1, <3>2
    <3>4. new = <<w>> \o r
      BY <1>7, <1>12, <2>1, <3>1
    <3>5. PICK q : q = <<w>>
      OBVIOUS
    <3>6. q \in Seq(T) /\ Len(q) = 1 /\ q[1] = w /\ new = q \o r
      BY <3>2, <3>4, <3>5
    <3>7. PICK n, m : n = 1 /\ m = 5
      OBVIOUS
    <3>8. n \in Nat /\ m \in Nat /\ n = Len(q) /\ m = Len(r)
      BY <3>3, <3>6, <3>7
    <3>9. /\ new \in Seq(T) /\ Len(new) = n + m
          /\ (\A i \in 1..n : new[i] = q[i]) /\ \A i \in 1..m : new[n + i] = r[i]
      <4>1. r \in Seq(T) /\ q \in Seq(T) /\ new = q \o r
        BY <3>3, <3>6
      <4>. QED
        BY <3>8, <4>1, Beside
    <3>10. /\ 1 \in 1..n /\ 1 \in 1..m /\ 2 \in 1..m /\ 3 \in 1..m /\ 4 \in 1..m /\ 5 \in 1..m
           /\ n + 1 = 2 /\ n + 2 = 3 /\ n + 3 = 4 /\ n + 4 = 5 /\ n + 5 = 6 /\ n + m = 6
      BY <3>7
    <3>. QED
      BY <3>3, <3>6, <3>9, <3>10
  <2>5. /\ Len(s) = 6 /\ s[1] = MarkFor(w) /\ s[2] = MarkFor(a) /\ s[3] = MarkFor(b)
        /\ s[4] = MarkFor(c) /\ s[5] = MarkFor(d) /\ s[6] = MarkFor(e)
    <3>1. 1 \in 1..6 /\ 2 \in 1..6 /\ 3 \in 1..6 /\ 4 \in 1..6 /\ 5 \in 1..6 /\ 6 \in 1..6
      OBVIOUS
    <3>. QED
      BY <1>8, <2>4, <3>1, SketchParts
  <2>6. ASSUME NEW C, NEW G, NEW H, G \subseteq {To(x)} PROVE Way(fn, s, C, G, C, H)
    <3>1. PICK D, F, P, Q : D = <<C, "if", x>> /\ F = {Out(x)} /\ P = {To(y)} /\ Q = {To(z)}
      OBVIOUS
    <3>2. Len(Successors(fn, x)) = 2 /\ To(Successors(fn, x)[1]) \in P /\ To(Successors(fn, x)[2]) \in Q
      BY <1>0, <1>12, <2>1, <3>1
    <3>3. Goes(fn, s[1], C, G, C, F)
      <4>1. Out(x) \in F
        BY <3>1
      <4>. QED
        BY <1>6, <2>5, <2>6, <4>1, MarkGoes
    <3>4. Goes(fn, s[2], C, F, D, P)
      <4>1. F \subseteq {Out(x)} /\ s[2].k = "if" /\ s[2].l = x
        BY <2>2, <2>5, <3>1
      <4>2. Goes(fn, s[2], C, F, <<C, "if", x>>, P)
        BY <3>2, <4>1, MarkGoes
      <4>. QED
        BY <3>1, <4>2
    <3>5. Goes(fn, s[3], D, P, D, {})
      <4>1. P \subseteq {To(y)} /\ s[3].k = "call" /\ s[3].l = y
        BY <2>3, <2>5, <3>1
      <4>. QED
        BY <4>1, MarkGoes
    <3>6. Goes(fn, s[4], D, {}, D, Q)
      <4>1. s[4].k = "else"
        BY <2>2, <2>5
      <4>. QED
        BY <3>1, <3>2, <4>1, CloseGoes
    <3>7. Goes(fn, s[5], D, Q, D, {})
      <4>1. Q \subseteq {To(z)} /\ s[5].k = "call" /\ s[5].l = z
        BY <2>3, <2>5, <3>1
      <4>. QED
        BY <4>1, MarkGoes
    <3>8. Goes(fn, s[6], D, {}, C, H)
      <4>1. PICK q : q = "if"
        OBVIOUS
      <4>2. s[6].k = "end" /\ D = <<C, q, x>> /\ q # "block" /\ q # "when"
        BY <2>2, <2>5, <3>1, <4>1
      <4>. QED
        BY <4>2, CloseGoes
    <3>9. PICK p, g : p = <<C, C, D, D, D, D, C>> /\ g = <<G, F, P, {}, Q, {}, H>>
      OBVIOUS
    <3>10. /\ p[1] = C /\ p[2] = C /\ p[3] = D /\ p[4] = D /\ p[5] = D /\ p[6] = D /\ p[7] = C
           /\ g[1] = G /\ g[2] = F /\ g[3] = P /\ g[4] = {} /\ g[5] = Q /\ g[6] = {} /\ g[7] = H
      BY <3>9
    <3>11. /\ 1..6 = {1, 2, 3, 4, 5, 6} /\ 1 + 1 = 2 /\ 2 + 1 = 3 /\ 3 + 1 = 4 /\ 4 + 1 = 5
           /\ 5 + 1 = 6 /\ 6 + 1 = 7
      OBVIOUS
    <3>12. Routes(fn, s, p, g)
      BY <2>5, <3>3, <3>4, <3>5, <3>6, <3>7, <3>8, <3>10, <3>11 DEF Routes
    <3>13. p[Len(s) + 1] = C /\ g[Len(s) + 1] = H
      BY <2>5, <3>10, <3>11
    <3>. QED
      BY <3>10, <3>12, <3>13 DEF Way
  <2>. QED
    BY <2>4, <2>6
<1>13. new \in Seq(T) /\ \A C, G, H : G \subseteq {To(x)} => Way(fn, s, C, G, C, H)
  BY <1>4, <1>10, <1>11, <1>12
<1>14. Leading(new \o Tail(tasks), text)
  <2>1. Head(tasks).t # "write"
    BY <1>0, <1>1
  <2>2. \A C, G, H : G \subseteq {To(Head(tasks).x)} => Way(fn, Sketch(new), C, G, C, H)
    BY <1>0, <1>8, <1>13
  <2>. QED
    BY <1>0, <1>1, <1>13, <2>1, <2>2, LeadingStep
<1> QED
  BY <1>1, <1>7, <1>14
-----------------------------------------------------------------------------
(* No label is 0. *)
LEMMA NoZero == ASSUME CInv, phase \in Later PROVE 0 \notin Range(rpo)
<1>1. IsFunction(fn) /\ CheckCfg(fn) = {} /\ Line(fn, rpo, 0)
  BY SearchedLater DEF CInv
<1>2. Range(rpo) \subseteq Labels(fn)
  BY <1>1, SearchedFacts
<1>3. 0 \notin Labels(fn)
  BY LabelsAssumption DEF CInv, SInv, Graph
<1> QED
  BY <1>2, <1>3

(* do_branch: a branch back goes to the head of its loop, one forward runs *)
(* into the tree of its target or goes behind the block of it.             *)
LEMMA LFollowBranch ==
    ASSUME CInv, phase = "emit", Emission(Links, tasks, text), Leading(tasks, text), FollowBranch,
           0 \notin Range(rpo)
    PROVE  Leading(tasks', text')
<1>0. PICK k, x, T : k = Head(tasks) /\ x = k.x /\ T = Calls(Range(rpo))
  OBVIOUS
<1>1. tasks # <<>> /\ k.t = "branch" /\ x = X /\ tasks \in Seq(T) /\ text' = text
  BY <1>0 DEF FollowBranch, Doing, X, Replace, Emission, Listed
<1>2. k \in T
  BY <1>0, <1>1, FirstCall
<1>3. x \in Range(rpo) /\ x # 0
  BY <1>0, <1>1, <1>2, CallIs
<1>4. PICK c : /\ tasks' = <<c>> \o Tail(tasks)
               /\ c \in {Write(Mark("br loop", x)), Tree(x), Write(Mark("br block", x))}
  <2>1. PICK a, b, d : a = Write(Mark("br loop", x)) /\ b = Tree(x) /\ d = Write(Mark("br block", x))
    OBVIOUS
  <2>2. PICK c : c = IF Idx(x) <= Idx(k.ys[1]) THEN a ELSE IF Inlined(k.ys[1], x) THEN b ELSE d
    OBVIOUS
  <2>3. tasks' = <<c>> \o Tail(tasks)
    BY <1>0, <1>1, <2>1, <2>2 DEF FollowBranch, Replace
  <2>4. c \in {a, b, d}
    BY <2>2
  <2>. QED
    BY <2>1, <2>3, <2>4
<1>5. c \in T
  <2>1. "br loop" \in Kinds /\ "br block" \in Kinds
    BY DEF Kinds
  <2>2. Write(Mark("br loop", x)) \in T /\ Tree(x) \in T /\ Write(Mark("br block", x)) \in T
    BY <1>0, <1>3, <2>1, AreCalls
  <2>. QED
    BY <1>4, <2>2
<1>6. MarkFor(c).k \in {"br loop", "call", "br block"} /\ MarkFor(c).l = x
  <2>1. CASE c = Write(Mark("br loop", x))
    BY <2>1, MarksFor
  <2>2. CASE c = Tree(x)
    BY <2>2, MarksFor
  <2>3. CASE c = Write(Mark("br block", x))
    BY <2>3, MarksFor
  <2>. QED
    BY <1>4, <2>1, <2>2, <2>3
<1>7. PICK new, s, m : new = <<c>> /\ s = Sketch(new) /\ m = MarkFor(c)
  OBVIOUS
<1>8. new \in Seq(T) /\ Len(new) = 1 /\ new[1] = c
  BY <1>5, <1>7
<1>9. Len(s) = 1 /\ s[1] = m
  <2>1. 1 \in 1..1
    OBVIOUS
  <2>. QED
    BY <1>7, <1>8, <2>1, SketchParts
<1>10. ASSUME NEW C, NEW G, NEW H, G \subseteq {To(x)} PROVE Way(fn, s, C, G, C, H)
  <2>1. Goes(fn, m, C, G, C, H)
    <3>1. Again(x) = To(x)
      BY <1>3 DEF Again, DispatchLoop
    <3>2. m.l = x
      BY <1>6, <1>7
    <3>3. CASE m.k = "br loop"
      BY <1>10, <3>1, <3>2, <3>3, MarkGoes
    <3>4. CASE m.k \in {"call", "br block"}
      BY <1>10, <3>2, <3>4, MarkGoes
    <3>. QED
      BY <1>6, <1>7, <3>3, <3>4
  <2>2. PICK p, g : p = <<C, C>> /\ g = <<G, H>>
    OBVIOUS
  <2>3. p[1] = C /\ p[2] = C /\ g[1] = G /\ g[2] = H
    BY <2>2
  <2>4. 1..1 = {1} /\ 1 + 1 = 2
    OBVIOUS
  <2>5. Routes(fn, s, p, g)
    BY <1>9, <2>1, <2>3, <2>4 DEF Routes
  <2>6. p[Len(s) + 1] = C /\ g[Len(s) + 1] = H
    BY <1>9, <2>3, <2>4
  <2>. QED
    BY <2>3, <2>5, <2>6 DEF Way
<1>11. Leading(new \o Tail(tasks), text)
  <2>1. Head(tasks).t # "write"
    BY <1>0, <1>1
  <2>2. \A C, G, H : G \subseteq {To(Head(tasks).x)} => Way(fn, Sketch(new), C, G, C, H)
    BY <1>0, <1>7, <1>10
  <2>. QED
    BY <1>0, <1>1, <1>8, <2>1, <2>2, LeadingStep
<1> QED
  BY <1>1, <1>4, <1>7, <1>11

(* A mark that is written keeps its place on the way. *)
LEMMA LWriteMark ==
    ASSUME CInv, phase = "emit", Emission(Links, tasks, text), Leading(tasks, text), WriteMark
    PROVE  Leading(tasks', text')
<1>0. PICK k, r, tx, T, M : /\ k = Head(tasks) /\ r = Tail(tasks) /\ tx = text' /\ T = Calls(Range(rpo))
                            /\ M = Marks(Range(rpo))
  OBVIOUS
<1>1. tasks # <<>> /\ k.t = "write" /\ tasks \in Seq(T) /\ text \in Seq(M) /\ tasks' = r
  BY <1>0 DEF WriteMark, Doing, Emission, Listed
<1>2. k \in T
  BY <1>0, <1>1, FirstCall
<1>3. PICK m \in M : k.ys = <<m>>
  <2>1. \E m \in Marks(Range(rpo)) : k = Write(m) /\ k.ys = <<m>>
    BY <1>0, <1>1, <1>2, CallIs
  <2>. QED
    BY <1>0, <2>1
<1>4. tx = text \o <<m>>
  BY <1>0, <1>3 DEF WriteMark
<1>5. MarkFor(k) = m
  <2>1. k.ys[1] = m
    BY <1>3
  <2>. QED
    BY <1>1, <2>1 DEF MarkFor
<1>6. PICK D, H : Way(fn, text, <<>>, {To(Entry(fn))}, D, H) /\ Way(fn, Sketch(tasks), D, H, <<>>, {})
  BY DEF Leading
<1>7. PICK s, S : s = Sketch(tasks) /\ S = {MarkFor(j) : j \in T}
  OBVIOUS
<1>8. s \in Seq(S) /\ s # <<>> /\ Head(s) = m /\ Tail(s) = Sketch(r)
  <2>1. s \in Seq(S)
    BY <1>1, <1>7, SketchParts
  <2>2. Sketch(tasks) # <<>> /\ Head(Sketch(tasks)) = MarkFor(Head(tasks))
        /\ Tail(Sketch(tasks)) = Sketch(Tail(tasks))
    BY <1>1, SketchFirst
  <2>. QED
    BY <1>0, <1>5, <1>7, <2>1, <2>2
<1>9. PICK B, F : Goes(fn, m, D, H, B, F) /\ Way(fn, Sketch(r), B, F, <<>>, {})
  <2>1. Way(fn, s, D, H, <<>>, {})
    BY <1>6, <1>7
  <2>2. \E B, F : Goes(fn, Head(s), D, H, B, F) /\ Way(fn, Tail(s), B, F, <<>>, {})
    BY <1>8, <2>1, WayFirst
  <2>. QED
    BY <1>8, <2>2
<1>10. PICK p : p = <<m>>
  OBVIOUS
<1>11. p \in Seq(M) /\ Way(fn, p, D, H, B, F)
  <2>1. Way(fn, <<m>>, D, H, B, F)
    BY <1>9, WayOne
  <2>. QED
    BY <1>10, <2>1
<1>12. Way(fn, tx, <<>>, {To(Entry(fn))}, B, F)
  <2>1. PICK C, G : C = <<>> /\ G = {To(Entry(fn))}
    OBVIOUS
  <2>2. Way(fn, text, C, G, D, H)
    BY <1>6, <2>1
  <2>3. Way(fn, text \o p, C, G, B, F)
    BY <1>1, <1>11, <2>2, WayJoined
  <2>. QED
    BY <1>4, <1>10, <2>1, <2>3
<1> QED
  BY <1>0, <1>1, <1>9, <1>12 DEF Leading

(* At first the text is the tree of the entry. *)
LEMMA LStart ==
    ASSUME CInv, phase = "classify", text = <<>>, StartEmit
    PROVE  Leading(tasks', text')
<1>1. rpo[1] = Entry(fn)
  <2>1. IsFunction(fn) /\ CheckCfg(fn) = {} /\ Line(fn, rpo, 0)
    BY SearchedLater DEF CInv, Later
  <2>. QED
    BY <2>1, SearchedFacts
<1>2. PICK x, k, ts, s : x = Entry(fn) /\ k = Tree(x) /\ ts = <<k>> /\ s = Sketch(ts)
  OBVIOUS
<1>3. tasks' = ts /\ text' = <<>>
  BY <1>1, <1>2 DEF StartEmit
<1>4. Len(s) = 1 /\ s[1] = MarkFor(k)
  <2>1. ts \in Seq({k}) /\ Len(ts) = 1 /\ ts[1] = k
    BY <1>2
  <2>2. 1 \in 1..1
    OBVIOUS
  <2>. QED
    BY <1>2, <2>1, <2>2, SketchParts
<1>5. PICK C, G : C = <<>> /\ G = {To(x)}
  OBVIOUS
<1>6. Goes(fn, s[1], C, G, C, {})
  <2>1. s[1].k = "call" /\ s[1].l = x
    BY <1>2, <1>4, MarksFor
  <2>. QED
    BY <1>5, <2>1, MarkGoes
<1>7. Way(fn, s, C, G, C, {})
  <2>1. PICK p, g : p = <<C, C>> /\ g = <<G, {}>>
    OBVIOUS
  <2>2. p[1] = C /\ p[2] = C /\ g[1] = G /\ g[2] = {}
    BY <2>1
  <2>3. 1..1 = {1} /\ 1 + 1 = 2
    OBVIOUS
  <2>4. Routes(fn, s, p, g)
    BY <1>4, <1>6, <2>2, <2>3 DEF Routes
  <2>5. p[Len(s) + 1] = C /\ g[Len(s) + 1] = {}
    BY <1>4, <2>2, <2>3
  <2>. QED
    BY <2>2, <2>4, <2>5 DEF Way
<1>8. Way(fn, <<>>, C, G, C, G)
  BY WayNone
<1> QED
  BY <1>2, <1>3, <1>5, <1>7, <1>8 DEF Leading

(* So the text leads while structure() writes it. *)
Mapped == phase \in {"emit", "done"} => Leading(tasks, text)

(* It depends on the function alone. *)
LEMMA SameLeading ==
    ASSUME fn' = fn, Leading(tasks', text')
    PROVE  Leading(tasks, text)'
<1>1. \A ts, tx : Leading(ts, tx)' <=> Leading(ts, tx)
  BY DEF Leading
<1>2. Leading(tasks, text)' <=> Leading(tasks', text')
  BY <1>1
<1> QED
  BY <1>2

(* Every step of structure() keeps it so. *)
LEMMA MappedNext == ASSUME CInv, Emitting, Mapped, [Next]_vars PROVE Mapped'
<1>1. CASE Descend \/ FinishLabel \/ StartDominators \/ VisitLabel \/ EndRound \/ Classify
  <2>1. phase' \in {"order", "dominators", "classify", "irreducible"}
    BY <1>1 DEF Descend, FinishLabel, StartDominators, VisitLabel, EndRound, Classify, At
  <2>. QED
    BY <2>1 DEF Mapped
<1>2. CASE StartEmit
  <2>1. phase = "classify" /\ text = <<>> /\ fn' = fn
    BY <1>2 DEF StartEmit, At, Emitting
  <2>2. Leading(tasks', text')
    BY <1>2, <2>1, LStart
  <2>3. Leading(tasks, text)'
    BY <2>1, <2>2, SameLeading
  <2>. QED
    BY <2>3 DEF Mapped
<1>3. CASE DoTree \/ NodeWithin \/ EmitBlock \/ FollowBranch \/ WriteMark
  <2>1. phase = "emit" /\ fn' = fn
    BY <1>3 DEF DoTree, NodeWithin, EmitBlock, FollowBranch, WriteMark, Doing, At, Replace
  <2>2. Emission(Links, tasks, text) /\ Leading(tasks, text)
    BY <2>1 DEF Emitting, Mapped
  <2>3. 0 \notin Range(rpo)
    BY <2>1, NoZero DEF Later
  <2>4. Leading(tasks', text')
    BY <1>3, <2>1, <2>2, <2>3, LDoTree, LNodeWithin, LEmitBlock, LFollowBranch, LWriteMark
  <2>5. Leading(tasks, text)'
    BY <2>1, <2>4, SameLeading
  <2>. QED
    BY <2>5 DEF Mapped
<1>4. CASE Finish \/ UNCHANGED vars
  <2>1. /\ phase' \in {"emit", "done"} => phase \in {"emit", "done"}
        /\ tasks' = tasks /\ text' = text /\ fn' = fn
    BY <1>4 DEF Finish, At, vars
  <2>2. CASE phase \in {"emit", "done"}
    <3>1. Leading(tasks', text')
      BY <2>1, <2>2 DEF Mapped
    <3>2. Leading(tasks, text)'
      BY <2>1, <3>1, SameLeading
    <3>. QED
      BY <3>2 DEF Mapped
  <2>3. CASE phase \notin {"emit", "done"}
    BY <2>1, <2>3 DEF Mapped
  <2>. QED
    BY <2>2, <2>3
<1> QED
  BY <1>1, <1>2, <1>3, <1>4 DEF Next

(* What structure() has written leads from the entry on. *)
LEMMA StructuredLeads ==
    ASSUME CInv, Emitting, Mapped, phase = "done"
    PROVE  Way(fn, text, <<>>, {To(Entry(fn))}, <<>>, {})
<1>1. tasks = <<>>
  BY DEF Emitting
<1>2. PICK D, H : Way(fn, text, <<>>, {To(Entry(fn))}, D, H) /\ Way(fn, Sketch(tasks), D, H, <<>>, {})
  BY DEF Mapped, Leading
<1>3. Sketch(tasks) = <<>>
  <2>1. PICK T, s : s = Sketch(tasks) /\ T = {}
    OBVIOUS
  <2>2. tasks \in Seq(T) /\ Len(tasks) = 0
    BY <1>1
  <2>3. s \in Seq({MarkFor(j) : j \in T}) /\ Len(s) = Len(tasks)
    BY <2>1, <2>2, SketchParts
  <2>4. s = <<>>
    BY <2>2, <2>3
  <2>. QED
    BY <2>1, <2>4
<1>4. Way(fn, <<>>, D, H, <<>>, {})
  BY <1>2, <1>3
<1>5. PICK E, K : E = <<>> /\ K = {}
  OBVIOUS
<1>6. Way(fn, <<>>, D, H, E, K)
  BY <1>4, <1>5
<1>7. E = D /\ K = H
  BY <1>6, WayEmpty
<1> QED
  BY <1>2, <1>5, <1>7
-----------------------------------------------------------------------------
(* How an arm leaves: for what its block leads to. *)
LEMMA LeavingLeads ==
    ASSUME IsFunction(fn), CheckCfg(fn) = {}, NEW l \in Labels(fn), NEW C
    PROVE  Leaving(l) \in Seq(Steps) /\ Way(fn, Leaving(l), C, {Out(l)}, C, {})
<1>0. PICK to, G, A : to = Successors(fn, l) /\ G = {Out(l)} /\ A = {Aimed}
  OBVIOUS
<1>1. to \in Seq(Labels(fn)) /\ Len(to) \in 0..2
  BY <1>0, SuccessorsAreLabels, AtMostTwoSuccessors
<1>2. \A i \in 1..Len(to) : to[i] \in Labels(fn)
  BY <1>1
<1>3. PICK b, y : b = Mark("br loop", DispatchLoop) /\ y = <<b>>
  OBVIOUS
<1>4. b \in Steps /\ b.k = "br loop" /\ b.l = DispatchLoop
  BY <1>3, MarkIsStep
<1>5. y \in Seq(Steps) /\ Way(fn, y, C, A, C, {})
  <2>1. A \subseteq {Again(DispatchLoop)}
    BY <1>0 DEF Again
  <2>2. Goes(fn, b, C, A, C, {})
    BY <1>4, <2>1, MarkGoes
  <2>3. Way(fn, <<b>>, C, A, C, {})
    BY <2>2, WayOne
  <2>4. <<b>> \in Seq(Steps)
    BY <1>4, One
  <2>. QED
    BY <1>3, <2>3, <2>4
<1>6. Leaving(l) \in Seq(Steps)
  <2>1. PICK v : v = {<<"loop", DispatchLoop>>}
    OBVIOUS
  <2>. QED
    BY <2>1, LeavingWhole
<1>7. ASSUME NEW m \in Steps, Goes(fn, m, C, G, C, A), Leaving(l) = <<m, b>>
      PROVE  Way(fn, Leaving(l), C, G, C, {})
  <2>1. PICK x : x = <<m>>
    OBVIOUS
  <2>2. x \in Seq(Steps) /\ Len(x) = 1 /\ x[1] = m /\ Len(y) = 1 /\ y[1] = b
    <3>1. <<m>> \in Seq(Steps)
      BY <1>7, One
    <3>2. Len(x) = 1 /\ x[1] = m /\ Len(y) = 1 /\ y[1] = b
      BY <1>3, <2>1
    <3>. QED
      BY <2>1, <3>1, <3>2
  <2>3. Way(fn, x, C, G, C, A)
    <3>1. Way(fn, <<m>>, C, G, C, A)
      BY <1>7, WayOne
    <3>. QED
      BY <2>1, <3>1
  <2>4. PICK p : p = <<m, b>>
    OBVIOUS
  <2>5. p = x \o y
    <3>1. p \in Seq(Steps) /\ Len(p) = 2 /\ p[1] = m /\ p[2] = b
      <4>1. PICK T : T = Steps
        OBVIOUS
      <4>2. m \in T /\ b \in T
        BY <1>4, <1>7, <4>1
      <4>3. p \in Seq(T) /\ Len(p) = 2 /\ p[1] = m /\ p[2] = b
        BY <2>4, <4>2
      <4>. QED
        BY <4>1, <4>3
    <3>2. p[1] = x[1] /\ p[2] = y[1]
      BY <2>2, <3>1
    <3>. QED
      BY <1>5, <2>2, <3>1, <3>2, PairJoined
  <2>6. Way(fn, x \o y, C, G, C, {})
    BY <1>5, <2>2, <2>3, WayJoined
  <2>. QED
    BY <1>7, <2>4, <2>5, <2>6
<1>8. ASSUME Len(to) = 0 PROVE Way(fn, Leaving(l), C, G, C, {})
  <2>1. PICK m : m = Mark("return", l)
    OBVIOUS
  <2>2. m.k = "return"
    BY <2>1 DEF Mark
  <2>3. Leaving(l) = <<m>>
    BY <1>0, <1>8, <2>1 DEF Leaving
  <2>4. Goes(fn, m, C, G, C, {})
    BY <2>2, MarkGoes
  <2>5. Way(fn, <<m>>, C, G, C, {})
    BY <2>4, WayOne
  <2>. QED
    BY <2>3, <2>5
<1>9. ASSUME Len(to) = 1 PROVE Way(fn, Leaving(l), C, G, C, {})
  <2>1. PICK m : m = Mark("set", to[1])
    OBVIOUS
  <2>2. to[1] \in Labels(fn)
    BY <1>2, <1>9
  <2>3. m \in Steps /\ m.k = "set" /\ m.l = to[1]
    <3>1. PICK j \in Labels(fn) : j = to[1]
      BY <2>2
    <3>2. Mark("set", j) \in Steps /\ Mark("set", j).k = "set" /\ Mark("set", j).l = j
      BY DEF Mark, Steps
    <3>. QED
      BY <2>1, <3>1, <3>2
  <2>4. Leaving(l) = <<m, b>>
    <3>1. Len(Successors(fn, l)) = 1
      BY <1>0, <1>9
    <3>2. Leaving(l) = <<Mark("set", Successors(fn, l)[1]), Mark("br loop", DispatchLoop)>>
      <4>1. Len(Successors(fn, l)) # 0 /\ Len(Successors(fn, l)) # 2
        BY <3>1
      <4>. QED
        BY <3>1, <4>1, Zenon DEF Leaving
    <3>. QED
      BY <1>0, <1>3, <2>1, <3>2
  <2>5. Goes(fn, m, C, G, C, A)
    <3>1. \A goal \in G : goal = Out(l) /\ Len(Successors(fn, l)) = 1 /\ m.l = Successors(fn, l)[1]
      BY <1>0, <1>9, <2>3
    <3>2. Aimed \in A
      BY <1>0
    <3>. QED
      BY <2>3, <3>1, <3>2 DEF Goes, Stacks, Lands, Serves, Opens
  <2>. QED
    BY <1>7, <2>3, <2>4, <2>5
<1>10. ASSUME Len(to) = 2 PROVE Way(fn, Leaving(l), C, G, C, {})
  <2>1. PICK m : m = Chosen(to)
    OBVIOUS
  <2>2. to[1] \in Labels(fn) /\ to[2] \in Labels(fn)
    BY <1>2, <1>10
  <2>3. m \in Steps /\ m.k = "select" /\ m.l = to[1] /\ m.l2 = to[2]
    <3>1. m = [k |-> "select", l |-> to[1], l2 |-> to[2]]
      BY <2>1 DEF Chosen, Mark
    <3>. QED
      BY <2>2, <3>1 DEF Steps
  <2>4. Leaving(l) = <<m, b>>
    <3>1. Len(Successors(fn, l)) = 2
      BY <1>0, <1>10
    <3>2. Leaving(l) = <<Chosen(Successors(fn, l)), Mark("br loop", DispatchLoop)>>
      <4>1. Len(Successors(fn, l)) # 0 /\ Len(Successors(fn, l)) # 1
        BY <3>1
      <4>. QED
        BY <3>1, <4>1, Zenon DEF Leaving
    <3>. QED
      BY <1>0, <1>3, <2>1, <3>2
  <2>5. Goes(fn, m, C, G, C, A)
    <3>1. \A goal \in G : goal = Out(l) /\ Len(Successors(fn, l)) = 2
                          /\ m.l = Successors(fn, l)[1] /\ m.l2 = Successors(fn, l)[2]
      BY <1>0, <1>10, <2>3
    <3>2. Aimed \in A
      BY <1>0
    <3>. QED
      BY <2>3, <3>1, <3>2 DEF Goes, Stacks, Lands, Serves, Opens
  <2>. QED
    BY <1>7, <2>3, <2>4, <2>5
<1> QED
  BY <1>0, <1>1, <1>6, <1>8, <1>9, <1>10

(* The arm of a block is passed, or runs its block and leaves. *)
LEMMA ArmLeads ==
    ASSUME IsFunction(fn), CheckCfg(fn) = {}, NEW l \in Labels(fn), NEW C, NEW A, A = {Aimed}
    PROVE  DispatchArm(l) \in Seq(Steps) /\ Way(fn, DispatchArm(l), C, A, C, A)
<1>0. PICK a, b, e, f, D, F, G, K : /\ f = Leaving(l) /\ D = <<C, "when", l>>
                                 /\ a = Mark("when", l) /\ b = Mark("code", l) /\ e = Mark("end", l)
                                 /\ F = {To(l)} /\ G = {Out(l)} /\ K = {}
  OBVIOUS
<1>1. PICK x \in Seq(Steps), y \in Seq(Steps), z \in Seq(Steps) :
              /\ x = <<Mark("when", l)>> /\ y = <<Mark("code", l)>> /\ z = <<Mark("end", l)>>
              /\ DispatchArm(l) = (x \o (y \o Leaving(l))) \o z
  BY ArmIs
<1>2. /\ a.k = "when" /\ a.l = l /\ b.k = "code" /\ b.l = l /\ e.k = "end"
  BY <1>0 DEF Mark
<1>3. Way(fn, x, C, A, D, F)
  <2>1. To(l) \in F /\ A \subseteq {Aimed}
    BY <1>0
  <2>2. Goes(fn, a, C, A, <<C, "when", l>>, F)
    BY <1>2, <2>1, MarkGoes
  <2>3. Goes(fn, a, C, A, D, F)
    BY <1>0, <2>2
  <2>4. Way(fn, <<a>>, C, A, D, F)
    BY <2>3, WayOne
  <2>. QED
    BY <1>0, <1>1, <2>4
<1>4. Way(fn, y, D, F, D, G)
  <2>1. F \subseteq {To(l)} /\ Out(l) \in G
    BY <1>0
  <2>2. Goes(fn, b, D, F, D, G)
    BY <1>2, <2>1, MarkGoes
  <2>3. Way(fn, <<b>>, D, F, D, G)
    BY <2>2, WayOne
  <2>. QED
    BY <1>0, <1>1, <2>3
<1>5. f \in Seq(Steps) /\ Way(fn, f, D, G, D, K)
  <2>1. Leaving(l) \in Seq(Steps) /\ Way(fn, Leaving(l), D, {Out(l)}, D, {})
    BY LeavingLeads
  <2>. QED
    BY <1>0, <2>1
<1>6. Way(fn, z, D, K, C, A)
  <2>1. PICK q : q = "when"
    OBVIOUS
  <2>2. D = <<C, q, l>> /\ e.k = "end" /\ q # "block" /\ Aimed \in A
    BY <1>0, <1>2, <2>1
  <2>3. Goes(fn, e, D, {}, C, A)
    BY <2>2, CloseGoes
  <2>4. Way(fn, <<e>>, D, {}, C, A)
    BY <2>3, WayOne
  <2>. QED
    BY <1>0, <1>1, <2>4
<1>7. PICK g, h : g = y \o f /\ h = x \o g
  OBVIOUS
<1>8. g \in Seq(Steps) /\ Way(fn, g, D, F, D, K)
  <2>1. Way(fn, y \o f, D, F, D, K)
    BY <1>1, <1>4, <1>5, WayJoined
  <2>. QED
    BY <1>1, <1>5, <1>7, <2>1
<1>9. h \in Seq(Steps) /\ Way(fn, h, C, A, D, K)
  <2>1. Way(fn, x \o g, C, A, D, K)
    BY <1>1, <1>3, <1>8, WayJoined
  <2>. QED
    BY <1>1, <1>7, <1>8, <2>1
<1>10. h \o z \in Seq(Steps) /\ Way(fn, h \o z, C, A, C, A)
  <2>1. Way(fn, h \o z, C, A, C, A)
    BY <1>1, <1>6, <1>9, WayJoined
  <2>. QED
    BY <1>1, <1>9, <2>1
<1>11. DispatchArm(l) = h \o z
  BY <1>0, <1>1, <1>7
<1> QED
  BY <1>10, <1>11

(* So do the arms in a row, *)
LEMMA ArmsLead ==
    ASSUME NEW T, NEW n \in Nat, NEW ss \in [1..n -> Seq(T)], n # 0, NEW C, NEW A,
           \A i \in 1..n : Way(fn, ss[i], C, A, C, A)
    PROVE  FlattenSeq(ss) \in Seq(T) /\ Way(fn, FlattenSeq(ss), C, A, C, A)
<1> DEFINE F == CHOOSE h : Concatenations(ss, n, h)
<1>0. Len(ss) = n
  OBVIOUS
<1>1. F = [i \in 1..n |-> IF i = 1 THEN ss[i] ELSE F[i - 1] \o ss[i]]
  BY HasPrefixes DEF Concatenations
<1>2. FlattenSeq(ss) = F[n]
  BY <1>0 DEF FlattenSeq, Concatenations
<1> HIDE DEF F
<1>3. F[1] = ss[1] /\ \A i \in 2..n : F[i] = F[i - 1] \o ss[i]
  <2>1. 1 \in 1..n /\ \A i \in 2..n : i \in 1..n /\ i # 1
    OBVIOUS
  <2>2. \A i \in 1..n : F[i] = IF i = 1 THEN ss[i] ELSE F[i - 1] \o ss[i]
    BY <1>1
  <2>. QED
    BY <2>1, <2>2
<1> DEFINE S == {m \in 1..n : F[m] \in Seq(T) /\ Way(fn, F[m], C, A, C, A)}
<1>4. 1 \in S
  <2>1. 1 \in 1..n
    OBVIOUS
  <2>2. ss[1] \in Seq(T) /\ Way(fn, ss[1], C, A, C, A)
    BY <2>1
  <2>. QED
    BY <1>3, <2>1, <2>2
<1>5. ASSUME NEW m \in 1..(n - 1), m \in S PROVE m + 1 \in S
  <2>1. m + 1 \in 2..n /\ (m + 1) - 1 = m /\ m + 1 \in 1..n
    OBVIOUS
  <2>2. PICK f, g : f = F[m] /\ g = ss[m + 1]
    OBVIOUS
  <2>3. f \in Seq(T) /\ g \in Seq(T) /\ Way(fn, f, C, A, C, A) /\ Way(fn, g, C, A, C, A)
    BY <1>5, <2>1, <2>2
  <2>4. F[m + 1] = f \o g
    BY <1>3, <2>1, <2>2
  <2>5. f \o g \in Seq(T) /\ Way(fn, f \o g, C, A, C, A)
    BY <2>3, WayJoined
  <2>. QED
    BY <2>1, <2>4, <2>5
<1>6. n \in S
  <2>1. Inductive(S, 1, n)
    BY <1>4, <1>5 DEF Inductive
  <2>. HIDE DEF S
  <2>. QED
    BY <2>1, UpTo
<1> QED
  BY <1>2, <1>6

(* and the dispatch loop leads from the first target on. *)
LEMMA DispatchLeads ==
    ASSUME IsFunction(fn), CheckCfg(fn) = {}
    PROVE  Way(fn, Dispatch, <<>>, {First}, <<>>, {})
<1>n. PICK n \in Nat \ {0} : \E ss \in [1..n -> Seq(Steps)],
              x \in Seq(Steps), y \in Seq(Steps), z \in Seq(Steps) :
              /\ x = <<Mark("set", Entry(fn))>> /\ y = <<Mark("loop", DispatchLoop)>>
              /\ z = <<Mark("end", DispatchLoop)>>
              /\ \A i \in 1..n : \E l \in Labels(fn) : ss[i] = DispatchArm(l)
              /\ FlattenSeq(ss) \in Seq(Steps) => Dispatch = x \o ((y \o FlattenSeq(ss)) \o z)
  BY DispatchIs
<1>0. PICK ss \in [1..n -> Seq(Steps)], x \in Seq(Steps), y \in Seq(Steps), z \in Seq(Steps) :
              /\ x = <<Mark("set", Entry(fn))>> /\ y = <<Mark("loop", DispatchLoop)>>
              /\ z = <<Mark("end", DispatchLoop)>>
              /\ \A i \in 1..n : \E l \in Labels(fn) : ss[i] = DispatchArm(l)
              /\ FlattenSeq(ss) \in Seq(Steps) => Dispatch = x \o ((y \o FlattenSeq(ss)) \o z)
  BY <1>n
<1>1. PICK u, v, a, b, e, f, g, h, A, B, C, D, K :
              /\ u = Entry(fn) /\ v = DispatchLoop
              /\ a = Mark("set", u) /\ b = Mark("loop", v) /\ e = Mark("end", v)
              /\ f = FlattenSeq(ss) /\ g = y \o f /\ h = g \o z
              /\ A = {Aimed} /\ B = {First} /\ C = <<>> /\ D = <<C, "loop", v>> /\ K = {}
  OBVIOUS
<1>2. /\ a.k = "set" /\ a.l = u /\ b.k = "loop" /\ b.l = v /\ e.k = "end"
  BY <1>1 DEF Mark
<1>3. Way(fn, x, C, B, C, A)
  <2>1. u = Entry(fn) /\ B \subseteq {First} /\ Aimed \in A
    BY <1>1
  <2>2. Goes(fn, a, C, B, C, A)
    BY <1>2, <2>1, MarkGoes
  <2>3. Way(fn, <<a>>, C, B, C, A)
    BY <2>2, WayOne
  <2>. QED
    BY <1>0, <1>1, <2>3
<1>4. Way(fn, y, C, A, D, A)
  <2>1. Again(v) \in A
    BY <1>1 DEF Again
  <2>2. Goes(fn, b, C, A, <<C, "loop", v>>, A)
    BY <1>2, <2>1, MarkGoes
  <2>3. Goes(fn, b, C, A, D, A)
    BY <1>1, <2>2
  <2>4. Way(fn, <<b>>, C, A, D, A)
    BY <2>3, WayOne
  <2>. QED
    BY <1>0, <1>1, <2>4
<1>5. f \in Seq(Steps) /\ Way(fn, f, D, A, D, A)
  <2>1. \A i \in 1..n : Way(fn, ss[i], D, A, D, A)
    BY <1>0, <1>1, ArmLeads
  <2>2. FlattenSeq(ss) \in Seq(Steps) /\ Way(fn, FlattenSeq(ss), D, A, D, A)
    BY <2>1, ArmsLead
  <2>. QED
    BY <1>1, <2>2
<1>6. Way(fn, z, D, A, C, K)
  <2>1. PICK q : q = "loop"
    OBVIOUS
  <2>2. D = <<C, q, v>> /\ q # "block" /\ q # "when"
    BY <1>1, <2>1
  <2>3. Goes(fn, e, D, {}, C, K)
    BY <1>2, <2>2, CloseGoes
  <2>4. \A goal \in A : Serves(fn, e, goal, K)
    BY <1>2 DEF Serves
  <2>5. Goes(fn, e, D, A, C, K)
    BY <2>3, <2>4 DEF Goes
  <2>6. Way(fn, <<e>>, D, A, C, K)
    BY <2>5, WayOne
  <2>. QED
    BY <1>0, <1>1, <2>6
<1>7. g \in Seq(Steps) /\ Way(fn, g, C, A, D, A)
  <2>1. Way(fn, y \o f, C, A, D, A)
    BY <1>0, <1>4, <1>5, WayJoined
  <2>. QED
    BY <1>0, <1>1, <1>5, <2>1
<1>8. h \in Seq(Steps) /\ Way(fn, h, C, A, C, K)
  <2>1. Way(fn, g \o z, C, A, C, K)
    BY <1>0, <1>6, <1>7, WayJoined
  <2>. QED
    BY <1>0, <1>1, <1>7, <2>1
<1>9. Way(fn, x \o h, C, B, C, K)
  BY <1>0, <1>3, <1>8, WayJoined
<1>10. Dispatch = x \o h
  BY <1>0, <1>1, <1>5
<1> QED
  BY <1>1, <1>9, <1>10
-----------------------------------------------------------------------------
(* No step changes the function. *)
LEMMA SameFunction == [Next]_vars => fn' = fn
BY DEF Next, vars, Descend, FinishLabel, StartDominators, VisitLabel, EndRound, Classify,
       StartEmit, DoTree, NodeWithin, EmitBlock, FollowBranch, WriteMark, Finish, Replace

(* A body leads from its first mark on. *)
LEMMA GuidedStart == ASSUME CInv, Emitting, Mapped, Guided, StartBody PROVE Guided'
<1>1. /\ pc = 0 /\ pc' = 1 /\ phase \in {"done", "irreducible"}
      /\ body' = IF phase = "done" THEN text ELSE Dispatch
      /\ UNCHANGED <<fn, at, arm, pending, target>>
  BY DEF StartBody, vars
<1>2. at = 0 /\ pending = 0 /\ arm = 0
  BY <1>1 DEF Guided
<1>3. PICK goal : Met(goal) /\ Way(fn, body', <<>>, {goal}, <<>>, {})
  <2>1. CASE phase = "done"
    <3>1. Way(fn, text, <<>>, {To(Entry(fn))}, <<>>, {})
      BY <2>1, StructuredLeads
    <3>2. Met(To(Entry(fn)))
      BY <1>2 DEF Met, Owed
    <3>. QED
      BY <1>1, <2>1, <3>1, <3>2
  <2>2. CASE phase # "done"
    <3>1. IsFunction(fn) /\ CheckCfg(fn) = {}
      BY GraphFacts DEF CInv, SInv
    <3>2. Way(fn, Dispatch, <<>>, {First}, <<>>, {})
      BY <3>1, DispatchLeads
    <3>3. Met(First)
      BY <1>2 DEF Met
    <3>. QED
      BY <1>1, <2>2, <3>2, <3>3
  <2>. QED
    BY <2>1, <2>2
<1>4. PICK c, g : Routes(fn, body', c, g) /\ g[1] = {goal}
  BY <1>3 DEF Way
<1>5. Routes(fn, body, c, g)'
  BY <1>1, <1>4
<1>6. Heads(g)'
  <2>1. Met(goal)'
    BY <1>1, <1>3, SameGoals
  <2>2. goal \in g[pc']
    BY <1>1, <1>4
  <2>. QED
    BY <2>1, <2>2 DEF Heads
<1> QED
  BY <1>1, <1>2, <1>5, <1>6 DEF Guided

(* Every step is one of the walk or none. *)
LEMMA GuidedNext ==
    ASSUME CInv, Emitting, Mapped, Running, Guided, [NextFlow]_flowVars
    PROVE  Guided' /\ [W!Next]_(W!vars)
<1>0. fn' = fn
  BY FlowSteps, SameFunction
<1>1. CASE Structure \/ UNCHANGED flowVars
  <2>1. UNCHANGED <<body, pc, target, pending, at, arm, beat>>
    BY <1>1 DEF Structure, flowVars, runVars
  <2>2. \A goal : Met(goal)' <=> Met(goal)
    BY <1>0, <2>1, SameGoals
  <2>3. ASSUME NEW c, NEW g, Routes(fn, body, c, g), Heads(g)
        PROVE  Routes(fn, body, c, g)' /\ Heads(g)'
    <3>1. Routes(fn, body, c, g)'
      BY <1>0, <2>1, <2>3
    <3>2. Heads(g)'
      BY <2>1, <2>2, <2>3 DEF Heads
    <3>. QED
      BY <3>1, <3>2
  <2>4. Guided'
    BY <2>1, <2>3 DEF Guided
  <2>. QED
    BY <1>0, <2>1, <2>4 DEF W!vars
<1>2. CASE StartBody
  <2>1. UNCHANGED <<at, arm, beat>>
    BY <1>2 DEF StartBody
  <2>. QED
    BY <1>0, <1>2, <2>1, GuidedStart DEF W!vars
<1>3. CASE RunBody
  <2>1. pc \in DOMAIN body /\ body' = body
    BY <1>3 DEF RunBody, EnterRegion, Choose, BranchOut, BranchBack, RunBlock, SetTarget, When, Go, Reading
  <2>2. pc # 0
    <3>1. ASSUME pc = 0 PROVE FALSE
      <4>1. body = <<>>
        BY <3>1 DEF Running
      <4>. QED
        BY <2>1, <4>1
    <3>. QED
      BY <3>1
  <2>3. PICK d : Sound(body, d) /\ Arrives(d)
    BY <2>2 DEF Running
  <2>4. PICK c, g : Routes(fn, body, c, g) /\ Heads(g)
    BY <2>2 DEF Guided
  <2>5. Routes(fn, body, c, g)'
    BY <1>0, <2>1, <2>4
  <2>6. IsFunction(fn) /\ CheckCfg(fn) = {} /\ 0 \notin Labels(fn)
    BY GraphFacts, LabelsAssumption DEF CInv, SInv, Graph
  <2>7. pc' # 0
    <3>1. Arrives(d)'
      BY <1>3, <2>3, REnter, RBranch, RPlain DEF RunBody
    <3>. QED
      BY <3>1 DEF Arrives
  <2>8. CASE EnterRegion \/ BranchOut \/ BranchBack \/ When \/ Choose \/ SetTarget
    <3>1. Heads(g)' /\ UNCHANGED <<at, arm, beat>>
      BY <2>3, <2>4, <2>6, <2>8, GuidedBranch, GuidedChoice
    <3>2. Guided'
      BY <2>5, <2>7, <3>1 DEF Guided
    <3>. QED
      BY <1>0, <3>1, <3>2 DEF W!vars
  <2>9. CASE RunBlock
    <3>1. at = 0 => arm = 0
      BY DEF Guided
    <3>2. Heads(g)' /\ at' # 0 /\ W!Next
      BY <2>3, <2>4, <2>6, <2>9, <3>1, GuidedRun
    <3>3. Guided'
      BY <2>5, <2>7, <3>2 DEF Guided
    <3>. QED
      BY <3>2, <3>3
  <2>. QED
    BY <1>3, <2>8, <2>9 DEF RunBody
<1> QED
  BY <1>1, <1>2, <1>3 DEF NextFlow

(* A run of the body, as it is structured or as the dispatch loop, is a    *)
(* walk over the graph of the function: the entry first, and after each    *)
(* block the target of the arm that was taken.                             *)
THEOREM BodyWalksTheGraph == SpecFlow => W!Init /\ [][W!Next]_(W!vars)
<1> DEFINE WalkInv == FlowInv /\ Mapped /\ Guided
<1>1. InitFlow => FlowInv /\ Mapped /\ Guided /\ W!Init
  <2>. SUFFICES ASSUME InitFlow PROVE FlowInv /\ Mapped /\ Guided /\ W!Init
    OBVIOUS
  <2>1. Init /\ pc = 0 /\ at = 0 /\ arm = 0 /\ pending = 0 /\ beat = FALSE
    BY DEF InitFlow
  <2>2. FlowInv
    BY FlowStarts
  <2>3. Mapped
    BY <2>1 DEF Init, Mapped
  <2>4. Guided
    BY <2>1 DEF Guided
  <2>. QED
    BY <2>1, <2>2, <2>3, <2>4 DEF W!Init
<1>2. WalkInv /\ [NextFlow]_flowVars => WalkInv' /\ [W!Next]_(W!vars)
  <2>. SUFFICES ASSUME FlowInv, Mapped, Guided, [NextFlow]_flowVars
                PROVE  FlowInv' /\ Mapped' /\ Guided' /\ [W!Next]_(W!vars)
    OBVIOUS
  <2>1. FlowInv'
    BY FlowNext
  <2>2. Mapped'
    BY FlowSteps, MappedNext DEF FlowInv
  <2>3. Guided' /\ [W!Next]_(W!vars)
    BY GuidedNext DEF FlowInv
  <2>. QED
    BY <2>1, <2>2, <2>3
<1>3. InitFlow => WalkInv /\ W!Init
  BY <1>1
<1>. HIDE DEF WalkInv
<1> QED
  BY <1>2, <1>3, PTL DEF SpecFlow
=============================================================================
