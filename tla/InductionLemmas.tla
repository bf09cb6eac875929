--------------------------- MODULE InductionLemmas ---------------------------
(***************************************************************************)
(* Induction over the naturals, and what follows from it: the smallest and *)
(* the largest number of a set, functions defined by recursion, and        *)
(* FlattenSeq of the community modules, which is such a function.  The     *)
(* statements are about sets and not about predicates, so that the provers *)
(* can instantiate them.                                                   *)
(***************************************************************************)
EXTENDS Integers, FiniteSetTheorems, SequenceTheorems, SequencesExt, FiniteSetsExt, TLAPS

\* A set that has 0, and with each number the next.
Inductive(S) == 0 \in S /\ \A n \in Nat : n \in S => n + 1 \in S

\* The same up to n.
InductiveTo(n, S) == 0 \in S /\ \A i \in 1..n : i - 1 \in S => i \in S

\* It has them all.  Were x not in
\* it, no number up to x would be: y |-> y - 1 would take those outside it one to
\* one to those outside it but x, who are fewer.
LEMMA SetInduction ==
  ASSUME NEW S, Inductive(S)
  PROVE  Nat \subseteq S
<1> SUFFICES ASSUME NEW x \in Nat, x \notin S
             PROVE  FALSE
  OBVIOUS
<1> DEFINE D == {y \in 0..x : y \notin S}
<1>1. \A y \in D : y - 1 \in D \ {x}
  <2> TAKE y \in D
  <2>1. y # 0
    BY DEF Inductive
  <2>2. y - 1 \in Nat /\ (y - 1) + 1 = y
    BY <2>1
  <2>3. y - 1 \notin S
    BY <2>2 DEF Inductive
  <2> QED
    BY <2>2, <2>3
<1>2. IsFiniteSet(D)
  <2>1. IsFiniteSet(0..x)
    BY FS_Interval
  <2> QED
    BY <2>1, FS_Subset
<1>3. x \in D
  OBVIOUS
<1> HIDE DEF D
<1>4. /\ IsFiniteSet(D \ {x}) /\ Cardinality(D \ {x}) = Cardinality(D) - 1
      /\ Cardinality(D) \in Nat
  BY <1>2, <1>3, FS_RemoveElement, FS_CardinalityType
<1>5. \E y, z \in D : y # z /\ y - 1 = z - 1
  <2> DEFINE f == [y \in D |-> y - 1]
  <2>1. f \in [D -> D \ {x}]
    BY <1>1
  <2>2. IsFiniteSet(D \ {x}) /\ Cardinality(D \ {x}) < Cardinality(D)
    BY <1>4
  <2> HIDE DEF f
  <2>3. \E y, z \in D : y # z /\ f[y] = f[z]
    BY <1>2, <2>1, <2>2, FS_PigeonHole
  <2> QED
    BY <2>3 DEF f
<1>6. D \subseteq Nat
  BY DEF D
<1>7. \A y, z \in Nat : y - 1 = z - 1 => y = z
  OBVIOUS
<1> QED
  <2> HIDE DEF Inductive
  <2>1. PICK y \in D, z \in D : y # z /\ y - 1 = z - 1
    BY <1>5
  <2>2. y \in Nat /\ z \in Nat
    BY <1>6
  <2> QED
    BY <1>7, <2>1, <2>2

LEMMA UpToInduction ==
  ASSUME NEW n \in Nat, NEW S, InductiveTo(n, S)
  PROVE  0..n \subseteq S
<1> DEFINE T == {i \in Nat : i <= n => i \in S}
<1>1. 0 \in T
  BY DEF InductiveTo
<1>2. \A i \in Nat : i \in T => i + 1 \in T
  <2> SUFFICES ASSUME NEW i \in Nat, i \in T, i + 1 <= n
               PROVE  i + 1 \in S
    OBVIOUS
  <2>1. i \in S /\ i + 1 \in 1..n /\ (i + 1) - 1 = i
    OBVIOUS
  <2> QED
    BY <2>1 DEF InductiveTo
<1> HIDE DEF T
<1>3. Nat \subseteq T
  <2>1. Inductive(T)
    BY <1>1, <1>2, Zenon DEF Inductive
  <2> QED
    BY <2>1, SetInduction
<1> QED
  BY <1>3 DEF T

\* What Min and Max of FiniteSetsExt find.
LEMMA Smallest ==
  ASSUME NEW S, S \subseteq Nat, S # {}
  PROVE  Min(S) \in S /\ \A x \in S : Min(S) <= x
<1> DEFINE T == {n \in Nat : \A m \in 0..n : m \notin S}
<1> SUFFICES \E m \in S : \A x \in S : m <= x
  BY DEF Min
<1> SUFFICES ASSUME ~\E m \in S : \A x \in S : m <= x
             PROVE  FALSE
  OBVIOUS
<1>1. 0 \in T
  <2>1. 0 \notin S
    OBVIOUS
  <2> QED
    BY <2>1
<1>2. \A n \in Nat : n \in T => n + 1 \in T
  <2> SUFFICES ASSUME NEW n \in Nat, n \in T
               PROVE  n + 1 \in T
    OBVIOUS
  <2>1. \A x \in S : n + 1 <= x
    <3> TAKE x \in S
    <3>1. ~(x \in 0..n) /\ x \in Nat
      OBVIOUS
    <3> QED
      BY <3>1
  <2>2. n + 1 \notin S
    BY <2>1
  <2>3. \A m \in 0..(n + 1) : m \in 0..n \/ m = n + 1
    OBVIOUS
  <2> QED
    BY <2>2, <2>3
<1> HIDE DEF T
<1>3. Nat \subseteq T
  <2>1. Inductive(T)
    BY <1>1, <1>2, Zenon DEF Inductive
  <2> QED
    BY <2>1, SetInduction
<1>4. PICK m \in S : m \in Nat
  OBVIOUS
<1>5. m \in 0..m /\ m \in T
  BY <1>3, <1>4
<1> QED
  BY <1>5 DEF T

LEMMA Largest ==
  ASSUME NEW n \in Nat, NEW S, S \subseteq 0..n, S # {}
  PROVE  Max(S) \in S /\ \A x \in S : Max(S) >= x
<1> DEFINE T == {i \in Nat : n - i \in S}
<1>1. T \subseteq Nat /\ T # {}
  <2>1. PICK x \in S : x \in 0..n
    OBVIOUS
  <2>2. n - x \in Nat /\ n - (n - x) = x
    BY <2>1
  <2> QED
    BY <2>1, <2>2
<1>2. PICK m : m = Min(T)
  OBVIOUS
<1>3. m \in T /\ \A i \in T : m <= i
  <2> HIDE DEF T
  <2> QED
    BY <1>1, <1>2, Smallest
<1>4. m \in Nat /\ n - m \in S
  BY <1>3
<1>5. \A x \in S : n - m >= x
  <2> TAKE x \in S
  <2>1. x \in 0..n /\ n - x \in Nat /\ n - (n - x) = x
    OBVIOUS
  <2>2. m <= n - x
    BY <1>3, <2>1
  <2> HIDE DEF T
  <2> QED
    BY <1>4, <2>1, <2>2
<1> HIDE DEF T
<1> QED
  BY <1>4, <1>5 DEF Max

\* f begins with x, and step leads from each value to the next.
Recurs(f, n, V, x, step) ==
  f \in [0..n -> V] /\ f[0] = x /\ \A i \in 1..n : f[i] = step[i][f[i - 1]]

\* The same, but step looks back to the value at prev[i].
LooksBack(f, n, V, x, prev, step) ==
  f \in [0..n -> V] /\ f[0] = x /\ \A i \in 1..n : f[i] = step[i][f[prev[i]]]

\* There are such functions.
LEMMA BackRecursion ==
  ASSUME NEW n \in Nat, NEW V, NEW x \in V, NEW step \in [1..n -> [V -> V]],
         NEW prev, \A i \in 1..n : prev[i] \in 0..(i - 1)
  PROVE  \E f : LooksBack(f, n, V, x, prev, step)
<1> DEFINE Good(k, f) == f \in [0..k -> V] /\ f[0] = x /\ \A i \in 1..k : f[i] = step[i][f[prev[i]]]
           S == {k \in 0..n : \E f : Good(k, f)}
<1>1. 0 \in S
  <2>1. Good(0, [i \in 0..0 |-> x])
    OBVIOUS
  <2>2. 0 \in 0..n
    OBVIOUS
  <2> HIDE DEF Good
  <2> QED
    BY <2>1, <2>2
<1>2. \A k \in 1..n : k - 1 \in S => k \in S
  <2> HIDE DEF Good
  <2>0. \A k \in 1..n : k \in 0..n
    OBVIOUS
  <2> SUFFICES ASSUME NEW k \in 1..n, NEW f, Good(k - 1, f)
               PROVE  \E g : Good(k, g)
    BY <2>0, Zenon
  <2> USE DEF Good
  <2> DEFINE g == [i \in 0..k |-> IF i = k THEN step[k][f[prev[k]]] ELSE f[i]]
  <2>1. prev[k] \in 0..(k - 1) /\ f[prev[k]] \in V /\ step[k] \in [V -> V]
    OBVIOUS
  <2>2. step[k][f[prev[k]]] \in V
    BY <2>1
  <2>3. \A i \in 0..k : i # k => i \in 0..(k - 1)
    OBVIOUS
  <2>4. g \in [0..k -> V]
    BY <2>2, <2>3
  <2>5. g[0] = x /\ g[k] = step[k][f[prev[k]]] /\ \A i \in 0..(k - 1) : g[i] = f[i]
    OBVIOUS
  <2>6. \A i \in 1..k : g[i] = step[i][g[prev[i]]]
    <3> TAKE i \in 1..k
    <3>1. CASE i = k
      BY <2>1, <2>5, <3>1
    <3>2. CASE i # k
      <4>1. i \in 1..(k - 1) /\ i \in 0..(k - 1) /\ prev[i] \in 0..(k - 1)
        BY <3>2
      <4> HIDE DEF g
      <4> QED
        BY <2>5, <4>1
    <3> QED
      BY <3>1, <3>2
  <2> HIDE DEF g
  <2>7. Good(k, g)
    BY <2>4, <2>5, <2>6
  <2> QED
    BY <2>7
<1> HIDE DEF S
<1>3. 0..n \subseteq S
  BY <1>1, <1>2, UpToInduction DEF InductiveTo
<1>4. n \in S
  BY <1>3
<1> QED
  BY <1>4 DEF S, LooksBack

LEMMA Recursion ==
  ASSUME NEW n \in Nat, NEW V, NEW x \in V, NEW step \in [1..n -> [V -> V]]
  PROVE  \E f : Recurs(f, n, V, x, step)
<1>1. PICK prev : prev = [i \in 1..n |-> i - 1]
  OBVIOUS
<1>2. \A i \in 1..n : prev[i] = i - 1 /\ prev[i] \in 0..(i - 1)
  BY <1>1
<1>3. PICK f : LooksBack(f, n, V, x, prev, step)
  BY <1>2, BackRecursion
<1> QED
  BY <1>2, <1>3 DEF LooksBack, Recurs

-----------------------------------------------------------------------------
(* What FlattenSeq answers.                                                *)

\* w has the texts that FlattenSeq goes through.
Steps(w, n, V, ss) ==
  w \in [0..n -> Seq(V)] /\ w[0] = <<>> /\ \A i \in 1..n : w[i] = w[i - 1] \o ss[i]

\* What FlattenSeq answers, given the texts it goes through.
LEMMA FlattenIs ==
  ASSUME NEW V, NEW ss \in Seq(Seq(V)), NEW n, n = Len(ss),
         NEW w, Steps(w, n, V, ss)
  PROVE  FlattenSeq(ss) = w[n]
<1> USE DEF Steps
<1> DEFINE body(f) == [i \in 1..n |-> IF i = 1 THEN ss[i] ELSE f[i - 1] \o ss[i]]
<1>0. n \in Nat /\ \A i \in 1..n : ss[i] \in Seq(V) /\ i \in 0..n
  OBVIOUS
<1>3. \A i \in 2..n : i - 1 \in 1..n /\ i \in 1..n
  BY <1>0
<1>4. 1 \in 1..n => w[1] = ss[1]
  <2> SUFFICES ASSUME 1 \in 1..n  PROVE w[1] = ss[1]
    OBVIOUS
  <2>1. w[1] = w[1 - 1] \o ss[1]
    OBVIOUS
  <2>2. w[1 - 1] = <<>> /\ ss[1] \in Seq(V)
    BY <1>0
  <2> QED
    BY <2>1, <2>2
<1>1. CASE n = 0
  <2>1. Len(ss) = 0 /\ ss \in Seq(Seq(V))
    BY <1>1
  <2>2. ss = <<>>
    BY <2>1
  <2> QED
    BY <1>1, <2>2 DEF FlattenSeq
<1>2. CASE n # 0
  <2> DEFINE f == [i \in 1..n |-> w[i]]
             g == CHOOSE h : h = body(h)
  <2>1. f = body(f)
    <3>1. \A i \in 1..n : f[i] = IF i = 1 THEN ss[i] ELSE f[i - 1] \o ss[i]
      <4> TAKE i \in 1..n
      <4>1. CASE i = 1
        BY <1>4, <4>1
      <4>2. CASE i # 1
        <5>1. i - 1 \in 1..n
          BY <1>3, <4>2, <1>0
        <5>2. f[i - 1] = w[i - 1] /\ f[i] = w[i]
          BY <5>1
        <5> HIDE DEF f
        <5> QED
          BY <4>2, <5>2
      <4> QED
        BY <4>1, <4>2
    <3> QED
      BY <3>1
  <2>2. g = body(g)
    BY <2>1, Zenon
  <2>3. \A i \in 1..n : g[i] = w[i]
    <3> DEFINE S == {i \in 0..n : i = 0 \/ g[i] = w[i]}
    <3> HIDE DEF g
    <3>1. 0 \in S
      BY <1>0
    <3>2. \A i \in 1..n : i - 1 \in S => i \in S
      <4> SUFFICES ASSUME NEW i \in 1..n, i - 1 \in S
                   PROVE  g[i] = w[i]
        OBVIOUS
      <4>1. g[i] = IF i = 1 THEN ss[i] ELSE g[i - 1] \o ss[i]
        BY <2>2
      <4>2. CASE i = 1
        BY <1>4, <4>1, <4>2
      <4>3. CASE i # 1
        <5>1. g[i - 1] = w[i - 1]
          BY <4>3
        <5> QED
          BY <4>1, <4>3, <5>1
      <4> QED
        BY <4>2, <4>3
    <3> HIDE DEF S
    <3>3. InductiveTo(n, S)
      BY <3>1, <3>2 DEF InductiveTo
    <3>4. 0..n \subseteq S
      BY <1>0, <3>3, UpToInduction
    <3> QED
      BY <3>4 DEF S
  <2>4. FlattenSeq(ss) = g[n]
    BY <1>2, Zenon DEF FlattenSeq
  <2>5. n \in 1..n
    BY <1>0, <1>2
  <2> HIDE DEF g
  <2> QED
    BY <2>3, <2>4, <2>5
<1> QED
  BY <1>1, <1>2

\* There are such texts.
LEMMA FlattenSteps ==
  ASSUME NEW V, NEW ss \in Seq(Seq(V)), NEW n, n = Len(ss)
  PROVE  \E w : Steps(w, n, V, ss)
<1> DEFINE fs == [i \in 1..n |-> [v \in Seq(V) |-> v \o ss[i]]]
<1>0. PICK step, none, T : step = fs /\ none = <<>> /\ T = Seq(V)
  OBVIOUS
<1>1. step \in [1..n -> [T -> T]] /\ n \in Nat /\ none \in T
  BY <1>0
<1>2. \A i \in 1..n, v \in Seq(V) : step[i][v] = v \o ss[i]
  BY <1>0
<1> HIDE DEF fs
<1>3. PICK w : Recurs(w, n, T, none, step)
  BY <1>1, Recursion
<1>4. \A i \in 1..n : i - 1 \in 0..n
  BY <1>1
<1>5. w \in [0..n -> Seq(V)] /\ w[0] = <<>> /\ \A i \in 1..n : w[i] = step[i][w[i - 1]]
  BY <1>0, <1>3 DEF Recurs
<1>6. \A i \in 1..n : w[i] = w[i - 1] \o ss[i]
  <2> TAKE i \in 1..n
  <2>1. w[i - 1] \in Seq(V)
    BY <1>4, <1>5
  <2> QED
    BY <1>2, <1>5, <2>1
<1> QED
  BY <1>5, <1>6 DEF Steps

\* One text more.
LEMMA FlattenAppend ==
  ASSUME NEW V, NEW ss \in Seq(Seq(V)), NEW t \in Seq(V)
  PROVE  /\ FlattenSeq(ss) \in Seq(V)
         /\ FlattenSeq(Append(ss, t)) = FlattenSeq(ss) \o t
<1>1. PICK tt, n, m : tt = Append(ss, t) /\ n = Len(ss) /\ m = n + 1
  OBVIOUS
<1>2. /\ n \in Nat /\ m \in Nat /\ tt \in Seq(Seq(V)) /\ m = Len(tt) /\ tt[m] = t
      /\ \A i \in 1..n : tt[i] = ss[i] /\ i \in 1..m /\ i \in 0..m
  BY <1>1
<1>3. PICK w : Steps(w, m, V, tt)
  BY <1>2, FlattenSteps
<1>4. FlattenSeq(tt) = w[m]
  BY <1>2, <1>3, FlattenIs
<1>5. FlattenSeq(ss) = w[n] /\ w[n] \in Seq(V)
  <2> DEFINE v == [i \in 0..n |-> w[i]]
  <2> USE DEF Steps
  <2>1. v \in [0..n -> Seq(V)] /\ v[0] = <<>> /\ v[n] = w[n]
    BY <1>1, <1>2, <1>3
  <2>2. \A i \in 1..n : v[i] = v[i - 1] \o ss[i]
    <3> TAKE i \in 1..n
    <3>1. i \in 1..m /\ i \in 0..n /\ i - 1 \in 0..n
      BY <1>2
    <3>2. v[i] = w[i] /\ v[i - 1] = w[i - 1]
      BY <3>1
    <3> HIDE DEF v
    <3> QED
      BY <1>2, <1>3, <3>1, <3>2
  <2>3. v[n] \in Seq(V)
    BY <2>1, <1>2
  <2> HIDE DEF v
  <2>4. Steps(v, n, V, ss)
    BY <2>1, <2>2
  <2> HIDE DEF Steps
  <2> QED
    BY <1>1, <2>1, <2>3, <2>4, FlattenIs
<1>6. w[m] = w[n] \o t
  <2>1. m \in 1..m /\ m - 1 = n
    BY <1>1, <1>2
  <2> QED
    BY <1>2, <1>3, <2>1 DEF Steps
<1> QED
  BY <1>1, <1>4, <1>5, <1>6

\* Where in a text the pieces it is made of begin: piece i is behind at[i - 1].
Spans(at, n, V, ss, text) ==
  /\ text \in Seq(V) /\ at \in [0..n -> Nat] /\ at[0] = 0 /\ at[n] = Len(text)
  /\ \A i \in 1..n : /\ at[i] = at[i - 1] + Len(ss[i]) /\ at[i] <= at[n]
                     /\ \A k \in 1..Len(ss[i]) : text[at[i - 1] + k] = ss[i][k]

\* The first m pieces, in the text made of them.
Placed(at, w, ss, m) ==
  \A i \in 1..m : at[i] <= at[m] /\ \A k \in 1..Len(ss[i]) : w[m][at[i - 1] + k] = ss[i][k]

\* Every byte of every piece is in the text, in its place.
LEMMA FlattenAt ==
  ASSUME NEW V, NEW ss \in Seq(Seq(V)), NEW n, n = Len(ss)
  PROVE  \E at : Spans(at, n, V, ss, FlattenSeq(ss))
<1>1. PICK w : Steps(w, n, V, ss)
  BY FlattenSteps
<1>2. FlattenSeq(ss) = w[n]
  BY <1>1, FlattenIs
<1>3. n \in Nat /\ w \in [0..n -> Seq(V)] /\ w[0] = <<>>
  BY <1>1 DEF Steps
<1>4. PICK at : at = [i \in 0..n |-> Len(w[i])]
  OBVIOUS
<1>5. at \in [0..n -> Nat] /\ at[0] = 0 /\ at[n] = Len(w[n])
  BY <1>3, <1>4
<1>6. \A i \in 1..n : /\ w[i] = w[i - 1] \o ss[i] /\ i - 1 \in 0..n /\ i \in 0..n /\ ss[i] \in Seq(V)
                      /\ at[i] = Len(w[i]) /\ at[i - 1] = Len(w[i - 1])
                      /\ w[i] \in Seq(V) /\ w[i - 1] \in Seq(V)
  <2> TAKE i \in 1..n
  <2>1. i - 1 \in 0..n /\ i \in 0..n /\ ss[i] \in Seq(V)
    BY <1>3
  <2>2. w[i] = w[i - 1] \o ss[i]
    BY <1>1 DEF Steps
  <2> QED
    BY <1>3, <1>4, <2>1, <2>2
<1>7. \A i \in 1..n : /\ at[i] = at[i - 1] + Len(ss[i]) /\ at[i - 1] \in Nat /\ at[i] \in Nat
                      /\ \A j \in 1..at[i - 1] : w[i][j] = w[i - 1][j]
                      /\ \A k \in 1..Len(ss[i]) : w[i][at[i - 1] + k] = ss[i][k]
  <2> TAKE i \in 1..n
  <2>1. PICK a, b, c : a = w[i - 1] /\ b = ss[i] /\ c = w[i]
    OBVIOUS
  <2>2. a \in Seq(V) /\ b \in Seq(V) /\ c = a \o b /\ Len(a) = at[i - 1] /\ Len(c) = at[i]
    BY <1>6, <2>1
  <2>3. Len(c) = Len(a) + Len(b) /\ \A j \in 1..Len(c) : c[j] = IF j <= Len(a) THEN a[j] ELSE b[j - Len(a)]
    <3>1. a \in Seq(V) /\ b \in Seq(V)
      BY <2>2
    <3>2. Len(a \o b) = Len(a) + Len(b)
      BY <3>1, ConcatProperties
    <3>3. \A j \in 1..(Len(a) + Len(b)) : (a \o b)[j] = IF j <= Len(a) THEN a[j] ELSE b[j - Len(a)]
      BY <3>1, ConcatProperties
    <3>4. c = a \o b
      BY <2>2
    <3> QED
      BY <3>2, <3>3, <3>4
  <2>4. PICK x, y : x = Len(a) /\ y = Len(b) /\ x \in Nat /\ y \in Nat
    BY <2>2, LenProperties
  <2>5. \A j \in 1..x : c[j] = a[j]
    BY <2>3, <2>4
  <2>6. \A k \in 1..y : c[x + k] = b[k]
    <3> TAKE k \in 1..y
    <3>1. x + k \in 1..(x + y) /\ ~(x + k <= x) /\ (x + k) - x = k
      BY <2>4
    <3> QED
      BY <2>3, <2>4, <3>1
  <2>7. x = at[i - 1] /\ at[i] = x + y /\ y = Len(ss[i])
    BY <2>1, <2>2, <2>3, <2>4
  <2> QED
    BY <2>1, <2>4, <2>5, <2>6, <2>7
<1> DEFINE S == {m \in 0..n : Placed(at, w, ss, m)}
<1>8. InductiveTo(n, S)
  <2>1. 0 \in S
    BY <1>3 DEF Placed
  <2>2. ASSUME NEW m \in 1..n, m - 1 \in S PROVE m \in S
    <3>1. PICK l, d, c : l = m - 1 /\ d = at[l] /\ c = at[m]
      OBVIOUS
    <3>2. m \in 0..n /\ \A i \in 1..m : i \in 1..n /\ (i = m \/ i \in 1..l)
      BY <1>3, <3>1
    <3>3. d \in Nat /\ c \in Nat /\ d <= c /\ \A j \in 1..d : w[m][j] = w[l][j]
      <4>1. at[m] = at[l] + Len(ss[m]) /\ at[l] \in Nat /\ at[m] \in Nat /\ Len(ss[m]) \in Nat
            /\ \A j \in 1..at[l] : w[m][j] = w[l][j]
        BY <1>6, <1>7, <3>1
      <4> QED
        BY <3>1, <4>1
    <3>4. Placed(at, w, ss, l)
      BY <2>2, <3>1
    <3>5. ASSUME NEW i \in 1..m
          PROVE  at[i] <= c /\ \A k \in 1..Len(ss[i]) : w[m][at[i - 1] + k] = ss[i][k]
      <4>1. CASE i = m
        BY <1>7, <3>1, <3>2, <3>3, <4>1
      <4>2. CASE i # m
        <5>1. i \in 1..n /\ i \in 1..l
          BY <3>2, <4>2
        <5>2. at[i] <= d /\ \A k \in 1..Len(ss[i]) : w[l][at[i - 1] + k] = ss[i][k]
          BY <3>1, <3>4, <5>1 DEF Placed
        <5>3. PICK x, y, z : x = at[i - 1] /\ y = Len(ss[i]) /\ z = at[i]
          OBVIOUS
        <5>4. x \in Nat /\ y \in Nat /\ z = x + y
          BY <1>6, <1>7, <5>1, <5>3
        <5>5. z <= d
          BY <5>2, <5>3
        <5>6. z <= c /\ \A k \in 1..y : x + k \in 1..d
          BY <3>3, <5>4, <5>5
        <5> QED
          BY <3>3, <5>2, <5>3, <5>6
      <4> QED
        BY <4>1, <4>2
    <3> QED
      BY <3>1, <3>2, <3>5 DEF Placed
  <2> QED
    BY <2>1, <2>2 DEF InductiveTo
<1> HIDE DEF S
<1>9. n \in S
  <2>1. 0..n \subseteq S
    BY <1>3, <1>8, UpToInduction
  <2>2. n \in 0..n
    BY <1>3
  <2> QED
    BY <2>1, <2>2
<1>10. w[n] \in Seq(V)
  BY <1>3
<1>11. Spans(at, n, V, ss, w[n])
  BY <1>5, <1>7, <1>9, <1>10 DEF Spans, Placed, S
<1> QED
  BY <1>2, <1>11
=============================================================================
