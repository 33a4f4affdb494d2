------------------------ MODULE BatchRewrite_proofs ------------------------
(***************************************************************************)
(* Proofs about BatchRewrite.  Whatever the driver's table holds besides   *)
(* the audited entries, whatever it lacks, and whatever room the batch     *)
(* has, an executed batch is the rewritten one: every entry lies on a      *)
(* field that takes it, no binding of the driver is lost, and commands and *)
(* entries fit; and where the count of the scratch bindings tells what     *)
(* they are, every buffer of the scratch is bound once at its place.  The  *)
(* first half computes what the model's recursive functions and folds      *)
(* return (the layouts of the commands, a list of packets laid out, a list *)
(* of lists flattened), by induction over the numbers; then come the       *)
(* inductive invariant of the preparation and that of its scratch.         *)
(***************************************************************************)
EXTENDS BatchRewrite, FiniteSetTheorems, SequenceTheorems, TLAPS

\* A set of naturals that holds 0 and the successor of each member holds all
\* of them: a bound on the least natural outside would be one lower each time.
LEMMA NaturalInduction ==
    ASSUME NEW S \in SUBSET Nat, 0 \in S, \A k \in S : k + 1 \in S
    PROVE  S = Nat
<1> SUFFICES ASSUME NEW k \in Nat, k \notin S PROVE FALSE
    OBVIOUS
<1> DEFINE B == {j \in 0..k : j \notin S}
           f == [j \in B |-> j - 1]
<1>1. IsFiniteSet(B) /\ Cardinality(B) \in Nat
  <2>1. IsFiniteSet(0..k)
    BY FS_Interval
  <2>2. QED
    BY <2>1, FS_Subset, FS_CardinalityType
<1>2. IsFiniteSet(B \ {k}) /\ Cardinality(B \ {k}) = Cardinality(B) - 1
  <2>1. k \in B
    OBVIOUS
  <2> HIDE DEF B
  <2>2. IsFiniteSet(B \ {k})
    BY <1>1, FS_RemoveElement
  <2>3. Cardinality(B \ {k}) = IF k \in B THEN Cardinality(B) - 1 ELSE Cardinality(B)
    BY <1>1, FS_RemoveElement
  <2>4. QED
    BY <2>1, <2>2, <2>3
<1>3. \A j \in B : j - 1 \in B \ {k}
  OBVIOUS
<1>4. f \in Injection(B, B \ {k})
  <2>1. f \in [B -> B \ {k}]
    BY <1>3
  <2>2. \A i, j \in B : f[i] = f[j] => i = j
    OBVIOUS
  <2>3. QED
    BY <2>1, <2>2 DEF Injection, IsInjective
<1>5. Cardinality(B) <= Cardinality(B \ {k})
  BY <1>1, <1>2, <1>4, FS_Injection, Zenon
<1>6. QED
  BY <1>1, <1>2, <1>5

\* The ends of n pieces that lie one behind the other.
IsEnds(e, n, size) ==
    /\ e \in [0..n -> Nat]
    /\ e[0] = 0
    /\ \A i \in 1..n : e[i] = e[i - 1] + size[i]

\* A later piece ends no earlier.
LEMMA EndsRise ==
    ASSUME NEW n \in Nat, NEW size \in [1..n -> Nat], NEW e, IsEnds(e, n, size)
    PROVE  \A i, j \in 0..n : i <= j => e[i] <= e[j]
<1> SUFFICES ASSUME NEW i \in 0..n PROVE \A j \in 0..n : i <= j => e[i] <= e[j]
    OBVIOUS
<1> DEFINE S == {j \in Nat : i + j <= n => e[i] <= e[i + j]}
<1>1. 0 \in S
  BY DEF IsEnds
<1>2. \A k \in S : k + 1 \in S
  <2> SUFFICES ASSUME NEW k \in S, i + (k + 1) <= n PROVE e[i] <= e[i + (k + 1)]
      OBVIOUS
  <2>1. i + k \in 0..n /\ i + (k + 1) \in 1..n /\ (i + (k + 1)) - 1 = i + k
    OBVIOUS
  <2>2. e[i + (k + 1)] = e[i + k] + size[i + (k + 1)]
    BY <2>1 DEF IsEnds
  <2>3. e[i] <= e[i + k] /\ e[i] \in Nat /\ e[i + k] \in Nat /\ size[i + (k + 1)] \in Nat
    BY <2>1 DEF IsEnds
  <2>4. QED
    BY <2>2, <2>3
<1>3. S = Nat
  BY <1>1, <1>2, NaturalInduction, Zenon
<1>4. ASSUME NEW j \in 0..n, i <= j PROVE e[i] <= e[j]
  <2>1. j - i \in Nat /\ i + (j - i) = j
    BY <1>4
  <2>2. j - i \in S
    <3> HIDE DEF S
    <3>1. QED
      BY <1>3, <2>1
  <2>3. QED
    BY <2>1, <2>2
<1>5. QED
  BY <1>4

\* Every place up to the last end is in some piece.
Covered(e, n, size) ==
    \A t \in 1..e[n] : \E i \in 1..n : \E k \in 1..size[i] : t = e[i - 1] + k

\* Nothing is left between the pieces.
LEMMA EndsCover ==
    ASSUME NEW n \in Nat, NEW size \in [1..n -> Nat], NEW e, IsEnds(e, n, size)
    PROVE  Covered(e, n, size)
<1> DEFINE P(m) == \A t \in 1..e[m] : \E i \in 1..n : \E k \in 1..size[i] : t = e[i - 1] + k
           S == {m \in Nat : m <= n => P(m)}
<1>1. 0 \in S
  BY DEF IsEnds
<1>2. \A m \in S : m + 1 \in S
  <2> SUFFICES ASSUME NEW m \in S, m + 1 <= n PROVE P(m + 1)
      <3> HIDE DEF P
      <3> QED
        OBVIOUS
  <2> SUFFICES ASSUME NEW t \in 1..e[m + 1]
               PROVE  \E i \in 1..n : \E k \in 1..size[i] : t = e[i - 1] + k
      OBVIOUS
  <2>0. P(m)
    <3> HIDE DEF P
    <3> QED
      OBVIOUS
  <2>1. m + 1 \in 1..n /\ m \in 0..n /\ (m + 1) - 1 = m
    OBVIOUS
  <2>2. e[m + 1] = e[m] + size[m + 1] /\ e[m] \in Nat /\ size[m + 1] \in Nat
    BY <2>1 DEF IsEnds
  <2>3. CASE t <= e[m]
    BY <2>0, <2>1, <2>2, <2>3
  <2>4. CASE t > e[m]
    <3>1. t - e[m] \in 1..size[m + 1] /\ t = e[(m + 1) - 1] + (t - e[m])
      BY <2>1, <2>2, <2>4
    <3>2. QED
      BY <2>1, <3>1
  <2>5. QED
    BY <2>2, <2>3, <2>4
<1>3. S = Nat
  BY <1>1, <1>2, NaturalInduction, Zenon
<1>4. n \in S
  BY <1>3
<1>5. QED
  BY <1>4 DEF Covered

\* The recursive function that adds sizes up has those ends.
LEMMA EndsExist ==
    ASSUME NEW n \in Nat, NEW size \in [1..n -> Nat]
    PROVE  \E e : /\ e = [i \in 0..n |-> IF i = 0 THEN 0 ELSE e[i - 1] + size[i]]
                  /\ IsEnds(e, n, size)
<1> DEFINE P(m, e) == /\ e = [i \in 0..m |-> IF i = 0 THEN 0 ELSE e[i - 1] + size[i]]
                      /\ e \in [0..m -> Nat]
           S == {m \in Nat : m <= n => \E e : P(m, e)}
<1>1. 0 \in S
  <2> DEFINE e == [i \in 0..0 |-> 0]
  <2>1. e = [i \in 0..0 |-> IF i = 0 THEN 0 ELSE e[i - 1] + size[i]]
    OBVIOUS
  <2>2. P(0, e)
    BY <2>1
  <2>3. QED
    BY <2>2
<1>2. \A m \in S : m + 1 \in S
  <2> SUFFICES ASSUME NEW m \in S, m + 1 <= n PROVE \E e : P(m + 1, e)
      <3> HIDE DEF P
      <3> QED
        OBVIOUS
  <2>1. PICK e : P(m, e)
    OBVIOUS
  <2> DEFINE g == [i \in 0..(m + 1) |-> IF i = m + 1 THEN e[m] + size[m + 1] ELSE e[i]]
  <2>2. g \in [0..(m + 1) -> Nat]
    BY <2>1
  <2>3. \A i \in 0..(m + 1) : g[i] = IF i = 0 THEN 0 ELSE g[i - 1] + size[i]
    <3> TAKE i \in 0..(m + 1)
    <3>1. CASE i = m + 1
      BY <3>1
    <3>2. CASE i # m + 1
      <4>1. i \in 0..m /\ (i # 0 => i - 1 \in 0..m)
        BY <3>2
      <4>2. g[i] = e[i] /\ (i # 0 => g[i - 1] = e[i - 1])
        BY <4>1, <3>2
      <4>3. e[i] = IF i = 0 THEN 0 ELSE e[i - 1] + size[i]
        BY <2>1, <4>1
      <4>4. QED
        BY <4>2, <4>3
    <3>3. QED
      BY <3>1, <3>2
  <2>4. g = [i \in 0..(m + 1) |-> IF i = 0 THEN 0 ELSE g[i - 1] + size[i]]
    <3> HIDE DEF g
    <3>1. QED
      BY <2>2, <2>3
  <2>5. P(m + 1, g)
    BY <2>2, <2>4
  <2> HIDE DEF P, g
  <2>6. QED
    BY <2>5
<1>3. S = Nat
  BY <1>1, <1>2, NaturalInduction, Zenon
<1>4. PICK e : P(n, e)
  <2>1. n \in S
    <3> HIDE DEF S
    <3> QED
      BY <1>3
  <2> HIDE DEF P
  <2>2. QED
    BY <2>1
<1>5. IsEnds(e, n, size)
  BY <1>4 DEF IsEnds
<1>6. QED
  BY <1>4, <1>5

\* The recursive function of FlattenSeq exists.
LEMMA FlattenDefined ==
    ASSUME NEW S, NEW n \in Nat, NEW ss \in [1..n -> Seq(S)]
    PROVE  \E f : f = [i \in 1..n |-> IF i = 1 THEN ss[i] ELSE f[i - 1] \o ss[i]]
<1> DEFINE P(m, f) == /\ f = [i \in 1..m |-> IF i = 1 THEN ss[i] ELSE f[i - 1] \o ss[i]]
                      /\ f \in [1..m -> Seq(S)]
           T == {m \in Nat : m <= n => \E f : P(m, f)}
<1>1. 0 \in T
  <2> DEFINE f == [i \in 1..0 |-> <<>>]
  <2>1. f = [i \in 1..0 |-> IF i = 1 THEN ss[i] ELSE f[i - 1] \o ss[i]]
    OBVIOUS
  <2>2. P(0, f)
    BY <2>1
  <2>3. QED
    BY <2>2
<1>2. \A m \in T : m + 1 \in T
  <2> SUFFICES ASSUME NEW m \in T, m + 1 <= n PROVE \E f : P(m + 1, f)
      <3> HIDE DEF P
      <3> QED
        OBVIOUS
  <2>1. PICK f : P(m, f)
    <3> HIDE DEF P
    <3> QED
      OBVIOUS
  <2> DEFINE v == IF m = 0 THEN ss[1] ELSE f[m] \o ss[m + 1]
             g == [i \in 1..(m + 1) |-> IF i = m + 1 THEN v ELSE f[i]]
  <2>a. v \in Seq(S)
    <3>1. m = 0 \/ m \in 1..m
      OBVIOUS
    <3>2. m # 0 => f[m] \in Seq(S) /\ ss[m + 1] \in Seq(S)
      BY <2>1, <3>1
    <3>3. m # 0 => f[m] \o ss[m + 1] \in Seq(S)
      BY <3>2, ConcatProperties
    <3>4. ss[1] \in Seq(S)
      OBVIOUS
    <3>6. QED
      BY <3>3, <3>4
  <2>b. (m = 0 => v = ss[1]) /\ (m # 0 => v = f[m] \o ss[m + 1])
    OBVIOUS
  <2> HIDE DEF v
  <2>2. g \in [1..(m + 1) -> Seq(S)]
    <3>5. \A i \in 1..(m + 1) : i # m + 1 => f[i] \in Seq(S)
      BY <2>1
    <3>6. QED
      BY <2>a, <3>5
  <2>3. \A i \in 1..(m + 1) : g[i] = IF i = 1 THEN ss[i] ELSE g[i - 1] \o ss[i]
    <3> TAKE i \in 1..(m + 1)
    <3>1. CASE i = m + 1
      <4>1. CASE m = 0
        BY <2>b, <3>1, <4>1
      <4>2. CASE m # 0
        <5>0. g[i] = v /\ v = f[m] \o ss[m + 1]
          BY <2>b, <3>1, <4>2
        <5>1. g[i] = f[m] \o ss[m + 1] /\ i # 1 /\ i - 1 = m
          <6>1. i # 1 /\ i - 1 = m
            BY <3>1, <4>2
          <6>2. QED
            BY <5>0, <6>1, Zenon
        <5>2. g[m] = f[m]
          BY <4>2
        <5>3. QED
          BY <3>1, <5>1, <5>2
      <4>3. QED
        BY <4>1, <4>2
    <3>2. CASE i # m + 1
      <4>1. i \in 1..m /\ (i # 1 => i - 1 \in 1..m)
        BY <3>2
      <4>2. g[i] = f[i] /\ (i # 1 => g[i - 1] = f[i - 1])
        BY <4>1, <3>2
      <4>3. f[i] = IF i = 1 THEN ss[i] ELSE f[i - 1] \o ss[i]
        BY <2>1, <4>1
      <4>4. QED
        BY <4>2, <4>3
    <3>3. QED
      BY <3>1, <3>2
  <2>4. g = [i \in 1..(m + 1) |-> IF i = 1 THEN ss[i] ELSE g[i - 1] \o ss[i]]
    <3> HIDE DEF g
    <3>1. QED
      BY <2>2, <2>3
  <2>5. P(m + 1, g)
    BY <2>2, <2>4
  <2> HIDE DEF P, g
  <2>6. QED
    BY <2>5
<1>3. n \in T
  <2>1. T = Nat
    BY <1>1, <1>2, NaturalInduction, Zenon
  <2> HIDE DEF T
  <2>2. QED
    BY <2>1
<1>4. PICK f : P(n, f)
  <2> HIDE DEF P
  <2> QED
    BY <1>3
<1>5. QED
  BY <1>4

\* The list s is the pieces of ss one behind the other, with the ends e.
Pieced(s, ss, n, e) ==
    /\ Len(s) = e[n]
    /\ \A i \in 1..n : \A k \in 1..Len(ss[i]) :
        /\ e[i - 1] + k \in 1..e[n]
        /\ s[e[i - 1] + k] = ss[i][k]

\* The lengths of the pieces.
Lengths(ss, n) == [i \in 1..n |-> Len(ss[i])]

\* The pieces of a flattened list lie one behind the other.
LEMMA Flattened ==
    ASSUME NEW S, NEW n \in Nat \ {0}, NEW ss \in [1..n -> Seq(S)],
           NEW e, IsEnds(e, n, Lengths(ss, n))
    PROVE  FlattenSeq(ss) \in Seq(S) /\ Pieced(FlattenSeq(ss), ss, n, e)
<1> DEFINE size == [i \in 1..n |-> Len(ss[i])]
           f == CHOOSE g : g = [i \in 1..n |-> IF i = 1 THEN ss[i] ELSE g[i - 1] \o ss[i]]
           Good(m) == /\ f[m] \in Seq(S)
                      /\ Len(f[m]) = e[m]
                      /\ \A i \in 1..m : \A k \in 1..Len(ss[i]) :
                            /\ e[i - 1] + k \in 1..e[m]
                            /\ f[m][e[i - 1] + k] = ss[i][k]
           T == {m \in Nat : m + 1 <= n => Good(m + 1)}
<1>0. IsEnds(e, n, size)
  BY DEF Lengths
<1>1. Len(ss) = n /\ size \in [1..n -> Nat]
  <2>1. \A i \in 1..n : Len(ss[i]) \in Nat
    BY LenProperties
  <2>2. ss \in Seq(Seq(S))
    BY SeqDef
  <2>3. QED
    BY <2>1, <2>2, LenProperties
<1>2. FlattenSeq(ss) = f[n]
  <2>1. n # 0
    OBVIOUS
  <2>2. FlattenSeq(ss) = (CHOOSE g : g = [i \in 1..Len(ss) |-> IF i = 1 THEN ss[i] ELSE g[i - 1] \o ss[i]])[Len(ss)]
    BY <1>1, <2>1, Zenon DEF FlattenSeq
  <2>3. QED
    BY <1>1, <2>2
<1>3. f = [i \in 1..n |-> IF i = 1 THEN ss[i] ELSE f[i - 1] \o ss[i]]
  <2>1. n \in Nat
    OBVIOUS
  <2>2. \E g : g = [i \in 1..n |-> IF i = 1 THEN ss[i] ELSE g[i - 1] \o ss[i]]
    BY <2>1, FlattenDefined, Zenon
  <2>3. QED
    BY <2>2, Zenon
<1> HIDE DEF f
<1>4. f[1] = ss[1] /\ \A i \in 2..n : f[i] = f[i - 1] \o ss[i]
  <2>1. \A i \in 1..n : f[i] = IF i = 1 THEN ss[i] ELSE f[i - 1] \o ss[i]
    BY <1>3, Zenon
  <2>2. 1 \in 1..n /\ \A i \in 2..n : i \in 1..n /\ i # 1
    OBVIOUS
  <2>3. QED
    BY <2>1, <2>2
<1>5. e[0] = 0 /\ \A i \in 0..n : e[i] \in Nat
  BY <1>0 DEF IsEnds
<1>6. \A i \in 1..n : e[i] = e[i - 1] + Len(ss[i]) /\ Len(ss[i]) \in Nat
  BY <1>0, <1>1 DEF IsEnds
<1>7. 0 \in T
  <2>1. e[1] = Len(ss[1]) /\ e[1 - 1] = 0
    BY <1>5, <1>6
  <2>2. Good(1)
    BY <1>4, <2>1
  <2>3. QED
    BY <2>2
<1>8. \A m \in T : m + 1 \in T
  <2> SUFFICES ASSUME NEW m \in T, (m + 1) + 1 <= n PROVE Good((m + 1) + 1)
      <3> HIDE DEF Good
      <3> QED
        OBVIOUS
  <2>1. Good(m + 1)
    <3> HIDE DEF Good
    <3> QED
      OBVIOUS
  <2> DEFINE j == (m + 1) + 1
  <2>2. j \in 2..n /\ j - 1 = m + 1 /\ j - 1 \in 1..n /\ j \in 1..n
    OBVIOUS
  <2>3. f[j] = f[j - 1] \o ss[j] /\ e[j] = e[j - 1] + Len(ss[j])
    BY <1>4, <1>6, <2>2
  <2>4. f[j - 1] \in Seq(S) /\ ss[j] \in Seq(S) /\ Len(f[j - 1]) = e[j - 1]
    BY <2>1, <2>2
  <2>5. /\ f[j] \in Seq(S)
        /\ Len(f[j]) = e[j - 1] + Len(ss[j])
        /\ \A i \in 1..(e[j - 1] + Len(ss[j])) :
                f[j][i] = IF i <= e[j - 1] THEN f[j - 1][i] ELSE ss[j][i - e[j - 1]]
    <3> DEFINE x == f[j - 1]
               y == ss[j]
    <3>1. x \in Seq(S) /\ y \in Seq(S) /\ Len(x) = e[j - 1]
      BY <2>4
    <3>2. f[j] = x \o y
      BY <2>3
    <3> HIDE DEF x, y
    <3>3. /\ x \o y \in Seq(S)
          /\ Len(x \o y) = Len(x) + Len(y)
          /\ \A i \in 1..(Len(x) + Len(y)) :
                (x \o y)[i] = IF i <= Len(x) THEN x[i] ELSE y[i - Len(x)]
      BY <3>1, ConcatProperties
    <3>4. /\ f[j] \in Seq(S)
          /\ Len(f[j]) = e[j - 1] + Len(y)
          /\ \A i \in 1..(e[j - 1] + Len(y)) :
                f[j][i] = IF i <= e[j - 1] THEN x[i] ELSE y[i - e[j - 1]]
      BY <3>1, <3>2, <3>3, Zenon
    <3>5. QED
      BY <3>4 DEF x, y
  <2>6. e[j - 1] \in Nat /\ Len(ss[j]) \in Nat
    BY <1>5, <1>6, <2>2
  <2>7. ASSUME NEW i \in 1..j, NEW k \in 1..Len(ss[i])
        PROVE  e[i - 1] + k \in 1..e[j] /\ f[j][e[i - 1] + k] = ss[i][k]
    <3>1. CASE i = j
      <4> DEFINE a == e[j - 1]
                 c == Len(ss[j])
      <4>0. a \in Nat /\ c \in Nat /\ k \in 1..c
        BY <2>6, <3>1
      <4>1. a + k \in 1..(a + c) /\ ~(a + k <= a) /\ (a + k) - a = k
        <5> HIDE DEF a, c
        <5> QED
          BY <4>0
      <4>2. QED
        BY <2>3, <2>5, <3>1, <4>1
    <3>2. CASE i # j
      <4>1. i \in 1..(m + 1)
        BY <3>2
      <4>2. e[i - 1] + k \in 1..e[j - 1] /\ f[j - 1][e[i - 1] + k] = ss[i][k]
        BY <2>1, <2>2, <4>1
      <4> DEFINE a == e[j - 1]
                 c == Len(ss[j])
                 d == e[i - 1] + k
      <4>0. a \in Nat /\ c \in Nat /\ d \in 1..a
        BY <2>6, <4>2
      <4>3. d \in 1..(a + c) /\ d <= a
        <5> HIDE DEF a, c, d
        <5> QED
          BY <4>0
      <4>4. QED
        BY <2>3, <2>5, <4>2, <4>3
    <3>3. QED
      BY <3>1, <3>2
  <2>8. QED
    BY <2>3, <2>5, <2>7
<1>9. n - 1 \in T
  <2>1. T = Nat
    BY <1>7, <1>8, NaturalInduction, Zenon
  <2> HIDE DEF T
  <2>2. QED
    BY <2>1
<1>10. Good(n)
  <2>1. (n - 1) + 1 = n
    OBVIOUS
  <2> HIDE DEF Good
  <2>2. QED
    BY <1>9, <2>1
<1>11. QED
  BY <1>2, <1>10 DEF Pieced

\* Pieces that lie one behind the other, all that is needed of them at once.
LEMMA FlattenedPieces ==
    ASSUME NEW S, NEW n \in Nat \ {0}, NEW ss \in [1..n -> Seq(S)]
    PROVE  \E e : /\ IsEnds(e, n, Lengths(ss, n))
                  /\ FlattenSeq(ss) \in Seq(S)
                  /\ Pieced(FlattenSeq(ss), ss, n, e)
                  /\ Covered(e, n, Lengths(ss, n))
<1>1. Lengths(ss, n) \in [1..n -> Nat] /\ n \in Nat
  BY LenProperties DEF Lengths
<1>2. PICK e : IsEnds(e, n, Lengths(ss, n))
  BY <1>1, EndsExist
<1>3. Covered(e, n, Lengths(ss, n))
  BY <1>1, <1>2, EndsCover
<1>4. FlattenSeq(ss) \in Seq(S) /\ Pieced(FlattenSeq(ss), ss, n, e)
  BY <1>2, Flattened
<1>5. QED
  BY <1>2, <1>3, <1>4

-----------------------------------------------------------------------------
(* The layouts of the commands.                                            *)

\* The kinds of DWORDs.
Kinds == {"header", "data", "reserved", "address", "upper", "attributes",
          "pitch", "u_offset", "v_offset"}

\* A layout of n fields with addresses at the places in A.
Fields(n, A) == {s \in Seq(Kinds) : Len(s) = n /\ \A a \in A : a \in 1..n /\ s[a] = "address"}

\* One layout behind another.
LEMMA FieldsJoined ==
    ASSUME NEW m \in Nat, NEW n \in Nat, NEW A, NEW B, NEW s \in Fields(m, A), NEW t \in Fields(n, B),
           NEW C \in SUBSET (1..(m + n)), \A c \in C : IF c <= m THEN c \in A ELSE c - m \in B
    PROVE  s \o t \in Fields(m + n, C)
<1>1. s \in Seq(Kinds) /\ t \in Seq(Kinds) /\ Len(s) = m /\ Len(t) = n
  BY DEF Fields
<1>2. /\ s \o t \in Seq(Kinds)
      /\ Len(s \o t) = m + n
      /\ \A i \in 1..(m + n) : (s \o t)[i] = IF i <= m THEN s[i] ELSE t[i - m]
  BY <1>1, ConcatProperties
<1>3. ASSUME NEW c \in C PROVE c \in 1..(m + n) /\ (s \o t)[c] = "address"
  <2>1. CASE c <= m
    <3>1. c \in A /\ c \in 1..(m + n)
      BY <2>1
    <3>2. s[c] = "address"
      BY <3>1 DEF Fields
    <3>3. QED
      BY <1>2, <2>1, <3>1, <3>2
  <2>2. CASE c > m
    <3>1. c - m \in B /\ c \in 1..(m + n) /\ ~(c <= m)
      BY <2>2
    <3>2. t[c - m] = "address"
      BY <3>1 DEF Fields
    <3>3. QED
      BY <1>2, <3>1, <3>2
  <2>3. c <= m \/ c > m
    OBVIOUS
  <2>4. QED
    BY <2>1, <2>2, <2>3, Zenon
<1>4. QED
  BY <1>2, <1>3 DEF Fields

\* A layout repeated.
RepeatsAt(t, n, s, m) == \A i \in 1..n : \A k \in 1..m : t[(i - 1) * m + k] = s[k]

\* The copies of a repeated layout lie one behind the other.
LEMMA TimesPlaces ==
    ASSUME NEW S, NEW n \in Nat \ {0}, NEW s \in Seq(S), NEW m \in Nat, Len(s) = m
    PROVE  Times(n, s) \in Seq(S) /\ Len(Times(n, s)) = n * m /\ RepeatsAt(Times(n, s), n, s, m)
<1> DEFINE ss == [i \in 1..n |-> s]
           e == [i \in 0..n |-> i * m]
<1>1. ss \in [1..n -> Seq(S)] /\ \A i \in 1..n : ss[i] = s
  OBVIOUS
<1>2. \A i \in 0..n : i * m \in Nat
  OBVIOUS
<1>3. \A i \in 1..n : i * m = (i - 1) * m + m /\ i - 1 \in 0..n
  OBVIOUS
<1>4. IsEnds(e, n, Lengths(ss, n))
  <2>1. e \in [0..n -> Nat]
    BY <1>2
  <2>2. e[0] = 0
    OBVIOUS
  <2>3. \A i \in 1..n : e[i] = e[i - 1] + Lengths(ss, n)[i]
    <3> TAKE i \in 1..n
    <3>1. i - 1 \in 0..n /\ i \in 0..n /\ Lengths(ss, n)[i] = m
      BY <1>1 DEF Lengths
    <3>2. e[i] = i * m /\ e[i - 1] = (i - 1) * m
      BY <3>1
    <3> HIDE DEF e, ss
    <3>3. QED
      BY <1>3, <3>1, <3>2
  <2>4. QED
    BY <2>1, <2>2, <2>3 DEF IsEnds
<1>5. FlattenSeq(ss) \in Seq(S) /\ Pieced(FlattenSeq(ss), ss, n, e)
  <2> HIDE DEF ss, e
  <2>1. QED
    BY <1>1, <1>4, Flattened
<1>6. \A i \in 1..n : e[i - 1] = (i - 1) * m /\ Len(ss[i]) = m
  BY <1>3
<1>7. e[n] = n * m
  OBVIOUS
<1>8. FlattenSeq(ss) = Times(n, s)
  BY DEF Times
<1> HIDE DEF e
<1>9. Len(Times(n, s)) = n * m
  BY <1>5, <1>7, <1>8 DEF Pieced
<1>10. ASSUME NEW i \in 1..n, NEW k \in 1..m PROVE Times(n, s)[(i - 1) * m + k] = s[k]
  <2>1. FlattenSeq(ss)[e[i - 1] + k] = ss[i][k]
    BY <1>5, <1>6 DEF Pieced
  <2> HIDE DEF ss
  <2>2. QED
    BY <1>1, <1>6, <1>8, <2>1
<1>11. QED
  BY <1>5, <1>8, <1>9, <1>10 DEF RepeatsAt

\* The places of the addresses in each copy.
Shifted(n, m, A) == UNION {{(i - 1) * m + a : a \in A} : i \in 1..n}

\* A layout repeated, with the addresses of each copy.
LEMMA FieldsTimes ==
    ASSUME NEW n \in Nat \ {0}, NEW m \in Nat, NEW A, NEW s \in Fields(m, A)
    PROVE  Times(n, s) \in Fields(n * m, Shifted(n, m, A))
<1>1. s \in Seq(Kinds) /\ Len(s) = m /\ \A a \in A : a \in 1..m /\ s[a] = "address"
  BY DEF Fields
<1>2. Times(n, s) \in Seq(Kinds) /\ Len(Times(n, s)) = n * m /\ RepeatsAt(Times(n, s), n, s, m)
  BY <1>1, TimesPlaces
<1>3. ASSUME NEW i \in 1..n, NEW a \in A
      PROVE  (i - 1) * m + a \in 1..(n * m) /\ Times(n, s)[(i - 1) * m + a] = "address"
  <2>1. (i - 1) * m + m = i * m /\ i * m <= n * m /\ (i - 1) * m \in Nat
    <3>1. n * m - i * m = (n - i) * m /\ n - i \in Nat /\ i - 1 \in Nat
      OBVIOUS
    <3>2. (n - i) * m \in Nat /\ (i - 1) * m \in Nat /\ i * m \in Nat /\ n * m \in Nat
      BY <3>1
    <3>3. (i - 1) * m + m = i * m
      OBVIOUS
    <3>4. QED
      BY <3>1, <3>2, <3>3
  <2>2. a \in 1..m /\ n * m \in Nat /\ i * m \in Nat
    BY <1>1
  <2>3. QED
    BY <1>1, <1>2, <2>1, <2>2 DEF RepeatsAt
<1>4. ASSUME NEW c \in Shifted(n, m, A) PROVE c \in 1..(n * m) /\ Times(n, s)[c] = "address"
  <2>1. PICK i \in 1..n : c \in {(i - 1) * m + a : a \in A}
    BY DEF Shifted
  <2>2. PICK a \in A : c = (i - 1) * m + a
    BY <2>1
  <2>3. QED
    BY <1>3, <2>2
<1>5. QED
  BY <1>2, <1>4 DEF Fields

\* Fewer of the addresses may be named.
LEMMA FieldsFewer ==
    ASSUME NEW n, NEW A, NEW B, B \subseteq A, NEW s \in Fields(n, A)
    PROVE  s \in Fields(n, B)
BY DEF Fields

\* Parts without an address that is of interest.
LEMMA FieldsBehind ==
    ASSUME NEW m \in Nat, NEW n \in Nat, NEW A, NEW s \in Fields(m, A), NEW t \in Fields(n, {}),
           A \subseteq Int
    PROVE  s \o t \in Fields(m + n, A)
<1>1. A \subseteq 1..m
  BY DEF Fields
<1>2. A \in SUBSET (1..(m + n)) /\ \A c \in A : IF c <= m THEN c \in A ELSE c - m \in {}
  BY <1>1
<1>3. QED
  BY <1>2, FieldsJoined

\* Repeated parts without such an address.
LEMMA TimesBehind ==
    ASSUME NEW n \in Nat \ {0}, NEW m \in Nat, NEW s \in Fields(m, {})
    PROVE  Times(n, s) \in Fields(n * m, {})
<1>1. Times(n, s) \in Fields(n * m, Shifted(n, m, {}))
  BY FieldsTimes
<1>2. QED
  BY <1>1, FieldsFewer

\* The small parts.
LEMMA SmallParts ==
    /\ <<"header">> \in Fields(1, {})
    /\ <<"data">> \in Fields(1, {})
    /\ MEMORYADDRESSATTRIBUTES_CMD \in Fields(1, {})
    /\ SPLITBASEADDRESS64BYTEALIGNED_CMD \in Fields(2, {1})
    /\ SPLITBASEADDRESS4KBYTEALIGNED_CMD \in Fields(2, {1})
    /\ Bound64 \in Fields(3, {1})
    /\ Bound4k \in Fields(3, {1})
    /\ Picture \in Fields(3, {1})
    /\ \A n \in Nat \ {0} : Data(n) \in Fields(n, {}) /\ Reserved(n) \in Fields(n, {})
<1>1. /\ <<"header">> \in Fields(1, {}) /\ <<"data">> \in Fields(1, {})
      /\ <<"reserved">> \in Fields(1, {}) /\ <<"attributes">> \in Fields(1, {})
      /\ <<"upper">> \in Fields(1, {}) /\ <<"address">> \in Fields(1, {1})
  <2>1. \A x \in Kinds : <<x>> \in Seq(Kinds) /\ Len(<<x>>) = 1 /\ <<x>>[1] = x
    OBVIOUS
  <2>2. \A x \in Kinds : <<x>> \in Fields(1, {})
    BY <2>1 DEF Fields
  <2>3. "address" \in Kinds
    BY DEF Kinds
  <2>4. <<"address">> \in Fields(1, {1})
    BY <2>1, <2>3 DEF Fields
  <2>5. QED
    BY <2>2, <2>4 DEF Kinds
<1>2. <<"address", "upper">> \in Fields(2, {1})
  <2>1. \A x, y \in Kinds : <<x, y>> \in Seq(Kinds) /\ Len(<<x, y>>) = 2 /\ <<x, y>>[1] = x
    OBVIOUS
  <2>2. "address" \in Kinds /\ "upper" \in Kinds
    BY DEF Kinds
  <2>3. QED
    BY <2>1, <2>2 DEF Fields
<1>3. <<"address", "upper">> \o <<"attributes">> \in Fields(3, {1})
  BY <1>1, <1>2, FieldsBehind
<1>4. <<"address">> \o <<"upper">> \in Fields(2, {1})
  BY <1>1, FieldsBehind
<1>5. (<<"address">> \o <<"upper">>) \o <<"attributes">> \in Fields(3, {1})
  BY <1>1, <1>4, FieldsBehind
<1>6. ASSUME NEW n \in Nat \ {0} PROVE Data(n) \in Fields(n, {}) /\ Reserved(n) \in Fields(n, {})
  BY <1>1, TimesBehind DEF Data, Reserved
<1>7. QED
  BY <1>1, <1>2, <1>3, <1>5, <1>6
  DEF MEMORYADDRESSATTRIBUTES_CMD, SPLITBASEADDRESS64BYTEALIGNED_CMD, SPLITBASEADDRESS4KBYTEALIGNED_CMD,
      Bound64, Bound4k, Picture, VDENC_64B_Aligned_Lower_Address_CMD,
      VDENC_64B_Aligned_Upper_Address_CMD, VDENC_Surface_Control_Bits_CMD

PipeAddresses ==
    {2, 8, 11, 17, 20, 26, 29, 32, 38, 40, 42, 44, 46, 48, 50, 52, 55, 58, 61, 64,
     67, 69, 71, 73, 75, 77, 79, 81, 96, 99, 102, 5, 14, 23}

\* The buffer addresses of the codec engine.
LEMMA PipeLayout == HCP_PIPE_BUF_ADDR_STATE_CMD \in Fields(121, PipeAddresses)
<1> DEFINE A == {2, 8, 11, 17, 20, 26, 29, 32, 5, 14, 23}
           B == A \union {38, 40, 42, 44, 46, 48, 50, 52}
           C == B \union {55, 58, 61, 64}
           D == C \union {67, 69, 71, 73, 75, 77, 79, 81}
           E == D \union {96, 99, 102}
           tens == Times(10, Bound64)
           eights == Times(8, SPLITBASEADDRESS64BYTEALIGNED_CMD)
           fours == Times(4, Bound64)
           twelves == Times(12, Bound64)
           p1 == <<"header">> \o Bound4k
           p2 == p1 \o tens
           p3 == p2 \o Reserved(3)
           p4 == p3 \o eights
           p5 == p4 \o MEMORYADDRESSATTRIBUTES_CMD
           p6 == p5 \o fours
           p7 == p6 \o eights
           p8 == p7 \o MEMORYADDRESSATTRIBUTES_CMD
           p9 == p8 \o twelves
           p10 == p9 \o SPLITBASEADDRESS64BYTEALIGNED_CMD
<1>1. tens \in Fields(30, {1, 4, 7, 10, 13, 16, 19, 22, 25, 28})
  <2>1. tens \in Fields(10 * 3, Shifted(10, 3, {1}))
    BY SmallParts, FieldsTimes
  <2>2. ASSUME NEW c \in {1, 4, 7, 10, 13, 16, 19, 22, 25, 28} PROVE c \in Shifted(10, 3, {1})
    <3>1. \E i \in 1..10 : c = (i - 1) * 3 + 1
      OBVIOUS
    <3>2. QED
      BY <3>1 DEF Shifted
  <2>3. QED
    BY <2>1, <2>2, FieldsFewer
<1>2. eights \in Fields(16, {1, 3, 5, 7, 9, 11, 13, 15})
  <2>1. eights \in Fields(8 * 2, Shifted(8, 2, {1}))
    BY SmallParts, FieldsTimes
  <2>2. ASSUME NEW c \in {1, 3, 5, 7, 9, 11, 13, 15} PROVE c \in Shifted(8, 2, {1})
    <3>1. \E i \in 1..8 : c = (i - 1) * 2 + 1
      OBVIOUS
    <3>2. QED
      BY <3>1 DEF Shifted
  <2>3. QED
    BY <2>1, <2>2, FieldsFewer
<1>3. fours \in Fields(12, {1, 4, 7, 10})
  <2>1. fours \in Fields(4 * 3, Shifted(4, 3, {1}))
    BY SmallParts, FieldsTimes
  <2>2. ASSUME NEW c \in {1, 4, 7, 10} PROVE c \in Shifted(4, 3, {1})
    <3>1. \E i \in 1..4 : c = (i - 1) * 3 + 1
      OBVIOUS
    <3>2. QED
      BY <3>1 DEF Shifted
  <2>3. QED
    BY <2>1, <2>2, FieldsFewer
<1>4. twelves \in Fields(36, {13, 16, 19})
  <2>1. twelves \in Fields(12 * 3, Shifted(12, 3, {1}))
    BY SmallParts, FieldsTimes
  <2>2. ASSUME NEW c \in {13, 16, 19} PROVE c \in Shifted(12, 3, {1})
    <3>1. \E i \in 1..12 : c = (i - 1) * 3 + 1
      OBVIOUS
    <3>2. QED
      BY <3>1 DEF Shifted
  <2>3. QED
    BY <2>1, <2>2, FieldsFewer
<1> HIDE DEF tens, eights, fours, twelves
<1>5. p1 \in Fields(4, {2})
  <2>1. <<"header">> \in Fields(1, {}) /\ Bound4k \in Fields(3, {1})
    BY SmallParts
  <2>2. \A c \in {2} : IF c <= 1 THEN c \in {} ELSE c - 1 \in {1}
    OBVIOUS
  <2>3. {2} \in SUBSET (1..(1 + 3))
    OBVIOUS
  <2>4. <<"header">> \o Bound4k \in Fields(1 + 3, {2})
    BY <2>1, <2>2, <2>3, FieldsJoined
  <2>5. QED
    BY <2>4
<1> HIDE DEF p1
<1>6. p2 \in Fields(34, A)
  <2>1. \A c \in A : IF c <= 4 THEN c \in {2} ELSE c - 4 \in {1, 4, 7, 10, 13, 16, 19, 22, 25, 28}
    OBVIOUS
  <2>2. A \in SUBSET (1..(4 + 30))
    OBVIOUS
  <2>3. p1 \o tens \in Fields(4 + 30, A)
    BY <1>1, <1>5, <2>1, <2>2, FieldsJoined
  <2>4. QED
    BY <2>3
<1> HIDE DEF p2
<1>7. p3 \in Fields(37, A)
  <2>1. Reserved(3) \in Fields(3, {})
    BY SmallParts
  <2>2. p3 \in Fields(34 + 3, A)
    BY <1>6, <2>1, FieldsBehind
  <2>3. QED
    BY <2>2
<1> HIDE DEF p3
<1>8. p4 \in Fields(53, B)
  <2>1. \A c \in B : IF c <= 37 THEN c \in A ELSE c - 37 \in {1, 3, 5, 7, 9, 11, 13, 15}
    OBVIOUS
  <2>2. B \in SUBSET (1..(37 + 16))
    OBVIOUS
  <2>3. p3 \o eights \in Fields(37 + 16, B)
    BY <1>2, <1>7, <2>1, <2>2, FieldsJoined
  <2>4. QED
    BY <2>3
<1> HIDE DEF p4
<1>9. p5 \in Fields(54, B)
  <2>1. MEMORYADDRESSATTRIBUTES_CMD \in Fields(1, {})
    BY SmallParts
  <2>2. p5 \in Fields(53 + 1, B)
    BY <1>8, <2>1, FieldsBehind
  <2>3. QED
    BY <2>2
<1> HIDE DEF p5
<1>10. p6 \in Fields(66, C)
  <2>1. \A c \in C : IF c <= 54 THEN c \in B ELSE c - 54 \in {1, 4, 7, 10}
    OBVIOUS
  <2>2. C \in SUBSET (1..(54 + 12))
    OBVIOUS
  <2>3. p5 \o fours \in Fields(54 + 12, C)
    BY <1>3, <1>9, <2>1, <2>2, FieldsJoined
  <2>4. QED
    BY <2>3
<1> HIDE DEF p6
<1>11. p7 \in Fields(82, D)
  <2>1. \A c \in D : IF c <= 66 THEN c \in C ELSE c - 66 \in {1, 3, 5, 7, 9, 11, 13, 15}
    OBVIOUS
  <2>2. D \in SUBSET (1..(66 + 16))
    OBVIOUS
  <2>3. p6 \o eights \in Fields(66 + 16, D)
    BY <1>2, <1>10, <2>1, <2>2, FieldsJoined
  <2>4. QED
    BY <2>3
<1> HIDE DEF p7
<1>12. p8 \in Fields(83, D)
  <2>1. MEMORYADDRESSATTRIBUTES_CMD \in Fields(1, {})
    BY SmallParts
  <2>2. p8 \in Fields(82 + 1, D)
    BY <1>11, <2>1, FieldsBehind
  <2>3. QED
    BY <2>2
<1> HIDE DEF p8
<1>13. p9 \in Fields(119, E)
  <2>1. \A c \in E : IF c <= 83 THEN c \in D ELSE c - 83 \in {13, 16, 19}
    OBVIOUS
  <2>2. E \in SUBSET (1..(83 + 36))
    OBVIOUS
  <2>3. p8 \o twelves \in Fields(83 + 36, E)
    BY <1>4, <1>12, <2>1, <2>2, FieldsJoined
  <2>4. QED
    BY <2>3
<1> HIDE DEF p9
<1>14. p10 \in Fields(121, E)
  <2>1. SPLITBASEADDRESS64BYTEALIGNED_CMD \in Fields(2, {})
    BY SmallParts, FieldsFewer
  <2>2. p10 \in Fields(119 + 2, E)
    BY <1>13, <2>1, FieldsBehind
  <2>3. QED
    BY <2>2
<1>15. p10 = HCP_PIPE_BUF_ADDR_STATE_CMD
  BY DEF HCP_PIPE_BUF_ADDR_STATE_CMD, p1, p2, p3, p4, p5, p6, p7, p8, p9, tens, eights, fours, twelves
<1>16. PipeAddresses \subseteq E
  BY DEF PipeAddresses
<1> HIDE DEF p10, E
<1>17. QED
  BY <1>14, <1>15, <1>16, FieldsFewer

VdencAddresses == {2, 5, 11, 14, 17, 20, 23, 26, 29, 35, 38, 41, 44, 47, 50, 53, 63, 66}

\* The buffer addresses of the encoding engine.
LEMMA VdencLayout == VDENC_PIPE_BUF_ADDR_STATE_CMD \in Fields(71, VdencAddresses)
<1> DEFINE pairs == Times(2, Picture)
           fours == Times(4, Picture)
           p1 == <<"header">> \o pairs
           p2 == p1 \o Reserved(3)
           p3 == p2 \o Picture
           p4 == p3 \o Picture
           p5 == p4 \o Picture
           p6 == p5 \o Picture
           p7 == p6 \o fours
           p8 == p7 \o Picture
           p9 == p8 \o pairs
           p10 == p9 \o pairs
           p11 == p10 \o pairs
           p12 == p11 \o pairs
           p13 == p12 \o <<"data">>
           p14 == p13 \o Picture
           p15 == p14 \o pairs
<1>0. Picture \in Fields(3, {1})
  BY SmallParts
<1>1. Len(Picture) = 3
  BY <1>0 DEF Fields
<1>2. pairs \in Fields(6, {1, 4})
  <2>1. pairs \in Fields(2 * 3, Shifted(2, 3, {1}))
    BY SmallParts, FieldsTimes
  <2>2. ASSUME NEW c \in {1, 4} PROVE c \in Shifted(2, 3, {1})
    <3>1. \E i \in 1..2 : c = (i - 1) * 3 + 1
      OBVIOUS
    <3>2. QED
      BY <3>1 DEF Shifted
  <2>3. QED
    BY <2>1, <2>2, FieldsFewer
<1>3. fours \in Fields(12, {1, 4, 7, 10})
  <2>1. fours \in Fields(4 * 3, Shifted(4, 3, {1}))
    BY SmallParts, FieldsTimes
  <2>2. ASSUME NEW c \in {1, 4, 7, 10} PROVE c \in Shifted(4, 3, {1})
    <3>1. \E i \in 1..4 : c = (i - 1) * 3 + 1
      OBVIOUS
    <3>2. QED
      BY <3>1 DEF Shifted
  <2>3. QED
    BY <2>1, <2>2, FieldsFewer
<1> HIDE DEF pairs, fours
<1>p1. p1 \in Fields(7, {2, 5})
  <2>1. \A c \in {2, 5} : IF c <= 1 THEN c \in {} ELSE c - 1 \in {1, 4}
    OBVIOUS
  <2>2. {2, 5} \in SUBSET (1..(1 + 6))
    OBVIOUS
  <2>3. <<"header">> \o pairs \in Fields(1 + 6, {2, 5})
    BY SmallParts, <1>2, <2>1, <2>2, FieldsJoined
  <2>4. QED
    BY <2>3
<1> HIDE DEF p1
<1>p2. p2 \in Fields(10, {2, 5})
  <2>1. Reserved(3) \in Fields(3, {})
    BY SmallParts
  <2>2. p2 \in Fields(7 + 3, {2, 5})
    BY <1>p1, <2>1, FieldsBehind
  <2>3. QED
    BY <2>2
<1> HIDE DEF p2
<1>p3. p3 \in Fields(13, {2, 5, 11})
  <2>1. \A c \in {2, 5, 11} : IF c <= 10 THEN c \in {2, 5} ELSE c - 10 \in {1}
    OBVIOUS
  <2>2. {2, 5, 11} \in SUBSET (1..(10 + 3))
    OBVIOUS
  <2>3. p2 \o Picture \in Fields(10 + 3, {2, 5, 11})
    BY <1>p2, <1>0, <2>1, <2>2, FieldsJoined
  <2>4. QED
    BY <2>3
<1> HIDE DEF p3
<1>p4. p4 \in Fields(16, {2, 5, 11, 14})
  <2>1. \A c \in {2, 5, 11, 14} : IF c <= 13 THEN c \in {2, 5, 11} ELSE c - 13 \in {1}
    OBVIOUS
  <2>2. {2, 5, 11, 14} \in SUBSET (1..(13 + 3))
    OBVIOUS
  <2>3. p3 \o Picture \in Fields(13 + 3, {2, 5, 11, 14})
    BY <1>p3, <1>0, <2>1, <2>2, FieldsJoined
  <2>4. QED
    BY <2>3
<1> HIDE DEF p4
<1>p5. p5 \in Fields(19, {2, 5, 11, 14, 17})
  <2>1. \A c \in {2, 5, 11, 14, 17} : IF c <= 16 THEN c \in {2, 5, 11, 14} ELSE c - 16 \in {1}
    OBVIOUS
  <2>2. {2, 5, 11, 14, 17} \in SUBSET (1..(16 + 3))
    OBVIOUS
  <2>3. p4 \o Picture \in Fields(16 + 3, {2, 5, 11, 14, 17})
    BY <1>p4, <1>0, <2>1, <2>2, FieldsJoined
  <2>4. QED
    BY <2>3
<1> HIDE DEF p5
<1>p6. p6 \in Fields(22, {2, 5, 11, 14, 17, 20})
  <2>1. \A c \in {2, 5, 11, 14, 17, 20} : IF c <= 19 THEN c \in {2, 5, 11, 14, 17} ELSE c - 19 \in {1}
    OBVIOUS
  <2>2. {2, 5, 11, 14, 17, 20} \in SUBSET (1..(19 + 3))
    OBVIOUS
  <2>3. p5 \o Picture \in Fields(19 + 3, {2, 5, 11, 14, 17, 20})
    BY <1>p5, <1>0, <2>1, <2>2, FieldsJoined
  <2>4. QED
    BY <2>3
<1> HIDE DEF p6
<1>p7. p7 \in Fields(34, {2, 5, 11, 14, 17, 20, 23, 26, 29})
  <2>1. \A c \in {2, 5, 11, 14, 17, 20, 23, 26, 29} : IF c <= 22 THEN c \in {2, 5, 11, 14, 17, 20} ELSE c - 22 \in {1, 4, 7, 10}
    OBVIOUS
  <2>2. {2, 5, 11, 14, 17, 20, 23, 26, 29} \in SUBSET (1..(22 + 12))
    OBVIOUS
  <2>3. p6 \o fours \in Fields(22 + 12, {2, 5, 11, 14, 17, 20, 23, 26, 29})
    BY <1>p6, <1>3, <2>1, <2>2, FieldsJoined
  <2>4. QED
    BY <2>3
<1> HIDE DEF p7
<1>p8. p8 \in Fields(37, {2, 5, 11, 14, 17, 20, 23, 26, 29, 35})
  <2>1. \A c \in {2, 5, 11, 14, 17, 20, 23, 26, 29, 35} : IF c <= 34 THEN c \in {2, 5, 11, 14, 17, 20, 23, 26, 29} ELSE c - 34 \in {1}
    OBVIOUS
  <2>2. {2, 5, 11, 14, 17, 20, 23, 26, 29, 35} \in SUBSET (1..(34 + 3))
    OBVIOUS
  <2>3. p7 \o Picture \in Fields(34 + 3, {2, 5, 11, 14, 17, 20, 23, 26, 29, 35})
    BY <1>p7, <1>0, <2>1, <2>2, FieldsJoined
  <2>4. QED
    BY <2>3
<1> HIDE DEF p8
<1>p9. p9 \in Fields(43, {2, 5, 11, 14, 17, 20, 23, 26, 29, 35, 38, 41})
  <2>1. \A c \in {2, 5, 11, 14, 17, 20, 23, 26, 29, 35, 38, 41} : IF c <= 37 THEN c \in {2, 5, 11, 14, 17, 20, 23, 26, 29, 35} ELSE c - 37 \in {1, 4}
    OBVIOUS
  <2>2. {2, 5, 11, 14, 17, 20, 23, 26, 29, 35, 38, 41} \in SUBSET (1..(37 + 6))
    OBVIOUS
  <2>3. p8 \o pairs \in Fields(37 + 6, {2, 5, 11, 14, 17, 20, 23, 26, 29, 35, 38, 41})
    BY <1>p8, <1>2, <2>1, <2>2, FieldsJoined
  <2>4. QED
    BY <2>3
<1> HIDE DEF p9
<1>p10. p10 \in Fields(49, {2, 5, 11, 14, 17, 20, 23, 26, 29, 35, 38, 41, 44, 47})
  <2>1. \A c \in {2, 5, 11, 14, 17, 20, 23, 26, 29, 35, 38, 41, 44, 47} : IF c <= 43 THEN c \in {2, 5, 11, 14, 17, 20, 23, 26, 29, 35, 38, 41} ELSE c - 43 \in {1, 4}
    OBVIOUS
  <2>2. {2, 5, 11, 14, 17, 20, 23, 26, 29, 35, 38, 41, 44, 47} \in SUBSET (1..(43 + 6))
    OBVIOUS
  <2>3. p9 \o pairs \in Fields(43 + 6, {2, 5, 11, 14, 17, 20, 23, 26, 29, 35, 38, 41, 44, 47})
    BY <1>p9, <1>2, <2>1, <2>2, FieldsJoined
  <2>4. QED
    BY <2>3
<1> HIDE DEF p10
<1>p11. p11 \in Fields(55, {2, 5, 11, 14, 17, 20, 23, 26, 29, 35, 38, 41, 44, 47, 50, 53})
  <2>1. \A c \in {2, 5, 11, 14, 17, 20, 23, 26, 29, 35, 38, 41, 44, 47, 50, 53} : IF c <= 49 THEN c \in {2, 5, 11, 14, 17, 20, 23, 26, 29, 35, 38, 41, 44, 47} ELSE c - 49 \in {1, 4}
    OBVIOUS
  <2>2. {2, 5, 11, 14, 17, 20, 23, 26, 29, 35, 38, 41, 44, 47, 50, 53} \in SUBSET (1..(49 + 6))
    OBVIOUS
  <2>3. p10 \o pairs \in Fields(49 + 6, {2, 5, 11, 14, 17, 20, 23, 26, 29, 35, 38, 41, 44, 47, 50, 53})
    BY <1>p10, <1>2, <2>1, <2>2, FieldsJoined
  <2>4. QED
    BY <2>3
<1> HIDE DEF p11
<1>p12. p12 \in Fields(61, {2, 5, 11, 14, 17, 20, 23, 26, 29, 35, 38, 41, 44, 47, 50, 53})
  <2>1. \A c \in {2, 5, 11, 14, 17, 20, 23, 26, 29, 35, 38, 41, 44, 47, 50, 53} : IF c <= 55 THEN c \in {2, 5, 11, 14, 17, 20, 23, 26, 29, 35, 38, 41, 44, 47, 50, 53} ELSE c - 55 \in {1, 4}
    OBVIOUS
  <2>2. {2, 5, 11, 14, 17, 20, 23, 26, 29, 35, 38, 41, 44, 47, 50, 53} \in SUBSET (1..(55 + 6))
    OBVIOUS
  <2>3. p11 \o pairs \in Fields(55 + 6, {2, 5, 11, 14, 17, 20, 23, 26, 29, 35, 38, 41, 44, 47, 50, 53})
    BY <1>p11, <1>2, <2>1, <2>2, FieldsJoined
  <2>4. QED
    BY <2>3
<1> HIDE DEF p12
<1>p13. p13 \in Fields(62, {2, 5, 11, 14, 17, 20, 23, 26, 29, 35, 38, 41, 44, 47, 50, 53})
  <2>1. <<"data">> \in Fields(1, {})
    BY SmallParts
  <2>2. p13 \in Fields(61 + 1, {2, 5, 11, 14, 17, 20, 23, 26, 29, 35, 38, 41, 44, 47, 50, 53})
    BY <1>p12, <2>1, FieldsBehind
  <2>3. QED
    BY <2>2
<1> HIDE DEF p13
<1>p14. p14 \in Fields(65, {2, 5, 11, 14, 17, 20, 23, 26, 29, 35, 38, 41, 44, 47, 50, 53, 63})
  <2>1. \A c \in {2, 5, 11, 14, 17, 20, 23, 26, 29, 35, 38, 41, 44, 47, 50, 53, 63} : IF c <= 62 THEN c \in {2, 5, 11, 14, 17, 20, 23, 26, 29, 35, 38, 41, 44, 47, 50, 53} ELSE c - 62 \in {1}
    OBVIOUS
  <2>2. {2, 5, 11, 14, 17, 20, 23, 26, 29, 35, 38, 41, 44, 47, 50, 53, 63} \in SUBSET (1..(62 + 3))
    OBVIOUS
  <2>3. p13 \o Picture \in Fields(62 + 3, {2, 5, 11, 14, 17, 20, 23, 26, 29, 35, 38, 41, 44, 47, 50, 53, 63})
    BY <1>p13, <1>0, <2>1, <2>2, FieldsJoined
  <2>4. QED
    BY <2>3
<1> HIDE DEF p14
<1>p15. p15 \in Fields(71, {2, 5, 11, 14, 17, 20, 23, 26, 29, 35, 38, 41, 44, 47, 50, 53, 63, 66})
  <2>1. \A c \in {2, 5, 11, 14, 17, 20, 23, 26, 29, 35, 38, 41, 44, 47, 50, 53, 63, 66} : IF c <= 65 THEN c \in {2, 5, 11, 14, 17, 20, 23, 26, 29, 35, 38, 41, 44, 47, 50, 53, 63} ELSE c - 65 \in {1, 4}
    OBVIOUS
  <2>2. {2, 5, 11, 14, 17, 20, 23, 26, 29, 35, 38, 41, 44, 47, 50, 53, 63, 66} \in SUBSET (1..(65 + 6))
    OBVIOUS
  <2>3. p14 \o pairs \in Fields(65 + 6, {2, 5, 11, 14, 17, 20, 23, 26, 29, 35, 38, 41, 44, 47, 50, 53, 63, 66})
    BY <1>p14, <1>2, <2>1, <2>2, FieldsJoined
  <2>4. QED
    BY <2>3
<1> HIDE DEF p15
<1>4. p15 = VDENC_PIPE_BUF_ADDR_STATE_CMD
  BY <1>1 DEF VDENC_PIPE_BUF_ADDR_STATE_CMD, p1, p2, p3, p4, p5, p6, p7, p8, p9, p10, p11, p12, p13, p14, p15, pairs, fours,
      VDENC_Colocated_MV_Picture_CMD, VDENC_Down_Scaled_Reference_Picture_CMD,
      VDENC_Original_Uncompressed_Picture_CMD, VDENC_Reference_Picture_CMD,
      VDENC_Row_Store_Scratch_Buffer_Picture_CMD, VDENC_Statistics_Streamout_CMD,
      VDENC_Streamin_Data_Picture_CMD
<1>5. QED
  BY <1>p15, <1>4 DEF VdencAddresses

\* Two parts without an address of interest.
LEMMA Behind ==
    ASSUME NEW m \in Nat, NEW n \in Nat, NEW s \in Fields(m, {}), NEW t \in Fields(n, {}),
           NEW k, k = m + n
    PROVE  s \o t \in Fields(k, {})
BY FieldsBehind

\* Where the fields of the two parts are.
JoinedOf(u, k, s, m, t) == \A i \in 1..k : u[i] = IF i <= m THEN s[i] ELSE t[i - m]

\* Two lists, one behind the other.
LEMMA JoinedAt ==
    ASSUME NEW S, NEW s \in Seq(S), NEW t \in Seq(S)
    PROVE  /\ s \o t \in Seq(S)
           /\ Len(s \o t) = Len(s) + Len(t)
           /\ JoinedOf(s \o t, Len(s) + Len(t), s, Len(s), t)
BY ConcatProperties DEF JoinedOf

\* A function on an interval is a list.
LEMMA FunctionIsList ==
    ASSUME NEW S, NEW n \in Nat, NEW f \in [1..n -> S]
    PROVE  f \in Seq(S) /\ Len(f) = n
<1>1. f \in Seq(S)
  BY SeqDef
<1>2. Len(f) \in Nat /\ 1..Len(f) = 1..n
  BY <1>1, LenProperties
<1>3. QED
  BY <1>1, <1>2

\* The surfaces.
LEMMA SurfaceLayouts ==
    /\ HCP_SURFACE_STATE_CMD \in Fields(5, {})
    /\ HCP_SURFACE_STATE_CMD[2] = "pitch" /\ HCP_SURFACE_STATE_CMD[3] = "u_offset"
    /\ VDENC_SRC_SURFACE_STATE_CMD \in Fields(6, {})
<1> DEFINE five == <<"header", "pitch", "u_offset", "v_offset", "data">>
           four == <<"data", "pitch", "u_offset", "v_offset">>
           two == <<"header", "reserved">>
<1>1. "header" \in Kinds /\ "pitch" \in Kinds /\ "u_offset" \in Kinds /\ "v_offset" \in Kinds
      /\ "data" \in Kinds /\ "reserved" \in Kinds
  BY DEF Kinds
<1>2. five \in Seq(Kinds) /\ four \in Seq(Kinds) /\ two \in Seq(Kinds)
  BY <1>1
<1>3. Len(five) = 5 /\ Len(four) = 4 /\ Len(two) = 2 /\ five[2] = "pitch" /\ five[3] = "u_offset"
  OBVIOUS
<1>4. five \in Fields(5, {}) /\ four \in Fields(4, {}) /\ two \in Fields(2, {})
  BY <1>2, <1>3 DEF Fields
<1> HIDE DEF four, two
<1>5. two \o four \in Fields(6, {})
  BY <1>4, Behind
<1>6. QED
  BY <1>3, <1>4, <1>5
  DEF HCP_SURFACE_STATE_CMD, VDENC_SRC_SURFACE_STATE_CMD, VDENC_Surface_State_Fields_CMD, four, two

\* The row offsets of the reference readers: each of U is followed by one of V.
LEMMA ReaderLayouts ==
    /\ VDENC_REF_SURFACE_STATE_CMD \in Fields(6, {})
    /\ \A k \in 1..6 : VDENC_REF_SURFACE_STATE_CMD[k] = "u_offset" <=> k = 5
    /\ VDENC_REF_SURFACE_STATE_CMD[6] = "v_offset"
    /\ VDENC_DS_REF_SURFACE_STATE_CMD \in Fields(10, {})
    /\ \A k \in 1..10 : VDENC_DS_REF_SURFACE_STATE_CMD[k] = "u_offset" <=> k \in {5, 9}
    /\ VDENC_DS_REF_SURFACE_STATE_CMD[6] = "v_offset" /\ VDENC_DS_REF_SURFACE_STATE_CMD[10] = "v_offset"
<1> DEFINE four == <<"data", "pitch", "u_offset", "v_offset">>
           t == Times(2, four)
           x == <<"header", "data">>
           y == <<"header", "reserved">>
<1>1. "header" \in Kinds /\ "pitch" \in Kinds /\ "u_offset" \in Kinds /\ "v_offset" \in Kinds
      /\ "data" \in Kinds /\ "reserved" \in Kinds
  BY DEF Kinds
<1>2. four \in Seq(Kinds) /\ x \in Seq(Kinds) /\ y \in Seq(Kinds)
  BY <1>1
<1>3. /\ Len(four) = 4 /\ Len(x) = 2 /\ Len(y) = 2
      /\ four[1] = "data" /\ four[2] = "pitch" /\ four[3] = "u_offset" /\ four[4] = "v_offset"
      /\ x[1] = "header" /\ x[2] = "data" /\ y[1] = "header" /\ y[2] = "reserved"
  OBVIOUS
<1> HIDE DEF four, x, y
<1>4. t \in Seq(Kinds) /\ Len(t) = 2 * 4 /\ RepeatsAt(t, 2, four, 4)
  BY <1>2, <1>3, TimesPlaces
<1>5. /\ t[1] = "data" /\ t[2] = "pitch" /\ t[3] = "u_offset" /\ t[4] = "v_offset"
      /\ t[5] = "data" /\ t[6] = "pitch" /\ t[7] = "u_offset" /\ t[8] = "v_offset"
  <2>1. \A k \in 1..4 : t[(1 - 1) * 4 + k] = four[k] /\ t[(2 - 1) * 4 + k] = four[k]
    BY <1>4 DEF RepeatsAt
  <2>2. \A k \in 1..4 : t[k] = four[k] /\ t[4 + k] = four[k]
    <3>1. \A k \in 1..4 : (1 - 1) * 4 + k = k /\ (2 - 1) * 4 + k = 4 + k
      OBVIOUS
    <3>2. QED
      BY <2>1, <3>1
  <2>3. QED
    BY <1>3, <2>2
<1> HIDE DEF t
<1>6. /\ x \o four \in Seq(Kinds) /\ Len(x \o four) = 6
      /\ \A i \in 1..6 : (x \o four)[i] = IF i <= 2 THEN x[i] ELSE four[i - 2]
  <2>1. Len(x) = 2 /\ Len(four) = 4
    BY <1>3
  <2>2. x \o four \in Seq(Kinds) /\ Len(x \o four) = Len(x) + Len(four)
        /\ JoinedOf(x \o four, Len(x) + Len(four), x, Len(x), four)
    BY <1>2, JoinedAt
  <2>3. QED
    BY <2>1, <2>2 DEF JoinedOf
<1>7. /\ y \o t \in Seq(Kinds) /\ Len(y \o t) = 10
      /\ \A i \in 1..10 : (y \o t)[i] = IF i <= 2 THEN y[i] ELSE t[i - 2]
  <2>1. Len(y) = 2 /\ Len(t) = 8
    BY <1>3, <1>4
  <2>2. y \o t \in Seq(Kinds) /\ Len(y \o t) = Len(y) + Len(t)
        /\ JoinedOf(y \o t, Len(y) + Len(t), y, Len(y), t)
    BY <1>2, <1>4, JoinedAt
  <2>3. Len(y) + Len(t) = 10
    BY <2>1
  <2>4. JoinedOf(y \o t, 10, y, 2, t) /\ Len(y \o t) = 10
    BY <2>1, <2>2, <2>3, Zenon
  <2>5. QED
    BY <2>2, <2>4 DEF JoinedOf
<1>8. x \o four = VDENC_REF_SURFACE_STATE_CMD /\ y \o t = VDENC_DS_REF_SURFACE_STATE_CMD
  BY DEF VDENC_REF_SURFACE_STATE_CMD, VDENC_DS_REF_SURFACE_STATE_CMD, VDENC_Surface_State_Fields_CMD,
         x, y, t, four
<1>9. \A k \in 1..6 : VDENC_REF_SURFACE_STATE_CMD[k] = "u_offset" <=> k = 5
  BY <1>3, <1>6, <1>8
<1>10. \A k \in 1..10 : VDENC_DS_REF_SURFACE_STATE_CMD[k] = "u_offset" <=> k \in {5, 9}
  BY <1>3, <1>5, <1>7, <1>8
<1>11. VDENC_REF_SURFACE_STATE_CMD[6] = "v_offset"
  BY <1>3, <1>6, <1>8
<1>12. VDENC_DS_REF_SURFACE_STATE_CMD[6] = "v_offset" /\ VDENC_DS_REF_SURFACE_STATE_CMD[10] = "v_offset"
  BY <1>5, <1>7, <1>8
<1>13. QED
  BY <1>6, <1>7, <1>8, <1>9, <1>10, <1>11, <1>12 DEF Fields

\* The commands whose contents do not matter here.
LEMMA OtherLayouts ==
    /\ HCP_PIPE_MODE_SELECT_CMD \in Fields(7, {})
    /\ HCP_IND_OBJ_BASE_ADDR_STATE_CMD \in Fields(29, {})
    /\ HCP_PIC_STATE_CMD \in Fields(41, {})
    /\ HCP_REF_IDX_STATE_CMD \in Fields(18, {})
    /\ HCP_SLICE_STATE_CMD \in Fields(13, {})
    /\ HEVC_VP9_RDOQ_STATE_CMD \in Fields(154, {})
    /\ VDENC_CONTROL_STATE_CMD \in Fields(2, {})
    /\ VD_PIPELINE_FLUSH_CMD \in Fields(2, {})
    /\ VDENC_PIPE_MODE_SELECT_CMD \in Fields(6, {})
    /\ VDENC_WALKER_STATE_CMD \in Fields(27, {})
    /\ VDENC_WEIGHTSOFFSETS_STATE_CMD \in Fields(3, {})
    /\ VDENC_CMD1_CMD \in Fields(31, {})
    /\ VDENC_CMD2_CMD \in Fields(51, {})
<1> DEFINE h == <<"header">>
<1>1. h \in Fields(1, {}) /\ <<"data">> \in Fields(1, {})
      /\ \A n \in Nat \ {0} : Data(n) \in Fields(n, {}) /\ Reserved(n) \in Fields(n, {})
  BY SmallParts
<1>2. <<"header", "data">> \in Fields(2, {})
  <2>1. "header" \in Kinds /\ "data" \in Kinds
    BY DEF Kinds
  <2>2. <<"header", "data">> \in Seq(Kinds) /\ Len(<<"header", "data">>) = 2
    BY <2>1
  <2>3. QED
    BY <2>2 DEF Fields
<1>3. /\ Data(1) \in Fields(1, {}) /\ Data(2) \in Fields(2, {}) /\ Data(3) \in Fields(3, {})
      /\ Data(5) \in Fields(5, {}) /\ Data(9) \in Fields(9, {}) /\ Data(12) \in Fields(12, {})
      /\ Data(16) \in Fields(16, {}) /\ Data(40) \in Fields(40, {})
      /\ Reserved(2) \in Fields(2, {}) /\ Reserved(3) \in Fields(3, {})
      /\ Reserved(10) \in Fields(10, {}) /\ Reserved(30) \in Fields(30, {})
  BY <1>1
<1> HIDE DEF h
<1>4. /\ h \o Data(40) \in Fields(41, {}) /\ h \o Data(12) \in Fields(13, {})
      /\ h \o Data(5) \in Fields(6, {}) /\ h \o Data(2) \in Fields(3, {})
      /\ h \o Reserved(30) \in Fields(31, {})
      /\ h \o Data(3) \in Fields(4, {}) /\ h \o Data(1) \in Fields(2, {}) /\ h \o Data(9) \in Fields(10, {})
  BY <1>1, <1>3, Behind
<1>5. HCP_PIPE_MODE_SELECT_CMD \in Fields(7, {})
  <2>1. (h \o Data(3)) \o Reserved(2) \in Fields(6, {})
    BY <1>3, <1>4, Behind
  <2>2. ((h \o Data(3)) \o Reserved(2)) \o Data(1) \in Fields(7, {})
    BY <1>3, <2>1, Behind
  <2>3. QED
    BY <2>2 DEF HCP_PIPE_MODE_SELECT_CMD, h
<1>6. HCP_REF_IDX_STATE_CMD \in Fields(18, {})
  <2>1. (h \o Data(1)) \o Data(16) \in Fields(18, {})
    BY <1>3, <1>4, Behind
  <2>2. QED
    BY <2>1 DEF HCP_REF_IDX_STATE_CMD, h
<1>7. VDENC_WALKER_STATE_CMD \in Fields(27, {})
  <2> DEFINE a == (h \o Data(9)) \o Reserved(2)
             b == a \o Data(1)
             c == b \o Reserved(3)
             d == c \o Data(1)
             f == d \o Reserved(10)
  <2>1. a \in Fields(12, {})
    BY <1>3, <1>4, Behind
  <2> HIDE DEF a
  <2>2. b \in Fields(13, {})
    BY <1>3, <2>1, Behind
  <2> HIDE DEF b
  <2>3. c \in Fields(16, {})
    BY <1>3, <2>2, Behind
  <2> HIDE DEF c
  <2>4. d \in Fields(17, {})
    BY <1>3, <2>3, Behind
  <2> HIDE DEF d
  <2>5. f \in Fields(27, {})
    BY <1>3, <2>4, Behind
  <2>6. QED
    BY <2>5 DEF VDENC_WALKER_STATE_CMD, h, a, b, c, d
<1>8. HCP_IND_OBJ_BASE_ADDR_STATE_CMD \in Fields(29, {})
  <2> DEFINE split == SPLITBASEADDRESS4KBYTEALIGNED_CMD
             a == h \o Bound4k
             b == a \o split
             c == b \o Times(2, Bound64)
             d == c \o split
             f == d \o Times(5, Bound64)
  <2>1. Bound64 \in Fields(3, {}) /\ Bound4k \in Fields(3, {}) /\ split \in Fields(2, {})
    <3>1. Bound64 \in Fields(3, {1}) /\ Bound4k \in Fields(3, {1}) /\ split \in Fields(2, {1})
      BY SmallParts
    <3>2. QED
      BY <3>1, FieldsFewer
  <2>2. Times(2, Bound64) \in Fields(6, {}) /\ Times(5, Bound64) \in Fields(15, {})
    <3>1. Times(2, Bound64) \in Fields(2 * 3, {}) /\ Times(5, Bound64) \in Fields(5 * 3, {})
      BY <2>1, TimesBehind
    <3>2. QED
      BY <3>1
  <2> HIDE DEF split
  <2>3. a \in Fields(4, {})
    BY <1>1, <2>1, Behind
  <2> HIDE DEF a
  <2>4. b \in Fields(6, {})
    BY <2>1, <2>3, Behind
  <2> HIDE DEF b
  <2>5. c \in Fields(12, {})
    BY <2>2, <2>4, Behind
  <2> HIDE DEF c
  <2>6. d \in Fields(14, {})
    BY <2>1, <2>5, Behind
  <2> HIDE DEF d
  <2>7. f \in Fields(29, {})
    BY <2>2, <2>6, Behind
  <2>8. QED
    BY <2>7 DEF HCP_IND_OBJ_BASE_ADDR_STATE_CMD, h, a, b, c, d, split
<1>9. HEVC_VP9_RDOQ_STATE_CMD \in Fields(154, {})
  <2> DEFINE one == <<"data">>
             a == Times(4, Times(32, one))
             b == Times(4, Times(6, one))
             two == <<"header", "data">>
  <2>1. Times(32, one) \in Fields(32 * 1, {}) /\ Times(6, one) \in Fields(6 * 1, {})
    BY <1>1, TimesBehind
  <2>2. Times(32, one) \in Fields(32, {}) /\ Times(6, one) \in Fields(6, {})
    BY <2>1
  <2>3. a \in Fields(4 * 32, {}) /\ b \in Fields(4 * 6, {})
    <3> HIDE DEF one
    <3>1. a \in Fields(4 * 32, {})
      BY <2>2, TimesBehind
    <3>2. b \in Fields(4 * 6, {})
      BY <2>2, TimesBehind
    <3>3. QED
      BY <3>1, <3>2
  <2> HIDE DEF a, b, two
  <2>4. a \in Fields(128, {}) /\ b \in Fields(24, {}) /\ two \in Fields(2, {})
    BY <1>2, <2>3 DEF two
  <2>5. two \o a \in Fields(130, {})
    BY <2>4, Behind
  <2>6. (two \o a) \o b \in Fields(154, {})
    BY <2>4, <2>5, Behind
  <2>7. QED
    BY <2>6 DEF HEVC_VP9_RDOQ_STATE_CMD, HEVC_VP9_RDOQ_LAMBDA_FIELDS_CMD, a, b, two
<1>10. VDENC_CMD2_CMD \in Fields(51, {})
  <2>1. VDENC_CMD2_CMD \in [1..51 -> {"header", "data", "reserved"}]
    BY DEF VDENC_CMD2_CMD
  <2>2. VDENC_CMD2_CMD \in [1..51 -> Kinds]
    BY <2>1 DEF Kinds
  <2> DEFINE c == VDENC_CMD2_CMD
  <2> HIDE DEF c
  <2>3. c \in Seq(Kinds) /\ Len(c) = 51
    BY <2>2, FunctionIsList DEF c
  <2>4. QED
    BY <2>3 DEF Fields, c
<1>11. QED
  BY <1>2, <1>4, <1>5, <1>6, <1>7, <1>8, <1>9, <1>10
  DEF h, HCP_PIC_STATE_CMD, HCP_SLICE_STATE_CMD, VDENC_CONTROL_STATE_CMD, VD_PIPELINE_FLUSH_CMD,
      VDENC_PIPE_MODE_SELECT_CMD, VDENC_WEIGHTSOFFSETS_STATE_CMD, VDENC_CMD1_CMD

-----------------------------------------------------------------------------
(* Packets and batches.                                                    *)

Commands == DOMAIN OtherLayout \union DOMAIN Layout
Packet == [cmd : Commands, gen : {11, 12}, id : Nat, from : Nat, at : Nat]

\* The catalogue at the commands whose fields matter.
LEMMA Catalogue ==
    /\ Layout["HCP_PIPE_BUF_ADDR_STATE"] = HCP_PIPE_BUF_ADDR_STATE_CMD
    /\ Layout["VDENC_PIPE_BUF_ADDR_STATE"] = VDENC_PIPE_BUF_ADDR_STATE_CMD
    /\ Layout["HCP_SURFACE_STATE"] = HCP_SURFACE_STATE_CMD
    /\ Layout["HCP_IND_OBJ_BASE_ADDR_STATE"] = HCP_IND_OBJ_BASE_ADDR_STATE_CMD
    /\ Layout["VDENC_SRC_SURFACE_STATE"] = VDENC_SRC_SURFACE_STATE_CMD
    /\ Layout["VDENC_REF_SURFACE_STATE"] = VDENC_REF_SURFACE_STATE_CMD
    /\ Layout["VDENC_DS_REF_SURFACE_STATE"] = VDENC_DS_REF_SURFACE_STATE_CMD
BY DEF Layout

\* Every command has at least its header.
LEMMA CommandFields ==
    ASSUME NEW cmd \in DOMAIN Layout
    PROVE  Layout[cmd] \in Seq(Kinds) /\ Len(Layout[cmd]) \in Nat \ {0}
<1>1. \E n \in Nat \ {0} : Layout[cmd] \in Fields(n, {})
  <2>1. HCP_PIPE_BUF_ADDR_STATE_CMD \in Fields(121, {}) /\ VDENC_PIPE_BUF_ADDR_STATE_CMD \in Fields(71, {})
    BY PipeLayout, VdencLayout, FieldsFewer
  <2>2. /\ HCP_SURFACE_STATE_CMD \in Fields(5, {}) /\ VDENC_SRC_SURFACE_STATE_CMD \in Fields(6, {})
        /\ VDENC_REF_SURFACE_STATE_CMD \in Fields(6, {}) /\ VDENC_DS_REF_SURFACE_STATE_CMD \in Fields(10, {})
    BY SurfaceLayouts, ReaderLayouts
  <2>3. QED
    BY <2>1, <2>2, OtherLayouts DEF Layout
<1>2. QED
  BY <1>1 DEF Fields

\* A packet has at least its header, in either generation.
LEMMA LengthPositive ==
    ASSUME NEW p \in Packet
    PROVE  /\ FieldsOf(p) \in Seq(Kinds) \/ p.cmd \in DOMAIN OtherLayout
           /\ length(p) \in Nat \ {0}
<1>1. CASE p.cmd \in DOMAIN OtherLayout
  <2>1. Len(FieldsOf(p)) \in Nat \ {0}
    BY <1>1 DEF FieldsOf, OtherLayout
  <2>2. p.cmd \notin DOMAIN Gen11Length
    BY <1>1 DEF OtherLayout, Gen11Length
  <2>3. QED
    BY <1>1, <2>1, <2>2 DEF length
<1>2. CASE p.cmd \notin DOMAIN OtherLayout
  <2>1. p.cmd \in DOMAIN Layout /\ FieldsOf(p) = Layout[p.cmd]
    BY <1>2 DEF Packet, Commands, FieldsOf
  <2>2. FieldsOf(p) \in Seq(Kinds) /\ Len(FieldsOf(p)) \in Nat \ {0}
    BY <2>1, CommandFields
  <2>3. p.cmd \in DOMAIN Gen11Length => Gen11Length[p.cmd] \in Nat \ {0}
    BY DEF Gen11Length
  <2>4. QED
    BY <2>2, <2>3 DEF length
<1>3. QED
  BY <1>1, <1>2

\* The packets of b lie one behind the other.
Ordered(b) ==
    /\ b \in Seq(Packet)
    /\ \A i, j \in DOMAIN b : i < j => b[i].at + length(b[i]) <= b[j].at

\* A packet moved to another place.
SamePacket(p, q) == p.cmd = q.cmd /\ p.gen = q.gen /\ p.id = q.id /\ p.from = q.from

\* Where a packet lies says nothing about its fields.
LEMMA SameLength ==
    ASSUME NEW p, NEW q, SamePacket(p, q)
    PROVE  length(p) = length(q) /\ FieldsOf(p) = FieldsOf(q)
BY DEF SamePacket, length, FieldsOf

\* What LaidOut does: the packets, one behind the other.
LEMMA LaidOutOrdered ==
    ASSUME NEW n \in Nat \ {0}, NEW s \in Seq(Packet), Len(s) = n
    PROVE  /\ Ordered(LaidOut(s))
           /\ Len(LaidOut(s)) = n
           /\ \A i \in 1..n : SamePacket(LaidOut(s)[i], s[i])
<1> DEFINE size == [i \in 1..n |-> length(s[i])]
           step(e) == [i \in 0..n |-> IF i = 0 THEN 0 ELSE e[i - 1] + length(s[i])]
           end == CHOOSE e : e = step(e)
           b == [i \in 1..n |-> [s[i] EXCEPT !.at = end[i - 1]]]
<1>1. s \in [1..n -> Packet] /\ DOMAIN s = 1..n
  BY LenProperties
<1>2. \A i \in 1..n : s[i] \in Packet /\ length(s[i]) \in Nat \ {0}
  BY <1>1, LengthPositive
<1>3. size \in [1..n -> Nat] /\ \A i \in 1..n : size[i] = length(s[i])
  BY <1>2
<1>4. LaidOut(s) = b
  BY <1>1 DEF LaidOut
<1> HIDE DEF size
<1>5. \E e : e = [i \in 0..n |-> IF i = 0 THEN 0 ELSE e[i - 1] + size[i]] /\ IsEnds(e, n, size)
  BY <1>3, EndsExist
<1>6. \A e : step(e) = [i \in 0..n |-> IF i = 0 THEN 0 ELSE e[i - 1] + size[i]]
  BY <1>3
<1>7. \E e : e = step(e)
  <2> HIDE DEF step
  <2>1. QED
    BY <1>5, <1>6
<1>8. end = step(end)
  BY <1>7
<1> HIDE DEF end
<1>9. /\ end[0] = 0
      /\ \A i \in 1..n : end[i] = end[i - 1] + size[i]
  <2>1. \A i \in 0..n : end[i] = IF i = 0 THEN 0 ELSE end[i - 1] + length(s[i])
    BY <1>8, Zenon
  <2>2. 0 \in 0..n /\ \A i \in 1..n : i \in 0..n /\ i # 0
    OBVIOUS
  <2>3. QED
    BY <1>3, <2>1, <2>2
<1>10. \A i \in 0..n : end[i] \in Nat
  <2> DEFINE S == {i \in Nat : i <= n => end[i] \in Nat}
  <2>1. 0 \in S
    BY <1>9
  <2>2. \A i \in S : i + 1 \in S
    <3> SUFFICES ASSUME NEW i \in S, i + 1 <= n PROVE end[i + 1] \in Nat
        OBVIOUS
    <3>1. i + 1 \in 1..n /\ (i + 1) - 1 = i /\ end[i] \in Nat
      OBVIOUS
    <3>2. QED
      BY <1>3, <1>9, <3>1
  <2>3. S = Nat
    BY <2>1, <2>2, NaturalInduction, Zenon
  <2>4. \A i \in 0..n : i \in S
    <3> HIDE DEF S
    <3>1. QED
      BY <2>3
  <2>5. QED
    BY <2>4
<1>11. IsEnds(end, n, size)
  <2>1. end \in [0..n -> Nat]
    <3>1. end = [i \in 0..n |-> end[i]]
      BY <1>8
    <3>2. QED
      BY <1>10, <3>1
  <2>2. QED
    BY <1>9, <2>1 DEF IsEnds
<1>12. \A i \in 1..n : b[i] \in Packet /\ SamePacket(b[i], s[i]) /\ b[i].at = end[i - 1]
  <2> TAKE i \in 1..n
  <2>1. end[i - 1] \in Nat
    BY <1>10
  <2>2. b[i] = [s[i] EXCEPT !.at = end[i - 1]] /\ s[i] \in Packet
    BY <1>2
  <2> HIDE DEF b
  <2>3. QED
    BY <2>1, <2>2 DEF Packet, SamePacket
<1>13. b \in [1..n -> Packet]
  BY <1>12
<1>14. DOMAIN b = 1..n
  OBVIOUS
<1> HIDE DEF b
<1>15. b \in Seq(Packet) /\ Len(b) = n
  BY <1>13, FunctionIsList
<1>16. ASSUME NEW i \in 1..n, NEW j \in 1..n, i < j PROVE b[i].at + length(b[i]) <= b[j].at
  <2>1. length(b[i]) = size[i]
    BY <1>3, <1>12, SameLength
  <2>2. b[i].at + length(b[i]) = end[i]
    BY <1>9, <1>12, <2>1
  <2>3. end[i] <= end[j - 1]
    <3>1. i \in 0..n /\ j - 1 \in 0..n /\ i <= j - 1
      BY <1>16
    <3>2. QED
      BY <1>3, <1>11, <3>1, EndsRise
  <2>4. QED
    BY <1>12, <2>2, <2>3
<1>17. Ordered(b)
  BY <1>14, <1>15, <1>16 DEF Ordered
<1>18. QED
  BY <1>4, <1>12, <1>15, <1>17

\* A target within a packet is in that packet and in no other.
LEMMA Located ==
    ASSUME NEW b, Ordered(b), NEW i \in DOMAIN b, NEW d \in Nat, d < length(b[i])
    PROVE  /\ PacketAt(b, b[i].at + d) = i
           /\ DwordAt(b, b[i].at + d) = d
           /\ FieldAt(b, b[i].at + d) = FieldsOf(b[i])[d + 1]
<1>1. DOMAIN b \subseteq Nat /\ \A k \in DOMAIN b : b[k] \in Packet
  <2>1. b \in [1..Len(b) -> Packet]
    BY LenProperties DEF Ordered
  <2>2. QED
    BY <2>1
<1>2. \A k \in DOMAIN b : b[k].at \in Nat /\ length(b[k]) \in Nat \ {0}
  BY <1>1, LengthPositive DEF Packet
<1> DEFINE t == b[i].at + d
<1>3. b[i].at <= t /\ t < b[i].at + length(b[i]) /\ t \in Nat
  BY <1>2
<1>4. ASSUME NEW k \in DOMAIN b, b[k].at <= t, t < b[k].at + length(b[k]) PROVE k = i
  <2>1. CASE k < i
    <3>1. b[k].at + length(b[k]) <= b[i].at
      BY <2>1 DEF Ordered
    <3>2. QED
      BY <1>2, <1>3, <1>4, <3>1
  <2>2. CASE i < k
    <3>1. b[i].at + length(b[i]) <= b[k].at
      BY <2>2 DEF Ordered
    <3>2. QED
      BY <1>2, <1>3, <1>4, <3>1
  <2>3. QED
    BY <1>1, <2>1, <2>2
<1> HIDE DEF t
<1>5. PacketAt(b, t) = i
  BY <1>3, <1>4 DEF PacketAt
<1>6. DwordAt(b, t) = d
  BY <1>2, <1>5 DEF DwordAt, t
<1>7. QED
  BY <1>5, <1>6 DEF FieldAt, t

\* The commands of the driver's batch that the preparation looks for.
Sought == {"HCP_PIPE_MODE_SELECT", "HCP_SURFACE_STATE", "HCP_PIPE_BUF_ADDR_STATE",
           "VDENC_REF_SURFACE_STATE", "VDENC_DS_REF_SURFACE_STATE", "VDENC_PIPE_BUF_ADDR_STATE",
           "MI_FORCE_WAKEUP"}

\* A packet of the driver: the old encoding exactly where the converter knows it.
Native(p) == p \in Packet /\ (p.gen = 11 <=> p.cmd \in DOMAIN Gen11Length)

\* What the proofs use of a batch of the driver.
Driven(b) ==
    /\ Ordered(b) /\ Len(b) \in 22..23
    /\ \A i \in DOMAIN b : Native(b[i]) /\ b[i].from = i
    /\ \A i \in DOMAIN b : i \notin {2, 3, 4, 5, 9, 10, 11} => b[i].cmd \notin Sought
    /\ b[2].cmd = "HCP_PIPE_MODE_SELECT"
    /\ b[3].cmd = "HCP_SURFACE_STATE" /\ b[3].id = 0
    /\ b[4].cmd = "HCP_SURFACE_STATE" /\ b[4].id = 1
    /\ b[5].cmd = "HCP_PIPE_BUF_ADDR_STATE"
    /\ b[9].cmd = "VDENC_REF_SURFACE_STATE"
    /\ b[10].cmd = "VDENC_DS_REF_SURFACE_STATE"
    /\ b[11].cmd = "VDENC_PIPE_BUF_ADDR_STATE"
    /\ b[Len(b)].cmd = "MI_BATCH_BUFFER_END"

\* A packet as the driver lists it.
Listed(cmd, gen, id) == [cmd |-> cmd, gen |-> gen, id |-> id, from |-> 0, at |-> 0]

Start ==
    <<Listed("MI_FLUSH_DW", 12, 0),           Listed("HCP_PIPE_MODE_SELECT", 11, 0),
      Listed("HCP_SURFACE_STATE", 11, 0),     Listed("HCP_SURFACE_STATE", 11, 1),
      Listed("HCP_PIPE_BUF_ADDR_STATE", 11, 0), Listed("HCP_IND_OBJ_BASE_ADDR_STATE", 12, 0),
      Listed("VDENC_PIPE_MODE_SELECT", 11, 0), Listed("VDENC_SRC_SURFACE_STATE", 12, 0),
      Listed("VDENC_REF_SURFACE_STATE", 12, 0), Listed("VDENC_DS_REF_SURFACE_STATE", 12, 0),
      Listed("VDENC_PIPE_BUF_ADDR_STATE", 11, 0), Listed("VDENC_CMD1", 11, 0),
      Listed("HCP_PIC_STATE", 11, 0),         Listed("VDENC_CMD2", 11, 0),
      Listed("HEVC_VP9_RDOQ_STATE", 11, 0)>>
Middle == <<Listed("HCP_REF_IDX_STATE", 12, 0)>>
End ==
    <<Listed("HCP_SLICE_STATE", 11, 0),    Listed("VDENC_WEIGHTSOFFSETS_STATE", 11, 0),
      Listed("VDENC_WALKER_STATE", 11, 0), Listed("VD_PIPELINE_FLUSH", 12, 1),
      Listed("VD_PIPELINE_FLUSH", 12, 2),  Listed("MI_FLUSH_DW", 12, 0),
      Listed("MI_BATCH_BUFFER_END", 12, 0)>>

\* The parts of the list.
LEMMA ListParts ==
    /\ Start \in Seq(Packet) /\ Len(Start) = 15
    /\ \A i \in 1..15 : Native(Start[i])
    /\ \A i \in 1..15 : i \notin {2, 3, 4, 5, 9, 10, 11} => Start[i].cmd \notin Sought
    /\ Start[2].cmd = "HCP_PIPE_MODE_SELECT"
    /\ Start[3].cmd = "HCP_SURFACE_STATE" /\ Start[3].id = 0
    /\ Start[4].cmd = "HCP_SURFACE_STATE" /\ Start[4].id = 1
    /\ Start[5].cmd = "HCP_PIPE_BUF_ADDR_STATE"
    /\ Start[9].cmd = "VDENC_REF_SURFACE_STATE"
    /\ Start[10].cmd = "VDENC_DS_REF_SURFACE_STATE"
    /\ Start[11].cmd = "VDENC_PIPE_BUF_ADDR_STATE"
    /\ Middle \in Seq(Packet) /\ Len(Middle) = 1
    /\ \A i \in 1..1 : Native(Middle[i]) /\ Middle[i].cmd \notin Sought
    /\ End \in Seq(Packet) /\ Len(End) = 7
    /\ \A i \in 1..7 : Native(End[i]) /\ End[i].cmd \notin Sought
    /\ End[7].cmd = "MI_BATCH_BUFFER_END"
<1>1. ASSUME NEW cmd \in Commands, NEW gen \in {11, 12}, NEW id \in {0, 1, 2},
             gen = 11 <=> cmd \in DOMAIN Gen11Length
      PROVE  Native(Listed(cmd, gen, id)) /\ Listed(cmd, gen, id).cmd = cmd
             /\ Listed(cmd, gen, id).id = id /\ Listed(cmd, gen, id) \in Packet
  BY <1>1 DEF Native, Listed, Packet
<1>2. \A cmd, gen, id : Listed(cmd, gen, id).cmd = cmd /\ Listed(cmd, gen, id).id = id
  BY DEF Listed
<1>3. /\ \A cmd \in {"HCP_PIPE_MODE_SELECT", "HCP_SURFACE_STATE", "HCP_PIPE_BUF_ADDR_STATE",
                     "VDENC_PIPE_MODE_SELECT", "VDENC_PIPE_BUF_ADDR_STATE", "VDENC_CMD1", "HCP_PIC_STATE",
                     "VDENC_CMD2", "HEVC_VP9_RDOQ_STATE", "HCP_SLICE_STATE",
                     "VDENC_WEIGHTSOFFSETS_STATE", "VDENC_WALKER_STATE"} :
            \A id \in {0, 1, 2} : Native(Listed(cmd, 11, id)) /\ Listed(cmd, 11, id) \in Packet
      /\ \A cmd \in {"MI_FLUSH_DW", "HCP_IND_OBJ_BASE_ADDR_STATE", "VDENC_SRC_SURFACE_STATE",
                     "VDENC_REF_SURFACE_STATE", "VDENC_DS_REF_SURFACE_STATE", "HCP_REF_IDX_STATE",
                     "VD_PIPELINE_FLUSH", "MI_BATCH_BUFFER_END"} :
            \A id \in {0, 1, 2} : Native(Listed(cmd, 12, id)) /\ Listed(cmd, 12, id) \in Packet
  BY <1>1 DEF Commands, Layout, OtherLayout, Gen11Length
<1>4. Len(Start) = 15 /\ Len(Middle) = 1 /\ Len(End) = 7
  BY DEF Start, Middle, End
<1>5. \A i \in 1..15 : Native(Start[i]) /\ Start[i] \in Packet
  BY <1>3 DEF Start
<1>6. \A i \in 1..7 : Native(End[i]) /\ End[i] \in Packet /\ End[i].cmd \notin Sought
  BY <1>2, <1>3 DEF End, Sought
<1>7. \A i \in 1..1 : Native(Middle[i]) /\ Middle[i] \in Packet /\ Middle[i].cmd \notin Sought
  BY <1>2, <1>3 DEF Middle, Sought
<1>8. Start \in Seq(Packet) /\ Middle \in Seq(Packet) /\ End \in Seq(Packet)
  <2>1. Start = [i \in 1..15 |-> Start[i]] /\ Middle = [i \in 1..1 |-> Middle[i]] /\ End = [i \in 1..7 |-> End[i]]
    BY DEF Start, Middle, End
  <2>2. Start \in [1..15 -> Packet] /\ Middle \in [1..1 -> Packet] /\ End \in [1..7 -> Packet]
    BY <1>5, <1>6, <1>7, <2>1
  <2>3. QED
    BY <2>2, FunctionIsList
<1>9. \A i \in 1..15 : i \notin {2, 3, 4, 5, 9, 10, 11} => Start[i].cmd \notin Sought
  BY <1>2 DEF Start, Sought
<1>10. /\ Start[2].cmd = "HCP_PIPE_MODE_SELECT"
       /\ Start[3].cmd = "HCP_SURFACE_STATE" /\ Start[3].id = 0
       /\ Start[4].cmd = "HCP_SURFACE_STATE" /\ Start[4].id = 1
       /\ Start[5].cmd = "HCP_PIPE_BUF_ADDR_STATE"
       /\ Start[9].cmd = "VDENC_REF_SURFACE_STATE"
       /\ Start[10].cmd = "VDENC_DS_REF_SURFACE_STATE"
       /\ Start[11].cmd = "VDENC_PIPE_BUF_ADDR_STATE"
       /\ End[7].cmd = "MI_BATCH_BUFFER_END"
  BY <1>2 DEF Start, End
<1>11. QED
  BY <1>4, <1>5, <1>6, <1>7, <1>8, <1>9, <1>10

\* The batch of a predicted or an intra picture is what the proofs use of it.
LEMMA DriverDriven == ASSUME NEW inter \in BOOLEAN PROVE Driven(DriverBatch(inter))
<1> DEFINE mid == IF inter THEN Middle ELSE <<>>
           front == Start \o mid
           raw == front \o End
           s == [i \in DOMAIN raw |-> [raw[i] EXCEPT !.from = i]]
           m == IF inter THEN 1 ELSE 0
           n == 22 + m
           b == DriverBatch(inter)
<1>1. b = LaidOut(s)
  BY DEF DriverBatch, Start, Middle, End, Listed
<1>2. m \in {0, 1} /\ n \in 22..23 /\ n = 15 + m + 7
  OBVIOUS
<1>3. mid \in Seq(Packet) /\ Len(mid) = m /\ \A i \in 1..m : Native(mid[i]) /\ mid[i].cmd \notin Sought
  <2>1. CASE inter
    BY <2>1, ListParts
  <2>2. CASE ~inter
    BY <2>2, EmptySeq
  <2>3. QED
    BY <2>1, <2>2
<1> HIDE DEF mid, m
<1>4. /\ front \in Seq(Packet) /\ Len(front) = 15 + m
      /\ \A i \in 1..(15 + m) : front[i] = IF i <= 15 THEN Start[i] ELSE mid[i - 15]
  <2>1. Start \in Seq(Packet) /\ Len(Start) = 15
    BY ListParts
  <2>2. front \in Seq(Packet) /\ Len(front) = Len(Start) + Len(mid)
        /\ JoinedOf(front, Len(Start) + Len(mid), Start, Len(Start), mid)
    BY <1>3, <2>1, JoinedAt
  <2> HIDE DEF front
  <2>3. QED
    BY <1>3, <2>1, <2>2 DEF JoinedOf
<1> HIDE DEF front
<1>5. /\ raw \in Seq(Packet) /\ Len(raw) = n
      /\ \A i \in 1..n : raw[i] = IF i <= 15 + m THEN front[i] ELSE End[i - (15 + m)]
  <2>1. End \in Seq(Packet) /\ Len(End) = 7
    BY ListParts
  <2>2. raw \in Seq(Packet) /\ Len(raw) = Len(front) + Len(End)
        /\ JoinedOf(raw, Len(front) + Len(End), front, Len(front), End)
    BY <1>4, <2>1, JoinedAt
  <2>3. Len(front) + Len(End) = n
    BY <1>2, <1>4, <2>1
  <2> HIDE DEF raw, n
  <2>4. JoinedOf(raw, n, front, 15 + m, End) /\ Len(raw) = n
    BY <1>4, <2>2, <2>3, Zenon
  <2>5. QED
    BY <2>2, <2>4 DEF JoinedOf
<1> HIDE DEF raw, n
<1>6. \A i \in 1..n : raw[i] = IF i <= 15 THEN Start[i] ELSE IF i <= 15 + m THEN mid[i - 15] ELSE End[i - (15 + m)]
  BY <1>2, <1>4, <1>5
<1>7. ASSUME NEW i \in 1..n
      PROVE  Native(raw[i]) /\ (i \notin {2, 3, 4, 5, 9, 10, 11} => raw[i].cmd \notin Sought)
  <2>1. CASE i <= 15
    <3>1. i \in 1..15 /\ raw[i] = Start[i]
      BY <1>6, <2>1
    <3>2. QED
      BY <3>1, ListParts
  <2>2. CASE ~(i <= 15) /\ i <= 15 + m
    <3>1. i - 15 \in 1..m /\ raw[i] = mid[i - 15]
      BY <1>2, <1>6, <2>2
    <3>2. QED
      BY <1>3, <3>1
  <2>3. CASE ~(i <= 15) /\ ~(i <= 15 + m)
    <3>1. i - (15 + m) \in 1..7 /\ raw[i] = End[i - (15 + m)]
      BY <1>2, <1>6, <2>3
    <3>2. QED
      BY <3>1, ListParts
  <2>4. QED
    BY <2>1, <2>2, <2>3
<1>8. DOMAIN raw = 1..n /\ n \in Nat \ {0}
  BY <1>2, <1>5, LenProperties
<1>9. s \in Seq(Packet) /\ Len(s) = n /\ \A i \in 1..n : s[i] = [raw[i] EXCEPT !.from = i]
  <2>1. \A i \in 1..n : [raw[i] EXCEPT !.from = i] \in Packet
    BY <1>2, <1>7 DEF Native, Packet
  <2>2. s \in [1..n -> Packet]
    BY <1>8, <2>1
  <2>3. QED
    BY <1>8, <2>2, FunctionIsList
<1> HIDE DEF s
<1>10. Ordered(b) /\ Len(b) = n /\ \A i \in 1..n : SamePacket(b[i], s[i])
  BY <1>1, <1>8, <1>9, LaidOutOrdered
<1> HIDE DEF b
<1>11. \A i \in 1..n : b[i].cmd = raw[i].cmd /\ b[i].gen = raw[i].gen /\ b[i].id = raw[i].id /\ b[i].from = i
  <2> TAKE i \in 1..n
  <2>1. SamePacket(b[i], s[i]) /\ s[i] = [raw[i] EXCEPT !.from = i] /\ raw[i] \in Packet
    BY <1>7, <1>9, <1>10 DEF Native
  <2>2. QED
    BY <2>1 DEF SamePacket, Packet
<1>12. DOMAIN b = 1..n /\ \A i \in 1..n : b[i] \in Packet
  BY <1>10, LenProperties DEF Ordered
<1>13. \A i \in 1..n : Native(b[i])
  BY <1>7, <1>11, <1>12 DEF Native
<1>14. \A i \in 1..n : i \notin {2, 3, 4, 5, 9, 10, 11} => b[i].cmd \notin Sought
  BY <1>7, <1>11
<1>15. \A i \in 1..15 : i \in 1..n /\ raw[i] = Start[i]
  BY <1>2, <1>6
<1>16. n \in 1..n /\ raw[n] = End[7]
  BY <1>2, <1>6
<1>17. /\ b[2].cmd = "HCP_PIPE_MODE_SELECT"
       /\ b[3].cmd = "HCP_SURFACE_STATE" /\ b[3].id = 0
       /\ b[4].cmd = "HCP_SURFACE_STATE" /\ b[4].id = 1
       /\ b[5].cmd = "HCP_PIPE_BUF_ADDR_STATE"
       /\ b[9].cmd = "VDENC_REF_SURFACE_STATE"
       /\ b[10].cmd = "VDENC_DS_REF_SURFACE_STATE"
       /\ b[11].cmd = "VDENC_PIPE_BUF_ADDR_STATE"
  BY <1>11, <1>15, ListParts
<1>18. b[n].cmd = "MI_BATCH_BUFFER_END"
  BY <1>11, <1>16, ListParts
<1>19. Driven(b)
  BY <1>2, <1>10, <1>11, <1>12, <1>13, <1>14, <1>17, <1>18 DEF Driven
<1>20. QED
  BY <1>19 DEF b

\* The commands that are only ever inserted, and those the driver uses nothing of.
Auxiliary == {"MI_FORCE_WAKEUP", "VDENC_CONTROL_STATE", "VD_CONTROL_STATE", "MFX_WAIT"}

\* The rewritten batch n of b: `place` is where each packet went, `ref` the
\* surface of the reference pictures.
Renewed(b, n, place, ref) ==
    /\ Ordered(n)
    /\ place \in [DOMAIN b -> DOMAIN n]
    /\ \A i \in DOMAIN b : /\ n[place[i]].cmd = b[i].cmd /\ n[place[i]].id = b[i].id
                           /\ n[place[i]].gen = 12 /\ n[place[i]].from = i
    /\ ref \in DOMAIN n
    /\ n[ref].cmd = "HCP_SURFACE_STATE" /\ n[ref].id = 5 /\ n[ref].gen = 12 /\ n[ref].from = 0
    /\ \A j \in DOMAIN n : \/ \E i \in DOMAIN b : j = place[i]
                           \/ n[j].from = 0 /\ n[j].cmd \in Auxiliary
                           \/ j = ref
    /\ place[Len(b)] = Len(n)
    /\ \E j \in DOMAIN n : n[j].cmd = "MI_FORCE_WAKEUP"

\* What is put before a packet.
LEMMA BeforeWhat ==
    ASSUME NEW p \in Packet
    PROVE  /\ Before(p) \in Seq(Packet)
           /\ p.cmd # "HCP_PIPE_BUF_ADDR_STATE" =>
                \A k \in 1..Len(Before(p)) : Before(p)[k].from = 0 /\ Before(p)[k].cmd \in Auxiliary
           /\ p.cmd = "HCP_PIPE_BUF_ADDR_STATE" =>
                Before(p) = <<Inserted("HCP_SURFACE_STATE", 5)>>
           /\ p.cmd = "HCP_PIPE_MODE_SELECT" =>
                Len(Before(p)) = 4 /\ Before(p)[1].cmd = "MI_FORCE_WAKEUP"
<1> DEFINE four == <<Inserted("MI_FORCE_WAKEUP", 0), Inserted("VDENC_CONTROL_STATE", 0),
                     Inserted("VD_CONTROL_STATE", 0), Inserted("MFX_WAIT", 0)>>
           one == <<Inserted("VD_CONTROL_STATE", 1)>>
           surface == <<Inserted("HCP_SURFACE_STATE", 5)>>
<1>1. \A cmd \in Auxiliary \union {"HCP_SURFACE_STATE"} : \A id \in {0, 1, 5} :
        Inserted(cmd, id) \in Packet /\ Inserted(cmd, id).from = 0 /\ Inserted(cmd, id).cmd = cmd
  BY DEF Inserted, Packet, Commands, Auxiliary, OtherLayout, Layout
<1>2. /\ Len(four) = 4 /\ \A k \in 1..4 : four[k] \in Packet /\ four[k].from = 0 /\ four[k].cmd \in Auxiliary
      /\ four[1].cmd = "MI_FORCE_WAKEUP"
  BY <1>1 DEF Auxiliary
<1>3. Len(one) = 1 /\ \A k \in 1..1 : one[k] \in Packet /\ one[k].from = 0 /\ one[k].cmd \in Auxiliary
  BY <1>1 DEF Auxiliary
<1>4. Len(surface) = 1 /\ \A k \in 1..1 : surface[k] \in Packet
  BY <1>1
<1>5. four \in Seq(Packet) /\ one \in Seq(Packet) /\ surface \in Seq(Packet) /\ <<>> \in Seq(Packet)
  <2>1. /\ four = [k \in 1..4 |-> four[k]] /\ one = [k \in 1..1 |-> one[k]]
        /\ surface = [k \in 1..1 |-> surface[k]]
    OBVIOUS
  <2>2. four \in [1..4 -> Packet] /\ one \in [1..1 -> Packet] /\ surface \in [1..1 -> Packet]
    BY <1>2, <1>3, <1>4, <2>1
  <2>3. QED
    BY <2>2, FunctionIsList, EmptySeq
<1> HIDE DEF four, one, surface
<1>6. CASE p.cmd = "HCP_PIPE_MODE_SELECT"
  <2>1. Before(p) = four
    BY <1>6 DEF Before, four
  <2>2. QED
    BY <1>2, <1>5, <1>6, <2>1
<1>7. CASE p.cmd = "VD_PIPELINE_FLUSH" /\ p.id = 1
  <2>1. Before(p) = one
    BY <1>7 DEF Before, one
  <2>2. QED
    BY <1>3, <1>5, <1>7, <2>1
<1>8. CASE p.cmd = "HCP_PIPE_BUF_ADDR_STATE"
  <2>1. Before(p) = surface
    BY <1>8 DEF Before, surface
  <2>2. QED
    BY <1>5, <1>8, <2>1 DEF surface
<1>9. CASE /\ p.cmd # "HCP_PIPE_MODE_SELECT" /\ p.cmd # "HCP_PIPE_BUF_ADDR_STATE"
           /\ ~(p.cmd = "VD_PIPELINE_FLUSH" /\ p.id = 1)
  <2>1. Before(p) = <<>>
    BY <1>9 DEF Before
  <2>2. QED
    BY <1>5, <1>9, <2>1, EmptySeq
<1>10. QED
  BY <1>6, <1>7, <1>8, <1>9

\* The rewritten batch of the driver.
LEMMA RebuiltRenewed ==
    ASSUME NEW b, Driven(b)
    PROVE  \E place, ref : Renewed(b, Rebuilt(b), place, ref)
<1> DEFINE n == Len(b)
           ss == [i \in 1..n |-> Before(b[i]) \o <<convert(b[i])>>]
           s == FlattenSeq(ss)
           new == LaidOut(s)
<1>1. n \in Nat \ {0} /\ n \in 22..23 /\ DOMAIN b = 1..n
  BY LenProperties DEF Driven, Ordered
<1>2. Rebuilt(b) = new
  BY <1>1 DEF Rebuilt
<1>3. \A i \in 1..n : b[i] \in Packet /\ b[i].from = i
  BY <1>1 DEF Driven, Native
<1>4. ASSUME NEW i \in 1..n
      PROVE  /\ convert(b[i]) \in Packet
             /\ convert(b[i]).gen = 12 /\ convert(b[i]).cmd = b[i].cmd /\ convert(b[i]).id = b[i].id
             /\ convert(b[i]).from = i
  BY <1>3 DEF convert, Packet
<1>5. ASSUME NEW i \in 1..n
      PROVE  /\ ss[i] \in Seq(Packet) /\ Len(ss[i]) = Len(Before(b[i])) + 1 /\ Len(Before(b[i])) \in Nat
             /\ ss[i][Len(ss[i])] = convert(b[i])
             /\ \A k \in 1..Len(ss[i]) : k # Len(ss[i]) =>
                    k \in 1..Len(Before(b[i])) /\ ss[i][k] = Before(b[i])[k]
  <2> DEFINE x == Before(b[i])
             y == <<convert(b[i])>>
  <2>1. x \in Seq(Packet)
    BY <1>3, BeforeWhat
  <2>2. y \in Seq(Packet) /\ Len(y) = 1 /\ y[1] = convert(b[i])
    BY <1>4
  <2>3. ss[i] = x \o y
    OBVIOUS
  <2> HIDE DEF x, y
  <2>4. x \o y \in Seq(Packet) /\ Len(x \o y) = Len(x) + Len(y)
        /\ JoinedOf(x \o y, Len(x) + Len(y), x, Len(x), y)
    BY <2>1, <2>2, JoinedAt
  <2> DEFINE z == ss[i]
  <2>5. z \in Seq(Packet) /\ Len(z) = Len(x) + Len(y) /\ JoinedOf(z, Len(x) + Len(y), x, Len(x), y)
    BY <2>3, <2>4
  <2> HIDE DEF z
  <2>6. Len(x) \in Nat
    BY <2>1, LenProperties
  <2>7. Len(z) = Len(x) + 1
    BY <2>2, <2>5
  <2>8. \A k \in 1..(Len(x) + 1) : z[k] = IF k <= Len(x) THEN x[k] ELSE y[k - Len(x)]
    BY <2>2, <2>5 DEF JoinedOf
  <2>9. z[Len(z)] = convert(b[i])
    BY <2>2, <2>6, <2>7, <2>8
  <2>10. \A k \in 1..Len(z) : k # Len(z) => k \in 1..Len(x) /\ z[k] = x[k]
    BY <2>6, <2>7, <2>8
  <2>11. QED
    BY <2>5, <2>6, <2>7, <2>9, <2>10 DEF x, z
<1>6. ss \in [1..n -> Seq(Packet)] /\ \A i \in 1..n : ss[i] \in Seq(Packet)
  BY <1>5
<1>a. \A i \in 1..n : Len(ss[i]) = Len(Before(b[i])) + 1 /\ Len(Before(b[i])) \in Nat
  BY <1>5
<1> HIDE DEF ss
<1>7. PICK e : /\ IsEnds(e, n, Lengths(ss, n)) /\ s \in Seq(Packet)
               /\ Pieced(s, ss, n, e) /\ Covered(e, n, Lengths(ss, n))
  BY <1>1, <1>6, FlattenedPieces
<1> DEFINE m == e[n]
<1>8. /\ e[0] = 0
      /\ \A i \in 0..n : e[i] \in Nat
      /\ \A i \in 1..n : e[i] = e[i - 1] + Len(ss[i]) /\ Len(ss[i]) \in Nat \ {0}
  <2>1. /\ e[0] = 0 /\ \A i \in 0..n : e[i] \in Nat
        /\ \A i \in 1..n : e[i] = e[i - 1] + Lengths(ss, n)[i]
    BY <1>7 DEF IsEnds
  <2>2. \A i \in 1..n : Lengths(ss, n)[i] = Len(ss[i])
    BY DEF Lengths
  <2>3. \A i \in 1..n : Len(ss[i]) \in Nat \ {0}
    BY <1>a
  <2>4. QED
    BY <2>1, <2>2, <2>3
<1>9. \A i \in 1..n : e[i] \in 1..m /\ s[e[i]] = convert(b[i])
  <2> TAKE i \in 1..n
  <2>1. Len(ss[i]) \in 1..Len(ss[i]) /\ e[i - 1] + Len(ss[i]) = e[i]
    BY <1>8
  <2>2. e[i] \in 1..m /\ s[e[i]] = ss[i][Len(ss[i])]
    BY <1>7, <2>1 DEF Pieced
  <2>3. QED
    BY <1>5, <2>2
<1>10. m \in Nat \ {0} /\ Len(s) = m
  BY <1>1, <1>7, <1>8, <1>9 DEF Pieced
<1>11. Ordered(new) /\ Len(new) = m /\ \A j \in 1..m : SamePacket(new[j], s[j])
  BY <1>7, <1>10, LaidOutOrdered
<1>12. DOMAIN new = 1..m
  BY <1>11, LenProperties DEF Ordered
<1> HIDE DEF s, new, m
<1> DEFINE place == [i \in 1..n |-> e[i]]
           ref == e[4] + 1
<1>13. place \in [1..n -> 1..m]
  BY <1>9
<1>14. \A i \in 1..n : /\ new[place[i]].cmd = b[i].cmd /\ new[place[i]].id = b[i].id
                       /\ new[place[i]].gen = 12 /\ new[place[i]].from = i
  <2> TAKE i \in 1..n
  <2>1. place[i] = e[i] /\ e[i] \in 1..m /\ SamePacket(new[e[i]], convert(b[i]))
    BY <1>9, <1>11
  <2>2. QED
    BY <1>4, <2>1 DEF SamePacket
<1>15. \A j \in 1..m : \E i \in 1..n : \E k \in 1..Len(ss[i]) : j = e[i - 1] + k
  BY <1>7 DEF Covered, Lengths, m
<1>16. \A i \in 1..n : \A k \in 1..Len(ss[i]) : e[i - 1] + k \in 1..m /\ s[e[i - 1] + k] = ss[i][k]
  BY <1>7 DEF Pieced, m
<1>17. /\ \A i \in 1..n : i # 5 => b[i].cmd # "HCP_PIPE_BUF_ADDR_STATE"
       /\ b[5].cmd = "HCP_PIPE_BUF_ADDR_STATE" /\ 5 \in 1..n
       /\ b[2].cmd = "HCP_PIPE_MODE_SELECT" /\ 2 \in 1..n
  <2>1. /\ \A i \in 1..n : i \notin {2, 3, 4, 5, 9, 10, 11} => b[i].cmd \notin Sought
        /\ b[2].cmd = "HCP_PIPE_MODE_SELECT" /\ b[3].cmd = "HCP_SURFACE_STATE"
        /\ b[4].cmd = "HCP_SURFACE_STATE" /\ b[5].cmd = "HCP_PIPE_BUF_ADDR_STATE"
        /\ b[9].cmd = "VDENC_REF_SURFACE_STATE" /\ b[10].cmd = "VDENC_DS_REF_SURFACE_STATE"
        /\ b[11].cmd = "VDENC_PIPE_BUF_ADDR_STATE"
    BY <1>1 DEF Driven
  <2>2. 2 \in 1..n /\ 5 \in 1..n
    BY <1>1
  <2> HIDE DEF n
  <2>3. ASSUME NEW i \in 1..n, i # 5 PROVE b[i].cmd # "HCP_PIPE_BUF_ADDR_STATE"
    <3>1. CASE i \in {2, 3, 4, 9, 10, 11}
      BY <2>1, <3>1
    <3>2. CASE i \notin {2, 3, 4, 9, 10, 11}
      <4>1. b[i].cmd \notin Sought
        BY <2>1, <2>3, <3>2
      <4>2. QED
        BY <4>1 DEF Sought
    <3>3. QED
      BY <3>1, <3>2
  <2>4. QED
    BY <2>1, <2>2, <2>3
<1>18. /\ ref \in 1..m
       /\ new[ref].cmd = "HCP_SURFACE_STATE" /\ new[ref].id = 5 /\ new[ref].gen = 12 /\ new[ref].from = 0
  <2>1. Before(b[5]) = <<Inserted("HCP_SURFACE_STATE", 5)>>
    BY <1>3, <1>17, BeforeWhat
  <2>2. Len(Before(b[5])) = 1 /\ Before(b[5])[1] = Inserted("HCP_SURFACE_STATE", 5)
    BY <2>1
  <2>3. Len(ss[5]) = 2 /\ ss[5][1] = Before(b[5])[1]
    <3>1. Len(ss[5]) = 2
      <4>1. 5 \in 1..n
        BY <1>17
      <4>2. Len(ss[5]) = Len(Before(b[5])) + 1
        BY <1>a, <4>1, Zenon
      <4>3. QED
        BY <2>2, <4>2
    <3>2. 1 \in 1..Len(ss[5]) /\ 1 # Len(ss[5])
      BY <3>1
    <3>3. QED
      BY <1>5, <1>17, <3>1, <3>2
  <2>4. ref \in 1..m /\ s[ref] = Inserted("HCP_SURFACE_STATE", 5)
    <3>1. e[5 - 1] + 1 \in 1..m /\ s[e[5 - 1] + 1] = ss[5][1]
      BY <1>16, <1>17, <2>3
    <3>2. QED
      BY <2>2, <2>3, <3>1
  <2>5. SamePacket(new[ref], Inserted("HCP_SURFACE_STATE", 5))
    BY <1>11, <2>4
  <2>6. QED
    BY <2>4, <2>5 DEF SamePacket, Inserted
<1>19. ASSUME NEW j \in 1..m
       PROVE  \/ \E i \in 1..n : j = place[i]
              \/ new[j].from = 0 /\ new[j].cmd \in Auxiliary
              \/ j = ref
  <2>1. PICK i \in 1..n : \E k \in 1..Len(ss[i]) : j = e[i - 1] + k
    BY <1>15
  <2>2. PICK k \in 1..Len(ss[i]) : j = e[i - 1] + k
    BY <2>1
  <2>3. s[j] = ss[i][k] /\ SamePacket(new[j], s[j])
    BY <1>11, <1>16, <2>2
  <2>4. CASE k = Len(ss[i])
    <3>1. j = e[i]
      BY <1>8, <2>2, <2>4
    <3>2. QED
      BY <3>1
  <2>5. CASE k # Len(ss[i])
    <3>1. k \in 1..Len(Before(b[i])) /\ ss[i][k] = Before(b[i])[k]
      BY <1>5, <2>5
    <3>2. CASE i = 5
      <4>1. Before(b[5]) = <<Inserted("HCP_SURFACE_STATE", 5)>>
        BY <1>3, <1>17, BeforeWhat
      <4>2. Len(Before(b[5])) = 1
        BY <4>1
      <4>3. k = 1
        BY <3>1, <3>2, <4>2
      <4>4. j = ref
        BY <2>2, <3>2, <4>3
      <4>5. QED
        BY <4>4
    <3>3. CASE i # 5
      <4>1. Before(b[i])[k].from = 0 /\ Before(b[i])[k].cmd \in Auxiliary
        BY <1>3, <1>17, <3>1, <3>3, BeforeWhat
      <4>2. new[j].from = 0 /\ new[j].cmd \in Auxiliary
        BY <2>3, <3>1, <4>1 DEF SamePacket
      <4>3. QED
        BY <4>2
    <3>4. QED
      BY <3>2, <3>3
  <2>6. QED
    BY <2>4, <2>5
<1>20. place[n] = Len(new)
  BY <1>1, <1>11 DEF m
<1>21. \E j \in 1..m : new[j].cmd = "MI_FORCE_WAKEUP"
  <2>1. Len(Before(b[2])) = 4 /\ Before(b[2])[1].cmd = "MI_FORCE_WAKEUP"
    BY <1>3, <1>17, BeforeWhat
  <2>2. Len(ss[2]) = 5
    <3>1. 2 \in 1..n
      BY <1>17
    <3>2. Len(ss[2]) = Len(Before(b[2])) + 1
      BY <1>a, <3>1, Zenon
    <3>3. QED
      BY <2>1, <3>2
  <2>3. 1 \in 1..Len(ss[2]) /\ 1 # Len(ss[2])
    BY <2>2
  <2>4. ss[2][1] = Before(b[2])[1]
    BY <1>5, <1>17, <2>3
  <2>5. e[2 - 1] + 1 \in 1..m /\ s[e[2 - 1] + 1] = ss[2][1]
    BY <1>16, <1>17, <2>3
  <2> DEFINE j == e[2 - 1] + 1
  <2>6. j \in 1..m /\ SamePacket(new[j], s[j]) /\ s[j].cmd = "MI_FORCE_WAKEUP"
    BY <1>11, <2>1, <2>4, <2>5
  <2>7. QED
    BY <2>6 DEF SamePacket
<1> HIDE DEF place, ref
<1>22. Renewed(b, new, place, ref)
  <2>1. place \in [DOMAIN b -> DOMAIN new]
    BY <1>1, <1>12, <1>13
  <2>2. \A j \in DOMAIN new : \/ \E i \in DOMAIN b : j = place[i]
                              \/ new[j].from = 0 /\ new[j].cmd \in Auxiliary
                              \/ j = ref
    BY <1>1, <1>12, <1>19
  <2>3. QED
    BY <1>1, <1>11, <1>12, <1>14, <1>18, <1>20, <1>21, <2>1, <2>2, Zenon DEF Renewed
<1>23. QED
  BY <1>2, <1>22

\* The only element of a set of numbers is its greatest.
LEMMA MaxSingleton == ASSUME NEW x \in Int PROVE Max({x}) = x
BY DEF Max

\* Where the packets of the driver went, and the surface of the references.
Place(b) == [i \in DOMAIN b |-> Became(Rebuilt(b), i)]
Ref(b) == Max(Find(Rebuilt(b), "HCP_SURFACE_STATE", 5))

\* What the choices in the code pick: the packets it looks for are unique.
LEMMA RenewedHere ==
    ASSUME NEW b, Driven(b)
    PROVE  /\ Renewed(b, Rebuilt(b), Place(b), Ref(b))
           /\ Find(Rebuilt(b), "HCP_SURFACE_STATE", 5) = {Ref(b)}
<1> DEFINE n == Rebuilt(b)
<1>1. PICK place, ref : Renewed(b, n, place, ref)
  BY RebuiltRenewed
<1> HIDE DEF n
<1>2. DOMAIN b \subseteq Nat \ {0} /\ DOMAIN n \subseteq Nat \ {0}
      /\ \A i \in DOMAIN b : b[i].cmd \in Commands
  <2>1. b \in [1..Len(b) -> Packet] /\ n \in [1..Len(n) -> Packet]
    BY <1>1, LenProperties DEF Driven, Ordered, Renewed
  <2>2. QED
    BY <2>1 DEF Packet
<1>3. ASSUME NEW i \in DOMAIN b PROVE Became(n, i) = place[i]
  <2>1. place[i] \in DOMAIN n /\ n[place[i]].from = i
    BY <1>1 DEF Renewed
  <2>2. ASSUME NEW j \in DOMAIN n, n[j].from = i PROVE j = place[i]
    <3>1. CASE \E k \in DOMAIN b : j = place[k]
      <4>1. PICK k \in DOMAIN b : j = place[k]
        BY <3>1
      <4>2. n[place[k]].from = k
        BY <1>1 DEF Renewed
      <4>3. QED
        BY <2>2, <4>1, <4>2
    <3>2. CASE n[j].from = 0
      BY <1>2, <2>2, <3>2
    <3>3. CASE j = ref
      BY <1>1, <1>2, <2>2, <3>3 DEF Renewed
    <3>4. QED
      BY <1>1, <3>1, <3>2, <3>3 DEF Renewed
  <2>3. QED
    BY <2>1, <2>2 DEF Became
<1>4. place = Place(b)
  <2>1. place = [i \in DOMAIN b |-> place[i]]
    BY <1>1 DEF Renewed
  <2>2. Place(b) = [i \in DOMAIN b |-> Became(n, i)]
    BY DEF Place, n
  <2>3. QED
    BY <1>3, <2>1, <2>2
<1>5. ASSUME NEW j \in DOMAIN n, n[j].cmd = "HCP_SURFACE_STATE", n[j].id = 5 PROVE j = ref
  <2>1. CASE \E k \in DOMAIN b : j = place[k]
    <3>1. PICK k \in DOMAIN b : j = place[k]
      BY <2>1
    <3>2. b[k].cmd = "HCP_SURFACE_STATE" /\ b[k].id = 5
      BY <1>1, <1>5, <3>1 DEF Renewed
    <3>3. CASE k \in {2, 3, 4, 5, 9, 10, 11}
      BY <3>2, <3>3 DEF Driven
    <3>4. CASE k \notin {2, 3, 4, 5, 9, 10, 11}
      <4>1. b[k].cmd \notin Sought
        BY <3>4 DEF Driven
      <4>2. QED
        BY <3>2, <4>1 DEF Sought
    <3>5. QED
      BY <3>3, <3>4
  <2>2. CASE n[j].cmd \in Auxiliary
    BY <1>5, <2>2 DEF Auxiliary
  <2>3. QED
    BY <1>1, <2>1, <2>2 DEF Renewed
<1>6. Find(n, "HCP_SURFACE_STATE", 5) = {ref}
  BY <1>1, <1>5 DEF Find, Renewed
<1>7. ref \in Int
  BY <1>1, <1>2 DEF Renewed
<1>8. Ref(b) = ref
  BY <1>6, <1>7, MaxSingleton DEF Ref, n
<1>9. QED
  BY <1>1, <1>4, <1>6, <1>8 DEF n

\* The packet of a command that the driver uses once is found.
LEMMA PacketsFound ==
    ASSUME NEW b, Driven(b), NEW i \in {5, 9, 10, 11}
    PROVE  Packets(Rebuilt(b), b[i].cmd) = {Place(b)[i]}
<1> DEFINE n == Rebuilt(b)
           place == Place(b)
<1>1. Renewed(b, n, place, Ref(b))
  BY RenewedHere
<1> HIDE DEF n, place
<1>2. DOMAIN b = 1..Len(b) /\ Len(b) \in 22..23
  BY LenProperties DEF Driven, Ordered
<1>3. i \in DOMAIN b
  BY <1>2
<1>4. b[i].cmd \in {"HCP_PIPE_BUF_ADDR_STATE", "VDENC_REF_SURFACE_STATE",
                    "VDENC_DS_REF_SURFACE_STATE", "VDENC_PIPE_BUF_ADDR_STATE"}
  BY DEF Driven
<1>5. ASSUME NEW k \in DOMAIN b, b[k].cmd = b[i].cmd PROVE k = i
  <2>1. CASE k \in {2, 3, 4, 5, 9, 10, 11}
    <3>1. /\ b[2].cmd = "HCP_PIPE_MODE_SELECT" /\ b[3].cmd = "HCP_SURFACE_STATE"
          /\ b[4].cmd = "HCP_SURFACE_STATE" /\ b[5].cmd = "HCP_PIPE_BUF_ADDR_STATE"
          /\ b[9].cmd = "VDENC_REF_SURFACE_STATE" /\ b[10].cmd = "VDENC_DS_REF_SURFACE_STATE"
          /\ b[11].cmd = "VDENC_PIPE_BUF_ADDR_STATE"
      BY DEF Driven
    <3>2. i = 5 \/ i = 9 \/ i = 10 \/ i = 11
      OBVIOUS
    <3>3. k = 2 \/ k = 3 \/ k = 4 \/ k = 5 \/ k = 9 \/ k = 10 \/ k = 11
      BY <2>1
    <3>4. b[k].cmd = b[i].cmd
      BY <1>5
    <3>5. QED
      BY <3>1, <3>2, <3>3, <3>4
  <2>2. CASE k \notin {2, 3, 4, 5, 9, 10, 11}
    <3>1. b[k].cmd \notin Sought
      BY <2>2 DEF Driven
    <3>2. QED
      BY <1>4, <1>5, <3>1 DEF Sought
  <2>3. QED
    BY <2>1, <2>2
<1>6. ASSUME NEW j \in DOMAIN n, n[j].cmd = b[i].cmd PROVE j = place[i]
  <2>1. CASE \E k \in DOMAIN b : j = place[k]
    BY <1>1, <1>5, <1>6, <2>1 DEF Renewed
  <2>2. CASE n[j].cmd \in Auxiliary
    BY <1>4, <1>6, <2>2 DEF Auxiliary
  <2>3. CASE j = Ref(b)
    BY <1>1, <1>4, <1>6, <2>3 DEF Renewed
  <2>4. QED
    BY <1>1, <2>1, <2>2, <2>3 DEF Renewed
<1>7. place[i] \in DOMAIN n /\ n[place[i]].cmd = b[i].cmd
  BY <1>1, <1>3 DEF Renewed
<1>8. Packets(n, b[i].cmd) = {place[i]}
  BY <1>6, <1>7 DEF Packets
<1>9. QED
  BY <1>8 DEF n, place

\* The reconstructed surface is found.
LEMMA ReconstructedFound ==
    ASSUME NEW b, Driven(b)
    PROVE  Find(Rebuilt(b), "HCP_SURFACE_STATE", 0) = {Place(b)[3]}
<1> DEFINE n == Rebuilt(b)
           place == Place(b)
<1>1. Renewed(b, n, place, Ref(b))
  BY RenewedHere
<1> HIDE DEF n, place
<1>2. 3 \in DOMAIN b /\ b[3].cmd = "HCP_SURFACE_STATE" /\ b[3].id = 0
  BY LenProperties DEF Driven, Ordered
<1>3. ASSUME NEW k \in DOMAIN b, b[k].cmd = "HCP_SURFACE_STATE", b[k].id = 0 PROVE k = 3
  <2>1. CASE k \in {2, 3, 4, 5, 9, 10, 11}
    BY <1>3, <2>1 DEF Driven
  <2>2. CASE k \notin {2, 3, 4, 5, 9, 10, 11}
    <3>1. b[k].cmd \notin Sought
      BY <2>2 DEF Driven
    <3>2. QED
      BY <1>3, <3>1 DEF Sought
  <2>3. QED
    BY <2>1, <2>2
<1>4. ASSUME NEW j \in DOMAIN n, n[j].cmd = "HCP_SURFACE_STATE", n[j].id = 0 PROVE j = place[3]
  <2>1. CASE \E k \in DOMAIN b : j = place[k]
    BY <1>1, <1>3, <1>4, <2>1 DEF Renewed
  <2>2. CASE n[j].cmd \in Auxiliary
    BY <1>4, <2>2 DEF Auxiliary
  <2>3. CASE j = Ref(b)
    BY <1>1, <1>4, <2>3 DEF Renewed
  <2>4. QED
    BY <1>1, <2>1, <2>2, <2>3 DEF Renewed
<1>5. place[3] \in DOMAIN n /\ n[place[3]].cmd = "HCP_SURFACE_STATE" /\ n[place[3]].id = 0
  BY <1>1, <1>2 DEF Renewed
<1>6. Find(n, "HCP_SURFACE_STATE", 0) = {place[3]}
  BY <1>4, <1>5 DEF Find
<1>7. QED
  BY <1>6 DEF n, place

\* What of the rewritten batch the proofs use.
LEMMA RebuiltFacts ==
    ASSUME NEW b, Driven(b), NEW n, n = Rebuilt(b)
    PROVE  /\ Ordered(n)
           /\ DOMAIN b \subseteq Nat /\ DOMAIN n \subseteq Nat /\ {3, 5, 9, 10, 11} \subseteq DOMAIN b
           /\ \A i \in DOMAIN b : /\ Place(b)[i] = Became(n, i) /\ Place(b)[i] \in DOMAIN n
                                  /\ n[Place(b)[i]] \in Packet
                                  /\ n[Place(b)[i]].cmd = b[i].cmd /\ n[Place(b)[i]].id = b[i].id
                                  /\ n[Place(b)[i]].gen = 12 /\ n[Place(b)[i]].from = i
           /\ Ref(b) \in DOMAIN n /\ n[Ref(b)] \in Packet /\ n[Ref(b)].cmd = "HCP_SURFACE_STATE"
           /\ n[Ref(b)].gen = 12 /\ n[Ref(b)].from = 0
           /\ Max(Find(n, "HCP_SURFACE_STATE", 5)) = Ref(b)
           /\ Max(Find(n, "HCP_SURFACE_STATE", 0)) = Place(b)[3]
           /\ Packets(n, "VDENC_REF_SURFACE_STATE") = {Place(b)[9]}
           /\ Packets(n, "VDENC_DS_REF_SURFACE_STATE") = {Place(b)[10]}
           /\ Pipe(n, "HCP_PIPE_BUF_ADDR_STATE") = n[Place(b)[5]].at
           /\ Pipe(n, "VDENC_PIPE_BUF_ADDR_STATE") = n[Place(b)[11]].at
           /\ Last(n).cmd = "MI_BATCH_BUFFER_END"
           /\ Packets(n, "MI_FORCE_WAKEUP") # {}
<1> DEFINE place == Place(b)
<1>1. Renewed(b, n, place, Ref(b)) /\ Find(n, "HCP_SURFACE_STATE", 5) = {Ref(b)}
  BY RenewedHere
<1>2. \A i \in DOMAIN b : place[i] = Became(n, i)
  BY DEF Place
<1>3. Packets(n, b[9].cmd) = {place[9]} /\ Packets(n, b[10].cmd) = {place[10]}
      /\ Packets(n, b[5].cmd) = {place[5]} /\ Packets(n, b[11].cmd) = {place[11]}
  BY PacketsFound
<1>4. Find(n, "HCP_SURFACE_STATE", 0) = {place[3]}
  BY ReconstructedFound
<1> HIDE DEF place
<1>5. DOMAIN b = 1..Len(b) /\ Len(b) \in 22..23
  BY LenProperties DEF Driven, Ordered
<1>6. DOMAIN n = 1..Len(n) /\ Len(n) \in Nat /\ \A j \in DOMAIN n : n[j] \in Packet
  <2>1. n \in Seq(Packet)
    BY <1>1 DEF Renewed, Ordered
  <2>2. QED
    BY <2>1, LenProperties
<1>7. DOMAIN b \subseteq Nat /\ DOMAIN n \subseteq Nat /\ {3, 5, 9, 10, 11} \subseteq DOMAIN b
  BY <1>5, <1>6
<1>8. \A i \in DOMAIN b : place[i] \in DOMAIN n
  BY <1>1 DEF Renewed
<1>9. place[3] \in Int /\ place[5] \in Int /\ place[11] \in Int /\ Ref(b) \in Int
  BY <1>1, <1>7, <1>8 DEF Renewed
<1>10. Max(Find(n, "HCP_SURFACE_STATE", 5)) = Ref(b) /\ Max(Find(n, "HCP_SURFACE_STATE", 0)) = place[3]
  BY <1>1, <1>4, <1>9, MaxSingleton
<1>11. /\ b[5].cmd = "HCP_PIPE_BUF_ADDR_STATE" /\ b[9].cmd = "VDENC_REF_SURFACE_STATE"
       /\ b[10].cmd = "VDENC_DS_REF_SURFACE_STATE" /\ b[11].cmd = "VDENC_PIPE_BUF_ADDR_STATE"
       /\ b[Len(b)].cmd = "MI_BATCH_BUFFER_END"
  BY DEF Driven
<1>12. Pipe(n, "HCP_PIPE_BUF_ADDR_STATE") = n[place[5]].at /\ Pipe(n, "VDENC_PIPE_BUF_ADDR_STATE") = n[place[11]].at
  BY <1>3, <1>9, <1>11, MaxSingleton DEF Pipe
<1>13. Last(n).cmd = "MI_BATCH_BUFFER_END"
  <2>1. Len(b) \in DOMAIN b
    BY <1>5
  <2>2. n[place[Len(b)]].cmd = b[Len(b)].cmd /\ place[Len(b)] = Len(n)
    BY <1>1, <2>1 DEF Renewed
  <2>3. QED
    BY <1>11, <2>2 DEF Last
<1>14. Packets(n, "MI_FORCE_WAKEUP") # {}
  BY <1>1 DEF Renewed, Packets
<1>15. Ordered(n)
  BY <1>1 DEF Renewed
<1>16. \A i \in DOMAIN b : /\ n[place[i]] \in Packet
                           /\ n[place[i]].cmd = b[i].cmd /\ n[place[i]].id = b[i].id
                           /\ n[place[i]].gen = 12 /\ n[place[i]].from = i
  BY <1>1, <1>6, <1>8 DEF Renewed
<1>17. Ref(b) \in DOMAIN n /\ n[Ref(b)] \in Packet /\ n[Ref(b)].cmd = "HCP_SURFACE_STATE"
       /\ n[Ref(b)].gen = 12 /\ n[Ref(b)].from = 0
  BY <1>1, <1>6 DEF Renewed
<1>18. QED
  BY <1>2, <1>3, <1>7, <1>8, <1>10, <1>11, <1>12, <1>13, <1>14, <1>15, <1>16, <1>17 DEF place

-----------------------------------------------------------------------------
(* Entries of the relocation table.                                        *)

Field(b, i, d) == FieldsOf(b[i])[d + 1]
ExtraHandle == [slot |-> 0, try |-> -1]

\* An entry the driver may hand over: it names a DWORD of a packet, and its
\* access is that of the field but for an extra entry on a replaced packet.
Entry(b, r) ==
    LET i == r.origin.packet
        d == r.origin.dw
    IN  /\ i \in DOMAIN b /\ d \in Nat \ {0} /\ d < length(b[i])
        /\ r.handle \in {DriverHandle, ExtraHandle}
        /\ r = Reloc(b[i].at + d, r.kind, r.handle, [packet |-> i, dw |-> d])
        /\ r.handle = DriverHandle \/ b[i].cmd \notin Converted => r.kind = NaturalKind(Field(b, i, d))

\* How long the packets of the driver are.
LEMMA NativeLength ==
    ASSUME NEW p, Native(p)
    PROVE  /\ length(p) \in Nat \ {0}
           /\ p.cmd \in DOMAIN Gen11Length => length(p) = Gen11Length[p.cmd]
           /\ p.cmd \notin DOMAIN Gen11Length => length(p) = Len(FieldsOf(p))
BY LengthPositive DEF Native, length

\* The entries of the audited table name DWORDs of their packets.
LEMMA DriverDwordsFit ==
    ASSUME NEW p, Native(p), NEW rows \in BOOLEAN, NEW d \in DriverDwords(p, rows)
    PROVE  d \in Nat \ {0} /\ d < length(p)
<1>1. /\ p.cmd \in DOMAIN Gen11Length => length(p) = Gen11Length[p.cmd]
      /\ p.cmd \notin DOMAIN Gen11Length => length(p) = Len(FieldsOf(p))
  BY NativeLength
<1>2. CASE p.cmd = "HCP_SURFACE_STATE"
  <2>1. d \in {1, 2}
    BY <1>2 DEF DriverDwords, AddressDwords
  <2>2. length(p) = 4
    BY <1>1, <1>2 DEF Gen11Length
  <2>3. QED
    BY <2>1, <2>2
<1>3. CASE p.cmd = "HCP_PIPE_BUF_ADDR_STATE"
  <2>1. d \in AddressDwords["HCP_PIPE_BUF_ADDR_STATE"] \union Range(RowDwords)
    BY <1>3 DEF DriverDwords
  <2>2. Range(RowDwords) = {4, 13, 22}
    BY DEF Range, RowDwords
  <2>3. length(p) = 121
    BY <1>1, <1>3 DEF Gen11Length
  <2>4. QED
    BY <2>1, <2>2, <2>3 DEF AddressDwords
<1>4. CASE p.cmd = "HCP_IND_OBJ_BASE_ADDR_STATE"
  <2>1. d = 1
    BY <1>4 DEF DriverDwords
  <2>2. length(p) = Len(HCP_IND_OBJ_BASE_ADDR_STATE_CMD)
    BY <1>1, <1>4, Catalogue DEF Gen11Length, FieldsOf, OtherLayout
  <2>3. length(p) = 29
    BY <2>2, OtherLayouts DEF Fields
  <2>4. QED
    BY <2>1, <2>3
<1>5. CASE p.cmd = "VDENC_SRC_SURFACE_STATE"
  <2>1. d = 4
    BY <1>5 DEF DriverDwords
  <2>2. length(p) = Len(VDENC_SRC_SURFACE_STATE_CMD)
    BY <1>1, <1>5, Catalogue DEF Gen11Length, FieldsOf, OtherLayout
  <2>3. length(p) = 6
    BY <2>2, SurfaceLayouts DEF Fields
  <2>4. QED
    BY <2>1, <2>3
<1>6. CASE p.cmd = "VDENC_REF_SURFACE_STATE"
  <2>1. d = 4
    BY <1>6 DEF DriverDwords
  <2>2. length(p) = Len(VDENC_REF_SURFACE_STATE_CMD)
    BY <1>1, <1>6, Catalogue DEF Gen11Length, FieldsOf, OtherLayout
  <2>3. length(p) = 6
    BY <2>2, ReaderLayouts DEF Fields
  <2>4. QED
    BY <2>1, <2>3
<1>7. CASE p.cmd = "VDENC_DS_REF_SURFACE_STATE"
  <2>1. d \in {4, 8}
    BY <1>7 DEF DriverDwords
  <2>2. length(p) = Len(VDENC_DS_REF_SURFACE_STATE_CMD)
    BY <1>1, <1>7, Catalogue DEF Gen11Length, FieldsOf, OtherLayout
  <2>3. length(p) = 10
    BY <2>2, ReaderLayouts DEF Fields
  <2>4. QED
    BY <2>1, <2>3
<1>8. CASE p.cmd = "VDENC_PIPE_BUF_ADDR_STATE"
  <2>1. d \in AddressDwords["VDENC_PIPE_BUF_ADDR_STATE"]
    BY <1>8 DEF DriverDwords
  <2>2. length(p) = 62
    BY <1>1, <1>8 DEF Gen11Length
  <2>3. QED
    BY <2>1, <2>2 DEF AddressDwords
<1>9. CASE p.cmd = "MI_FLUSH_DW"
  <2>1. d = 1
    BY <1>9 DEF DriverDwords
  <2>2. length(p) = 4
    BY <1>1, <1>9 DEF Gen11Length, FieldsOf, OtherLayout
  <2>3. QED
    BY <2>1, <2>2
<1>10. p.cmd \in {"HCP_SURFACE_STATE", "HCP_PIPE_BUF_ADDR_STATE", "HCP_IND_OBJ_BASE_ADDR_STATE",
                  "VDENC_SRC_SURFACE_STATE", "VDENC_REF_SURFACE_STATE", "VDENC_DS_REF_SURFACE_STATE",
                  "VDENC_PIPE_BUF_ADDR_STATE", "MI_FLUSH_DW"}
  BY DEF DriverDwords
<1>11. QED
  BY <1>2, <1>3, <1>4, <1>5, <1>6, <1>7, <1>8, <1>9, <1>10

\* Every entry of the audited table.
LEMMA AuditedEntries ==
    ASSUME NEW b, Driven(b), NEW rows \in BOOLEAN, NEW r \in DriverRelocs(b, rows)
    PROVE  Entry(b, r) /\ r.handle = DriverHandle
<1>1. PICK i \in DOMAIN b : \E d \in DriverDwords(b[i], rows) :
            r = DriverReloc(b, i, d, NaturalKind(FieldsOf(b[i])[d + 1]))
  BY DEF DriverRelocs
<1>2. PICK d \in DriverDwords(b[i], rows) : r = DriverReloc(b, i, d, NaturalKind(FieldsOf(b[i])[d + 1]))
  BY <1>1
<1>3. d \in Nat \ {0} /\ d < length(b[i])
  BY DriverDwordsFit DEF Driven
<1>4. QED
  BY <1>2, <1>3 DEF Entry, DriverReloc, Reloc, Field

\* Every extra entry.
LEMMA ExtraEntries ==
    ASSUME NEW b, Driven(b), NEW q \in Extra(b)
    PROVE  Entry(b, Tagged(q)) /\ Tagged(q).handle = ExtraHandle
<1> DEFINE replaced == UNION {{DriverReloc(b, i, dw, kind) : kind \in {"address", "offset"},
                dw \in IF b[i].cmd \in DOMAIN AddressDwords THEN 1..(length(b[i]) - 1) ELSE {1}} :
           i \in {j \in DOMAIN b : b[j].cmd \in Converted}}
           kept == UNION {{DriverReloc(b, i, dw, NaturalKind(FieldsOf(b[i])[dw + 1])) :
                dw \in {d \in 1..(length(b[i]) - 1) : NaturalKind(FieldsOf(b[i])[d + 1]) # "none"}} :
           i \in {j \in DOMAIN b : b[j].cmd \notin Converted}}
<1> HIDE DEF replaced, kept
<1>1. \A i \in DOMAIN b : length(b[i]) \in Nat \ {0}
  BY NativeLength DEF Driven
<1>2. ASSUME NEW i \in DOMAIN b, NEW d \in Nat \ {0}, d < length(b[i]), NEW kind,
             q = DriverReloc(b, i, d, kind),
             b[i].cmd \notin Converted => kind = NaturalKind(FieldsOf(b[i])[d + 1])
      PROVE  Entry(b, Tagged(q)) /\ Tagged(q).handle = ExtraHandle
  <2>1. Tagged(q) = Reloc(b[i].at + d, kind, ExtraHandle, [packet |-> i, dw |-> d])
    BY <1>2 DEF Tagged, DriverReloc, Reloc, DriverHandle, ExtraHandle
  <2>2. DriverHandle # ExtraHandle
    BY DEF DriverHandle, ExtraHandle
  <2>3. QED
    BY <1>2, <2>1, <2>2 DEF Entry, Reloc, Field
<1>3. CASE q \in replaced
  <2>1. PICK i \in {j \in DOMAIN b : b[j].cmd \in Converted} :
            \E kind \in {"address", "offset"},
               dw \in IF b[i].cmd \in DOMAIN AddressDwords THEN 1..(length(b[i]) - 1) ELSE {1} :
               q = DriverReloc(b, i, dw, kind)
    BY <1>3 DEF replaced
  <2>2. PICK kind \in {"address", "offset"},
             dw \in IF b[i].cmd \in DOMAIN AddressDwords THEN 1..(length(b[i]) - 1) ELSE {1} :
             q = DriverReloc(b, i, dw, kind)
    BY <2>1
  <2>3. dw \in Nat \ {0} /\ dw < length(b[i])
    <3>1. CASE b[i].cmd \in DOMAIN AddressDwords
      BY <1>1, <3>1
    <3>2. CASE b[i].cmd \notin DOMAIN AddressDwords
      <4>1. dw = 1
        BY <3>2
      <4>2. length(b[i]) # 1
        <5>1. Native(b[i]) /\ b[i].cmd \in Converted
          BY DEF Driven
        <5>2. CASE b[i].cmd \in DOMAIN Gen11Length
          <6>1. length(b[i]) = Gen11Length[b[i].cmd]
            BY <5>1, <5>2, NativeLength
          <6>2. QED
            BY <5>2, <6>1 DEF Gen11Length
        <5>3. CASE b[i].cmd = "VD_PIPELINE_FLUSH"
          <6>1. length(b[i]) = Len(Layout["VD_PIPELINE_FLUSH"])
            BY <5>1, <5>3, NativeLength DEF Gen11Length, FieldsOf, OtherLayout
          <6>2. Layout["VD_PIPELINE_FLUSH"] = VD_PIPELINE_FLUSH_CMD
            BY DEF Layout
          <6>3. VD_PIPELINE_FLUSH_CMD \in Fields(2, {})
            BY OtherLayouts
          <6>4. Len(VD_PIPELINE_FLUSH_CMD) = 2
            BY <6>3 DEF Fields
          <6>5. length(b[i]) = 2
            BY <6>1, <6>2, <6>4, Zenon
          <6>6. QED
            BY <6>5
        <5>4. QED
          BY <5>1, <5>2, <5>3 DEF Converted
      <4>3. QED
        BY <1>1, <4>1, <4>2
    <3>3. QED
      BY <3>1, <3>2
  <2>4. QED
    BY <1>2, <2>2, <2>3
<1>4. CASE q \in kept
  <2>1. PICK i \in {j \in DOMAIN b : b[j].cmd \notin Converted} :
            \E dw \in {d \in 1..(length(b[i]) - 1) : NaturalKind(FieldsOf(b[i])[d + 1]) # "none"} :
               q = DriverReloc(b, i, dw, NaturalKind(FieldsOf(b[i])[dw + 1]))
    BY <1>4 DEF kept
  <2>2. PICK dw \in 1..(length(b[i]) - 1) : q = DriverReloc(b, i, dw, NaturalKind(FieldsOf(b[i])[dw + 1]))
    BY <2>1
  <2>3. dw \in Nat \ {0} /\ dw < length(b[i])
    BY <1>1
  <2>4. QED
    BY <1>2, <2>2, <2>3
<1>5. Extra(b) = replaced \union kept
  BY DEF Extra, replaced, kept
<1>6. QED
  BY <1>3, <1>4, <1>5

\* There are finitely many entries in the audited table.
LEMMA AuditedFinite ==
    ASSUME NEW b, Driven(b), NEW rows \in BOOLEAN
    PROVE  IsFiniteSet(DriverRelocs(b, rows))
<1> DEFINE n == Len(b)
           D == (1..n) \X (1..101)
           f == [x \in D |-> DriverReloc(b, x[1], x[2], NaturalKind(FieldsOf(b[x[1]])[x[2] + 1]))]
           T == {f[x] : x \in D}
<1>1. n \in Nat /\ DOMAIN b = 1..n
  BY LenProperties DEF Driven, Ordered
<1>2. IsFiniteSet(D)
  <2>1. IsFiniteSet(1..n)
    BY <1>1, FS_Interval
  <2>2. IsFiniteSet(1..101)
    <3>1. \A m \in Int : IsFiniteSet(1..m)
      BY FS_Interval
    <3>2. 101 \in Int
      OBVIOUS
    <3>3. QED
      BY <3>1, <3>2, Zenon
  <2>3. QED
    BY <2>1, <2>2, FS_Product
<1>3. f \in Surjection(D, T)
  BY DEF Surjection
<1>4. IsFiniteSet(T)
  <2> HIDE DEF f, T, D
  <2>1. QED
    BY <1>2, <1>3, FS_Surjection
<1>5. DriverRelocs(b, rows) \subseteq T
  <2> SUFFICES ASSUME NEW r \in DriverRelocs(b, rows) PROVE r \in T
      OBVIOUS
  <2>a. PICK i \in DOMAIN b : \E d \in DriverDwords(b[i], rows) :
            r = DriverReloc(b, i, d, NaturalKind(FieldsOf(b[i])[d + 1]))
    BY DEF DriverRelocs
  <2>b. PICK d \in DriverDwords(b[i], rows) : r = DriverReloc(b, i, d, NaturalKind(FieldsOf(b[i])[d + 1]))
    BY <2>a
  <2>1. d \in 1..101
    <3>1. Range(RowDwords) = {4, 13, 22}
      BY DEF Range, RowDwords
    <3>2. QED
      BY <3>1 DEF DriverDwords, AddressDwords
  <2>2. <<i, d>> \in D
    BY <1>1, <2>1
  <2>3. f[<<i, d>>] = DriverReloc(b, i, d, NaturalKind(FieldsOf(b[i])[d + 1]))
    BY <2>2
  <2> HIDE DEF f, D
  <2>4. QED
    BY <2>b, <2>2, <2>3
<1>6. QED
  BY <1>4, <1>5, FS_Subset

\* Every table the driver may hand over.
LEMMA TableEntries ==
    ASSUME NEW b, Driven(b), NEW rows \in BOOLEAN,
           NEW f \in [more : Nat, less : Nat, supported : BOOLEAN, spare : Int, entries : Nat, short : Nat],
           NEW t \in Tables(b, rows, f)
    PROVE  IsFiniteSet(t) /\ \A r \in t : Entry(b, r)
<1> DEFINE audited == DriverRelocs(b, rows)
           extra == {Tagged(r) : r \in Extra(b)}
<1>1. PICK fewer \in [1..f.less -> audited], more \in [1..f.more -> extra] :
            t = (audited \ Range(fewer)) \union Range(more)
  BY DEF Tables
<1>2. IsFiniteSet(Range(more))
  <2>1. IsFiniteSet(1..f.more)
    BY FS_Interval
  <2>2. more \in Surjection(1..f.more, Range(more))
    BY DEF Surjection, Range
  <2>3. QED
    BY <2>1, <2>2, FS_Surjection
<1>3. IsFiniteSet(audited \ Range(fewer))
  BY AuditedFinite, FS_Subset
<1>4. IsFiniteSet(t)
  BY <1>1, <1>2, <1>3, FS_Union
<1>5. \A r \in audited : Entry(b, r)
  BY AuditedEntries
<1>6. \A r \in extra : Entry(b, r)
  BY ExtraEntries
<1>7. Range(more) \subseteq extra
  BY DEF Range
<1> HIDE DEF audited, extra
<1>8. QED
  BY <1>1, <1>4, <1>5, <1>6, <1>7

\* Where an entry of the driver is in the driver's batch.
LEMMA EntryAt ==
    ASSUME NEW b, Ordered(b), NEW r, Entry(b, r)
    PROVE  /\ PacketAt(b, r.target) = r.origin.packet
           /\ DwordAt(b, r.target) = r.origin.dw
           /\ r.origin.packet \in DOMAIN b
           /\ r.origin.dw \in Nat \ {0} /\ r.origin.dw < length(b[r.origin.packet])
<1> DEFINE i == r.origin.packet
           d == r.origin.dw
<1>1. i \in DOMAIN b /\ d \in Nat \ {0} /\ d < length(b[i]) /\ r.target = b[i].at + d
  BY DEF Entry, Reloc
<1>2. PacketAt(b, b[i].at + d) = i /\ DwordAt(b, b[i].at + d) = d
  BY <1>1, Located
<1>3. QED
  BY <1>1, <1>2

\* The fields on the lists of the preparation, and that no row store is on them.
LEMMA MappedFields ==
    ASSUME NEW p, p.cmd \in DOMAIN AddressDwords, NEW d \in AddressDwords[p.cmd]
    PROVE  /\ d \in Nat \ {0} /\ d < Len(FieldsOf(p))
           /\ NaturalKind(FieldsOf(p)[d + 1]) =
                IF p.cmd = "HCP_SURFACE_STATE" THEN "offset" ELSE "address"
           /\ p.cmd = "HCP_SURFACE_STATE" => d \in {1, 2}
           /\ p.cmd = "HCP_PIPE_BUF_ADDR_STATE" => d \notin Range(RowDwords)
<1>1. NaturalKind("address") = "address" /\ NaturalKind("pitch") = "offset"
      /\ NaturalKind("u_offset") = "offset"
  BY DEF NaturalKind
<1>2. CASE p.cmd = "HCP_SURFACE_STATE"
  <2>1. FieldsOf(p) = HCP_SURFACE_STATE_CMD
    BY <1>2, Catalogue DEF FieldsOf, OtherLayout
  <2>2. d \in {1, 2}
    BY <1>2 DEF AddressDwords
  <2>3. Len(HCP_SURFACE_STATE_CMD) = 5
    BY SurfaceLayouts DEF Fields
  <2>4. HCP_SURFACE_STATE_CMD[2] = "pitch" /\ HCP_SURFACE_STATE_CMD[3] = "u_offset"
    BY SurfaceLayouts
  <2>5. QED
    BY <1>1, <1>2, <2>1, <2>2, <2>3, <2>4
<1>3. CASE p.cmd = "HCP_PIPE_BUF_ADDR_STATE"
  <2>1. FieldsOf(p) = HCP_PIPE_BUF_ADDR_STATE_CMD
    BY <1>3, Catalogue DEF FieldsOf, OtherLayout
  <2>2. d \in Nat \ {0} /\ d + 1 \in PipeAddresses /\ d < 121 /\ d \notin {4, 13, 22}
    BY <1>3 DEF AddressDwords, PipeAddresses
  <2>3. Len(FieldsOf(p)) = 121 /\ FieldsOf(p)[d + 1] = "address"
    BY <2>1, <2>2, PipeLayout DEF Fields
  <2>4. Range(RowDwords) = {4, 13, 22}
    BY DEF Range, RowDwords
  <2>5. QED
    BY <1>1, <1>3, <2>2, <2>3, <2>4
<1>4. CASE p.cmd = "VDENC_PIPE_BUF_ADDR_STATE"
  <2>1. FieldsOf(p) = VDENC_PIPE_BUF_ADDR_STATE_CMD
    BY <1>4, Catalogue DEF FieldsOf, OtherLayout
  <2>2. d \in Nat \ {0} /\ d + 1 \in VdencAddresses /\ d < 71
    BY <1>4 DEF AddressDwords, VdencAddresses
  <2>3. Len(FieldsOf(p)) = 71 /\ FieldsOf(p)[d + 1] = "address"
    BY <2>1, <2>2, VdencLayout DEF Fields
  <2>4. QED
    BY <1>1, <1>4, <2>2, <2>3
<1>5. QED
  BY <1>2, <1>3, <1>4 DEF AddressDwords

\* The entries at a field of the layout that takes them, or the driver's own fault.
Fine(n, r) ==
    OnField(n, r) \/ (r.handle.try = -1 /\ NaturalKind(FieldAt(n, r.target)) # "none")

\* An entry has the fields of an entry and no other.
Shaped(r) ==
    r = [target |-> r.target, kind |-> r.kind, handle |-> r.handle, origin |-> r.origin, id |-> r.id]

\* Where an entry of the driver belongs in the rewritten batch.
Home(b, r) == Rebuilt(b)[Place(b)[r.origin.packet]].at + r.origin.dw

\* An entry of the rewritten batch that the rewriting made of entry r.
Moved(b, r) == [r EXCEPT !.target = NewTarget(b, Rebuilt(b), r.target)]

\* A packet that is rewritten keeps the fields of its command; it has all of
\* the fields of the layout, and so every DWORD that is mapped.
LEMMA MovedPacket ==
    ASSUME NEW b, Driven(b), NEW i \in DOMAIN b, NEW n, n = Rebuilt(b), NEW k, k = Place(b)[i]
    PROVE  /\ FieldsOf(n[k]) = FieldsOf(b[i]) /\ length(n[k]) = Len(FieldsOf(b[i]))
           /\ \A d \in Nat : Mapped(b[i], d) /\ d < length(b[i]) => d < length(n[k])
<1>1. n[k].cmd = b[i].cmd /\ n[k].gen = 12
  BY RebuiltFacts
<1>2. FieldsOf(n[k]) = FieldsOf(b[i])
  BY <1>1 DEF FieldsOf
<1>3. length(n[k]) = Len(FieldsOf(b[i]))
  BY <1>1, <1>2 DEF length
<1>4. ASSUME NEW d \in Nat, Mapped(b[i], d), d < length(b[i]) PROVE d < length(n[k])
  <2>1. CASE b[i].cmd \in DOMAIN AddressDwords /\ d \in AddressDwords[b[i].cmd]
    BY <1>3, <2>1, MappedFields
  <2>2. CASE b[i].cmd \notin Converted
    <3>1. length(b[i]) = Len(FieldsOf(b[i]))
      BY <2>2 DEF length, Converted
    <3>2. QED
      BY <1>3, <1>4, <3>1
  <2>3. QED
    BY <1>4, <2>1, <2>2 DEF Mapped
<1>5. QED
  BY <1>2, <1>3, <1>4

\* A mapped entry is moved to the same DWORD of its packet and is fine there.
LEMMA MovedEntry ==
    ASSUME NEW b, Driven(b), NEW r, Entry(b, r), NEW i, i = r.origin.packet,
           NEW d, d = r.origin.dw, Mapped(b[i], d), NEW n, n = Rebuilt(b)
    PROVE  /\ Moved(b, r).target = Home(b, r)
           /\ Moved(b, r).kind = r.kind /\ Moved(b, r).handle = r.handle
           /\ Moved(b, r).origin = r.origin /\ Moved(b, r).id = "same"
           /\ Shaped(Moved(b, r))
           /\ PacketAt(n, Home(b, r)) = Place(b)[i] /\ DwordAt(n, Home(b, r)) = d
           /\ FieldAt(n, Home(b, r)) = FieldsOf(b[i])[d + 1]
           /\ Fine(n, Moved(b, r))
<1> DEFINE k == Place(b)[i]
<1>1. PacketAt(b, r.target) = i /\ DwordAt(b, r.target) = d /\ i \in DOMAIN b
      /\ d \in Nat \ {0} /\ d < length(b[i])
  BY EntryAt DEF Driven
<1>2. Ordered(n) /\ k \in DOMAIN n /\ Became(n, i) = k
  BY <1>1, RebuiltFacts
<1>3. FieldsOf(n[k]) = FieldsOf(b[i]) /\ d < length(n[k])
  BY <1>1, MovedPacket
<1>4. Home(b, r) = n[k].at + d
  BY DEF Home
<1>5. NewTarget(b, n, r.target) = Home(b, r)
  BY <1>1, <1>2, <1>4 DEF NewTarget
<1>6. PacketAt(n, Home(b, r)) = k /\ DwordAt(n, Home(b, r)) = d
      /\ FieldAt(n, Home(b, r)) = FieldsOf(n[k])[d + 1]
  BY <1>1, <1>2, <1>3, <1>4, Located
<1>7. r = [target |-> r.target, kind |-> r.kind, handle |-> r.handle, origin |-> r.origin, id |-> "same"]
  BY DEF Entry, Reloc
<1>8. Moved(b, r) = [target |-> Home(b, r), kind |-> r.kind, handle |-> r.handle,
                     origin |-> r.origin, id |-> "same"]
  BY <1>5, <1>7 DEF Moved
<1>9. Fine(n, Moved(b, r))
  <2>1. FieldAt(n, Moved(b, r).target) = FieldsOf(b[i])[d + 1]
    BY <1>3, <1>6, <1>8
  <2>2. CASE r.kind = NaturalKind(FieldsOf(b[i])[d + 1])
    BY <1>8, <2>1, <2>2 DEF Fine, OnField
  <2>3. CASE r.kind # NaturalKind(FieldsOf(b[i])[d + 1])
    <3>1. r.handle = ExtraHandle /\ b[i].cmd \in Converted
      BY <2>3 DEF Entry, Field
    <3>2. r.handle.try = -1
      BY <3>1 DEF ExtraHandle
    <3>3. b[i].cmd \in DOMAIN AddressDwords /\ d \in AddressDwords[b[i].cmd]
      BY <3>1 DEF Mapped
    <3>4. NaturalKind(FieldsOf(b[i])[d + 1]) # "none"
      BY <3>3, MappedFields
    <3>5. QED
      BY <1>8, <2>1, <3>2, <3>4 DEF Fine
  <2>4. QED
    BY <2>2, <2>3
<1>10. QED
  BY <1>3, <1>6, <1>8, <1>9 DEF Shaped

\* Fields of the packets that are looked for in the rewritten batch.
LEMMA FoundFields ==
    ASSUME NEW b, Driven(b), NEW n, n = Rebuilt(b), NEW d \in Nat
    PROVE  /\ d < 6 => /\ PacketAt(n, n[Place(b)[9]].at + d) = Place(b)[9]
                       /\ FieldAt(n, n[Place(b)[9]].at + d) = VDENC_REF_SURFACE_STATE_CMD[d + 1]
           /\ d < 10 => /\ PacketAt(n, n[Place(b)[10]].at + d) = Place(b)[10]
                        /\ FieldAt(n, n[Place(b)[10]].at + d) = VDENC_DS_REF_SURFACE_STATE_CMD[d + 1]
           /\ d < 5 => /\ PacketAt(n, n[Place(b)[3]].at + d) = Place(b)[3]
                       /\ FieldAt(n, n[Place(b)[3]].at + d) = HCP_SURFACE_STATE_CMD[d + 1]
           /\ d < 5 => /\ PacketAt(n, n[Ref(b)].at + d) = Ref(b)
                       /\ FieldAt(n, n[Ref(b)].at + d) = HCP_SURFACE_STATE_CMD[d + 1]
<1>1. /\ Ordered(n) /\ {3, 9, 10} \subseteq DOMAIN b
      /\ \A i \in DOMAIN b : Place(b)[i] \in DOMAIN n /\ n[Place(b)[i]].cmd = b[i].cmd
      /\ Ref(b) \in DOMAIN n /\ n[Ref(b)].cmd = "HCP_SURFACE_STATE" /\ n[Ref(b)].gen = 12
  BY RebuiltFacts
<1>2. /\ b[3].cmd = "HCP_SURFACE_STATE" /\ b[9].cmd = "VDENC_REF_SURFACE_STATE"
      /\ b[10].cmd = "VDENC_DS_REF_SURFACE_STATE"
  BY DEF Driven
<1>3. /\ Len(HCP_SURFACE_STATE_CMD) = 5 /\ Len(VDENC_REF_SURFACE_STATE_CMD) = 6
      /\ Len(VDENC_DS_REF_SURFACE_STATE_CMD) = 10
  BY SurfaceLayouts, ReaderLayouts DEF Fields
<1>4. /\ FieldsOf(b[3]) = HCP_SURFACE_STATE_CMD /\ FieldsOf(b[9]) = VDENC_REF_SURFACE_STATE_CMD
      /\ FieldsOf(b[10]) = VDENC_DS_REF_SURFACE_STATE_CMD /\ FieldsOf(n[Ref(b)]) = HCP_SURFACE_STATE_CMD
  BY <1>1, <1>2, Catalogue DEF FieldsOf, OtherLayout
<1>5. length(n[Ref(b)]) = 5
  BY <1>1, <1>3, <1>4 DEF length
<1>6. ASSUME NEW i \in {3, 9, 10}, d < Len(FieldsOf(b[i]))
      PROVE  /\ PacketAt(n, n[Place(b)[i]].at + d) = Place(b)[i]
             /\ FieldAt(n, n[Place(b)[i]].at + d) = FieldsOf(b[i])[d + 1]
  <2>1. i \in DOMAIN b
    BY <1>1
  <2>2. FieldsOf(n[Place(b)[i]]) = FieldsOf(b[i]) /\ length(n[Place(b)[i]]) = Len(FieldsOf(b[i]))
    BY <2>1, MovedPacket
  <2>3. QED
    BY <1>1, <1>6, <2>1, <2>2, Located
<1>7. d < 6 => /\ PacketAt(n, n[Place(b)[9]].at + d) = Place(b)[9]
               /\ FieldAt(n, n[Place(b)[9]].at + d) = VDENC_REF_SURFACE_STATE_CMD[d + 1]
  BY <1>3, <1>4, <1>6
<1>8. d < 10 => /\ PacketAt(n, n[Place(b)[10]].at + d) = Place(b)[10]
                /\ FieldAt(n, n[Place(b)[10]].at + d) = VDENC_DS_REF_SURFACE_STATE_CMD[d + 1]
  BY <1>3, <1>4, <1>6
<1>9. d < 5 => /\ PacketAt(n, n[Place(b)[3]].at + d) = Place(b)[3]
               /\ FieldAt(n, n[Place(b)[3]].at + d) = HCP_SURFACE_STATE_CMD[d + 1]
  BY <1>3, <1>4, <1>6
<1>10. d < 5 => /\ PacketAt(n, n[Ref(b)].at + d) = Ref(b)
                /\ FieldAt(n, n[Ref(b)].at + d) = HCP_SURFACE_STATE_CMD[d + 1]
  BY <1>1, <1>4, <1>5, Located
<1>11. QED
  BY <1>7, <1>8, <1>9, <1>10

\* The row offsets of U in the rewritten batch.
LEMMA UvTargetsFound ==
    ASSUME NEW b, Driven(b), NEW n, n = Rebuilt(b)
    PROVE  UvTargets(n) = {n[Place(b)[9]].at + 4, n[Place(b)[10]].at + 4, n[Place(b)[10]].at + 8}
<1>1. Packets(n, "VDENC_REF_SURFACE_STATE") = {Place(b)[9]}
      /\ Packets(n, "VDENC_DS_REF_SURFACE_STATE") = {Place(b)[10]}
  BY RebuiltFacts
<1>2. QED
  BY <1>1 DEF UvTargets

\* Behind the row offset of U is that of V.
LEMMA BehindU ==
    ASSUME NEW b, Driven(b), NEW n, n = Rebuilt(b), NEW t \in UvTargets(n)
    PROVE  t \in Nat /\ FieldAt(n, t + 1) = "v_offset" /\ FieldAt(n, t) = "u_offset"
<1>1. t \in {n[Place(b)[9]].at + 4, n[Place(b)[10]].at + 4, n[Place(b)[10]].at + 8}
  BY UvTargetsFound
<1>2. n[Place(b)[9]].at \in Nat /\ n[Place(b)[10]].at \in Nat
  <2>1. {9, 10} \subseteq DOMAIN b /\ \A i \in DOMAIN b : n[Place(b)[i]] \in Packet
    BY RebuiltFacts
  <2>2. QED
    BY <2>1 DEF Packet
<1>3. /\ FieldAt(n, n[Place(b)[9]].at + 4) = VDENC_REF_SURFACE_STATE_CMD[5]
      /\ FieldAt(n, n[Place(b)[9]].at + 5) = VDENC_REF_SURFACE_STATE_CMD[6]
  BY FoundFields
<1>4. /\ FieldAt(n, n[Place(b)[10]].at + 4) = VDENC_DS_REF_SURFACE_STATE_CMD[5]
      /\ FieldAt(n, n[Place(b)[10]].at + 5) = VDENC_DS_REF_SURFACE_STATE_CMD[6]
      /\ FieldAt(n, n[Place(b)[10]].at + 8) = VDENC_DS_REF_SURFACE_STATE_CMD[9]
      /\ FieldAt(n, n[Place(b)[10]].at + 9) = VDENC_DS_REF_SURFACE_STATE_CMD[10]
  BY FoundFields
<1>5. /\ VDENC_REF_SURFACE_STATE_CMD[5] = "u_offset" /\ VDENC_REF_SURFACE_STATE_CMD[6] = "v_offset"
      /\ VDENC_DS_REF_SURFACE_STATE_CMD[5] = "u_offset" /\ VDENC_DS_REF_SURFACE_STATE_CMD[9] = "u_offset"
      /\ VDENC_DS_REF_SURFACE_STATE_CMD[6] = "v_offset" /\ VDENC_DS_REF_SURFACE_STATE_CMD[10] = "v_offset"
  BY ReaderLayouts
<1>6. CASE t = n[Place(b)[9]].at + 4
  <2>1. t + 1 = n[Place(b)[9]].at + 5 /\ t \in Nat
    BY <1>2, <1>6
  <2>2. QED
    BY <1>3, <1>5, <1>6, <2>1
<1>7. CASE t = n[Place(b)[10]].at + 4
  <2>1. t + 1 = n[Place(b)[10]].at + 5 /\ t \in Nat
    BY <1>2, <1>7
  <2>2. QED
    BY <1>4, <1>5, <1>7, <2>1
<1>8. CASE t = n[Place(b)[10]].at + 8
  <2>1. t + 1 = n[Place(b)[10]].at + 9 /\ t \in Nat
    BY <1>2, <1>8
  <2>2. QED
    BY <1>4, <1>5, <1>8, <2>1
<1>9. QED
  BY <1>1, <1>6, <1>7, <1>8

\* What a clone is: of an entry for U, or of one of the reconstructed surface.
VClone(r) == [r EXCEPT !.target = @ + 1]
ReferenceClone(b, r) ==
    LET rec == Rebuilt(b)[Place(b)[3]].at
        ref == Rebuilt(b)[Ref(b)].at
    IN  [r EXCEPT !.target = ref + (@ - rec), !.id = IF r.target = rec + 1 THEN "reference" ELSE "same"]

\* The clones are those two kinds and no other.
LEMMA ClonesAre ==
    ASSUME NEW b, Driven(b), NEW n, n = Rebuilt(b), NEW relocs, NEW rec, rec = n[Place(b)[3]].at
    PROVE  Clones(n, relocs) =
             {VClone(r) : r \in {q \in relocs : q.target \in UvTargets(n)}}
             \union {ReferenceClone(b, r) : r \in {q \in relocs : q.target \in {rec + 1, rec + 2}}}
<1>1. Max(Find(n, "HCP_SURFACE_STATE", 5)) = Ref(b) /\ Max(Find(n, "HCP_SURFACE_STATE", 0)) = Place(b)[3]
  BY RebuiltFacts
<1>2. QED
  BY <1>1 DEF Clones, VClone, ReferenceClone

\* A clone takes everything of its entry but the target and the surface number.
LEMMA CloneOf ==
    ASSUME NEW b, Driven(b), NEW n, n = Rebuilt(b), NEW r, Shaped(r), Fine(n, r)
    PROVE  /\ r.target \in UvTargets(n) /\ r.kind = "offset" =>
                /\ VClone(r).target = r.target + 1 /\ Shaped(VClone(r))
                /\ VClone(r).kind = r.kind /\ VClone(r).handle = r.handle /\ VClone(r).origin = r.origin
                /\ Fine(n, VClone(r))
           /\ \A d \in {1, 2} : r.target = n[Place(b)[3]].at + d =>
                /\ ReferenceClone(b, r).target = n[Ref(b)].at + d /\ Shaped(ReferenceClone(b, r))
                /\ ReferenceClone(b, r).kind = r.kind /\ ReferenceClone(b, r).handle = r.handle
                /\ ReferenceClone(b, r).origin = r.origin
                /\ Fine(n, ReferenceClone(b, r))
<1>1. ASSUME r.target \in UvTargets(n), r.kind = "offset"
      PROVE  /\ VClone(r).target = r.target + 1 /\ Shaped(VClone(r))
             /\ VClone(r).kind = r.kind /\ VClone(r).handle = r.handle /\ VClone(r).origin = r.origin
             /\ Fine(n, VClone(r))
  <2>1. VClone(r) = [target |-> r.target + 1, kind |-> r.kind, handle |-> r.handle,
                     origin |-> r.origin, id |-> r.id]
    BY DEF VClone, Shaped
  <2>2. FieldAt(n, r.target + 1) = "v_offset"
    BY <1>1, BehindU
  <2>3. NaturalKind("v_offset") = "offset"
    BY DEF NaturalKind
  <2>4. QED
    BY <1>1, <2>1, <2>2, <2>3 DEF Fine, OnField, Shaped
<1>2. ASSUME NEW d \in {1, 2}, r.target = n[Place(b)[3]].at + d
      PROVE  /\ ReferenceClone(b, r).target = n[Ref(b)].at + d /\ Shaped(ReferenceClone(b, r))
             /\ ReferenceClone(b, r).kind = r.kind /\ ReferenceClone(b, r).handle = r.handle
             /\ ReferenceClone(b, r).origin = r.origin
             /\ Fine(n, ReferenceClone(b, r))
  <2>1. n[Place(b)[3]].at \in Nat /\ n[Ref(b)].at \in Nat
    <3>1. 3 \in DOMAIN b /\ n[Place(b)[3]] \in Packet /\ n[Ref(b)] \in Packet
      BY RebuiltFacts
    <3>2. QED
      BY <3>1 DEF Packet
  <2> DEFINE id == IF r.target = n[Place(b)[3]].at + 1 THEN "reference" ELSE "same"
             t == n[Ref(b)].at + (r.target - n[Place(b)[3]].at)
  <2>2. ReferenceClone(b, r) = [target |-> t, kind |-> r.kind, handle |-> r.handle,
                                origin |-> r.origin, id |-> id]
    <3>1. ReferenceClone(b, r) = [r EXCEPT !.target = t, !.id = id]
      BY DEF ReferenceClone
    <3> HIDE DEF t, id
    <3>2. QED
      BY <3>1 DEF Shaped
  <2>3. t = n[Ref(b)].at + d
    BY <1>2, <2>1
  <2> HIDE DEF t, id
  <2>4. FieldAt(n, t) = FieldAt(n, r.target)
    <3>1. FieldAt(n, n[Place(b)[3]].at + d) = HCP_SURFACE_STATE_CMD[d + 1]
          /\ FieldAt(n, n[Ref(b)].at + d) = HCP_SURFACE_STATE_CMD[d + 1]
      BY FoundFields
    <3>2. QED
      BY <1>2, <2>3, <3>1
  <2>5. QED
    BY <2>2, <2>3, <2>4 DEF Fine, OnField, Shaped
<1>3. QED
  BY <1>1, <1>2

\* A row store of the driver is one in the rewritten batch too.
LEMMA RowHome ==
    ASSUME NEW b, Driven(b), NEW r, Entry(b, r), NEW n, n = Rebuilt(b), IsRow(b, r.target)
    PROVE  IsRow(n, Home(b, r))
<1> DEFINE i == r.origin.packet
           d == r.origin.dw
           k == Place(b)[i]
<1>1. /\ i \in DOMAIN b /\ d \in Nat \ {0} /\ d < length(b[i])
      /\ b[i].cmd = "HCP_PIPE_BUF_ADDR_STATE" /\ d \in Range(RowDwords)
  BY EntryAt DEF Driven, IsRow
<1>2. Ordered(n) /\ k \in DOMAIN n /\ n[k].cmd = b[i].cmd
  BY <1>1, RebuiltFacts
<1>3. FieldsOf(b[i]) = HCP_PIPE_BUF_ADDR_STATE_CMD
  BY <1>1, Catalogue DEF FieldsOf, OtherLayout
<1>4. length(n[k]) = Len(HCP_PIPE_BUF_ADDR_STATE_CMD)
  BY <1>1, <1>3, MovedPacket
<1>5. Len(HCP_PIPE_BUF_ADDR_STATE_CMD) = 121
  BY PipeLayout DEF Fields
<1>6. d \in {4, 13, 22}
  BY <1>1 DEF Range, RowDwords
<1>7. d \in Nat /\ d < length(n[k])
  BY <1>4, <1>5, <1>6
<1>8. PacketAt(n, n[k].at + d) = k /\ DwordAt(n, n[k].at + d) = d
  BY <1>2, <1>7, Located
<1>9. QED
  BY <1>1, <1>2, <1>8 DEF IsRow, Home

\* The entries of the driver that are carried along, and those rewritten.
Carried(b, relocs) == {r \in relocs : ~ IsRow(b, r.target)}
AllMapped(b, relocs) == \A r \in relocs : Mapped(b[r.origin.packet], r.origin.dw)

\* Rewriting moves every entry.
LEMMA RewritingMoves ==
    ASSUME NEW b, NEW relocs
    PROVE  rewrite_video_batch(b, relocs) = {Moved(b, r) : r \in relocs}
BY DEF rewrite_video_batch, Moved

\* There is an entry at t of the driver's entry o, of the same access.
Twin(relocs, o, t) == \E r \in relocs : r.target = t /\ r.kind = o.kind /\ r.origin = o.origin

\* What is kept of the driver's entry o in a rewritten batch n.
KeptEntry(n, relocs, o) ==
    LET j == Became(n, o.origin.packet)
        t == n[j].at + o.origin.dw
        ref == n[Max(Find(n, "HCP_SURFACE_STATE", 5))].at
    IN  \/ IsRow(n, t)
        \/ /\ Twin(relocs, o, t)
           /\ n[j].cmd \in ReferenceReaders /\ FieldAt(n, t) = "u_offset" => Twin(relocs, o, t + 1)
           /\ n[j].cmd = "HCP_SURFACE_STATE" /\ n[j].id = 0 => Twin(relocs, o, ref + o.origin.dw)

\* What the clone step demands of the offsets of U.
UvOffsets(n, relocs) == \A r \in relocs : r.target \in UvTargets(n) => r.kind = "offset"

\* Every rewritten entry and every clone is fine.
LEMMA ClonedFine ==
    ASSUME NEW b, Driven(b), NEW n, n = Rebuilt(b), NEW relocs, \A r \in relocs : Entry(b, r),
           AllMapped(b, relocs), NEW w, w = rewrite_video_batch(b, relocs), UvOffsets(n, w)
    PROVE  \A r \in w \union Clones(n, w) :
              /\ Shaped(r) /\ Fine(n, r)
              /\ \E q \in w : r.handle = q.handle /\ r.kind = q.kind /\ r.origin = q.origin
<1>1. ASSUME NEW m \in w PROVE Shaped(m) /\ Fine(n, m)
  <2>1. PICK r \in relocs : m = Moved(b, r)
    BY <1>1, RewritingMoves
  <2>2. Entry(b, r) /\ Mapped(b[r.origin.packet], r.origin.dw)
    BY DEF AllMapped
  <2>3. QED
    BY <2>1, <2>2, MovedEntry
<1> DEFINE rec == n[Place(b)[3]].at
<1>2. rec \in Nat
  <2>1. 3 \in DOMAIN b /\ n[Place(b)[3]] \in Packet
    BY RebuiltFacts
  <2>2. QED
    BY <2>1 DEF Packet
<1> HIDE DEF rec
<1>3. ASSUME NEW c \in Clones(n, w)
      PROVE  \/ \E r \in w : r.target \in UvTargets(n) /\ c = VClone(r)
             \/ \E r \in w : r.target \in {rec + 1, rec + 2} /\ c = ReferenceClone(b, r)
  BY ClonesAre DEF rec
<1>4. ASSUME NEW c \in Clones(n, w)
      PROVE  Shaped(c) /\ Fine(n, c) /\ \E q \in w : c.handle = q.handle /\ c.kind = q.kind /\ c.origin = q.origin
  <2>1. CASE \E r \in w : r.target \in UvTargets(n) /\ c = VClone(r)
    <3>1. PICK r \in w : r.target \in UvTargets(n) /\ c = VClone(r)
      BY <2>1
    <3>2. r.kind = "offset" /\ Shaped(r) /\ Fine(n, r)
      BY <1>1, <3>1 DEF UvOffsets
    <3>3. QED
      BY <3>1, <3>2, CloneOf
  <2>2. CASE \E r \in w : r.target \in {rec + 1, rec + 2} /\ c = ReferenceClone(b, r)
    <3>1. PICK r \in w : r.target \in {rec + 1, rec + 2} /\ c = ReferenceClone(b, r)
      BY <2>2
    <3>2. Shaped(r) /\ Fine(n, r)
      BY <1>1
    <3>3. \E d \in {1, 2} : r.target = n[Place(b)[3]].at + d
      BY <3>1 DEF rec
    <3>4. QED
      BY <3>1, <3>2, <3>3, CloneOf
  <2>3. QED
    BY <1>3, <2>1, <2>2
<1>5. QED
  BY <1>1, <1>4

\* Every entry of the driver is kept by the rewriting and the clones.
LEMMA ClonedKept ==
    ASSUME NEW b, Driven(b), NEW n, n = Rebuilt(b), NEW relocs, \A r \in relocs : Entry(b, r),
           AllMapped(b, Carried(b, relocs)), NEW w, w = rewrite_video_batch(b, Carried(b, relocs)),
           UvOffsets(n, w), NEW o \in relocs
    PROVE  KeptEntry(n, w \union Clones(n, w), o)
<1> DEFINE i == o.origin.packet
           d == o.origin.dw
           k == Place(b)[i]
           all == w \union Clones(n, w)
           m == Moved(b, o)
           rec == n[Place(b)[3]].at
           t == Home(b, o)
<1>1. i \in DOMAIN b /\ d \in Nat \ {0} /\ d < length(b[i])
  BY EntryAt DEF Driven
<1>2. /\ Became(n, i) = k /\ k \in DOMAIN n /\ n[k].cmd = b[i].cmd /\ n[k].id = b[i].id
      /\ Max(Find(n, "HCP_SURFACE_STATE", 5)) = Ref(b)
  BY <1>1, RebuiltFacts
<1>3. n[k].at + d = t
  BY DEF Home
<1>4. CASE IsRow(b, o.target)
  <2>1. IsRow(n, t)
    BY <1>4, RowHome
  <2>2. QED
    BY <1>2, <1>3, <2>1 DEF KeptEntry
<1>5. CASE ~ IsRow(b, o.target)
  <2>1. o \in Carried(b, relocs)
    BY <1>5 DEF Carried
  <2>2. Mapped(b[i], d)
    BY <2>1 DEF AllMapped
  <2>3. m \in w
    BY <2>1, RewritingMoves
  <2>4. /\ m.target = t /\ m.kind = o.kind /\ m.origin = o.origin /\ Shaped(m) /\ Fine(n, m)
        /\ FieldAt(n, t) = FieldsOf(b[i])[d + 1]
    BY <2>2, MovedEntry
  <2>5. d < length(n[k]) /\ length(n[k]) = Len(FieldsOf(b[i]))
    BY <1>1, <2>2, MovedPacket
  <2> HIDE DEF m, t, k, i, d
  <2>6. Twin(all, o, t)
    BY <2>3, <2>4 DEF Twin
  <2>7. ASSUME n[k].cmd \in ReferenceReaders, FieldAt(n, t) = "u_offset" PROVE Twin(all, o, t + 1)
    <3>1. t \in UvTargets(n)
      <4>1. CASE n[k].cmd = "VDENC_REF_SURFACE_STATE"
        <5>1. k \in Packets(n, "VDENC_REF_SURFACE_STATE")
          BY <1>2, <4>1 DEF Packets
        <5>2. k = Place(b)[9]
          BY <5>1, RebuiltFacts
        <5>3. FieldsOf(b[i]) = VDENC_REF_SURFACE_STATE_CMD
          BY <1>2, <4>1, Catalogue DEF FieldsOf, OtherLayout
        <5>4. Len(VDENC_REF_SURFACE_STATE_CMD) = 6
          BY ReaderLayouts DEF Fields
        <5>5. d + 1 \in 1..6 /\ VDENC_REF_SURFACE_STATE_CMD[d + 1] = "u_offset"
          <6>1. length(n[k]) = 6
            BY <2>5, <5>3, <5>4
          <6>2. d + 1 \in 1..6
            BY <1>1, <2>5, <6>1
          <6>3. VDENC_REF_SURFACE_STATE_CMD[d + 1] = "u_offset"
            BY <2>4, <2>7, <5>3, Zenon
          <6>4. QED
            BY <6>2, <6>3
        <5>6. d = 4
          BY <1>1, <5>5, ReaderLayouts
        <5>7. QED
          BY <1>3, <5>2, <5>6, UvTargetsFound
      <4>2. CASE n[k].cmd = "VDENC_DS_REF_SURFACE_STATE"
        <5>1. k \in Packets(n, "VDENC_DS_REF_SURFACE_STATE")
          BY <1>2, <4>2 DEF Packets
        <5>2. k = Place(b)[10]
          BY <5>1, RebuiltFacts
        <5>3. FieldsOf(b[i]) = VDENC_DS_REF_SURFACE_STATE_CMD
          BY <1>2, <4>2, Catalogue DEF FieldsOf, OtherLayout
        <5>4. Len(VDENC_DS_REF_SURFACE_STATE_CMD) = 10
          BY ReaderLayouts DEF Fields
        <5>5. d + 1 \in 1..10 /\ VDENC_DS_REF_SURFACE_STATE_CMD[d + 1] = "u_offset"
          <6>1. length(n[k]) = 10
            BY <2>5, <5>3, <5>4
          <6>2. d + 1 \in 1..10
            BY <1>1, <2>5, <6>1
          <6>3. VDENC_DS_REF_SURFACE_STATE_CMD[d + 1] = "u_offset"
            BY <2>4, <2>7, <5>3, Zenon
          <6>4. QED
            BY <6>2, <6>3
        <5>6. d \in {4, 8}
          BY <1>1, <5>5, ReaderLayouts
        <5>7. QED
          BY <1>3, <5>2, <5>6, UvTargetsFound
      <4>3. QED
        BY <2>7, <4>1, <4>2 DEF ReferenceReaders
    <3>2. m.kind = "offset"
      BY <2>3, <2>4, <3>1 DEF UvOffsets
    <3>3. VClone(m) \in Clones(n, w)
      <4>1. VClone(m) \in {VClone(r) : r \in {q \in w : q.target \in UvTargets(n)}}
        BY <2>3, <2>4, <3>1
      <4>2. QED
        BY <4>1, ClonesAre
    <3>4. VClone(m).target = t + 1 /\ VClone(m).kind = o.kind /\ VClone(m).origin = o.origin
      BY <2>4, <3>1, <3>2, CloneOf
    <3>5. QED
      BY <3>3, <3>4 DEF Twin
  <2>8. ASSUME n[k].cmd = "HCP_SURFACE_STATE", n[k].id = 0 PROVE Twin(all, o, n[Ref(b)].at + d)
    <3>1. k = Place(b)[3]
      <4>1. k \in Find(n, "HCP_SURFACE_STATE", 0)
        BY <1>2, <2>8 DEF Find
      <4>2. QED
        BY <4>1, ReconstructedFound
    <3>2. d \in {1, 2}
      <4>1. b[i].cmd = "HCP_SURFACE_STATE"
        BY <1>2, <2>8
      <4>2. b[i].cmd \in Converted
        BY <4>1 DEF Converted, Gen11Length
      <4>3. QED
        BY <2>2, <4>1, <4>2, MappedFields DEF Mapped
    <3>3. t = rec + d
      BY <1>3, <3>1
    <3>4. ReferenceClone(b, m) \in Clones(n, w)
      <4>1. m.target \in {rec + 1, rec + 2}
        BY <2>4, <3>2, <3>3
      <4> HIDE DEF rec
      <4>2. ReferenceClone(b, m) \in {ReferenceClone(b, r) : r \in {q \in w : q.target \in {rec + 1, rec + 2}}}
        BY <2>3, <4>1
      <4>3. QED
        BY <4>2, ClonesAre DEF rec
    <3>5. /\ ReferenceClone(b, m).target = n[Ref(b)].at + d
          /\ ReferenceClone(b, m).kind = o.kind /\ ReferenceClone(b, m).origin = o.origin
      BY <2>4, <3>2, <3>3, CloneOf
    <3>6. QED
      BY <3>4, <3>5 DEF Twin
  <2> HIDE DEF all
  <2>9. QED
    BY <1>2, <1>3, <2>6, <2>7, <2>8 DEF KeptEntry, all, i, d
<1>6. QED
  BY <1>4, <1>5

\* A function makes no more values than it has arguments.
LEMMA ImageFewer ==
    ASSUME NEW S, IsFiniteSet(S), NEW f, f = [x \in S |-> f[x]]
    PROVE  IsFiniteSet({f[x] : x \in S}) /\ Cardinality({f[x] : x \in S}) <= Cardinality(S)
<1> DEFINE T == {f[x] : x \in S}
<1>1. f \in Surjection(S, T)
  BY DEF Surjection
<1> HIDE DEF T
<1>2. IsFiniteSet(T) /\ Cardinality(T) <= Cardinality(S)
  BY <1>1, FS_Surjection
<1>3. QED
  BY <1>2 DEF T

\* There are finitely many rewritten entries, and finitely many clones.
LEMMA RewrittenFinite ==
    ASSUME NEW b, Driven(b), NEW n, n = Rebuilt(b), NEW relocs, IsFiniteSet(relocs),
           NEW w, w = rewrite_video_batch(b, relocs)
    PROVE  IsFiniteSet(w) /\ IsFiniteSet(Clones(n, w))
<1> DEFINE rec == n[Place(b)[3]].at
           U == {q \in w : q.target \in UvTargets(n)}
           R == {q \in w : q.target \in {rec + 1, rec + 2}}
           f == [r \in relocs |-> Moved(b, r)]
           g == [r \in U |-> VClone(r)]
           h == [r \in R |-> ReferenceClone(b, r)]
<1>1. IsFiniteSet(w)
  <2>1. w = {f[r] : r \in relocs}
    BY RewritingMoves
  <2>2. f = [r \in relocs |-> f[r]]
    OBVIOUS
  <2> HIDE DEF f
  <2>3. QED
    BY <2>1, <2>2, ImageFewer
<1>2. IsFiniteSet(U) /\ IsFiniteSet(R)
  BY <1>1, FS_Subset
<1>3. Clones(n, w) = {VClone(r) : r \in U} \union {ReferenceClone(b, r) : r \in R}
  BY ClonesAre
<1>4. IsFiniteSet({VClone(r) : r \in U})
  <2> HIDE DEF U
  <2>1. {VClone(r) : r \in U} = {g[r] : r \in U}
    OBVIOUS
  <2>2. g = [r \in U |-> g[r]]
    OBVIOUS
  <2> HIDE DEF g
  <2>3. QED
    BY <1>2, <2>1, <2>2, ImageFewer
<1>5. IsFiniteSet({ReferenceClone(b, r) : r \in R})
  <2> HIDE DEF R
  <2>1. {ReferenceClone(b, r) : r \in R} = {h[r] : r \in R}
    OBVIOUS
  <2>2. h = [r \in R |-> h[r]]
    OBVIOUS
  <2> HIDE DEF h
  <2>3. QED
    BY <1>2, <2>1, <2>2, ImageFewer
<1> DEFINE A == {VClone(r) : r \in U}
           B == {ReferenceClone(b, r) : r \in R}
<1> HIDE DEF U, R, A, B
<1>6. IsFiniteSet(A \union B)
  <2>1. IsFiniteSet(A) /\ IsFiniteSet(B)
    BY <1>4, <1>5 DEF A, B
  <2>2. QED
    BY <2>1, FS_Union
<1>7. Clones(n, w) = A \union B
  BY <1>3 DEF A, B
<1>8. QED
  BY <1>1, <1>6, <1>7

\* Two sets have no more members together than one by one.
LEMMA TogetherFewer ==
    ASSUME NEW S, NEW T, IsFiniteSet(S), IsFiniteSet(T)
    PROVE  IsFiniteSet(S \union T) /\ Cardinality(S \union T) <= Cardinality(S) + Cardinality(T)
<1>1. IsFiniteSet(S \intersect T)
  BY FS_Subset
<1>2. Cardinality(S \intersect T) \in Nat /\ Cardinality(S) \in Nat /\ Cardinality(T) \in Nat
  BY <1>1, FS_CardinalityType
<1>3. IsFiniteSet(S \union T)
      /\ Cardinality(S \union T) = Cardinality(S) + Cardinality(T) - Cardinality(S \intersect T)
  BY FS_Union
<1>4. QED
  BY <1>2, <1>3

\* The places of the scratch in the rewritten batch.
ScratchTargets(n) ==
    {Pipe(n, "HCP_PIPE_BUF_ADDR_STATE") + d : d \in {4, 7, 10, 13, 16, 19, 22, 25, 28}}
    \union {Pipe(n, "VDENC_PIPE_BUF_ADDR_STATE") + d : d \in {62, 65}}

\* Each of them is the DWORD of an address.
LEMMA ScratchFields ==
    ASSUME NEW b, Driven(b), NEW n, n = Rebuilt(b)
    PROVE  /\ \A t \in ScratchTargets(n) : FieldAt(n, t) = "address"
           /\ \A d \in Nat : d < 121 =>
                /\ PacketAt(n, Pipe(n, "HCP_PIPE_BUF_ADDR_STATE") + d) = Place(b)[5]
                /\ DwordAt(n, Pipe(n, "HCP_PIPE_BUF_ADDR_STATE") + d) = d
           /\ \A d \in Nat : d < 71 =>
                /\ PacketAt(n, Pipe(n, "VDENC_PIPE_BUF_ADDR_STATE") + d) = Place(b)[11]
                /\ DwordAt(n, Pipe(n, "VDENC_PIPE_BUF_ADDR_STATE") + d) = d
<1> DEFINE p == Place(b)[5]
           v == Place(b)[11]
<1>1. /\ Ordered(n) /\ p \in DOMAIN n /\ v \in DOMAIN n /\ 5 \in DOMAIN b /\ 11 \in DOMAIN b
      /\ n[p] \in Packet /\ n[v] \in Packet
      /\ Pipe(n, "HCP_PIPE_BUF_ADDR_STATE") = n[p].at
      /\ Pipe(n, "VDENC_PIPE_BUF_ADDR_STATE") = n[v].at
  BY RebuiltFacts
<1>2. FieldsOf(b[5]) = HCP_PIPE_BUF_ADDR_STATE_CMD /\ FieldsOf(b[11]) = VDENC_PIPE_BUF_ADDR_STATE_CMD
  BY Catalogue DEF Driven, FieldsOf, OtherLayout
<1>3. /\ FieldsOf(n[p]) = HCP_PIPE_BUF_ADDR_STATE_CMD /\ length(n[p]) = Len(HCP_PIPE_BUF_ADDR_STATE_CMD)
      /\ FieldsOf(n[v]) = VDENC_PIPE_BUF_ADDR_STATE_CMD /\ length(n[v]) = Len(VDENC_PIPE_BUF_ADDR_STATE_CMD)
  BY <1>1, <1>2, MovedPacket
<1>4. /\ Len(HCP_PIPE_BUF_ADDR_STATE_CMD) = 121 /\ Len(VDENC_PIPE_BUF_ADDR_STATE_CMD) = 71
      /\ \A a \in PipeAddresses : HCP_PIPE_BUF_ADDR_STATE_CMD[a] = "address"
      /\ \A a \in VdencAddresses : VDENC_PIPE_BUF_ADDR_STATE_CMD[a] = "address"
  BY PipeLayout, VdencLayout DEF Fields
<1>5. ASSUME NEW d \in Nat, d < 121
      PROVE  /\ PacketAt(n, n[p].at + d) = p /\ DwordAt(n, n[p].at + d) = d
             /\ FieldAt(n, n[p].at + d) = HCP_PIPE_BUF_ADDR_STATE_CMD[d + 1]
  BY <1>1, <1>3, <1>4, <1>5, Located
<1>6. ASSUME NEW d \in Nat, d < 71
      PROVE  /\ PacketAt(n, n[v].at + d) = v /\ DwordAt(n, n[v].at + d) = d
             /\ FieldAt(n, n[v].at + d) = VDENC_PIPE_BUF_ADDR_STATE_CMD[d + 1]
  BY <1>1, <1>3, <1>4, <1>6, Located
<1>7. \A d \in {4, 7, 10, 13, 16, 19, 22, 25, 28} : d \in Nat /\ d < 121 /\ d + 1 \in PipeAddresses
  BY DEF PipeAddresses
<1>8. \A d \in {62, 65} : d \in Nat /\ d < 71 /\ d + 1 \in VdencAddresses
  BY DEF VdencAddresses
<1>9. ASSUME NEW t \in ScratchTargets(n) PROVE FieldAt(n, t) = "address"
  <2>1. CASE \E d \in {4, 7, 10, 13, 16, 19, 22, 25, 28} : t = n[p].at + d
    <3>1. PICK d \in {4, 7, 10, 13, 16, 19, 22, 25, 28} : t = n[p].at + d
      BY <2>1
    <3>2. d \in Nat /\ d < 121 /\ d + 1 \in PipeAddresses
      BY <1>7
    <3>3. FieldAt(n, n[p].at + d) = HCP_PIPE_BUF_ADDR_STATE_CMD[d + 1]
      BY <1>5, <3>2
    <3>4. QED
      BY <1>4, <3>1, <3>2, <3>3
  <2>2. CASE \E d \in {62, 65} : t = n[v].at + d
    <3>1. PICK d \in {62, 65} : t = n[v].at + d
      BY <2>2
    <3>2. d \in Nat /\ d < 71 /\ d + 1 \in VdencAddresses
      BY <1>8
    <3>3. FieldAt(n, n[v].at + d) = VDENC_PIPE_BUF_ADDR_STATE_CMD[d + 1]
      BY <1>6, <3>2
    <3>4. QED
      BY <1>4, <3>1, <3>2, <3>3
  <2>3. QED
    BY <1>1, <2>1, <2>2 DEF ScratchTargets
<1>10. QED
  BY <1>1, <1>5, <1>6, <1>9

-----------------------------------------------------------------------------
(* The preparation.                                                        *)

\* What the preparation makes of an entry when it binds its scratch.
Hits(n, r, k) ==
    r.target = Pipe(n, "HCP_PIPE_BUF_ADDR_STATE") + ScratchDwords[k] /\ r.kind = "address"
Rebound(n, r) ==
    IF \E k \in 1..6 : Hits(n, r, k)
    THEN [r EXCEPT !.handle = Slot(CHOOSE k \in 1..6 : Hits(n, r, k))] ELSE r

\* Binding changes the handle of an entry and no more.
LEMMA ReboundEntry ==
    ASSUME NEW b, Driven(b), NEW n, n = Rebuilt(b), NEW r, Shaped(r), Fine(n, r)
    PROVE  /\ Shaped(Rebound(n, r)) /\ Fine(n, Rebound(n, r))
           /\ Rebound(n, r).target = r.target /\ Rebound(n, r).kind = r.kind
           /\ Rebound(n, r).origin = r.origin
<1>1. CASE \E k \in 1..6 : Hits(n, r, k)
  <2>1. PICK k \in 1..6 : Hits(n, r, k)
    BY <1>1
  <2>2. r.target \in ScratchTargets(n) /\ r.kind = "address"
    <3>1. ScratchDwords[k] \in {4, 7, 10, 13, 16, 19, 22, 25, 28}
      BY DEF ScratchDwords
    <3>2. QED
      BY <2>1, <3>1 DEF Hits, ScratchTargets
  <2>3. OnField(n, r)
    BY <2>2, ScratchFields DEF OnField, NaturalKind
  <2> DEFINE h == Slot(CHOOSE j \in 1..6 : Hits(n, r, j))
  <2>4. Rebound(n, r) = [r EXCEPT !.handle = h]
    BY <1>1 DEF Rebound
  <2> HIDE DEF h
  <2>5. Rebound(n, r) = [target |-> r.target, kind |-> r.kind, handle |-> h, origin |-> r.origin, id |-> r.id]
    BY <2>4 DEF Shaped
  <2>6. QED
    BY <2>3, <2>5 DEF Shaped, Fine, OnField
<1>2. CASE ~ \E k \in 1..6 : Hits(n, r, k)
  BY <1>2 DEF Rebound
<1>3. QED
  BY <1>1, <1>2

\* The steps behind the rewriting, and those behind the cloning.
ClonedSteps == {"create", "rebind", "bind", "rows", "finish", "execute"}
RewrittenSteps == {"clone"} \union ClonedSteps

InputShape ==
    input = [wide |-> input.wide, supported |-> input.supported, relocs |-> input.relocs,
             used |-> input.used, capacity |-> input.capacity, words |-> input.words]

\* Where the preparation of the driver's batch b is.
Prepared(b) ==
    /\ InputShape /\ input.words \in Int
    /\ IsFiniteSet(input.relocs) /\ \A r \in input.relocs : Entry(b, r)
    /\ \/ client = [batch |-> b, relocs |-> input.relocs, rows |-> "driver"]
       \/ client.batch = Rebuilt(b)
    /\ pc = "convert" => work = [batch |-> b, relocs |-> input.relocs, rows |-> "driver"]
    /\ pc = "rewrite" => work = [batch |-> b, relocs |-> Carried(b, input.relocs), rows |-> "chip"]
    /\ pc = "clone" => /\ work.relocs = rewrite_video_batch(b, Carried(b, input.relocs))
                       /\ AllMapped(b, Carried(b, input.relocs))
    /\ pc \in RewrittenSteps =>
          /\ work = [batch |-> Rebuilt(b), relocs |-> work.relocs, rows |-> work.rows]
          /\ Used(Rebuilt(b)) <= input.capacity
          /\ IsFiniteSet(work.relocs)
    /\ pc \in ClonedSteps =>
          /\ \A r \in work.relocs : Shaped(r) /\ Fine(Rebuilt(b), r)
          /\ \A o \in input.relocs : KeptEntry(Rebuilt(b), work.relocs, o)
          /\ Room(work.relocs, 0)
    /\ pc = "execute" => client = work /\ input.used = Used(work.batch)

\* A preparation that ends, or is begun anew.
LEMMA Ended ==
    ASSUME NEW b, Prepared(b), pc' \in {"returned", "check"}, UNCHANGED <<input, client>>
    PROVE  Prepared(b)'
<1>1. pc' # "convert" /\ pc' # "rewrite" /\ pc' # "clone" /\ pc' # "execute"
      /\ pc' \notin RewrittenSteps /\ pc' \notin ClonedSteps
  BY DEF RewrittenSteps, ClonedSteps
<1>2. QED
  BY <1>1 DEF Prepared, InputShape

\* An entry that is kept stays kept as long as there are twins of all entries.
LEMMA KeptStays ==
    ASSUME NEW n, NEW S, NEW T, NEW o, KeptEntry(n, S, o),
           \A r \in S : \E q \in T : q.target = r.target /\ q.kind = r.kind /\ q.origin = r.origin
    PROVE  KeptEntry(n, T, o)
<1>1. \A t : Twin(S, o, t) => Twin(T, o, t)
  BY DEF Twin
<1>2. QED
  BY <1>1 DEF KeptEntry

\* A step behind the cloning that leaves another table.
LEMMA Going ==
    ASSUME NEW b, Prepared(b), pc \in ClonedSteps, pc' \in ClonedSteps, pc' # "execute",
           UNCHANGED <<input, client>>, NEW R, NEW x,
           work' = [batch |-> Rebuilt(b), relocs |-> R, rows |-> x],
           IsFiniteSet(R), 5 * Cardinality(R) < input.words,
           \A r \in R : Shaped(r) /\ Fine(Rebuilt(b), r),
           \A r \in work.relocs : \E q \in R : q.target = r.target /\ q.kind = r.kind /\ q.origin = r.origin
    PROVE  Prepared(b)'
<1>1. pc' \in RewrittenSteps /\ pc \in RewrittenSteps /\ pc' # "convert" /\ pc' # "rewrite" /\ pc' # "clone"
  BY DEF RewrittenSteps, ClonedSteps
<1>2. \A o \in input.relocs : KeptEntry(Rebuilt(b), R, o)
  <2>1. \A o \in input.relocs : KeptEntry(Rebuilt(b), work.relocs, o)
    BY DEF Prepared
  <2>2. QED
    BY <2>1, KeptStays
<1>3. work'.relocs = R /\ work'.rows = x /\ work'.batch = Rebuilt(b)
  OBVIOUS
<1>4. Room(work.relocs, 0)'
  <2>1. Cardinality(R) \in Nat
    BY FS_CardinalityType
  <2>2. QED
    BY <1>3, <2>1 DEF Room
<1>5. QED
  BY <1>1, <1>2, <1>3, <1>4 DEF Prepared, InputShape

\* A step behind the cloning that leaves the table as it is.
LEMMA Staying ==
    ASSUME NEW b, Prepared(b), pc \in ClonedSteps, pc' \in ClonedSteps, pc' # "execute",
           UNCHANGED <<input, client, work>>
    PROVE  Prepared(b)'
<1>1. pc' \in RewrittenSteps /\ pc \in RewrittenSteps /\ pc' # "convert" /\ pc' # "rewrite" /\ pc' # "clone"
  BY DEF RewrittenSteps, ClonedSteps
<1>2. QED
  BY <1>1 DEF Prepared, InputShape, Room

\* A step behind the cloning that adds entries to the table.
LEMMA Adding ==
    ASSUME NEW b, Prepared(b), pc \in ClonedSteps, pc' \in ClonedSteps, pc' # "execute",
           UNCHANGED <<input, client>>, NEW A, NEW x,
           work' = [batch |-> Rebuilt(b), relocs |-> work.relocs \union A, rows |-> x],
           IsFiniteSet(A), NEW k \in Nat, Cardinality(A) <= k, Room(work.relocs, k),
           \A r \in A : Shaped(r) /\ Fine(Rebuilt(b), r)
    PROVE  Prepared(b)'
<1> DEFINE R == work.relocs \union A
<1>1. pc \in RewrittenSteps
  BY DEF RewrittenSteps
<1>2. IsFiniteSet(work.relocs) /\ \A r \in work.relocs : Shaped(r) /\ Fine(Rebuilt(b), r)
  BY <1>1 DEF Prepared
<1>3. IsFiniteSet(R) /\ Cardinality(R) <= Cardinality(work.relocs) + Cardinality(A)
  BY <1>2, TogetherFewer
<1>4. 5 * Cardinality(R) < input.words
  <2>1. Cardinality(R) \in Nat /\ Cardinality(work.relocs) \in Nat /\ Cardinality(A) \in Nat
    BY <1>2, <1>3, FS_CardinalityType
  <2>2. 5 * (Cardinality(work.relocs) + k) < input.words /\ input.words \in Int
    BY DEF Prepared, Room
  <2>3. QED
    BY <1>3, <2>1, <2>2
<1>5. \A r \in R : Shaped(r) /\ Fine(Rebuilt(b), r)
  BY <1>2
<1>6. \A r \in work.relocs : \E q \in R : q.target = r.target /\ q.kind = r.kind /\ q.origin = r.origin
  OBVIOUS
<1> HIDE DEF R
<1>7. work' = [batch |-> Rebuilt(b), relocs |-> R, rows |-> x]
  BY DEF R
<1>8. QED
  BY <1>3, <1>4, <1>5, <1>6, <1>7, Going

\* An entry that binds new scratch at one of its places is fine.
LEMMA BoundFine ==
    ASSUME NEW b, Driven(b), NEW n, n = Rebuilt(b), NEW t \in ScratchTargets(n), NEW k
    PROVE  Shaped(Bound(t, k)) /\ Fine(n, Bound(t, k))
<1>1. FieldAt(n, t) = "address"
  BY ScratchFields
<1>2. QED
  BY <1>1 DEF Bound, Reloc, Shaped, Fine, OnField, NaturalKind

\* What a preparation is given is the batch of the driver and a table of its entries.
LEMMA PreparedInit ==
    ASSUME Init
    PROVE  \E b : Driven(b) /\ Prepared(b)
<1>1. PICK inter \in BOOLEAN, wide \in BOOLEAN, rows \in BOOLEAN, f \in Frames :
        \E t \in Tables(DriverBatch(inter), rows, f) :
            /\ client = [batch |-> DriverBatch(inter), relocs |-> t, rows |-> "driver"]
            /\ input = Frame(DriverBatch(inter), t, wide, f)
  BY DEF Init
<1> DEFINE b == DriverBatch(inter)
<1>2. PICK t \in Tables(b, rows, f) :
        /\ client = [batch |-> b, relocs |-> t, rows |-> "driver"]
        /\ input = Frame(b, t, wide, f)
  BY <1>1
<1>3. Driven(b)
  BY DriverDriven
<1> HIDE DEF b
<1>4. f \in [more : Nat, less : Nat, supported : BOOLEAN, spare : Int, entries : Nat, short : Nat]
  BY FramesAssumption
<1>5. IsFiniteSet(t) /\ \A r \in t : Entry(b, r)
  BY <1>3, <1>4, TableEntries
<1>6. Cardinality(t) \in Nat /\ f.entries \in Nat
  BY <1>4, <1>5, FS_CardinalityType
<1>7. input = [wide |-> wide, supported |-> f.supported, relocs |-> t,
               used |-> Used(b) - f.short, capacity |-> Used(Rebuilt(b)) + f.spare,
               words |-> 5 * (Cardinality(t) + f.entries) + 1]
  BY <1>2 DEF Frame
<1>8. input.words \in Int /\ input.relocs = t /\ InputShape
  <2>1. input.words = 5 * (Cardinality(t) + f.entries) + 1 /\ input.relocs = t
    BY <1>7
  <2>2. InputShape
    BY <1>7 DEF InputShape
  <2>3. QED
    BY <1>6, <2>1, <2>2
<1>9. pc = "check"
  BY DEF Init
<1>10. Prepared(b)
  BY <1>2, <1>5, <1>8, <1>9 DEF Prepared, RewrittenSteps, ClonedSteps
<1>11. QED
  BY <1>3, <1>10

\* The candidate is the driver's batch, never one that was rewritten before.
LEMMA PreparedCheck ==
    ASSUME NEW b, Driven(b), Prepared(b), Check PROVE Prepared(b)'
<1>1. CASE Reject
  BY <1>1, Ended DEF Reject
<1>2. CASE WellFormed(client.batch) /\ work' = client /\ Continue("convert")
  <2>1. client.batch # Rebuilt(b)
    BY <1>2, RebuiltFacts DEF WellFormed
  <2>2. client = [batch |-> b, relocs |-> input.relocs, rows |-> "driver"]
    BY <2>1 DEF Prepared
  <2>3. pc' = "convert" /\ UNCHANGED <<input, client>>
    BY <1>2 DEF Continue
  <2>4. QED
    BY <1>2, <2>2, <2>3 DEF Prepared, InputShape, RewrittenSteps, ClonedSteps
<1>3. QED
  BY <1>1, <1>2 DEF Check

\* The bindings of the row stores are dropped.
LEMMA PreparedConvert ==
    ASSUME NEW b, Driven(b), Prepared(b), Convert PROVE Prepared(b)'
<1>1. CASE Reject
  BY <1>1, Ended DEF Reject
<1>2. CASE ~Reject
  <2> DEFINE rows == {r \in work.relocs : IsRow(work.batch, r.target)}
  <2>1. work' = [work EXCEPT !.relocs = @ \ rows, !.rows = "chip"] /\ Continue("rewrite") /\ pc = "convert"
    BY <1>2 DEF Convert
  <2>2. work = [batch |-> b, relocs |-> input.relocs, rows |-> "driver"]
    BY <2>1 DEF Prepared
  <2>3. work.relocs \ rows = Carried(b, input.relocs)
    BY <2>2 DEF Carried
  <2>4. work' = [batch |-> b, relocs |-> Carried(b, input.relocs), rows |-> "chip"]
    <3> HIDE DEF rows
    <3>1. QED
      BY <2>1, <2>2, <2>3
  <2>5. pc' = "rewrite" /\ UNCHANGED <<input, client>>
    BY <2>1 DEF Continue
  <2>6. QED
    BY <2>4, <2>5 DEF Prepared, InputShape, RewrittenSteps, ClonedSteps
<1>3. QED
  BY <1>1, <1>2

\* The rewriting.
LEMMA PreparedRewrite ==
    ASSUME NEW b, Driven(b), Prepared(b), Rewrite PROVE Prepared(b)'
<1>1. CASE Reject
  BY <1>1, Ended DEF Reject
<1>2. CASE ~Reject
  <2> DEFINE carried == Carried(b, input.relocs)
             w == rewrite_video_batch(b, carried)
  <2>1. /\ Rewritable(work.batch, work.relocs) /\ Continue("clone") /\ pc = "rewrite"
        /\ work' = [work EXCEPT !.batch = Rebuilt(@), !.relocs = rewrite_video_batch(work.batch, @)]
    BY <1>2 DEF Rewrite
  <2>2. work = [batch |-> b, relocs |-> carried, rows |-> "chip"]
    BY <2>1 DEF Prepared
  <2>3. IsFiniteSet(input.relocs) /\ \A r \in input.relocs : Entry(b, r)
    BY DEF Prepared
  <2>4. carried \subseteq input.relocs
    BY DEF Carried
  <2> HIDE DEF carried
  <2>5. AllMapped(b, carried)
    <3> SUFFICES ASSUME NEW r \in carried PROVE Mapped(b[r.origin.packet], r.origin.dw)
        BY DEF AllMapped
    <3>1. Mapped(b[PacketAt(b, r.target)], DwordAt(b, r.target))
      BY <2>1, <2>2 DEF Rewritable
    <3>2. PacketAt(b, r.target) = r.origin.packet /\ DwordAt(b, r.target) = r.origin.dw
      BY <2>3, <2>4, EntryAt DEF Driven
    <3>3. QED
      BY <3>1, <3>2
  <2>6. IsFiniteSet(w)
    <3>1. IsFiniteSet(carried)
      BY <2>3, <2>4, FS_Subset
    <3>2. QED
      BY <3>1, RewrittenFinite
  <2>7. Used(Rebuilt(b)) <= input.capacity
    BY <2>1, <2>2 DEF Rewritable
  <2> HIDE DEF w
  <2>8. work' = [batch |-> Rebuilt(b), relocs |-> w, rows |-> "chip"]
    BY <2>1, <2>2 DEF w
  <2>9. work'.relocs = w /\ work'.rows = "chip"
    BY <2>8
  <2>10. pc' = "clone" /\ UNCHANGED <<input, client>>
    BY <2>1 DEF Continue
  <2>11. QED
    BY <2>5, <2>6, <2>7, <2>8, <2>9, <2>10 DEF Prepared, InputShape, ClonedSteps, w, carried
<1>3. QED
  BY <1>1, <1>2

\* The cloning.
LEMMA PreparedClone ==
    ASSUME NEW b, Driven(b), Prepared(b), Clone PROVE Prepared(b)'
<1>1. CASE Reject
  BY <1>1, Ended DEF Reject
<1>2. CASE ~Reject
  <2> DEFINE n == Rebuilt(b)
             carried == Carried(b, input.relocs)
             w == work.relocs
             added == Clones(n, w)
             R == w \union added
  <2>1. pc = "clone" /\ pc \in RewrittenSteps
    BY <1>2 DEF Clone, RewrittenSteps
  <2>2. /\ work = [batch |-> n, relocs |-> w, rows |-> work.rows] /\ IsFiniteSet(w)
        /\ Used(n) <= input.capacity
        /\ w = rewrite_video_batch(b, carried) /\ AllMapped(b, carried)
        /\ IsFiniteSet(input.relocs) /\ input.words \in Int
        /\ \A r \in input.relocs : Entry(b, r)
    BY <2>1 DEF Prepared
  <2>3. /\ UvOffsets(n, w) /\ Room(w, Cardinality(added)) /\ Continue("create")
        /\ work' = [work EXCEPT !.relocs = @ \union added]
    BY <1>2, <2>2 DEF Clone, UvOffsets
  <2>4. carried \subseteq input.relocs
    BY DEF Carried
  <2>5. \A r \in R : Shaped(r) /\ Fine(n, r)
    <3>1. \A r \in carried : Entry(b, r)
      BY <2>2, <2>4
    <3> HIDE DEF carried
    <3>2. QED
      BY <2>2, <2>3, <3>1, ClonedFine
  <2>6. \A o \in input.relocs : KeptEntry(n, R, o)
    BY <2>2, <2>3, ClonedKept
  <2>7. IsFiniteSet(added)
    <3>1. IsFiniteSet(carried)
      BY <2>2, <2>4, FS_Subset
    <3> HIDE DEF carried
    <3>2. QED
      BY <2>2, <3>1, RewrittenFinite
  <2> HIDE DEF w, added, n
  <2>8. IsFiniteSet(R) /\ Cardinality(R) <= Cardinality(w) + Cardinality(added)
    BY <2>2, <2>7, TogetherFewer
  <2>9. Room(R, 0)
    <3>1. Cardinality(R) \in Nat /\ Cardinality(w) \in Nat /\ Cardinality(added) \in Nat
      BY <2>2, <2>7, <2>8, FS_CardinalityType
    <3>2. 5 * (Cardinality(w) + Cardinality(added)) < input.words
      BY <2>3 DEF Room
    <3>3. 5 * Cardinality(R) < input.words
      BY <2>2, <2>8, <3>1, <3>2
    <3>4. QED
      BY <3>1, <3>3 DEF Room
  <2> HIDE DEF R
  <2>10. work' = [batch |-> n, relocs |-> R, rows |-> work.rows]
    <3>1. work' = [work EXCEPT !.relocs = w \union added]
      BY <2>3 DEF w
    <3>2. QED
      BY <2>2, <3>1 DEF R
  <2>11. pc' = "create" /\ UNCHANGED <<input, client>>
    BY <2>3 DEF Continue
  <2>12. pc' # "convert" /\ pc' # "rewrite" /\ pc' # "clone" /\ pc' # "execute"
    BY <2>11
  <2>13. work'.relocs = R /\ work' = [batch |-> n, relocs |-> work'.relocs, rows |-> work'.rows]
    BY <2>10
  <2>14. Room(work.relocs, 0)'
    BY <2>9, <2>11, <2>13 DEF Room
  <2>15. QED
    BY <2>2, <2>5, <2>6, <2>8, <2>11, <2>12, <2>13, <2>14 DEF Prepared, InputShape, n
<1>3. QED
  BY <1>1, <1>2

\* The creation of the scratch.
LEMMA PreparedCreate ==
    ASSUME NEW b, Driven(b), Prepared(b), Create \/ Created PROVE Prepared(b)'
<1>1. pc \in ClonedSteps /\ pc' \in ClonedSteps /\ pc' # "execute" /\ UNCHANGED <<input, client, work>>
  BY DEF Create, Created, Continue, ClonedSteps
<1>2. QED
  BY <1>1, Staying

\* The binding of the scratch that the driver binds too.
LEMMA PreparedRebind ==
    ASSUME NEW b, Driven(b), Prepared(b), Rebind PROVE Prepared(b)'
<1> DEFINE n == Rebuilt(b)
           w == work.relocs
           f == [r \in w |-> Rebound(n, r)]
           R == {Rebound(n, r) : r \in w}
<1>1. pc = "rebind" /\ pc \in RewrittenSteps /\ pc \in ClonedSteps /\ pc' \in ClonedSteps /\ pc' # "execute"
      /\ UNCHANGED <<input, client>>
  BY DEF Rebind, RewrittenSteps, ClonedSteps
<1>2. /\ work = [batch |-> n, relocs |-> w, rows |-> work.rows] /\ IsFiniteSet(w)
      /\ \A r \in w : Shaped(r) /\ Fine(n, r)
      /\ Room(w, 0) /\ input.words \in Int
  BY <1>1 DEF Prepared
<1>3. work' = [work EXCEPT !.relocs = R]
  <2>1. work.batch = n
    BY <1>2
  <2>2. QED
    BY <2>1 DEF Rebind, Rebound, Hits
<1>4. \A r \in R : Shaped(r) /\ Fine(n, r)
  BY <1>2, ReboundEntry
<1>5. \A r \in w : \E q \in R : q.target = r.target /\ q.kind = r.kind /\ q.origin = r.origin
  BY <1>2, ReboundEntry
<1>6. IsFiniteSet(R) /\ Cardinality(R) <= Cardinality(w)
  <2>1. R = {f[r] : r \in w} /\ f = [r \in w |-> f[r]]
    OBVIOUS
  <2> HIDE DEF f, R, w
  <2>2. QED
    BY <1>2, <2>1, ImageFewer
<1> HIDE DEF R
<1>7. work' = [batch |-> n, relocs |-> R, rows |-> work.rows]
  BY <1>2, <1>3
<1>8. 5 * Cardinality(R) < input.words
  <2>1. Cardinality(R) \in Nat /\ Cardinality(w) \in Nat
    BY <1>2, <1>6, FS_CardinalityType
  <2>2. 5 * (Cardinality(w) + 0) < input.words
    BY <1>2 DEF Room
  <2>3. QED
    BY <1>2, <1>6, <2>1, <2>2
<1>9. QED
  BY <1>1, <1>4, <1>5, <1>6, <1>7, <1>8, Going

\* The binding of the scratch that only Gen12 has.
LEMMA PreparedBind ==
    ASSUME NEW b, Driven(b), Prepared(b), Bind PROVE Prepared(b)'
<1> DEFINE n == Rebuilt(b)
           v == Pipe(n, "VDENC_PIPE_BUF_ADDR_STATE")
           A == {Bound(v + 62, 7), Bound(v + 65, 8)}
<1>1. pc = "bind" /\ pc \in RewrittenSteps /\ pc \in ClonedSteps /\ pc' \in ClonedSteps /\ pc' # "execute"
      /\ UNCHANGED <<input, client>>
  BY DEF Bind, RewrittenSteps, ClonedSteps
<1>2. work = [batch |-> n, relocs |-> work.relocs, rows |-> work.rows]
  BY <1>1 DEF Prepared
<1>3. CASE UNCHANGED work
  BY <1>1, <1>3, Staying
<1>4. CASE ~ UNCHANGED work
  <2>1. Room(work.relocs, 2) /\ work' = [work EXCEPT !.relocs = @ \union A]
    <3>1. work.batch = n
      BY <1>2
    <3>2. QED
      BY <1>4, <3>1 DEF Bind
  <2>2. v + 62 \in ScratchTargets(n) /\ v + 65 \in ScratchTargets(n)
    BY DEF ScratchTargets
  <2>3. \A r \in A : Shaped(r) /\ Fine(n, r)
    BY <2>2, BoundFine
  <2>4. IsFiniteSet(A) /\ Cardinality(A) <= 2
    <3> DEFINE x == Bound(v + 62, 7)
               y == Bound(v + 65, 8)
    <3> HIDE DEF x, y
    <3>1. IsFiniteSet({x}) /\ Cardinality({x}) = 1 /\ IsFiniteSet({y}) /\ Cardinality({y}) = 1
      BY FS_Singleton
    <3>2. IsFiniteSet({x} \union {y}) /\ Cardinality({x} \union {y}) <= Cardinality({x}) + Cardinality({y})
      BY <3>1, TogetherFewer
    <3>3. A = {x} \union {y}
      BY DEF x, y
    <3> HIDE DEF A
    <3>4. Cardinality({x} \union {y}) <= 2
      <4>1. Cardinality({x} \union {y}) \in Nat
        BY <3>2, FS_CardinalityType
      <4>2. QED
        BY <3>1, <3>2, <4>1
    <3>5. QED
      BY <3>2, <3>3, <3>4
  <2> HIDE DEF A
  <2>5. work' = [batch |-> n, relocs |-> work.relocs \union A, rows |-> work.rows]
    BY <1>2, <2>1
  <2>6. QED
    BY <1>1, <2>1, <2>3, <2>4, <2>5, Adding
<1>5. QED
  BY <1>3, <1>4

\* The binding of the row stores.
LEMMA PreparedBindRows ==
    ASSUME NEW b, Driven(b), Prepared(b), BindRows PROVE Prepared(b)'
<1> DEFINE n == Rebuilt(b)
           p == Pipe(n, "HCP_PIPE_BUF_ADDR_STATE")
           f == [k \in 1..3 |-> Bound(p + RowDwords[k], 8 + k)]
           A == {Bound(p + RowDwords[k], 8 + k) : k \in 1..3}
<1>1. pc = "rows" /\ pc \in RewrittenSteps /\ pc \in ClonedSteps /\ UNCHANGED <<input, client>>
  BY DEF BindRows, RewrittenSteps, ClonedSteps
<1>2. work = [batch |-> n, relocs |-> work.relocs, rows |-> work.rows]
  BY <1>1 DEF Prepared
<1>3. CASE Abandon
  BY <1>1, <1>3, Ended DEF Abandon
<1>4. CASE pc' = "finish" /\ UNCHANGED work
  <2>1. pc' \in ClonedSteps /\ pc' # "execute"
    BY <1>4 DEF ClonedSteps
  <2>2. QED
    BY <1>1, <1>4, <2>1, Staying
<1>5. CASE ~ Abandon /\ ~ (pc' = "finish" /\ UNCHANGED work)
  <2>1. /\ Room(work.relocs, 3) /\ pc' = "finish"
        /\ work' = [work EXCEPT !.rows = "memory", !.relocs = @ \union A]
    <3>1. work.batch = n
      BY <1>2
    <3>2. QED
      BY <1>5, <3>1 DEF BindRows
  <2>2. \A k \in 1..3 : RowDwords[k] \in {4, 13, 22}
    BY DEF RowDwords
  <2>3. \A k \in 1..3 : p + RowDwords[k] \in ScratchTargets(n)
    BY <2>2 DEF ScratchTargets
  <2>4. \A r \in A : Shaped(r) /\ Fine(n, r)
    BY <2>3, BoundFine
  <2>5. IsFiniteSet(A) /\ Cardinality(A) <= 3
    <3>1. A = {f[k] : k \in 1..3} /\ f = [k \in 1..3 |-> f[k]]
      OBVIOUS
    <3>2. IsFiniteSet(1..3) /\ Cardinality(1..3) = 3
      <4>1. \A m \in Int : IsFiniteSet(1..m) /\ Cardinality(1..m) = IF 1 > m THEN 0 ELSE m - 1 + 1
        BY FS_Interval
      <4>2. IsFiniteSet(1..3) /\ Cardinality(1..3) = IF 1 > 3 THEN 0 ELSE 3 - 1 + 1
        <5>1. 3 \in Int
          OBVIOUS
        <5>2. QED
          BY <4>1, <5>1, Zenon
      <4>3. QED
        BY <4>2
    <3> HIDE DEF f, A
    <3>3. QED
      BY <3>1, <3>2, ImageFewer
  <2> HIDE DEF A
  <2>6. work' = [batch |-> n, relocs |-> work.relocs \union A, rows |-> "memory"]
    <3> DEFINE R == work.relocs \union A
    <3>1. work' = [work EXCEPT !.rows = "memory", !.relocs = R]
      BY <2>1
    <3> DEFINE w == work.relocs
               y == work.rows
    <3>a. work = [batch |-> n, relocs |-> w, rows |-> y]
      BY <1>2
    <3> HIDE DEF R, w, y
    <3>2. work' = [batch |-> n, relocs |-> R, rows |-> "memory"]
      BY <3>a, <3>1
    <3>3. QED
      BY <3>2 DEF R
  <2>7. pc' \in ClonedSteps /\ pc' # "execute"
    BY <2>1 DEF ClonedSteps
  <2>8. QED
    BY <1>1, <2>1, <2>4, <2>5, <2>6, <2>7, Adding
<1>6. QED
  BY <1>3, <1>4, <1>5

\* The copy over the driver's buffers.
LEMMA PreparedFinish ==
    ASSUME NEW b, Driven(b), Prepared(b), Finish PROVE Prepared(b)'
<1>1. pc = "finish" /\ UNCHANGED work /\ pc \in RewrittenSteps /\ pc \in ClonedSteps
  BY DEF Finish, RewrittenSteps, ClonedSteps
<1>2. CASE Abandon /\ UNCHANGED <<client, input>>
  BY <1>2, Ended DEF Abandon
<1>3. CASE client' = work /\ input' = [input EXCEPT !.used = Used(work.batch)] /\ pc' = "execute"
  <2>1. /\ work = [batch |-> Rebuilt(b), relocs |-> work.relocs, rows |-> work.rows]
        /\ InputShape
    BY <1>1 DEF Prepared
  <2> DEFINE u == Used(work.batch)
  <2>2. input' = [wide |-> input.wide, supported |-> input.supported, relocs |-> input.relocs,
                  used |-> u, capacity |-> input.capacity, words |-> input.words]
    <3> HIDE DEF u
    <3>1. input' = [input EXCEPT !.used = u]
      BY <1>3 DEF u
    <3>2. QED
      BY <2>1, <3>1 DEF InputShape
  <2> HIDE DEF u
  <2>3. InputShape' /\ input'.relocs = input.relocs /\ input'.words = input.words
        /\ input'.capacity = input.capacity /\ input'.used = u
    BY <2>2 DEF InputShape
  <2>4. client'.batch = Rebuilt(b) /\ client' = work' /\ input'.used = Used(work'.batch)
    BY <1>1, <1>3, <2>1, <2>3 DEF u
  <2>5. pc' \in ClonedSteps /\ pc' \in RewrittenSteps /\ pc' # "convert" /\ pc' # "rewrite" /\ pc' # "clone"
    BY <1>3 DEF RewrittenSteps, ClonedSteps
  <2>6. QED
    BY <1>1, <2>3, <2>4, <2>5 DEF Prepared, Room
<1>4. QED
  BY <1>2, <1>3 DEF Finish

\* Every step of the preparation.
LEMMA PreparedNext ==
    ASSUME NEW b, Driven(b), Prepared(b), [Next]_vars PROVE Prepared(b)'
<1>1. CASE Execute \/ Resubmit
  BY <1>1, Ended DEF Execute, Resubmit
<1>2. CASE UNCHANGED vars
  BY <1>2 DEF vars, Prepared, InputShape, Room
<1>3. QED
  BY <1>1, <1>2, PreparedCheck, PreparedConvert, PreparedRewrite, PreparedClone, PreparedCreate,
     PreparedRebind, PreparedBind, PreparedBindRows, PreparedFinish DEF Next

\* Some batch of the driver is the one that is prepared.
Preparing == \E b : Driven(b) /\ Prepared(b)

\* The preparation works on the driver's batch all along.
THEOREM PreparationInductive == Spec => []Preparing
<1>1. Init => Preparing
  BY PreparedInit DEF Preparing
<1>2. Preparing /\ [Next]_vars => Preparing'
  <2> SUFFICES ASSUME Preparing, [Next]_vars PROVE Preparing'
      OBVIOUS
  <2>1. PICK b : Driven(b) /\ Prepared(b)
    BY DEF Preparing
  <2>2. Prepared(b)'
    BY <2>1, PreparedNext
  <2>3. QED
    BY <2>1, <2>2 DEF Preparing
<1>3. QED
  BY <1>1, <1>2, PTL DEF Spec

\* Every entry of an executed batch patches a field that takes it.
THEOREM EntriesOnFields == Spec => []RelocsOnFields
<1>1. Preparing => RelocsOnFields
  <2> SUFFICES ASSUME Preparing, pc = "execute", NEW r \in client.relocs
               PROVE  \/ OnField(client.batch, r)
                      \/ r.handle.try = -1 /\ NaturalKind(FieldAt(client.batch, r.target)) # "none"
      BY DEF RelocsOnFields
  <2>1. PICK b : Driven(b) /\ Prepared(b)
    BY DEF Preparing
  <2>2. pc \in RewrittenSteps /\ pc \in ClonedSteps
    BY DEF RewrittenSteps, ClonedSteps
  <2>3. client = work /\ work.batch = Rebuilt(b) /\ \A q \in work.relocs : Fine(Rebuilt(b), q)
    BY <2>1, <2>2 DEF Prepared
  <2>4. QED
    BY <2>3 DEF Fine
<1>2. QED
  BY <1>1, PreparationInductive, PTL

\* Every binding of the driver is in an executed batch, where it belongs.
THEOREM BindingsNeverLost == Spec => []BindingsKept
<1>1. Preparing => BindingsKept
  <2> SUFFICES ASSUME Preparing, pc = "execute" PROVE BindingsKept
      BY DEF BindingsKept
  <2>1. PICK b : Driven(b) /\ Prepared(b)
    BY DEF Preparing
  <2>2. pc \in RewrittenSteps /\ pc \in ClonedSteps
    BY DEF RewrittenSteps, ClonedSteps
  <2>3. client = work /\ work.batch = Rebuilt(b)
        /\ \A o \in input.relocs : KeptEntry(Rebuilt(b), work.relocs, o)
    BY <2>1, <2>2 DEF Prepared
  <2>4. \A o \in input.relocs : KeptEntry(client.batch, client.relocs, o)
    BY <2>3
  <2>5. QED
    BY <2>4 DEF BindingsKept, KeptEntry, Twin
<1>2. QED
  BY <1>1, PreparationInductive, PTL

\* What is executed fits in the buffers of the driver.
THEOREM ExecutedFits == Spec => []BatchFits
<1>1. Preparing => BatchFits
  <2> SUFFICES ASSUME Preparing, pc = "execute" PROVE BatchFits
      BY DEF BatchFits
  <2>1. PICK b : Driven(b) /\ Prepared(b)
    BY DEF Preparing
  <2>2. pc \in RewrittenSteps /\ pc \in ClonedSteps
    BY DEF RewrittenSteps, ClonedSteps
  <2>3. client = work /\ work.batch = Rebuilt(b) /\ Used(Rebuilt(b)) <= input.capacity
        /\ Room(work.relocs, 0) /\ input.used = Used(work.batch)
    BY <2>1, <2>2 DEF Prepared
  <2>4. Last(Rebuilt(b)).cmd = "MI_BATCH_BUFFER_END"
    BY <2>1, RebuiltFacts
  <2>5. QED
    BY <2>3, <2>4 DEF BatchFits
<1>2. QED
  BY <1>1, PreparationInductive, PTL

-----------------------------------------------------------------------------
(* The scratch.  The preparation counts the bindings it finds and never    *)
(* looks which ones they are.  What follows is about the tables in which   *)
(* the count tells it, see CountTells.                                     *)

\* The packets of the rewritten batch that are looked for are different ones.
LEMMA FoundApart ==
    ASSUME NEW b, Driven(b), NEW n, n = Rebuilt(b)
    PROVE  /\ n[Place(b)[5]].cmd = "HCP_PIPE_BUF_ADDR_STATE"
           /\ n[Place(b)[11]].cmd = "VDENC_PIPE_BUF_ADDR_STATE"
           /\ n[Place(b)[9]].cmd = "VDENC_REF_SURFACE_STATE"
           /\ n[Place(b)[10]].cmd = "VDENC_DS_REF_SURFACE_STATE"
           /\ n[Ref(b)].cmd = "HCP_SURFACE_STATE"
           /\ \A i \in DOMAIN b : Place(b)[i] = Place(b)[5] => i = 5
           /\ \A i \in DOMAIN b : Place(b)[i] = Place(b)[11] => i = 11
<1>1. /\ {3, 5, 9, 10, 11} \subseteq DOMAIN b
      /\ \A i \in DOMAIN b : n[Place(b)[i]].cmd = b[i].cmd /\ n[Place(b)[i]].from = i
      /\ n[Ref(b)].cmd = "HCP_SURFACE_STATE"
  BY RebuiltFacts
<1>2. /\ b[5].cmd = "HCP_PIPE_BUF_ADDR_STATE" /\ b[9].cmd = "VDENC_REF_SURFACE_STATE"
      /\ b[10].cmd = "VDENC_DS_REF_SURFACE_STATE" /\ b[11].cmd = "VDENC_PIPE_BUF_ADDR_STATE"
  BY DEF Driven
<1>3. 5 \in DOMAIN b /\ 9 \in DOMAIN b /\ 10 \in DOMAIN b /\ 11 \in DOMAIN b
  BY <1>1
<1>4. QED
  BY <1>1, <1>2, <1>3

\* A place of a row store, or of a buffer that only Gen12 has, is not the driver's.
Free(n, t) ==
    /\ ~ IsRow(n, t)
    /\ t # Pipe(n, "VDENC_PIPE_BUF_ADDR_STATE") + 62
    /\ t # Pipe(n, "VDENC_PIPE_BUF_ADDR_STATE") + 65

\* A rewritten entry is for a buffer exactly when the driver's entry was.
LEMMA MovedHits ==
    ASSUME NEW b, Driven(b), NEW n, n = Rebuilt(b), NEW r, Entry(b, r),
           Mapped(b[r.origin.packet], r.origin.dw)
    PROVE  /\ \A k \in 1..6 : Hits(n, Moved(b, r), k) <=> Scratchy(r, k)
           /\ Free(n, Moved(b, r).target)
<1> DEFINE i == r.origin.packet
           d == r.origin.dw
           m == Moved(b, r)
           p == Pipe(n, "HCP_PIPE_BUF_ADDR_STATE")
           v == Pipe(n, "VDENC_PIPE_BUF_ADDR_STATE")
<1>1. /\ m.target = Home(b, r) /\ m.kind = r.kind
      /\ PacketAt(n, m.target) = Place(b)[i] /\ DwordAt(n, m.target) = d
  BY MovedEntry
<1>2. i \in DOMAIN b /\ d \in Nat \ {0} /\ r.origin = [packet |-> i, dw |-> d]
  BY EntryAt DEF Driven, Entry, Reloc
<1>3. p = n[Place(b)[5]].at /\ v = n[Place(b)[11]].at /\ 5 \in DOMAIN b /\ 11 \in DOMAIN b
  BY RebuiltFacts
<1>4. ASSUME NEW k \in 1..6 PROVE Hits(n, m, k) <=> Scratchy(r, k)
  <2>1. ScratchDwords[k] \in Nat /\ ScratchDwords[k] < 121
    BY DEF ScratchDwords
  <2>2. ASSUME m.target = p + ScratchDwords[k] PROVE i = 5 /\ d = ScratchDwords[k]
    <3>1. PacketAt(n, m.target) = Place(b)[5] /\ DwordAt(n, m.target) = ScratchDwords[k]
      BY <2>1, <2>2, ScratchFields
    <3>2. QED
      BY <1>1, <1>2, <3>1, FoundApart
  <2>3. ASSUME i = 5, d = ScratchDwords[k] PROVE m.target = p + ScratchDwords[k]
    BY <1>1, <1>3, <2>3 DEF Home
  <2>4. r.origin = [packet |-> 5, dw |-> ScratchDwords[k]] <=> i = 5 /\ d = ScratchDwords[k]
    BY <1>2
  <2> HIDE DEF m, p, i, d
  <2>5. QED
    BY <1>1, <2>2, <2>3, <2>4 DEF Hits, Scratchy, p
<1>5. ~ IsRow(n, m.target)
  <2> SUFFICES ASSUME IsRow(n, m.target) PROVE FALSE
      OBVIOUS
  <2>1. n[Place(b)[i]].cmd = "HCP_PIPE_BUF_ADDR_STATE" /\ d \in Range(RowDwords)
    BY <1>1 DEF IsRow
  <2>2. b[i].cmd = "HCP_PIPE_BUF_ADDR_STATE"
    BY <1>2, <2>1, RebuiltFacts
  <2>3. b[i].cmd \in Converted
    BY <2>2 DEF Converted, Gen11Length
  <2>4. QED
    BY <2>1, <2>2, <2>3, MappedFields DEF Mapped
<1>6. ASSUME NEW e \in {62, 65}, m.target = v + e PROVE FALSE
  <2>1. e \in Nat /\ e < 71
    OBVIOUS
  <2>2. PacketAt(n, m.target) = Place(b)[11] /\ DwordAt(n, m.target) = e
    BY <1>6, <2>1, ScratchFields
  <2>3. i = 11 /\ d = e
    BY <1>1, <1>2, <2>2, FoundApart
  <2>4. b[i].cmd = "VDENC_PIPE_BUF_ADDR_STATE"
    BY <2>3 DEF Driven
  <2>5. b[i].cmd \in Converted
    BY <2>4 DEF Converted, Gen11Length
  <2>6. d \in AddressDwords["VDENC_PIPE_BUF_ADDR_STATE"]
    BY <2>4, <2>5 DEF Mapped
  <2>7. QED
    BY <2>3, <2>6 DEF AddressDwords
<1>7. Free(n, m.target)
  BY <1>5, <1>6 DEF Free
<1>8. QED
  BY <1>4, <1>7

\* A clone is for none of the buffers.
LEMMA CloneMisses ==
    ASSUME NEW b, Driven(b), NEW n, n = Rebuilt(b), NEW w, \A r \in w : Shaped(r) /\ Fine(n, r),
           UvOffsets(n, w), NEW c \in Clones(n, w)
    PROVE  Free(n, c.target) /\ \A k \in 1..6 : ~ Hits(n, c, k)
<1> DEFINE rec == n[Place(b)[3]].at
           p == Pipe(n, "HCP_PIPE_BUF_ADDR_STATE")
           v == Pipe(n, "VDENC_PIPE_BUF_ADDR_STATE")
           u == n[Place(b)[9]].at
           y == n[Place(b)[10]].at
           z == n[Ref(b)].at
<1>1. {3, 9, 10} \subseteq DOMAIN b /\ rec \in Nat /\ u \in Nat /\ y \in Nat
  <2>1. {3, 9, 10} \subseteq DOMAIN b /\ \A i \in DOMAIN b : n[Place(b)[i]] \in Packet
    BY RebuiltFacts
  <2>2. QED
    BY <2>1 DEF Packet
<1>2. c.target \in {u + 5, y + 5, y + 9, z + 1, z + 2}
  <2>1. \/ \E r \in w : r.target \in UvTargets(n) /\ c = VClone(r)
        \/ \E r \in w : r.target \in {rec + 1, rec + 2} /\ c = ReferenceClone(b, r)
    BY ClonesAre
  <2>2. CASE \E r \in w : r.target \in UvTargets(n) /\ c = VClone(r)
    <3>1. PICK r \in w : r.target \in UvTargets(n) /\ c = VClone(r)
      BY <2>2
    <3>2. r.kind = "offset"
      BY <3>1 DEF UvOffsets
    <3>3. c.target = r.target + 1
      BY <3>1, <3>2, CloneOf
    <3>4. r.target \in {u + 4, y + 4, y + 8}
      BY <3>1, UvTargetsFound
    <3> HIDE DEF u, y, z
    <3>5. QED
      BY <1>1, <3>3, <3>4
  <2>3. CASE \E r \in w : r.target \in {rec + 1, rec + 2} /\ c = ReferenceClone(b, r)
    <3>1. PICK r \in w : r.target \in {rec + 1, rec + 2} /\ c = ReferenceClone(b, r)
      BY <2>3
    <3>2. PICK d \in {1, 2} : r.target = rec + d
      BY <3>1
    <3>3. c.target = z + d
      BY <3>1, <3>2, CloneOf
    <3> HIDE DEF z
    <3>4. QED
      BY <3>2, <3>3
  <2>4. QED
    BY <2>1, <2>2, <2>3
<1>3. PacketAt(n, c.target) \in {Place(b)[9], Place(b)[10], Ref(b)}
  <2>1. PacketAt(n, u + 5) = Place(b)[9] /\ PacketAt(n, y + 5) = Place(b)[10]
        /\ PacketAt(n, y + 9) = Place(b)[10] /\ PacketAt(n, z + 1) = Ref(b) /\ PacketAt(n, z + 2) = Ref(b)
    BY FoundFields
  <2> HIDE DEF u, y, z
  <2>2. QED
    BY <1>2, <2>1
<1>4. n[PacketAt(n, c.target)].cmd \notin {"HCP_PIPE_BUF_ADDR_STATE", "VDENC_PIPE_BUF_ADDR_STATE"}
  BY <1>3, FoundApart
<1>5. ASSUME NEW e \in {62, 65}, c.target = v + e PROVE FALSE
  <2>1. e \in Nat /\ e < 71
    OBVIOUS
  <2>2. PacketAt(n, c.target) = Place(b)[11]
    BY <1>5, <2>1, ScratchFields
  <2>3. QED
    BY <1>4, <2>2, FoundApart
<1>6. ASSUME NEW k \in 1..6, c.target = p + ScratchDwords[k] PROVE FALSE
  <2>1. ScratchDwords[k] \in Nat /\ ScratchDwords[k] < 121
    BY DEF ScratchDwords
  <2>2. PacketAt(n, c.target) = Place(b)[5]
    BY <1>6, <2>1, ScratchFields
  <2>3. QED
    BY <1>4, <2>2, FoundApart
<1>7. ~ IsRow(n, c.target)
  BY <1>4 DEF IsRow
<1>8. QED
  BY <1>5, <1>6, <1>7 DEF Free, Hits

\* The entries of a rewritten table that one of the buffers would be bound to.
Hitting(n, S) == {r \in S : \E k \in 1..6 : Hits(n, r, k)}
HitsOnce(n, S) == \A k \in 1..6 : \A r, q \in S : Hits(n, r, k) /\ Hits(n, q, k) => r = q
EachHit(n, S) == \A k \in 1..6 : \E r \in S : Hits(n, r, k)
\* The count of those entries tells which they are.
HitsTell(n, S) ==
    /\ Cardinality(Hitting(n, S)) \notin {8, 11}
    /\ Cardinality(Hitting(n, S)) = 6 => EachHit(n, S)

\* One entry is bound to one buffer.
LEMMA HitsOne ==
    ASSUME NEW b, Driven(b), NEW n, n = Rebuilt(b), NEW r, NEW j \in 1..6, NEW k \in 1..6,
           Hits(n, r, j), Hits(n, r, k)
    PROVE  j = k
<1> DEFINE p == Pipe(n, "HCP_PIPE_BUF_ADDR_STATE")
<1>1. p \in Nat
  <2>1. 5 \in DOMAIN b /\ p = n[Place(b)[5]].at /\ n[Place(b)[5]] \in Packet
    BY RebuiltFacts
  <2>2. QED
    BY <2>1 DEF Packet
<1> HIDE DEF p
<1>2. ScratchDwords[j] \in Nat /\ ScratchDwords[k] \in Nat /\ p + ScratchDwords[j] = p + ScratchDwords[k]
  BY DEF Hits, ScratchDwords, p
<1>3. ScratchDwords[j] = ScratchDwords[k]
  BY <1>1, <1>2
<1>4. QED
  BY <1>3 DEF ScratchDwords

\* Six numbers.
LEMMA SixBuffers == IsFiniteSet(1..6) /\ Cardinality(1..6) = 6
<1>1. \A m \in Int : IsFiniteSet(1..m) /\ Cardinality(1..m) = IF 1 > m THEN 0 ELSE m - 1 + 1
  BY FS_Interval
<1>2. 6 \in Int
  OBVIOUS
<1>3. IsFiniteSet(1..6) /\ Cardinality(1..6) = IF 1 > 6 THEN 0 ELSE 6 - 1 + 1
  BY <1>1, <1>2, Zenon
<1>4. QED
  BY <1>3

\* With at least one entry for each buffer and six in all, each has one.
LEMMA EachCounted ==
    ASSUME NEW b, Driven(b), NEW n, n = Rebuilt(b), NEW S, IsFiniteSet(S), EachHit(n, S),
           Cardinality(Hitting(n, S)) = 6
    PROVE  HitsOnce(n, S)
<1> DEFINE H == Hitting(n, S)
           which(r) == CHOOSE k \in 1..6 : Hits(n, r, k)
           g == [r \in H |-> which(r)]
<1>1. /\ H \subseteq S /\ \A r \in H : \E k \in 1..6 : Hits(n, r, k)
      /\ \A r \in S : \A k \in 1..6 : Hits(n, r, k) => r \in H
  BY DEF Hitting
<1>2. \A r \in H : which(r) \in 1..6 /\ Hits(n, r, which(r))
  BY <1>1
<1> HIDE DEF H, which
<1>3. g \in [H -> 1..6] /\ \A r \in H : g[r] = which(r)
  BY <1>2
<1> HIDE DEF g
<1>4. \A r \in H : \A k \in 1..6 : Hits(n, r, k) => g[r] = k
  BY <1>2, <1>3, HitsOne
<1>5. \A k \in 1..6 : \E r \in H : g[r] = k
  <2> TAKE k \in 1..6
  <2>1. PICK r \in S : Hits(n, r, k)
    BY DEF EachHit
  <2>2. QED
    BY <1>1, <1>4, <2>1
<1>6. g \in Surjection(H, 1..6)
  BY <1>3, <1>5 DEF Surjection
<1>7. IsFiniteSet(H)
  BY <1>1, FS_Subset
<1>8. Cardinality(1..6) = Cardinality(H) => g \in Injection(H, 1..6)
  BY <1>6, <1>7, FS_Surjection
<1>9. g \in Injection(H, 1..6)
  BY <1>8, SixBuffers DEF H
<1>10. \A r, q \in H : g[r] = g[q] => r = q
  BY <1>9 DEF Injection, IsInjective
<1>11. QED
  BY <1>1, <1>4, <1>10 DEF HitsOnce

\* Six hits are one for each buffer.
LEMMA HitsCounted ==
    ASSUME NEW b, Driven(b), NEW n, n = Rebuilt(b), NEW S, IsFiniteSet(S), HitsTell(n, S)
    PROVE  /\ Cardinality(Hitting(n, S)) \in Nat /\ Cardinality(Hitting(n, S)) \notin {8, 11}
           /\ Cardinality(Hitting(n, S)) = 6 => HitsOnce(n, S) /\ EachHit(n, S)
<1>1. Hitting(n, S) \subseteq S
  BY DEF Hitting
<1>2. Cardinality(Hitting(n, S)) \in Nat
  BY <1>1, FS_Subset, FS_CardinalityType
<1>3. QED
  BY <1>2, EachCounted DEF HitsTell

\* No entry binds scratch of the preparation yet.
Unbound(n, S) == \A r \in S : r.handle.slot = 0 /\ Free(n, r.target)

\* The table when the scratch is created.
LEMMA BeforeBinding ==
    ASSUME NEW b, Driven(b), NEW n, n = Rebuilt(b), NEW relocs, \A r \in relocs : Entry(b, r),
           IsFiniteSet(relocs), CountTells(relocs), AllMapped(b, Carried(b, relocs)),
           NEW w, w = rewrite_video_batch(b, Carried(b, relocs)), UvOffsets(n, w)
    PROVE  HitsTell(n, w \union Clones(n, w)) /\ Unbound(n, w \union Clones(n, w))
<1> DEFINE carried == Carried(b, relocs)
           R == w \union Clones(n, w)
<1>1. /\ carried \subseteq relocs
      /\ \A r \in carried : Entry(b, r) /\ Mapped(b[r.origin.packet], r.origin.dw)
  BY DEF Carried, AllMapped
<1>2. w = {Moved(b, r) : r \in carried}
  BY RewritingMoves
<1>3. \A r \in w : Shaped(r) /\ Fine(n, r)
  BY <1>1, <1>2, MovedEntry
<1>4. \A r \in relocs : \A k \in 1..6 : Scratchy(r, k) => r \in carried
  <2> SUFFICES ASSUME NEW r \in relocs, NEW k \in 1..6, Scratchy(r, k) PROVE ~ IsRow(b, r.target)
      BY DEF Carried
  <2>1. DwordAt(b, r.target) = r.origin.dw
    BY EntryAt DEF Driven
  <2>2. r.origin.dw = ScratchDwords[k]
    BY DEF Scratchy
  <2>3. ScratchDwords[k] \notin Range(RowDwords)
    <3>1. Range(RowDwords) = {4, 13, 22}
      BY DEF Range, RowDwords
    <3>2. QED
      BY <3>1 DEF ScratchDwords
  <2>4. QED
    BY <2>1, <2>2, <2>3 DEF IsRow
<1>5. \A r \in carried : \A k \in 1..6 : Hits(n, Moved(b, r), k) <=> Scratchy(r, k)
  BY <1>1, MovedHits
<1>6. \A c \in Clones(n, w) : \A k \in 1..6 : ~ Hits(n, c, k)
  BY <1>3, CloneMisses
<1>7. \A m \in R : \A k \in 1..6 : Hits(n, m, k) => \E r \in carried : m = Moved(b, r) /\ Scratchy(r, k)
  <2> SUFFICES ASSUME NEW m \in R, NEW k \in 1..6, Hits(n, m, k)
               PROVE  \E r \in carried : m = Moved(b, r) /\ Scratchy(r, k)
      OBVIOUS
  <2>1. m \in w
    BY <1>6
  <2>2. PICK r \in carried : m = Moved(b, r)
    BY <1>2, <2>1
  <2>3. QED
    BY <1>5, <2>2
<1>8. \A r \in w : r.handle.slot = 0 /\ Free(n, r.target)
  <2> SUFFICES ASSUME NEW r \in carried
               PROVE  Moved(b, r).handle.slot = 0 /\ Free(n, Moved(b, r).target)
      BY <1>2
  <2>1. Moved(b, r).handle = r.handle /\ Free(n, Moved(b, r).target)
    BY <1>1, MovedEntry, MovedHits
  <2>2. r.handle.slot = 0
    <3>1. r.handle \in {DriverHandle, ExtraHandle}
      BY <1>1 DEF Entry
    <3>2. DriverHandle.slot = 0 /\ ExtraHandle.slot = 0
      BY DEF DriverHandle, ExtraHandle
    <3>3. QED
      BY <3>1, <3>2
  <2>3. QED
    BY <2>1, <2>2
<1>9. Unbound(n, R)
  <2>1. \A c \in Clones(n, w) : Free(n, c.target)
    BY <1>3, CloneMisses
  <2>2. \A r \in R : \E q \in w : r.handle = q.handle
    <3>1. \A r \in carried : Entry(b, r)
      BY <1>1
    <3>2. AllMapped(b, carried) /\ w = rewrite_video_batch(b, carried)
      OBVIOUS
    <3> HIDE DEF carried
    <3>3. QED
      BY <3>1, <3>2, ClonedFine
  <2>3. QED
    BY <1>8, <2>1, <2>2 DEF Unbound
<1>10. Cardinality(Hitting(n, R)) = Cardinality(ForScratch(relocs))
  <2> DEFINE F == ForScratch(relocs)
             H == Hitting(n, R)
             f == [r \in F |-> Moved(b, r)]
  <2>1. F \subseteq relocs /\ \A r \in F : r \in carried /\ \E k \in 1..6 : Scratchy(r, k)
    BY <1>4 DEF ForScratch
  <2>2. \A r \in F : Moved(b, r) \in H
    <3> SUFFICES ASSUME NEW r \in F PROVE Moved(b, r) \in H
        OBVIOUS
    <3>1. Moved(b, r) \in R
      BY <1>2, <2>1
    <3>2. \E k \in 1..6 : Hits(n, Moved(b, r), k)
      BY <1>5, <2>1
    <3>3. QED
      BY <3>1, <3>2 DEF Hitting
  <2>3. \A m \in H : \E r \in F : m = Moved(b, r)
    <3> SUFFICES ASSUME NEW m \in H PROVE \E r \in F : m = Moved(b, r)
        OBVIOUS
    <3>1. PICK k \in 1..6 : m \in R /\ Hits(n, m, k)
      BY DEF Hitting
    <3>2. PICK r \in carried : m = Moved(b, r) /\ Scratchy(r, k)
      BY <1>7, <3>1
    <3>3. r \in F
      BY <1>1, <3>2 DEF ForScratch
    <3>4. QED
      BY <3>2, <3>3
  <2>4. ASSUME NEW r \in F, NEW q \in F, Moved(b, r) = Moved(b, q) PROVE r = q
    <3>1. /\ Entry(b, r) /\ Mapped(b[r.origin.packet], r.origin.dw)
          /\ Entry(b, q) /\ Mapped(b[q.origin.packet], q.origin.dw)
      BY <1>1, <2>1
    <3>2. /\ Moved(b, r).kind = r.kind /\ Moved(b, r).handle = r.handle /\ Moved(b, r).origin = r.origin
          /\ Moved(b, q).kind = q.kind /\ Moved(b, q).handle = q.handle /\ Moved(b, q).origin = q.origin
      BY <3>1, MovedEntry
    <3>3. r.kind = q.kind /\ r.handle = q.handle /\ r.origin = q.origin
      BY <2>4, <3>2
    <3>4. QED
      BY <3>1, <3>3 DEF Entry
  <2> HIDE DEF F, H
  <2>5. f \in Surjection(F, H) /\ f \in Injection(F, H)
    <3>1. f \in [F -> H] /\ \A r \in F : f[r] = Moved(b, r)
      BY <2>2
    <3> HIDE DEF f
    <3>2. QED
      BY <2>3, <2>4, <3>1 DEF Surjection, Injection, IsInjective
  <2>6. IsFiniteSet(F)
    BY <2>1, FS_Subset
  <2> HIDE DEF f
  <2>7. Cardinality(H) = Cardinality(F)
    BY <2>5, <2>6, FS_Surjection
  <2>8. QED
    BY <2>7 DEF F, H
<1>11. ASSUME \A k \in 1..6 : \E r \in relocs : Scratchy(r, k) PROVE EachHit(n, R)
  <2> SUFFICES ASSUME NEW k \in 1..6 PROVE \E m \in R : Hits(n, m, k)
      BY DEF EachHit
  <2>1. PICK r \in relocs : Scratchy(r, k)
    BY <1>11
  <2>2. r \in carried
    BY <1>4, <2>1
  <2>3. Hits(n, Moved(b, r), k) /\ Moved(b, r) \in R
    BY <1>2, <1>5, <2>1, <2>2
  <2>4. QED
    BY <2>3
<1> HIDE DEF R
<1>12. HitsTell(n, R)
  BY <1>10, <1>11 DEF HitsTell, CountTells
<1>13. QED
  BY <1>9, <1>12 DEF R

\* The DWORDs of the scratch buffers in their packets.
PlaceDwords == <<7, 10, 16, 19, 25, 28, 62, 65, 4, 13, 22>>

\* Where the scratch buffers are bound: eleven DWORDs of two packets.
LEMMA PlaceWhere ==
    ASSUME NEW b, Driven(b), NEW n, n = Rebuilt(b), NEW k \in 1..11
    PROVE  /\ ScratchPlace(n, k) \in ScratchTargets(n)
           /\ DwordAt(n, ScratchPlace(n, k)) = PlaceDwords[k]
           /\ PacketAt(n, ScratchPlace(n, k)) = IF k \in {7, 8} THEN Place(b)[11] ELSE Place(b)[5]
           /\ IsRow(n, ScratchPlace(n, k)) <=> k > 8
<1> DEFINE p == Pipe(n, "HCP_PIPE_BUF_ADDR_STATE")
           v == Pipe(n, "VDENC_PIPE_BUF_ADDR_STATE")
           d == PlaceDwords[k]
<1>1. n[Place(b)[5]].cmd = "HCP_PIPE_BUF_ADDR_STATE" /\ n[Place(b)[11]].cmd = "VDENC_PIPE_BUF_ADDR_STATE"
  BY FoundApart
<1>2. Range(RowDwords) = {4, 13, 22}
  BY DEF Range, RowDwords
<1>3. CASE k \in {7, 8}
  <2>1. ScratchPlace(n, k) = v + d /\ d \in {62, 65}
    BY <1>3 DEF ScratchPlace, PlaceDwords
  <2>2. d \in Nat /\ d < 71
    BY <2>1
  <2> HIDE DEF d
  <2>3. PacketAt(n, v + d) = Place(b)[11] /\ DwordAt(n, v + d) = d
    BY <2>2, ScratchFields
  <2>4. v + d \in ScratchTargets(n)
    BY <2>1 DEF ScratchTargets
  <2> HIDE DEF v
  <2>5. ~ IsRow(n, v + d)
    BY <1>1, <2>3 DEF IsRow
  <2>6. QED
    BY <1>3, <2>1, <2>3, <2>4, <2>5 DEF d
<1>4. CASE k \notin {7, 8}
  <2>1. ScratchPlace(n, k) = p + d /\ d \in {4, 7, 10, 13, 16, 19, 22, 25, 28}
    BY <1>4 DEF ScratchPlace, PlaceDwords, ScratchDwords, RowDwords
  <2>2. d \in Nat /\ d < 121
    BY <2>1
  <2>3. d \in {4, 13, 22} <=> k > 8
    BY <1>4 DEF PlaceDwords
  <2> HIDE DEF d
  <2>4. PacketAt(n, p + d) = Place(b)[5] /\ DwordAt(n, p + d) = d
    BY <2>2, ScratchFields
  <2>5. p + d \in ScratchTargets(n)
    BY <2>1 DEF ScratchTargets
  <2> HIDE DEF p
  <2>6. IsRow(n, p + d) <=> k > 8
    BY <1>1, <1>2, <2>3, <2>4 DEF IsRow
  <2>7. QED
    BY <1>4, <2>1, <2>4, <2>5, <2>6 DEF d
<1>5. QED
  BY <1>3, <1>4

\* No two buffers are bound at one DWORD.
LEMMA PlacesApart ==
    ASSUME NEW b, Driven(b), NEW n, n = Rebuilt(b), NEW j \in 1..11, NEW k \in 1..11,
           ScratchPlace(n, j) = ScratchPlace(n, k)
    PROVE  j = k
<1>1. PlaceDwords[j] = PlaceDwords[k]
  BY PlaceWhere
<1>2. QED
  BY <1>1 DEF PlaceDwords

\* An entry at the place of the k-th buffer.
AtPlace(n, r, k) == r.target = ScratchPlace(n, k) /\ r.kind = "address"
Handle(k, t) == [slot |-> k, try |-> t]

\* The first m buffers of the preparation t are bound, each once, and no other.
Bindings(n, S, m, t) ==
    /\ \A k \in 1..m : \E r \in S : AtPlace(n, r, k)
    /\ \A k \in 1..m : \A r, q \in S : AtPlace(n, r, k) /\ AtPlace(n, q, k) => r = q
    /\ \A k \in 1..m : \A r \in S : AtPlace(n, r, k) => r.handle = Handle(k, t)
    /\ \A r \in S : r.handle.slot # 0 => \E k \in 1..m : AtPlace(n, r, k)

\* Binding the scratch that the driver binds too.
LEMMA SixBound ==
    ASSUME NEW b, Driven(b), NEW n, n = Rebuilt(b), NEW S,
           \A r \in S : Shaped(r) /\ Fine(n, r), Unbound(n, S),
           HitsOnce(n, S), EachHit(n, S)
    PROVE  Bindings(n, {Rebound(n, r) : r \in S}, 6, tries)
<1> DEFINE T == {Rebound(n, r) : r \in S}
<1>1. \A k \in 1..6 : ScratchPlace(n, k) = Pipe(n, "HCP_PIPE_BUF_ADDR_STATE") + ScratchDwords[k]
  BY DEF ScratchPlace
<1>2. \A r \in S : \A k \in 1..6 : AtPlace(n, Rebound(n, r), k) <=> Hits(n, r, k)
  <2> TAKE r \in S
  <2>1. Rebound(n, r).target = r.target /\ Rebound(n, r).kind = r.kind
    BY ReboundEntry
  <2>2. QED
    BY <1>1, <2>1 DEF AtPlace, Hits
<1>3. ASSUME NEW r \in S, NEW k \in 1..6, Hits(n, r, k) PROVE Rebound(n, r).handle = Handle(k, tries)
  <2> DEFINE j == CHOOSE i \in 1..6 : Hits(n, r, i)
  <2>1. j \in 1..6 /\ Hits(n, r, j)
    BY <1>3
  <2>2. j = k
    BY <1>3, <2>1, HitsOne
  <2>3. Rebound(n, r) = [r EXCEPT !.handle = Slot(j)]
    BY <1>3 DEF Rebound
  <2> HIDE DEF j
  <2>4. Rebound(n, r) = [target |-> r.target, kind |-> r.kind, handle |-> Slot(j), origin |-> r.origin, id |-> r.id]
    BY <2>3 DEF Shaped
  <2>5. QED
    BY <2>2, <2>4 DEF Slot, Handle
<1>4. ASSUME NEW r \in S, ~ \E k \in 1..6 : Hits(n, r, k) PROVE Rebound(n, r).handle.slot = 0
  BY <1>4 DEF Rebound, Unbound
<1>5. \A k \in 1..6 : \E q \in T : AtPlace(n, q, k)
  BY <1>2 DEF EachHit
<1>6. \A k \in 1..6 : \A q, s \in T : AtPlace(n, q, k) /\ AtPlace(n, s, k) => q = s
  BY <1>2 DEF HitsOnce
<1>7. \A k \in 1..6 : \A q \in T : AtPlace(n, q, k) => q.handle = Handle(k, tries)
  BY <1>2, <1>3
<1>8. \A q \in T : q.handle.slot # 0 => \E k \in 1..6 : AtPlace(n, q, k)
  BY <1>2, <1>4
<1> HIDE DEF T
<1>9. Bindings(n, T, 6, tries)
  BY <1>5, <1>6, <1>7, <1>8 DEF Bindings
<1>10. QED
  BY <1>9 DEF T

\* Binding more scratch, at places that are free.
LEMMA MoreBound ==
    ASSUME NEW b, Driven(b), NEW n, n = Rebuilt(b), NEW S, NEW m \in 0..11, NEW e \in 0..11, m <= e,
           Bindings(n, S, m, tries),
           \A r \in S : \A k \in (m + 1)..e : r.target # ScratchPlace(n, k),
           NEW A, A = {Bound(ScratchPlace(n, k), k) : k \in (m + 1)..e}
    PROVE  Bindings(n, S \union A, e, tries)
<1> DEFINE T == S \union A
           new(k) == Bound(ScratchPlace(n, k), k)
<1>1. \A k \in (m + 1)..e : new(k).target = ScratchPlace(n, k) /\ new(k).kind = "address"
                            /\ new(k).handle = Handle(k, tries)
  BY DEF Bound, Reloc, Slot, Handle
<1>2. /\ \A q \in A : \E k \in (m + 1)..e : q = new(k)
      /\ \A k \in (m + 1)..e : new(k) \in A
  OBVIOUS
<1> HIDE DEF new
<1>3. \A k \in 1..e : k \in 1..m \/ k \in (m + 1)..e
  OBVIOUS
<1>4. \A k \in 1..e : k \in 1..11
  OBVIOUS
<1>5. \A q \in A : \A k \in 1..e : AtPlace(n, q, k) => k \in (m + 1)..e /\ q = new(k)
  <2> SUFFICES ASSUME NEW q \in A, NEW k \in 1..e, AtPlace(n, q, k) PROVE k \in (m + 1)..e /\ q = new(k)
      OBVIOUS
  <2>1. PICK j \in (m + 1)..e : q = new(j)
    BY <1>2
  <2>2. ScratchPlace(n, j) = ScratchPlace(n, k)
    BY <1>1, <2>1 DEF AtPlace
  <2>3. j \in 1..11 /\ k \in 1..11
    BY <1>4
  <2>4. j = k
    BY <2>2, <2>3, PlacesApart
  <2>5. QED
    BY <2>1, <2>4
<1>6. \A r \in S : \A k \in (m + 1)..e : ~ AtPlace(n, r, k)
  BY DEF AtPlace
<1>7. \A k \in 1..e : \E r \in T : AtPlace(n, r, k)
  <2> TAKE k \in 1..e
  <2>1. CASE k \in 1..m
    BY <2>1 DEF Bindings
  <2>2. CASE k \in (m + 1)..e
    BY <1>1, <1>2, <2>2 DEF AtPlace
  <2>3. QED
    BY <1>3, <2>1, <2>2
<1>8. \A k \in 1..e : \A r, q \in T : AtPlace(n, r, k) /\ AtPlace(n, q, k) => r = q
  <2> SUFFICES ASSUME NEW k \in 1..e, NEW r \in T, NEW q \in T, AtPlace(n, r, k), AtPlace(n, q, k)
               PROVE  r = q
      OBVIOUS
  <2>1. CASE k \in 1..m
    <3>1. k \notin (m + 1)..e
      BY <2>1
    <3>2. r \in S /\ q \in S
      BY <1>5, <3>1
    <3>3. QED
      BY <2>1, <3>2 DEF Bindings
  <2>2. CASE k \in (m + 1)..e
    <3>1. r \in A /\ q \in A
      BY <1>6, <2>2
    <3>2. QED
      BY <1>5, <3>1
  <2>3. QED
    BY <1>3, <2>1, <2>2
<1>9. \A k \in 1..e : \A r \in T : AtPlace(n, r, k) => r.handle = Handle(k, tries)
  <2> SUFFICES ASSUME NEW k \in 1..e, NEW r \in T, AtPlace(n, r, k) PROVE r.handle = Handle(k, tries)
      OBVIOUS
  <2>1. CASE r \in A
    BY <1>1, <1>5, <2>1
  <2>2. CASE r \in S
    BY <1>3, <1>6, <2>2 DEF Bindings
  <2>3. QED
    BY <2>1, <2>2
<1>10. \A r \in T : r.handle.slot # 0 => \E k \in 1..e : AtPlace(n, r, k)
  <2> SUFFICES ASSUME NEW r \in T, r.handle.slot # 0 PROVE \E k \in 1..e : AtPlace(n, r, k)
      OBVIOUS
  <2>1. CASE r \in A
    <3>1. PICK k \in (m + 1)..e : r = new(k)
      BY <1>2, <2>1
    <3>2. AtPlace(n, r, k) /\ k \in 1..e
      BY <1>1, <3>1 DEF AtPlace
    <3>3. QED
      BY <3>2
  <2>2. CASE r \in S
    <3>1. PICK k \in 1..m : AtPlace(n, r, k)
      BY <2>2 DEF Bindings
    <3>2. k \in 1..e
      OBVIOUS
    <3>3. QED
      BY <3>1, <3>2
  <2>3. QED
    BY <2>1, <2>2
<1> HIDE DEF T
<1>11. Bindings(n, T, e, tries)
  BY <1>7, <1>8, <1>9, <1>10 DEF Bindings
<1>12. QED
  BY <1>11 DEF T

\* The first c buffers of the preparation t.
Scratches(c, t) == {Handle(k, t) : k \in 1..c}

\* They are as many as that.
LEMMA ScratchCount ==
    ASSUME NEW c \in Nat, NEW t
    PROVE  Cardinality(Scratches(c, t)) = c
<1> DEFINE T == Scratches(c, t)
           f == [k \in 1..c |-> Handle(k, t)]
<1>1. f \in Surjection(1..c, T)
  BY DEF Surjection, Scratches
<1>2. f \in Injection(1..c, T)
  BY DEF Injection, IsInjective, Scratches, Handle
<1>3. IsFiniteSet(1..c) /\ Cardinality(1..c) = c
  <2>1. \A m \in Int : IsFiniteSet(1..m) /\ Cardinality(1..m) = IF 1 > m THEN 0 ELSE m - 1 + 1
    BY FS_Interval
  <2>2. c \in Int
    OBVIOUS
  <2>3. IsFiniteSet(1..c) /\ Cardinality(1..c) = IF 1 > c THEN 0 ELSE c - 1 + 1
    BY <2>1, <2>2, Zenon
  <2>4. QED
    BY <2>3
<1> HIDE DEF f, T
<1>4. Cardinality(T) = Cardinality(1..c)
  BY <1>1, <1>2, <1>3, FS_Surjection
<1>5. QED
  BY <1>3, <1>4 DEF T

Unmade == {"check", "convert", "rewrite", "clone", "returned"}

\* The scratch is made one buffer after the other.
ScratchMade ==
    /\ pc \in Unmade => scratch = {}
    /\ pc = "create" => \E c \in Nat : scratch = Scratches(c, tries)
    /\ pc \in {"rebind", "bind", "rows", "execute"} => scratch = Scratches(RequiredScratch, tries)
    /\ pc = "finish" /\ Cardinality(scratch) = RequiredScratch =>
          scratch = Scratches(RequiredScratch, tries)

\* A count of m bindings is a binding of each of the first m buffers.
TableBound(n, S, m) == rebound = m => Bindings(n, S, m, tries)

\* The count of the bindings says which buffers are bound.
BindingsMade(n) ==
    /\ pc \in Unmade \ {"returned"} => rebound = 0
    /\ pc = "clone" => work.rows = "chip"
    /\ pc \in {"create", "rebind"} =>
          rebound = 0 /\ work.rows = "chip" /\ HitsTell(n, work.relocs) /\ Unbound(n, work.relocs)
    /\ pc = "bind" =>
          /\ rebound \in Nat /\ rebound \notin {8, 11} /\ work.rows = "chip"
          /\ TableBound(n, work.relocs, 6)
          /\ \A r \in work.relocs : Free(n, r.target)
    /\ pc = "rows" =>
          /\ rebound \in Nat /\ rebound # 11 /\ work.rows = "chip"
          /\ TableBound(n, work.relocs, 8)
          /\ \A r \in work.relocs : ~ IsRow(n, r.target)
    /\ pc \in {"finish", "execute"} =>
          /\ rebound = 8 => work.rows = "chip" /\ \A r \in work.relocs : ~ IsRow(n, r.target)
          /\ rebound = 11 => work.rows = "memory"
          /\ TableBound(n, work.relocs, 8) /\ TableBound(n, work.relocs, 11)
    /\ pc = "execute" => rebound = RequiredScratch

Scratched(b) == CountTells(input.relocs) /\ ScratchMade /\ BindingsMade(Rebuilt(b))

-----------------------------------------------------------------------------
\* How wide the frame is and what table it came with do not change.
LEMMA FrameKept ==
    ASSUME InputShape, [Next]_vars
    PROVE  input'.relocs = input.relocs /\ input'.wide = input.wide
<1>1. CASE UNCHANGED input
  BY <1>1
<1>2. CASE Finish /\ input' = [input EXCEPT !.used = Used(work.batch)]
  <2> DEFINE u == Used(work.batch)
  <2> HIDE DEF u
  <2>1. input' = [input EXCEPT !.used = u]
    BY <1>2 DEF u
  <2>2. input' = [wide |-> input.wide, supported |-> input.supported, relocs |-> input.relocs,
                  used |-> u, capacity |-> input.capacity, words |-> input.words]
    BY <2>1 DEF InputShape
  <2>3. QED
    BY <2>2
<1>3. QED
  BY <1>1, <1>2 DEF Next, vars, Check, Convert, Rewrite, Clone, Create, Created, Rebind, Bind,
        BindRows, Finish, Execute, Resubmit, Reject, Continue, Abandon

\* Whatever the table, the scratch is made one buffer after the other and
\* belongs to the preparation until it is executed or the preparation ends.
LEMMA ScratchMadeNext ==
    ASSUME InputShape, ScratchMade, [Next]_vars
    PROVE  ScratchMade'
<1>1. RequiredScratch' = RequiredScratch
  BY FrameKept DEF RequiredScratch
<1>2. CASE Check \/ Convert \/ Rewrite
  BY <1>2 DEF Check, Convert, Rewrite, Reject, Continue, ScratchMade, Unmade
<1>3. CASE Clone
  <2>1. pc = "clone" /\ scratch = {} /\ scratch' = scratch /\ tries' = tries /\ pc' \in {"create", "returned"}
    BY <1>3 DEF Clone, Reject, Continue, ScratchMade, Unmade
  <2>2. Scratches(0, tries) = {}
    BY DEF Scratches
  <2>3. QED
    BY <2>1, <2>2 DEF ScratchMade, Unmade
<1>4. CASE Create \/ Created
  <2>1. pc = "create" /\ tries' = tries /\ pc' \in {"create", "rebind", "finish"}
    BY <1>4 DEF Create, Created, Continue
  <2>2. PICK c \in Nat : scratch = Scratches(c, tries)
    BY <2>1 DEF ScratchMade
  <2>3. Cardinality(scratch) = c
    BY <2>2, ScratchCount
  <2>4. CASE pc' = "create"
    <3>1. scratch' = scratch \union {Handle(c + 1, tries)}
      BY <1>4, <2>3, <2>4 DEF Create, Created, Continue, Handle
    <3>2. \A k : k \in 1..(c + 1) <=> k \in 1..c \/ k = c + 1
      OBVIOUS
    <3>3. scratch' = Scratches(c + 1, tries)
      BY <2>2, <3>1, <3>2 DEF Scratches
    <3>4. c + 1 \in Nat
      OBVIOUS
    <3>5. QED
      BY <2>1, <2>4, <3>3, <3>4 DEF ScratchMade, Unmade
  <2>5. CASE pc' \in {"rebind", "finish"}
    <3>1. scratch' = scratch
      BY <1>4, <2>5 DEF Create, Created, Continue
    <3>2. pc' = "rebind" => c = RequiredScratch
      BY <1>4, <2>3 DEF Create, Created, Continue
    <3>3. Cardinality(scratch') = RequiredScratch => scratch' = Scratches(RequiredScratch, tries)
      BY <2>2, <2>3, <3>1
    <3>4. pc' = "rebind" => scratch' = Scratches(RequiredScratch, tries)
      BY <2>2, <3>1, <3>2
    <3>5. QED
      BY <1>1, <2>1, <2>5, <3>3, <3>4 DEF ScratchMade, Unmade
  <2>6. QED
    BY <2>1, <2>4, <2>5
<1>5. CASE Rebind \/ Bind
  BY <1>1, <1>5 DEF Rebind, Bind, ScratchMade, Unmade
<1>6. CASE BindRows
  BY <1>1, <1>6 DEF BindRows, Abandon, ScratchMade, Unmade
<1>7. CASE Finish
  <2>1. pc = "finish" /\ tries' = tries
    BY <1>7 DEF Finish
  <2>2. CASE Abandon
    BY <2>2 DEF Abandon, ScratchMade, Unmade
  <2>3. CASE AllBound /\ pc' = "execute" /\ scratch' = scratch
    BY <1>1, <2>1, <2>3 DEF AllBound, ScratchMade, Unmade
  <2>4. QED
    BY <1>7, <2>2, <2>3 DEF Finish
<1>8. CASE Execute
  BY <1>8 DEF Execute, ScratchMade, Unmade
<1>9. CASE Resubmit
  BY <1>9 DEF Resubmit, ScratchMade, Unmade
<1>10. CASE UNCHANGED vars
  BY <1>1, <1>10 DEF vars, ScratchMade
<1>11. QED
  BY <1>2, <1>3, <1>4, <1>5, <1>6, <1>7, <1>8, <1>9, <1>10 DEF Next

-----------------------------------------------------------------------------
\* Nothing is made or bound at first.
LEMMA ScratchedInit ==
    ASSUME Init, NEW b
    PROVE  ScratchMade /\ BindingsMade(Rebuilt(b))
<1>1. pc = "check" /\ scratch = {} /\ rebound = 0
  BY DEF Init
<1>2. ScratchMade
  BY <1>1 DEF ScratchMade, Unmade
<1>3. BindingsMade(Rebuilt(b))
  BY <1>1 DEF BindingsMade, Unmade
<1>4. QED
  BY <1>2, <1>3

\* A preparation that ends has destroyed what it made, or handed it over.
LEMMA ScratchEnded ==
    ASSUME NEW b, Scratched(b), pc' = "returned", scratch' = {}, input'.relocs = input.relocs
    PROVE  Scratched(b)'
<1>1. ScratchMade'
  BY DEF ScratchMade, Unmade
<1>2. BindingsMade(Rebuilt(b))'
  BY DEF BindingsMade, Unmade
<1>3. QED
  BY <1>1, <1>2 DEF Scratched

\* The steps before the rewritten batch is added to.
LEMMA ScratchedEarly ==
    ASSUME NEW b, Driven(b), Prepared(b), Scratched(b), Check \/ Convert \/ Rewrite
    PROVE  Scratched(b)'
<1>1. /\ pc \in Unmade \ {"returned"} /\ UNCHANGED <<input, scratch, rebound>>
      /\ pc' \in Unmade
  BY DEF Check, Convert, Rewrite, Reject, Continue, Unmade
<1>2. scratch = {} /\ rebound = 0
  BY <1>1 DEF Scratched, ScratchMade, BindingsMade, Unmade
<1>3. pc' = "clone" => work'.rows = "chip"
  <2> SUFFICES ASSUME pc' = "clone" PROVE work'.rows = "chip"
      OBVIOUS
  <2>1. /\ pc = "rewrite"
        /\ work' = [work EXCEPT !.batch = Rebuilt(@),
                                !.relocs = rewrite_video_batch(work.batch, @)]
    BY DEF Check, Convert, Rewrite, Reject, Continue
  <2>2. work = [batch |-> b, relocs |-> Carried(b, input.relocs), rows |-> "chip"]
    BY <2>1 DEF Prepared
  <2> DEFINE x == Rebuilt(work.batch)
             y == rewrite_video_batch(work.batch, work.relocs)
  <2>3. work' = [work EXCEPT !.batch = x, !.relocs = y]
    BY <2>1, <2>2
  <2> HIDE DEF x, y
  <2>4. QED
    BY <2>2, <2>3
<1>4. ScratchMade'
  BY ScratchMadeNext DEF Prepared, Scratched, Next
<1>5. BindingsMade(Rebuilt(b))'
  BY <1>1, <1>2, <1>3 DEF BindingsMade, Unmade
<1>6. QED
  BY <1>1, <1>4, <1>5 DEF Scratched

\* The table is complete but for the scratch.
LEMMA ScratchedClone ==
    ASSUME NEW b, Driven(b), Prepared(b), Scratched(b), Clone
    PROVE  Scratched(b)'
<1>1. CASE Reject
  <2>1. pc = "clone" /\ pc' = "returned" /\ UNCHANGED <<input, scratch>>
    BY <1>1 DEF Clone, Reject
  <2>2. scratch = {}
    BY <2>1 DEF Scratched, ScratchMade, Unmade
  <2>3. QED
    BY <2>1, <2>2, ScratchEnded
<1>2. CASE ~ Reject
  <2> DEFINE n == Rebuilt(b)
             w == work.relocs
             R == w \union Clones(n, w)
  <2>1. pc = "clone" /\ pc \in RewrittenSteps
    BY DEF Clone, RewrittenSteps
  <2>2. /\ work = [batch |-> n, relocs |-> w, rows |-> work.rows]
        /\ w = rewrite_video_batch(b, Carried(b, input.relocs))
        /\ AllMapped(b, Carried(b, input.relocs))
        /\ IsFiniteSet(input.relocs) /\ \A r \in input.relocs : Entry(b, r)
    BY <2>1 DEF Prepared
  <2>3. UvOffsets(n, w) /\ Continue("create") /\ work' = [work EXCEPT !.relocs = @ \union Clones(n, w)]
    BY <1>2, <2>2 DEF Clone, UvOffsets
  <2>4. CountTells(input.relocs) /\ rebound = 0 /\ work.rows = "chip"
    BY <2>1 DEF Scratched, BindingsMade, Unmade
  <2>5. HitsTell(n, R) /\ Unbound(n, R)
    BY <2>2, <2>3, <2>4, BeforeBinding
  <2>6. work'.relocs = R /\ work'.rows = "chip"
    <3>1. work' = [work EXCEPT !.relocs = R]
      BY <2>3
    <3> HIDE DEF R, n, w
    <3>2. QED
      BY <2>2, <2>4, <3>1
  <2>7. pc' = "create" /\ UNCHANGED <<input, scratch, rebound, tries>>
    BY <2>3 DEF Continue
  <2> HIDE DEF R, n
  <2>8. ScratchMade'
    BY ScratchMadeNext DEF Prepared, Scratched, Next
  <2>9. BindingsMade(n)'
    <3>1. n' = n
      BY DEF n
    <3>2. QED
      BY <2>4, <2>5, <2>6, <2>7 DEF BindingsMade, Unmade
  <2>10. QED
    BY <2>4, <2>7, <2>8, <2>9 DEF Scratched, n
<1>3. QED
  BY <1>1, <1>2

\* The creation ends with what was made, one buffer after the other.
LEMMA ScratchedCreate ==
    ASSUME NEW b, Driven(b), Prepared(b), Scratched(b), Create \/ Created
    PROVE  Scratched(b)'
<1>1. /\ pc = "create" /\ UNCHANGED <<input, work, rebound, tries>>
      /\ pc' \in {"create", "rebind", "finish"}
  BY DEF Create, Created, Continue
<1>2. /\ CountTells(input.relocs) /\ rebound = 0 /\ work.rows = "chip"
      /\ HitsTell(Rebuilt(b), work.relocs) /\ Unbound(Rebuilt(b), work.relocs)
  BY <1>1 DEF Scratched, BindingsMade
<1>3. BindingsMade(Rebuilt(b))'
  <2> DEFINE n == Rebuilt(b)
  <2>1. n' = n
    OBVIOUS
  <2> HIDE DEF n
  <2>2. CASE pc' \in {"create", "rebind"}
    BY <1>1, <1>2, <2>1, <2>2 DEF BindingsMade, Unmade, n
  <2>3. CASE pc' = "finish"
    BY <1>1, <1>2, <2>1, <2>3 DEF BindingsMade, TableBound, Unmade, n
  <2>4. QED
    BY <1>1, <2>2, <2>3 DEF n
<1>4. ScratchMade'
  BY ScratchMadeNext DEF Prepared, Scratched, Next
<1>5. QED
  BY <1>1, <1>2, <1>3, <1>4 DEF Scratched

\* Six hits, each on a buffer of its own.
LEMMA ScratchedRebind ==
    ASSUME NEW b, Driven(b), Prepared(b), Scratched(b), Rebind
    PROVE  Scratched(b)'
<1> DEFINE n == Rebuilt(b)
           w == work.relocs
           R == {Rebound(n, r) : r \in w}
<1>1. pc = "rebind" /\ pc' = "bind" /\ pc \in RewrittenSteps /\ pc \in ClonedSteps
      /\ UNCHANGED <<input, scratch, tries>>
  BY DEF Rebind, RewrittenSteps, ClonedSteps
<1>2. /\ work = [batch |-> n, relocs |-> w, rows |-> work.rows] /\ IsFiniteSet(w)
      /\ \A r \in w : Shaped(r) /\ Fine(n, r)
  BY <1>1 DEF Prepared
<1>3. /\ CountTells(input.relocs) /\ rebound = 0 /\ work.rows = "chip"
      /\ HitsTell(n, w) /\ Unbound(n, w)
  BY <1>1 DEF Scratched, BindingsMade
<1>4. work' = [work EXCEPT !.relocs = R] /\ rebound' = rebound + Cardinality(Hitting(n, w))
  <2>1. work.batch = n
    BY <1>2
  <2>2. QED
    BY <2>1 DEF Rebind, Rebound, Hits, Hitting
<1>5. /\ Cardinality(Hitting(n, w)) \in Nat /\ Cardinality(Hitting(n, w)) \notin {8, 11}
      /\ Cardinality(Hitting(n, w)) = 6 => HitsOnce(n, w) /\ EachHit(n, w)
  BY <1>2, <1>3, HitsCounted
<1>6. rebound' = Cardinality(Hitting(n, w))
  <2> HIDE DEF n, w
  <2>1. QED
    BY <1>3, <1>4, <1>5
<1>7. rebound' = 6 => Bindings(n, R, 6, tries)
  BY <1>2, <1>3, <1>5, <1>6, SixBound
<1>8. \A r \in R : Free(n, r.target)
  BY <1>2, <1>3, ReboundEntry DEF Unbound
<1> HIDE DEF R
<1>9. work'.relocs = R /\ work'.rows = "chip"
  <2> HIDE DEF n, w
  <2>1. QED
    BY <1>2, <1>3, <1>4
<1>10. ScratchMade'
  BY ScratchMadeNext DEF Prepared, Scratched, Next
<1>11. BindingsMade(n)'
  <2>1. n' = n /\ tries' = tries
    BY <1>1
  <2>2. rebound' \in Nat /\ rebound' \notin {8, 11}
    BY <1>5, <1>6
  <2> HIDE DEF n, w
  <2>3. TableBound(n, work.relocs, 6)'
    BY <1>7, <1>9, <2>1 DEF TableBound
  <2>4. (\A r \in work.relocs : Free(n, r.target))'
    BY <1>8, <1>9, <2>1 DEF Free
  <2>5. QED
    BY <1>1, <1>9, <2>2, <2>3, <2>4 DEF BindingsMade, Unmade
<1>12. QED
  BY <1>1, <1>3, <1>10, <1>11 DEF Scratched

\* With the six there are eight, and no other number of hits makes eight.
LEMMA ScratchedBind ==
    ASSUME NEW b, Driven(b), Prepared(b), Scratched(b), Bind
    PROVE  Scratched(b)'
<1> DEFINE n == Rebuilt(b)
           v == Pipe(n, "VDENC_PIPE_BUF_ADDR_STATE")
           w == work.relocs
           A == {Bound(v + 62, 7), Bound(v + 65, 8)}
<1>1. pc = "bind" /\ pc' = "rows" /\ pc \in RewrittenSteps /\ UNCHANGED <<input, scratch, tries>>
  BY DEF Bind, RewrittenSteps, ClonedSteps
<1>2. work = [batch |-> n, relocs |-> w, rows |-> work.rows]
  BY <1>1 DEF Prepared
<1>3. /\ CountTells(input.relocs) /\ work.rows = "chip" /\ rebound \in Nat /\ rebound \notin {8, 11}
      /\ rebound = 6 => Bindings(n, w, 6, tries)
      /\ \A r \in w : Free(n, r.target)
  BY <1>1 DEF Scratched, BindingsMade, TableBound
<1>4. ScratchMade'
  BY ScratchMadeNext DEF Prepared, Scratched, Next
<1>5. SUFFICES BindingsMade(n)'
  BY <1>1, <1>3, <1>4 DEF Scratched
<1>6. CASE UNCHANGED <<work, rebound>>
  <2>1. \A r \in w : ~ IsRow(n, r.target)
    BY <1>3 DEF Free
  <2>2. rebound' \notin {8, 11} /\ rebound' \in Nat
    BY <1>3, <1>6
  <2> HIDE DEF n
  <2>3. n' = n
    BY DEF n
  <2>4. (\A r \in work.relocs : ~ IsRow(n, r.target))'
    BY <1>6, <2>1, <2>3 DEF IsRow
  <2>5. work'.rows = "chip"
    BY <1>3, <1>6
  <2>6. QED
    BY <1>1, <2>2, <2>4, <2>5 DEF BindingsMade, TableBound, Unmade
<1>7. CASE ~ UNCHANGED <<work, rebound>>
  <2> DEFINE R == w \union A
  <2>1. rebound = 6 /\ work' = [work EXCEPT !.relocs = R] /\ rebound' = rebound + 2
    <3>1. work.batch = n
      BY <1>2
    <3>2. QED
      BY <1>7, <3>1 DEF Bind
  <2>2. /\ ScratchPlace(n, 7) = v + 62 /\ ScratchPlace(n, 8) = v + 65
    BY DEF ScratchPlace
  <2>3. A = {Bound(ScratchPlace(n, k), k) : k \in (6 + 1)..8}
    <3>1. \A k : k \in (6 + 1)..8 <=> k = 7 \/ k = 8
      OBVIOUS
    <3> HIDE DEF n, v
    <3>2. QED
      BY <2>2, <3>1
  <2>4. \A r \in w : \A k \in (6 + 1)..8 : r.target # ScratchPlace(n, k)
    <3>1. \A r \in w : r.target # v + 62 /\ r.target # v + 65
      BY <1>3 DEF Free
    <3>2. \A k : k \in (6 + 1)..8 <=> k = 7 \/ k = 8
      OBVIOUS
    <3> HIDE DEF n, v, w
    <3>3. QED
      BY <2>2, <3>1, <3>2
  <2>5. Bindings(n, w, 6, tries)
    BY <1>3, <2>1
  <2>6. n = Rebuilt(b) /\ 6 \in 0..11 /\ 8 \in 0..11 /\ 6 <= 8
    OBVIOUS
  <2> HIDE DEF n, w, A, v
  <2>7. Bindings(n, R, 8, tries)
    BY <2>3, <2>4, <2>5, <2>6, MoreBound DEF R
  <2>8. \A r \in R : ~ IsRow(n, r.target)
    <3>1. \A r \in A : \E k \in (6 + 1)..8 : r.target = ScratchPlace(n, k)
      BY <2>3 DEF Bound, Reloc
    <3>2. \A k \in (6 + 1)..8 : ~ IsRow(n, ScratchPlace(n, k))
      <4>1. \A k \in (6 + 1)..8 : k \in 1..11 /\ ~ (k > 8)
        OBVIOUS
      <4>2. QED
        BY <2>6, <4>1, PlaceWhere
    <3>3. \A r \in w : ~ IsRow(n, r.target)
      BY <1>3 DEF Free
    <3>4. QED
      BY <3>1, <3>2, <3>3 DEF R
  <2> HIDE DEF R
  <2>9. work'.relocs = R /\ work'.rows = "chip" /\ rebound' = 8 /\ tries' = tries
    BY <1>1, <1>2, <1>3, <2>1
  <2>10. n' = n
    BY DEF n
  <2>11. (\A r \in work.relocs : ~ IsRow(n, r.target))'
    BY <2>8, <2>9, <2>10 DEF IsRow
  <2>12. TableBound(n, work.relocs, 8)'
    BY <2>7, <2>9, <2>10 DEF TableBound
  <2>13. QED
    BY <1>1, <2>9, <2>11, <2>12 DEF BindingsMade, Unmade
<1>8. QED
  BY <1>6, <1>7

\* With the eight there are eleven, for a frame too wide for the row stores on chip.
LEMMA ScratchedBindRows ==
    ASSUME NEW b, Driven(b), Prepared(b), Scratched(b), BindRows
    PROVE  Scratched(b)'
<1> DEFINE n == Rebuilt(b)
           p == Pipe(n, "HCP_PIPE_BUF_ADDR_STATE")
           w == work.relocs
           A == {Bound(p + RowDwords[k], 8 + k) : k \in 1..3}
<1>1. pc = "rows" /\ pc \in RewrittenSteps /\ UNCHANGED <<input, client, tries>>
  BY DEF BindRows, RewrittenSteps, ClonedSteps
<1>2. work = [batch |-> n, relocs |-> w, rows |-> work.rows]
  BY <1>1 DEF Prepared
<1>3. /\ CountTells(input.relocs) /\ work.rows = "chip" /\ rebound \in Nat /\ rebound # 11
      /\ rebound = 8 => Bindings(n, w, 8, tries)
      /\ \A r \in w : ~ IsRow(n, r.target)
  BY <1>1 DEF Scratched, BindingsMade, TableBound
<1>4. CASE Abandon
  BY <1>1, <1>4, ScratchEnded DEF Abandon
<1>5. ASSUME pc' = "finish", UNCHANGED scratch, BindingsMade(n)'
      PROVE  Scratched(b)'
  <2>1. ScratchMade'
    BY ScratchMadeNext DEF Prepared, Scratched, Next
  <2>2. QED
    BY <1>1, <1>3, <1>5, <2>1 DEF Scratched
<1>6. CASE pc' = "finish" /\ UNCHANGED <<work, rebound, scratch>>
  <2> HIDE DEF n
  <2>1. n' = n /\ tries' = tries
    BY <1>1 DEF n
  <2>2. (\A r \in work.relocs : ~ IsRow(n, r.target))'
    BY <1>3, <1>6, <2>1 DEF IsRow
  <2>3. rebound' # 11 /\ work'.rows = "chip"
    BY <1>3, <1>6
  <2>4. TableBound(n, work.relocs, 8)'
    BY <1>3, <1>6, <2>1 DEF TableBound
  <2>5. BindingsMade(n)'
    BY <1>6, <2>2, <2>3, <2>4 DEF BindingsMade, TableBound, Unmade
  <2>6. QED
    BY <1>5, <1>6, <2>5
<1>7. CASE ~ Abandon /\ ~ (pc' = "finish" /\ UNCHANGED <<work, rebound, scratch>>)
  <2> DEFINE R == w \union A
  <2>1. /\ rebound = 8 /\ pc' = "finish" /\ rebound' = rebound + 3 /\ UNCHANGED scratch
        /\ work' = [work EXCEPT !.rows = "memory", !.relocs = R]
    <3>1. work.batch = n
      BY <1>2
    <3>2. QED
      BY <1>7, <3>1 DEF BindRows
  <2>2. \A j \in 1..3 : ScratchPlace(n, 8 + j) = p + RowDwords[j]
    <3>1. \A j \in 1..3 : ~ (8 + j <= 6) /\ ~ (8 + j <= 8) /\ (8 + j) - 8 = j
      OBVIOUS
    <3> HIDE DEF n
    <3>2. QED
      BY <3>1 DEF ScratchPlace
  <2>3. A = {Bound(ScratchPlace(n, k), k) : k \in (8 + 1)..11}
    <3>1. /\ \A j \in 1..3 : 8 + j \in (8 + 1)..11
          /\ \A k \in (8 + 1)..11 : k - 8 \in 1..3 /\ 8 + (k - 8) = k
      OBVIOUS
    <3> HIDE DEF n, p
    <3>2. \A j \in 1..3 : Bound(p + RowDwords[j], 8 + j) = Bound(ScratchPlace(n, 8 + j), 8 + j)
      BY <2>2
    <3>3. A \subseteq {Bound(ScratchPlace(n, k), k) : k \in (8 + 1)..11}
      BY <3>1, <3>2
    <3>4. \A k \in (8 + 1)..11 : Bound(ScratchPlace(n, k), k) = Bound(p + RowDwords[k - 8], 8 + (k - 8))
      BY <3>1, <3>2
    <3>5. {Bound(ScratchPlace(n, k), k) : k \in (8 + 1)..11} \subseteq A
      BY <3>1, <3>4
    <3>6. QED
      BY <3>3, <3>5
  <2>4. n = Rebuilt(b) /\ 8 \in 0..11 /\ 11 \in 0..11 /\ 8 <= 11
    OBVIOUS
  <2>5. Bindings(n, w, 8, tries)
    BY <1>3, <2>1
  <2> HIDE DEF n, w, A, p
  <2>6. \A r \in w : \A k \in (8 + 1)..11 : r.target # ScratchPlace(n, k)
    <3>1. \A k \in (8 + 1)..11 : k \in 1..11 /\ k > 8
      OBVIOUS
    <3>2. \A k \in (8 + 1)..11 : IsRow(n, ScratchPlace(n, k))
      BY <2>4, <3>1, PlaceWhere
    <3>3. QED
      BY <1>3, <3>2
  <2>7. Bindings(n, R, 11, tries)
    BY <2>3, <2>4, <2>5, <2>6, MoreBound DEF R
  <2> HIDE DEF R
  <2>8. work'.relocs = R /\ work'.rows = "memory" /\ rebound' = 11
    <3> DEFINE y == work.rows
    <3>1. work = [batch |-> n, relocs |-> w, rows |-> y]
      BY <1>2
    <3> HIDE DEF y
    <3>2. work' = [batch |-> n, relocs |-> R, rows |-> "memory"]
      BY <2>1, <3>1
    <3>3. QED
      BY <2>1, <3>2
  <2>9. n' = n /\ tries' = tries
    BY <1>1 DEF n
  <2>10. TableBound(n, work.relocs, 11)'
    BY <2>7, <2>8, <2>9 DEF TableBound
  <2>11. BindingsMade(n)'
    BY <2>1, <2>8, <2>10 DEF BindingsMade, TableBound, Unmade
  <2>12. QED
    BY <1>5, <2>1, <2>11
<1>8. QED
  BY <1>4, <1>6, <1>7

\* What is executed has as many bindings as buffers.
LEMMA ScratchedFinish ==
    ASSUME NEW b, Driven(b), Prepared(b), Scratched(b), Finish
    PROVE  Scratched(b)'
<1>1. pc = "finish" /\ UNCHANGED <<work, rebound, tries>>
  BY DEF Finish
<1>2. CASE Abandon /\ UNCHANGED <<client, input>>
  BY <1>2, ScratchEnded DEF Abandon
<1>3. CASE AllBound /\ pc' = "execute" /\ UNCHANGED scratch
           /\ input' = [input EXCEPT !.used = Used(work.batch)]
  <2> DEFINE n == Rebuilt(b)
  <2>1. [Next]_vars /\ InputShape
    BY DEF Prepared, Next
  <2>2. input'.relocs = input.relocs /\ input'.wide = input.wide
    BY <2>1, FrameKept
  <2>3. RequiredScratch' = RequiredScratch
    BY <2>2 DEF RequiredScratch
  <2>4. rebound = RequiredScratch /\ BindingsMade(n) /\ CountTells(input.relocs)
    BY <1>3 DEF AllBound, Scratched
  <2>5. ScratchMade'
    BY <2>1, ScratchMadeNext DEF Scratched
  <2>6. n' = n
    OBVIOUS
  <2> HIDE DEF n
  <2>7. rebound' = RequiredScratch'
    BY <1>1, <2>3, <2>4
  <2>8. rebound' = 8 => work'.rows = "chip" /\ (\A r \in work.relocs : ~ IsRow(n, r.target))'
    BY <1>1, <2>4, <2>6 DEF BindingsMade, IsRow
  <2>9. TableBound(n, work.relocs, 8)' /\ TableBound(n, work.relocs, 11)'
        /\ (rebound' = 11 => work'.rows = "memory")
    BY <1>1, <2>4, <2>6 DEF BindingsMade, TableBound
  <2>10. BindingsMade(n)'
    BY <1>3, <2>7, <2>8, <2>9 DEF BindingsMade, Unmade
  <2>11. QED
    BY <2>2, <2>4, <2>5, <2>10 DEF Scratched, n
<1>4. QED
  BY <1>2, <1>3 DEF Finish

\* The preparation begins anew with nothing made.
LEMMA ScratchedResubmit ==
    ASSUME NEW b, Scratched(b), Resubmit
    PROVE  Scratched(b)'
<1>1. pc = "returned" /\ pc' = "check" /\ rebound' = 0 /\ UNCHANGED <<input, scratch>>
  BY DEF Resubmit
<1>2. scratch = {}
  BY <1>1 DEF Scratched, ScratchMade, Unmade
<1>3. ScratchMade'
  BY <1>1, <1>2 DEF ScratchMade, Unmade
<1>4. BindingsMade(Rebuilt(b))'
  BY <1>1 DEF BindingsMade, Unmade
<1>5. QED
  BY <1>1, <1>3, <1>4 DEF Scratched

\* Every step of the preparation.
LEMMA ScratchedNext ==
    ASSUME NEW b, Driven(b), Prepared(b), Scratched(b), [Next]_vars
    PROVE  Scratched(b)'
<1>1. CASE Execute
  BY <1>1, ScratchEnded DEF Execute
<1>2. CASE UNCHANGED vars
  <2> DEFINE n == Rebuilt(b)
  <2>1. ScratchMade' /\ CountTells(input.relocs)'
    BY <1>2, ScratchMadeNext DEF vars, Scratched, Prepared
  <2>2. n' = n /\ BindingsMade(n)
    BY DEF Scratched
  <2> HIDE DEF n
  <2>3. BindingsMade(n)'
    BY <1>2, <2>2 DEF vars, BindingsMade, TableBound, RequiredScratch
  <2>4. QED
    BY <2>1, <2>3 DEF Scratched, n
<1>3. QED
  BY <1>1, <1>2, ScratchedEarly, ScratchedClone, ScratchedCreate, ScratchedRebind, ScratchedBind,
     ScratchedBindRows, ScratchedFinish, ScratchedResubmit DEF Next

\* Some batch of the driver is prepared, the scratch for it is made, and the
\* bindings too if their count tells.
MakingOf(b) ==
    /\ Driven(b) /\ Prepared(b) /\ ScratchMade
    /\ CountTells(input.relocs) => Scratched(b)
Making == \E b : MakingOf(b)

\* What an executed batch binds.
LEMMA ExecutedBindings ==
    ASSUME NEW b, Driven(b), Prepared(b), Scratched(b), pc = "execute"
    PROVE  /\ client.batch = Rebuilt(b) /\ RequiredScratch \in {8, 11}
           /\ scratch = Scratches(RequiredScratch, tries)
           /\ Bindings(Rebuilt(b), client.relocs, RequiredScratch, tries)
           /\ RequiredScratch = 8 =>
                client.rows = "chip" /\ \A r \in client.relocs : ~ IsRow(Rebuilt(b), r.target)
           /\ RequiredScratch = 11 => client.rows = "memory"
<1>1. pc \in RewrittenSteps
  BY DEF RewrittenSteps, ClonedSteps
<1>2. client = work /\ work.batch = Rebuilt(b)
  BY <1>1 DEF Prepared
<1>3. RequiredScratch \in {8, 11}
  BY DEF RequiredScratch
<1>4. scratch = Scratches(RequiredScratch, tries) /\ rebound = RequiredScratch
      /\ BindingsMade(Rebuilt(b))
  BY DEF Scratched, ScratchMade, BindingsMade
<1> DEFINE n == Rebuilt(b)
<1> HIDE DEF n
<1>5. /\ rebound = 8 => work.rows = "chip" /\ \A r \in work.relocs : ~ IsRow(n, r.target)
      /\ rebound = 11 => work.rows = "memory"
      /\ rebound \in {8, 11} => Bindings(n, work.relocs, rebound, tries)
  BY <1>4 DEF BindingsMade, TableBound, n
<1>6. QED
  BY <1>2, <1>3, <1>4, <1>5 DEF n

\* Where the entries lie that bind h, and the entries at the k-th place.
TargetsOf(S, h) == {r.target : r \in {q \in {s \in S : s.handle.slot > 0} : q.handle = h}}
AllAt(n, S, k)  == {r \in S : r.target = ScratchPlace(n, k) /\ r.kind = "address"}

\* Every buffer is bound once at its own place, and there is no other binding.
LEMMA BoundOnce ==
    ASSUME NEW n, NEW S, NEW m \in {8, 11}, NEW t, Bindings(n, S, m, t)
    PROVE  /\ \A r \in S : r.handle.slot > 0 => r.handle \in Scratches(m, t)
           /\ \A h \in Scratches(m, t) : TargetsOf(S, h) = {ScratchPlace(n, h.slot)}
           /\ \A k \in 1..m : Cardinality(AllAt(n, S, k)) = 1
<1>1. \A r \in S : r.handle.slot > 0 =>
        \E k \in 1..m : r.target = ScratchPlace(n, k) /\ r.handle = Handle(k, t)
  <2> SUFFICES ASSUME NEW r \in S, r.handle.slot > 0
               PROVE  \E k \in 1..m : r.target = ScratchPlace(n, k) /\ r.handle = Handle(k, t)
      OBVIOUS
  <2>1. r.handle.slot # 0
    OBVIOUS
  <2>2. PICK k \in 1..m : AtPlace(n, r, k)
    BY <2>1 DEF Bindings
  <2>3. r.handle = Handle(k, t)
    BY <2>2 DEF Bindings
  <2>4. QED
    BY <2>2, <2>3 DEF AtPlace
<1>2. \A r \in S : r.handle.slot > 0 => r.handle \in Scratches(m, t)
  BY <1>1 DEF Scratches
<1>3. ASSUME NEW h \in Scratches(m, t)
      PROVE  TargetsOf(S, h) = {ScratchPlace(n, h.slot)}
  <2>1. PICK k \in 1..m : h = Handle(k, t)
    BY DEF Scratches
  <2>2. h.slot = k
    BY <2>1 DEF Handle
  <2>3. PICK r \in S : AtPlace(n, r, k) /\ r.handle = h
    BY <2>1 DEF Bindings
  <2>4. r.handle.slot > 0 /\ r.target = ScratchPlace(n, k)
    BY <2>2, <2>3 DEF AtPlace
  <2>5. ASSUME NEW q \in S, q.handle.slot > 0, q.handle = h
        PROVE  q.target = ScratchPlace(n, k)
    <3>1. PICK j \in 1..m : q.target = ScratchPlace(n, j) /\ q.handle = Handle(j, t)
      BY <1>1, <2>5
    <3>2. j = k
      BY <2>2, <2>5, <3>1 DEF Handle
    <3>3. QED
      BY <3>1, <3>2
  <2>6. QED
    BY <2>2, <2>3, <2>4, <2>5 DEF TargetsOf
<1>4. ASSUME NEW k \in 1..m
      PROVE  Cardinality(AllAt(n, S, k)) = 1
  <2> DEFINE T == AllAt(n, S, k)
  <2>1. PICK r \in S : AtPlace(n, r, k)
    BY DEF Bindings
  <2>2. \A q \in S : AtPlace(n, q, k) => q = r
    BY <2>1 DEF Bindings
  <2>3. T = {r}
    BY <2>1, <2>2 DEF AtPlace, AllAt
  <2> HIDE DEF T
  <2>4. Cardinality(T) = 1
    BY <2>3, FS_Singleton
  <2>5. QED
    BY <2>4 DEF T
<1>5. QED
  BY <1>2, <1>3, <1>4

\* An executed batch binds all of the scratch made for it, each buffer once and
\* where it belongs, whatever the room, whatever entries of the audited table
\* are missing and whatever entries there are besides, as long as six bindings
\* that count as the six are one of each and there are not eight or eleven of
\* them; and no preparation that ended owns any scratch, for any table.
THEOREM ScratchIsBound == Spec => []ScratchBound
<1>1. Init => Making
  <2> SUFFICES ASSUME Init PROVE Making
      OBVIOUS
  <2>1. PICK b : Driven(b) /\ Prepared(b)
    BY PreparedInit
  <2>2. ScratchMade /\ BindingsMade(Rebuilt(b))
    BY ScratchedInit
  <2>3. QED
    BY <2>1, <2>2 DEF Making, MakingOf, Scratched
<1>2. Making /\ [Next]_vars => Making'
  <2> SUFFICES ASSUME Making, [Next]_vars PROVE Making'
      OBVIOUS
  <2>0. PICK b : MakingOf(b)
    BY DEF Making
  <2>1. /\ Driven(b) /\ Prepared(b) /\ ScratchMade
        /\ CountTells(input.relocs) => Scratched(b)
    BY <2>0 DEF MakingOf
  <2>2. InputShape
    BY <2>1 DEF Prepared
  <2>3. Prepared(b)' /\ ScratchMade'
    BY <2>1, <2>2, PreparedNext, ScratchMadeNext
  <2>4. CountTells(input.relocs)' => CountTells(input.relocs)
    BY <2>2, FrameKept DEF CountTells, ForScratch, Scratchy
  <2>5. CountTells(input.relocs)' => Scratched(b)'
    BY <2>1, <2>4, ScratchedNext
  <2>6. QED
    BY <2>1, <2>3, <2>5 DEF Making, MakingOf
<1>3. Making => ScratchBound
  <2> SUFFICES ASSUME Making PROVE ScratchBound
      OBVIOUS
  <2>0. PICK b : MakingOf(b)
    BY DEF Making
  <2>1. /\ Driven(b) /\ Prepared(b) /\ ScratchMade
        /\ CountTells(input.relocs) => Scratched(b)
    BY <2>0 DEF MakingOf
  <2>2. pc \in {"returned", "check"} => scratch = {}
    BY <2>1 DEF ScratchMade, Unmade
  <2>3. CASE ~ (pc = "execute" /\ CountTells(input.relocs))
    BY <2>2, <2>3 DEF ScratchBound
  <2>4. CASE pc = "execute" /\ CountTells(input.relocs)
    <3> DEFINE n == Rebuilt(b)
               m == RequiredScratch
    <3>1. /\ client.batch = n /\ m \in {8, 11} /\ scratch = Scratches(m, tries)
          /\ Bindings(n, client.relocs, m, tries)
          /\ m = 8 => client.rows = "chip" /\ \A r \in client.relocs : ~ IsRow(n, r.target)
          /\ m = 11 => client.rows = "memory"
      BY <2>1, <2>4, ExecutedBindings
    <3>2. m = 11 => \E r \in client.relocs : IsRow(n, r.target)
      <4> SUFFICES ASSUME m = 11 PROVE \E r \in client.relocs : IsRow(n, r.target)
          OBVIOUS
      <4>1. 9 \in 1..11 /\ 9 > 8 /\ 9 \in 1..m
        OBVIOUS
      <4> HIDE DEF m
      <4>2. PICK r \in client.relocs : AtPlace(n, r, 9)
        BY <3>1, <4>1 DEF Bindings
      <4>3. IsRow(n, ScratchPlace(n, 9))
        BY <2>1, <4>1, PlaceWhere
      <4>4. QED
        BY <4>2, <4>3 DEF AtPlace
    <3> HIDE DEF n, m
    <3>3. client.rows = (IF \E r \in client.relocs : IsRow(n, r.target) THEN "memory" ELSE "chip")
      BY <3>1, <3>2
    <3>4. /\ \A r \in client.relocs : r.handle.slot > 0 => r.handle \in Scratches(m, tries)
          /\ \A h \in Scratches(m, tries) : TargetsOf(client.relocs, h) = {ScratchPlace(n, h.slot)}
          /\ \A k \in 1..m : Cardinality(AllAt(n, client.relocs, k)) = 1
      <4>1. m \in {8, 11} /\ Bindings(n, client.relocs, m, tries)
        BY <3>1
      <4>2. QED
        BY <4>1, BoundOnce
    <3>5. QED
      BY <2>2, <3>1, <3>3, <3>4 DEF ScratchBound, TargetsOf, AllAt, m
  <2>5. QED
    BY <2>3, <2>4
<1>4. QED
  BY <1>1, <1>2, <1>3, PTL DEF Spec

=============================================================================
