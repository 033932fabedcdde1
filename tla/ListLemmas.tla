------------------------------ MODULE ListLemmas ------------------------------
(***************************************************************************)
(* Facts about lists, for the proofs of the modules that use Lists and     *)
(* FlattenSeq.  Induction is over sets of numbers and of sequences: the    *)
(* library's induction theorems take operators, but its theorem that a     *)
(* set with a well-founded order has a minimal element does not.           *)
(***************************************************************************)
EXTENDS Lists, Integers, SequencesExt, SequenceTheorems, FiniteSetTheorems,
        WellFoundedInduction, TLAPS

-----------------------------------------------------------------------------
(* Induction.                                                              *)

\* A set of numbers has a smallest one.
LEMMA Smallest ==
  ASSUME NEW T, T \subseteq Nat, T # {}
  PROVE  \E n \in T : \A m \in T : n <= m
<1>1. PICK n \in T : \A m \in T : <<m, n>> \notin OpToRel(<, Nat)
  BY NatLessThanWellFounded, WFMin
<1>2. ASSUME NEW m \in T PROVE n <= m
  <2>1. <<m, n>> \notin OpToRel(<, Nat)
    BY <1>1
  <2>2. n \in Nat /\ m \in Nat
    OBVIOUS
  <2>3. ~ (m < n)
    BY <2>1, <2>2 DEF OpToRel
  <2>4. QED
    BY <2>2, <2>3
<1>3. QED
  BY <1>2

\* A set that holds 0 and with every number the next one holds all numbers.
LEMMA Induction ==
  ASSUME NEW T, 0 \in T, \A n \in T : n + 1 \in T
  PROVE  Nat \subseteq T
<1>1. SUFFICES ASSUME Nat \ T # {} PROVE FALSE
  OBVIOUS
<1>2. PICK n \in Nat \ T : \A m \in Nat \ T : n <= m
  BY <1>1, Smallest
<1>3. n # 0 /\ n - 1 \in Nat /\ n - 1 \in T
  BY <1>2
<1>4. QED
  BY <1>2, <1>3

\* A set of lists that holds the empty one and with every list the longer ones by
\* one element holds all lists.
LEMMA ListInduction ==
  ASSUME NEW S, NEW P, <<>> \in P,
         \A s \in Seq(S) \intersect P : \A x \in S : Append(s, x) \in P
  PROVE  Seq(S) \subseteq P
<1> DEFINE N == {n \in Nat : \A s \in Seq(S) : Len(s) = n => s \in P}
<1>1. 0 \in N
  BY EmptySeq
<1>2. ASSUME NEW n \in N PROVE n + 1 \in N
  <2> SUFFICES ASSUME NEW s \in Seq(S), Len(s) = n + 1 PROVE s \in P
    OBVIOUS
  <2> DEFINE t == SubSeq(s, 1, n)
  <2>1. n \in Nat /\ \A i \in 1..n + 1 : s[i] \in S
    BY ElementOfSeq
  <2>2. t \in Seq(S) /\ Len(t) = n /\ \A i \in 1..n : t[i] = s[i]
    BY <2>1, SubSeqProperties
  <2>3. s[n + 1] \in S
    BY <2>1
  <2> HIDE DEF t
  <2>4. s = Append(t, s[n + 1])
    <3>1. /\ Append(t, s[n + 1]) \in Seq(S)
          /\ Len(Append(t, s[n + 1])) = n + 1
          /\ \A i \in 1..n + 1 : Append(t, s[n + 1])[i] = s[i]
      BY <2>1, <2>2, <2>3, AppendProperties
    <3>2. QED
      BY <3>1, SeqEqual
  <2>5. t \in P
    BY <2>1, <2>2
  <2>6. QED
    BY <2>2, <2>3, <2>4, <2>5
<1>3. Nat \subseteq N
  <2> HIDE DEF N
  <2> QED
    BY <1>1, <1>2, Induction
<1>4. QED
  BY <1>3, LenProperties

-----------------------------------------------------------------------------
(* Recursive functions.                                                    *)

\* What is computed from a beginning in n steps.
Computes(f, n, T, b, g) ==
  /\ f \in [0..n -> T]
  /\ f[0] = b
  /\ \A i \in 1..n : f[i] = g[<<f[i - 1], i>>]

\* There is such a computation ...
LEMMA Computable ==
  ASSUME NEW n \in Nat, NEW T, NEW b \in T, NEW g \in [T \X (1..n) -> T]
  PROVE  \E f : Computes(f, n, T, b, g)
<1> DEFINE E == {k \in Nat : k <= n => \E f : Computes(f, k, T, b, g)}
<1>1. 0 \in E
  <2>1. Computes([i \in 0..0 |-> b], 0, T, b, g)
    BY DEF Computes
  <2>2. QED
    BY <2>1
<1>2. ASSUME NEW k \in E PROVE k + 1 \in E
  <2>0. SUFFICES ASSUME k + 1 <= n PROVE \E f : Computes(f, k + 1, T, b, g)
    OBVIOUS
  <2>1. PICK f : Computes(f, k, T, b, g)
    BY <2>0
  <2> DEFINE h == [i \in 0..k + 1 |-> IF i = k + 1 THEN g[<<f[k], k + 1>>] ELSE f[i]]
  <2>2. g[<<f[k], k + 1>>] \in T /\ f \in [0..k -> T] /\ f[0] = b
    BY <2>0, <2>1 DEF Computes
  <2>3. h \in [0..k + 1 -> T] /\ h[0] = b
    BY <2>2
  <2>4. ASSUME NEW i \in 1..k + 1 PROVE h[i] = g[<<h[i - 1], i>>]
    <3>1. i \in 0..k + 1 /\ i - 1 \in 0..k + 1 /\ i - 1 # k + 1
      OBVIOUS
    <3>2. h[i - 1] = f[i - 1]
      BY <3>1
    <3>3. CASE i = k + 1
      <4>1. i - 1 = k /\ h[i] = g[<<f[k], k + 1>>]
        BY <3>1, <3>3
      <4>2. QED
        BY <3>2, <3>3, <4>1
    <3>4. CASE i # k + 1
      <4>1. i \in 1..k /\ h[i] = f[i]
        BY <3>1, <3>4
      <4>2. QED
        BY <2>1, <3>2, <4>1 DEF Computes
    <3>5. QED
      BY <3>3, <3>4
  <2> HIDE DEF h
  <2>5. Computes(h, k + 1, T, b, g)
    BY <2>3, <2>4 DEF Computes
  <2>6. QED
    BY <2>5
<1>3. Nat \subseteq E
  <2> HIDE DEF E
  <2> QED
    BY <1>1, <1>2, Induction
<1>4. QED
  BY <1>3

\* ... and only one.
LEMMA ComputedOnce ==
  ASSUME NEW n \in Nat, NEW T, NEW b, NEW g, NEW f, Computes(f, n, T, b, g),
         NEW h, h[0] = b,
         \A i \in 1..n : h[i - 1] \in T => h[i] = g[<<h[i - 1], i>>]
  PROVE  \A i \in 0..n : h[i] = f[i]
<1> DEFINE A == {i \in Nat : i <= n => h[i] = f[i]}
<1>1. 0 \in A
  BY DEF Computes
<1>2. ASSUME NEW i \in A PROVE i + 1 \in A
  <2> SUFFICES ASSUME i + 1 <= n PROVE h[i + 1] = f[i + 1]
    OBVIOUS
  <2>1. i + 1 \in 1..n /\ (i + 1) - 1 = i /\ i \in 0..n /\ h[i] = f[i]
    OBVIOUS
  <2>2. h[i] \in T
    BY <2>1 DEF Computes
  <2>3. QED
    BY <2>1, <2>2 DEF Computes
<1>3. Nat \subseteq A
  <2> HIDE DEF A
  <2> QED
    BY <1>1, <1>2, Induction
<1>4. QED
  BY <1>3

-----------------------------------------------------------------------------
(* Members of a list.                                                      *)

\* An empty list has no elements ...
LEMMA RangeEmpty == Range(<<>>) = {}
  BY EmptySeq DEF Range

\* ... and a list one more with each that is appended.
LEMMA RangeAppend ==
  ASSUME NEW S, NEW s \in Seq(S), NEW x
  PROVE  Range(Append(s, x)) = Range(s) \union {x}
  BY DEF Range

\* A list has no element twice.
Distinct(s) == \A i, j \in 1..Len(s) : s[i] = s[j] => i = j

\* The elements of a list are finitely many, as many as its length when none repeats.
LEMMA RangeFinite ==
  ASSUME NEW S, NEW s \in Seq(S)
  PROVE  /\ IsFiniteSet(Range(s))
         /\ Cardinality(Range(s)) \in Nat
         /\ Cardinality(Range(s)) <= Len(s)
         /\ Distinct(s) => Cardinality(Range(s)) = Len(s)
<1>1. Len(s) \in Nat /\ DOMAIN s = 1..Len(s) /\ s \in [1..Len(s) -> S]
  BY LenProperties
<1>2. IsFiniteSet(1..Len(s)) /\ Cardinality(1..Len(s)) = Len(s)
  BY <1>1, FS_Interval
<1>3. s \in Surjection(1..Len(s), Range(s))
  <2>1. Range(s) = {s[k] : k \in 1..Len(s)}
    BY <1>1, Zenon DEF Range
  <2>2. s \in [1..Len(s) -> Range(s)]
    BY <1>1, <2>1
  <2>3. \A y \in Range(s) : \E k \in 1..Len(s) : s[k] = y
    BY <2>1, Zenon
  <2>4. QED
    BY <2>2, <2>3, Zenon DEF Surjection
<1>4. /\ IsFiniteSet(Range(s))
      /\ Cardinality(Range(s)) <= Len(s)
      /\ Cardinality(Range(s)) = Len(s) <=> s \in Injection(1..Len(s), Range(s))
  BY <1>2, <1>3, FS_Surjection
<1>5. Distinct(s) => s \in Injection(1..Len(s), Range(s))
  BY <1>1, <1>3 DEF Distinct, Injection, IsInjective, Surjection
<1>6. QED
  BY <1>4, <1>5, FS_CardinalityType

\* One more element keeps a list free of repetitions if the list did not have it.
LEMMA DistinctAppend ==
  ASSUME NEW S, NEW s \in Seq(S), NEW x \in S
  PROVE  Distinct(Append(s, x)) <=> Distinct(s) /\ x \notin Range(s)
<1> DEFINE t == Append(s, x)
           n == Len(s)
<1>1. /\ n \in Nat /\ t \in Seq(S) /\ Len(t) = n + 1 /\ t[n + 1] = x
      /\ \A i \in 1..n : t[i] = s[i]
  BY AppendProperties
<1>2. Range(s) = {s[i] : i \in 1..n}
  BY DEF Range
<1> HIDE DEF t, n
<1>3. ASSUME Distinct(t) PROVE Distinct(s) /\ x \notin Range(s)
  <2>1. \A i \in 1..n : i \in 1..n + 1 /\ i # n + 1
    BY <1>1
  <2>2. n + 1 \in 1..n + 1
    BY <1>1
  <2>3. \A i, j \in 1..n : s[i] = s[j] => i = j
    BY <1>1, <1>3, <2>1 DEF Distinct
  <2>4. \A i \in 1..n : s[i] # x
    BY <1>1, <1>3, <2>1, <2>2 DEF Distinct
  <2>5. QED
    BY <1>2, <2>3, <2>4 DEF Distinct, n
<1>4. ASSUME Distinct(s), x \notin Range(s) PROVE Distinct(t)
  <2>1. \A i \in 1..n + 1 : i \in 1..n \/ i = n + 1
    BY <1>1
  <2>2. \A i, j \in 1..n : s[i] = s[j] => i = j
    BY <1>4 DEF Distinct, n
  <2>3. \A i \in 1..n : s[i] # x
    BY <1>2, <1>4
  <2>4. \A i, j \in 1..n + 1 : t[i] = t[j] => i = j
    BY <1>1, <2>1, <2>2, <2>3
  <2>5. QED
    BY <1>1, <2>4 DEF Distinct
<1>5. QED
  BY <1>3, <1>4 DEF t

-----------------------------------------------------------------------------
(* Keep.                                                                   *)

\* The function behind Keep.
Keeping(f, s, K, S) ==
  /\ f \in [0..Len(s) -> Seq(S)]
  /\ f[0] = <<>>
  /\ \A i \in 1..Len(s) :
       f[i] = IF s[i] \in K THEN Append(f[i - 1], s[i]) ELSE f[i - 1]

\* Keep is computed so.
LEMMA KeepRuns ==
  ASSUME NEW S, NEW s \in Seq(S), NEW K
  PROVE  \E f : Keeping(f, s, K, S) /\ Keep(s, K) = f[Len(s)]
<1> DEFINE n == Len(s)
           g == [u \in Seq(S) \X (1..n) |->
                   IF s[u[2]] \in K THEN Append(u[1], s[u[2]]) ELSE u[1]]
           step(f, i) == IF i = 0 THEN <<>>
                         ELSE IF s[i] \in K THEN Append(f[i - 1], s[i]) ELSE f[i - 1]
           F == CHOOSE f : f = [i \in 0..n |-> step(f, i)]
<1>1. n \in Nat /\ <<>> \in Seq(S)
  BY EmptySeq
<1>2. \A i \in 1..n : s[i] \in S
  BY ElementOfSeq
<1>3. ASSUME NEW u \in Seq(S), NEW i \in 1..n
      PROVE  g[<<u, i>>] = (IF s[i] \in K THEN Append(u, s[i]) ELSE u)
  OBVIOUS
<1>4. g \in [Seq(S) \X (1..n) -> Seq(S)]
  <2>1. ASSUME NEW u \in Seq(S), NEW i \in 1..n
        PROVE  (IF s[i] \in K THEN Append(u, s[i]) ELSE u) \in Seq(S)
    BY <1>2, AppendProperties
  <2>2. QED
    BY <2>1
<1> HIDE DEF g
<1>5. PICK f : Computes(f, n, Seq(S), <<>>, g)
  <2> HIDE DEF n
  <2> QED
    BY <1>1, <1>4, Computable
<1>6. Keeping(f, s, K, S)
  <2>1. f \in [0..n -> Seq(S)] /\ f[0] = <<>>
    BY <1>5 DEF Computes
  <2>2. ASSUME NEW i \in 1..n
        PROVE  f[i] = IF s[i] \in K THEN Append(f[i - 1], s[i]) ELSE f[i - 1]
    <3>1. f[i] = g[<<f[i - 1], i>>]
      BY <1>5 DEF Computes
    <3>2. f[i - 1] \in Seq(S)
      BY <1>1, <2>1
    <3>3. QED
      BY <1>3, <3>1, <3>2
  <2>3. QED
    BY <2>1, <2>2 DEF Keeping
<1>7. f = [i \in 0..n |-> step(f, i)]
  <2>1. f \in [0..n -> Seq(S)]
    BY <1>6 DEF Keeping
  <2>2. ASSUME NEW i \in 0..n PROVE f[i] = step(f, i)
    <3>1. i = 0 \/ i \in 1..n
      BY <1>1
    <3>2. QED
      BY <1>6, <3>1 DEF Keeping
  <2> HIDE DEF step, n
  <2>3. QED
    BY <2>1, <2>2
<1>8. F = [i \in 0..n |-> step(F, i)]
  <2> HIDE DEF step, n
  <2> QED
    BY <1>7
<1>9. Keep(s, K) = F[n]
  BY DEF Keep
<1> HIDE DEF F
<1>10. F[n] = f[n]
  <2>1. F[0] = <<>>
    BY <1>1, <1>8
  <2>2. ASSUME NEW i \in 1..n, F[i - 1] \in Seq(S) PROVE F[i] = g[<<F[i - 1], i>>]
    <3>1. i \in 0..n
      BY <1>1
    <3>2. F[i] = step(F, i)
      <4> HIDE DEF step, n
      <4> QED
        BY <1>8, <3>1
    <3>3. QED
      BY <1>3, <2>2, <3>2
  <2>3. \A i \in 0..n : F[i] = f[i]
    <3> HIDE DEF n
    <3> QED
      BY <1>1, <1>5, <2>1, <2>2, ComputedOnce
  <2>4. QED
    BY <1>1, <2>3
<1>11. QED
  BY <1>6, <1>9, <1>10

\* Of nothing, nothing is kept.
LEMMA KeepEmpty == \A K : Keep(<<>>, K) = <<>>
<1> SUFFICES ASSUME NEW K PROVE Keep(<<>>, K) = <<>>
  OBVIOUS
<1>1. <<>> \in Seq({}) /\ Len(<<>>) = 0
  BY EmptySeq
<1>2. PICK f : Keeping(f, <<>>, K, {}) /\ Keep(<<>>, K) = f[Len(<<>>)]
  BY <1>1, KeepRuns
<1>3. QED
  BY <1>1, <1>2 DEF Keeping

\* One more element is kept or not; the rest does not depend on it.
LEMMA KeepAppend ==
  ASSUME NEW S, NEW s \in Seq(S), NEW x \in S, NEW K
  PROVE  /\ Keep(s, K) \in Seq(S)
         /\ Keep(Append(s, x), K) =
              IF x \in K THEN Append(Keep(s, K), x) ELSE Keep(s, K)
<1> DEFINE t == Append(s, x)
           n == Len(s)
<1>1. /\ n \in Nat /\ t \in Seq(S) /\ Len(t) = n + 1 /\ t[n + 1] = x
      /\ \A i \in 1..n : t[i] = s[i]
  BY AppendProperties
<1> HIDE DEF t
<1>2. PICK f : Keeping(f, s, K, S) /\ Keep(s, K) = f[n]
  BY KeepRuns
<1>3. PICK h : Keeping(h, t, K, S) /\ Keep(t, K) = h[n + 1]
  BY <1>1, KeepRuns
<1> DEFINE A == {i \in Nat : i <= n => h[i] = f[i]}
<1>4. 0 \in A
  BY <1>2, <1>3 DEF Keeping
<1>5. ASSUME NEW i \in A PROVE i + 1 \in A
  <2> SUFFICES ASSUME i + 1 <= n PROVE h[i + 1] = f[i + 1]
    OBVIOUS
  <2> DEFINE k == i + 1
  <2>1. k \in 1..n /\ k \in 1..Len(t) /\ k - 1 = i /\ h[i] = f[i]
    BY <1>1
  <2>2. t[k] = s[k]
    BY <1>1, <2>1
  <2> HIDE DEF k, A, n
  <2>3. h[k] = IF t[k] \in K THEN Append(h[i], t[k]) ELSE h[i]
    BY <1>3, <2>1 DEF Keeping
  <2>4. f[k] = IF s[k] \in K THEN Append(f[i], s[k]) ELSE f[i]
    BY <1>2, <2>1 DEF Keeping, n
  <2>5. h[k] = f[k]
    BY <2>1, <2>2, <2>3, <2>4
  <2>6. QED
    BY <2>5 DEF k
<1>6. Nat \subseteq A
  <2> HIDE DEF A
  <2> QED
    BY <1>4, <1>5, Induction
<1>7. h[n] = f[n]
  BY <1>1, <1>6
<1>8. n + 1 \in 1..Len(t) /\ (n + 1) - 1 = n
  BY <1>1
<1>9. h[n + 1] = IF x \in K THEN Append(h[n], x) ELSE h[n]
  BY <1>1, <1>3, <1>8 DEF Keeping
<1>10. Keep(s, K) \in Seq(S)
  BY <1>1, <1>2 DEF Keeping
<1>11. QED
  BY <1>2, <1>3, <1>7, <1>9, <1>10 DEF t

\* What is appended to the second of two lists is appended to both.
LEMMA AppendToConcat ==
  ASSUME NEW S, NEW a \in Seq(S), NEW b \in Seq(S), NEW x \in S
  PROVE  /\ a \o b \in Seq(S)
         /\ a \o Append(b, x) = Append(a \o b, x)
<1> DEFINE m == Len(a)
           n == Len(b)
           c == Append(b, x)
           ab == a \o b
           l == a \o c
           r == Append(ab, x)
<1>1. m \in Nat /\ n \in Nat
  BY LenProperties
<1>2. /\ c \in Seq(S) /\ Len(c) = n + 1 /\ c[n + 1] = x
      /\ \A i \in 1..n : c[i] = b[i]
  BY AppendProperties
<1>3. /\ ab \in Seq(S) /\ Len(ab) = m + n
      /\ \A i \in 1..m + n : ab[i] = IF i <= m THEN a[i] ELSE b[i - m]
  BY ConcatProperties
<1> HIDE DEF c, ab
<1>4. /\ l \in Seq(S) /\ Len(l) = m + (n + 1)
      /\ \A i \in 1..m + (n + 1) : l[i] = IF i <= m THEN a[i] ELSE c[i - m]
  <2>1. /\ l \in Seq(S) /\ Len(l) = Len(a) + Len(c)
        /\ \A i \in 1..Len(a) + Len(c) : l[i] = IF i <= Len(a) THEN a[i] ELSE c[i - Len(a)]
    <3> HIDE DEF m, n
    <3> QED
      BY <1>2, ConcatProperties
  <2>2. QED
    BY <1>2, <2>1
<1>5. /\ r \in Seq(S) /\ Len(r) = m + n + 1 /\ r[m + n + 1] = x
      /\ \A i \in 1..m + n : r[i] = ab[i]
  <2>1. /\ r \in Seq(S) /\ Len(r) = Len(ab) + 1 /\ r[Len(ab) + 1] = x
        /\ \A i \in 1..Len(ab) : r[i] = ab[i]
    <3> HIDE DEF m, n
    <3> QED
      BY <1>3, AppendProperties
  <2>2. QED
    BY <1>3, <2>1
<1> HIDE DEF l, r, m, n
<1>6. ASSUME NEW i \in 1..m + n + 1 PROVE l[i] = r[i]
  <2>1. CASE i = m + n + 1
    <3>1. i \in 1..m + (n + 1) /\ ~ (i <= m) /\ i - m = n + 1
      BY <1>1, <2>1
    <3>2. QED
      BY <1>2, <1>4, <1>5, <2>1, <3>1
  <2>2. CASE i # m + n + 1 /\ i <= m
    <3>1. i \in 1..m + n /\ i \in 1..m + (n + 1)
      BY <1>1, <2>2
    <3>2. QED
      BY <1>3, <1>4, <1>5, <2>2, <3>1
  <2>3. CASE i # m + n + 1 /\ ~ (i <= m)
    <3>1. i \in 1..m + n /\ i \in 1..m + (n + 1) /\ i - m \in 1..n
      BY <1>1, <2>3
    <3>2. QED
      BY <1>2, <1>3, <1>4, <1>5, <2>3, <3>1
  <2>4. QED
    BY <2>1, <2>2, <2>3
<1>7. Len(l) = Len(r) /\ Len(l) = m + n + 1
  BY <1>1, <1>4, <1>5
<1>8. l = r
  <2>1. \A i \in 1..Len(l) : l[i] = r[i]
    BY <1>6, <1>7
  <2>2. QED
    BY <1>4, <1>5, <1>7, <2>1, SeqEqual
<1>9. QED
  BY <1>3, <1>8 DEF ab, c, l, r

\* What is kept of a list is a list of its elements.
LEMMA KeepType ==
  ASSUME NEW S, NEW s \in Seq(S), NEW K
  PROVE  Keep(s, K) \in Seq(S)
<1>1. PICK f : Keeping(f, s, K, S) /\ Keep(s, K) = f[Len(s)]
  BY KeepRuns
<1>2. QED
  BY <1>1, LenProperties DEF Keeping

\* What is kept of two lists is kept of each.
LEMMA KeepConcat ==
  ASSUME NEW S, NEW s \in Seq(S), NEW t \in Seq(S), NEW K
  PROVE  Keep(s \o t, K) = Keep(s, K) \o Keep(t, K)
<1> DEFINE Good(u) == Keep(s \o u, K) = Keep(s, K) \o Keep(u, K)
           P == {u \in Seq(S) : Good(u)}
<1>0. Keep(s, K) \in Seq(S)
  BY KeepType
<1>a. \A q \in Seq(S), x \in S :
        Keep(Append(q, x), K) = IF x \in K THEN Append(Keep(q, K), x) ELSE Keep(q, K)
  <2> HIDE DEF Good, P
  <2> TAKE q \in Seq(S), x \in S
  <2> QED
    BY KeepAppend
<1>1. <<>> \in P
  <2>1. <<>> \in Seq(S) /\ s \o <<>> = s
    BY EmptySeq, ConcatEmptySeq
  <2>2. QED
    BY <1>0, <2>1, KeepEmpty, ConcatEmptySeq
<1>2. ASSUME NEW u \in Seq(S) \intersect P, NEW x \in S PROVE Append(u, x) \in P
  <2>1. u \in Seq(S) /\ Good(u)
    OBVIOUS
  <2>2. Append(u, x) \in Seq(S)
    BY <2>1, AppendProperties
  <2>3. s \o u \in Seq(S) /\ s \o Append(u, x) = Append(s \o u, x)
    BY <2>1, AppendToConcat
  <2> HIDE DEF P, Good
  <2>4. /\ Keep(u, K) \in Seq(S)
        /\ Keep(Append(u, x), K) = IF x \in K THEN Append(Keep(u, K), x) ELSE Keep(u, K)
    BY <2>1, KeepAppend
  <2> DEFINE v == s \o u
             ks == Keep(s, K)
             ku == Keep(u, K)
  <2>5. Keep(Append(v, x), K) = IF x \in K THEN Append(Keep(v, K), x) ELSE Keep(v, K)
    <3>1. v \in Seq(S)
      BY <2>3
    <3> HIDE DEF v
    <3>2. QED
      BY <1>a, <3>1
  <2>6. ks \o Append(ku, x) = Append(ks \o ku, x)
    <3>1. ks \in Seq(S) /\ ku \in Seq(S)
      BY <1>0, <2>4
    <3> HIDE DEF ks, ku
    <3>2. QED
      BY <3>1, AppendToConcat
  <2>7. Good(Append(u, x))
    BY <2>1, <2>3, <2>4, <2>5, <2>6 DEF Good
  <2>8. QED
    BY <2>2, <2>7 DEF P
<1>3. Seq(S) \subseteq P
  <2> HIDE DEF P
  <2> QED
    BY <1>1, <1>2, ListInduction
<1>4. QED
  BY <1>3

\* If every element is kept the list is unchanged ...
LEMMA KeepAll ==
  ASSUME NEW S, NEW s \in Seq(S), NEW K, \A i \in 1..Len(s) : s[i] \in K
  PROVE  Keep(s, K) = s
<1> DEFINE All(r) == \A i \in 1..Len(r) : r[i] \in K
           Good(r) == All(r) => Keep(r, K) = r
           P == {r \in Seq(S) : Good(r)}
<1>1. <<>> \in P
  BY KeepEmpty, EmptySeq
<1>2. ASSUME NEW r \in Seq(S) \intersect P, NEW x \in S PROVE Append(r, x) \in P
  <2> DEFINE t == Append(r, x)
             n == Len(r)
  <2>1. r \in Seq(S) /\ Good(r)
    OBVIOUS
  <2>2. /\ n \in Nat /\ t \in Seq(S) /\ Len(t) = n + 1 /\ t[n + 1] = x
        /\ \A i \in 1..n : t[i] = r[i]
    BY <2>1, AppendProperties
  <2> HIDE DEF P
  <2>3. Keep(t, K) = IF x \in K THEN Append(Keep(r, K), x) ELSE Keep(r, K)
    <3>1. r \in Seq(S) /\ x \in S
      BY <2>1
    <3>2. QED
      BY ONLY <3>1, KeepAppend
  <2> HIDE DEF t
  <2>4. ASSUME All(t) PROVE Keep(t, K) = t
    <3>1. n + 1 \in 1..Len(t) /\ \A i \in 1..n : i \in 1..Len(t)
      BY <2>2
    <3>2. x \in K /\ All(r)
      BY <2>2, <2>4, <3>1
    <3>3. QED
      BY <2>1, <2>3, <3>2 DEF t
  <2>5. QED
    BY <2>2, <2>4 DEF P, t
<1>3. Seq(S) \subseteq P
  <2> HIDE DEF P
  <2> QED
    BY <1>1, <1>2, ListInduction
<1>4. QED
  BY <1>3

\* ... and if none is, nothing remains.
LEMMA KeepNone ==
  ASSUME NEW S, NEW s \in Seq(S), NEW K, \A i \in 1..Len(s) : s[i] \notin K
  PROVE  Keep(s, K) = <<>>
<1> DEFINE None(r) == \A i \in 1..Len(r) : r[i] \notin K
           Good(r) == None(r) => Keep(r, K) = <<>>
           P == {r \in Seq(S) : Good(r)}
<1>1. <<>> \in P
  BY KeepEmpty, EmptySeq
<1>2. ASSUME NEW r \in Seq(S) \intersect P, NEW x \in S PROVE Append(r, x) \in P
  <2> DEFINE t == Append(r, x)
             n == Len(r)
  <2>1. r \in Seq(S) /\ Good(r)
    OBVIOUS
  <2>2. /\ n \in Nat /\ t \in Seq(S) /\ Len(t) = n + 1 /\ t[n + 1] = x
        /\ \A i \in 1..n : t[i] = r[i]
    BY <2>1, AppendProperties
  <2> HIDE DEF P
  <2>3. Keep(t, K) = IF x \in K THEN Append(Keep(r, K), x) ELSE Keep(r, K)
    <3>1. r \in Seq(S) /\ x \in S
      BY <2>1
    <3>2. QED
      BY ONLY <3>1, KeepAppend
  <2> HIDE DEF t
  <2>4. ASSUME None(t) PROVE Keep(t, K) = <<>>
    <3>1. n + 1 \in 1..Len(t) /\ \A i \in 1..n : i \in 1..Len(t)
      BY <2>2
    <3>2. x \notin K /\ None(r)
      BY <2>2, <2>4, <3>1
    <3>3. QED
      BY <2>1, <2>3, <3>2
  <2>5. QED
    BY <2>2, <2>4 DEF P, t
<1>3. Seq(S) \subseteq P
  <2> HIDE DEF P
  <2> QED
    BY <1>1, <1>2, ListInduction
<1>4. QED
  BY <1>3

\* The elements that are kept are those of the list that are in the set.
LEMMA KeepMembers ==
  ASSUME NEW S, NEW s \in Seq(S), NEW K
  PROVE  Range(Keep(s, K)) = Range(s) \intersect K
<1> DEFINE Good(r) == Range(Keep(r, K)) = Range(r) \intersect K
           P == {r \in Seq(S) : Good(r)}
<1>1. <<>> \in P
  BY KeepEmpty, EmptySeq, RangeEmpty
<1>2. ASSUME NEW r \in Seq(S) \intersect P, NEW x \in S PROVE Append(r, x) \in P
  <2>0. r \in Seq(S) /\ Good(r)
    OBVIOUS
  <2> DEFINE t == Append(r, x)
             k == Keep(r, K)
  <2> HIDE DEF P
  <2>1. r \in Seq(S) /\ Good(r)
    BY <2>0
  <2>2. t \in Seq(S) /\ Range(t) = Range(r) \union {x}
    BY <2>1, AppendProperties, RangeAppend
  <2>3. k \in Seq(S) /\ Keep(t, K) = IF x \in K THEN Append(k, x) ELSE k
    BY <2>1, KeepAppend
  <2>4. Range(Append(k, x)) = Range(k) \union {x}
    BY <2>3, RangeAppend
  <2>5. Range(k) = Range(r) \intersect K
    BY <2>1
  <2> HIDE DEF P, t, k
  <2>6. Range(Keep(t, K)) = Range(t) \intersect K
    BY <2>2, <2>3, <2>4, <2>5
  <2>7. QED
    BY <2>2, <2>6 DEF P, t
<1>3. Seq(S) \subseteq P
  <2> HIDE DEF P
  <2> QED
    BY <1>1, <1>2, ListInduction
<1>4. QED
  BY <1>3

\* No element is kept more often than it is in the list.
LEMMA KeepDistinct ==
  ASSUME NEW S, NEW s \in Seq(S), NEW K, Distinct(s)
  PROVE  Distinct(Keep(s, K))
<1> DEFINE Good(r) == Distinct(r) => Distinct(Keep(r, K))
           P == {r \in Seq(S) : Good(r)}
<1>1. <<>> \in P
  BY KeepEmpty, EmptySeq
<1>2. ASSUME NEW r \in Seq(S) \intersect P, NEW x \in S PROVE Append(r, x) \in P
  <2>0. r \in Seq(S) /\ Good(r)
    OBVIOUS
  <2> DEFINE t == Append(r, x)
             k == Keep(r, K)
  <2> HIDE DEF P
  <2>1. r \in Seq(S) /\ Good(r)
    BY <2>0
  <2>2. t \in Seq(S)
    BY <2>1, AppendProperties
  <2>3. k \in Seq(S) /\ Keep(t, K) = IF x \in K THEN Append(k, x) ELSE k
    BY <2>1, KeepAppend
  <2>4. ASSUME Distinct(t) PROVE Distinct(Keep(t, K))
    <3>1. Distinct(r) /\ x \notin Range(r)
      BY <2>1, <2>4, DistinctAppend
    <3>2. Distinct(k) /\ x \notin Range(k)
      BY <2>1, <3>1, KeepMembers
    <3> HIDE DEF t, k
    <3>3. Distinct(Append(k, x))
      BY <2>3, <3>2, DistinctAppend
    <3>4. QED
      BY <2>3, <3>2, <3>3
  <2>5. QED
    BY <2>2, <2>4 DEF P
<1>3. Seq(S) \subseteq P
  <2> HIDE DEF P
  <2> QED
    BY <1>1, <1>2, ListInduction
<1>4. QED
  BY <1>3

\* Every element of a list is in relation R to all that follow it.
Chain(s, R) == \A i, j \in 1..Len(s) : i < j => <<s[i], s[j]>> \in R

\* One more element continues a chain if all before it are in relation to it.
LEMMA ChainAppend ==
  ASSUME NEW S, NEW s \in Seq(S), NEW x \in S, NEW R
  PROVE  Chain(Append(s, x), R) <=> Chain(s, R) /\ \A y \in Range(s) : <<y, x>> \in R
<1> DEFINE t == Append(s, x)
           n == Len(s)
<1>1. /\ n \in Nat /\ Len(t) = n + 1 /\ t[n + 1] = x
      /\ \A i \in 1..n : t[i] = s[i]
  BY LenProperties, AppendProperties
<1>2. Range(s) = {s[i] : i \in 1..n}
  BY RangeEquality
<1> HIDE DEF t, n
<1>3. ASSUME Chain(t, R) PROVE Chain(s, R) /\ \A y \in Range(s) : <<y, x>> \in R
  <2>1. \A i, j \in 1..n : i \in 1..n + 1 /\ j \in 1..n + 1 /\ n + 1 \in 1..n + 1 /\ i < n + 1
    BY <1>1
  <2>2. \A i, j \in 1..n : i < j => <<s[i], s[j]>> \in R
    BY <1>1, <1>3, <2>1 DEF Chain
  <2>3. \A i \in 1..n : <<s[i], x>> \in R
    BY <1>1, <1>3, <2>1 DEF Chain
  <2>4. QED
    BY <1>2, <2>2, <2>3 DEF Chain, n
<1>4. ASSUME Chain(s, R), \A y \in Range(s) : <<y, x>> \in R PROVE Chain(t, R)
  <2> SUFFICES ASSUME NEW i \in 1..n + 1, NEW j \in 1..n + 1, i < j
               PROVE  <<t[i], t[j]>> \in R
    BY <1>1 DEF Chain
  <2>1. i \in 1..n /\ t[i] = s[i]
    BY <1>1
  <2>2. CASE j = n + 1
    BY <1>1, <1>2, <1>4, <2>1, <2>2
  <2>3. CASE j \in 1..n
    BY <1>1, <1>4, <2>1, <2>3 DEF Chain, n
  <2>4. QED
    BY <1>1, <2>2, <2>3
<1>5. QED
  BY <1>3, <1>4 DEF t

\* What is kept of a chain is a chain.
LEMMA KeepChain ==
  ASSUME NEW S, NEW s \in Seq(S), NEW K, NEW R, Chain(s, R)
  PROVE  Chain(Keep(s, K), R)
<1> DEFINE Good(r) == Chain(r, R) => Chain(Keep(r, K), R)
           P == {r \in Seq(S) : Good(r)}
<1>1. <<>> \in P
  BY KeepEmpty, EmptySeq
<1>2. ASSUME NEW r \in Seq(S) \intersect P, NEW x \in S PROVE Append(r, x) \in P
  <2>0. r \in Seq(S) /\ Good(r)
    OBVIOUS
  <2> DEFINE t == Append(r, x)
             k == Keep(r, K)
  <2> HIDE DEF P
  <2>1. r \in Seq(S) /\ Good(r)
    BY <2>0
  <2>2. t \in Seq(S)
    BY <2>1, AppendProperties
  <2>3. k \in Seq(S) /\ Keep(t, K) = IF x \in K THEN Append(k, x) ELSE k
    BY <2>1, KeepAppend
  <2>4. ASSUME Chain(t, R) PROVE Chain(Keep(t, K), R)
    <3>1. Chain(r, R) /\ \A y \in Range(r) : <<y, x>> \in R
      BY <2>1, <2>4, ChainAppend
    <3>2. Chain(k, R) /\ \A y \in Range(k) : <<y, x>> \in R
      BY <2>1, <3>1, KeepMembers
    <3> HIDE DEF t, k
    <3>3. Chain(Append(k, x), R)
      BY <2>3, <3>2, ChainAppend
    <3>4. QED
      BY <2>3, <3>2, <3>3
  <2>5. QED
    BY <2>2, <2>4 DEF P
<1>3. Seq(S) \subseteq P
  <2> HIDE DEF P
  <2> QED
    BY <1>1, <1>2, ListInduction
<1>4. QED
  BY <1>3

-----------------------------------------------------------------------------
(* Total.                                                                  *)

\* The function behind Total.
Summing(f, s) ==
  /\ f \in [0..Len(s) -> Nat]
  /\ f[0] = 0
  /\ \A i \in 1..Len(s) : f[i] = f[i - 1] + s[i]

\* Total is computed so.
LEMMA TotalRuns ==
  ASSUME NEW s \in Seq(Nat)
  PROVE  \E f : Summing(f, s) /\ Total(s) = f[Len(s)]
<1> DEFINE n == Len(s)
           g == [u \in Nat \X (1..n) |-> u[1] + s[u[2]]]
           step(f, i) == IF i = 0 THEN 0 ELSE f[i - 1] + s[i]
           F == CHOOSE f : f = [i \in 0..n |-> step(f, i)]
<1>1. n \in Nat /\ \A i \in 1..n : s[i] \in Nat
  BY ElementOfSeq
<1>2. /\ g \in [Nat \X (1..n) -> Nat]
      /\ \A u \in Nat, i \in 1..n : g[<<u, i>>] = u + s[i]
  <2>1. ASSUME NEW u \in Nat \X (1..n) PROVE u[1] + s[u[2]] \in Nat
    BY <1>1
  <2>2. g \in [Nat \X (1..n) -> Nat]
    BY ONLY <2>1
  <2>3. ASSUME NEW u \in Nat, NEW i \in 1..n PROVE g[<<u, i>>] = u + s[i]
    OBVIOUS
  <2>4. QED
    BY <2>2, <2>3
<1> HIDE DEF g
<1>3. PICK f : Computes(f, n, Nat, 0, g)
  <2> HIDE DEF n
  <2> QED
    BY <1>1, <1>2, Computable
<1>4. Summing(f, s)
  <2>1. f \in [0..n -> Nat] /\ f[0] = 0
    BY <1>3 DEF Computes
  <2>2. ASSUME NEW i \in 1..n PROVE f[i] = f[i - 1] + s[i]
    <3>1. f[i] = g[<<f[i - 1], i>>]
      BY <1>3 DEF Computes
    <3>2. i - 1 \in 0..n
      BY <1>1
    <3>3. f[i - 1] \in Nat
      BY <2>1, <3>2
    <3>4. QED
      BY <1>2, <3>1, <3>3
  <2>3. QED
    BY <2>1, <2>2 DEF Summing
<1>5. f = [i \in 0..n |-> step(f, i)]
  <2>1. f \in [0..n -> Nat]
    BY <1>4 DEF Summing
  <2>2. ASSUME NEW i \in 0..n PROVE f[i] = step(f, i)
    <3>1. i = 0 \/ i \in 1..n
      BY <1>1
    <3>2. QED
      BY <1>4, <3>1 DEF Summing
  <2> HIDE DEF step, n
  <2>3. QED
    BY <2>1, <2>2
<1>6. F = [i \in 0..n |-> step(F, i)]
  <2> HIDE DEF step, n
  <2> QED
    BY <1>5
<1>7. Total(s) = F[n]
  BY DEF Total
<1> HIDE DEF F
<1>8. F[n] = f[n]
  <2>1. F[0] = 0
    BY <1>1, <1>6
  <2>2. ASSUME NEW i \in 1..n, F[i - 1] \in Nat PROVE F[i] = g[<<F[i - 1], i>>]
    <3>1. i \in 0..n
      BY <1>1
    <3>2. F[i] = step(F, i)
      <4> HIDE DEF step, n
      <4> QED
        BY <1>6, <3>1
    <3>3. QED
      BY <1>2, <2>2, <3>2
  <2>3. \A i \in 0..n : F[i] = f[i]
    <3> DEFINE T == Nat
    <3>1. n \in T /\ Computes(f, n, T, 0, g)
      BY <1>1, <1>3
    <3>2. \A i \in 1..n : F[i - 1] \in T => F[i] = g[<<F[i - 1], i>>]
      BY <2>2
    <3> HIDE DEF T, n
    <3>3. QED
      BY <1>1, <2>1, <3>1, <3>2, ComputedOnce
  <2>4. QED
    BY <1>1, <2>3
<1>9. QED
  BY <1>4, <1>7, <1>8

\* A sum begins with nothing ...
LEMMA TotalEmpty == Total(<<>>) = 0
<1>1. <<>> \in Seq(Nat) /\ Len(<<>>) = 0
  BY EmptySeq
<1>2. PICK f : Summing(f, <<>>) /\ Total(<<>>) = f[Len(<<>>)]
  BY <1>1, TotalRuns
<1>3. QED
  BY <1>1, <1>2 DEF Summing

\* ... and grows by what is appended.
LEMMA TotalAppend ==
  ASSUME NEW s \in Seq(Nat), NEW x \in Nat
  PROVE  Total(s) \in Nat /\ Total(Append(s, x)) = Total(s) + x
<1> DEFINE t == Append(s, x)
           n == Len(s)
<1>1. /\ n \in Nat /\ t \in Seq(Nat) /\ Len(t) = n + 1 /\ t[n + 1] = x
      /\ \A i \in 1..n : t[i] = s[i]
  BY AppendProperties
<1> HIDE DEF t
<1>2. PICK f : Summing(f, s) /\ Total(s) = f[n]
  BY TotalRuns
<1>3. PICK h : Summing(h, t) /\ Total(t) = h[n + 1]
  BY <1>1, TotalRuns
<1> DEFINE A == {i \in Nat : i <= n => h[i] = f[i]}
<1>4. 0 \in A
  BY <1>2, <1>3 DEF Summing
<1>5. ASSUME NEW i \in A PROVE i + 1 \in A
  <2> SUFFICES ASSUME i + 1 <= n PROVE h[i + 1] = f[i + 1]
    OBVIOUS
  <2>1. i + 1 \in 1..n /\ i + 1 \in 1..Len(t) /\ (i + 1) - 1 = i /\ h[i] = f[i]
    BY <1>1
  <2>2. QED
    BY <1>1, <1>2, <1>3, <2>1 DEF Summing
<1>6. Nat \subseteq A
  <2> HIDE DEF A
  <2> QED
    BY <1>4, <1>5, Induction
<1>7. h[n] = f[n]
  BY <1>1, <1>6
<1>8. n + 1 \in 1..Len(t) /\ (n + 1) - 1 = n
  BY <1>1
<1>9. h[n + 1] = h[n] + x
  BY <1>1, <1>3, <1>8 DEF Summing
<1>10. Total(s) \in Nat
  BY <1>1, <1>2 DEF Summing
<1>11. QED
  BY <1>2, <1>3, <1>7, <1>9, <1>10 DEF t

-----------------------------------------------------------------------------
(* FlattenSeq.                                                             *)

\* The function behind FlattenSeq, begun one step earlier.
Flattening(f, ss, S) ==
  /\ f \in [0..Len(ss) -> Seq(S)]
  /\ f[0] = <<>>
  /\ \A i \in 1..Len(ss) : f[i] = f[i - 1] \o ss[i]

\* FlattenSeq is computed so.
LEMMA FlattenRuns ==
  ASSUME NEW S, NEW ss \in Seq(Seq(S)), ss # <<>>
  PROVE  \E f : Flattening(f, ss, S) /\ FlattenSeq(ss) = f[Len(ss)]
<1> DEFINE n == Len(ss)
           g == [u \in Seq(S) \X (1..n) |-> u[1] \o ss[u[2]]]
           step(f, i) == IF i = 1 THEN ss[i] ELSE f[i - 1] \o ss[i]
           F == CHOOSE f : f = [i \in 1..n |-> step(f, i)]
           H == [i \in 0..n |-> IF i = 0 THEN <<>> ELSE F[i]]
<1>1. n \in Nat /\ n > 0 /\ <<>> \in Seq(S) /\ \A i \in 1..n : ss[i] \in Seq(S)
  BY EmptySeq, ElementOfSeq
<1>2. /\ g \in [Seq(S) \X (1..n) -> Seq(S)]
      /\ \A u \in Seq(S), i \in 1..n : g[<<u, i>>] = u \o ss[i]
  <2>1. ASSUME NEW u \in Seq(S), NEW i \in 1..n PROVE u \o ss[i] \in Seq(S)
    BY <1>1, ConcatProperties
  <2>2. QED
    BY <2>1
<1> HIDE DEF g
<1>3. PICK f : Computes(f, n, Seq(S), <<>>, g)
  <2> HIDE DEF n
  <2> QED
    BY <1>1, <1>2, Computable
<1>4. Flattening(f, ss, S)
  <2>1. f \in [0..n -> Seq(S)] /\ f[0] = <<>>
    BY <1>3 DEF Computes
  <2>2. ASSUME NEW i \in 1..n PROVE f[i] = f[i - 1] \o ss[i]
    <3>1. f[i] = g[<<f[i - 1], i>>]
      BY <1>3 DEF Computes
    <3>2. i - 1 \in 0..n
      BY <1>1
    <3>3. f[i - 1] \in Seq(S)
      BY <2>1, <3>2
    <3>4. QED
      BY <1>2, <3>1, <3>3
  <2>3. QED
    BY <2>1, <2>2 DEF Flattening
<1>5. \E e : e = [i \in 1..n |-> step(e, i)]
  <2> DEFINE e == [i \in 1..n |-> f[i]]
  <2>1. ASSUME NEW i \in 1..n PROVE f[i] = step(e, i)
    <3>1. f[i] = f[i - 1] \o ss[i]
      BY <1>4 DEF Flattening
    <3>2. CASE i = 1
      <4>1. f[i - 1] = <<>>
        BY <1>4, <3>2 DEF Flattening
      <4>2. <<>> \o ss[i] = ss[i]
        BY <1>1, ConcatEmptySeq
      <4>3. QED
        BY <3>1, <3>2, <4>1, <4>2
    <3>3. CASE i # 1
      <4>1. i - 1 \in 1..n
        BY <1>1, <3>3
      <4>2. QED
        BY <3>1, <3>3, <4>1
    <3>4. QED
      BY <3>2, <3>3
  <2>2. e = [i \in 1..n |-> step(e, i)]
    <3> HIDE DEF step, n
    <3> QED
      BY <2>1
  <2> HIDE DEF e
  <2>3. QED
    BY <2>2
<1>6. F = [i \in 1..n |-> step(F, i)]
  <2> HIDE DEF step, n
  <2> QED
    BY <1>5
<1>7. FlattenSeq(ss) = F[n]
  BY <1>1 DEF FlattenSeq
<1> HIDE DEF F
<1>8. F[n] = f[n]
  <2>1. H[0] = <<>>
    BY <1>1
  <2>2. ASSUME NEW i \in 1..n, H[i - 1] \in Seq(S) PROVE H[i] = g[<<H[i - 1], i>>]
    <3>1. i \in 0..n /\ i - 1 \in 0..n /\ H[i] = F[i]
      BY <1>1
    <3>2. F[i] = step(F, i)
      <4> HIDE DEF step, n
      <4> QED
        BY <1>6, <3>1
    <3>3. F[i] = H[i - 1] \o ss[i]
      <4>1. CASE i = 1
        <5>1. H[i - 1] = <<>> /\ <<>> \o ss[i] = ss[i]
          BY <1>1, <4>1, ConcatEmptySeq
        <5>2. QED
          BY <3>2, <4>1, <5>1
      <4>2. CASE i # 1
        <5>1. H[i - 1] = F[i - 1]
          BY <3>1, <4>2
        <5>2. QED
          BY <3>2, <4>2, <5>1
      <4>3. QED
        BY <4>1, <4>2
    <3>4. QED
      BY <1>2, <2>2, <3>1, <3>3
  <2> HIDE DEF H
  <2>3. \A i \in 0..n : H[i] = f[i]
    <3> HIDE DEF n
    <3> QED
      BY <1>1, <1>3, <2>1, <2>2, ComputedOnce
  <2>4. H[n] = F[n]
    BY <1>1 DEF H
  <2>5. QED
    BY <1>1, <2>3, <2>4
<1>9. QED
  BY <1>4, <1>7, <1>8

\* Nothing flattened is nothing ...
LEMMA FlattenEmpty == FlattenSeq(<<>>) = <<>>
  BY EmptySeq DEF FlattenSeq

\* ... and one more list is appended to the others.
LEMMA FlattenAppend ==
  ASSUME NEW S, NEW ss \in Seq(Seq(S)), NEW s \in Seq(S)
  PROVE  /\ FlattenSeq(ss) \in Seq(S)
         /\ FlattenSeq(Append(ss, s)) = FlattenSeq(ss) \o s
<1> DEFINE tt == Append(ss, s)
           n  == Len(ss)
<1>1. /\ n \in Nat /\ tt \in Seq(Seq(S)) /\ Len(tt) = n + 1 /\ tt[n + 1] = s
      /\ \A i \in 1..n : tt[i] = ss[i]
  BY AppendProperties
<1> HIDE DEF tt
<1>2. tt # <<>>
  BY <1>1, EmptySeq
<1>3. PICK h : Flattening(h, tt, S) /\ FlattenSeq(tt) = h[n + 1]
  BY <1>1, <1>2, FlattenRuns
<1>4. \E f : Flattening(f, ss, S) /\ FlattenSeq(ss) = f[n]
  <2>1. CASE ss = <<>>
    <3>1. n = 0 /\ <<>> \in Seq(S)
      BY <2>1, EmptySeq
    <3>2. Flattening([i \in 0..0 |-> <<>>], ss, S)
      BY <3>1 DEF Flattening
    <3>3. FlattenSeq(ss) = [i \in 0..0 |-> <<>>][n]
      BY <2>1, <3>1, FlattenEmpty
    <3>4. QED
      BY <3>2, <3>3
  <2>2. CASE ss # <<>>
    BY <2>2, FlattenRuns
  <2>3. QED
    BY <2>1, <2>2
<1>5. PICK f : Flattening(f, ss, S) /\ FlattenSeq(ss) = f[n]
  BY <1>4
<1> DEFINE A == {i \in Nat : i <= n => h[i] = f[i]}
<1>6. 0 \in A
  BY <1>3, <1>5 DEF Flattening
<1>7. ASSUME NEW i \in A PROVE i + 1 \in A
  <2> SUFFICES ASSUME i + 1 <= n PROVE h[i + 1] = f[i + 1]
    OBVIOUS
  <2>1. i + 1 \in 1..n /\ i + 1 \in 1..Len(tt) /\ (i + 1) - 1 = i /\ h[i] = f[i]
    BY <1>1
  <2>2. QED
    BY <1>1, <1>3, <1>5, <2>1 DEF Flattening
<1>8. Nat \subseteq A
  <2> HIDE DEF A
  <2> QED
    BY <1>6, <1>7, Induction
<1>9. h[n] = f[n]
  BY <1>1, <1>8
<1>10. n + 1 \in 1..Len(tt) /\ (n + 1) - 1 = n
  BY <1>1
<1>11. h[n + 1] = h[n] \o s
  BY <1>1, <1>3, <1>10 DEF Flattening
<1>12. FlattenSeq(ss) \in Seq(S)
  <2>1. f \in [0..n -> Seq(S)] /\ n \in 0..n
    BY <1>1, <1>5 DEF Flattening
  <2> HIDE DEF n, A
  <2>2. QED
    BY <1>5, <2>1
<1>13. QED
  BY <1>3, <1>5, <1>9, <1>11, <1>12 DEF tt

-----------------------------------------------------------------------------
(* Arrange.                                                                *)

\* The ranks under an order are 0, 1, 2 and so on, each of one element.
LEMMA Ranks ==
  ASSUME NEW S, IsFiniteSet(S), NEW pairs, Orders(S, pairs)
  PROVE  /\ \A c \in S : Before(S, pairs, c) \in 0..Cardinality(S) - 1
         /\ \A c, d \in S : <<c, d>> \in pairs <=> Before(S, pairs, c) < Before(S, pairs, d)
         /\ \A c, d \in S : Before(S, pairs, c) = Before(S, pairs, d) => c = d
         /\ \A k \in 0..Cardinality(S) - 1 : \E c \in S : Before(S, pairs, c) = k
<1> DEFINE n == Cardinality(S)
           Below(c) == {d \in S : <<d, c>> \in pairs}
           rank(c) == Before(S, pairs, c)
<1>1. n \in Nat
  BY FS_CardinalityType
<1>2. ASSUME NEW c \in S
      PROVE  /\ IsFiniteSet(Below(c))
             /\ rank(c) = Cardinality(Below(c))
             /\ rank(c) \in 0..n - 1
  <2>1. Below(c) \in SUBSET S /\ c \notin Below(c)
    BY DEF Orders
  <2>2. /\ IsFiniteSet(Below(c))
        /\ Cardinality(Below(c)) <= n
        /\ n = Cardinality(Below(c)) => S = Below(c)
    BY <2>1, FS_Subset
  <2>3. Cardinality(Below(c)) \in Nat
    BY <2>2, FS_CardinalityType
  <2>4. rank(c) = Cardinality(Below(c))
    BY DEF Before
  <2>5. QED
    BY <1>1, <2>1, <2>2, <2>3, <2>4
<1>3. ASSUME NEW c \in S, NEW d \in S, <<c, d>> \in pairs
      PROVE  rank(c) < rank(d)
  <2>1. Below(c) \subseteq Below(d) /\ c \in Below(d) /\ c \notin Below(c)
    BY <1>3 DEF Orders
  <2> HIDE DEF Below
  <2>2. /\ Cardinality(Below(c)) <= Cardinality(Below(d))
        /\ Cardinality(Below(d)) = Cardinality(Below(c)) => Below(d) = Below(c)
    BY <1>2, <2>1, FS_Subset
  <2>3. rank(c) = Cardinality(Below(c)) /\ rank(d) = Cardinality(Below(d))
    BY <1>2
  <2>4. rank(c) \in Int /\ rank(d) \in Int
    BY <1>1, <1>2
  <2>5. QED
    BY <2>1, <2>2, <2>3, <2>4
<1> HIDE DEF rank, Below
<1>4. \A c, d \in S : <<c, d>> \in pairs <=> rank(c) < rank(d)
  <2> SUFFICES ASSUME NEW c \in S, NEW d \in S, rank(c) < rank(d)
               PROVE  <<c, d>> \in pairs
    BY <1>3
  <2>1. rank(c) \in Int /\ rank(d) \in Int
    BY <1>1, <1>2
  <2>2. c # d /\ <<d, c>> \notin pairs
    BY <1>3, <2>1
  <2>3. QED
    BY <2>2 DEF Orders
<1>5. \A c, d \in S : rank(c) = rank(d) => c = d
  <2> SUFFICES ASSUME NEW c \in S, NEW d \in S, rank(c) = rank(d)
               PROVE  c = d
    OBVIOUS
  <2>1. rank(c) \in Int /\ rank(d) \in Int
    BY <1>1, <1>2
  <2>2. ~ (rank(c) < rank(d)) /\ ~ (rank(d) < rank(c))
    BY <2>1
  <2>3. <<c, d>> \notin pairs /\ <<d, c>> \notin pairs
    BY <1>4, <2>2
  <2>4. QED
    BY <2>3 DEF Orders
<1>6. \A k \in 0..n - 1 : \E c \in S : rank(c) = k
  <2> DEFINE f == [c \in S |-> rank(c)]
  <2>1. f \in Injection(S, 0..n - 1)
    BY <1>2, <1>5 DEF Injection, IsInjective
  <2>2. IsFiniteSet(0..n - 1) /\ Cardinality(0..n - 1) = n
    BY <1>1, FS_Interval
  <2>3. f \in Surjection(S, 0..n - 1)
    <3> HIDE DEF f
    <3> QED
      BY <2>1, <2>2, FS_Injection
  <2>4. QED
    BY <2>3 DEF Surjection
<1>7. QED
  BY <1>2, <1>4, <1>5, <1>6 DEF rank

\* Arrange lists the elements of a finite set, each once, in their order.
LEMMA ArrangeProperties ==
  ASSUME NEW S, IsFiniteSet(S), NEW pairs, Orders(S, pairs)
  PROVE  /\ Cardinality(S) \in Nat
         /\ Arrange(S, pairs) \in [1..Cardinality(S) -> S]
         /\ Arrange(S, pairs) \in Seq(S)
         /\ Len(Arrange(S, pairs)) = Cardinality(S)
         /\ \A c \in S : \E k \in 1..Cardinality(S) : Arrange(S, pairs)[k] = c
         /\ \A i, j \in 1..Cardinality(S) :
              i < j <=> <<Arrange(S, pairs)[i], Arrange(S, pairs)[j]>> \in pairs
         /\ \A i, j \in 1..Cardinality(S) :
              Arrange(S, pairs)[i] = Arrange(S, pairs)[j] => i = j
<1> DEFINE n == Cardinality(S)
           a == Arrange(S, pairs)
           rank(c) == Before(S, pairs, c)
<1>1. n \in Nat
  BY FS_CardinalityType
<1>2. /\ \A c \in S : rank(c) \in 0..n - 1
      /\ \A c, d \in S : <<c, d>> \in pairs <=> rank(c) < rank(d)
      /\ \A c, d \in S : rank(c) = rank(d) => c = d
      /\ \A k \in 0..n - 1 : \E c \in S : rank(c) = k
  BY Ranks
<1>3. a = [k \in 1..n |-> CHOOSE c \in S : rank(c) = k - 1]
  BY DEF Arrange
<1> HIDE DEF rank, a, n
<1>4. ASSUME NEW k \in 1..n PROVE a[k] \in S /\ rank(a[k]) = k - 1
  <2>1. k - 1 \in 0..n - 1
    BY <1>1
  <2>2. \E c \in S : rank(c) = k - 1
    BY <1>2, <2>1
  <2>3. a[k] = CHOOSE c \in S : rank(c) = k - 1
    BY <1>3
  <2>4. QED
    BY <2>2, <2>3
<1>5. a \in [1..n -> S]
  BY <1>3, <1>4
<1>6. a \in Seq(S) /\ Len(a) = n
  BY <1>1, <1>5
<1>7. ASSUME NEW c \in S PROVE \E k \in 1..n : a[k] = c
  <2>1. rank(c) + 1 \in 1..n /\ (rank(c) + 1) - 1 = rank(c)
    BY <1>1, <1>2
  <2>2. a[rank(c) + 1] \in S /\ rank(a[rank(c) + 1]) = rank(c)
    BY <1>4, <2>1
  <2>3. QED
    BY <1>2, <2>1, <2>2
<1>8. \A i, j \in 1..n : i < j <=> <<a[i], a[j]>> \in pairs
  <2> SUFFICES ASSUME NEW i \in 1..n, NEW j \in 1..n
               PROVE  i < j <=> <<a[i], a[j]>> \in pairs
    OBVIOUS
  <2>1. rank(a[i]) = i - 1 /\ rank(a[j]) = j - 1 /\ a[i] \in S /\ a[j] \in S
    BY <1>4
  <2>2. i < j <=> i - 1 < j - 1
    BY <1>1
  <2>3. QED
    BY <1>2, <2>1, <2>2
<1>9. \A i, j \in 1..n : a[i] = a[j] => i = j
  <2> SUFFICES ASSUME NEW i \in 1..n, NEW j \in 1..n, a[i] = a[j]
               PROVE  i = j
    OBVIOUS
  <2>1. i - 1 = j - 1
    BY <1>4
  <2>2. QED
    BY <1>1, <2>1
<1>10. QED
  BY <1>1, <1>5, <1>6, <1>7, <1>8, <1>9 DEF a, n

-----------------------------------------------------------------------------
(* Lists of lists.                                                         *)

\* The sum of what the elements of a list weigh.
TotalOf(w, s) == Total([i \in 1..Len(s) |-> w[s[i]]])

\* One more element adds its weight.
LEMMA TotalOfAppend ==
  ASSUME NEW S, NEW w \in [S -> Nat], NEW s \in Seq(S), NEW x \in S
  PROVE  /\ TotalOf(w, <<>>) = 0
         /\ TotalOf(w, s) \in Nat
         /\ TotalOf(w, Append(s, x)) = TotalOf(w, s) + w[x]
         /\ TotalOf(w, <<x>>) = w[x]
<1> DEFINE weights(r) == [i \in 1..Len(r) |-> w[r[i]]]
<1>1. \A r : TotalOf(w, r) = Total(weights(r))
  BY DEF TotalOf
<1>2. ASSUME NEW r \in Seq(S)
      PROVE  /\ weights(r) \in Seq(Nat)
             /\ weights(Append(r, x)) = Append(weights(r), w[x])
  <2> DEFINE n == Len(r)
             t == Append(r, x)
             v == weights(r)
             y == w[x]
             u == weights(t)
  <2>1. n \in Nat /\ \A i \in 1..n : r[i] \in S
    BY ElementOfSeq
  <2>2. t \in Seq(S) /\ Len(t) = n + 1 /\ t[n + 1] = x /\ \A i \in 1..n : t[i] = r[i]
    BY AppendProperties
  <2>3. v \in Seq(Nat) /\ Len(v) = n /\ (\A i \in 1..n : v[i] = w[r[i]]) /\ y \in Nat
    BY <2>1
  <2>4. u \in Seq(Nat) /\ Len(u) = n + 1 /\ \A i \in 1..n + 1 : u[i] = w[t[i]]
    <3>1. \A i \in 1..n + 1 : t[i] \in S
      BY <2>2, ElementOfSeq
    <3> HIDE DEF t, n
    <3>2. QED
      BY <2>1, <2>2, <3>1
  <2> HIDE DEF v, y, u, t, n
  <2>5. /\ Append(v, y) \in Seq(Nat) /\ Len(Append(v, y)) = n + 1
        /\ Append(v, y)[n + 1] = y
        /\ \A i \in 1..n : Append(v, y)[i] = v[i]
    BY <2>3, AppendProperties
  <2>6. \A i \in 1..n + 1 : u[i] = Append(v, y)[i]
    <3> SUFFICES ASSUME NEW i \in 1..n + 1 PROVE u[i] = Append(v, y)[i]
      OBVIOUS
    <3>1. CASE i = n + 1
      BY <2>2, <2>4, <2>5, <3>1 DEF y
    <3>2. CASE i # n + 1
      <4>1. i \in 1..n
        BY <2>1, <3>2
      <4>2. Append(v, y)[i] = v[i] /\ t[i] = r[i]
        BY <2>2, <2>5, <4>1
      <4>3. u[i] = w[t[i]] /\ v[i] = w[r[i]]
        BY <2>3, <2>4, <4>1
      <4>4. QED
        BY <4>2, <4>3
    <3>3. QED
      BY <3>1, <3>2
  <2>7. u = Append(v, y)
    BY <2>4, <2>5, <2>6, SeqEqual
  <2>8. QED
    BY <2>3, <2>7 DEF v, y, u, t
<1>3. weights(<<>>) = <<>> /\ <<>> \in Seq(S) /\ <<>> \in Seq(Nat) /\ Append(<<>>, x) = <<x>>
  BY EmptySeq
<1> HIDE DEF weights
<1>4. TotalOf(w, <<>>) = 0
  BY <1>1, <1>3, TotalEmpty
<1>5. ASSUME NEW r \in Seq(S)
      PROVE  TotalOf(w, r) \in Nat /\ TotalOf(w, Append(r, x)) = TotalOf(w, r) + w[x]
  <2> DEFINE v == weights(r)
             y == w[x]
  <2>1. v \in Seq(Nat) /\ y \in Nat
    BY <1>2
  <2> HIDE DEF v, y
  <2>2. Total(v) \in Nat /\ Total(Append(v, y)) = Total(v) + y
    BY <2>1, TotalAppend
  <2>3. QED
    BY <1>1, <1>2, <2>2 DEF v, y
<1>6. TotalOf(w, <<x>>) = w[x]
  <2>1. TotalOf(w, <<x>>) = 0 + w[x] /\ w[x] \in Nat
    BY <1>3, <1>4, <1>5
  <2> DEFINE y == w[x]
  <2> HIDE DEF y
  <2>2. QED
    BY <2>1 DEF y
<1>7. QED
  BY <1>4, <1>5, <1>6

\* A list of elements of F of which any two neighbours are in R.
Linked(c, F, R) == \A i \in 1..Len(c) : c[i] \in F /\ (i < Len(c) => <<c[i], c[i + 1]>> \in R)

\* One more element keeps it such a list if it is in F and may follow the last.
LEMMA LinkedAppend ==
  ASSUME NEW S, NEW c \in Seq(S), NEW x \in S, NEW F, NEW R
  PROVE  Linked(Append(c, x), F, R) <=>
           Linked(c, F, R) /\ x \in F /\ (c # <<>> => <<c[Len(c)], x>> \in R)
<1> DEFINE n == Len(c)
           d == Append(c, x)
<1>1. /\ n \in Nat /\ Len(d) = n + 1 /\ d[n + 1] = x
      /\ \A i \in 1..n : d[i] = c[i]
  BY AppendProperties
<1>2. c = <<>> <=> n = 0
  BY EmptySeq
<1> HIDE DEF d, n
<1>3. Linked(c, F, R) <=> \A i \in 1..n : c[i] \in F /\ (i < n => <<c[i], c[i + 1]>> \in R)
  BY DEF Linked, n
<1>4. Linked(d, F, R) <=>
        \A i \in 1..n + 1 : d[i] \in F /\ (i < n + 1 => <<d[i], d[i + 1]>> \in R)
  BY <1>1 DEF Linked
<1>5. ASSUME Linked(d, F, R)
      PROVE  Linked(c, F, R) /\ x \in F /\ (n # 0 => <<c[n], x>> \in R)
  <2>1. x \in F
    <3>1. n + 1 \in 1..n + 1
      BY <1>1
    <3>2. d[n + 1] \in F
      BY <1>4, <1>5, <3>1
    <3>3. QED
      BY <1>1, <3>2
  <2>2. n # 0 => <<c[n], x>> \in R
    <3> SUFFICES ASSUME n # 0 PROVE <<c[n], x>> \in R
      OBVIOUS
    <3>1. n \in 1..n + 1 /\ n \in 1..n /\ n < n + 1
      BY <1>1
    <3>2. QED
      BY <1>1, <1>4, <1>5, <3>1
  <2>3. ASSUME NEW i \in 1..n PROVE c[i] \in F /\ (i < n => <<c[i], c[i + 1]>> \in R)
    <3>1. i \in 1..n + 1 /\ i < n + 1 /\ (i < n => i + 1 \in 1..n)
      BY <1>1
    <3>2. QED
      BY <1>1, <1>4, <1>5, <3>1
  <2>4. QED
    BY <1>3, <2>1, <2>2, <2>3
<1>6. ASSUME Linked(c, F, R), x \in F, n # 0 => <<c[n], x>> \in R
      PROVE  Linked(d, F, R)
  <2> SUFFICES ASSUME NEW i \in 1..n + 1
               PROVE  d[i] \in F /\ (i < n + 1 => <<d[i], d[i + 1]>> \in R)
    BY <1>4
  <2>1. CASE i = n + 1
    BY <1>1, <1>6, <2>1
  <2>2. CASE i = n /\ n # 0
    <3>1. i \in 1..n /\ ~ (i < n) /\ i + 1 = n + 1
      BY <1>1, <2>2
    <3>2. QED
      BY <1>1, <1>3, <1>6, <2>2, <3>1
  <2>3. CASE i < n
    <3>1. i \in 1..n /\ i + 1 \in 1..n
      BY <1>1, <2>3
    <3>2. QED
      BY <1>1, <1>3, <1>6, <2>3, <3>1
  <2>4. QED
    BY <1>1, <2>1, <2>2, <2>3
<1>7. QED
  BY <1>2, <1>5, <1>6 DEF d, n

\* A new list of one element appends it to all.
LEMMA FlattenBegins ==
  ASSUME NEW S, NEW c \in Seq(Seq(S)), NEW p \in S
  PROVE  FlattenSeq(Append(c, <<p>>)) = Append(FlattenSeq(c), p)
<1> DEFINE f == FlattenSeq(c)
           one == <<p>>
           none == <<>>
<1>1. /\ none \in Seq(S) /\ Append(none, p) = one /\ one \in Seq(S)
      /\ \A a \in Seq(S) : a \o none = a
  BY EmptySeq, ConcatEmptySeq
<1>2. \A a, b \in Seq(S), q \in S : a \o Append(b, q) = Append(a \o b, q)
  BY AppendToConcat
<1>3. f \in Seq(S) /\ FlattenSeq(Append(c, one)) = f \o one
  BY <1>1, FlattenAppend
<1> HIDE DEF f, one, none
<1>4. f \o one = Append(f \o none, p)
  BY <1>1, <1>2, <1>3
<1>5. f \o none = f
  BY <1>1, <1>3
<1>6. QED
  BY <1>3, <1>4, <1>5 DEF f, one
=============================================================================
