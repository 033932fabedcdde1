---------------------------- MODULE AnswerProofs ----------------------------
(***************************************************************************)
(* Proofs about the answer to one question.  Retrieval, for every set of   *)
(* chunks, every trust weight and every number of hits and of rebuilds:    *)
(* what is quoted, lost and ranked.  Answer above it, for every moment, past *)
(* and limit: that it searches as Retrieval says, that its variables have  *)
(* their types, and, by way of lemmas about days, weeks, months and years, *)
(* that an answer about a period covers the period people mean.            *)
(***************************************************************************)
EXTENDS Answer, ListLemmas, TLAPS

-----------------------------------------------------------------------------
(* Lists of hits.                                                          *)

\* What is told of a list of hits: chunks, none of them twice, TopK at most.
LEMMA HitsAre ==
  \A s : s \in Hits <=> s \in Seq(Chunks) /\ Len(s) <= TopK /\ Distinct(s)
<1> DEFINE C == Chunks
<1>0. TopK \in Nat
  BY RetrievalAssumption
<1>1. Hits = {s \in UNION {[1..m -> C] : m \in 0..TopK} : IsInjective(s)}
  BY DEF Hits, BoundedSeq, SeqOf
<1> HIDE DEF C
<1>2. ASSUME NEW s, s \in Hits PROVE s \in Seq(C) /\ Len(s) <= TopK /\ Distinct(s)
  <2>1. PICK m \in 0..TopK : s \in [1..m -> C]
    BY <1>1, <1>2
  <2>2. s \in Seq(C) /\ Len(s) = m /\ DOMAIN s = 1..m
    BY <1>0, <2>1
  <2>3. IsInjective(s)
    BY <1>1, <1>2
  <2>4. QED
    BY <1>0, <2>2, <2>3 DEF IsInjective, Distinct
<1>3. ASSUME NEW s, s \in Seq(C), Len(s) <= TopK, Distinct(s) PROVE s \in Hits
  <2>1. Len(s) \in 0..TopK /\ s \in [1..Len(s) -> C] /\ DOMAIN s = 1..Len(s)
    BY <1>0, <1>3, LenProperties
  <2>2. IsInjective(s)
    BY <1>3, <2>1 DEF IsInjective, Distinct
  <2>3. QED
    BY <1>1, <2>1, <2>2
<1>4. QED
  BY <1>2, <1>3 DEF C

\* A list without repetitions has each of its elements in one place.
LEMMA PlaceOf ==
  ASSUME NEW S, NEW s \in Seq(S), Distinct(s)
  PROVE  /\ \A i \in 1..Len(s) : Place(s, s[i]) = i
         /\ \A c \in Range(s) : Place(s, c) \in 1..Len(s) /\ s[Place(s, c)] = c
         /\ \A c : c \notin Range(s) => Place(s, c) = 0
<1> DEFINE n == Len(s)
           At(c) == {i \in 1..n : s[i] = c}
<1>1. n \in Nat /\ Range(s) = {s[i] : i \in 1..n}
  BY LenProperties DEF Range
<1>2. \A c : Place(s, c) = IF At(c) # {} THEN Min(At(c)) ELSE 0
  BY DEF Place, SelectInSeq
<1>3. ASSUME NEW i \in 1..n PROVE Place(s, s[i]) = i
  <2>1. At(s[i]) = {i}
    BY DEF Distinct
  <2> HIDE DEF At
  <2>2. Min({i}) = i
    BY <1>1 DEF Min
  <2>3. QED
    BY <1>2, <2>1, <2>2
<1>4. ASSUME NEW c \in Range(s) PROVE Place(s, c) \in 1..n /\ s[Place(s, c)] = c
  <2>1. PICK i \in 1..n : c = s[i]
    BY <1>1
  <2>2. QED
    BY <1>3, <2>1
<1>5. ASSUME NEW c, c \notin Range(s) PROVE Place(s, c) = 0
  <2>1. At(c) = {}
    BY <1>1, <1>5
  <2>2. QED
    BY <1>2, <2>1
<1>6. QED
  BY <1>3, <1>4, <1>5 DEF n

-----------------------------------------------------------------------------
(* Shares.                                                                 *)

\* Facts about products.
LEMMA Products ==
  ASSUME NEW a \in Nat, NEW b \in Nat, NEW m \in Nat \ {0}
  PROVE  /\ a * m \in Nat
         /\ a > 0 => a * m > 0
         /\ a > b <=> a * m > b * m
         /\ m * a = a * m
         /\ (a * b) * m = (a * m) * b
  BY SMT

\* The function behind Share.
Multiplying(f, rank) ==
  /\ f \in [0..TopK -> Nat]
  /\ f[0] = 1
  /\ \A i \in 1..TopK : f[i] = f[i - 1] * (IF i = rank THEN 1 ELSE RrfK + i)

\* Share multiplies the denominators of the other ranks.
LEMMA ShareRuns ==
  ASSUME NEW rank \in 1..TopK
  PROVE  \E f : Multiplying(f, rank) /\ Share[rank] = f[TopK]
<1> DEFINE by(i) == IF i = rank THEN 1 ELSE RrfK + i
           n == TopK
           g == [u \in Nat \X (1..n) |-> u[1] * by(u[2])]
           step(f, i) == IF i = 0 THEN 1 ELSE f[i - 1] * by(i)
           F == CHOOSE f : f = [i \in 0..n |-> step(f, i)]
<1>1. n \in Nat /\ RrfK \in Nat
  BY RetrievalAssumption
<1>2. \A i \in 1..n : by(i) \in Nat \ {0}
  BY <1>1
<1>3. Share[rank] = F[n]
  BY DEF Share
<1> HIDE DEF by
<1>4. \A u \in Nat, i \in 1..n : u * by(i) \in Nat
  BY <1>2, Products
<1>5. /\ g \in [Nat \X (1..n) -> Nat]
      /\ \A u \in Nat, i \in 1..n : g[<<u, i>>] = u * by(i)
  BY <1>4
<1> HIDE DEF g
<1>6. PICK f : Computes(f, n, Nat, 1, g)
  <2> DEFINE one == 1
  <2>1. one \in Nat
    OBVIOUS
  <2> HIDE DEF n, one
  <2>2. \E f : Computes(f, n, Nat, one, g)
    BY <1>1, <1>5, <2>1, Computable
  <2>3. QED
    BY <2>2 DEF one
<1>7. f \in [0..n -> Nat] /\ f[0] = 1
  BY <1>6 DEF Computes
<1>8. ASSUME NEW i \in 1..n PROVE f[i] = f[i - 1] * by(i)
  <2>1. f[i] = g[<<f[i - 1], i>>]
    BY <1>6 DEF Computes
  <2>2. i - 1 \in 0..n
    BY <1>1
  <2>3. f[i - 1] \in Nat
    BY <1>7, <2>2
  <2>4. QED
    BY <1>5, <2>1, <2>3
<1>9. Multiplying(f, rank)
  BY <1>7, <1>8 DEF Multiplying, by
<1>10. f = [i \in 0..n |-> step(f, i)]
  <2>1. ASSUME NEW i \in 0..n PROVE f[i] = step(f, i)
    <3>1. i = 0 \/ i \in 1..n
      BY <1>1
    <3>2. i \in 1..n => i # 0
      BY <1>1
    <3>3. QED
      BY <1>7, <1>8, <3>1, <3>2
  <2> HIDE DEF step, n
  <2>2. QED
    BY <1>7, <2>1
<1>11. F = [i \in 0..n |-> step(F, i)]
  <2> HIDE DEF step, n
  <2> QED
    BY <1>10
<1> HIDE DEF F
<1>12. F[0] = 1
  BY <1>1, <1>11
<1>13. ASSUME NEW i \in 1..n, F[i - 1] \in Nat PROVE F[i] = g[<<F[i - 1], i>>]
  <2>1. i \in 0..n /\ i # 0
    BY <1>1
  <2>2. F[i] = step(F, i)
    <3> HIDE DEF step, n
    <3> QED
      BY <1>11, <2>1
  <2>3. QED
    BY <1>5, <1>13, <2>1, <2>2
<1>14. F[n] = f[n]
  <2> DEFINE T == Nat
             one == 1
  <2>1. n \in T /\ Computes(f, n, T, one, g) /\ F[0] = one
    BY <1>1, <1>6, <1>12
  <2>2. \A i \in 1..n : F[i - 1] \in T => F[i] = g[<<F[i - 1], i>>]
    BY <1>13
  <2> HIDE DEF T, n, one
  <2>3. \A i \in 0..n : F[i] = f[i]
    BY <1>1, <2>1, <2>2, ComputedOnce
  <2>4. n \in 0..n
    BY <1>1
  <2>5. QED
    BY <2>3, <2>4
<1>15. QED
  BY <1>3, <1>9, <1>14

\* The earlier a hit in a list, the larger its share.
LEMMA ShareFalls ==
  /\ \A r \in 1..TopK : Share[r] \in Nat /\ Share[r] > 0
  /\ \A r, s \in 1..TopK : r < s => Share[r] > Share[s]
<1> DEFINE n == TopK
           by(i, r) == IF i = r THEN 1 ELSE RrfK + i
<1>1. n \in Nat /\ RrfK \in Nat
  BY RetrievalAssumption
<1>2. \A i \in 1..n : \A r : by(i, r) \in Nat \ {0}
  BY <1>1
<1>3. ASSUME NEW r \in 1..n, NEW s \in 1..n, r < s
      PROVE  Share[r] \in Nat /\ Share[r] > Share[s]
  <2>1. PICK f : Multiplying(f, r) /\ Share[r] = f[n]
    BY ShareRuns
  <2>2. PICK h : Multiplying(h, s) /\ Share[s] = h[n]
    BY ShareRuns
  <2> DEFINE P(i) == /\ f[i] \in Nat /\ h[i] \in Nat /\ f[i] > 0
                     /\ i < r => f[i] = h[i]
                     /\ r <= i /\ i < s => h[i] = f[i] * (RrfK + r)
                     /\ s <= i => f[i] > h[i]
             A == {i \in Nat : i <= n => P(i)}
  <2>3. 0 \in A
    BY <1>1, <2>1, <2>2 DEF Multiplying
  <2>4. ASSUME NEW i \in A PROVE i + 1 \in A
    <3> SUFFICES ASSUME i + 1 <= n PROVE P(i + 1)
      OBVIOUS
    <3> DEFINE k == i + 1
               m == RrfK + k
               d == RrfK + r
    <3>1. i \in Nat /\ P(i) /\ k \in 1..n /\ k - 1 = i
      BY <1>1
    <3>2. /\ f[k] = f[i] * (IF k = r THEN 1 ELSE m)
          /\ h[k] = h[i] * (IF k = s THEN 1 ELSE m)
      BY <2>1, <2>2, <3>1 DEF Multiplying
    <3>3. m \in Nat \ {0} /\ d \in Nat \ {0} /\ (r < k => d < m)
      BY <1>1, <3>1
    <3>4. k \in Int /\ r \in Int /\ s \in Int /\ r < s
      BY <1>1, <1>3, <3>1
    <3>5. /\ i < r => f[i] = h[i]
          /\ r <= i /\ i < s => h[i] = f[i] * d
          /\ s <= i => f[i] > h[i]
          /\ f[i] \in Nat /\ h[i] \in Nat /\ f[i] > 0
      BY <3>1
    <3>6. /\ f[k] = (IF k = r THEN f[i] ELSE f[i] * m)
          /\ h[k] = (IF k = s THEN h[i] ELSE h[i] * m)
      BY <3>2, <3>5
    <3>7. /\ f[i] * m \in Nat /\ h[i] * m \in Nat /\ f[i] * m > 0
          /\ f[i] > h[i] => f[i] * m > h[i] * m
          /\ (f[i] * d) * m = (f[i] * m) * d
          /\ f[i] * d \in Nat
      BY <3>3, <3>5, Products
    <3>8. d < m => f[i] * d < f[i] * m
      <4>1. f[i] \in Nat \ {0}
        BY <3>5
      <4>2. d < m => d * f[i] < m * f[i]
        BY <3>3, <4>1, Products
      <4>3. d * f[i] = f[i] * d /\ m * f[i] = f[i] * m
        BY <3>3, <3>5, Products
      <4>4. QED
        BY <4>2, <4>3
    <3> HIDE DEF m, d
    <3>9. f[k] \in Nat /\ h[k] \in Nat /\ f[k] > 0
      BY <3>5, <3>6, <3>7
    <3>10. k < r => f[k] = h[k]
      <4> SUFFICES ASSUME k < r PROVE f[k] = h[k]
        OBVIOUS
      <4>1. i < r /\ k # r /\ k # s
        BY <3>1, <3>4
      <4>2. QED
        BY <3>5, <3>6, <4>1
    <3>11. r <= k /\ k < s => h[k] = f[k] * d
      <4> SUFFICES ASSUME r <= k, k < s PROVE h[k] = f[k] * d
        OBVIOUS
      <4>1. k # s
        BY <3>1, <3>4
      <4>2. CASE k = r
        <5>1. i < r /\ m = d
          BY <3>1, <3>4, <4>2 DEF m, d
        <5>2. QED
          BY <3>5, <3>6, <4>1, <4>2, <5>1
      <4>3. CASE k # r
        <5>1. r <= i /\ i < s
          BY <3>1, <3>4, <4>3
        <5>2. QED
          BY <3>5, <3>6, <3>7, <4>1, <4>3, <5>1
      <4>4. QED
        BY <4>2, <4>3
    <3>12. s <= k => f[k] > h[k]
      <4> SUFFICES ASSUME s <= k PROVE f[k] > h[k]
        OBVIOUS
      <4>1. k # r /\ r < k
        BY <3>1, <3>4
      <4>2. CASE k = s
        <5>1. r <= i /\ i < s
          BY <3>1, <3>4, <4>2
        <5>2. f[k] = f[i] * m /\ h[k] = f[i] * d
          BY <3>5, <3>6, <4>1, <4>2, <5>1
        <5>3. QED
          BY <3>3, <3>7, <3>8, <4>1, <5>2
      <4>3. CASE k # s
        <5>1. s <= i
          BY <3>1, <3>4, <4>3
        <5>2. QED
          BY <3>5, <3>6, <3>7, <4>1, <4>3, <5>1
      <4>4. QED
        BY <4>2, <4>3
    <3>13. QED
      BY <3>9, <3>10, <3>11, <3>12 DEF d
  <2>5. Nat \subseteq A
    <3> HIDE DEF A
    <3> QED
      BY <2>3, <2>4, Induction
  <2>6. P(n)
    BY <1>1, <2>5
  <2>7. s <= n
    BY <1>1
  <2>8. QED
    BY <2>1, <2>2, <2>6, <2>7
<1>4. ASSUME NEW r \in 1..n PROVE Share[r] \in Nat /\ Share[r] > 0
  <2>1. PICK f : Multiplying(f, r) /\ Share[r] = f[n]
    BY ShareRuns
  <2> DEFINE A == {i \in Nat : i <= n => f[i] \in Nat /\ f[i] > 0}
  <2>2. 0 \in A
    BY <2>1 DEF Multiplying
  <2>3. ASSUME NEW i \in A PROVE i + 1 \in A
    <3> SUFFICES ASSUME i + 1 <= n PROVE f[i + 1] \in Nat /\ f[i + 1] > 0
      OBVIOUS
    <3>1. i + 1 \in 1..n /\ (i + 1) - 1 = i /\ f[i] \in Nat /\ f[i] > 0
      BY <1>1
    <3>2. f[i + 1] = f[i] * by(i + 1, r)
      BY <2>1, <3>1 DEF Multiplying
    <3>3. by(i + 1, r) \in Nat \ {0}
      BY <1>2, <3>1
    <3> HIDE DEF by
    <3>4. QED
      BY <3>1, <3>2, <3>3, Products
  <2>4. Nat \subseteq A
    <3> HIDE DEF A
    <3> QED
      BY <2>2, <2>3, Induction
  <2>5. QED
    BY <1>1, <2>1, <2>4
<1>5. QED
  BY <1>3, <1>4
-----------------------------------------------------------------------------
(* The fused list.                                                         *)

\* What was found are finitely many chunks, with scores that are numbers and, from
\* then on, places of their own.
LEMMA FoundFacts ==
  ASSUME near \in Hits, matching \in Hits
  PROVE  /\ Found \subseteq Chunks
         /\ IsFiniteSet(Found)
         /\ \A c : Score(c) \in Nat
         /\ \A c \in Found : Arrival(c) \in Nat
         /\ \A c, d \in Found : Arrival(c) = Arrival(d) => c = d
<1>1. /\ near \in Seq(Chunks) /\ Len(near) <= TopK /\ Distinct(near)
      /\ matching \in Seq(Chunks) /\ Len(matching) <= TopK /\ Distinct(matching)
  BY HitsAre
<1>2. TopK \in Nat /\ Len(near) \in Nat /\ Len(matching) \in Nat
  BY <1>1, RetrievalAssumption
<1>3. /\ \A c \in Range(near) : Place(near, c) \in 1..Len(near) /\ near[Place(near, c)] = c
      /\ \A c \in Range(matching) :
           /\ Place(matching, c) \in 1..Len(matching)
           /\ matching[Place(matching, c)] = c
  BY <1>1, PlaceOf
<1>4. Found \subseteq Chunks
  <2>1. Range(near) \subseteq Chunks /\ Range(matching) \subseteq Chunks
    BY <1>1 DEF Range
  <2>2. QED
    BY <2>1 DEF Found
<1>5. IsFiniteSet(Found)
  <2>1. IsFiniteSet(Range(near)) /\ IsFiniteSet(Range(matching))
    BY <1>1, RangeFinite
  <2>2. QED
    BY <2>1, FS_Union DEF Found
<1>6. ASSUME NEW c PROVE Score(c) \in Nat
  <2>1. /\ c \in Range(near) => Share[Place(near, c)] \in Nat
        /\ c \in Range(matching) => Share[Place(matching, c)] \in Nat
    <3>1. /\ c \in Range(near) => Place(near, c) \in 1..TopK
          /\ c \in Range(matching) => Place(matching, c) \in 1..TopK
      BY <1>1, <1>2, <1>3
    <3>2. QED
      BY <3>1, ShareFalls
  <2>2. ScoreIn(near, c) \in Nat /\ ScoreIn(matching, c) \in Nat
    BY <2>1 DEF ScoreIn
  <2>3. QED
    BY <2>2 DEF Score
<1>7. \A c \in Found :
        /\ c \in Range(near) => Arrival(c) = Place(near, c)
        /\ c \notin Range(near) =>
             c \in Range(matching) /\ Arrival(c) = Len(near) + Place(matching, c)
  BY DEF Found, Arrival
<1>8. ASSUME NEW c \in Found, NEW d \in Found, Arrival(c) = Arrival(d) PROVE c = d
  <2>1. CASE c \in Range(near) /\ d \in Range(near)
    <3>1. Place(near, c) = Place(near, d)
      BY <1>7, <1>8, <2>1
    <3>2. near[Place(near, c)] = c /\ near[Place(near, d)] = d
      BY <1>3, <2>1
    <3>3. QED
      BY <3>1, <3>2
  <2>2. CASE c \notin Range(near) /\ d \notin Range(near)
    <3>1. Len(near) + Place(matching, c) = Len(near) + Place(matching, d)
      BY <1>7, <1>8, <2>2
    <3>2. /\ Place(matching, c) \in Nat /\ Place(matching, d) \in Nat
          /\ matching[Place(matching, c)] = c /\ matching[Place(matching, d)] = d
      BY <1>2, <1>3, <1>7, <2>2
    <3>3. Place(matching, c) = Place(matching, d)
      BY <1>2, <3>1, <3>2
    <3>4. QED
      BY <3>2, <3>3
  <2>3. ASSUME NEW x \in Found, NEW y \in Found, x \in Range(near), y \notin Range(near)
        PROVE  Arrival(x) < Arrival(y)
    <3>1. Arrival(x) = Place(near, x) /\ Place(near, x) \in 1..Len(near)
      BY <1>3, <1>7, <2>3
    <3>2. /\ Arrival(y) = Len(near) + Place(matching, y)
          /\ Place(matching, y) \in 1..Len(matching)
      BY <1>3, <1>7, <2>3
    <3>3. QED
      BY <1>2, <3>1, <3>2
  <2>4. /\ \A e \in Found : Arrival(e) \in Int
        /\ ~(Arrival(c) < Arrival(d)) /\ ~(Arrival(d) < Arrival(c))
    BY <1>2, <1>3, <1>7, <1>8
  <2>5. QED
    BY <2>1, <2>2, <2>3, <2>4
<1>9. \A c \in Found : Arrival(c) \in Nat
  BY <1>2, <1>3, <1>7
<1>10. QED
  BY <1>4, <1>5, <1>6, <1>8, <1>9

\* The fused list holds what was found, each hit once, in the order of Ahead.
LEMMA FusionFacts ==
  ASSUME near \in Hits, matching \in Hits
  PROVE  /\ Cardinality(Found) \in Nat
         /\ Fusion \in Seq(Found)
         /\ Len(Fusion) = Cardinality(Found)
         /\ \A c \in Found : \E k \in 1..Cardinality(Found) : Fusion[k] = c
         /\ \A i, j \in 1..Cardinality(Found) : i < j <=> Ahead(Fusion[i], Fusion[j])
         /\ \A i, j \in 1..Cardinality(Found) : Fusion[i] = Fusion[j] => i = j
<1> DEFINE S == Found
           n == Cardinality(S)
           pairs == {pair \in S \X S : Ahead(pair[1], pair[2])}
           rank(c) == Before(S, pairs, c)
<1>1. IsFiniteSet(S) /\ n \in Nat
  BY FoundFacts, FS_CardinalityType
<1>2. \A c, d \in S : <<c, d>> \in pairs <=> Ahead(c, d)
  OBVIOUS
<1>3. \A c \in S : {d \in S : <<d, c>> \in pairs} = {d \in S : Ahead(d, c)}
  BY <1>2
<1>4. Orders(S, pairs)
  <2>1. /\ \A c \in S : Score(c) \in Int /\ Arrival(c) \in Int
        /\ \A c, d \in S : Arrival(c) = Arrival(d) => c = d
    BY FoundFacts
  <2>2. \A c, d \in S : <<c, d>> \in pairs <=>
          \/ Score(c) > Score(d)
          \/ Score(c) = Score(d) /\ Arrival(c) < Arrival(d)
    BY <1>2 DEF Ahead
  <2> HIDE DEF S, pairs
  <2>3. \A c \in S : <<c, c>> \notin pairs
    BY <2>1, <2>2
  <2>4. \A c, d \in S : c = d \/ <<c, d>> \in pairs \/ <<d, c>> \in pairs
    <3> SUFFICES ASSUME NEW c \in S, NEW d \in S, c # d, <<c, d>> \notin pairs
                 PROVE  <<d, c>> \in pairs
      OBVIOUS
    <3>1. /\ Score(c) \in Int /\ Score(d) \in Int /\ Arrival(c) \in Int /\ Arrival(d) \in Int
          /\ Arrival(c) # Arrival(d)
      BY <2>1
    <3>2. ~(Score(c) > Score(d)) /\ ~(Score(c) = Score(d) /\ Arrival(c) < Arrival(d))
      BY <2>2
    <3>3. Score(d) > Score(c) \/ (Score(d) = Score(c) /\ Arrival(d) < Arrival(c))
      BY <3>1, <3>2
    <3>4. QED
      BY <2>2, <3>3
  <2>5. \A c, d, e \in S : <<c, d>> \in pairs /\ <<d, e>> \in pairs => <<c, e>> \in pairs
    BY <2>1, <2>2
  <2>6. QED
    BY <2>3, <2>4, <2>5 DEF Orders
<1>5. Fusion = [k \in 1..n |-> CHOOSE c \in S : Cardinality({d \in S : Ahead(d, c)}) = k - 1]
  BY DEF Fusion
<1>6. \A c \in S : rank(c) = Cardinality({d \in S : Ahead(d, c)})
  BY <1>3 DEF Before
<1> HIDE DEF S, pairs
<1>7. /\ \A c \in S : rank(c) \in 0..n - 1
      /\ \A c, d \in S : <<c, d>> \in pairs <=> rank(c) < rank(d)
      /\ \A c, d \in S : rank(c) = rank(d) => c = d
      /\ \A k \in 0..n - 1 : \E c \in S : rank(c) = k
  BY <1>1, <1>4, Ranks
<1> HIDE DEF rank, n
<1>8. ASSUME NEW k \in 1..n PROVE Fusion[k] \in S /\ rank(Fusion[k]) = k - 1
  <2>1. k - 1 \in 0..n - 1
    BY <1>1
  <2>2. \E c \in S : Cardinality({d \in S : Ahead(d, c)}) = k - 1
    BY <1>6, <1>7, <2>1
  <2>3. Fusion[k] = CHOOSE c \in S : Cardinality({d \in S : Ahead(d, c)}) = k - 1
    BY <1>5
  <2>4. Fusion[k] \in S /\ Cardinality({d \in S : Ahead(d, Fusion[k])}) = k - 1
    BY <2>2, <2>3
  <2>5. QED
    BY <1>6, <2>4
<1>9. Fusion \in Seq(S) /\ Len(Fusion) = n
  <2>1. Fusion \in [1..n -> S]
    BY <1>5, <1>8
  <2>2. QED
    BY <1>1, <2>1
<1>10. ASSUME NEW c \in S PROVE \E k \in 1..n : Fusion[k] = c
  <2>1. rank(c) + 1 \in 1..n /\ (rank(c) + 1) - 1 = rank(c)
    BY <1>1, <1>7
  <2>2. QED
    BY <1>7, <1>8, <2>1
<1>11. \A i, j \in 1..n : i < j <=> Ahead(Fusion[i], Fusion[j])
  <2> SUFFICES ASSUME NEW i \in 1..n, NEW j \in 1..n
               PROVE  i < j <=> Ahead(Fusion[i], Fusion[j])
    OBVIOUS
  <2>1. /\ rank(Fusion[i]) = i - 1 /\ rank(Fusion[j]) = j - 1
        /\ Fusion[i] \in S /\ Fusion[j] \in S
    BY <1>8
  <2>2. i < j <=> i - 1 < j - 1
    BY <1>1
  <2>3. i < j <=> rank(Fusion[i]) < rank(Fusion[j])
    BY <2>1, <2>2
  <2>4. <<Fusion[i], Fusion[j]>> \in pairs <=> rank(Fusion[i]) < rank(Fusion[j])
    BY <1>7, <2>1
  <2>5. <<Fusion[i], Fusion[j]>> \in pairs <=> Ahead(Fusion[i], Fusion[j])
    BY <1>2, <2>1
  <2>6. QED
    BY <2>3, <2>4, <2>5
<1>12. \A i, j \in 1..n : Fusion[i] = Fusion[j] => i = j
  BY <1>1, <1>8
<1>13. QED
  BY <1>1, <1>9, <1>10, <1>11, <1>12 DEF S, n

\* The hits that are taken are a list of hits again, in the order of Ahead, and with
\* a hit all that are ahead of it are taken.
Ordered(list) ==
  /\ Range(list) \subseteq Found
  /\ \A i, j \in 1..Len(list) : i < j => Ahead(list[i], list[j])
  /\ \A d \in Range(list), c \in Found : Ahead(c, d) => c \in Range(list)

\* The hits that are taken are a list of hits, and ordered.
LEMMA TakenFacts ==
  ASSUME near \in Hits, matching \in Hits,
         NEW list, list = SubSeq(Fusion, 1, Lowest(TopK, Cardinality(Found)))
  PROVE  list \in Hits /\ Ordered(list)
<1> DEFINE n == Cardinality(Found)
           m == Lowest(TopK, n)
<1>1. /\ n \in Nat /\ Fusion \in Seq(Found) /\ Len(Fusion) = n
      /\ \A c \in Found : \E k \in 1..n : Fusion[k] = c
      /\ \A i, j \in 1..n : i < j <=> Ahead(Fusion[i], Fusion[j])
      /\ \A i, j \in 1..n : Fusion[i] = Fusion[j] => i = j
  BY FusionFacts
<1>2. m \in 0..n /\ m <= TopK
  BY <1>1, RetrievalAssumption DEF Lowest
<1>3. Found \subseteq Chunks
  BY FoundFacts
<1> HIDE DEF n, m
<1>4. /\ list \in Seq(Found) /\ Len(list) = m
      /\ \A i \in 1..m : list[i] = Fusion[i]
  <2>1. list = SubSeq(Fusion, 1, m)
    BY DEF m, n
  <2>2. m \in Int /\ m - 1 + 1 = m /\ \A i \in 1..m : Fusion[i] \in Found /\ 1 + i - 1 = i
    BY <1>1, <1>2, ElementOfSeq
  <2> DEFINE one == 1
  <2>3. one \in Int /\ \A i \in one..m : Fusion[i] \in Found
    BY <2>2
  <2> HIDE DEF one
  <2>4. /\ SubSeq(Fusion, one, m) \in Seq(Found)
        /\ Len(SubSeq(Fusion, one, m)) = IF one <= m THEN m - one + 1 ELSE 0
        /\ \A i \in 1..m - one + 1 : SubSeq(Fusion, one, m)[i] = Fusion[one + i - 1]
    BY <2>2, <2>3, SubSeqProperties
  <2>5. /\ list \in Seq(Found)
        /\ Len(list) = IF 1 <= m THEN m - 1 + 1 ELSE 0
        /\ \A i \in 1..m - 1 + 1 : list[i] = Fusion[1 + i - 1]
    BY <2>1, <2>4 DEF one
  <2>6. QED
    BY <1>1, <1>2, <2>2, <2>5
<1>5. \A i \in 1..m : i \in 1..n
  BY <1>1, <1>2
<1>6. Range(list) = {list[i] : i \in 1..m}
  BY <1>4, LenProperties DEF Range
<1>7. list \in Hits
  <2>1. list \in Seq(Chunks)
    BY <1>3, <1>4
  <2>2. Distinct(list)
    BY <1>1, <1>4, <1>5 DEF Distinct
  <2>3. QED
    BY <1>2, <1>4, <2>1, <2>2, HitsAre
<1>8. Range(list) \subseteq Found
  BY <1>4, <1>6
<1>9. \A i, j \in 1..Len(list) : i < j => Ahead(list[i], list[j])
  BY <1>1, <1>4, <1>5
<1>10. ASSUME NEW d \in Range(list), NEW c \in Found, Ahead(c, d) PROVE c \in Range(list)
  <2>1. PICK j \in 1..m : d = list[j]
    BY <1>6
  <2>2. PICK i \in 1..n : Fusion[i] = c
    BY <1>1
  <2>3. d = Fusion[j] /\ j \in 1..n
    BY <1>4, <1>5, <2>1
  <2>4. i < j
    BY <1>1, <1>10, <2>2, <2>3
  <2>5. i \in 1..m /\ list[i] = c
    BY <1>1, <1>2, <1>4, <2>2, <2>4
  <2>6. QED
    BY <1>6, <2>5
<1>11. QED
  BY <1>7, <1>8, <1>9, <1>10 DEF Ordered
-----------------------------------------------------------------------------
(* The invariant.                                                          *)

\* What the answer has not come to yet is empty.
Blank ==
  /\ progress = "vector" => near = <<>>
  /\ progress \in {"vector", "keyword"} => matching = <<>>
  /\ progress \in {"vector", "keyword", "fuse"} => fused = <<>>
  /\ progress \in {"vector", "keyword", "fuse", "boost"} => ranked = <<>>
  /\ progress # "answered" => quoted = <<>>

\* The texts that were found were written between the first search and now.
FoundInTime ==
  \A c \in Found : c[1] \in Texts => before <= c[2] /\ c[2] <= generation

\* What an answer lost is older than the chat's chunks are now.
LostIsOld ==
  progress = "answered" =>
    /\ \A c \in Range(ranked) \ Range(quoted) : c[1] \in Texts /\ c[2] < generation
    /\ before = generation => quoted = ranked

RetrievalInv ==
  /\ RetrievalTypeOK
  /\ Blank
  /\ FoundInTime
  /\ Ordered(fused)
  /\ Range(ranked) \subseteq Range(fused)
  /\ QuotedOnce
  /\ LostIsOld

\* The lists of a state are lists of hits.
LEMMA Typed ==
  ASSUME RetrievalTypeOK
  PROVE  /\ near \in Hits /\ matching \in Hits /\ fused \in Hits /\ ranked \in Hits
         /\ quoted \in Hits
         /\ generation \in Nat /\ before \in Nat /\ before <= generation
         /\ generation <= MaxRebuilds /\ MaxRebuilds \in Nat
  BY RetrievalAssumption DEF RetrievalTypeOK

\* What is found, and in what order, is the searches' alone.
LEMMA SameOrder ==
  ASSUME UNCHANGED <<near, matching>>
  PROVE  /\ Found' = Found
         /\ \A list : Ordered(list)' <=> Ordered(list)
<1>1. Found' = Found
  BY DEF Found
<1>2. \A c : Score(c)' = Score(c)
  BY DEF Score, ScoreIn, Place, SelectInSeq
<1>3. \A c : Arrival(c)' = Arrival(c)
  BY DEF Arrival, Place, SelectInSeq
<1>4. \A c, d : Ahead(c, d)' <=> Ahead(c, d)
  BY <1>2, <1>3 DEF Ahead
<1>5. QED
  BY <1>1, <1>4 DEF Ordered

\* An empty list is ordered.
LEMMA OrderedEmpty == <<>> \in Hits /\ Range(<<>>) = {} /\ Ordered(<<>>)
<1>1. <<>> \in Seq(Chunks) /\ Len(<<>>) = 0 /\ Range(<<>>) = {}
  BY EmptySeq, RangeEmpty
<1>2. Distinct(<<>>) /\ 0 <= TopK
  BY <1>1, RetrievalAssumption DEF Distinct
<1>3. <<>> \in Hits
  BY <1>1, <1>2, HitsAre
<1>4. QED
  BY <1>1, <1>3 DEF Ordered

\* A chunk that is gone is a text of an earlier rebuild.
LEMMA Gone ==
  ASSUME NEW c \in Chunks, c \notin Current, generation \in Nat
  PROVE  c[1] \in Texts /\ c[2] # generation
  BY DEF Chunks, Current

\* A chunk that is there is known by its text or recording.
LEMMA Known ==
  ASSUME NEW c \in Current, NEW d \in Current, c[1] = d[1]
  PROVE  c = d
  BY RetrievalAssumption DEF Current

\* A question starts with nothing found.
LEMMA InitInv == RetrievalInit => RetrievalInv
<1> SUFFICES ASSUME RetrievalInit PROVE RetrievalInv
  OBVIOUS
<1>1. /\ near = <<>> /\ matching = <<>> /\ fused = <<>> /\ ranked = <<>> /\ quoted = <<>>
      /\ generation = 0 /\ before = 0 /\ progress = "vector"
  BY DEF RetrievalInit
<1>2. <<>> \in Hits /\ Range(<<>>) = {} /\ Ordered(<<>>) /\ Len(<<>>) = 0
  BY OrderedEmpty, EmptySeq
<1>3. RetrievalTypeOK
  BY <1>1, <1>2, RetrievalAssumption DEF RetrievalTypeOK
<1>4. Blank /\ LostIsOld
  BY <1>1 DEF Blank, LostIsOld
<1>5. FoundInTime
  BY <1>1, <1>2 DEF FoundInTime, Found
<1>6. QuotedOnce
  BY <1>1, <1>2 DEF QuotedOnce
<1>7. QED
  BY <1>1, <1>2, <1>3, <1>4, <1>5, <1>6 DEF RetrievalInv

\* The chunks of a search are chunks of now.
LEMMA SearchedNow ==
  ASSUME RetrievalTypeOK, NEW c \in Current
  PROVE  c \in Chunks /\ (c[1] \in Texts => c[2] = generation)
  BY RetrievalAssumption DEF Current, Chunks, RetrievalTypeOK

\* The first search finds chunks of now.
LEMMA SearchVectorsStep ==
  ASSUME RetrievalInv, SearchVectors
  PROVE  RetrievalInv'
<1>1. /\ RetrievalTypeOK /\ progress = "vector" /\ progress' = "keyword" /\ before' = generation
      /\ generation' = generation /\ matching' = matching /\ fused' = fused
      /\ ranked' = ranked /\ quoted' = quoted
      /\ near' \in Hits /\ Range(near') \subseteq Current
  BY DEF RetrievalInv, SearchVectors
<1>2. matching = <<>> /\ fused = <<>> /\ ranked = <<>> /\ quoted = <<>>
  BY <1>1 DEF RetrievalInv, Blank
<1>3. <<>> \in Hits /\ Range(<<>>) = {} /\ Len(<<>>) = 0
  BY OrderedEmpty, EmptySeq
<1>4. generation \in Nat /\ before \in Nat
  BY <1>1, Typed
<1>5. RetrievalTypeOK'
  BY <1>1, <1>4 DEF RetrievalTypeOK
<1>6. Blank'
  BY <1>1, <1>2 DEF Blank
<1>7. FoundInTime'
  <2>1. Found' = Range(near')
    BY <1>1, <1>2, <1>3 DEF Found
  <2>2. \A c \in Range(near') : c[1] \in Texts => c[2] = generation
    BY <1>1, SearchedNow
  <2>3. QED
    BY <1>1, <1>4, <2>1, <2>2 DEF FoundInTime
<1>8. Ordered(fused)'
  BY <1>1, <1>2, <1>3 DEF Ordered
<1>9. (Range(ranked) \subseteq Range(fused))'
  BY <1>1, <1>2
<1>10. QuotedOnce' /\ LostIsOld'
  BY <1>1, <1>2, <1>3 DEF QuotedOnce, LostIsOld
<1>11. QED
  BY <1>5, <1>6, <1>7, <1>8, <1>9, <1>10 DEF RetrievalInv

\* So does the second one, whatever was rebuilt in between.
LEMMA SearchKeywordsStep ==
  ASSUME RetrievalInv, SearchKeywords
  PROVE  RetrievalInv'
<1>1. /\ RetrievalTypeOK /\ progress = "keyword" /\ progress' = "fuse" /\ before' = before
      /\ generation' = generation /\ near' = near /\ fused' = fused
      /\ ranked' = ranked /\ quoted' = quoted
      /\ matching' \in Hits /\ Range(matching') \subseteq Current
  BY DEF RetrievalInv, SearchKeywords
<1>2. matching = <<>> /\ fused = <<>> /\ ranked = <<>> /\ quoted = <<>>
  BY <1>1 DEF RetrievalInv, Blank
<1>3. <<>> \in Hits /\ Range(<<>>) = {} /\ Len(<<>>) = 0
  BY OrderedEmpty, EmptySeq
<1>4. generation \in Nat /\ before \in Nat /\ before <= generation
  BY <1>1, Typed
<1>5. RetrievalTypeOK'
  BY <1>1, <1>4 DEF RetrievalTypeOK
<1>6. Blank'
  BY <1>1, <1>2 DEF Blank
<1>7. FoundInTime'
  <2>1. Found' = Found \union Range(matching')
    BY <1>1, <1>2, <1>3 DEF Found
  <2>2. \A c \in Range(matching') : c[1] \in Texts => c[2] = generation
    BY <1>1, SearchedNow
  <2>3. FoundInTime
    BY DEF RetrievalInv
  <2>4. QED
    BY <1>1, <1>4, <2>1, <2>2, <2>3 DEF FoundInTime
<1>8. Ordered(fused)'
  BY <1>1, <1>2, <1>3 DEF Ordered
<1>9. (Range(ranked) \subseteq Range(fused))'
  BY <1>1, <1>2
<1>10. QuotedOnce' /\ LostIsOld'
  BY <1>1, <1>2, <1>3 DEF QuotedOnce, LostIsOld
<1>11. QED
  BY <1>5, <1>6, <1>7, <1>8, <1>9, <1>10 DEF RetrievalInv
\* Fusing them orders them and cuts the list.
LEMMA FuseHitsStep ==
  ASSUME RetrievalInv, FuseHits
  PROVE  RetrievalInv'
<1>1. /\ RetrievalTypeOK /\ progress = "fuse" /\ progress' \in {"boost", "answered"} /\ before' = before
      /\ generation' = generation /\ near' = near /\ matching' = matching
      /\ ranked' = ranked /\ quoted' = quoted
      /\ fused' = SubSeq(Fusion, 1, Lowest(TopK, Cardinality(Found)))
  BY DEF RetrievalInv, FuseHits
<1>2. ranked = <<>> /\ quoted = <<>>
  BY <1>1 DEF RetrievalInv, Blank
<1>3. <<>> \in Hits /\ Range(<<>>) = {} /\ Len(<<>>) = 0
  BY OrderedEmpty, EmptySeq
<1>4. near \in Hits /\ matching \in Hits /\ generation \in Nat
  BY <1>1, Typed
<1>5. fused' \in Hits /\ Ordered(fused')
  BY <1>1, <1>4, TakenFacts
<1>6. RetrievalTypeOK'
  BY <1>1, <1>5 DEF RetrievalTypeOK
<1>7. Blank'
  BY <1>1, <1>2 DEF Blank
<1>8. FoundInTime'
  BY <1>1, SameOrder DEF FoundInTime, RetrievalInv
<1>9. Ordered(fused)'
  BY <1>1, <1>5, SameOrder DEF Ordered
<1>10. (Range(ranked) \subseteq Range(fused))'
  BY <1>1, <1>2, <1>3
<1>11. QuotedOnce' /\ LostIsOld'
  BY <1>1, <1>2, <1>3 DEF QuotedOnce, LostIsOld
<1>12. QED
  BY <1>6, <1>7, <1>8, <1>9, <1>10, <1>11 DEF RetrievalInv

\* Another order of the hits holds the same hits.
LEMMA Reordered ==
  ASSUME NEW list \in Hits, NEW order \in SetToSeqs(Range(list))
  PROVE  order \in Hits /\ Range(order) = Range(list) /\ Len(order) = Len(list)
<1> DEFINE S == Range(list)
           n == Len(list)
<1>1. list \in Seq(Chunks) /\ n <= TopK /\ Distinct(list) /\ n \in Nat
  BY HitsAre, LenProperties
<1>2. S \subseteq Chunks
  BY <1>1 DEF Range
<1>3. IsFiniteSet(S) /\ Cardinality(S) = n
  BY <1>1, RangeFinite
<1>4. /\ order \in [1..n -> S]
      /\ \A i, j \in 1..n : i # j => order[i] # order[j]
  BY <1>3 DEF SetToSeqs
<1> HIDE DEF S, n
<1>5. order \in Seq(Chunks) /\ Len(order) = n /\ DOMAIN order = 1..n
  BY <1>1, <1>2, <1>4
<1>6. Distinct(order)
  BY <1>4, <1>5 DEF Distinct
<1>7. order \in Injection(1..n, S)
  BY <1>4 DEF Injection, IsInjective
<1>8. IsFiniteSet(1..n) /\ Cardinality(1..n) = n
  BY <1>1, FS_Interval
<1>9. order \in Surjection(1..n, S)
  BY <1>3, <1>7, <1>8, FS_Injection
<1>10. Range(order) = S
  BY <1>4, <1>5, <1>9 DEF Range, Surjection
<1>11. QED
  BY <1>1, <1>5, <1>6, <1>10, HitsAre DEF S, n

\* The boost changes the order, not the hits.
LEMMA BoostStep ==
  ASSUME RetrievalInv, Boost
  PROVE  RetrievalInv'
<1>1. /\ RetrievalTypeOK /\ progress = "boost" /\ progress' = "quote" /\ before' = before
      /\ generation' = generation /\ near' = near /\ matching' = matching
      /\ fused' = fused /\ quoted' = quoted
      /\ ranked' = fused \/ ranked' \in SetToSeqs(Range(fused))
  BY DEF RetrievalInv, Boost
<1>2. quoted = <<>>
  BY <1>1 DEF RetrievalInv, Blank
<1>3. fused \in Hits /\ generation \in Nat
  BY <1>1, Typed
<1>4. ranked' \in Hits /\ Range(ranked') = Range(fused)
  BY <1>1, <1>3, Reordered
<1>5. RetrievalTypeOK'
  BY <1>1, <1>4 DEF RetrievalTypeOK
<1>6. Blank'
  BY <1>1, <1>2 DEF Blank
<1>7. FoundInTime'
  BY <1>1, SameOrder DEF FoundInTime, RetrievalInv
<1>8. Ordered(fused)'
  BY <1>1, SameOrder DEF RetrievalInv
<1>9. (Range(ranked) \subseteq Range(fused))'
  BY <1>1, <1>4
<1>10. QuotedOnce' /\ LostIsOld'
  BY <1>1, <1>2, OrderedEmpty, EmptySeq DEF QuotedOnce, LostIsOld
<1>11. QED
  BY <1>5, <1>6, <1>7, <1>8, <1>9, <1>10 DEF RetrievalInv

\* What is quoted is there; what is not quoted is of an earlier rebuild.
LEMMA QuoteStep ==
  ASSUME RetrievalInv, Quote
  PROVE  RetrievalInv'
<1>1. /\ RetrievalTypeOK /\ progress = "quote" /\ progress' = "answered" /\ before' = before
      /\ generation' = generation /\ near' = near /\ matching' = matching
      /\ fused' = fused /\ ranked' = ranked
      /\ quoted' = Keep(ranked, Current)
  BY DEF RetrievalInv, Quote
<1>2. /\ generation \in Nat /\ before \in Nat /\ before <= generation
      /\ fused \in Hits /\ ranked \in Hits
  BY <1>1, Typed
<1>3. ranked \in Seq(Chunks) /\ Len(ranked) <= TopK /\ Distinct(ranked)
  BY <1>2, HitsAre
<1>4. /\ quoted' \in Seq(Chunks)
      /\ Range(quoted') = Range(ranked) \intersect Current
      /\ Distinct(quoted')
  BY <1>1, <1>3, KeepType, KeepMembers, KeepDistinct
<1>5. Len(quoted') <= TopK
  <2>1. /\ IsFiniteSet(Range(ranked)) /\ Cardinality(Range(ranked)) \in Nat
        /\ Cardinality(Range(ranked)) <= Len(ranked)
        /\ Cardinality(Range(quoted')) = Len(quoted')
    BY <1>3, <1>4, RangeFinite
  <2>2. Range(quoted') \in SUBSET Range(ranked)
    BY <1>4
  <2>3. Cardinality(Range(quoted')) <= Cardinality(Range(ranked))
    BY <2>1, <2>2, FS_Subset
  <2>4. TopK \in Nat /\ Len(ranked) \in Nat /\ Len(quoted') \in Nat
    BY <1>3, <1>4, LenProperties, RetrievalAssumption
  <2>5. QED
    BY <1>3, <2>1, <2>3, <2>4
<1>6. RetrievalTypeOK'
  BY <1>1, <1>4, <1>5, HitsAre DEF RetrievalTypeOK
<1>7. Blank'
  BY <1>1 DEF Blank
<1>8. FoundInTime'
  BY <1>1, SameOrder DEF FoundInTime, RetrievalInv
<1>9. Ordered(fused)'
  BY <1>1, SameOrder DEF RetrievalInv
<1>10. (Range(ranked) \subseteq Range(fused))'
  BY <1>1 DEF RetrievalInv
<1>11. QuotedOnce'
  <2>1. \A i \in 1..Len(quoted') : quoted'[i] \in Range(quoted')
    BY <1>4, LenProperties DEF Range
  <2>2. \A i \in 1..Len(quoted') : quoted'[i] \in Current
    BY <1>4, <2>1
  <2>3. QED
    BY <1>4, <2>2, Known DEF QuotedOnce, Distinct
<1>12. \A c \in Range(ranked) :
         c \in Chunks /\ (c[1] \in Texts => before <= c[2] /\ c[2] <= generation)
  <2>1. Range(ranked) \subseteq Chunks
    BY <1>3 DEF Range
  <2>2. Range(ranked) \subseteq Found
    BY DEF RetrievalInv, Ordered
  <2>3. QED
    BY <2>1, <2>2 DEF RetrievalInv, FoundInTime
<1>13. LostIsOld'
  <2>1. ASSUME NEW c \in Range(ranked) \ Range(quoted')
        PROVE  c[1] \in Texts /\ c[2] < generation
    <3>1. c \in Chunks /\ c \notin Current
      BY <1>4, <1>12
    <3>2. c[1] \in Texts /\ c[2] # generation
      BY <1>2, <3>1, Gone
    <3>3. c[2] \in Nat
      BY <3>1, RetrievalAssumption DEF Chunks
    <3>4. QED
      BY <1>2, <1>12, <3>2, <3>3
  <2>2. ASSUME before = generation PROVE quoted' = ranked
    <3>1. ASSUME NEW c \in Range(ranked) PROVE c \in Current
      <4>1. SUFFICES ASSUME c \notin Current PROVE FALSE
        OBVIOUS
      <4>2. c \in Chunks /\ c[1] \in Texts /\ c[2] # generation
        BY <1>2, <1>12, <4>1, Gone
      <4>3. c[2] \in Nat
        BY <4>2, RetrievalAssumption DEF Chunks
      <4>4. QED
        BY <1>2, <1>12, <2>2, <4>2, <4>3
    <3>2. \A i \in 1..Len(ranked) : ranked[i] \in Current
      BY <1>3, <3>1, LenProperties DEF Range
    <3>3. QED
      BY <1>1, <1>3, <3>2, KeepAll
  <2>3. QED
    BY <1>1, <2>1, <2>2 DEF LostIsOld
<1>14. QED
  BY <1>6, <1>7, <1>8, <1>9, <1>10, <1>11, <1>13 DEF RetrievalInv

\* A rebuild makes what was found older than the chunks of now.
LEMMA CommitRebuildStep ==
  ASSUME RetrievalInv, CommitRebuild
  PROVE  RetrievalInv'
<1>1. /\ RetrievalTypeOK /\ generation < MaxRebuilds /\ generation' = generation + 1
      /\ UNCHANGED <<progress, near, matching, fused, ranked, quoted, before>>
  BY DEF RetrievalInv, CommitRebuild
<1>2. /\ generation \in Nat /\ before \in Nat /\ before <= generation /\ MaxRebuilds \in Nat
      /\ near \in Hits /\ matching \in Hits /\ ranked \in Hits
  BY <1>1, Typed
<1>3. RetrievalTypeOK'
  BY <1>1, <1>2 DEF RetrievalTypeOK
<1>4. Blank' /\ QuotedOnce' /\ (Range(ranked) \subseteq Range(fused))'
  BY <1>1 DEF RetrievalInv, Blank, QuotedOnce
<1>5. \A c \in Chunks : c[1] \in Texts => c[2] \in Nat
  BY RetrievalAssumption DEF Chunks
<1>6. FoundInTime'
  <2>1. Found' = Found /\ Found \subseteq Chunks
    BY <1>1, <1>2, SameOrder, FoundFacts
  <2>2. QED
    BY <1>1, <1>2, <1>5, <2>1 DEF FoundInTime, RetrievalInv
<1>7. Ordered(fused)'
  BY <1>1, SameOrder DEF RetrievalInv
<1>8. LostIsOld'
  <2>1. Range(ranked) \subseteq Chunks
    BY <1>2, HitsAre DEF Range
  <2>2. before' # generation'
    BY <1>1, <1>2
  <2>3. QED
    BY <1>1, <1>2, <1>5, <2>1, <2>2 DEF LostIsOld, RetrievalInv
<1>9. QED
  BY <1>3, <1>4, <1>6, <1>7, <1>8 DEF RetrievalInv

\* A step of something else changes nothing.
LEMMA StutterStep ==
  ASSUME RetrievalInv, UNCHANGED retrievalVars
  PROVE  RetrievalInv'
<1>1. UNCHANGED <<generation, progress, near, matching, fused, ranked, quoted, before>>
  BY DEF retrievalVars
<1>2. RetrievalTypeOK' /\ Blank' /\ QuotedOnce' /\ LostIsOld'
  BY <1>1 DEF RetrievalInv, RetrievalTypeOK, Blank, QuotedOnce, LostIsOld
<1>3. FoundInTime' /\ Ordered(fused)' /\ (Range(ranked) \subseteq Range(fused))'
  BY <1>1, SameOrder DEF RetrievalInv, FoundInTime
<1>4. QED
  BY <1>2, <1>3 DEF RetrievalInv

\* Every step keeps the invariant ...
LEMMA NextStep == RetrievalInv /\ [RetrievalNext]_retrievalVars => RetrievalInv'
  BY SearchVectorsStep, SearchKeywordsStep, FuseHitsStep, BoostStep, QuoteStep,
     CommitRebuildStep, StutterStep DEF RetrievalNext

\* ... which holds in every state.
LEMMA Invariant == RetrievalSpec => []RetrievalInv
  BY InitInv, NextStep, PTL DEF RetrievalSpec
-----------------------------------------------------------------------------
(* The properties.                                                         *)

\* The states of a search have the types declared for them.
THEOREM Types == RetrievalSpec => []RetrievalTypeOK
<1>1. RetrievalInv => RetrievalTypeOK
  BY DEF RetrievalInv
<1>2. QED
  BY <1>1, Invariant, PTL

\* A piece of text is quoted once at most, whatever rebuilds came between the
\* searches.
THEOREM TextQuotedOnce == RetrievalSpec => []QuotedOnce
<1>1. RetrievalInv => QuotedOnce
  BY DEF RetrievalInv
<1>2. QED
  BY <1>1, Invariant, PTL

\* An answer loses nothing but texts that a rebuild replaced while it was made.
THEOREM OnlyRebuildsLose == RetrievalSpec => []LostToRebuild
<1>1. RetrievalInv => LostToRebuild
  <2> SUFFICES ASSUME RetrievalInv, progress = "answered"
               PROVE  /\ \A c \in Range(ranked) \ Range(quoted) :
                           c[1] \in Texts /\ c[2] # generation
                      /\ before = generation => quoted = ranked
    BY DEF LostToRebuild
  <2>1. generation \in Nat /\ ranked \in Hits
    BY Typed DEF RetrievalInv
  <2>2. Range(ranked) \subseteq Chunks
    BY <2>1, HitsAre DEF Range
  <2>3. \A c \in Chunks : c[1] \in Texts => c[2] \in Nat
    BY RetrievalAssumption DEF Chunks
  <2>4. QED
    BY <2>1, <2>2, <2>3 DEF RetrievalInv, LostIsOld
<1>2. QED
  BY <1>1, Invariant, PTL

\* In an ordered list the better of two hits comes first.
LEMMA BetterFirst ==
  ASSUME near \in Hits, matching \in Hits, NEW list \in Hits, Ordered(list),
         NEW c \in Range(list), NEW d \in Range(list), Score(c) > Score(d)
  PROVE  Place(list, c) < Place(list, d)
<1>1. list \in Seq(Chunks) /\ Distinct(list)
  BY HitsAre
<1> DEFINE i == Place(list, c)
           j == Place(list, d)
<1>2. /\ i \in 1..Len(list) /\ list[i] = c
      /\ j \in 1..Len(list) /\ list[j] = d
  BY <1>1, PlaceOf
<1>3. Score(c) \in Nat /\ Score(d) \in Nat /\ Len(list) \in Nat
  BY <1>1, FoundFacts, LenProperties
<1> HIDE DEF i, j
<1>4. i # j
  BY <1>2, <1>3
<1>5. ~ (j < i)
  <2> SUFFICES ASSUME j < i PROVE FALSE
    OBVIOUS
  <2>1. Ahead(d, c)
    BY <1>2 DEF Ordered
  <2>2. QED
    BY <1>3, <2>1 DEF Ahead
<1>6. i < j
  BY <1>2, <1>3, <1>4, <1>5
<1>7. QED
  BY <1>6 DEF i, j

\* A chunk that both searches rank above another one has the better score.
LEMMA BothAbove ==
  ASSUME near \in Hits, matching \in Hits,
         NEW c \in Range(near) \intersect Range(matching),
         NEW d \in Range(near) \intersect Range(matching),
         Place(near, c) < Place(near, d), Place(matching, c) < Place(matching, d)
  PROVE  Score(c) > Score(d)
<1>1. /\ near \in Seq(Chunks) /\ Len(near) <= TopK /\ Distinct(near)
      /\ matching \in Seq(Chunks) /\ Len(matching) <= TopK /\ Distinct(matching)
      /\ Len(near) \in Nat /\ Len(matching) \in Nat /\ TopK \in Nat
  BY HitsAre, LenProperties, RetrievalAssumption
<1>2. /\ Place(near, c) \in 1..Len(near) /\ Place(near, d) \in 1..Len(near)
      /\ Place(matching, c) \in 1..Len(matching) /\ Place(matching, d) \in 1..Len(matching)
  BY <1>1, PlaceOf
<1>3. /\ Place(near, c) \in 1..TopK /\ Place(near, d) \in 1..TopK
      /\ Place(matching, c) \in 1..TopK /\ Place(matching, d) \in 1..TopK
  BY <1>1, <1>2
<1> DEFINE p == Share[Place(near, c)]
           q == Share[Place(near, d)]
           u == Share[Place(matching, c)]
           v == Share[Place(matching, d)]
<1>4. p > q /\ u > v /\ p \in Nat /\ q \in Nat /\ u \in Nat /\ v \in Nat
  BY <1>3, ShareFalls
<1>5. Score(c) = p + u /\ Score(d) = q + v
  BY DEF Score, ScoreIn
<1> HIDE DEF p, q, u, v
<1>6. QED
  BY <1>4, <1>5

\* A chunk that both searches rank above another one that was taken is taken too,
\* and comes before it.
THEOREM FusionRespectsBoth == RetrievalSpec => []FusionAgrees
<1>1. RetrievalInv => FusionAgrees
  <2> SUFFICES ASSUME RetrievalInv,
                      NEW c \in Range(near) \intersect Range(matching),
                      NEW d \in Range(near) \intersect Range(matching),
                      Place(near, c) < Place(near, d),
                      Place(matching, c) < Place(matching, d),
                      d \in Range(fused)
               PROVE  c \in Range(fused) /\ Place(fused, c) < Place(fused, d)
    BY DEF FusionAgrees
  <2>1. near \in Hits /\ matching \in Hits /\ fused \in Hits /\ Ordered(fused)
    BY Typed DEF RetrievalInv
  <2>2. Score(c) > Score(d)
    BY <2>1, BothAbove
  <2>3. c \in Range(fused)
    BY <2>1, <2>2 DEF Ordered, Found, Ahead
  <2>4. QED
    BY <2>1, <2>2, <2>3, BetterFirst
<1>2. QED
  BY <1>1, Invariant, PTL

-----------------------------------------------------------------------------
(* The answer around the search.                                           *)

\* An answer searches as Retrieval says, at most once, and does nothing to what the
\* search works on besides: the whole of answer_question implements the search.
THEOREM AnswerSearches == AnswerSpec => RetrievalSpec
<1>1. AnswerInit => RetrievalInit
  BY DEF AnswerInit
<1>2. [AnswerNext]_<<retrievalVars, answerVars>> => [RetrievalNext]_retrievalVars
  BY DEF AnswerNext, Route, Search, Raise, ListSessions, ListRecordings,
         QuoteOnly, Write
<1>3. QED
  BY <1>1, <1>2, PTL DEF AnswerSpec, RetrievalSpec

\* What is proved of a search holds of the one in an answer.
THEOREM AnswersKeepThePromises ==
  AnswerSpec => [](QuotedOnce /\ LostToRebuild /\ FusionAgrees)
BY AnswerSearches, TextQuotedOnce, OnlyRebuildsLose, FusionRespectsBoth, PTL

-----------------------------------------------------------------------------
(* The calendar.                                                           *)

\* The days of a month are counted from its first.
LEMMA DaysFollow ==
  ASSUME NEW y \in Int, NEW m \in 1..12, NEW d \in Int
  PROVE  /\ Ordinal(y, m, 1) \in Int
         /\ Ordinal(y, m, d) = Ordinal(y, m, 1) + (d - 1)
<1> DEFINE b == DaysBefore[m] + (IF m > 2 /\ Leap(y) THEN 1 ELSE 0)
           x == 365 * (y - 1) + (y - 1) \div 4 - (y - 1) \div 100 + (y - 1) \div 400
<1>1. DaysBefore[m] \in Int
  BY DEF DaysBefore
<1>2. b \in Int /\ x \in Int
  BY <1>1
<1>3. Ordinal(y, m, d) = x + b + d - 1 /\ Ordinal(y, m, 1) = x + b + 1 - 1
  BY <1>1 DEF Ordinal
<1> HIDE DEF b, x
<1>4. QED
  BY <1>2, <1>3

\* A month has at least 28 days.
LEMMA MonthsFollow ==
  ASSUME NEW y \in Int, NEW m \in 1..12, NEW n \in 1..12, n = m + 1
  PROVE  Ordinal(y, n, 1) >= Ordinal(y, m, 1) + 28
<1> DEFINE b == DaysBefore[m]
           c == DaysBefore[n]
           e == IF m > 2 /\ Leap(y) THEN 1 ELSE 0
           f == IF n > 2 /\ Leap(y) THEN 1 ELSE 0
           x == 365 * (y - 1) + (y - 1) \div 4 - (y - 1) \div 100 + (y - 1) \div 400
<1>1. b \in Int /\ c \in Int /\ c >= b + 28
  BY DEF DaysBefore
<1>2. e \in Int /\ f \in Int /\ f >= e
  <2> DEFINE leap == Leap(y)
  <2> HIDE DEF leap
  <2>1. e = (IF m > 2 /\ leap THEN 1 ELSE 0) /\ f = (IF n > 2 /\ leap THEN 1 ELSE 0)
    BY DEF leap
  <2> HIDE DEF e, f
  <2>2. QED
    BY <2>1
<1>3. x \in Int
  OBVIOUS
<1>4. Ordinal(y, m, 1) = x + b + e + 1 - 1 /\ Ordinal(y, n, 1) = x + c + f + 1 - 1
  BY DEF Ordinal
<1> HIDE DEF b, c, e, f, x
<1>5. QED
  BY <1>1, <1>2, <1>3, <1>4

\* December has 31, and the leap day is counted once.
LEMMA YearsFollow ==
  ASSUME NEW y \in Int, NEW z \in Int, z = y + 1
  PROVE  Ordinal(z, 1, 1) = Ordinal(y, 12, 1) + 31
<1> DEFINE leap == IF Leap(y) THEN 1 ELSE 0
           x    == 365 * (y - 1) + (y - 1) \div 4 - (y - 1) \div 100 + (y - 1) \div 400
           v    == 365 * y + y \div 4 - y \div 100 + y \div 400
<1>1. DaysBefore[1] = 0 /\ DaysBefore[12] = 334
  BY DEF DaysBefore
<1>2. x \in Int /\ v \in Int /\ leap \in {0, 1} /\ v = x + 365 + leap
  BY DEF Leap
<1>3. Ordinal(y, 12, 1) = x + 334 + leap + 1 - 1
  BY <1>1 DEF Ordinal
<1>4. z - 1 = y /\ ~ (1 > 2)
  OBVIOUS
<1>5. Ordinal(z, 1, 1) = v + 0 + 0 + 1 - 1
  BY <1>1, <1>4 DEF Ordinal
<1> HIDE DEF leap, x, v
<1>6. QED
  BY <1>2, <1>3, <1>5

\* So does a month counted from the beginning of year 0, and no month is in two places.
LEMMA MonthBegins ==
  ASSUME NEW m \in Int
  PROVE  /\ BeginOf(m) \in Int
         /\ BeginOf(m + 1) > BeginOf(m)
<1> DEFINE y == m \div 12
           k == (m % 12) + 1
<1>1. /\ y \in Int /\ k \in 1..12
      /\ k < 12 => (m + 1) \div 12 = y /\ ((m + 1) % 12) + 1 = k + 1
      /\ k = 12 => (m + 1) \div 12 = y + 1 /\ ((m + 1) % 12) + 1 = 1
  OBVIOUS
<1>2. BeginOf(m) = 24 * Ordinal(y, k, 1)
  BY DEF BeginOf, Midnight, Day
<1>3. BeginOf(m + 1) = 24 * Ordinal((m + 1) \div 12, ((m + 1) % 12) + 1, 1)
  BY DEF BeginOf, Midnight, Day
<1> HIDE DEF y, k
<1>4. Ordinal(y, k, 1) \in Int
  <2>1. y \in Int /\ k \in 1..12 /\ 1 \in Int
    BY <1>1
  <2>2. QED
    BY <2>1, DaysFollow
<1>5. CASE k < 12
  <2>1. Ordinal(y, k + 1, 1) \in Int /\ Ordinal(y, k + 1, 1) >= Ordinal(y, k, 1) + 28
    <3>1. y \in Int /\ k \in 1..12 /\ k + 1 \in 1..12
      BY <1>1, <1>5
    <3>2. Ordinal(y, k + 1, 1) \in Int
      BY <3>1, DaysFollow
    <3>3. Ordinal(y, k + 1, 1) >= Ordinal(y, k, 1) + 28
      BY <3>1, MonthsFollow
    <3>4. QED
      BY <3>2, <3>3
  <2>2. BeginOf(m + 1) = 24 * Ordinal(y, k + 1, 1)
    BY <1>1, <1>3, <1>5
  <2>3. QED
    BY <1>2, <1>4, <2>1, <2>2
<1>6. CASE k = 12
  <2>1. Ordinal(y + 1, 1, 1) = Ordinal(y, k, 1) + 31
    <3>1. y \in Int /\ y + 1 \in Int
      BY <1>1
    <3>2. Ordinal(y + 1, 1, 1) = Ordinal(y, 12, 1) + 31
      BY <3>1, YearsFollow
    <3>3. QED
      BY <1>6, <3>2
  <2>2. BeginOf(m + 1) = 24 * Ordinal(y + 1, 1, 1)
    BY <1>1, <1>3, <1>6
  <2>3. QED
    BY <1>2, <1>4, <2>1, <2>2
<1>7. QED
  BY <1>1, <1>5, <1>6

\* Later months begin later.
LEMMA MonthsInOrder ==
  ASSUME NEW m \in Int, NEW n \in Int, m <= n
  PROVE  BeginOf(m) <= BeginOf(n)
<1> DEFINE T == {d \in Nat : BeginOf(m) <= BeginOf(m + d)}
<1>1. 0 \in T
  <2>1. m + 0 = m /\ BeginOf(m) \in Int
    BY MonthBegins
  <2>2. BeginOf(m) <= BeginOf(m + 0)
    BY <2>1
  <2>3. QED
    BY <2>2
<1>2. ASSUME NEW d \in T PROVE d + 1 \in T
  <2>1. d \in Nat /\ BeginOf(m) <= BeginOf(m + d)
    BY <1>2
  <2> DEFINE k == m + d
  <2>2. k \in Int /\ k + 1 = m + (d + 1)
    BY <2>1
  <2> HIDE DEF k
  <2>3. BeginOf(m) \in Int /\ BeginOf(k) \in Int /\ BeginOf(k + 1) \in Int /\ BeginOf(k + 1) > BeginOf(k)
    <3>1. k + 1 \in Int
      BY <2>2
    <3>2. QED
      BY <2>2, <3>1, MonthBegins
  <2>4. BeginOf(m) <= BeginOf(k + 1)
    BY <2>1, <2>3 DEF k
  <2>5. QED
    BY <2>1, <2>2, <2>4
<1>3. Nat \subseteq T
  <2> HIDE DEF T
  <2> QED
    BY ONLY <1>1, <1>2, Induction
<1>4. n - m \in Nat /\ m + (n - m) = n
  OBVIOUS
<1>5. n - m \in T
  BY <1>3, <1>4
<1>6. BeginOf(m) <= BeginOf(m + (n - m))
  BY <1>5
<1>7. QED
  BY <1>4, <1>6

\* No hour is in two months.
LEMMA OneMonth ==
  ASSUME NEW t \in Int, NEW m \in Int, NEW n \in Int, InMonth(t, m), InMonth(t, n)
  PROVE  m = n
<1>1. ASSUME NEW a \in Int, NEW b \in Int, InMonth(t, a), InMonth(t, b), a < b PROVE FALSE
  <2>1. a + 1 \in Int /\ a + 1 <= b
    BY <1>1
  <2>2. BeginOf(a + 1) <= BeginOf(b) /\ BeginOf(a + 1) \in Int /\ BeginOf(b) \in Int
    BY <2>1, MonthsInOrder, MonthBegins
  <2>3. QED
    BY <1>1, <2>2 DEF InMonth
<1>2. QED
  BY <1>1

\* What a moment is made of.
LEMMA ClockFields ==
  ASSUME NEW c \in Clock
  PROVE  c.year \in 1..LastYear /\ c.month \in 1..12 /\ c.day \in 1..31 /\ c.hour \in 0..23
BY Zenon DEF Clock

\* What a written date is made of.
LEMMA WrittenFields ==
  ASSUME NEW d \in Written
  PROVE  d.year \in 0..LastYear /\ d.day \in 0..99
BY Zenon DEF Written

\* The present is in the month of the clock.
LEMMA PresentMonth ==
  ASSUME clock \in Clocks
  PROVE  LET m == 12 * clock.year + clock.month - 1 IN
         /\ clock.year \in Nat /\ clock.year > 0 /\ clock.month \in 1..12 /\ clock.hour \in 0..23
         /\ m \in Nat /\ m \div 12 = clock.year /\ InMonth(Now, m) /\ Now \in Int
         /\ BeginOf(m) = Midnight(clock.year, clock.month, 1)
<1> DEFINE y == clock.year
           k == clock.month
           d == clock.day
           h == clock.hour
           m == 12 * y + k - 1
<1>1. y \in 1..LastYear /\ k \in 1..12 /\ d \in 1..31 /\ h \in 0..23 /\ d <= DaysIn(y, k)
  <2>1. Clocks \subseteq Clock
    BY AnswerAssumption, Zenon
  <2>2. clock \in Clock
    BY <2>1
  <2>3. d <= DaysIn(y, k)
    BY ClockAssumption
  <2>4. clock \in Clock => y \in 1..LastYear /\ k \in 1..12 /\ d \in 1..31 /\ h \in 0..23
    BY ClockFields
  <2> HIDE DEF y, k, d, h
  <2>5. QED
    BY <2>2, <2>3, <2>4
<1>2. Now = 24 * Ordinal(y, k, d) + h
  BY DEF Now, Midnight, Day
<1>3. Midnight(y, k, 1) = 24 * Ordinal(y, k, 1)
  BY DEF Midnight, Day
<1> HIDE DEF y, k, d, h
<1>4. m \in Nat /\ m \div 12 = y /\ (m % 12) + 1 = k
  BY <1>1
<1>5. BeginOf(m) = 24 * Ordinal(y, k, 1)
  BY <1>4 DEF BeginOf, Midnight, Day
<1>6. /\ Ordinal(y, k, 1) \in Int
      /\ Ordinal(y, k, d) = Ordinal(y, k, 1) + (d - 1)
  <2>1. y \in Int /\ k \in 1..12 /\ d \in Int
    BY <1>1
  <2>2. QED
    BY <2>1, DaysFollow
<1>7. BeginOf(m + 1) >= 24 * (Ordinal(y, k, 1) + d) /\ BeginOf(m + 1) \in Int
  <2>1. CASE k < 12
    <3>1. (m + 1) \div 12 = y /\ ((m + 1) % 12) + 1 = k + 1
      BY <1>1, <2>1
    <3>2. BeginOf(m + 1) = 24 * Ordinal(y, k + 1, 1)
      BY <3>1 DEF BeginOf, Midnight, Day
    <3>3. d <= Ordinal(y, k + 1, 1) - Ordinal(y, k, 1) /\ Ordinal(y, k + 1, 1) \in Int
      <4>1. y \in Int /\ k + 1 \in 1..12 /\ k # 12
        BY <1>1, <2>1
      <4>2. Ordinal(y, k + 1, 1) \in Int
        BY <4>1, DaysFollow
      <4>3. DaysIn(y, k) = Ordinal(y, k + 1, 1) - Ordinal(y, k, 1)
        BY <4>1 DEF DaysIn
      <4>4. QED
        BY <1>1, <4>2, <4>3
    <3>4. QED
      BY <1>1, <1>6, <3>2, <3>3
  <2>2. CASE k = 12
    <3>1. (m + 1) \div 12 = y + 1 /\ ((m + 1) % 12) + 1 = 1
      BY <1>1, <2>2
    <3>2. BeginOf(m + 1) = 24 * Ordinal(y + 1, 1, 1)
      BY <3>1 DEF BeginOf, Midnight, Day
    <3>3. Ordinal(y + 1, 1, 1) = Ordinal(y, k, 1) + 31
      <4>1. y \in Int /\ y + 1 \in Int
        BY <1>1
      <4>2. Ordinal(y + 1, 1, 1) = Ordinal(y, 12, 1) + 31
        BY <4>1, YearsFollow
      <4>3. QED
        BY <2>2, <4>2
    <3>4. QED
      BY <1>1, <1>6, <3>2, <3>3
  <2>3. QED
    BY <1>1, <2>1, <2>2
<1>8. InMonth(Now, m) /\ Now \in Int
  BY <1>1, <1>2, <1>5, <1>6, <1>7 DEF InMonth
<1>9. y \in Nat /\ y > 0 /\ BeginOf(m) = Midnight(y, k, 1)
  BY <1>1, <1>3, <1>5
<1>10. k \in 1..12 /\ h \in 0..23 /\ m \in Nat /\ m \div 12 = y
  BY <1>1, <1>4
<1>11. QED
  BY <1>8, <1>9, <1>10, Zenon DEF m, y, k, h

\* A day is 24 hours.
LEMMA DayOf ==
  ASSUME NEW t \in Int
  PROVE  /\ t \div Day \in Int /\ FloorDay(t) = 24 * (t \div Day) /\ CeilDay(t) = FloorDay(t) + 23
         /\ FloorDay(t) <= t /\ t <= CeilDay(t)
         /\ (t - Day) \div Day = t \div Day - 1
BY DEF FloorDay, CeilDay, Day

\* A week is 168.
LEMMA WeekOf ==
  ASSUME NEW t \in Int
  PROVE  /\ WeekAt(t) \in Int /\ StartOfWeek(t) = 168 * WeekAt(t)
         /\ StartOfWeek(t) <= t /\ t < StartOfWeek(t) + 168
         /\ WeekAt(t - 168) = WeekAt(t) - 1
<1> DEFINE d == t \div 24
<1>1. d \in Int /\ t - (t % 24) = 24 * d /\ 24 * d <= t /\ t < 24 * d + 24 /\ (t - 168) \div 24 = d - 7
  OBVIOUS
<1>2. WeekAt(t) = d \div 7 /\ WeekAt(t - 168) = (d - 7) \div 7 /\ StartOfWeek(t) = 24 * d - 24 * (d % 7)
  BY <1>1 DEF WeekAt, StartOfWeek, FloorDay, Day
<1> HIDE DEF d
<1>3. d \div 7 \in Int /\ d % 7 = d - 7 * (d \div 7) /\ d % 7 \in 0..6 /\ (d - 7) \div 7 = d \div 7 - 1
  BY <1>1
<1> QED
  BY <1>1, <1>2, <1>3

\* A year begins with its January.
LEMMA YearBegins ==
  ASSUME NEW y \in Int
  PROVE  BeginOf(12 * y) = Midnight(y, 1, 1)
<1>1. (12 * y) \div 12 = y /\ ((12 * y) % 12) + 1 = 1
  OBVIOUS
<1>2. QED
  BY <1>1 DEF BeginOf

\* The month before the clock's is the one LastMonth begins with.
LEMMA PreviousMonth ==
  ASSUME clock \in Clocks
  PROVE  LET m == 12 * clock.year + clock.month - 1 IN
         LastMonth = <<BeginOf(m - 1), BeginOf(m)>>
<1> DEFINE y == clock.year
           k == clock.month
           m == 12 * y + k - 1
           p == ((k - 2) % 12) + 1
           z == IF k > 1 THEN y ELSE y - 1
<1>1. y \in Nat /\ y > 0 /\ k \in 1..12 /\ m \in Nat /\ BeginOf(m) = Midnight(y, k, 1)
  BY PresentMonth
<1>2. LastMonth = <<Midnight(z, p, 1), Midnight(y, k, 1)>>
  BY DEF LastMonth
<1> HIDE DEF y, k
<1>3. (m - 1) \div 12 = z /\ ((m - 1) % 12) + 1 = p
  BY <1>1
<1>4. BeginOf(m - 1) = Midnight(z, p, 1)
  BY <1>3 DEF BeginOf
<1> HIDE DEF m, z, p
<1>5. QED
  BY <1>1, <1>2, <1>4 DEF m, y, k

\* What a single phrase names.
Meaning(p, t) ==
  /\ p = "yesterday" => t \div 24 = Now \div 24 - 1
  /\ p = "today"     => t \div 24 = Now \div 24
  /\ p = "thisWeek"  => WeekAt(t) = WeekAt(Now)
  /\ p = "thisMonth" => \E m \in MonthsNear : InMonth(Now, m) /\ InMonth(t, m)
  /\ p = "thisYear"  => \E m \in MonthsNear :
                         /\ InMonth(Now, m)
                         /\ \E n \in MonthsNear : InMonth(t, n) /\ n \div 12 = m \div 12
  /\ p = "lastWeek"  => WeekAt(t) = WeekAt(Now) - 1
  /\ p = "lastMonth" => \E m \in MonthsNear : InMonth(Now, m) /\ InMonth(t, m - 1)
  /\ p = "lastYear"  => \E m \in MonthsNear :
                         /\ InMonth(Now, m)
                         /\ \E n \in MonthsNear :
                              InMonth(t, n) /\ n \div 12 = m \div 12 - 1
  /\ p = "lastNight" => t \in FloorDay(Now) - 2..FloorDay(Now) + 5
  /\ p = "lastDays"  => t > Now - 48
  /\ p = "recently"  => t > Now - 48

\* Which is what Names says of a question with that phrase.
LEMMA NamedBy ==
  ASSUME NEW q, q.date = <<>>, NEW p, q.phrases = {p}, NEW t, Names(q, t)
  PROVE  Meaning(p, t)
<1> DEFINE a == t \div 24 = Now \div 24 - 1
           b == t \div 24 = Now \div 24
           c == WeekAt(t) = WeekAt(Now)
           d == \E m \in MonthsNear : InMonth(Now, m) /\ InMonth(t, m)
           e == \E m \in MonthsNear :
                  /\ InMonth(Now, m)
                  /\ \E n \in MonthsNear : InMonth(t, n) /\ n \div 12 = m \div 12
           f == WeekAt(t) = WeekAt(Now) - 1
           g == \E m \in MonthsNear : InMonth(Now, m) /\ InMonth(t, m - 1)
           h == \E m \in MonthsNear :
                  /\ InMonth(Now, m)
                  /\ \E n \in MonthsNear : InMonth(t, n) /\ n \div 12 = m \div 12 - 1
           i == t \in FloorDay(Now) - 2..FloorDay(Now) + 5
           j == t > Now - 48
           r == CASE p = "yesterday" -> a
                  [] p = "today"     -> b
                  [] p = "thisWeek"  -> c
                  [] p = "thisMonth" -> d
                  [] p = "thisYear"  -> e
                  [] p = "lastWeek"  -> f
                  [] p = "lastMonth" -> g
                  [] p = "lastYear"  -> h
                  [] p = "lastNight" -> i
                  [] p \in {"lastDays", "recently"} -> j
                  [] OTHER -> FALSE
<1>1. r
  <2>1. Day = 24 /\ 2 * Day = 48
    BY DEF Day
  <2>2. \E x \in q.phrases : Meant(x, t)
    BY DEF Names
  <2>3. Meant(p, t)
    BY <2>2
  <2>4. QED
    BY <2>1, <2>3, Zenon DEF Meant
<1> HIDE DEF a, b, c, d, e, f, g, h, i, j
<1>2. /\ p = "yesterday" => a
      /\ p = "today"     => b
      /\ p = "thisWeek"  => c
      /\ p = "thisMonth" => d
      /\ p = "thisYear"  => e
      /\ p = "lastWeek"  => f
      /\ p = "lastMonth" => g
      /\ p = "lastYear"  => h
      /\ p = "lastNight" => i
      /\ p = "lastDays"  => j
      /\ p = "recently"  => j
  BY <1>1
<1>3. QED
  BY <1>2 DEF Meaning, a, b, c, d, e, f, g, h, i, j

\* The hours a single phrase names, up to the present, are in the phrase's period.
LEMMA PhraseCovers ==
  ASSUME clock \in Clocks, NEW q, q.date = <<>>, NEW p \in Range(Precedence) \ Unread,
         q.phrases = {p}, NEW t \in Nat, t <= Now, Names(q, t)
  PROVE  /\ Relative[p][1] \in Int /\ Relative[p][2] \in Int
         /\ Relative[p][1] <= t /\ t <= Relative[p][2]
<1> DEFINE y == clock.year
           m == 12 * y + clock.month - 1
<1>1. /\ y \in Nat /\ y > 0 /\ m \in Nat /\ m \div 12 = y /\ InMonth(Now, m) /\ Now \in Int
      /\ BeginOf(m) = Midnight(y, clock.month, 1)
  BY PresentMonth
<1>2. \A n \in Int : InMonth(Now, n) => n = m
  BY <1>1, OneMonth
<1>3. Day = 24 /\ MonthsNear \subseteq Int
  BY <1>1 DEF Day, MonthsNear
<1>4. LastMonth = <<BeginOf(m - 1), BeginOf(m)>>
  BY PreviousMonth
<1>5. Now - 24 \in Int /\ Now - 168 \in Int /\ t \in Int
  BY <1>1
<1>6. /\ Now \div 24 \in Int /\ t \div 24 \in Int
      /\ FloorDay(Now) = 24 * (Now \div 24) /\ FloorDay(Now) <= Now /\ Now <= FloorDay(Now) + 23
      /\ FloorDay(Now - 24) = 24 * (Now \div 24) - 24 /\ CeilDay(Now - 24) = 24 * (Now \div 24) - 1
      /\ 24 * (t \div 24) <= t /\ t <= 24 * (t \div 24) + 23
  <2>1. /\ Now \div 24 \in Int /\ FloorDay(Now) = 24 * (Now \div 24)
        /\ FloorDay(Now) <= Now /\ Now <= FloorDay(Now) + 23 /\ (Now - 24) \div 24 = Now \div 24 - 1
    BY <1>1, <1>3, DayOf
  <2>2. FloorDay(Now - 24) = 24 * ((Now - 24) \div 24) /\ CeilDay(Now - 24) = FloorDay(Now - 24) + 23
    BY <1>3, <1>5, DayOf
  <2>3. t \div 24 \in Int /\ 24 * (t \div 24) <= t /\ t <= 24 * (t \div 24) + 23
    BY <1>5
  <2>4. QED
    BY <2>1, <2>2, <2>3
<1>7. /\ WeekAt(Now) \in Int /\ StartOfWeek(Now) = 168 * WeekAt(Now)
      /\ StartOfWeek(Now - 168) = 168 * WeekAt(Now) - 168
      /\ WeekAt(t) \in Int /\ 168 * WeekAt(t) <= t /\ t < 168 * WeekAt(t) + 168
  <2>1. /\ WeekAt(Now) \in Int /\ StartOfWeek(Now) = 168 * WeekAt(Now)
        /\ WeekAt(Now - 168) = WeekAt(Now) - 1
    BY <1>1, WeekOf
  <2>2. StartOfWeek(Now - 168) = 168 * WeekAt(Now - 168)
    BY <1>5, WeekOf
  <2>3. /\ WeekAt(t) \in Int /\ StartOfWeek(t) = 168 * WeekAt(t)
        /\ StartOfWeek(t) <= t /\ t < StartOfWeek(t) + 168
    BY <1>5, WeekOf
  <2>4. QED
    BY <2>1, <2>2, <2>3
<1>8. Meaning(p, t)
  BY NamedBy
<1>9. BeginOf(m) \in Int /\ BeginOf(m - 1) \in Int
  <2>1. m \in Int /\ m - 1 \in Int
    BY <1>1
  <2> HIDE DEF m
  <2>2. QED
    BY <2>1, MonthBegins
<1> HIDE DEF m, y
<1>10. CASE p = "yesterday"
  <2>1. t \div 24 = Now \div 24 - 1
    BY <1>10, <1>8, Zenon DEF Meaning
  <2>2. Relative[p] = <<FloorDay(Now - 24), CeilDay(Now - 24)>>
    BY <1>3, <1>10 DEF Relative
  <2>3. QED
    BY <1>6, <2>1, <2>2
<1>11. CASE p = "today"
  <2>1. t \div 24 = Now \div 24
    BY <1>11, <1>8, Zenon DEF Meaning
  <2>2. Relative[p] = <<FloorDay(Now), Now>>
    BY <1>11 DEF Relative
  <2>3. QED
    BY <1>1, <1>6, <2>1, <2>2
<1>12. CASE p = "thisWeek"
  <2>1. WeekAt(t) = WeekAt(Now)
    BY <1>12, <1>8, Zenon DEF Meaning
  <2>2. Relative[p] = <<StartOfWeek(Now), Now>>
    BY <1>12 DEF Relative
  <2>3. QED
    BY <1>1, <1>7, <2>1, <2>2
<1>13. CASE p = "thisMonth"
  <2>1. \E n \in MonthsNear : InMonth(Now, n) /\ InMonth(t, n)
    BY <1>13, <1>8, Zenon DEF Meaning
  <2>2. BeginOf(m) <= t
    BY <1>2, <1>3, <2>1 DEF InMonth
  <2>3. Relative[p] = <<Midnight(clock.year, clock.month, 1), Now>>
    BY <1>13 DEF Relative
  <2>4. QED
    BY <1>1, <1>9, <2>2, <2>3 DEF y
<1>14. CASE p = "thisYear"
  <2>1. \E a \in MonthsNear :
          InMonth(Now, a) /\ \E n \in MonthsNear : InMonth(t, n) /\ n \div 12 = a \div 12
    BY <1>14, <1>8, Zenon DEF Meaning
  <2>2. PICK n \in Int : InMonth(t, n) /\ n \div 12 = y
    BY <1>1, <1>2, <1>3, <2>1
  <2>3. 12 * y \in Int /\ 12 * y <= n
    BY <1>1, <2>2
  <2>4. BeginOf(12 * y) <= BeginOf(n) /\ BeginOf(12 * y) \in Int /\ BeginOf(n) \in Int
    BY <2>2, <2>3, MonthsInOrder, MonthBegins
  <2>5. BeginOf(12 * y) <= t
    BY <2>2, <2>4 DEF InMonth
  <2>6. Relative[p] = <<Midnight(clock.year, 1, 1), Now>>
    BY <1>14 DEF Relative
  <2>7. BeginOf(12 * y) = Midnight(y, 1, 1)
    BY <1>1, YearBegins
  <2>8. QED
    BY <1>1, <2>4, <2>5, <2>6, <2>7 DEF y
<1>15. CASE p = "lastWeek"
  <2>1. WeekAt(t) = WeekAt(Now) - 1
    BY <1>15, <1>8, Zenon DEF Meaning
  <2>2. 7 * Day = 168
    BY <1>3
  <2>3. Relative[p] = <<StartOfWeek(Now - 168), StartOfWeek(Now)>>
    BY <1>15, <2>2 DEF Relative
  <2>4. QED
    BY <1>1, <1>7, <2>1, <2>3
<1>16. CASE p = "lastMonth"
  <2>1. \E n \in MonthsNear : InMonth(Now, n) /\ InMonth(t, n - 1)
    BY <1>16, <1>8, Zenon DEF Meaning
  <2>2. InMonth(t, m - 1)
    BY <1>2, <1>3, <2>1
  <2>3. Relative[p] = <<BeginOf(m - 1), BeginOf(m)>>
    BY <1>4, <1>16 DEF Relative
  <2>4. m \in Int /\ (m - 1) + 1 = m
    BY <1>1
  <2>5. QED
    BY <1>9, <2>2, <2>3, <2>4 DEF InMonth
<1>17. CASE p = "lastYear"
  <2>1. \E a \in MonthsNear :
          InMonth(Now, a) /\ \E n \in MonthsNear : InMonth(t, n) /\ n \div 12 = a \div 12 - 1
    BY <1>17, <1>8, Zenon DEF Meaning
  <2>2. PICK n \in Int : InMonth(t, n) /\ n \div 12 = y - 1
    BY <1>1, <1>2, <1>3, <2>1
  <2>3. 12 * (y - 1) \in Int /\ 12 * (y - 1) <= n /\ n + 1 \in Int /\ n + 1 <= 12 * y /\ 12 * y \in Int
    BY <1>1, <2>2
  <2>4. /\ BeginOf(12 * (y - 1)) <= BeginOf(n) /\ BeginOf(n + 1) <= BeginOf(12 * y)
        /\ BeginOf(12 * (y - 1)) \in Int /\ BeginOf(n) \in Int
        /\ BeginOf(n + 1) \in Int /\ BeginOf(12 * y) \in Int
    BY <2>2, <2>3, MonthsInOrder, MonthBegins
  <2>5. BeginOf(12 * (y - 1)) <= t /\ t <= BeginOf(12 * y)
    BY <2>2, <2>4 DEF InMonth
  <2>6. Relative[p] = <<Midnight(clock.year - 1, 1, 1), Midnight(clock.year, 1, 1)>>
    BY <1>17 DEF Relative
  <2>7. BeginOf(12 * y) = Midnight(y, 1, 1) /\ BeginOf(12 * (y - 1)) = Midnight(y - 1, 1, 1)
    BY <1>1, YearBegins
  <2>8. QED
    BY <2>4, <2>5, <2>6, <2>7 DEF y
<1>18. CASE p = "lastNight"
  <2>1. t \in FloorDay(Now) - 2..FloorDay(Now) + 5
    BY <1>18, <1>8, Zenon DEF Meaning
  <2>2. Relative[p] = <<FloorDay(Now - 24) + 22, FloorDay(Now) + 6>>
    BY <1>3, <1>18 DEF Relative
  <2>3. QED
    BY <1>6, <2>1, <2>2
<1>19. CASE p = "lastDays"
  <2>1. t > Now - 48
    BY <1>19, <1>8, Zenon DEF Meaning
  <2>2. Relative[p] = <<Now - 72, Now>>
    BY <1>3, <1>19 DEF Relative
  <2>3. QED
    BY <1>1, <2>1, <2>2
<1>20. CASE p = "recently"
  <2>1. t > Now - 48
    BY <1>20, <1>8, Zenon DEF Meaning
  <2>2. Relative[p] = <<Now - 48, Now>>
    BY <1>3, <1>20 DEF Relative
  <2>3. QED
    BY <1>1, <2>1, <2>2
<1>21. p \in {"yesterday", "today", "thisWeek", "thisMonth", "thisYear", "lastWeek",
              "lastMonth", "lastYear", "lastNight", "lastDays", "recently"}
  BY DEF Precedence, Range, Unread
<1>22. QED
  BY ONLY <1>10, <1>11, <1>12, <1>13, <1>14, <1>15, <1>16, <1>17, <1>18, <1>19, <1>20, <1>21,
          Zenon

\* The hours of a date with a four-digit year are in the date's period.
LEMMA DateCovers ==
  ASSUME NEW d \in Written, d.year > 99, Exists(d), NEW t \in Nat,
         t \div 24 = Ordinal(d.year, d.month, d.day)
  PROVE  /\ Dated(d)[1] \in Int /\ Dated(d)[2] \in Int
         /\ Dated(d)[1] <= t /\ t <= Dated(d)[2]
<1> DEFINE y == d.year
           m == d.month
           e == d.day
           o == Ordinal(y, m, e)
<1>1. y \in 0..LastYear /\ e \in 0..99 /\ m \in 1..12 /\ y > 99
  BY WrittenFields DEF Exists
<1> HIDE DEF y, m, e
<1>2. y \in Int /\ e \in Int
  BY <1>1
<1>3. YearOf(y) = y
  BY <1>1 DEF YearOf
<1>4. o \in Int
  <2>1. y \in Int /\ m \in 1..12 /\ e \in Int
    BY <1>1, <1>2
  <2>2. Ordinal(y, m, e) = Ordinal(y, m, 1) + (e - 1) /\ Ordinal(y, m, 1) \in Int
    BY ONLY <2>1, DaysFollow
  <2>3. QED
    BY <2>1, <2>2
<1>5. Dated(d) = <<FloorDay(24 * o), CeilDay(24 * o)>>
  BY <1>3 DEF Dated, Midnight, Day, y, m, e
<1>6. t \div 24 = o
  BY DEF y, m, e
<1> HIDE DEF o
<1>7. FloorDay(24 * o) = 24 * o /\ CeilDay(24 * o) = 24 * o + 23
  BY <1>4 DEF FloorDay, CeilDay, Day
<1>8. 24 * o <= t /\ t <= 24 * o + 23
  BY <1>4, <1>6
<1>9. QED
  BY <1>4, <1>5, <1>7, <1>8

\* A single phrase is the one a period is taken from.
LEMMA OnePhrase ==
  ASSUME NEW q, NEW p \in Range(Precedence), q.phrases = {p}
  PROVE  PhraseOf(q) = p
<1> DEFINE named == {i \in 1..Len(Precedence) : Precedence[i] \in q.phrases}
<1>1. Len(Precedence) = 14 /\ Range(Precedence) = {Precedence[i] : i \in 1..14}
  BY DEF Precedence, Range
<1>2. named \subseteq Nat /\ named # {}
  BY <1>1
<1>3. PhraseOf(q) = Precedence[Min(named)]
  BY <1>2 DEF PhraseOf
<1>4. Min(named) \in named
  <2> HIDE DEF named
  <2> QED
    BY <1>2, Smallest DEF Min
<1>5. QED
  BY <1>3, <1>4

\* What one phrase or one date names, up to the present, is in the period of the question.
LEMMA PeriodCovers ==
  ASSUME clock \in Clocks, NEW q, IsQuestion(q), IsRead(q),
         NEW t \in Nat, t <= Now, Names(q, t)
  PROVE  /\ PeriodOf(q)[1] \in Int /\ PeriodOf(q)[2] \in Int
         /\ PeriodOf(q)[1] <= t /\ t <= PeriodOf(q)[2]
<1>1. q.date \in Seq(Written) /\ Len(q.date) <= 1 /\ q.phrases \subseteq Range(Precedence)
  BY DEF IsQuestion
<1>2. CASE q.date = <<>>
  <2>1. Cardinality(q.phrases) = 1 /\ q.phrases \intersect Unread = {}
    BY <1>2, EmptySeq DEF IsRead
  <2>2. IsFiniteSet(q.phrases) /\ Cardinality(q.phrases) = 1
    <3>1. Precedence \in [1..14 -> Range(Precedence)] /\ Precedence \in Seq(Range(Precedence))
      BY DEF Precedence, Range
    <3>2. IsFiniteSet(Range(Precedence))
      BY <3>1, RangeFinite
    <3>3. IsFiniteSet(q.phrases) /\ Cardinality(q.phrases) \in Nat
      BY <1>1, <3>2, FS_Subset, FS_CardinalityType
    <3>4. QED
      BY <2>1, <3>3
  <2>3. PICK p : q.phrases = {p}
    BY <2>2, FS_Singleton
  <2>4. p \in Range(Precedence) \ Unread
    BY <1>1, <2>1, <2>3
  <2>5. PeriodOf(q) = Relative[p]
    BY <1>2, <2>3, <2>4, OnePhrase DEF PeriodOf
  <2>6. QED
    BY <1>2, <2>3, <2>4, <2>5, PhraseCovers
<1>3. CASE q.date # <<>>
  <2> DEFINE d == Head(q.date)
  <2>1. d.year > 99 /\ Exists(d) /\ t \div 24 = Ordinal(d.year, d.month, d.day)
    BY <1>3 DEF IsRead, Names, Day
  <2>2. PeriodOf(q) = Dated(d)
    BY <1>3, <2>1 DEF PeriodOf
  <2>3. d \in Written
    BY ONLY <1>1, <1>3
  <2> HIDE DEF d
  <2>4. QED
    BY <2>1, <2>2, <2>3, DateCovers
<1>4. QED
  BY <1>2, <1>3

-----------------------------------------------------------------------------
(* Answers about a period.                                                 *)

\* The question names a date or a phrase.
Timed == question.date # <<>> \/ question.phrases # {}

Overlapping == Keep(past.sessions, {s \in Range(past.sessions) : Overlaps(s)})

\* What each step of an answer about a period leaves to the next.
CoverInv ==
  /\ question \in Questions /\ clock \in Clocks
  /\ Timed => past \in Pasts(clock) /\ at # "searching"
  /\ Timed /\ at # "routing" => period = PeriodOf(question)
  /\ Timed /\ at \in {"listening", "writing", "answered"} =>
       listed = SubSeq(Overlapping, 1, Lowest(MaxListed, Len(Overlapping)))
  /\ Timed /\ at \in {"writing", "answered"} =>
       recalled = {c \in past.calls : c.done /\ c.at \in period[1]..period[2]}

\* The period depends on the question and the clock alone ...
LEMMA SamePeriod ==
  ASSUME UNCHANGED asked
  PROVE  PeriodOf(question)' = PeriodOf(question) /\ Timed' = Timed
<1>1. question' = question /\ clock' = clock
  BY DEF asked
<1>2. Now' = Now /\ LastMonth' = LastMonth
  BY <1>1 DEF Now, LastMonth
<1>3. Relative' = Relative
  BY <1>1, <1>2 DEF Relative
<1>4. QED
  BY <1>1, <1>3 DEF PeriodOf, Timed

\* ... and what overlaps it on the period and the past.
LEMMA SameOverlapping ==
  ASSUME UNCHANGED <<asked, period>>
  PROVE  Overlapping' = Overlapping
BY DEF asked, Overlapping, Overlaps

\* A question begins with nothing found.
LEMMA CoverInit == AnswerInit => CoverInv
BY DEF AnswerInit, CoverInv, Timed

\* Each step does its part and leaves the others.
LEMMA CoverStep == CoverInv /\ [AnswerNext]_<<retrievalVars, answerVars>> => CoverInv'
<1> SUFFICES ASSUME CoverInv, [AnswerNext]_<<retrievalVars, answerVars>> PROVE CoverInv'
  OBVIOUS
<1>1. UNCHANGED asked
  BY DEF AnswerNext, Route, Search, Raise, ListSessions, ListRecordings, QuoteOnly,
         Write, answerVars
<1>2. question' = question /\ clock' = clock /\ past' = past
  BY <1>1 DEF asked
<1>3. PeriodOf(question)' = PeriodOf(question) /\ Timed' = Timed
  BY <1>1, SamePeriod
<1>4. UNCHANGED period => Overlapping' = Overlapping
  BY <1>1, SameOverlapping
<1>5. CASE Route
  <2>1. at = "routing" /\ (Timed => at' = "listing" /\ period' = PeriodOf(question))
    BY <1>5 DEF Route, Timed
  <2>2. at' \in {"searching", "listing"}
    BY <1>5 DEF Route
  <2>3. QED
    BY <1>2, <1>3, <2>1, <2>2 DEF CoverInv
<1>6. CASE Search
  <2>1. ~ Timed
    BY <1>6 DEF Search, CoverInv
  <2>2. QED
    BY <1>2, <1>3, <2>1 DEF CoverInv
<1>12. CASE Raise
  <2>1. at # "routing" /\ at' = "refused" /\ UNCHANGED period
    BY <1>12 DEF Raise
  <2>2. QED
    BY <1>2, <1>3, <2>1 DEF CoverInv
<1>7. CASE ListSessions
  <2>1. /\ at = "listing" /\ at' = "listening" /\ UNCHANGED period
        /\ listed' = SubSeq(Overlapping, 1, Lowest(MaxListed, Len(Overlapping)))
    BY <1>7 DEF ListSessions, Overlapping
  <2>2. QED
    BY <1>2, <1>3, <1>4, <2>1 DEF CoverInv
<1>8. CASE ListRecordings
  <2>1. /\ at = "listening" /\ at' = "writing" /\ UNCHANGED <<period, listed>>
        /\ recalled' = {c \in past.calls : c.done /\ c.at \in period[1]..period[2]}
    BY <1>8 DEF ListRecordings
  <2>2. QED
    BY <1>2, <1>3, <1>4, <2>1 DEF CoverInv
<1>9. CASE QuoteOnly \/ Write
  <2>1. at = "writing" /\ at' \in {"writing", "answered"} /\ UNCHANGED <<period, listed, recalled>>
    BY <1>9 DEF QuoteOnly, Write
  <2>2. QED
    BY <1>2, <1>3, <1>4, <2>1 DEF CoverInv
<1>10. CASE UNCHANGED <<retrievalVars, answerVars>>
  <2>1. UNCHANGED <<at, period, listed, recalled>>
    BY <1>10 DEF answerVars
  <2>2. QED
    BY <1>2, <1>3, <1>4, <2>1 DEF CoverInv
<1>11. QED
  BY <1>5, <1>6, <1>7, <1>8, <1>9, <1>10, <1>12 DEF AnswerNext

\* A session of one of a past's messages: it spans the message's hour.
LEMMA Spans ==
  ASSUME NEW p \in Past, InOrder(p.sessions), NEW s \in Range(p.sessions), NEW i \in 1..Len(s)
  PROVE  s \in Seq(Nat) /\ s[i] \in Nat /\ s[1] \in Nat /\ Last(s) \in Nat
         /\ s[1] <= s[i] /\ s[i] <= Last(s)
<1>1. p.sessions \in Seq(Seq(Nat))
  BY DEF Past
<1>2. PICK j \in 1..Len(p.sessions) : s = p.sessions[j]
  BY <1>1, RangeEquality
<1>3. s \in Seq(Nat)
  BY <1>1, <1>2, ElementOfSeq
<1>4. Len(s) \in Nat /\ \A k \in 1..Len(s) : s[k] \in Nat
  BY <1>3, LenProperties, ElementOfSeq
<1>5. \A j1, k \in 1..Len(s) : j1 < k => s[j1] <= s[k]
  BY <1>2 DEF InOrder
<1>6. 1 \in 1..Len(s) /\ Len(s) \in 1..Len(s)
  BY <1>4
<1>7. Last(s) = s[Len(s)]
  BY DEF Last
<1>8. s[1] <= s[i] /\ s[i] <= s[Len(s)]
  BY <1>4, <1>5, <1>6
<1>9. QED
  BY <1>3, <1>4, <1>6, <1>7, <1>8

\* The invariant at the end of an answer.
LEMMA PeriodHolds == CoverInv => PeriodIsCovered
<1> SUFFICES ASSUME CoverInv, at \in {"writing", "answered"},
                    IsRead(question)
             PROVE  /\ \A s \in Range(past.sessions) :
                         (\E i \in 1..Len(s) : s[i] <= Now /\ Names(question, s[i])) => Listed(s)
                    /\ \A c \in past.calls :
                         c.done /\ c.at <= Now /\ Names(question, c.at) => c \in recalled
  BY DEF PeriodIsCovered
<1>1. question \in Questions /\ clock \in Clocks /\ IsQuestion(question)
  BY AnswerAssumption DEF CoverInv
<1>2. Timed
  <2> SUFFICES ASSUME question.date = <<>>, question.phrases = {} PROVE FALSE
    BY DEF Timed
  <2>1. Len(<<>>) = 0 /\ Cardinality({}) = 0
    BY FS_EmptySet, EmptySeq
  <2>2. QED
    BY <2>1 DEF IsRead
<1>3. past \in Past /\ InOrder(past.sessions)
  BY <1>1, <1>2, AnswerAssumption DEF CoverInv
<1>4. /\ period = PeriodOf(question)
      /\ listed = SubSeq(Overlapping, 1, Lowest(MaxListed, Len(Overlapping)))
      /\ recalled = {c \in past.calls : c.done /\ c.at \in period[1]..period[2]}
  BY <1>2 DEF CoverInv
<1>5. \A t \in Nat : t <= Now /\ Names(question, t) =>
        /\ period[1] \in Int /\ period[2] \in Int
        /\ period[1] <= t /\ t <= period[2]
  BY <1>1, <1>4, PeriodCovers
<1>6. ASSUME NEW c \in past.calls, c.done, c.at <= Now, Names(question, c.at)
      PROVE  c \in recalled
  <2>1. c.at \in Nat
    BY <1>3 DEF Past
  <2>2. /\ period[1] \in Int /\ period[2] \in Int
        /\ period[1] <= c.at /\ c.at <= period[2]
    BY <1>5, <1>6, <2>1
  <2>3. QED
    BY <1>4, <1>6, <2>1, <2>2
<1>7. ASSUME NEW s \in Range(past.sessions), NEW i \in 1..Len(s), s[i] <= Now,
             Names(question, s[i])
      PROVE  Listed(s)
  <2> DEFINE S == Seq(Nat)
             o == Overlapping
             n == Len(o)
             R == {u \in S \X S : Last(u[1]) <= u[2][1]}
  <2>1. s \in S /\ s[i] \in Nat /\ s[1] \in Nat /\ Last(s) \in Nat /\ s[1] <= s[i] /\ s[i] <= Last(s)
    BY <1>3, Spans
  <2>2. Overlaps(s)
    <3>1. s[i] \in Nat /\ s[i] <= Now /\ Names(question, s[i])
      BY <1>7, <2>1
    <3>2. /\ period[1] \in Int /\ period[2] \in Int
          /\ period[1] <= s[i] /\ s[i] <= period[2]
      BY <1>5, <3>1
    <3> DEFINE a == period[1]
               b == period[2]
               t == s[i]
               c == s[1]
               e == Last(s)
    <3> HIDE DEF a, b, t, c, e
    <3>3. a \in Int /\ b \in Int /\ a <= t /\ t <= b
      BY <3>2 DEF a, b, t
    <3>4. t \in Nat /\ c \in Nat /\ e \in Nat /\ c <= t /\ t <= e
      BY <2>1 DEF t, c, e
    <3>5. c <= b /\ e >= a
      BY ONLY <3>3, <3>4
    <3>6. QED
      BY <3>5 DEF Overlaps, a, b, c, e
  <2>3. past.sessions \in Seq(S)
    BY <1>3 DEF Past
  <2>4. Range(o) = Range(past.sessions) \intersect {t \in Range(past.sessions) : Overlaps(t)}
    BY <2>3, KeepMembers DEF Overlapping
  <2>5. Chain(past.sessions, R)
    <3>1. \A a \in 1..Len(past.sessions) : past.sessions[a] \in S
      BY <2>3, ElementOfSeq
    <3>2. \A a, b \in 1..Len(past.sessions) :
            a < b => Last(past.sessions[a]) <= past.sessions[b][1]
      BY <1>3 DEF InOrder
    <3>3. QED
      BY <3>1, <3>2 DEF Chain
  <2>6. Chain(o, R) /\ o \in Seq(S)
    BY <2>3, <2>5, KeepChain, KeepType DEF Overlapping
  <2>7. n \in Nat /\ Range(o) = {o[k] : k \in 1..n}
    BY <2>6, LenProperties, RangeEquality
  <2>8. PICK k \in 1..n : s = o[k]
    BY <2>2, <2>4, <2>7
  <2> HIDE DEF o, n, S
  <2> DEFINE m == Lowest(MaxListed, n)
             one == 1
  <2>9. m \in 0..n /\ m <= MaxListed /\ (m < n => m = MaxListed)
    BY <2>7, AnswerAssumption DEF Lowest
  <2>10. listed = SubSeq(o, one, m) /\ one = 1
    BY <1>4 DEF o, n
  <2> HIDE DEF m, one
  <2>11. /\ listed \in Seq(S) /\ Len(listed) = m
         /\ \A a \in 1..m : listed[a] = o[a]
    BY <2>6, <2>7, <2>9, <2>10, SubSeqProperties DEF n
  <2>12. Range(listed) = {o[a] : a \in 1..m}
    BY <2>11, RangeEquality
  <2>13. CASE k <= m
    BY <2>7, <2>8, <2>9, <2>12, <2>13 DEF Listed
  <2>14. CASE m < k
    <3>1. Len(listed) = MaxListed
      BY <2>7, <2>9, <2>11, <2>14
    <3>2. ASSUME NEW a \in 1..m PROVE Last(o[a]) <= s[1]
      <4>1. <<o[a], o[k]>> \in R
        BY <2>6, <2>7, <2>9, <2>14 DEF Chain, n
      <4>2. QED
        BY <2>8, <4>1
    <3>3. QED
      BY <2>12, <3>1, <3>2 DEF Listed
  <2>15. QED
    BY <2>7, <2>9, <2>13, <2>14
<1>8. QED
  BY <1>6, <1>7

\* An answer about yesterday, last month, a date ... leaves out no session and no
\* recording of it, in every year and at every hour, for the questions of IsRead.
THEOREM PeriodsAreCovered == AnswerSpec => []PeriodIsCovered
BY CoverInit, CoverStep, PeriodHolds, PTL DEF AnswerSpec

-----------------------------------------------------------------------------
(* Types of an answer.                                                     *)

\* Every period begins and ends at an hour.
LEMMA RelativeHours ==
  ASSUME clock \in Clocks, NEW p \in Range(Precedence)
  PROVE  Relative[p] \in Int \X Int
<1> DEFINE y == clock.year
           m == 12 * y + clock.month - 1
<1>1. /\ y \in Nat /\ m \in Nat /\ Now \in Int
      /\ BeginOf(m) = Midnight(y, clock.month, 1)
  BY PresentMonth
<1>2. m \in Int /\ m - 1 \in Int /\ y - 1 \in Int /\ y \in Int
  BY <1>1
<1>3. LastMonth = <<BeginOf(m - 1), BeginOf(m)>>
  BY PreviousMonth
<1> HIDE DEF m, y
<1>4. /\ BeginOf(m) \in Int /\ BeginOf(m - 1) \in Int
      /\ Midnight(y, 1, 1) \in Int /\ Midnight(y - 1, 1, 1) \in Int
  <2>1. 12 * y \in Int /\ 12 * (y - 1) \in Int
    BY <1>2
  <2>2. BeginOf(12 * y) = Midnight(y, 1, 1) /\ BeginOf(12 * (y - 1)) = Midnight(y - 1, 1, 1)
    BY <1>2, YearBegins
  <2>3. /\ BeginOf(m) \in Int /\ BeginOf(m - 1) \in Int
        /\ BeginOf(12 * y) \in Int /\ BeginOf(12 * (y - 1)) \in Int
    BY <1>2, <2>1, MonthBegins
  <2>4. QED
    BY <2>2, <2>3
<1>5. Day = 24
  BY DEF Day
<1>6. Now - 24 \in Int /\ Now - 48 \in Int /\ Now - 72 \in Int /\ Now - 168 \in Int
  BY <1>1
<1>7. /\ FloorDay(Now) \in Int /\ FloorDay(Now - 24) \in Int /\ CeilDay(Now - 24) \in Int
      /\ StartOfWeek(Now) \in Int /\ StartOfWeek(Now - 168) \in Int
  <2>1. \A t \in Int : FloorDay(t) \in Int /\ CeilDay(t) \in Int /\ StartOfWeek(t) \in Int
    BY DEF FloorDay, CeilDay, StartOfWeek, Day
  <2>2. QED
    BY <1>1, <1>6, <2>1
<1>8. FloorDay(Now - 24) + 22 \in Int /\ FloorDay(Now) + 6 \in Int
  BY <1>7
<1>9. CASE p = "yesterday"
  <2>1. Relative[p] = <<FloorDay(Now - 24), CeilDay(Now - 24)>>
    BY <1>1, <1>3, <1>5, <1>9 DEF Relative
  <2>2. QED
    BY <1>1, <1>4, <1>6, <1>7, <1>8, <2>1
<1>10. CASE p = "today"
  <2>1. Relative[p] = <<FloorDay(Now), Now>>
    BY <1>1, <1>3, <1>5, <1>10 DEF Relative
  <2>2. QED
    BY <1>1, <1>4, <1>6, <1>7, <1>8, <2>1
<1>11. CASE p = "thisWeek"
  <2>1. Relative[p] = <<StartOfWeek(Now), Now>>
    BY <1>1, <1>3, <1>5, <1>11 DEF Relative
  <2>2. QED
    BY <1>1, <1>4, <1>6, <1>7, <1>8, <2>1
<1>12. CASE p = "thisMonth"
  <2>1. Relative[p] = <<BeginOf(m), Now>>
    BY <1>1, <1>12, Zenon DEF Relative, y
  <2>2. QED
    BY <1>1, <1>4, <1>6, <1>7, <1>8, <2>1
<1>13. CASE p = "thisYear"
  <2>1. Relative[p] = <<Midnight(y, 1, 1), Now>>
    BY <1>1, <1>13, Zenon DEF Relative, y
  <2>2. QED
    BY <1>1, <1>4, <1>6, <1>7, <1>8, <2>1
<1>14. CASE p = "lastWeek"
  <2>1. Relative[p] = <<StartOfWeek(Now - 168), StartOfWeek(Now)>>
    BY <1>1, <1>3, <1>5, <1>14 DEF Relative
  <2>2. QED
    BY <1>1, <1>4, <1>6, <1>7, <1>8, <2>1
<1>15. CASE p = "lastMonth"
  <2>1. Relative[p] = <<BeginOf(m - 1), BeginOf(m)>>
    BY <1>1, <1>3, <1>5, <1>15 DEF Relative
  <2>2. QED
    BY <1>1, <1>4, <1>6, <1>7, <1>8, <2>1
<1>16. CASE p = "lastYear"
  <2>1. Relative[p] = <<Midnight(y - 1, 1, 1), Midnight(y, 1, 1)>>
    BY <1>1, <1>16, Zenon DEF Relative, y
  <2>2. QED
    BY <1>1, <1>4, <1>6, <1>7, <1>8, <2>1
<1>17. CASE p = "lastNight"
  <2>1. Relative[p] = <<FloorDay(Now - 24) + 22, FloorDay(Now) + 6>>
    BY <1>1, <1>3, <1>5, <1>17 DEF Relative
  <2>2. QED
    BY <1>1, <1>4, <1>6, <1>7, <1>8, <2>1
<1>18. CASE p \in {"lastDays", "pastWeek", "pastMonth"}
  <2>1. Relative[p] = <<Now - 72, Now>>
    BY <1>1, <1>3, <1>5, <1>18 DEF Relative
  <2>2. QED
    BY <1>1, <1>4, <1>6, <1>7, <1>8, <2>1
<1>19. CASE p \in {"since", "recently"}
  <2>1. Relative[p] = <<Now - 48, Now>>
    BY <1>1, <1>3, <1>5, <1>19 DEF Relative
  <2>2. QED
    BY <1>1, <1>4, <1>6, <1>7, <1>8, <2>1
<1>20. p \in {"yesterday", "today", "thisWeek", "thisMonth", "thisYear", "lastWeek",
              "lastMonth", "lastYear", "lastNight"}
        \/ p \in {"lastDays", "pastWeek", "pastMonth"} \/ p \in {"since", "recently"}
  BY DEF Precedence, Range
<1>21. QED
  BY ONLY <1>9, <1>10, <1>11, <1>12, <1>13, <1>14, <1>15, <1>16, <1>17, <1>18, <1>19, <1>20, Zenon

\* The period of a question is one of those or a day.
LEMMA PeriodHours ==
  ASSUME clock \in Clocks, NEW q, IsQuestion(q)
  PROVE  PeriodOf(q) \in Int \X Int
<1> DEFINE d == Head(q.date)
           named == {i \in 1..Len(Precedence) : Precedence[i] \in q.phrases}
<1>1. CASE q.date # <<>> /\ Exists(d)
  <2>1. q.date # <<>> /\ q.date \in Seq(Written)
    BY <1>1 DEF IsQuestion
  <2>2. d \in Written
    BY ONLY <2>1
  <2> HIDE DEF d
  <2> DEFINE y == d.year
             m == d.month
             e == d.day
             z == YearOf(y)
  <2>3. y \in 0..LastYear /\ e \in 0..99
    BY <2>2, WrittenFields
  <2>4. m \in 1..12
    BY <1>1 DEF Exists, d
  <2>5. PeriodOf(q) = <<FloorDay(24 * Ordinal(z, m, e)), CeilDay(24 * Ordinal(z, m, e))>>
    BY <1>1 DEF PeriodOf, Dated, Midnight, Day, d
  <2> HIDE DEF y, m, e
  <2>6. z \in Int
    BY <2>3 DEF YearOf
  <2> HIDE DEF z
  <2>7. z \in Int /\ m \in 1..12 /\ e \in Int
    BY <2>3, <2>6, <2>4
  <2>8. Ordinal(z, m, 1) \in Int /\ Ordinal(z, m, e) = Ordinal(z, m, 1) + (e - 1)
    BY ONLY <2>7, DaysFollow
  <2>9. 24 * Ordinal(z, m, e) \in Int
    BY <2>7, <2>8
  <2>10. \A t \in Int : FloorDay(t) \in Int /\ CeilDay(t) \in Int
    BY DEF FloorDay, CeilDay, Day
  <2>11. QED
    BY <2>5, <2>9, <2>10
<1>2. CASE ~ (q.date # <<>> /\ Exists(d))
  <2>1. PeriodOf(q) = Relative[PhraseOf(q)]
    BY <1>2 DEF PeriodOf
  <2>2. Len(Precedence) = 14 /\ Range(Precedence) = {Precedence[i] : i \in 1..14}
    BY DEF Precedence, Range
  <2>3. PhraseOf(q) \in Range(Precedence)
    <3>1. CASE named = {}
      <4>1. PhraseOf(q) = "recently" /\ Precedence[14] = "recently"
        <5>1. PhraseOf(q) = IF named = {} THEN "recently" ELSE Precedence[Min(named)]
          BY Zenon DEF PhraseOf
        <5> HIDE DEF named
        <5>2. QED
          BY ONLY <3>1, <5>1 DEF Precedence
      <4>2. QED
        BY <2>2, <4>1
    <3>2. CASE named # {}
      <4>1. PhraseOf(q) = Precedence[Min(named)]
        BY <3>2 DEF PhraseOf
      <4>2. named \subseteq 1..14
        BY <2>2
      <4> HIDE DEF named
      <4>3. Min(named) \in named
        <5>1. named \subseteq Nat
          BY <4>2
        <5>2. \E x \in named : \A z \in named : x <= z
          BY <3>2, <5>1, Smallest
        <5>3. QED
          BY ONLY <5>2 DEF Min
      <4>4. QED
        BY <2>2, <4>1, <4>2, <4>3
    <3>3. QED
      BY <3>1, <3>2
  <2>4. QED
    BY <2>1, <2>3, RelativeHours
<1>3. QED
  BY <1>1, <1>2

\* With the last request a question is answered.
AnswerTyped ==
  /\ AnswerTypeOK
  /\ past \in Past
  /\ requests = 2 => at = "answered"

\* A question begins well typed ...
LEMMA TypedInit == AnswerInit => AnswerTyped
<1> SUFFICES ASSUME AnswerInit PROVE AnswerTyped
  OBVIOUS
<1>1. question \in Questions /\ clock \in Clocks /\ period = <<0, 0>> /\ requests = 0
      /\ at = "routing" /\ said = "" /\ recalled = {} /\ listed = <<>>
  BY Zenon DEF AnswerInit
<1>2. past \in Past
  <2>1. [sessions |-> <<>>, calls |-> {}] \in Past
    BY EmptySeq DEF Past
  <2>2. past = [sessions |-> <<>>, calls |-> {}] \/ past \in Pasts(clock)
    BY DEF AnswerInit
  <2>3. \A c \in Clocks : \A p \in Pasts(c) : p \in Past
    BY AnswerAssumption, Zenon
  <2>4. QED
    BY <1>1, <2>1, <2>2, <2>3, Zenon
<1>3. period \in Int \X Int
  <2>1. <<0, 0>> \in Int \X Int
    OBVIOUS
  <2>2. QED
    BY <1>1, <2>1, Zenon
<1>4. listed \in Seq(Seq(Nat))
  <2> DEFINE S == Seq(Nat)
  <2> HIDE DEF S
  <2>1. <<>> \in Seq(S)
    BY EmptySeq
  <2>2. listed \in Seq(S)
    BY <1>1, <2>1, Zenon
  <2>3. QED
    BY <2>2 DEF S
<1>5. recalled \subseteq past.calls /\ requests \in 0..2 /\ requests # 2
  <2>1. recalled = {} /\ requests = 0
    BY <1>1, Zenon
  <2>2. QED
    BY ONLY <2>1
<1>6. QED
  BY <1>1, <1>2, <1>3, <1>4, <1>5, Zenon DEF AnswerTyped, AnswerTypeOK

\* ... and stays so.
LEMMA TypedStep == AnswerTyped /\ [AnswerNext]_<<retrievalVars, answerVars>> => AnswerTyped'
<1> SUFFICES ASSUME AnswerTyped, [AnswerNext]_<<retrievalVars, answerVars>> PROVE AnswerTyped'
  OBVIOUS
<1> DEFINE Places == {"routing", "searching", "listing", "listening", "writing", "answered",
                      "refused"}
<1>1. UNCHANGED asked
  BY DEF AnswerNext, Route, Search, Raise, ListSessions, ListRecordings, QuoteOnly,
         Write, answerVars
<1>2. question' \in Questions /\ clock' \in Clocks /\ past' \in Past /\ past' = past
  BY <1>1 DEF asked, AnswerTyped, AnswerTypeOK
<1>3. /\ at \in Places /\ period \in Int \X Int /\ listed \in Seq(Seq(Nat))
      /\ recalled \subseteq past.calls /\ requests \in 0..2
      /\ said \in {"", "whole", "cut", "quotes"} /\ (requests = 2 => at = "answered")
  BY DEF AnswerTyped, AnswerTypeOK
<1>4. SUFFICES /\ at' \in Places /\ period' \in Int \X Int /\ listed' \in Seq(Seq(Nat))
               /\ recalled' \subseteq past.calls /\ requests' \in 0..2
               /\ said' \in {"", "whole", "cut", "quotes"} /\ (requests' = 2 => at' = "answered")
  BY <1>2 DEF AnswerTyped, AnswerTypeOK
<1>5. CASE Route
  <2>1. IsQuestion(question) /\ clock \in Clocks
    BY AnswerAssumption DEF AnswerTyped, AnswerTypeOK
  <2>2. PeriodOf(question) \in Int \X Int
    BY <2>1, PeriodHours
  <2>3. /\ at = "routing" /\ at' \in {"searching", "listing"}
        /\ period' = period \/ period' = PeriodOf(question)
        /\ UNCHANGED <<listed, recalled, requests, said>>
    BY <1>5 DEF Route
  <2>4. QED
    BY <1>3, <2>2, <2>3
<1>6. CASE Search \/ Raise
  <2>1. /\ at # "answered" /\ at' \in {"searching", "refused", "writing"}
        /\ UNCHANGED <<period, listed, recalled, requests, said>>
    BY <1>6 DEF Search, Raise
  <2>2. QED
    BY <1>3, <2>1
<1>7. CASE ListSessions
  <2> DEFINE o == Overlapping
             n == Len(o)
             m == Lowest(MaxListed, n)
             one == 1
             S == Seq(Nat)
  <2>1. /\ at = "listing" /\ at' = "listening" /\ listed' = SubSeq(o, one, m)
        /\ UNCHANGED <<period, recalled, requests, said>>
    BY <1>7 DEF ListSessions, Overlapping
  <2>2. past.sessions \in Seq(S)
    BY DEF AnswerTyped, Past
  <2>3. o \in Seq(S)
    BY <2>2, KeepType DEF Overlapping
  <2> HIDE DEF o, S
  <2>4. n \in Nat
    BY <2>3, LenProperties
  <2> HIDE DEF n
  <2>5. m \in 0..n
    BY <2>4, AnswerAssumption DEF Lowest
  <2>6. one = 1
    OBVIOUS
  <2> HIDE DEF m, one
  <2>7. SubSeq(o, one, m) \in Seq(S)
    BY <2>3, <2>4, <2>5, <2>6, SubSeqProperties DEF n
  <2>8. QED
    BY <1>3, <2>1, <2>7 DEF S
<1>8. CASE ListRecordings
  <2>1. /\ at = "listening" /\ at' = "writing" /\ recalled' \subseteq past.calls
        /\ UNCHANGED <<period, listed, requests, said>>
    BY <1>8 DEF ListRecordings
  <2>2. QED
    BY ONLY <1>3, <2>1
<1>9. CASE QuoteOnly
  <2>1. /\ at' = "answered" /\ said' = "quotes"
        /\ UNCHANGED <<period, listed, recalled, requests>>
    BY <1>9, Zenon DEF QuoteOnly
  <2>2. QED
    BY ONLY <1>3, <2>1
<1>10. CASE Write
  <2>1. requests \in 0..1
    <3>1. at = "writing"
      BY <1>10, Zenon DEF Write
    <3>2. requests \in 0..2 /\ requests # 2
      BY <1>3, <3>1
    <3>3. QED
      BY ONLY <3>2
  <2>2. /\ requests' = requests + 1 /\ UNCHANGED <<period, listed, recalled>>
        /\ \/ said' \in {"whole", "cut"} /\ at' = "answered"
           \/ requests = 0 /\ said' = said /\ at' = at
           \/ said' = "quotes" /\ at' = "answered"
    BY <1>10 DEF Write, IsText
  <2>3. requests' \in 0..2 /\ (requests' = 2 => requests # 0)
    BY <2>1, <2>2
  <2>4. QED
    BY ONLY <1>3, <2>2, <2>3
<1>11. CASE UNCHANGED <<retrievalVars, answerVars>>
  BY <1>3, <1>11 DEF answerVars
<1>12. QED
  BY <1>5, <1>6, <1>7, <1>8, <1>9, <1>10, <1>11 DEF AnswerNext

\* Every state of an answer has the types declared: a period begins and ends at an hour
\* whatever is asked and whenever, and there is no third request to Gemini.
THEOREM AnswerTypes == AnswerSpec => []AnswerTypeOK
<1>1. AnswerTyped => AnswerTypeOK
  BY DEF AnswerTyped
<1>2. QED
  BY <1>1, TypedInit, TypedStep, PTL DEF AnswerSpec
=============================================================================
