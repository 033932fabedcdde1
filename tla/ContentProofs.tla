---------------------------- MODULE ContentProofs ----------------------------
(***************************************************************************)
(* Proofs about the three programs on the way into the index.  The rebuild *)
(* of any log, for any gap, cap, budget, batch size and number of attempts: *)
(* sessions, chunks and vectors.  The imports of any stretches of any      *)
(* history: lines, ids and rows.  The transcription of any recording:      *)
(* windows, segments and chunks.  At the end, all of them of Content, where *)
(* one program runs while the state of the others is at rest.              *)
(***************************************************************************)
EXTENDS Content, ListLemmas, TLAPS

-----------------------------------------------------------------------------
(* Sessions, apart from the loop that builds them.                         *)

Apart(l, p) == l[p].at - l[p - 1].at > Gap

\* Neither a silence nor the cap lies within a session ...
Tight(l, from, to) == to - from < MaxMessages /\ \A p \in from + 1..to : ~ Apart(l, p)

\* ... and one of the two ends it.
Ended(l, from, to) == Apart(l, to + 1) \/ to - from + 1 = MaxMessages

Chained(S) ==
  \A s \in 1..Len(S) :
    /\ S[s][1] <= S[s][2]
    /\ S[s][1] = IF s = 1 THEN 1 ELSE S[s - 1][2] + 1

Maximal(l, S) ==
  \A s \in 1..Len(S) :
    /\ Tight(l, S[s][1], S[s][2])
    /\ s < Len(S) => Ended(l, S[s][1], S[s][2])

\* The message behind the last session.
Following(S) == IF S = <<>> THEN 1 ELSE S[Len(S)][2] + 1

\* A session that is closed where the last one ended keeps the chain.
LEMMA CloseSession ==
  ASSUME NEW l, NEW S \in Seq(Nat \X Nat), NEW from \in Nat, NEW to \in Nat,
         Chained(S), Maximal(l, S),
         from <= to, from = Following(S),
         Tight(l, from, to),
         S # <<>> => Ended(l, S[Len(S)][1], S[Len(S)][2])
  PROVE  /\ Append(S, <<from, to>>) \in Seq(Nat \X Nat)
         /\ Append(S, <<from, to>>) # <<>>
         /\ Append(S, <<from, to>>)[Len(Append(S, <<from, to>>))] = <<from, to>>
         /\ Following(Append(S, <<from, to>>)) = to + 1
         /\ Chained(Append(S, <<from, to>>))
         /\ Maximal(l, Append(S, <<from, to>>))
<1> DEFINE T == Append(S, <<from, to>>)
<1>1. /\ T \in Seq(Nat \X Nat)
      /\ Len(T) = Len(S) + 1
      /\ T[Len(T)] = <<from, to>>
  OBVIOUS
<1>2. Len(S) \in Nat /\ Len(T) = Len(S) + 1
  OBVIOUS
<1>3. \A s \in 1..Len(S) : T[s] = S[s]
  OBVIOUS
<1>4. S # <<>> => Len(S) \in 1..Len(S)
  OBVIOUS
<1>5. S = <<>> => Len(S) = 0
  OBVIOUS
<1> HIDE DEF T
<1>6. T # <<>> /\ Following(T) = to + 1
  <2>1. T # <<>>
    BY <1>2
  <2>2. T[Len(T)][2] = to
    BY <1>1
  <2>3. QED
    BY <2>1, <2>2 DEF Following
<1>7. Chained(T)
  <2> SUFFICES ASSUME NEW s \in 1..Len(T)
               PROVE  /\ T[s][1] <= T[s][2]
                      /\ T[s][1] = IF s = 1 THEN 1 ELSE T[s - 1][2] + 1
    BY DEF Chained
  <2>1. CASE s = Len(T)
    <3>1. s # 1 => S # <<>> /\ s - 1 = Len(S) /\ T[s - 1] = S[Len(S)]
      <4> SUFFICES ASSUME s # 1
                   PROVE  S # <<>> /\ s - 1 = Len(S) /\ T[s - 1] = S[Len(S)]
        OBVIOUS
      <4>1. s - 1 = Len(S) /\ Len(S) # 0
        BY <1>2, <2>1
      <4>2. S # <<>>
        BY <1>5, <4>1
      <4>3. QED
        BY <1>4, <1>3, <4>1, <4>2
    <3>2. s = 1 => S = <<>>
      BY <1>4, <1>2, <2>1
    <3>3. T[s][1] = from /\ T[s][2] = to
      BY <1>1, <2>1
    <3>4. QED
      BY <3>1, <3>2, <3>3 DEF Following
  <2>2. CASE s # Len(T)
    <3>1. s \in 1..Len(S) /\ (s # 1 => s - 1 \in 1..Len(S))
      BY <1>2, <2>2
    <3>2. T[s] = S[s] /\ (s # 1 => T[s - 1] = S[s - 1])
      BY <1>3, <3>1
    <3>3. QED
      BY <3>1, <3>2 DEF Chained
  <2>3. QED
    BY <2>1, <2>2
<1>8. Maximal(l, T)
  <2> SUFFICES ASSUME NEW s \in 1..Len(T)
               PROVE  /\ Tight(l, T[s][1], T[s][2])
                      /\ s < Len(T) => Ended(l, T[s][1], T[s][2])
    BY DEF Maximal
  <2>1. CASE s = Len(T)
    BY <1>1, <2>1
  <2>2. CASE s # Len(T)
    <3>1. s \in 1..Len(S)
      BY <1>2, <2>2
    <3>2. Tight(l, S[s][1], S[s][2]) /\ (s < Len(S) => Ended(l, S[s][1], S[s][2]))
      BY <3>1 DEF Maximal
    <3>3. s = Len(S) => Ended(l, S[s][1], S[s][2])
      BY <1>5, <3>1
    <3>4. s < Len(S) \/ s = Len(S)
      BY <1>2, <3>1
    <3>5. T[s] = S[s]
      BY <1>3, <3>1
    <3>6. QED
      BY <3>2, <3>3, <3>4, <3>5
  <2>3. QED
    BY <2>1, <2>2
<1>9. QED
  BY <1>1, <1>6, <1>7, <1>8 DEF T

-----------------------------------------------------------------------------
(* The sessionizer.                                                        *)

\* The part of the state it works on.
CutTypes ==
  /\ log \in Seq(Message)
  /\ phase \in {"sessionize", "next", "split", "embed", "done", "raised"}
  /\ pos \in Nat
  /\ start \in Nat \ {0}
  /\ nth \in Nat
  /\ sessions \in Seq(Nat \X Nat)

\* While it runs, the closed sessions ended where they had to, and the open one,
\* empty only at the first message, has neither a silence nor too many messages.
OpenSession ==
  phase = "sessionize" =>
    /\ pos \in 1..Len(log) + 1
    /\ start < pos \/ (start = 1 /\ pos = 1)
    /\ start < pos => Tight(log, start, pos - 1)
    /\ sessions # <<>> => Ended(log, sessions[Len(sessions)][1], sessions[Len(sessions)][2])

CutInv ==
  /\ CutTypes
  /\ OpenSession
  /\ Chained(sessions)
  /\ Maximal(log, sessions)
  /\ start = Following(sessions)
  /\ phase # "sessionize" => start = Len(log) + 1

\* A rebuild starts with nothing cut.
LEMMA CutInit == Init => CutInv
<1> SUFFICES ASSUME Init PROVE CutInv
  OBVIOUS
<1>1. CutTypes
  BY RebuildAssumption DEF Init, CutTypes
<1>2. OpenSession
  BY <1>1 DEF Init, CutTypes, OpenSession
<1>3. Chained(sessions) /\ Maximal(log, sessions)
  BY DEF Init, Chained, Maximal
<1>4. QED
  BY <1>1, <1>2, <1>3 DEF Init, CutInv, Following

\* A message that cuts closes the session before it, which reaches up to it.
LEMMA FeedCut == CutInv /\ Feed /\ Cuts(pos) => CutInv'
<1> SUFFICES ASSUME CutInv, Feed, Cuts(pos) PROVE CutInv'
  OBVIOUS
<1>1. /\ phase = "sessionize" /\ phase' = phase /\ log' = log
      /\ pos <= Len(log) /\ pos' = pos + 1 /\ start' = pos
      /\ sessions' = Append(sessions, <<start, pos - 1>>)
      /\ nth' = nth
  BY DEF Feed
<1>2. start < pos /\ pos \in Nat /\ start \in Nat \ {0} /\ pos - 1 \in Nat
  BY DEF Cuts, CutInv, CutTypes
<1>3. /\ sessions' \in Seq(Nat \X Nat)
      /\ sessions' # <<>>
      /\ sessions'[Len(sessions')] = <<start, pos - 1>>
      /\ Following(sessions') = pos
      /\ Chained(sessions')
      /\ Maximal(log, sessions')
  <2>1. /\ sessions \in Seq(Nat \X Nat) /\ Chained(sessions) /\ Maximal(log, sessions)
        /\ start = Following(sessions)
    BY DEF CutInv, CutTypes
  <2>2. /\ Tight(log, start, pos - 1)
        /\ sessions # <<>> => Ended(log, sessions[Len(sessions)][1], sessions[Len(sessions)][2])
    BY <1>1, <1>2 DEF CutInv, OpenSession
  <2>3. start <= pos - 1 /\ (pos - 1) + 1 = pos
    BY <1>2
  <2>4. QED
    BY <1>1, <1>2, <2>1, <2>2, <2>3, CloseSession, SMTT(20)
<1>4. Ended(log, start, pos - 1)
  <2>1. Apart(log, pos) \/ pos - start >= MaxMessages
    BY DEF Cuts, Silence, Apart
  <2>2. (pos - 1) - start < MaxMessages /\ MaxMessages \in Nat
    BY <1>1, <1>2, RebuildAssumption DEF CutInv, OpenSession, Tight
  <2>3. (pos - 1) + 1 = pos
    BY <1>2
  <2>4. QED
    BY <1>2, <2>1, <2>2, <2>3 DEF Ended
<1>5. Tight(log, pos, pos)
  BY <1>2, RebuildAssumption DEF Tight
<1>6. OpenSession'
  <2>1. pos + 1 \in 1..Len(log) + 1 /\ pos < pos + 1 /\ (pos + 1) - 1 = pos
    BY <1>1, <1>2 DEF CutInv, CutTypes
  <2>2. /\ sessions'[Len(sessions')][1] = start
        /\ sessions'[Len(sessions')][2] = pos - 1
    BY <1>3
  <2>3. QED
    BY <1>1, <1>4, <1>5, <2>1, <2>2 DEF OpenSession
<1>7. QED
  BY <1>1, <1>2, <1>3, <1>6 DEF CutInv, CutTypes

\* Any other message makes the open session longer.
LEMMA FeedOn == CutInv /\ Feed /\ ~ Cuts(pos) => CutInv'
<1> SUFFICES ASSUME CutInv, Feed, ~ Cuts(pos) PROVE CutInv'
  OBVIOUS
<1>1. /\ phase = "sessionize" /\ phase' = phase /\ log' = log
      /\ pos <= Len(log) /\ pos' = pos + 1 /\ start' = start
      /\ sessions' = sessions /\ nth' = nth
  BY DEF Feed
<1>2. pos \in Nat \ {0} /\ start \in Nat \ {0} /\ start <= pos /\ MaxMessages \in Nat \ {0}
  <2>1. pos \in Nat /\ start \in Nat \ {0} /\ MaxMessages \in Nat \ {0}
    BY RebuildAssumption DEF CutInv, CutTypes
  <2>2. start < pos \/ (start = 1 /\ pos = 1)
    BY <1>1 DEF CutInv, OpenSession
  <2>3. QED
    BY <2>1, <2>2
<1>3. Tight(log, start, pos)
  <2>1. CASE start < pos
    <3>1. ~ Apart(log, pos) /\ pos - start < MaxMessages
      BY <1>2, <2>1 DEF Cuts, Silence, Apart
    <3>2. \A p \in start + 1..pos - 1 : ~ Apart(log, p)
      BY <1>1, <2>1 DEF CutInv, OpenSession, Tight
    <3>3. \A p \in start + 1..pos : p = pos \/ p \in start + 1..pos - 1
      BY <1>2
    <3>4. QED
      BY <3>1, <3>2, <3>3 DEF Tight
  <2>2. CASE ~ (start < pos)
    BY <1>2, <2>2 DEF Tight
  <2>3. QED
    BY <2>1, <2>2
<1>4. OpenSession'
  BY <1>1, <1>2, <1>3 DEF CutInv, CutTypes, OpenSession
<1>5. QED
  BY <1>1, <1>2, <1>4 DEF CutInv, CutTypes

\* The end of the log closes the last session.
LEMMA LastCut == CutInv /\ CloseLast => CutInv'
<1> SUFFICES ASSUME CutInv, CloseLast PROVE CutInv'
  OBVIOUS
<1>1. /\ phase = "sessionize" /\ phase' = "next" /\ log' = log
      /\ pos > Len(log) /\ pos' = pos /\ start' = pos
      /\ sessions' = IF start < pos THEN Append(sessions, <<start, pos - 1>>) ELSE sessions
      /\ nth' = nth
  BY DEF CloseLast
<1>2. /\ pos = Len(log) + 1
      /\ pos \in Nat \ {0} /\ pos - 1 \in Nat /\ start \in Nat \ {0}
      /\ sessions \in Seq(Nat \X Nat)
  <2>1. pos \in 1..Len(log) + 1 /\ Len(log) \in Nat
    BY <1>1 DEF CutInv, CutTypes, OpenSession
  <2>2. QED
    BY <1>1, <2>1 DEF CutInv, CutTypes
<1>3. /\ sessions' \in Seq(Nat \X Nat)
      /\ Following(sessions') = pos
      /\ Chained(sessions')
      /\ Maximal(log, sessions')
  <2>1. CASE start < pos
    <3>1. /\ Chained(sessions) /\ Maximal(log, sessions) /\ start = Following(sessions)
      BY DEF CutInv
    <3>2. /\ Tight(log, start, pos - 1)
          /\ sessions # <<>> => Ended(log, sessions[Len(sessions)][1], sessions[Len(sessions)][2])
      BY <1>1, <2>1 DEF CutInv, OpenSession
    <3>3. start <= pos - 1 /\ (pos - 1) + 1 = pos
      BY <1>2, <2>1
    <3>4. QED
      BY <1>1, <1>2, <2>1, <3>1, <3>2, <3>3, CloseSession
  <2>2. CASE ~ (start < pos)
    BY <1>1, <1>2, <2>2 DEF CutInv, OpenSession
  <2>3. QED
    BY <2>1, <2>2
<1>4. QED
  BY <1>1, <1>2, <1>3 DEF CutInv, CutTypes, OpenSession

\* Afterwards the sessions stay as they are.
LEMMA CutKept ==
  ASSUME CutInv, UNCHANGED <<log, start, sessions>>, pos' \in Nat, nth' \in Nat,
         \/ phase # "sessionize" /\ phase' \in {"next", "split", "embed", "done", "raised"}
         \/ phase' = phase /\ pos' = pos
  PROVE  CutInv'
BY DEF CutInv, CutTypes, OpenSession

\* Every step keeps the sessions right.
LEMMA CutStep == CutInv /\ [Next]_vars => CutInv'
<1> SUFFICES ASSUME CutInv, [Next]_vars PROVE CutInv'
  OBVIOUS
<1>1. CASE Feed
  BY <1>1, FeedCut, FeedOn
<1>2. CASE CloseLast
  BY <1>2, LastCut
<1>3. CASE NextSession
  <2>1. pos' \in Nat /\ nth' \in Nat
    <3>1. sessions \in Seq(Nat \X Nat) /\ pos \in Nat /\ nth \in Nat
      BY DEF CutInv, CutTypes
    <3>2. ASSUME nth + 1 \in 1..Len(sessions) PROVE sessions[nth + 1][1] \in Nat
      BY <3>1, <3>2
    <3>3. nth < Len(sessions) => nth + 1 \in 1..Len(sessions)
      BY <3>1
    <3>4. QED
      BY <1>3, <3>1, <3>2, <3>3 DEF NextSession
  <2>2. QED
    BY <1>3, <2>1, CutKept DEF NextSession, cutting
<1>4. CASE AddLine \/ EndSplit \/ Request \/ WriteChunks
  <2>1. pos' \in Nat /\ nth' \in Nat
    BY <1>4 DEF AddLine, EndSplit, Request, WriteChunks, CutInv, CutTypes
  <2>2. QED
    BY <1>4, <2>1, CutKept DEF AddLine, EndSplit, Request, WriteChunks, cutting
<1>5. CASE UNCHANGED vars
  BY <1>5, CutKept DEF vars, cutting, CutInv, CutTypes
<1>6. QED
  BY <1>1, <1>2, <1>3, <1>4, <1>5 DEF Next

\* What the invariant says of the sessions: they cover the log ...
LEMMA CoverHolds == CutInv => SessionsCoverLog
<1> SUFFICES ASSUME CutInv PROVE SessionsCoverLog
  OBVIOUS
<1>1. IF sessions = <<>> THEN start = 1 ELSE start = Last(sessions)[2] + 1
  BY DEF CutInv, Following, Last
<1>2. sessions # <<>> => Last(sessions)[2] \in Nat
  BY DEF CutInv, CutTypes, Last
<1>3. Len(log) \in Nat
  BY DEF CutInv, CutTypes
<1>4. QED
  BY <1>1, <1>2, <1>3 DEF CutInv, Chained, SessionsCoverLog

\* Every dated message is in exactly one session.
THEOREM SessionsCover == Spec => []SessionsCoverLog
  BY CoverHolds, CutInit, CutStep, PTL DEF Spec

\* ... and end where they have to.
LEMMA MaximalHolds == CutInv => SessionsAreMaximal
  BY DEF CutInv, Maximal, Tight, Ended, Apart, SessionsAreMaximal, Silence

\* Sessions end only at a silence or at the cap.
THEOREM SessionsMaximal == Spec => []SessionsAreMaximal
  BY MaximalHolds, CutInit, CutStep, PTL DEF Spec

-----------------------------------------------------------------------------
(* Chunks and their vectors.                                               *)

Row == [session : Nat, ids : Seq(Nat), vector : Seq(Nat)]

ChunkTypes ==
  /\ pos \in Nat
  /\ nth \in Nat
  /\ lines \in Seq(Nat)
  /\ chunks \in Seq(Seq(Nat))
  /\ vectors \in Seq(Seq(Nat))
  /\ rows \in Seq(Row)

Prefix(v, c) == Len(v) <= Len(c) /\ \A i \in 1..Len(v) : v[i] = c[i]

\* The vectors received so far belong to the first chunks, and none is received
\* while chunks are still made.
VectorInv ==
  /\ ChunkTypes
  /\ Prefix(vectors, chunks)
  /\ phase \in {"sessionize", "split"} => vectors = <<>>
  /\ RowsAreAligned

\* The response to a batch continues the prefix.
LEMMA NextBatch ==
  ASSUME NEW T, NEW c \in Seq(T), NEW v \in Seq(T), Prefix(v, c),
         NEW m \in Nat, Len(v) < m, m <= Len(c)
  PROVE  /\ v \o SubSeq(c, Len(v) + 1, m) \in Seq(T)
         /\ Prefix(v \o SubSeq(c, Len(v) + 1, m), c)
<1> DEFINE b == SubSeq(c, Len(v) + 1, m)
<1>1. Len(v) \in Nat /\ Len(c) \in Nat
  OBVIOUS
<1>2. /\ b \in Seq(T)
      /\ Len(b) = m - Len(v)
      /\ \A i \in 1..m - Len(v) : b[i] = c[Len(v) + i]
  <2>1. Len(v) + 1 \in 1..Len(c) /\ m \in 1..Len(c) /\ m - (Len(v) + 1) + 1 = m - Len(v)
    BY <1>1
  <2>2. QED
    BY <1>1, <2>1, SubSeqProperties
<1> HIDE DEF b
<1>3. /\ v \o b \in Seq(T)
      /\ Len(v \o b) = Len(v) + Len(b)
      /\ \A i \in 1..Len(v) + Len(b) :
           (v \o b)[i] = IF i <= Len(v) THEN v[i] ELSE b[i - Len(v)]
  BY <1>2, ConcatProperties
<1>4. ASSUME NEW i \in 1..Len(v \o b) PROVE (v \o b)[i] = c[i]
  <2>1. CASE i <= Len(v)
    BY <1>1, <1>2, <1>3, <1>4, <2>1 DEF Prefix
  <2>2. CASE ~ (i <= Len(v))
    <3>1. i - Len(v) \in 1..m - Len(v) /\ Len(v) + (i - Len(v)) = i
      BY <1>1, <1>2, <1>3, <1>4, <2>2
    <3>2. QED
      BY <1>1, <1>2, <1>3, <1>4, <2>2, <3>1
  <2>3. QED
    BY <2>1, <2>2
<1>5. QED
  BY <1>1, <1>2, <1>3, <1>4 DEF Prefix, b

\* A rebuild starts without chunks and vectors.
LEMMA VectorInit == Init => VectorInv
BY DEF Init, VectorInv, ChunkTypes, Prefix, RowsAreAligned

\* A request appends vectors of the texts it sent, in their order.
LEMMA RequestStep == VectorInv /\ Request => VectorInv'
<1> SUFFICES ASSUME VectorInv, Request PROVE VectorInv'
  OBVIOUS
<1>1. /\ phase = "embed" /\ phase' \in {"embed", "raised"}
      /\ UNCHANGED <<lines, chunks, rows, pos, nth>>
      /\ vectors' = vectors \/ vectors' = vectors \o Batch
      /\ Len(vectors) < Len(chunks)
  BY DEF Request, splitting
<1>2. vectors' \in Seq(Seq(Nat)) /\ Prefix(vectors', chunks)
  <2>1. CASE vectors' = vectors
    BY <2>1 DEF VectorInv, ChunkTypes
  <2>2. CASE vectors' = vectors \o Batch
    <3> DEFINE m == Lesser(Len(vectors) + BatchSize, Len(chunks))
    <3>1. Len(vectors) \in Nat /\ Len(chunks) \in Nat
      BY DEF VectorInv, ChunkTypes
    <3>2. m \in Nat /\ Len(vectors) < m /\ m <= Len(chunks)
      BY <1>1, <3>1, RebuildAssumption DEF Lesser
    <3>3. vectors' = vectors \o SubSeq(chunks, Len(vectors) + 1, m)
      BY <2>2 DEF Batch
    <3> HIDE DEF m
    <3>4. QED
      BY <3>2, <3>3, NextBatch DEF VectorInv, ChunkTypes
  <2>3. QED
    BY <1>1, <2>1, <2>2
<1>3. QED
  BY <1>1, <1>2 DEF VectorInv, ChunkTypes, RowsAreAligned

\* Each chunk is written with the vector at its place.
LEMMA WriteStep == VectorInv /\ WriteChunks => VectorInv'
<1> SUFFICES ASSUME VectorInv, WriteChunks PROVE VectorInv'
  OBVIOUS
<1> DEFINE n     == Lesser(Len(chunks), Len(vectors))
           fresh == [i \in 1..n |-> [session |-> nth, ids |-> chunks[i], vector |-> vectors[i]]]
<1>1. n \in Nat /\ n <= Len(chunks) /\ n <= Len(vectors)
  BY DEF VectorInv, ChunkTypes, Lesser
<1>2. phase' = "next" /\ UNCHANGED <<lines, chunks, vectors, pos, nth>> /\ rows' = rows \o fresh
  BY DEF WriteChunks, splitting, embedding
<1> HIDE DEF n
<1>3. ASSUME NEW i \in 1..n
      PROVE  /\ chunks[i] \in Seq(Nat)
             /\ vectors[i] = chunks[i]
  BY <1>1, <1>3 DEF VectorInv, ChunkTypes, Prefix
<1>4. fresh \in Seq(Row) /\ Len(fresh) = n
  <2>1. \A i \in 1..n : fresh[i] \in Row
    BY <1>3 DEF Row, VectorInv, ChunkTypes
  <2>2. QED
    BY <1>1, <2>1
<1>5. \A i \in 1..n : fresh[i].vector = fresh[i].ids
  BY <1>3
<1> HIDE DEF fresh
<1>6. rows' \in Seq(Row) /\ Len(rows') = Len(rows) + n
  <2>1. rows \in Seq(Row)
    BY DEF VectorInv, ChunkTypes
  <2>2. QED
    BY <1>2, <1>4, <2>1, ConcatProperties
<1>7. ASSUME NEW i \in 1..Len(rows') PROVE rows'[i].vector = rows'[i].ids
  <2>1. Len(rows) \in Nat /\ rows \in Seq(Row)
    BY DEF VectorInv, ChunkTypes
  <2>2. rows'[i] = IF i <= Len(rows) THEN rows[i] ELSE fresh[i - Len(rows)]
    BY <1>2, <1>4, <1>6, <1>7, <2>1, ConcatProperties
  <2>3. CASE i <= Len(rows)
    BY <2>1, <2>2, <2>3 DEF VectorInv, RowsAreAligned
  <2>4. CASE ~ (i <= Len(rows))
    <3>1. i - Len(rows) \in 1..n
      BY <1>1, <1>6, <2>1, <2>4
    <3>2. QED
      BY <1>5, <2>2, <2>4, <3>1
  <2>5. QED
    BY <2>3, <2>4
<1>8. QED
  BY <1>2, <1>6, <1>7 DEF VectorInv, ChunkTypes, RowsAreAligned

\* While no vector has been received, chunks may be added.
LEMMA ChunksGrow ==
  ASSUME VectorInv, vectors = <<>>, vectors' = <<>>, UNCHANGED rows,
         pos' \in Nat, nth' \in Nat, lines' \in Seq(Nat), chunks' \in Seq(Seq(Nat))
  PROVE  VectorInv'
BY DEF VectorInv, ChunkTypes, Prefix, RowsAreAligned

\* Every step keeps vectors with their texts.
LEMMA VectorStep == CutInv /\ VectorInv /\ [Next]_vars => VectorInv'
<1> SUFFICES ASSUME CutInv, VectorInv, [Next]_vars PROVE VectorInv'
  OBVIOUS
<1>1. CASE Feed \/ CloseLast
  <2>1. UNCHANGED <<splitting, embedding, nth, rows>> /\ pos' \in Nat /\ vectors = <<>>
    BY <1>1 DEF Feed, CloseLast, VectorInv, ChunkTypes
  <2>2. QED
    BY <2>1, ChunksGrow DEF splitting, embedding, VectorInv, ChunkTypes
<1>2. CASE NextSession
  <2>1. pos' \in Nat /\ nth' \in Nat
    BY <1>2, CutStep DEF CutInv, CutTypes, Next
  <2>2. chunks' = <<>> /\ vectors' = <<>> /\ lines' = lines /\ rows' = rows
    BY <1>2 DEF NextSession
  <2>3. phase' \in {"split", "done"}
    BY <1>2 DEF NextSession
  <2>4. <<>> \in Seq(Seq(Nat)) /\ Prefix(<<>>, <<>>)
    BY EmptySeq DEF Prefix
  <2>5. ChunkTypes'
    BY <2>1, <2>2, <2>4 DEF VectorInv, ChunkTypes
  <2>6. QED
    BY <2>2, <2>4, <2>5 DEF VectorInv, RowsAreAligned
<1>3. CASE AddLine
  <2>1. phase = "split" /\ UNCHANGED <<embedding, nth, rows>> /\ pos' \in Nat
    BY <1>3 DEF AddLine, VectorInv, ChunkTypes
  <2>2. lines' \in Seq(Nat) /\ chunks' \in Seq(Seq(Nat))
    <3>1. \/ lines' = lines /\ chunks' = chunks
          \/ lines' = <<pos>> /\ chunks' = Append(chunks, lines)
          \/ lines' = Append(lines, pos) /\ chunks' = chunks
      BY <1>3 DEF AddLine, splitting
    <3>2. pos \in Nat /\ lines \in Seq(Nat) /\ chunks \in Seq(Seq(Nat))
      BY DEF VectorInv, ChunkTypes
    <3>3. /\ <<pos>> \in Seq(Nat) /\ Append(lines, pos) \in Seq(Nat)
          /\ Append(chunks, lines) \in Seq(Seq(Nat))
      BY <3>2, AppendProperties
    <3>4. QED
      BY <3>1, <3>2, <3>3
  <2>3. QED
    BY <2>1, <2>2, ChunksGrow DEF embedding, VectorInv, ChunkTypes
<1>4. CASE EndSplit
  <2>1. phase = "split" /\ UNCHANGED <<embedding, pos, nth, rows>> /\ lines' = <<>>
    BY <1>4 DEF EndSplit
  <2>2. chunks' \in Seq(Seq(Nat))
    <3>1. chunks' = chunks \/ chunks' = Append(chunks, lines)
      BY <1>4 DEF EndSplit
    <3>2. lines \in Seq(Nat) /\ chunks \in Seq(Seq(Nat))
      BY DEF VectorInv, ChunkTypes
    <3>3. Append(chunks, lines) \in Seq(Seq(Nat))
      BY <3>2, AppendProperties
    <3>4. QED
      BY <3>1, <3>2, <3>3
  <2>3. QED
    BY <2>1, <2>2, ChunksGrow DEF embedding, VectorInv, ChunkTypes
<1>5. CASE Request
  BY <1>5, RequestStep
<1>6. CASE WriteChunks
  BY <1>6, WriteStep
<1>7. CASE UNCHANGED vars
  BY <1>7 DEF vars, splitting, embedding, VectorInv, ChunkTypes, RowsAreAligned
<1>8. QED
  BY <1>1, <1>2, <1>3, <1>4, <1>5, <1>6, <1>7 DEF Next

\* What the invariant says of the rows: each has its own vector.
LEMMA VectorsHold == VectorInv => RowsAreAligned
  BY DEF VectorInv

\* Every chunk row carries the vector of its own text, whatever batches were
\* limited, repeated or refused.
THEOREM VectorsBelong == Spec => []RowsAreAligned
  BY VectorsHold, CutInit, CutStep, VectorInit, VectorStep, PTL DEF Spec

-----------------------------------------------------------------------------
(* The texts of the sessions.                                              *)

\* How long lines are, and TextsBetween and RowsOf, of any log and any rows.
Width(l, ids) == Total([k \in 1..Len(ids) |-> Lesser(l[ids[k]].chars, MaxChars)])

Stretch(from, to) == [i \in 1..to + 1 - from |-> from + i - 1]

WithText(l) == {p \in 1..Len(l) : l[p].chars > 0}

Saying(l, from, to) == Keep(Stretch(from, to), WithText(l))

RowsFor(r, s) == Keep(r, [session : {s}, ids : Seq(Nat), vector : Seq(Nat)])

IdsFor(r, s) == [i \in 1..Len(RowsFor(r, s)) |-> RowsFor(r, s)[i].ids]

\* Chunks are not empty, fit the budget, and end only where the next line would not.
Chunked(l, c) ==
  \A i \in 1..Len(c) :
    /\ c[i] # <<>>
    /\ Width(l, c[i]) <= MaxChars
    /\ i < Len(c) => Width(l, Append(c[i], Head(c[i + 1]))) > MaxChars

\* They hold the texts of a stretch of the log.
Holds(l, c, from, to) == FlattenSeq(c) = Saying(l, from, to) /\ Chunked(l, c)

\* What a flush would make of the lines collected so far.
Flushed == IF lines = <<>> THEN chunks ELSE Append(chunks, lines)

TextTypes ==
  /\ lines \in Seq(1..Len(log))
  /\ chunks \in Seq(Seq(1..Len(log)))
  /\ nth \in 0..Len(sessions)
  /\ rows \in Seq(Row)

\* A session whose lines are being collected: what was passed is in the chunks.
Splitting ==
  phase = "split" =>
    /\ nth > 0
    /\ pos \in sessions[nth][1]..sessions[nth][2] + 1
    /\ Holds(log, Flushed, sessions[nth][1], pos - 1)
    /\ used = Width(log, lines)
    /\ lines = <<>> => chunks = <<>>

\* Elsewhere no lines are left over, and what is embedded is a whole session.
Unsplit ==
  /\ phase # "split" => lines = <<>> /\ used = 0
  /\ phase = "embed" => nth > 0 /\ Holds(log, chunks, sessions[nth][1], sessions[nth][2])

\* Rows are of sessions that have been begun, and those that have been finished are
\* in the rows.
Finished ==
  /\ \A i \in 1..Len(rows) :
       /\ rows[i].session \in 1..nth
       /\ phase \in {"split", "embed"} => rows[i].session # nth
  /\ \A s \in 1..nth :
       s < nth \/ phase \in {"next", "done"} =>
         Holds(log, IdsFor(rows, s), sessions[s][1], sessions[s][2])

TextInv ==
  /\ TextTypes
  /\ phase = "sessionize" => nth = 0
  /\ phase = "done" => nth = Len(sessions)
  /\ \A s \in 1..Len(sessions) : sessions[s][1] >= 1 /\ sessions[s][2] <= Len(log)
  /\ Splitting
  /\ Unsplit
  /\ Finished

\* The messages of a log have lengths.
LEMMA CharsOf ==
  ASSUME NEW l \in Seq(Message)
  PROVE  \A p \in 1..Len(l) : l[p].chars \in Nat
<1>1. \A p \in 1..Len(l) : l[p] \in Message
  BY ElementOfSeq
<1>2. QED
  BY <1>1 DEF Message

\* The width of lines grows by what a line may have.
LEMMA WidthAppend ==
  ASSUME NEW l \in Seq(Message), NEW ids \in Seq(1..Len(l)), NEW p \in 1..Len(l)
  PROVE  /\ Width(l, <<>>) = 0
         /\ Width(l, ids) \in Nat
         /\ Width(l, Append(ids, p)) = Width(l, ids) + Lesser(l[p].chars, MaxChars)
         /\ Width(l, <<p>>) = Lesser(l[p].chars, MaxChars)
<1> DEFINE S       == 1..Len(l)
           wide(q) == Lesser(l[q].chars, MaxChars)
           w       == [q \in S |-> wide(q)]
<1>1. \A q \in S : wide(q) \in Nat
  <2>1. \A q \in S : l[q].chars \in Nat
    BY CharsOf
  <2>2. MaxChars \in Nat
    BY RebuildAssumption
  <2>3. QED
    BY <2>1, <2>2 DEF Lesser
<1>2. \A r : Width(l, r) = Total([k \in 1..Len(r) |-> wide(r[k])])
  BY DEF Width
<1> HIDE DEF wide
<1>3. w \in [S -> Nat] /\ \A q \in S : w[q] = wide(q)
  BY <1>1
<1>4. ids \in Seq(S) /\ p \in S
  OBVIOUS
<1> HIDE DEF S, w
<1>5. ASSUME NEW r \in Seq(S) PROVE Width(l, r) = TotalOf(w, r)
  <2>1. \A k \in 1..Len(r) : r[k] \in S
    BY ElementOfSeq
  <2>2. [k \in 1..Len(r) |-> wide(r[k])] = [k \in 1..Len(r) |-> w[r[k]]]
    BY <1>3, <2>1
  <2>3. QED
    BY <1>2, <2>2 DEF TotalOf
<1>6. <<>> \in Seq(S) /\ Append(ids, p) \in Seq(S) /\ <<p>> \in Seq(S)
  BY <1>4, EmptySeq, AppendProperties
<1>7. /\ TotalOf(w, <<>>) = 0
      /\ TotalOf(w, ids) \in Nat
      /\ TotalOf(w, Append(ids, p)) = TotalOf(w, ids) + w[p]
      /\ TotalOf(w, <<p>>) = w[p]
  BY <1>3, <1>4, TotalOfAppend
<1>8. QED
  BY <1>3, <1>4, <1>5, <1>6, <1>7 DEF wide

\* One more message with text is one more text.
LEMMA SayingGrows ==
  ASSUME NEW l \in Seq(Message), NEW from \in Nat, NEW p \in 1..Len(l), from <= p
  PROVE  /\ Saying(l, from, from - 1) = <<>>
         /\ Saying(l, from, p) = IF l[p].chars = 0 THEN Saying(l, from, p - 1)
                                 ELSE Append(Saying(l, from, p - 1), p)
<1> DEFINE n == p - from
           r == Stretch(from, p - 1)
           t == Stretch(from, p)
<1>1. n \in Nat /\ p \in Nat
  OBVIOUS
<1>2. r = [i \in 1..n |-> from + i - 1] /\ t = [i \in 1..n + 1 |-> from + i - 1]
  <2>1. (p - 1) + 1 - from = n /\ p + 1 - from = n + 1
    OBVIOUS
  <2>2. QED
    BY <2>1 DEF Stretch
<1> HIDE DEF r, t
<1>3. r \in Seq(Nat) /\ Len(r) = n /\ \A i \in 1..n : r[i] = from + i - 1
  <2>1. \A i \in 1..n : from + i - 1 \in Nat
    BY <1>1
  <2> HIDE DEF n
  <2>2. QED
    BY <1>1, <1>2, <2>1
<1>4. t \in Seq(Nat) /\ Len(t) = n + 1 /\ \A i \in 1..n + 1 : t[i] = from + i - 1
  <2>1. \A i \in 1..n + 1 : from + i - 1 \in Nat
    BY <1>1
  <2> HIDE DEF n
  <2>2. QED
    BY <1>1, <1>2, <2>1
<1>5. t = Append(r, p)
  <2> DEFINE a == Append(r, p)
  <2>1. a \in Seq(Nat) /\ Len(a) = n + 1 /\ a[n + 1] = p /\ \A i \in 1..n : a[i] = r[i]
    BY <1>1, <1>3, AppendProperties
  <2>2. from + (n + 1) - 1 = p
    BY <1>1
  <2> HIDE DEF a, n
  <2>3. \A i \in 1..n + 1 : t[i] = a[i]
    <3> SUFFICES ASSUME NEW i \in 1..n + 1 PROVE t[i] = a[i]
      OBVIOUS
    <3>1. CASE i = n + 1
      BY <1>4, <2>1, <2>2, <3>1
    <3>2. CASE i # n + 1
      <4>1. i \in 1..n
        BY <1>1, <3>2
      <4>2. QED
        BY <1>3, <1>4, <2>1, <4>1
    <3>3. QED
      BY <3>1, <3>2
  <2>4. t = a
    BY <1>4, <2>1, <2>3, SeqEqual
  <2>5. QED
    BY <2>4 DEF a
<1>6. p \in WithText(l) <=> l[p].chars # 0
  <2>1. l[p].chars \in Nat
    BY CharsOf
  <2>2. QED
    BY <2>1 DEF WithText
<1>7. Keep(t, WithText(l)) = IF p \in WithText(l) THEN Append(Keep(r, WithText(l)), p)
                             ELSE Keep(r, WithText(l))
  <2> DEFINE K == WithText(l)
             T == Nat
  <2>1. r \in Seq(T) /\ p \in T
    BY <1>1, <1>3
  <2> HIDE DEF K, T
  <2>2. Keep(Append(r, p), K) = IF p \in K THEN Append(Keep(r, K), p) ELSE Keep(r, K)
    BY <2>1, KeepAppend
  <2>3. QED
    BY <1>5, <2>2 DEF K
<1>8. Saying(l, from, from - 1) = <<>>
  <2>1. Stretch(from, from - 1) = <<>>
    <3>1. (from - 1) + 1 - from = 0
      OBVIOUS
    <3>2. QED
      BY <3>1 DEF Stretch
  <2>2. QED
    BY <2>1, KeepEmpty DEF Saying
<1>9. QED
  BY <1>6, <1>7, <1>8 DEF Saying, r, t

\* Chunks with one more are chunks if the one before it is full.
LEMMA ChunkedAppend ==
  ASSUME NEW l, NEW S, NEW c \in Seq(Seq(S)), NEW x \in Seq(S)
  PROVE  Chunked(l, Append(c, x)) <=>
           /\ Chunked(l, c)
           /\ x # <<>> /\ Width(l, x) <= MaxChars
           /\ c # <<>> => Width(l, Append(c[Len(c)], Head(x))) > MaxChars
<1> DEFINE n == Len(c)
           d == Append(c, x)
           Fits(y) == y # <<>> /\ Width(l, y) <= MaxChars
           Full(y, z) == Width(l, Append(y, Head(z))) > MaxChars
<1>1. /\ n \in Nat /\ Len(d) = n + 1 /\ d[n + 1] = x
      /\ \A i \in 1..n : d[i] = c[i]
  BY AppendProperties
<1>2. c = <<>> <=> n = 0
  BY EmptySeq
<1> HIDE DEF d, n
<1>3. \A e : Chunked(l, e) <=>
        \A i \in 1..Len(e) : Fits(e[i]) /\ (i < Len(e) => Full(e[i], e[i + 1]))
  BY DEF Chunked
<1>4. Chunked(l, c) <=> \A i \in 1..n : Fits(c[i]) /\ (i < n => Full(c[i], c[i + 1]))
  BY <1>3 DEF n
<1>5. Chunked(l, d) <=> \A i \in 1..n + 1 : Fits(d[i]) /\ (i < n + 1 => Full(d[i], d[i + 1]))
  BY <1>1, <1>3
<1> HIDE DEF Fits, Full
<1>6. ASSUME Chunked(l, d)
      PROVE  Chunked(l, c) /\ Fits(x) /\ (n # 0 => Full(c[n], x))
  <2>1. Fits(x)
    BY <1>1, <1>5, <1>6
  <2>2. n # 0 => Full(c[n], x)
    <3> SUFFICES ASSUME n # 0 PROVE Full(c[n], x)
      OBVIOUS
    <3>1. n \in 1..n + 1 /\ n \in 1..n /\ n < n + 1
      BY <1>1
    <3>2. QED
      BY <1>1, <1>5, <1>6, <3>1
  <2>3. ASSUME NEW i \in 1..n PROVE Fits(c[i]) /\ (i < n => Full(c[i], c[i + 1]))
    <3>1. i \in 1..n + 1 /\ i < n + 1 /\ (i < n => i + 1 \in 1..n)
      BY <1>1
    <3>2. QED
      BY <1>1, <1>5, <1>6, <3>1
  <2>4. QED
    BY <1>4, <2>1, <2>2, <2>3
<1>7. ASSUME Chunked(l, c), Fits(x), n # 0 => Full(c[n], x)
      PROVE  Chunked(l, d)
  <2> SUFFICES ASSUME NEW i \in 1..n + 1
               PROVE  Fits(d[i]) /\ (i < n + 1 => Full(d[i], d[i + 1]))
    BY <1>5
  <2>1. CASE i = n + 1
    BY <1>1, <1>7, <2>1
  <2>2. CASE i = n /\ n # 0
    <3>1. i \in 1..n /\ ~ (i < n) /\ i + 1 = n + 1
      BY <1>1, <2>2
    <3>2. QED
      BY <1>1, <1>4, <1>7, <2>2, <3>1
  <2>3. CASE i < n
    <3>1. i \in 1..n /\ i + 1 \in 1..n
      BY <1>1, <2>3
    <3>2. QED
      BY <1>1, <1>4, <1>7, <2>3, <3>1
  <2>4. QED
    BY <1>1, <2>1, <2>2, <2>3
<1>8. QED
  BY <1>2, <1>6, <1>7 DEF Fits, Full, d, n

\* A line that fits joins the last chunk ...
LEMMA LineJoins ==
  ASSUME NEW l \in Seq(Message), NEW c \in Seq(Seq(1..Len(l))), NEW x \in Seq(1..Len(l)),
         NEW p \in 1..Len(l), NEW from \in Nat, from <= p, l[p].chars # 0,
         Holds(l, IF x = <<>> THEN c ELSE Append(c, x), from, p - 1),
         x = <<>> => c = <<>>,
         x # <<>> => Width(l, x) + Lesser(l[p].chars, MaxChars) <= MaxChars
  PROVE  Holds(l, Append(c, Append(x, p)), from, p)
<1> DEFINE S == 1..Len(l)
           y == Append(x, p)
           said == Saying(l, from, p - 1)
<1>1. Saying(l, from, p) = Append(said, p)
  BY SayingGrows
<1>2. y \in Seq(S) /\ y # <<>> /\ (x # <<>> => Head(y) = Head(x))
  <2>1. /\ y \in Seq(S) /\ Len(y) = Len(x) + 1 /\ Len(x) \in Nat
        /\ \A i \in 1..Len(x) : y[i] = x[i]
    BY AppendProperties
  <2>2. x # <<>> => Len(x) # 0
    BY EmptySeq
  <2>3. x # <<>> => 1 \in 1..Len(x)
    BY <2>1, <2>2
  <2> HIDE DEF y
  <2>4. y # <<>>
    BY <2>1, EmptySeq
  <2>5. QED
    BY <2>1, <2>3, <2>4
<1>3. /\ Width(l, y) = Width(l, x) + Lesser(l[p].chars, MaxChars)
      /\ Width(l, <<>>) = 0
      /\ Lesser(l[p].chars, MaxChars) <= MaxChars
      /\ Lesser(l[p].chars, MaxChars) \in Nat
  <2>1. l[p].chars \in Nat /\ MaxChars \in Nat
    BY CharsOf, RebuildAssumption
  <2>2. Lesser(l[p].chars, MaxChars) <= MaxChars /\ Lesser(l[p].chars, MaxChars) \in Nat
    BY <2>1 DEF Lesser
  <2>3. QED
    BY <2>2, WidthAppend
<1>4. Width(l, y) <= MaxChars
  BY <1>3
<1>5. FlattenSeq(c) \o x = said /\ Chunked(l, c)
      /\ (c # <<>> => Width(l, Append(c[Len(c)], Head(x))) > MaxChars)
  <2>1. CASE x = <<>>
    <3>1. c = <<>> /\ FlattenSeq(c) = said /\ Chunked(l, c)
      BY <2>1 DEF Holds
    <3>2. FlattenSeq(c) = <<>>
      BY <3>1, FlattenEmpty
    <3>3. <<>> \o <<>> = <<>>
      BY EmptySeq, ConcatEmptySeq
    <3>4. QED
      BY <2>1, <3>1, <3>2, <3>3
  <2>2. CASE x # <<>>
    <3>1. FlattenSeq(Append(c, x)) = said /\ Chunked(l, Append(c, x))
      BY <2>2 DEF Holds
    <3>2. FlattenSeq(Append(c, x)) = FlattenSeq(c) \o x
      BY FlattenAppend
    <3>3. QED
      BY <3>1, <3>2, ChunkedAppend
  <2>3. QED
    BY <2>1, <2>2
<1>6. FlattenSeq(Append(c, y)) = Append(said, p)
  <2> DEFINE f == FlattenSeq(c)
  <2>1. f \in Seq(S)
    BY FlattenAppend
  <2>2. FlattenSeq(Append(c, y)) = f \o y
    <3> HIDE DEF y, S
    <3> QED
      BY <1>2, FlattenAppend DEF S
  <2>3. f \o Append(x, p) = Append(f \o x, p)
    <3>1. f \in Seq(S) /\ x \in Seq(S) /\ p \in S
      BY <2>1
    <3> HIDE DEF f, S, y
    <3>2. QED
      BY ONLY <3>1, AppendToConcat, SMTT(20)
  <2>4. QED
    BY <1>5, <2>2, <2>3 DEF f
<1>7. c # <<>> => Width(l, Append(c[Len(c)], Head(y))) > MaxChars
  BY <1>2, <1>5
<1>8. Chunked(l, Append(c, y))
  <2> HIDE DEF y, S
  <2> QED
    BY <1>2, <1>4, <1>5, <1>7, ChunkedAppend DEF S
<1>9. QED
  BY <1>1, <1>6, <1>8 DEF Holds

\* ... and one that does not begins a new one.
LEMMA LineBegins ==
  ASSUME NEW l \in Seq(Message), NEW c \in Seq(Seq(1..Len(l))), NEW x \in Seq(1..Len(l)),
         NEW p \in 1..Len(l), NEW from \in Nat, from <= p, l[p].chars # 0,
         Holds(l, Append(c, x), from, p - 1),
         Width(l, x) + Lesser(l[p].chars, MaxChars) > MaxChars
  PROVE  Holds(l, Append(Append(c, x), <<p>>), from, p)
<1> DEFINE S == 1..Len(l)
           d == Append(c, x)
           said == Saying(l, from, p - 1)
<1>1. Saying(l, from, p) = Append(said, p)
  BY SayingGrows
<1>2. d \in Seq(Seq(S)) /\ d # <<>> /\ d[Len(d)] = x
  <2>1. d \in Seq(Seq(S)) /\ Len(d) = Len(c) + 1 /\ d[Len(c) + 1] = x /\ Len(c) \in Nat
    BY AppendProperties
  <2>2. d # <<>>
    BY <2>1, EmptySeq
  <2>3. QED
    BY <2>1, <2>2
<1>3. <<p>> \in Seq(S) /\ <<p>> # <<>> /\ Head(<<p>>) = p
  OBVIOUS
<1>4. /\ Width(l, Append(x, p)) = Width(l, x) + Lesser(l[p].chars, MaxChars)
      /\ Width(l, <<p>>) = Lesser(l[p].chars, MaxChars)
      /\ Lesser(l[p].chars, MaxChars) <= MaxChars
  <2>1. l[p].chars \in Nat /\ MaxChars \in Nat
    BY CharsOf, RebuildAssumption
  <2>2. Lesser(l[p].chars, MaxChars) <= MaxChars /\ Lesser(l[p].chars, MaxChars) \in Nat
    BY <2>1 DEF Lesser
  <2>3. QED
    BY <2>2, WidthAppend
<1>5. FlattenSeq(d) = said /\ Chunked(l, d)
  BY DEF Holds
<1> HIDE DEF d
<1>6. FlattenSeq(Append(d, <<p>>)) = Append(said, p)
  <2> DEFINE one == <<p>>
             f == FlattenSeq(d)
  <2>1. one \in Seq(S)
    BY <1>3
  <2> HIDE DEF one, f
  <2>2. f \in Seq(S) /\ FlattenSeq(Append(d, one)) = f \o one
    BY <1>2, <2>1, FlattenAppend DEF f
  <2>3. f \o <<p>> = Append(f, p)
    BY <2>2
  <2>4. QED
    BY <1>5, <2>2, <2>3 DEF one, f
<1>7. Chunked(l, Append(d, <<p>>))
  <2> DEFINE one == <<p>>
  <2>1. one \in Seq(S) /\ one # <<>> /\ Width(l, one) <= MaxChars
    BY <1>3, <1>4
  <2>2. Width(l, Append(d[Len(d)], Head(one))) > MaxChars
    BY <1>2, <1>3, <1>4
  <2> HIDE DEF one
  <2>3. Chunked(l, Append(d, one))
    BY <1>2, <1>5, <2>1, <2>2, ChunkedAppend
  <2>4. QED
    BY <2>3 DEF one
<1>8. QED
  BY <1>1, <1>6, <1>7 DEF Holds, d

-----------------------------------------------------------------------------
(* Rows.                                                                   *)

\* The rows of a session are rows.
LEMMA RowsForType ==
  ASSUME NEW r \in Seq(Row), NEW s
  PROVE  RowsFor(r, s) \in Seq(Row)
  BY KeepType DEF RowsFor

\* A row is of a session when it says so.
LEMMA OfSession ==
  ASSUME NEW r \in Row, NEW s
  PROVE  r \in [session : {s}, ids : Seq(Nat), vector : Seq(Nat)] <=> r.session = s
  BY DEF Row

\* Rows of other sessions change nothing for a session ...
LEMMA OtherRows ==
  ASSUME NEW r \in Seq(Row), NEW t \in Seq(Row), NEW s,
         \A i \in 1..Len(t) : t[i].session # s
  PROVE  RowsFor(r \o t, s) = RowsFor(r, s)
<1> DEFINE K == [session : {s}, ids : Seq(Nat), vector : Seq(Nat)]
<1>1. \A i \in 1..Len(t) : t[i] \notin K
  BY ElementOfSeq, OfSession
<1> HIDE DEF K
<1>2. Keep(t, K) = <<>>
  BY <1>1, KeepNone
<1>3. Keep(r \o t, K) = Keep(r, K) \o Keep(t, K)
  BY KeepConcat
<1>4. Keep(r, K) \in Seq(Row)
  BY KeepType
<1>5. QED
  BY <1>2, <1>3, <1>4, ConcatEmptySeq DEF RowsFor, K

\* A session without rows has none.
LEMMA NoRows ==
  ASSUME NEW r \in Seq(Row), NEW s, \A i \in 1..Len(r) : r[i].session # s
  PROVE  RowsFor(r, s) = <<>>
<1> DEFINE K == [session : {s}, ids : Seq(Nat), vector : Seq(Nat)]
<1>1. \A i \in 1..Len(r) : r[i] \notin K
  BY ElementOfSeq, OfSession
<1> HIDE DEF K
<1>2. Keep(r, K) = <<>>
  BY <1>1, KeepNone
<1>3. QED
  BY <1>2 DEF RowsFor, K

\* ... and its own are all it has if it had none.
LEMMA OwnRows ==
  ASSUME NEW r \in Seq(Row), NEW t \in Seq(Row), NEW s,
         \A i \in 1..Len(r) : r[i].session # s,
         \A i \in 1..Len(t) : t[i].session = s
  PROVE  RowsFor(r \o t, s) = t
<1> DEFINE K == [session : {s}, ids : Seq(Nat), vector : Seq(Nat)]
<1>1. \A i \in 1..Len(t) : t[i] \in K
  BY ElementOfSeq, OfSession
<1>2. Keep(r, K) = <<>>
  BY NoRows DEF RowsFor
<1> HIDE DEF K
<1>3. Keep(t, K) = t
  BY <1>1, KeepAll
<1>4. Keep(r \o t, K) = Keep(r, K) \o Keep(t, K)
  BY KeepConcat
<1>5. QED
  BY <1>2, <1>3, <1>4, ConcatEmptySeq DEF RowsFor, K

-----------------------------------------------------------------------------
(* The rebuild keeps every text.                                           *)

\* A rebuild starts with no text gathered.
LEMMA TextInit == Init => TextInv
<1> SUFFICES ASSUME Init PROVE TextInv
  OBVIOUS
<1>1. /\ phase = "sessionize" /\ sessions = <<>> /\ nth = 0
      /\ lines = <<>> /\ used = 0 /\ chunks = <<>> /\ rows = <<>>
  BY DEF Init
<1>2. TextTypes
  <2>1. /\ <<>> \in Seq(1..Len(log)) /\ <<>> \in Seq(Seq(1..Len(log)))
        /\ <<>> \in Seq(Row) /\ Len(<<>>) = 0
    BY EmptySeq
  <2>2. QED
    BY <1>1, <2>1 DEF TextTypes
<1>3. Splitting /\ Unsplit
  BY <1>1 DEF Splitting, Unsplit
<1>4. Finished
  BY <1>1 DEF Finished
<1>5. QED
  BY <1>1, <1>2, <1>3, <1>4 DEF TextInv

\* While sessions are collected, none is written.
LEMMA CollectStep == CutInv /\ TextInv /\ (Feed \/ CloseLast) => TextInv'
<1> SUFFICES ASSUME CutInv, TextInv, Feed \/ CloseLast PROVE TextInv'
  OBVIOUS
<1>1. /\ phase = "sessionize" /\ phase' \in {"sessionize", "next"} /\ nth = 0
      /\ lines = <<>> /\ used = 0
  BY DEF TextInv, Unsplit, Feed, CloseLast
<1>2. UNCHANGED <<log, nth, lines, used, chunks, rows>>
  BY DEF Feed, CloseLast, splitting
<1>3. /\ \/ sessions' = sessions
         \/ sessions' = Append(sessions, <<start, pos - 1>>)
      /\ pos - 1 <= Len(log) /\ pos - 1 \in Nat /\ start \in Nat \ {0}
  <2>1. pos \in 1..Len(log) + 1 /\ start \in Nat \ {0} /\ Len(log) \in Nat
    BY <1>1 DEF CutInv, CutTypes, OpenSession
  <2>2. QED
    BY <2>1 DEF Feed, CloseLast
<1>4. ASSUME NEW s \in 1..Len(sessions')
      PROVE  sessions'[s][1] >= 1 /\ sessions'[s][2] <= Len(log)
  <2>1. CASE sessions' = sessions
    BY <2>1 DEF TextInv
  <2>2. CASE sessions' = Append(sessions, <<start, pos - 1>>)
    <3> DEFINE x == <<start, pos - 1>>
    <3>1. sessions \in Seq(Nat \X Nat) /\ x \in Nat \X Nat /\ x[1] = start /\ x[2] = pos - 1
      BY <1>3 DEF CutInv, CutTypes
    <3>2. sessions' = Append(sessions, x)
      BY <2>2
    <3> HIDE DEF x
    <3>3. /\ Len(sessions') = Len(sessions) + 1 /\ Len(sessions) \in Nat
          /\ sessions'[Len(sessions) + 1] = x
          /\ \A i \in 1..Len(sessions) : sessions'[i] = sessions[i]
      BY <3>1, <3>2, AppendProperties
    <3>4. CASE s = Len(sessions) + 1
      BY <1>3, <3>1, <3>3, <3>4
    <3>5. CASE s # Len(sessions) + 1
      <4>1. s \in 1..Len(sessions)
        BY <3>3, <3>5
      <4>2. QED
        BY <3>3, <4>1 DEF TextInv
    <3>6. QED
      BY <3>4, <3>5
  <2>3. QED
    BY <1>3, <2>1, <2>2
<1>5. TextTypes'
  <2>1. nth' \in 0..Len(sessions')
    <3>1. sessions' \in Seq(Nat \X Nat)
      BY CutStep DEF CutInv, CutTypes, Next
    <3>2. Len(sessions') \in Nat
      BY <3>1
    <3>3. QED
      BY <1>1, <1>2, <3>2
  <2>2. QED
    BY <1>2, <2>1 DEF TextInv, TextTypes
<1>6. (Splitting /\ Unsplit)'
  BY <1>1, <1>2 DEF Splitting, Unsplit
<1>7. Finished'
  <2>1. \A i \in 1..Len(rows) : rows[i].session \in 1..nth
    BY DEF TextInv, Finished
  <2>2. QED
    BY <1>1, <1>2, <2>1 DEF Finished
<1>8. QED
  BY <1>1, <1>2, <1>4, <1>5, <1>6, <1>7 DEF TextInv

\* What is known of the session being written.
LEMMA SessionRange ==
  ASSUME CutInv, TextInv, NEW s \in 1..Len(sessions)
  PROVE  /\ sessions[s][1] \in Nat /\ sessions[s][2] \in Nat
         /\ sessions[s][1] >= 1
         /\ sessions[s][1] <= sessions[s][2]
         /\ sessions[s][2] <= Len(log)
<1>1. sessions \in Seq(Nat \X Nat)
  BY DEF CutInv, CutTypes
<1>2. sessions[s] \in Nat \X Nat
  BY <1>1
<1>3. QED
  BY <1>2 DEF CutInv, Chained, TextInv

\* A session is begun with the first of its messages.
LEMMA BeginStep == CutInv /\ TextInv /\ NextSession => TextInv'
<1> SUFFICES ASSUME CutInv, TextInv, NextSession PROVE TextInv'
  OBVIOUS
<1>1. /\ phase = "next" /\ lines = <<>> /\ used = 0
      /\ UNCHANGED <<log, sessions, lines, used, rows>> /\ chunks' = <<>>
  BY DEF TextInv, Unsplit, NextSession, cutting
<1>2. nth \in Nat /\ nth <= Len(sessions) /\ Len(sessions) \in Nat /\ rows \in Seq(Row)
  <2>1. nth \in 0..Len(sessions) /\ sessions \in Seq(Nat \X Nat)
    BY DEF TextInv, TextTypes, CutInv, CutTypes
  <2>2. QED
    BY <2>1 DEF TextInv, TextTypes
<1>3. /\ <<>> \in Seq(1..Len(log)) /\ <<>> \in Seq(Seq(1..Len(log)))
  BY EmptySeq
<1>4. /\ \A i \in 1..Len(rows) : rows[i].session \in 1..nth
      /\ \A s \in 1..nth : Holds(log, IdsFor(rows, s), sessions[s][1], sessions[s][2])
  BY <1>1 DEF TextInv, Finished
<1>5. CASE nth < Len(sessions)
  <2> DEFINE from == sessions[nth + 1][1]
             to   == sessions[nth + 1][2]
  <2>1. nth' = nth + 1 /\ pos' = from /\ phase' = "split" /\ nth + 1 \in 1..Len(sessions)
    BY <1>2, <1>5 DEF NextSession
  <2>2. from \in Nat /\ to \in Nat /\ from >= 1 /\ from <= to /\ to <= Len(log)
    BY <2>1, SessionRange
  <2> HIDE DEF from, to
  <2>3. TextTypes'
    BY <1>1, <1>2, <1>3, <2>1 DEF TextTypes
  <2>4. Holds(log, <<>>, from, from - 1)
    <3>1. Saying(log, from, from - 1) = <<>>
      <4>1. log \in Seq(Message) /\ to \in 1..Len(log)
        BY <2>2 DEF CutInv, CutTypes
      <4>2. QED
        BY <2>2, <4>1, SayingGrows
    <3>2. Chunked(log, <<>>)
      BY EmptySeq DEF Chunked
    <3>3. QED
      BY <3>1, <3>2, FlattenEmpty DEF Holds
  <2>5. Splitting'
    <3>1. Flushed' = <<>>
      BY <1>1 DEF Flushed
    <3>2. Width(log, <<>>) = 0
      <4>1. log \in Seq(Message) /\ to \in 1..Len(log)
        BY <2>2 DEF CutInv, CutTypes
      <4>2. QED
        BY <1>3, <4>1, WidthAppend
    <3>3. pos' \in sessions'[nth'][1]..sessions'[nth'][2] + 1
      BY <1>1, <2>1, <2>2 DEF from, to
    <3>4. Holds(log', Flushed', sessions'[nth'][1], pos' - 1)
      BY <1>1, <2>1, <2>4, <3>1 DEF from
    <3>5. QED
      BY <1>1, <1>2, <2>1, <3>2, <3>3, <3>4 DEF Splitting
  <2>6. Unsplit'
    BY <2>1 DEF Unsplit
  <2>7. Finished'
    <3>1. ASSUME NEW i \in 1..Len(rows)
          PROVE  rows[i].session \in 1..nth + 1 /\ rows[i].session # nth + 1
      BY <1>2, <1>4, <3>1
    <3>2. ASSUME NEW s \in 1..nth + 1, s < nth + 1
          PROVE  Holds(log, IdsFor(rows, s), sessions[s][1], sessions[s][2])
      <4>1. s \in 1..nth
        BY <1>2, <3>2
      <4>2. QED
        BY <1>4, <4>1
    <3>3. QED
      BY <1>1, <2>1, <3>1, <3>2 DEF Finished
  <2>8. QED
    BY <1>1, <2>1, <2>3, <2>5, <2>6, <2>7 DEF TextInv
<1>6. CASE ~ (nth < Len(sessions))
  <2>1. phase' = "done" /\ nth' = nth /\ nth = Len(sessions)
    BY <1>2, <1>6 DEF NextSession
  <2>2. TextTypes'
    BY <1>1, <1>2, <1>3, <2>1 DEF TextTypes
  <2>3. Splitting' /\ Unsplit'
    BY <1>1, <2>1 DEF Splitting, Unsplit
  <2>4. Finished'
    BY <1>1, <1>4, <2>1 DEF Finished
  <2>5. QED
    BY <1>1, <2>1, <2>2, <2>3, <2>4 DEF TextInv
<1>7. QED
  BY <1>5, <1>6

\* A message goes to the open text, or closes it and begins the next one.
LEMMA AddStep == CutInv /\ TextInv /\ AddLine => TextInv'
<1> SUFFICES ASSUME CutInv, TextInv, AddLine PROVE TextInv'
  OBVIOUS
<1> DEFINE S    == 1..Len(log)
           from == sessions[nth][1]
           to   == sessions[nth][2]
           wide == Lesser(log[pos].chars, MaxChars)
<1>1. /\ phase = "split" /\ phase' = "split" /\ pos <= to /\ pos' = pos + 1
      /\ UNCHANGED <<log, sessions, nth, rows>>
  BY DEF AddLine, cutting
<1>2. /\ lines \in Seq(S) /\ chunks \in Seq(Seq(S)) /\ nth \in 1..Len(sessions)
      /\ log \in Seq(Message)
  <2>1. nth \in 0..Len(sessions) /\ nth > 0
    BY <1>1 DEF TextInv, TextTypes, Splitting
  <2>2. sessions \in Seq(Nat \X Nat)
    BY DEF CutInv, CutTypes
  <2>3. nth \in 1..Len(sessions)
    BY <2>1, <2>2
  <2>4. QED
    BY <2>3 DEF TextInv, TextTypes, CutInv, CutTypes
<1>3. from \in Nat /\ to \in Nat /\ from >= 1 /\ from <= to /\ to <= Len(log)
  BY <1>2, SessionRange
<1>4. /\ pos \in from..to + 1
      /\ Holds(log, Flushed, from, pos - 1)
      /\ used = Width(log, lines)
      /\ lines = <<>> => chunks = <<>>
  BY <1>1 DEF TextInv, Splitting
<1>6. Flushed = IF lines = <<>> THEN chunks ELSE Append(chunks, lines)
  BY DEF Flushed
<1> HIDE DEF from, to
<1>5. pos \in S /\ from <= pos /\ pos + 1 \in from..to + 1 /\ (pos + 1) - 1 = pos
  <2>1. Len(log) \in Nat
    BY <1>2, LenProperties
  <2> HIDE DEF wide
  <2>2. QED
    BY <1>1, <1>3, <1>4, <2>1
<1>7. /\ Width(log, Append(lines, pos)) = Width(log, lines) + wide
      /\ Width(log, <<pos>>) = wide
      /\ Width(log, lines) \in Nat
  BY <1>2, <1>5, WidthAppend
<1>8. /\ lines' \in Seq(S) /\ chunks' \in Seq(Seq(S))
      /\ Holds(log, Flushed', from, pos)
      /\ used' = Width(log, lines')
      /\ lines' = <<>> => chunks' = <<>>
  <2>1. CASE log[pos].chars = 0
    <3>1. UNCHANGED <<lines, used, chunks>>
      BY <2>1 DEF AddLine, splitting
    <3>2. Saying(log, from, pos) = Saying(log, from, pos - 1)
      BY <1>2, <1>3, <1>5, <2>1, SayingGrows
    <3>3. Flushed' = Flushed
      BY <3>1 DEF Flushed
    <3>4. QED
      BY <1>2, <1>4, <3>1, <3>2, <3>3 DEF Holds
  <2>2. CASE log[pos].chars # 0 /\ lines # <<>> /\ used + wide > MaxChars
    <3>1. chunks' = Append(chunks, lines) /\ lines' = <<pos>> /\ used' = wide
      BY <2>2 DEF AddLine, Clipped
    <3>2. lines' \in Seq(S) /\ lines' # <<>>
      BY <1>5, <3>1
    <3>3. chunks' \in Seq(Seq(S))
      <4> HIDE DEF S
      <4> QED
        BY <1>2, <3>1, AppendProperties
    <3>4. Flushed' = Append(Append(chunks, lines), <<pos>>)
      BY <3>1, <3>2 DEF Flushed
    <3>5. Holds(log, Append(chunks, lines), from, pos - 1)
      BY <1>4, <1>6, <2>2
    <3>6. Holds(log, Append(Append(chunks, lines), <<pos>>), from, pos)
      <4>1. Width(log, lines) + Lesser(log[pos].chars, MaxChars) > MaxChars
        BY <1>4, <2>2
      <4>2. QED
        BY <1>2, <1>3, <1>5, <2>2, <3>5, <4>1, LineBegins
    <3>7. used' = Width(log, lines')
      BY <1>7, <3>1
    <3>8. QED
      BY <3>2, <3>3, <3>4, <3>6, <3>7
  <2>3. CASE log[pos].chars # 0 /\ (lines # <<>> => ~ (used + wide > MaxChars))
    <3>1. chunks' = chunks /\ lines' = Append(lines, pos) /\ used' = used + wide
      BY <2>3 DEF AddLine, Clipped
    <3>2. lines' \in Seq(S) /\ lines' # <<>>
      <4>1. lines' \in Seq(S) /\ Len(lines') = Len(lines) + 1 /\ Len(lines) \in Nat
        BY <1>2, <1>5, <3>1, AppendProperties
      <4>2. QED
        BY <4>1, EmptySeq
    <3>3. Flushed' = Append(chunks, Append(lines, pos))
      BY <3>1, <3>2 DEF Flushed
    <3>4. Holds(log, Append(chunks, Append(lines, pos)), from, pos)
      <4>1. lines # <<>> => Width(log, lines) + Lesser(log[pos].chars, MaxChars) <= MaxChars
        <5>1. MaxChars \in Nat /\ log[pos].chars \in Nat
          BY <1>2, <1>5, CharsOf, RebuildAssumption
        <5>2. wide \in Nat
          BY <5>1 DEF Lesser
        <5> HIDE DEF wide
        <5>3. lines # <<>> => Width(log, lines) + wide <= MaxChars
          BY <1>4, <1>7, <2>3, <5>1, <5>2
        <5>4. QED
          BY <5>3 DEF wide
      <4>2. Holds(log, IF lines = <<>> THEN chunks ELSE Append(chunks, lines), from, pos - 1)
        BY <1>4, <1>6
      <4>3. QED
        BY <1>2, <1>3, <1>4, <1>5, <2>3, <4>1, <4>2, LineJoins
    <3>5. used' = Width(log, lines')
      BY <1>4, <1>7, <3>1
    <3>6. QED
      BY <1>2, <3>1, <3>2, <3>3, <3>4, <3>5
  <2>4. QED
    BY <2>1, <2>2, <2>3
<1>9. TextTypes'
  BY <1>1, <1>8 DEF TextInv, TextTypes
<1>10. Splitting'
  <2>1. pos' \in sessions'[nth'][1]..sessions'[nth'][2] + 1
    BY <1>1, <1>5 DEF from, to
  <2>2. Holds(log', Flushed', sessions'[nth'][1], pos' - 1)
    BY <1>1, <1>5, <1>8 DEF from
  <2>3. nth' > 0 /\ used' = Width(log', lines')
    BY <1>1, <1>2, <1>8
  <2>4. QED
    BY <1>8, <2>1, <2>2, <2>3 DEF Splitting
<1>11. Unsplit'
  BY <1>1 DEF Unsplit
<1>12. Finished'
  BY <1>1 DEF TextInv, Finished
<1>13. QED
  BY <1>1, <1>9, <1>10, <1>11, <1>12 DEF TextInv

\* A session without texts is written when its lines are, as no row at all.
LEMMA FlushStep == CutInv /\ TextInv /\ EndSplit => TextInv'
<1> SUFFICES ASSUME CutInv, TextInv, EndSplit PROVE TextInv'
  OBVIOUS
<1> DEFINE S    == 1..Len(log)
           from == sessions[nth][1]
           to   == sessions[nth][2]
<1>1. /\ phase = "split" /\ pos > to
      /\ UNCHANGED <<log, sessions, nth, rows>>
      /\ chunks' = Flushed /\ lines' = <<>> /\ used' = 0
      /\ phase' = IF chunks' = <<>> THEN "next" ELSE "embed"
  BY DEF EndSplit, cutting, Flushed
<1>2. /\ lines \in Seq(S) /\ chunks \in Seq(Seq(S)) /\ nth \in 1..Len(sessions)
      /\ rows \in Seq(Row) /\ nth \in Nat /\ nth > 0
  <2>1. nth \in 0..Len(sessions) /\ nth > 0
    BY <1>1 DEF TextInv, TextTypes, Splitting
  <2>2. sessions \in Seq(Nat \X Nat)
    BY DEF CutInv, CutTypes
  <2>3. nth \in 1..Len(sessions)
    BY <2>1, <2>2
  <2>4. QED
    BY <2>1, <2>3 DEF TextInv, TextTypes
<1>3. from \in Nat /\ to \in Nat
  BY <1>2, SessionRange
<1>4. pos \in from..to + 1 /\ Holds(log, Flushed, from, pos - 1)
  BY <1>1 DEF TextInv, Splitting
<1>5. Holds(log, chunks', from, to)
  <2>1. pos - 1 = to
    BY <1>1, <1>3, <1>4
  <2> HIDE DEF from, to
  <2>2. QED
    BY <1>1, <1>4, <2>1
<1>6. TextTypes'
  <2>1. Append(chunks, lines) \in Seq(Seq(S))
    <3> HIDE DEF S
    <3> QED
      BY <1>2, AppendProperties
  <2>2. <<>> \in Seq(S)
    BY EmptySeq
  <2>3. QED
    BY <1>1, <1>2, <2>1, <2>2 DEF TextInv, TextTypes, Flushed
<1>7. Splitting' /\ Unsplit'
  BY <1>1, <1>2, <1>5 DEF Splitting, Unsplit
<1>8. Finished'
  <2>1. /\ \A i \in 1..Len(rows) : rows[i].session \in 1..nth /\ rows[i].session # nth
        /\ \A s \in 1..nth :
             s < nth => Holds(log, IdsFor(rows, s), sessions[s][1], sessions[s][2])
    BY <1>1 DEF TextInv, Finished
  <2>2. chunks' = <<>> => Holds(log, IdsFor(rows, nth), from, to)
    <3> SUFFICES ASSUME chunks' = <<>> PROVE Holds(log, IdsFor(rows, nth), from, to)
      OBVIOUS
    <3>1. RowsFor(rows, nth) = <<>>
      BY <1>2, <2>1, NoRows
    <3>2. IdsFor(rows, nth) = <<>>
      BY <3>1 DEF IdsFor
    <3>3. QED
      BY <1>5, <3>2
  <2>3. ASSUME NEW s \in 1..nth, s < nth \/ phase' \in {"next", "done"}
        PROVE  Holds(log, IdsFor(rows, s), sessions[s][1], sessions[s][2])
    <3>1. CASE s < nth
      BY <2>1, <3>1
    <3>2. CASE ~ (s < nth)
      <4>1. s = nth /\ chunks' = <<>>
        BY <1>1, <1>2, <2>3, <3>2
      <4>2. QED
        BY <2>2, <4>1
    <3>3. QED
      BY <3>1, <3>2
  <2>4. QED
    BY <1>1, <2>1, <2>3 DEF Finished
<1>9. QED
  BY <1>1, <1>6, <1>7, <1>8 DEF TextInv

\* Requests leave the texts alone.
LEMMA TextKept ==
  ASSUME TextInv, UNCHANGED <<log, sessions, nth, rows, pos, lines, used, chunks>>,
         phase' = phase \/ (phase = "embed" /\ phase' = "raised")
  PROVE  TextInv'
<1>1. TextTypes'
  BY DEF TextInv, TextTypes
<1>2. Splitting'
  <2>1. Flushed' = Flushed
    BY DEF Flushed
  <2>2. QED
    BY <2>1 DEF TextInv, Splitting
<1>3. Unsplit'
  BY DEF TextInv, Unsplit
<1>4. Finished'
  BY DEF TextInv, Finished
<1>5. QED
  BY <1>1, <1>2, <1>3, <1>4 DEF TextInv

\* zip loses no chunk: all vectors are there.
LEMMA RowsStep == CutInv /\ VectorInv /\ TextInv /\ WriteChunks => TextInv'
<1> SUFFICES ASSUME CutInv, VectorInv, TextInv, WriteChunks PROVE TextInv'
  OBVIOUS
<1> DEFINE n     == Len(chunks)
           fresh == [i \in 1..n |-> [session |-> nth, ids |-> chunks[i], vector |-> vectors[i]]]
<1>1. /\ phase = "embed" /\ phase' = "next"
      /\ UNCHANGED <<log, sessions, nth, lines, used, chunks>>
      /\ Len(vectors) >= Len(chunks)
      /\ rows' = rows \o [i \in 1..Lesser(Len(chunks), Len(vectors)) |->
                           [session |-> nth, ids |-> chunks[i], vector |-> vectors[i]]]
  BY DEF WriteChunks, cutting, splitting
<1>2. /\ n \in Nat /\ Len(vectors) \in Nat /\ Len(vectors) = n
      /\ chunks \in Seq(Seq(Nat)) /\ vectors \in Seq(Seq(Nat))
      /\ nth \in Nat /\ nth > 0 /\ rows \in Seq(Row)
  <2>1. /\ chunks \in Seq(Seq(Nat)) /\ vectors \in Seq(Seq(Nat)) /\ nth \in Nat
        /\ rows \in Seq(Row) /\ Len(vectors) <= Len(chunks)
    BY DEF VectorInv, ChunkTypes, Prefix
  <2>2. Len(chunks) \in Nat /\ Len(vectors) \in Nat
    BY <2>1, LenProperties
  <2>3. nth > 0
    BY <1>1 DEF TextInv, Unsplit
  <2>4. QED
    BY <1>1, <2>1, <2>2, <2>3
<1>3. Lesser(Len(chunks), Len(vectors)) = n
  BY <1>2 DEF Lesser
<1>4. rows' = rows \o fresh
  BY <1>1, <1>3
<1>5. /\ fresh \in Seq(Row) /\ Len(fresh) = n
      /\ \A i \in 1..n : fresh[i].session = nth /\ fresh[i].ids = chunks[i]
  <2>1. ASSUME NEW i \in 1..n PROVE chunks[i] \in Seq(Nat) /\ vectors[i] \in Seq(Nat)
    BY <1>2, ElementOfSeq
  <2>2. \A i \in 1..n : fresh[i] \in Row
    BY <1>2, <2>1 DEF Row
  <2>3. QED
    BY <1>2, <2>2
<1> HIDE DEF fresh
<1>6. rows' \in Seq(Row)
  BY <1>2, <1>4, <1>5, ConcatProperties
<1>7. /\ \A i \in 1..Len(rows) : rows[i].session \in 1..nth /\ rows[i].session # nth
      /\ \A s \in 1..nth :
           s < nth => Holds(log, IdsFor(rows, s), sessions[s][1], sessions[s][2])
      /\ Holds(log, chunks, sessions[nth][1], sessions[nth][2])
  BY <1>1 DEF TextInv, Finished, Unsplit
<1>8. TextTypes'
  BY <1>1, <1>6 DEF TextInv, TextTypes
<1>9. Splitting' /\ Unsplit'
  BY <1>1 DEF TextInv, Splitting, Unsplit
<1>10. Finished'
  <2>1. ASSUME NEW i \in 1..Len(rows') PROVE rows'[i].session \in 1..nth
    <3>1. /\ Len(rows) \in Nat /\ Len(rows') = Len(rows) + n
          /\ rows'[i] = IF i <= Len(rows) THEN rows[i] ELSE fresh[i - Len(rows)]
      <4>1. rows \in Seq(Row) /\ fresh \in Seq(Row) /\ Len(rows) \in Nat
        BY <1>2, <1>5, LenProperties
      <4>2. /\ Len(rows \o fresh) = Len(rows) + Len(fresh)
            /\ \A j \in 1..Len(rows) + Len(fresh) :
                 (rows \o fresh)[j] = IF j <= Len(rows) THEN rows[j] ELSE fresh[j - Len(rows)]
        BY ONLY <4>1, ConcatProperties
      <4>3. QED
        BY <1>4, <1>5, <4>1, <4>2
    <3>2. CASE i <= Len(rows)
      <4>1. i \in 1..Len(rows)
        BY <3>1, <3>2
      <4>2. QED
        BY <1>7, <3>1, <3>2, <4>1
    <3>3. CASE ~ (i <= Len(rows))
      <4>1. i - Len(rows) \in 1..n
        BY <1>2, <3>1, <3>3
      <4>2. QED
        BY <1>2, <1>5, <3>1, <3>3, <4>1
    <3>4. QED
      BY <3>2, <3>3
  <2>2. ASSUME NEW s \in 1..nth
        PROVE  Holds(log, IdsFor(rows', s), sessions[s][1], sessions[s][2])
    <3>1. CASE s = nth
      <4>1. RowsFor(rows', s) = fresh
        <5>1. /\ rows \in Seq(Row) /\ fresh \in Seq(Row)
              /\ \A i \in 1..Len(rows) : rows[i].session # nth
              /\ \A i \in 1..Len(fresh) : fresh[i].session = nth
          BY <1>2, <1>5, <1>7
        <5>2. RowsFor(rows \o fresh, nth) = fresh
          BY ONLY <5>1, OwnRows
        <5>3. QED
          BY <1>4, <3>1, <5>2
      <4>2. IdsFor(rows', s) = chunks
        <5>1. IdsFor(rows', s) = [i \in 1..n |-> fresh[i].ids]
          BY <1>5, <4>1 DEF IdsFor
        <5>2. \A i \in 1..n : fresh[i].ids = chunks[i]
          BY <1>5
        <5>3. chunks = [i \in 1..n |-> chunks[i]]
          BY <1>2
        <5> HIDE DEF n
        <5>4. QED
          BY <5>1, <5>2, <5>3
      <4>3. QED
        BY <1>7, <3>1, <4>2
    <3>2. CASE s # nth
      <4>1. s < nth
        BY <1>2, <3>2
      <4>2. RowsFor(rows', s) = RowsFor(rows, s)
        <5>1. /\ rows \in Seq(Row) /\ fresh \in Seq(Row)
              /\ \A i \in 1..Len(fresh) : fresh[i].session # s
          BY <1>2, <1>5, <3>2
        <5>2. RowsFor(rows \o fresh, s) = RowsFor(rows, s)
          BY ONLY <5>1, OtherRows
        <5>3. QED
          BY <1>4, <5>2
      <4>3. IdsFor(rows', s) = IdsFor(rows, s)
        BY <4>2 DEF IdsFor
      <4>4. QED
        BY <1>7, <4>1, <4>3
    <3>3. QED
      BY <3>1, <3>2
  <2>3. QED
    BY <1>1, <2>1, <2>2 DEF Finished
<1>11. QED
  BY <1>1, <1>8, <1>9, <1>10 DEF TextInv

\* Every step keeps each session's texts complete.
LEMMA TextStep == CutInv /\ VectorInv /\ TextInv /\ [Next]_vars => TextInv'
<1> SUFFICES ASSUME CutInv, VectorInv, TextInv, [Next]_vars PROVE TextInv'
  OBVIOUS
<1>1. CASE Feed \/ CloseLast
  BY <1>1, CollectStep
<1>2. CASE NextSession
  BY <1>2, BeginStep
<1>3. CASE AddLine
  BY <1>3, AddStep
<1>4. CASE EndSplit
  BY <1>4, FlushStep
<1>5. CASE Request
  <2>1. /\ UNCHANGED <<log, sessions, nth, rows, pos, lines, used, chunks>>
        /\ phase = "embed" /\ phase' \in {"embed", "raised"}
    BY <1>5 DEF Request, cutting, splitting
  <2>2. QED
    BY <2>1, TextKept
<1>6. CASE WriteChunks
  BY <1>6, RowsStep
<1>7. CASE UNCHANGED vars
  BY <1>7, TextKept DEF vars, cutting, splitting
<1>8. QED
  BY <1>1, <1>2, <1>3, <1>4, <1>5, <1>6, <1>7 DEF Next

\* What the invariants say of a finished rebuild: its rows hold the texts.
LEMMA TextsHold == CutInv /\ TextInv => EveryTextIsWritten
<1> SUFFICES ASSUME CutInv, TextInv, phase = "done", NEW s \in 1..Len(sessions)
             PROVE  FlattenSeq([i \in 1..Len(RowsOf(s)) |-> RowsOf(s)[i].ids])
                      = TextsBetween(sessions[s][1], sessions[s][2])
  BY DEF EveryTextIsWritten
<1> DEFINE c == IdsFor(rows, s)
<1>1. Holds(log, c, sessions[s][1], sessions[s][2])
  BY DEF TextInv, Finished
<1>2. RowsOf(s) = RowsFor(rows, s)
  BY DEF RowsOf, RowsFor
<1>3. TextsBetween(sessions[s][1], sessions[s][2]) = Saying(log, sessions[s][1], sessions[s][2])
  BY DEF TextsBetween, Saying, Stretch, WithText
<1>4. c = [i \in 1..Len(RowsFor(rows, s)) |-> RowsFor(rows, s)[i].ids]
  BY DEF IdsFor
<1> HIDE DEF c
<1>5. FlattenSeq(c) = Saying(log, sessions[s][1], sessions[s][2])
  BY <1>1 DEF Holds
<1>6. QED
  BY <1>2, <1>3, <1>4, <1>5

\* Whatever the batches and retries, the rows of a session hold each of its texts
\* once and in order.
THEOREM TextsWritten == Spec => []EveryTextIsWritten
  BY TextsHold, CutInit, CutStep, VectorInit, VectorStep, TextInit, TextStep, PTL DEF Spec

-----------------------------------------------------------------------------
(* Numbers.                                                                *)

\* What division means.
LEMMA Quotient ==
  ASSUME NEW a \in Nat, NEW w \in Nat \ {0}
  PROVE  /\ a \div w \in Nat
         /\ (a \div w) * w <= a
         /\ a < (a \div w + 1) * w
  BY SMT

\* What multiplication keeps.
LEMMA TimesMonotone ==
  ASSUME NEW a \in Nat, NEW b \in Nat, NEW w \in Nat \ {0}
  PROVE  /\ a * w \in Nat
         /\ a * w <= b * w <=> a <= b
         /\ (a + 1) * w = a * w + w
  BY SMT

\* The smaller of two numbers.
LEMMA MinOfTwo ==
  ASSUME NEW a \in Nat, NEW b \in Nat
  PROVE  Min({a, b}) = IF a <= b THEN a ELSE b
<1> DEFINE m == IF a <= b THEN a ELSE b
<1>1. m \in {a, b} /\ \A y \in {a, b} : m <= y
  OBVIOUS
<1>2. \A x \in {a, b} : (\A y \in {a, b} : x <= y) => x = m
  OBVIOUS
<1> HIDE DEF m
<1>3. Min({a, b}) = m
  BY <1>1, <1>2 DEF Min
<1>4. QED
  BY <1>3 DEF m

\* A set of numbers with a bound has a largest one.
LEMMA MaxOfBounded ==
  ASSUME NEW T, T \subseteq Nat, T # {}, NEW b \in Nat, \A n \in T : n <= b
  PROVE  Max(T) \in T /\ \A n \in T : n <= Max(T)
<1> DEFINE B == {m \in Nat : \A n \in T : n <= m}
<1>1. B \subseteq Nat /\ b \in B
  OBVIOUS
<1>2. PICK m \in B : \A k \in B : m <= k
  <2> HIDE DEF B
  <2> QED
    BY <1>1, Smallest
<1>3. m \in T
  <2>1. SUFFICES ASSUME m \notin T PROVE FALSE
    OBVIOUS
  <2>2. \A n \in T : n < m
    BY <1>2, <2>1
  <2>3. PICK n \in T : TRUE
    OBVIOUS
  <2>4. m \in Nat /\ n \in Nat /\ n < m
    BY <1>2, <2>2
  <2>5. m - 1 \in B
    BY <2>2, <2>4
  <2>6. QED
    BY <1>2, <2>4, <2>5
<1>4. \E x \in T : \A y \in T : x >= y
  BY <1>2, <1>3
<1>5. Max(T) \in T /\ \A y \in T : Max(T) >= y
  BY <1>4 DEF Max
<1>6. QED
  BY <1>5

-----------------------------------------------------------------------------
(* The windows of a recording.                                             *)

\* The window a turn is heard in.
Window(n) == IF Windowed THEN speech[n].from \div WindowLength + 1 ELSE 1

\* What is known of a recording and its turns.
LEMMA Spoke ==
  ASSUME recording \in Recordings
  PROVE  /\ recording.length \in Nat
         /\ speech \in Seq(Turn)
         /\ WindowLength \in Nat \ {0} /\ Slack \in Nat /\ Slack < WindowLength
         /\ \A n \in 1..Len(speech) :
              /\ speech[n].from \in Nat /\ speech[n].to \in Nat
              /\ speech[n].from <= speech[n].to
              /\ recording.length > 0 =>
                   speech[n].to <= recording.length /\ speech[n].from < recording.length
              /\ Windowed => speech[n].to <= (speech[n].from \div WindowLength + 1) * WindowLength
<1>1. WindowLength \in Nat \ {0} /\ Slack \in Nat /\ Slack < WindowLength
  BY TranscriptAssumption, SlackAssumption
<1>2. recording.length \in Nat /\ speech \in Seq(Turn)
  BY TranscriptAssumption DEF speech
<1>3. ASSUME NEW n \in 1..Len(speech)
      PROVE  /\ speech[n].from \in Nat /\ speech[n].to \in Nat
             /\ speech[n].from <= speech[n].to
             /\ recording.length > 0 =>
                  speech[n].to <= recording.length /\ speech[n].from < recording.length
             /\ Windowed => speech[n].to <= (speech[n].from \div WindowLength + 1) * WindowLength
  <2>1. speech[n] \in Turn
    BY <1>2, ElementOfSeq
  <2>2. speech[n].from \in Nat /\ speech[n].to \in Nat
    BY <2>1 DEF Turn
  <2>3. QED
    BY <2>2, TranscriptAssumption DEF speech, Windowed
<1>4. QED
  BY <1>1, <1>2, <1>3

\* There are as many windows as it takes, and none begins after the end.
LEMMA WindowBounds ==
  ASSUME recording \in Recordings
  PROVE  /\ Windows \in Nat \ {0}
         /\ ~ Windowed => Windows = 1
         /\ Begin(1) = 0
         /\ \A k \in 1..Windows : Windowed =>
              /\ Begin(k) \in Nat /\ Begin(k) < recording.length
              /\ End(k) = IF k * WindowLength <= recording.length
                            THEN k * WindowLength ELSE recording.length
              /\ k * WindowLength = Begin(k) + WindowLength
              /\ k > 1 => Begin(k) >= WindowLength
              /\ k > 2 => Begin(k) >= 2 * WindowLength
<1> DEFINE W == WindowLength
           L == recording.length
<1>1. W \in Nat \ {0} /\ L \in Nat
  BY Spoke
<1>2. Windowed <=> L > W
  BY DEF Windowed
<1>3. Windows = IF Windowed THEN (L + W - 1) \div W ELSE 1
  BY DEF Windows
<1>4. Windowed => (L + W - 1) \div W \in Nat \ {0} /\ ((L + W - 1) \div W) * W <= L + W - 1
  <2> SUFFICES ASSUME Windowed
               PROVE  (L + W - 1) \div W \in Nat \ {0} /\ ((L + W - 1) \div W) * W <= L + W - 1
    OBVIOUS
  <2>1. L + W - 1 \in Nat /\ L + W - 1 >= W /\ L > W
    BY <1>1, <1>2
  <2> HIDE DEF W, L
  <2>2. /\ (L + W - 1) \div W \in Nat
        /\ ((L + W - 1) \div W) * W <= L + W - 1
        /\ L + W - 1 < ((L + W - 1) \div W + 1) * W
    BY <1>1, <2>1, Quotient
  <2>3. (L + W - 1) \div W # 0
    BY <1>1, <2>1, <2>2
  <2>4. QED
    BY <2>2, <2>3
<1>5. Begin(1) = 0
  BY <1>1 DEF Begin
<1>6. ASSUME NEW k \in 1..Windows, Windowed
      PROVE  /\ Begin(k) \in Nat /\ Begin(k) < L
             /\ End(k) = IF k * W <= L THEN k * W ELSE L
             /\ k * W = Begin(k) + W
             /\ k > 1 => Begin(k) >= W
             /\ k > 2 => Begin(k) >= 2 * W
  <2>1. Windows \in Nat \ {0} /\ Windows * W <= L + W - 1
    BY <1>3, <1>4, <1>6
  <2>2. k \in Nat /\ k - 1 \in Nat /\ k <= Windows /\ (k - 1) + 1 = k
    BY <2>1
  <2>3. Begin(k) = (k - 1) * W
    BY DEF Begin
  <2> HIDE DEF W, L
  <2>4. (k - 1) * W \in Nat /\ k * W \in Nat /\ k * W = (k - 1) * W + W
    BY <1>1, <2>2, TimesMonotone
  <2>5. k * W <= Windows * W
    BY <1>1, <2>1, <2>2, TimesMonotone
  <2>6. (k - 1) * W < L
    BY <1>1, <2>1, <2>4, <2>5
  <2>7. End(k) = IF k * W <= L THEN k * W ELSE L
    <3>1. End(k) = Min({k * W, L})
      BY DEF End, W, L
    <3> DEFINE kw == k * W
    <3>2. kw \in Nat
      BY <2>4
    <3> HIDE DEF kw
    <3>3. Min({kw, L}) = IF kw <= L THEN kw ELSE L
      BY <1>1, <3>2, MinOfTwo
    <3>4. QED
      BY <3>1, <3>3 DEF kw
  <2>8. (k > 1 => 1 * W <= (k - 1) * W) /\ (k > 2 => 2 * W <= (k - 1) * W)
    <3>1. k > 1 => 1 <= k - 1
      BY <2>2
    <3>2. k > 2 => 2 <= k - 1
      BY <2>2
    <3>3. QED
      BY <1>1, <2>2, <3>1, <3>2, TimesMonotone
  <2>9. 1 * W = W
    BY <1>1
  <2>10. QED
    BY <2>3, <2>4, <2>6, <2>7, <2>8, <2>9
<1>7. Windows \in Nat \ {0}
  BY <1>3, <1>4
<1>8. QED
  BY <1>3, <1>5, <1>6, <1>7

\* Every turn is heard in one window.
LEMMA HeardOnce ==
  ASSUME recording \in Recordings
  PROVE  /\ \A n \in 1..Len(speech) : Window(n) \in 1..Windows
         /\ \A k \in 1..Windows : Spoken(k) = {n \in 1..Len(speech) : Window(n) = k}
<1> DEFINE W == WindowLength
           L == recording.length
<1>1. W \in Nat \ {0} /\ L \in Nat
  BY Spoke
<1>2. CASE ~ Windowed
  BY <1>2, WindowBounds DEF Window, Spoken
<1>3. CASE Windowed
  <2>1. L > W /\ Windows = (L + W - 1) \div W
    BY <1>3 DEF Windowed, Windows
  <2>2. ASSUME NEW n \in 1..Len(speech)
        PROVE  /\ Window(n) \in 1..Windows
               /\ (Window(n) - 1) * W <= speech[n].from
               /\ speech[n].from < Window(n) * W
               /\ speech[n].from \in Nat /\ speech[n].from < L
    <3> DEFINE a == speech[n].from
               q == a \div W
    <3>1. a \in Nat /\ a < L
      BY <1>1, <2>1, Spoke
    <3>2. Window(n) = q + 1
      BY <1>3 DEF Window
    <3> HIDE DEF a, W, L
    <3>3. q \in Nat /\ q * W <= a /\ a < (q + 1) * W
      BY <1>1, <3>1, Quotient
    <3>4. L + W - 1 \in Nat /\ Windows \in Nat /\ L + W - 1 < (Windows + 1) * W
      <4>1. L + W - 1 \in Nat
        BY <1>1, <2>1
      <4>2. QED
        BY <1>1, <2>1, <4>1, Quotient
    <3> HIDE DEF q
    <3>5. q + 1 <= Windows
      <4>1. SUFFICES ASSUME ~ (q + 1 <= Windows) PROVE FALSE
        OBVIOUS
      <4>2. Windows <= q
        BY <3>3, <3>4, <4>1
      <4>3. Windows * W <= q * W /\ (Windows + 1) * W = Windows * W + W /\ q * W \in Nat
            /\ Windows * W \in Nat
        BY <1>1, <3>3, <3>4, <4>2, TimesMonotone
      <4>4. QED
        BY <1>1, <3>1, <3>3, <3>4, <4>3
    <3>6. QED
      BY <3>1, <3>2, <3>3, <3>5 DEF a
  <2>3. ASSUME NEW k \in 1..Windows, NEW n \in 1..Len(speech)
        PROVE  n \in Spoken(k) <=> Window(n) = k
    <3> DEFINE a == speech[n].from
               w == Window(n)
    <3>1. n \in Spoken(k) <=> a \in Begin(k)..End(k) - 1
      BY <1>3 DEF Spoken
    <3>2. /\ Windows \in Nat /\ Begin(k) \in Nat
          /\ End(k) = IF k * W <= L THEN k * W ELSE L
          /\ k * W = Begin(k) + W
      BY <1>3, WindowBounds
    <3>3. /\ w \in 1..Windows /\ (w - 1) * W <= a /\ a < w * W
          /\ a \in Nat /\ a < L
      BY <2>2
    <3>4. Begin(k) = (k - 1) * W
      BY DEF Begin
    <3> HIDE DEF a, w, W, L
    <3>5. k \in Nat /\ w \in Nat /\ k - 1 \in Nat /\ w - 1 \in Nat
      BY <3>2, <3>3
    <3>6. a \in Begin(k)..End(k) - 1 <=> (k - 1) * W <= a /\ a < k * W
      BY <1>1, <3>2, <3>3, <3>4
    <3>7. ASSUME (k - 1) * W <= a, a < k * W PROVE w = k
      <4>1. ~ (w * W <= (k - 1) * W)
        <5>1. w * W \in Nat /\ (k - 1) * W \in Nat
          BY <1>1, <3>5, TimesMonotone
        <5>2. QED
          BY <3>3, <3>7, <5>1
      <4>2. ~ (k * W <= (w - 1) * W)
        <5>1. k * W \in Nat /\ (w - 1) * W \in Nat
          BY <1>1, <3>5, TimesMonotone
        <5>2. QED
          BY <3>3, <3>7, <5>1
      <4>3. ~ (w <= k - 1) /\ ~ (k <= w - 1)
        BY <1>1, <3>5, <4>1, <4>2, TimesMonotone
      <4>4. QED
        BY <3>5, <4>3
    <3>8. w = k => (k - 1) * W <= a /\ a < k * W
      BY <3>3
    <3>9. QED
      BY <3>1, <3>6, <3>7, <3>8 DEF w
  <2>4. \A k \in 1..Windows : Spoken(k) \subseteq 1..Len(speech)
    BY DEF Spoken
  <2>5. QED
    BY <2>2, <2>3, <2>4
<1>4. QED
  BY <1>2, <1>3

-----------------------------------------------------------------------------
(* What a request gets back.                                               *)

\* Gemini's answer about a window has one segment for each turn it hears there.
LEMMA AnswerProperties ==
  ASSUME recording \in Recordings, NEW k \in 1..Windows, NEW offset \in Nat
  PROVE  LET a == Answer(k, offset) IN
         /\ Len(a) \in Nat
         /\ a \in Seq({Segment(n, offset) : n \in Spoken(k)})
         /\ \A i \in 1..Len(a) : a[i].said \in Spoken(k) /\ a[i] = Segment(a[i].said, offset)
         /\ \A i, j \in 1..Len(a) : a[i].said = a[j].said => i = j
         /\ \A n \in Spoken(k) : \E i \in 1..Len(a) : a[i].said = n
<1> DEFINE G == {Segment(n, offset) : n \in Spoken(k)}
           before(s, t) == s.from < t.from \/ (s.from = t.from /\ s.said < t.said)
           pairs == {pair \in G \X G : before(pair[1], pair[2])}
           a == Answer(k, offset)
<1>1. \A n \in Spoken(k) :
        /\ n \in 1..Len(speech) /\ n \in Nat
        /\ Segment(n, offset).said = n
        /\ Segment(n, offset).from \in Int
  BY Spoke DEF Spoken, Segment
<1>2. ASSUME NEW s \in G
      PROVE  /\ s.said \in Spoken(k) /\ s = Segment(s.said, offset)
             /\ s.said \in Nat /\ s.from \in Int /\ s.said \in 1..Len(speech)
  BY <1>1
<1>3. IsFiniteSet(G)
  <2> DEFINE f == [s \in G |-> s.said]
  <2>1. f \in Injection(G, 1..Len(speech))
    <3>1. f \in [G -> 1..Len(speech)]
      BY <1>2
    <3>2. \A s, t \in G : f[s] = f[t] => s = t
      BY <1>2
    <3> HIDE DEF f, G
    <3>3. QED
      BY <3>1, <3>2 DEF Injection, IsInjective
  <2>2. IsFiniteSet(1..Len(speech))
    <3>1. Len(speech) \in Nat
      BY Spoke, LenProperties
    <3>2. QED
      BY <3>1, FS_Interval
  <2> HIDE DEF f, G
  <2>3. QED
    BY <2>1, <2>2, FS_Injection
<1>4. Orders(G, pairs)
  <2>1. \A s, t \in G : <<s, t>> \in pairs <=> before(s, t)
    <3> HIDE DEF G, before
    <3> QED
      OBVIOUS
  <2>2. \A s \in G : ~ before(s, s)
    BY <1>2
  <2>3. \A s, t \in G : s = t \/ before(s, t) \/ before(t, s)
    <3> SUFFICES ASSUME NEW s \in G, NEW t \in G, ~ before(s, t), ~ before(t, s)
                 PROVE  s = t
      OBVIOUS
    <3>1. s.said = t.said
      <4>1. /\ s.said \in Nat /\ s.from \in Int
            /\ t.said \in Nat /\ t.from \in Int
        BY <1>2
      <4> HIDE DEF G
      <4>2. QED
        BY <4>1
    <3>2. QED
      BY <1>2, <3>1
  <2>4. \A s, t, u \in G : before(s, t) /\ before(t, u) => before(s, u)
    <3> SUFFICES ASSUME NEW s \in G, NEW t \in G, NEW u \in G, before(s, t), before(t, u)
                 PROVE  before(s, u)
      OBVIOUS
    <3>1. /\ s.said \in Nat /\ s.from \in Int
          /\ t.said \in Nat /\ t.from \in Int
          /\ u.said \in Nat /\ u.from \in Int
      BY <1>2
    <3> HIDE DEF G
    <3>2. QED
      BY <3>1
  <2> HIDE DEF G, pairs, before
  <2>5. QED
    BY <2>1, <2>2, <2>3, <2>4 DEF Orders
<1>5. a = Arrange(G, pairs)
  BY DEF Answer
<1> HIDE DEF a, G, pairs
<1>6. /\ Cardinality(G) \in Nat
      /\ a \in Seq(G)
      /\ Len(a) = Cardinality(G)
      /\ \A s \in G : \E i \in 1..Cardinality(G) : a[i] = s
      /\ \A i, j \in 1..Cardinality(G) : a[i] = a[j] => i = j
  BY <1>3, <1>4, <1>5, ArrangeProperties
<1>7. \A i \in 1..Len(a) : a[i] \in G
  BY <1>6, ElementOfSeq
<1>8. \A i \in 1..Len(a) : a[i].said \in Spoken(k) /\ a[i] = Segment(a[i].said, offset)
  BY <1>2, <1>7
<1>9. \A i, j \in 1..Len(a) : a[i].said = a[j].said => i = j
  BY <1>6, <1>8
<1>10. ASSUME NEW n \in Spoken(k) PROVE \E i \in 1..Len(a) : a[i].said = n
  <2>1. Segment(n, offset) \in G
    BY DEF G
  <2>2. QED
    BY <1>1, <1>6, <2>1
<1>11. QED
  BY <1>6, <1>8, <1>9, <1>10 DEF a, G

-----------------------------------------------------------------------------
(* The transcript.                                                         *)

\* All speech of the second window is over in its first seconds.
SoonOver ==
  \A i \in 1..Len(speech) :
    speech[i].from \in WindowLength..2 * WindowLength - 1 =>
      speech[i].to <= WindowLength + Slack

\* A segment has its own time, or is in the one place where it may have another.
Placed(s) ==
  \/ s.from = speech[s.said].from /\ s.to = speech[s.said].to
  \/ speech[s.said].from \in WindowLength..2 * WindowLength - 1 /\ SoonOver

Segments == [said : 1..Len(speech), from : Nat, to : Nat]

\* What the answer for a window adds to the transcript.
Gained(k, offset) ==
  LET segments == Answer(k, offset) IN
  IF WindowRelative(segments, k) THEN Later(segments, Begin(k)) ELSE segments

\* A segment is a turn, with its times on the clock it was asked for.
LEMMA SegmentFields ==
  ASSUME NEW n, NEW offset
  PROVE  /\ Segment(n, offset) = [said |-> n, from |-> speech[n].from - offset,
                                   to |-> speech[n].to - offset]
         /\ Segment(n, offset).said = n
         /\ Segment(n, offset).from = speech[n].from - offset
         /\ Segment(n, offset).to = speech[n].to - offset
  BY DEF Segment

\* Times that count from the beginning of a later window are taken for such, and
\* times on the recording's clock in the second window only.
LEMMA ClockGuess ==
  ASSUME recording \in Recordings, NEW k \in 1..Windows, NEW offset \in {0, Begin(k)},
         Spoken(k) # {}
  PROVE  LET a == Answer(k, offset) IN
         IF WindowRelative(a, k)
           THEN /\ Windowed
                /\ \/ offset = Begin(k)
                   \/ k = 2 /\ \A i \in Spoken(k) : speech[i].to <= WindowLength + Slack
           ELSE offset = 0
<1> DEFINE a == Answer(k, offset)
           W == WindowLength
           L == recording.length
           T == {a[i].to : i \in 1..Len(a)}
<1>0. /\ W \in Nat \ {0} /\ L \in Nat /\ Slack \in Nat /\ Slack < W
      /\ Windows \in Nat \ {0} /\ (~ Windowed => Windows = 1) /\ Begin(1) = 0
  BY Spoke, WindowBounds
<1>1. CASE k = 1
  <2>1. ~ WindowRelative(a, k) /\ offset = 0
    BY <1>0, <1>1 DEF WindowRelative
  <2>2. QED
    BY <2>1
<1>2. CASE k # 1
  <2>1. Windowed /\ k > 1 /\ k \in Nat /\ L > W
    BY <1>0, <1>2 DEF Windowed
  <2>2. /\ Begin(k) \in Nat /\ Begin(k) < L
        /\ End(k) = IF k * W <= L THEN k * W ELSE L
        /\ k * W = Begin(k) + W
        /\ Begin(k) >= W
        /\ k > 2 => Begin(k) >= 2 * W
    BY <2>1, WindowBounds
  <2>3. offset \in Nat
    BY <2>2
  <2>4. /\ Len(a) \in Nat
        /\ \A i \in 1..Len(a) : a[i].said \in Spoken(k) /\ a[i] = Segment(a[i].said, offset)
        /\ \A n \in Spoken(k) : \E i \in 1..Len(a) : a[i].said = n
    BY <2>3, AnswerProperties
  <2>5. ASSUME NEW n \in Spoken(k)
        PROVE  /\ n \in 1..Len(speech)
               /\ speech[n].from \in Nat /\ speech[n].to \in Nat
               /\ Begin(k) <= speech[n].from /\ speech[n].from <= speech[n].to
               /\ speech[n].to <= L /\ speech[n].to <= k * W
    <3>1. n \in 1..Len(speech) /\ speech[n].from \in Begin(k)..End(k) - 1 /\ Window(n) = k
      BY <2>1, <2>5, HeardOnce DEF Spoken
    <3>2. Window(n) = speech[n].from \div W + 1
      BY <2>1 DEF Window
    <3>3. /\ speech[n].from \in Nat /\ speech[n].to \in Nat
          /\ speech[n].from <= speech[n].to /\ speech[n].to <= L
          /\ speech[n].to <= (speech[n].from \div W + 1) * W
      BY <1>0, <2>1, <3>1, Spoke
    <3>4. QED
      BY <3>1, <3>2, <3>3
  <2> HIDE DEF a, W, L
  <2>6. ASSUME NEW i \in 1..Len(a)
        PROVE  /\ a[i].to = speech[a[i].said].to - offset
               /\ a[i].to \in Nat
    <3> DEFINE n == a[i].said
    <3>1. n \in Spoken(k) /\ a[i] = Segment(n, offset)
      BY <2>4
    <3>2. /\ speech[n].to \in Nat /\ speech[n].to >= Begin(k)
      BY <2>2, <2>5, <3>1
    <3>3. offset = 0 \/ offset = Begin(k)
      OBVIOUS
    <3>4. a[i].to = speech[n].to - offset
      BY <3>1, SegmentFields
    <3> HIDE DEF n
    <3>5. a[i].to \in Nat
      BY <2>2, <3>2, <3>3, <3>4
    <3>6. QED
      BY <3>4, <3>5 DEF n
  <2>7. Max(T) \in T /\ \A m \in T : m <= Max(T)
    <3>1. T \subseteq Nat
      BY <2>6
    <3>2. T # {}
      <4>1. PICK n \in Spoken(k) : TRUE
        OBVIOUS
      <4>2. PICK i \in 1..Len(a) : a[i].said = n
        BY <2>4, <4>1
      <4>3. QED
        BY <4>2
    <3>3. \A m \in T : m <= L
      <4> SUFFICES ASSUME NEW i \in 1..Len(a) PROVE a[i].to <= L
        OBVIOUS
      <4> DEFINE t == speech[a[i].said].to
      <4>1. /\ t \in Nat /\ t <= L
            /\ a[i].to = t - offset
        BY <2>4, <2>5, <2>6
      <4> HIDE DEF t, a
      <4>2. QED
        BY <1>0, <2>3, <4>1
    <3>4. L \in Nat
      BY <1>0
    <3> HIDE DEF T
    <3>5. QED
      BY <3>1, <3>2, <3>3, <3>4, MaxOfBounded
  <2>8. WindowRelative(a, k) <=> Max(T) <= End(k) - Begin(k) + Slack
    <3>1. Begin(k) > 0
      BY <1>0, <2>2
    <3>2. QED
      BY <3>1 DEF WindowRelative
  <2>9. ASSUME ~ WindowRelative(a, k), offset # 0 PROVE FALSE
    <3>1. offset = Begin(k)
      BY <2>9
    <3>2. PICK i \in 1..Len(a) : Max(T) = a[i].to
      BY <2>7
    <3>3. /\ speech[a[i].said].to <= L /\ speech[a[i].said].to <= k * W
          /\ speech[a[i].said].to \in Nat
      BY <2>4, <2>5, <3>2
    <3>4. a[i].to = speech[a[i].said].to - Begin(k)
      BY <2>6, <3>1, <3>2
    <3> DEFINE t == speech[a[i].said].to
               kw == k * W
    <3>5. /\ Max(T) = t - Begin(k) /\ t \in Nat /\ t <= L /\ t <= kw
          /\ kw = Begin(k) + W
          /\ End(k) = IF kw <= L THEN kw ELSE L
      BY <2>2, <3>2, <3>3, <3>4
    <3>6. ~ (Max(T) <= End(k) - Begin(k) + Slack)
      BY <2>8, <2>9
    <3> DEFINE m == Max(T)
               b == Begin(k)
               e == End(k)
    <3>7. /\ m = t - b /\ t \in Nat /\ t <= L /\ t <= kw /\ kw = b + W /\ b \in Nat
          /\ e = (IF kw <= L THEN kw ELSE L)
          /\ ~ (m <= e - b + Slack)
      BY <2>2, <3>5, <3>6
    <3>8. L \in Nat /\ W \in Nat /\ Slack \in Nat
      BY <1>0
    <3> HIDE DEF T, t, kw, m, b, e
    <3>9. QED
      BY ONLY <3>7, <3>8
  <2>10. ASSUME WindowRelative(a, k), offset # Begin(k)
         PROVE  k = 2 /\ \A n \in Spoken(k) : speech[n].to <= W + Slack
    <3>1. offset = 0
      BY <2>10
    <3>2. End(k) - Begin(k) <= W /\ End(k) \in Int
      BY <1>0, <2>2
    <3>3. Max(T) <= W + Slack
      <4>1. Max(T) \in Int
        BY <2>6, <2>7
      <4> HIDE DEF T
      <4>2. QED
        BY <1>0, <2>2, <2>8, <2>10, <3>2, <4>1
    <3>4. ASSUME NEW n \in Spoken(k) PROVE speech[n].to <= W + Slack
      <4>1. PICK i \in 1..Len(a) : a[i].said = n
        BY <2>4
      <4>2. a[i].to = speech[n].to
        BY <2>5, <2>6, <3>1, <4>1
      <4>3. a[i].to <= Max(T) /\ Max(T) \in Int /\ a[i].to \in Nat
        <5>1. a[i].to \in T /\ a[i].to \in Nat /\ T \subseteq Nat
          BY <2>6
        <5> HIDE DEF T, a
        <5>2. QED
          BY <2>7, <5>1
      <4> HIDE DEF T
      <4>4. QED
        BY <1>0, <3>3, <4>2, <4>3
    <3>5. k = 2
      <4>1. PICK n \in Spoken(k) : TRUE
        OBVIOUS
      <4>2. Begin(k) <= speech[n].to /\ speech[n].to <= W + Slack /\ speech[n].to \in Nat
        BY <2>2, <2>5, <3>4
      <4>3. ~ (Begin(k) >= 2 * W)
        BY <1>0, <2>2, <4>2
      <4>4. QED
        BY <2>1, <2>2, <4>3
    <3>6. QED
      BY <3>4, <3>5
  <2>11. QED
    BY <2>1, <2>9, <2>10 DEF a, W
<1>3. QED
  BY <1>1, <1>2

\* The answer for a window adds each of its turns once, in its place.
LEMMA GainedProperties ==
  ASSUME recording \in Recordings, NEW k \in 1..Windows, NEW offset \in {0, Begin(k)},
         Spoken(k) # {}
  PROVE  LET b == Gained(k, offset) IN
         /\ b \in Seq(Segments)
         /\ \A i \in 1..Len(b) : b[i].said \in Spoken(k) /\ Placed(b[i])
         /\ \A i, j \in 1..Len(b) : b[i].said = b[j].said => i = j
         /\ \A n \in Spoken(k) : \E i \in 1..Len(b) : b[i].said = n
<1> DEFINE a == Answer(k, offset)
           b == Gained(k, offset)
<1>1. offset \in Nat /\ (Windowed => Begin(k) \in Nat)
  <2>1. CASE Windowed
    BY <2>1, WindowBounds
  <2>2. CASE ~ Windowed
    BY <2>2, WindowBounds
  <2>3. QED
    BY <2>1, <2>2
<1>2. /\ Len(a) \in Nat
      /\ \A i \in 1..Len(a) : a[i].said \in Spoken(k) /\ a[i] = Segment(a[i].said, offset)
      /\ \A i, j \in 1..Len(a) : a[i].said = a[j].said => i = j
      /\ \A n \in Spoken(k) : \E i \in 1..Len(a) : a[i].said = n
      /\ a \in Seq({Segment(n, offset) : n \in Spoken(k)})
  BY <1>1, AnswerProperties
<1>3. IF WindowRelative(a, k)
        THEN /\ Windowed
             /\ \/ offset = Begin(k)
                \/ k = 2 /\ \A i \in Spoken(k) : speech[i].to <= WindowLength + Slack
        ELSE offset = 0
  BY ClockGuess
<1>4. b = IF WindowRelative(a, k) THEN Later(a, Begin(k)) ELSE a
  BY DEF Gained
<1>5. \A n \in Spoken(k) :
        /\ n \in 1..Len(speech) /\ speech[n].from \in Nat /\ speech[n].to \in Nat
        /\ Windowed => speech[n].from >= Begin(k) /\ speech[n].to >= Begin(k)
  <2> SUFFICES ASSUME NEW n \in Spoken(k)
               PROVE  /\ n \in 1..Len(speech) /\ speech[n].from \in Nat /\ speech[n].to \in Nat
                      /\ Windowed => speech[n].from >= Begin(k) /\ speech[n].to >= Begin(k)
    OBVIOUS
  <2>1. /\ n \in 1..Len(speech)
        /\ Windowed => speech[n].from \in Begin(k)..End(k) - 1
    BY DEF Spoken
  <2>2. /\ speech[n].from \in Nat /\ speech[n].to \in Nat /\ speech[n].from <= speech[n].to
    BY <2>1, Spoke
  <2>3. QED
    BY <1>1, <2>1, <2>2
<1> HIDE DEF a, b
<1>6. ASSUME NEW i \in 1..Len(a)
      PROVE  /\ a[i].from = speech[a[i].said].from - offset
             /\ a[i].to = speech[a[i].said].to - offset
  <2> DEFINE n == a[i].said
  <2>1. a[i] = Segment(n, offset)
    BY <1>2
  <2>2. QED
    BY <2>1, SegmentFields
<1>6a. ASSUME NEW i \in 1..Len(a)
       PROVE  a[i] = [said |-> a[i].said, from |-> a[i].from, to |-> a[i].to]
  <2> DEFINE n == a[i].said
  <2>1. a[i] = Segment(n, offset)
    BY <1>2
  <2>2. QED
    BY <2>1, SegmentFields
<1>7. CASE WindowRelative(a, k)
  <2> DEFINE moved(i) == [said |-> a[i].said,
                       from |-> a[i].from + Begin(k), to |-> a[i].to + Begin(k)]
  <2>1. b = [i \in 1..Len(a) |-> moved(i)]
    BY <1>4, <1>7 DEF Later
  <2>2. ASSUME NEW i \in 1..Len(a)
        PROVE  /\ moved(i).said = a[i].said
               /\ moved(i) \in Segments
               /\ Placed(moved(i))
    <3> DEFINE n == a[i].said
               from == a[i].from + Begin(k)
               to == a[i].to + Begin(k)
    <3>1. n \in Spoken(k) /\ a[i] = [said |-> n, from |-> a[i].from, to |-> a[i].to]
      BY <1>2, <1>6a
    <3>2. moved(i) = [said |-> n, from |-> from, to |-> to]
      OBVIOUS
    <3>3. /\ from = speech[n].from - offset + Begin(k)
          /\ to = speech[n].to - offset + Begin(k)
      BY <1>6
    <3>4. /\ n \in 1..Len(speech) /\ speech[n].from \in Nat /\ speech[n].to \in Nat
      BY <1>5, <3>1
    <3> HIDE DEF moved, n, from, to
    <3>5. /\ from \in Nat /\ to \in Nat
          /\ offset = Begin(k) => from = speech[n].from /\ to = speech[n].to
      <4> DEFINE x == speech[n].from
                 y == speech[n].to
                 c == Begin(k)
      <4>1. /\ x \in Nat /\ y \in Nat /\ c \in Nat /\ (offset = 0 \/ offset = c)
            /\ from = x - offset + c /\ to = y - offset + c
        BY <1>1, <1>3, <1>7, <3>3, <3>4
      <4> HIDE DEF x, y, c
      <4>2. /\ from \in Nat /\ to \in Nat
            /\ offset = c => from = x /\ to = y
        BY <4>1
      <4>3. QED
        BY <4>2 DEF x, y, c
    <3>6. ASSUME k = 2, \A j \in Spoken(k) : speech[j].to <= WindowLength + Slack
          PROVE  speech[n].from \in WindowLength..2 * WindowLength - 1 /\ SoonOver
      <4>1. \A j \in 1..Len(speech) :
              speech[j].from \in WindowLength..2 * WindowLength - 1 <=> j \in Spoken(k)
        <5> SUFFICES ASSUME NEW j \in 1..Len(speech)
                     PROVE  speech[j].from \in WindowLength..2 * WindowLength - 1
                              <=> j \in Spoken(k)
          OBVIOUS
        <5>1. Windowed /\ WindowLength \in Nat \ {0} /\ recording.length \in Nat
              /\ recording.length > WindowLength
          BY <1>3, <1>7, Spoke DEF Windowed
        <5>2. /\ Begin(k) = WindowLength
              /\ End(k) = IF 2 * WindowLength <= recording.length
                            THEN 2 * WindowLength ELSE recording.length
          BY <3>6, <5>1, WindowBounds DEF Begin
        <5>3. speech[j].from \in Nat /\ speech[j].from < recording.length
          BY <5>1, Spoke
        <5> DEFINE w == WindowLength
                   l == recording.length
                   x == speech[j].from
                   e == End(k)
        <5>4. j \in Spoken(k) <=> x \in w..e - 1
          BY <5>1, <5>2 DEF Spoken
        <5>5. /\ w \in Nat /\ l \in Nat /\ l > w /\ x \in Nat /\ x < l
              /\ e = IF 2 * w <= l THEN 2 * w ELSE l
          BY <5>1, <5>2, <5>3
        <5> HIDE DEF w, l, x, e
        <5>6. x \in w..2 * w - 1 <=> x \in w..e - 1
          BY ONLY <5>5
        <5>7. QED
          BY <5>4, <5>6 DEF w, x
      <4>2. QED
        BY <3>1, <3>4, <3>6, <4>1 DEF SoonOver
    <3>7. moved(i) \in Segments
      BY <3>2, <3>4, <3>5 DEF Segments
    <3>8. Placed(moved(i))
      <4>1. moved(i).said = n /\ moved(i).from = from /\ moved(i).to = to
        BY <3>2
      <4>2. \/ from = speech[n].from /\ to = speech[n].to
            \/ speech[n].from \in WindowLength..2 * WindowLength - 1 /\ SoonOver
        BY <1>3, <1>7, <3>5, <3>6, Zenon
      <4>3. QED
        BY <4>1, <4>2, Zenon DEF Placed
    <3>9. QED
      BY <3>2, <3>7, <3>8 DEF n
  <2> HIDE DEF moved
  <2>3. b \in Seq(Segments) /\ Len(b) = Len(a) /\ \A i \in 1..Len(a) : b[i] = moved(i)
    <3> DEFINE z == Len(a)
    <3>1. z \in Nat /\ b = [i \in 1..z |-> moved(i)] /\ \A i \in 1..z : moved(i) \in Segments
      BY <1>2, <2>1, <2>2
    <3> HIDE DEF z
    <3>2. b \in [1..z -> Segments] /\ \A i \in 1..z : b[i] = moved(i)
      BY ONLY <3>1
    <3>3. z \in Nat /\ b \in [1..z -> Segments]
      BY <3>1, <3>2
    <3>4. b \in Seq(Segments) /\ Len(b) = z
      <4> HIDE DEF b
      <4> QED
        BY ONLY <3>3
    <3>5. QED
      BY ONLY <3>2, <3>4, Zenon DEF z
  <2>4. ASSUME NEW i \in 1..Len(a) PROVE b[i].said = a[i].said /\ Placed(b[i])
    <3>1. b[i] = moved(i)
      BY <2>3, Zenon
    <3>2. QED
      BY <2>2, <3>1, Zenon
  <2>5. \A i \in 1..Len(b) : b[i].said \in Spoken(k) /\ Placed(b[i])
    BY <1>2, <2>3, <2>4, Zenon
  <2>6. \A i, j \in 1..Len(b) : b[i].said = b[j].said => i = j
    BY <1>2, <2>3, <2>4, Zenon
  <2>7. \A n \in Spoken(k) : \E i \in 1..Len(b) : b[i].said = n
    BY <1>2, <2>3, <2>4, Zenon
  <2>8. QED
    BY <2>3, <2>5, <2>6, <2>7, Zenon DEF b
<1>8. CASE ~ WindowRelative(a, k)
  <2>1. b = a /\ offset = 0
    BY <1>3, <1>4, <1>8
  <2>2. ASSUME NEW i \in 1..Len(a)
        PROVE  a[i] \in Segments /\ Placed(a[i])
    <3> DEFINE n == a[i].said
    <3>1. n \in Spoken(k) /\ a[i] = [said |-> n, from |-> a[i].from, to |-> a[i].to]
      BY <1>2, <1>6a
    <3>2. /\ n \in 1..Len(speech) /\ speech[n].from \in Nat /\ speech[n].to \in Nat
      BY <1>5, <3>1
    <3>3. a[i].from = speech[n].from /\ a[i].to = speech[n].to
      <4>1. a[i].from = speech[n].from - 0 /\ a[i].to = speech[n].to - 0
        BY <1>6, <2>1
      <4> HIDE DEF n
      <4>2. QED
        BY <3>2, <4>1
    <3> HIDE DEF n
    <3>4. a[i] \in Segments
      BY <3>1, <3>2, <3>3 DEF Segments
    <3>5. Placed(a[i])
      BY <3>1, <3>3 DEF Placed, n
    <3>6. QED
      BY <3>4, <3>5
  <2>3. a \in Seq(Segments)
    <3>1. a = [i \in 1..Len(a) |-> a[i]]
      BY <1>2
    <3>2. QED
      BY <1>2, <2>2, <3>1
  <2>4. QED
    BY <1>2, <2>1, <2>2, <2>3 DEF b
<1>9. QED
  BY <1>7, <1>8

\* What has been transcribed of the first h windows: each of their turns once, and
\* in its place.
Hears(t, h) ==
  /\ h \in 0..Windows
  /\ t \in Seq(Segments)
  /\ \A i, j \in 1..Len(t) : t[i].said = t[j].said => i = j
  /\ \A n \in 1..Len(speech) : Window(n) <= h <=> \E i \in 1..Len(t) : t[i].said = n
  /\ \A i \in 1..Len(t) : Placed(t[i])

\* How far the transcription is.
HearingAt(st, h) ==
  /\ st \in {"hearing", "cutting", "ready", "failed", "refused"}
  /\ st \in {"cutting", "ready"} => h = Windows
  /\ st = "failed" => h < Windows /\ Spoken(h + 1) = {}

HeardInv ==
  /\ recording \in Recordings
  /\ Hears(transcript, heard)
  /\ HearingAt(stage, heard)

\* The segments of a transcript are about turns and have times.
LEMMA SegmentIn ==
  ASSUME NEW t \in Seq(Segments)
  PROVE  /\ Len(t) \in Nat
         /\ \A i \in 1..Len(t) : t[i] \in Segments /\ t[i].said \in 1..Len(speech)
                                 /\ t[i].from \in Nat /\ t[i].to \in Nat
<1>1. Len(t) \in Nat
  BY LenProperties
<1>2. \A i \in 1..Len(t) : t[i] \in Segments
  BY ElementOfSeq
<1>3. QED
  BY <1>1, <1>2 DEF Segments

\* The invariant depends on the recording, which no step changes.
LEMMA HeardNext ==
  ASSUME recording' = recording
  PROVE  HeardInv' <=> /\ recording \in Recordings
                       /\ Hears(transcript', heard')
                       /\ HearingAt(stage', heard')
  BY DEF HeardInv, Hears, HearingAt, Placed, SoonOver, Segments, Window, Windowed, Windows,
         Spoken, speech, Begin, End

\* A transcription starts with nothing heard.
LEMMA HeardInit == TranscriptInit => HeardInv
<1> SUFFICES ASSUME TranscriptInit PROVE HeardInv
  OBVIOUS
<1>1. /\ recording \in Recordings /\ stage = "hearing"
      /\ heard = 0 /\ transcript = <<>>
  BY DEF TranscriptInit, NothingHeard
<1>2. Windows \in Nat \ {0} /\ \A n \in 1..Len(speech) : Window(n) \in 1..Windows
  BY <1>1, WindowBounds, HeardOnce
<1>3. transcript \in Seq(Segments) /\ Len(transcript) = 0
  BY <1>1, EmptySeq
<1>4. Hears(transcript, heard)
  BY <1>1, <1>2, <1>3 DEF Hears
<1>5. QED
  BY <1>1, <1>4 DEF HeardInv, HearingAt

\* A window adds what is said in it to the transcript.
LEMMA HearStep == HeardInv /\ HearWindow => HeardInv'
<1> SUFFICES ASSUME HeardInv, HearWindow PROVE HeardInv'
  OBVIOUS
<1> DEFINE t == transcript
           k == heard + 1
           m == Len(t)
<1>1. /\ recording \in Recordings /\ heard \in 0..Windows /\ Windows \in Nat
      /\ stage = "hearing" /\ heard < Windows /\ Spoken(k) # {}
      /\ heard' = k /\ stage' = stage /\ recording' = recording
  <2>1. recording \in Recordings
    BY DEF HeardInv
  <2>2. Windows \in Nat
    BY <2>1, WindowBounds
  <2>3. QED
    BY <2>1, <2>2 DEF HeardInv, Hears, HearWindow
<1>2. PICK offset \in {0, Begin(k)} : transcript' = t \o Gained(k, offset)
  BY DEF HearWindow, Gained
<1> DEFINE b == Gained(k, offset)
           c == t \o b
           l == Len(b)
<1>3. k \in 1..Windows /\ k \in Nat
  BY <1>1
<1>4. /\ b \in Seq(Segments)
      /\ \A i \in 1..Len(b) : b[i].said \in Spoken(k) /\ Placed(b[i])
      /\ \A i, j \in 1..Len(b) : b[i].said = b[j].said => i = j
      /\ \A n \in Spoken(k) : \E i \in 1..Len(b) : b[i].said = n
  <2> HIDE DEF k
  <2> QED
    BY <1>1, <1>3, GainedProperties
<1>5. /\ t \in Seq(Segments)
      /\ \A i, j \in 1..Len(t) : t[i].said = t[j].said => i = j
      /\ \A n \in 1..Len(speech) : Window(n) <= heard <=> \E i \in 1..Len(t) : t[i].said = n
      /\ \A i \in 1..Len(t) : Placed(t[i])
  BY DEF HeardInv, Hears
<1>6. /\ Spoken(k) = {n \in 1..Len(speech) : Window(n) = k}
      /\ \A n \in 1..Len(speech) : Window(n) \in 1..Windows
  <2> HIDE DEF k
  <2> QED
    BY <1>1, <1>3, HeardOnce
<1>7. \A i \in 1..m : t[i].said \in 1..Len(speech)
  BY <1>5, SegmentIn
<1> HIDE DEF t, b, k
<1>8. /\ c \in Seq(Segments) /\ Len(c) = m + l /\ m \in Nat /\ l \in Nat
      /\ \A i \in 1..m : c[i] = t[i]
      /\ \A i \in 1..l : c[m + i] = b[i]
      /\ \A i \in m + 1..m + l : i - m \in 1..l /\ c[i] = b[i - m]
  <2>1. c \in Seq(Segments)
    BY <1>4, <1>5, ConcatProperties
  <2>2. Len(c) = m + l /\ \A i \in 1..m + l : c[i] = IF i <= m THEN t[i] ELSE b[i - m]
    BY <1>4, <1>5, ConcatProperties
  <2>3. m \in Nat /\ l \in Nat
    BY <1>4, <1>5, LenProperties
  <2> HIDE DEF c, m, l
  <2>4. QED
    BY <2>1, <2>2, <2>3
<1>9. \A i, j \in 1..Len(c) : c[i].said = c[j].said => i = j
  <2> SUFFICES ASSUME NEW i \in 1..Len(c), NEW j \in 1..Len(c), c[i].said = c[j].said
               PROVE  i = j
    OBVIOUS
  <2>1. \A p \in 1..m : Window(t[p].said) <= heard
    BY <1>5, <1>7
  <2>2. \A p \in 1..l : Window(b[p].said) = k
    BY <1>4, <1>6
  <2>3. ~ (k <= heard)
    BY <1>1 DEF k
  <2> HIDE DEF c, l, m
  <2>4. CASE i \in 1..m /\ j \in 1..m
    BY <1>5, <1>8, <2>4 DEF m
  <2>5. CASE i \in m + 1..m + l /\ j \in m + 1..m + l
    <3>1. /\ i - m \in 1..l /\ j - m \in 1..l
          /\ b[i - m].said = b[j - m].said
      BY <1>8, <2>5
    <3>2. i - m = j - m
      BY <1>4, <3>1 DEF l
    <3>3. QED
      BY <1>8, <2>5, <3>2
  <2>6. CASE i \in 1..m /\ j \in m + 1..m + l
    <3>1. c[i] = t[i] /\ j - m \in 1..l /\ c[j] = b[j - m]
      BY <1>8, <2>6
    <3>2. Window(c[i].said) <= heard /\ Window(c[j].said) = k
      BY <2>1, <2>2, <2>6, <3>1
    <3>3. QED
      BY <2>3, <3>2
  <2>7. CASE j \in 1..m /\ i \in m + 1..m + l
    <3>1. c[j] = t[j] /\ i - m \in 1..l /\ c[i] = b[i - m]
      BY <1>8, <2>7
    <3>2. Window(c[j].said) <= heard /\ Window(c[i].said) = k
      BY <2>1, <2>2, <2>7, <3>1
    <3>3. QED
      BY <2>3, <3>2
  <2>8. QED
    BY <1>8, <2>4, <2>5, <2>6, <2>7
<1>10. ASSUME NEW n \in 1..Len(speech)
       PROVE  Window(n) <= k <=> \E i \in 1..Len(c) : c[i].said = n
  <2>1. Window(n) <= k <=> Window(n) <= heard \/ Window(n) = k
    BY <1>1, <1>6 DEF k
  <2>2. ASSUME NEW i \in 1..Len(c), c[i].said = n PROVE Window(n) <= heard \/ Window(n) = k
    <3> HIDE DEF c, l, m
    <3>1. CASE i \in 1..m
      BY <1>5, <1>8, <2>2, <3>1 DEF m
    <3>2. CASE i \in m + 1..m + l
      BY <1>4, <1>6, <1>8, <2>2, <3>2 DEF l
    <3>3. QED
      BY <1>8, <3>1, <3>2
  <2>3. ASSUME Window(n) <= heard PROVE \E i \in 1..Len(c) : c[i].said = n
    <3>1. PICK i \in 1..m : t[i].said = n
      BY <1>5, <2>3
    <3> HIDE DEF c, l, m
    <3>2. i \in 1..Len(c) /\ c[i] = t[i]
      BY <1>8
    <3>3. QED
      BY <3>1, <3>2
  <2>4. ASSUME Window(n) = k PROVE \E i \in 1..Len(c) : c[i].said = n
    <3>1. PICK i \in 1..l : b[i].said = n
      BY <1>4, <1>6, <2>4
    <3> HIDE DEF c, l, m
    <3>2. m + i \in 1..Len(c) /\ c[m + i] = b[i]
      BY <1>8
    <3>3. QED
      BY <3>1, <3>2
  <2>5. QED
    BY <2>1, <2>2, <2>3, <2>4
<1>11. ASSUME NEW i \in 1..Len(c) PROVE Placed(c[i])
  <2> HIDE DEF c, l, m
  <2>1. CASE i \in 1..m
    BY <1>5, <1>8, <2>1 DEF m
  <2>2. CASE i \in m + 1..m + l
    BY <1>4, <1>8, <2>2 DEF l
  <2>3. QED
    BY <1>8, <2>1, <2>2
<1>12. Hears(c, k)
  <2>1. k \in 0..Windows
    BY <1>1 DEF k
  <2>2. c \in Seq(Segments)
    BY <1>8
  <2> HIDE DEF c
  <2>3. QED
    BY <1>9, <1>10, <1>11, <2>1, <2>2 DEF Hears
<1>13. transcript' = c /\ heard' = k /\ HearingAt(stage', heard')
  BY <1>1, <1>2 DEF HearingAt, t, b, k
<1>14. QED
  BY <1>1, <1>12, <1>13, HeardNext

\* Merging puts the segments in order and leaves none out.
LEMMA MergeStep == HeardInv /\ Merge => HeardInv'
<1> SUFFICES ASSUME HeardInv, Merge PROVE HeardInv'
  OBVIOUS
<1> DEFINE t == transcript
           m == Len(t)
           S == 1..m
           pairs == {pair \in S \X S :
                       \/ t[pair[1]].from < t[pair[2]].from
                       \/ t[pair[1]].from = t[pair[2]].from /\ pair[1] < pair[2]}
           a == Timeline
           c == [i \in 1..m |-> t[a[i]]]
<1>1. /\ recording \in Recordings /\ heard = Windows /\ stage' = "cutting"
      /\ transcript' = c /\ heard' = heard /\ recording' = recording
  BY DEF HeardInv, Merge
<1>2. /\ heard \in 0..Windows
      /\ t \in Seq(Segments)
      /\ \A i, j \in 1..m : t[i].said = t[j].said => i = j
      /\ \A n \in 1..Len(speech) : Window(n) <= heard <=> \E i \in 1..m : t[i].said = n
      /\ \A i \in 1..m : Placed(t[i])
  BY DEF HeardInv, Hears
<1>3. m \in Nat /\ \A i \in S : t[i].from \in Nat
  BY <1>2, SegmentIn
<1>4. Orders(S, pairs)
  <2> DEFINE before(i, j) == t[i].from < t[j].from \/ (t[i].from = t[j].from /\ i < j)
  <2>1. \A i, j \in S : <<i, j>> \in pairs <=> before(i, j)
    OBVIOUS
  <2>2. /\ \A i \in S : ~ before(i, i)
        /\ \A i, j \in S : i = j \/ before(i, j) \/ before(j, i)
        /\ \A i, j, k \in S : before(i, j) /\ before(j, k) => before(i, k)
    BY <1>3
  <2> HIDE DEF S, pairs, before
  <2>3. QED
    BY <2>1, <2>2 DEF Orders
<1>5. a = Arrange(S, pairs)
  BY DEF Timeline
<1>6. IsFiniteSet(S) /\ Cardinality(S) = m
  <2> HIDE DEF m
  <2> QED
    BY <1>3, FS_Interval
<1> HIDE DEF a, pairs, t
<1>7. /\ \A i \in S : a[i] \in S
      /\ \A p \in S : \E i \in S : a[i] = p
      /\ \A i, j \in S : a[i] = a[j] => i = j
  <2> HIDE DEF S, m
  <2>1. /\ Arrange(S, pairs) \in [1..Cardinality(S) -> S]
        /\ \A p \in S : \E i \in 1..Cardinality(S) : Arrange(S, pairs)[i] = p
        /\ \A i, j \in 1..Cardinality(S) : Arrange(S, pairs)[i] = Arrange(S, pairs)[j] => i = j
    BY <1>4, <1>6, ArrangeProperties
  <2>2. 1..Cardinality(S) = S
    BY <1>6 DEF S
  <2>3. QED
    BY <1>5, <2>1, <2>2
<1>8. /\ c \in Seq(Segments) /\ Len(c) = m
      /\ \A i \in S : c[i] = t[a[i]]
  <2>1. \A i \in S : t[i] \in Segments
    BY <1>2, ElementOfSeq
  <2>2. QED
    BY <1>3, <1>7, <2>1
<1> HIDE DEF c
<1>9. Hears(c, heard)
  <2>0. 1..Len(c) = S
    BY <1>8
  <2> HIDE DEF S, m
  <2>a. \A i, j \in S : t[i].said = t[j].said => i = j
    BY <1>2 DEF S
  <2>b. \A n \in 1..Len(speech) : Window(n) <= heard <=> \E i \in S : t[i].said = n
    BY <1>2 DEF S
  <2>c. \A i \in S : a[i] \in S /\ c[i].said = t[a[i]].said
    BY <1>7, <1>8
  <2>1. \A i, j \in 1..Len(c) : c[i].said = c[j].said => i = j
    <3> SUFFICES ASSUME NEW i \in S, NEW j \in S, c[i].said = c[j].said PROVE i = j
      BY <2>0
    <3>1. a[i] = a[j]
      BY <2>a, <2>c
    <3>2. QED
      BY <1>7, <3>1
  <2>2. \A n \in 1..Len(speech) : Window(n) <= heard <=> \E i \in 1..Len(c) : c[i].said = n
    <3> SUFFICES ASSUME NEW n \in 1..Len(speech)
                 PROVE  (\E i \in S : t[i].said = n) <=> \E i \in S : c[i].said = n
      BY <2>0, <2>b
    <3>1. ASSUME NEW p \in S, t[p].said = n PROVE \E i \in S : c[i].said = n
      <4>1. PICK i \in S : a[i] = p
        BY <1>7
      <4>2. QED
        BY <2>c, <3>1, <4>1
    <3>2. ASSUME NEW i \in S, c[i].said = n PROVE \E p \in S : t[p].said = n
      BY <2>c, <3>2
    <3>3. QED
      BY <3>1, <3>2
  <2>3. \A i \in 1..Len(c) : Placed(c[i])
    BY <1>2, <1>7, <1>8, <2>0 DEF S
  <2>4. QED
    BY <1>2, <1>8, <2>1, <2>2, <2>3 DEF Hears
<1>10. HearingAt(stage', heard')
  BY <1>1 DEF HearingAt
<1>11. QED
  BY <1>1, <1>9, <1>10, HeardNext

\* Every step keeps the transcript right.
LEMMA HeardStep == HeardInv /\ [TranscriptNext]_voiceVars => HeardInv'
<1> SUFFICES ASSUME HeardInv, [TranscriptNext]_voiceVars PROVE HeardInv'
  OBVIOUS
<1>0. /\ recording \in Recordings /\ Hears(transcript, heard) /\ HearingAt(stage, heard)
  BY DEF HeardInv
<1>1. CASE HearWindow
  BY <1>1, HearStep
<1>2. CASE HearNothing
  <2>1. /\ recording' = recording /\ transcript' = transcript /\ heard' = heard
        /\ stage' = "failed" /\ heard < Windows /\ Spoken(heard + 1) = {}
    BY <1>2 DEF HearNothing
  <2>2. HearingAt(stage', heard')
    BY <2>1 DEF HearingAt
  <2>3. QED
    BY <1>0, <2>1, <2>2, HeardNext
<1>3. CASE Refuse
  <2>1. /\ recording' = recording /\ transcript' = transcript /\ heard' = heard
        /\ stage' = "refused"
    BY <1>3 DEF Refuse
  <2>2. HearingAt(stage', heard')
    BY <2>1 DEF HearingAt
  <2>3. QED
    BY <1>0, <2>1, <2>2, HeardNext
<1>4. CASE Merge
  BY <1>4, MergeStep
<1>5. CASE AddTurn
  <2>1. /\ recording' = recording /\ transcript' = transcript /\ heard' = heard /\ stage' = stage
    BY <1>5 DEF AddTurn
  <2>2. QED
    BY <1>0, <2>1, HeardNext
<1>6. CASE EndPieces
  <2>1. /\ recording' = recording /\ transcript' = transcript /\ heard' = heard
        /\ stage = "cutting" /\ stage' = "ready"
    BY <1>6 DEF EndPieces
  <2>2. HearingAt(stage', heard')
    BY <1>0, <2>1 DEF HearingAt
  <2>3. QED
    BY <1>0, <2>1, <2>2, HeardNext
<1>7. CASE UNCHANGED voiceVars
  <2>1. /\ recording' = recording /\ transcript' = transcript /\ heard' = heard /\ stage' = stage
    BY <1>7 DEF voiceVars
  <2>2. QED
    BY <1>0, <2>1, HeardNext
<1>8. QED
  BY <1>1, <1>2, <1>3, <1>4, <1>5, <1>6, <1>7 DEF TranscriptNext

\* What the invariant says of a finished transcript.
LEMMA SpeechHolds == HeardInv => SpeechInPlace
<1> SUFFICES ASSUME HeardInv, stage \in {"cutting", "ready"}
             PROVE  /\ {transcript[s].said : s \in 1..Len(transcript)} = 1..Len(speech)
                    /\ Len(transcript) = Len(speech)
                    /\ \A s \in 1..Len(transcript) :
                         LET said == speech[transcript[s].said] IN
                         \/ transcript[s].from = said.from /\ transcript[s].to = said.to
                         \/ /\ said.from \in WindowLength..2 * WindowLength - 1
                            /\ \A i \in 1..Len(speech) :
                                 speech[i].from \in WindowLength..2 * WindowLength - 1 =>
                                   speech[i].to <= WindowLength + Slack
  BY DEF SpeechInPlace
<1> DEFINE t == transcript
           m == Len(t)
           l == Len(speech)
<1>1. /\ recording \in Recordings /\ heard = Windows
      /\ t \in Seq(Segments)
      /\ \A i, j \in 1..m : t[i].said = t[j].said => i = j
      /\ \A n \in 1..l : Window(n) <= heard <=> \E i \in 1..m : t[i].said = n
      /\ \A i \in 1..m : Placed(t[i])
  BY DEF HeardInv, Hears, HearingAt
<1>2. m \in Nat /\ l \in Nat
  BY <1>1, Spoke, LenProperties
<1>3. \A i \in 1..m : t[i].said \in 1..l
  BY <1>1, SegmentIn
<1>4. \A n \in 1..l : \E i \in 1..m : t[i].said = n
  <2>1. Windows \in Nat /\ \A n \in 1..l : Window(n) \in 1..Windows
    BY <1>1, WindowBounds, HeardOnce
  <2> HIDE DEF t, m, l
  <2>2. QED
    BY <1>1, <2>1
<1>5. {t[s].said : s \in 1..m} = 1..l
  BY <1>3, <1>4
<1>6. m = l
  <2> DEFINE f == [i \in 1..m |-> t[i].said]
             A == 1..m
             B == 1..l
  <2>1. f \in Bijection(A, B)
    <3>1. f \in [A -> B] /\ (\A i, j \in A : f[i] = f[j] => i = j)
      BY <1>1, <1>3
    <3>2. \A n \in B : \E i \in A : f[i] = n
      BY <1>4
    <3> HIDE DEF f, A, B
    <3>3. QED
      BY <3>1, <3>2 DEF Bijection, Injection, Surjection, IsInjective
  <2>2. /\ IsFiniteSet(A) /\ Cardinality(A) = m /\ Cardinality(B) = l
    <3> HIDE DEF m, l
    <3> QED
      BY <1>2, FS_Interval
  <2> HIDE DEF A, B, f
  <2>3. Cardinality(A) = Cardinality(B)
    BY <2>1, <2>2, FS_Bijection DEF ExistsBijection
  <2>4. QED
    BY <2>2, <2>3
<1>7. QED
  BY <1>1, <1>5, <1>6 DEF Placed, SoonOver

\* Once all windows have been heard, every turn is in the transcript once and at its
\* own time, whatever clock the answers used, but for the one case SpeechInPlace
\* names (GeminiTranscriber.transcribe).
THEOREM SpeechIsInPlace == TranscriptSpec => []SpeechInPlace
  BY SpeechHolds, HeardInit, HeardStep, PTL DEF TranscriptSpec

\* What the invariant says of a failed transcription.
LEMMA SilenceHolds == HeardInv => FailsOnlyInSilence
<1> SUFFICES ASSUME HeardInv, stage = "failed", speech # <<>>
             PROVE  \E k \in 1..recording.length :
                      /\ Begin(k) < recording.length
                      /\ \A i \in 1..Len(speech) :
                           speech[i].from \notin Begin(k)..Begin(k + 1) - 1
  BY DEF FailsOnlyInSilence
<1> DEFINE k == heard + 1
           W == WindowLength
           L == recording.length
<1>1. /\ recording \in Recordings /\ heard \in 0..Windows /\ heard < Windows
      /\ Spoken(k) = {}
  BY DEF HeardInv, Hears, HearingAt
<1>2. Windows \in Nat /\ W \in Nat \ {0} /\ L \in Nat /\ speech \in Seq(Turn)
  BY <1>1, WindowBounds, Spoke
<1>3. k \in 1..Windows /\ k \in Nat
  BY <1>1, <1>2
<1>4. PICK n \in 1..Len(speech) : TRUE
  BY <1>2, EmptySeq, LenProperties
<1>5. Windowed
  BY <1>1, <1>4 DEF Spoken
<1>6. /\ Begin(k) \in Nat /\ Begin(k) < L
      /\ End(k) = IF k * W <= L THEN k * W ELSE L
  <2> HIDE DEF k
  <2> QED
    BY <1>1, <1>3, <1>5, WindowBounds
<1> HIDE DEF k
<1>7. Begin(k) = (k - 1) * W /\ Begin(k + 1) = k * W
  <2>1. Begin(k) = (k - 1) * W
    BY DEF Begin
  <2> DEFINE j == k + 1
  <2> HIDE DEF j
  <2>2. Begin(j) = (j - 1) * W
    BY DEF Begin
  <2>3. j - 1 = k
    BY <1>3 DEF j
  <2>4. Begin(j) = k * W
    BY <2>2, <2>3
  <2>5. QED
    BY <2>1, <2>4 DEF j
<1> HIDE DEF W, L
<1>8. k - 1 \in Nat
  BY <1>3
<1>9. k \in 1..L
  <2>1. \A b \in Nat, w \in Nat \ {0} : b <= b * w /\ b * w \in Nat
    BY SMT
  <2>2. k - 1 <= Begin(k)
    BY <1>2, <1>7, <1>8, <2>1
  <2>3. QED
    BY <1>2, <1>3, <1>6, <1>8, <2>2
<1>10. ASSUME NEW i \in 1..Len(speech) PROVE speech[i].from \notin Begin(k)..Begin(k + 1) - 1
  <2>1. speech[i].from \in Nat /\ speech[i].from < L /\ L > W
    BY <1>1, <1>2, <1>5, Spoke DEF Windowed, L, W
  <2>2. speech[i].from \notin Begin(k)..End(k) - 1
    BY <1>1, <1>5 DEF Spoken
  <2>3. k * W \in Nat
    BY <1>2, <1>3, TimesMonotone
  <2> DEFINE a == speech[i].from
             b == Begin(k)
             e == Begin(k + 1)
             d == End(k)
  <2>4. /\ e \in Nat /\ d = (IF e <= L THEN e ELSE L) /\ a \in Nat /\ a < L /\ b \in Nat
        /\ L \in Nat /\ a \notin b..d - 1
    BY <1>2, <1>6, <1>7, <1>8, <2>1, <2>2, <2>3
  <2> HIDE DEF a, b, d, e
  <2>5. a \notin b..e - 1
    BY <2>4
  <2>6. QED
    BY <2>5 DEF a, b, e
<1>11. QED
  BY <1>6, <1>9, <1>10 DEF L

\* A recording fails only because nothing is said in a whole window, or in what
\* follows the last full one (GeminiTranscriber._parse_segments).
THEOREM FailsInSilence == TranscriptSpec => []FailsOnlyInSilence
  BY SilenceHolds, HeardInit, HeardStep, PTL DEF TranscriptSpec

-----------------------------------------------------------------------------
(* The chunks of a transcript.                                             *)

\* TurnChars of any transcript, and the length of a chunk with its header.
TurnSizes(t) == [s \in 1..Len(t) |-> Min({speech[t[s].said].chars, VoiceChars})]

Space(t, p) == HeaderChars + TotalOf(TurnSizes(t), p)

\* A chunk that is neither too long nor too many turns ...
Fitting(t) ==
  {p \in Seq(1..Len(t)) :
     Len(p) \in 1..VoiceTurns /\ (Len(p) = 1 \/ Space(t, p) <= VoiceChars)}

\* ... and one that the next turn would have made so.
Filled(t) ==
  {w \in Seq(1..Len(t)) \X Seq(1..Len(t)) :
     Len(w[1]) = VoiceTurns \/ Space(t, Append(w[1], Head(w[2]))) > VoiceChars}

UpTo(n) == [s \in 1..n |-> s]

\* c is a cutting of the first n segments of t.
Carries(t, c, n) == FlattenSeq(c) = UpTo(n) /\ Linked(c, Fitting(t), Filled(t))

\* Chunks c, and p of what is still collected.
Collected(c, p) == IF p = <<>> THEN c ELSE Append(c, p)

\* How far the cutting of transcript t is: at segment n, with s characters in p.
CuttingAt(st, t, n, p, s, c) ==
  /\ p \in Seq(1..Len(t)) /\ c \in Seq(Seq(1..Len(t)))
  /\ st \notin {"cutting", "ready"} =>
       p = <<>> /\ c = <<>> /\ n = 1 /\ s = HeaderChars
  /\ st = "cutting" =>
       /\ n \in 1..Len(t) + 1
       /\ Carries(t, Collected(c, p), n - 1)
       /\ s = Space(t, p)
       /\ p = <<>> => c = <<>>
       /\ Len(p) <= VoiceTurns
  /\ st = "ready" => Carries(t, c, Len(t))

PieceInv == CuttingAt(stage, transcript, next, piece, filled, pieces)

\* The invariant of the pieces in the next state, told of that state's values.
LEMMA PieceNext ==
  ASSUME recording' = recording
  PROVE  PieceInv' <=> CuttingAt(stage', transcript', next', piece', filled', pieces')
  BY DEF PieceInv, CuttingAt, Carries, Fitting, Filled, Space, TurnSizes, speech

\* The turns of a transcript have sizes.
LEMMA TurnSizesType ==
  ASSUME recording \in Recordings, NEW t \in Seq(Segments)
  PROVE  /\ Len(t) \in Nat
         /\ TurnSizes(t) \in [1..Len(t) -> Nat]
<1>1. Len(t) \in Nat /\ \A s \in 1..Len(t) : t[s].said \in 1..Len(speech)
  BY SegmentIn
<1>2. \A n \in 1..Len(speech) : speech[n].chars \in Nat
  <2>1. speech \in Seq(Turn)
    BY Spoke
  <2>2. \A n \in 1..Len(speech) : speech[n] \in Turn
    BY <2>1, ElementOfSeq
  <2>3. QED
    BY <2>2 DEF Turn
<1>3. VoiceChars \in Nat
  BY TranscriptAssumption
<1>4. \A s \in 1..Len(t) : Min({speech[t[s].said].chars, VoiceChars}) \in Nat
  <2> SUFFICES ASSUME NEW s \in 1..Len(t)
               PROVE  Min({speech[t[s].said].chars, VoiceChars}) \in Nat
    OBVIOUS
  <2> DEFINE a == speech[t[s].said].chars
  <2>1. a \in Nat
    BY <1>1, <1>2
  <2> HIDE DEF a
  <2>2. Min({a, VoiceChars}) \in Nat
    BY <1>3, <2>1, MinOfTwo
  <2>3. QED
    BY <2>2 DEF a
<1>5. QED
  BY <1>1, <1>4 DEF TurnSizes

\* A chunk grows by the line of the turn that joins it.
LEMMA SpaceAppend ==
  ASSUME recording \in Recordings, NEW t \in Seq(Segments),
         NEW p \in Seq(1..Len(t)), NEW s \in 1..Len(t)
  PROVE  /\ Space(t, <<>>) = HeaderChars
         /\ Space(t, p) \in Nat
         /\ Space(t, Append(p, s)) = Space(t, p) + TurnSizes(t)[s]
         /\ Space(t, <<s>>) = HeaderChars + TurnSizes(t)[s]
<1> DEFINE S == 1..Len(t)
           w == TurnSizes(t)
<1>1. w \in [S -> Nat] /\ HeaderChars \in Nat
  BY TurnSizesType, TranscriptAssumption
<1>2. \A q : Space(t, q) = HeaderChars + TotalOf(w, q)
  BY DEF Space
<1>3. p \in Seq(S) /\ s \in S
  OBVIOUS
<1> HIDE DEF S, w
<1>4. /\ TotalOf(w, <<>>) = 0
      /\ TotalOf(w, p) \in Nat
      /\ TotalOf(w, Append(p, s)) = TotalOf(w, p) + w[s]
      /\ TotalOf(w, <<s>>) = w[s]
      /\ w[s] \in Nat
  BY <1>1, <1>3, TotalOfAppend
<1> DEFINE a == TotalOf(w, p)
           b == w[s]
<1>5. /\ Space(t, <<>>) = HeaderChars + 0
      /\ Space(t, p) = HeaderChars + a
      /\ Space(t, Append(p, s)) = HeaderChars + (a + b)
      /\ Space(t, <<s>>) = HeaderChars + b
      /\ a \in Nat /\ b \in Nat
  BY <1>2, <1>4
<1> HIDE DEF a, b
<1>6. QED
  BY <1>1, <1>5 DEF b, w

\* One more number ends the list of the numbers up to it.
LEMMA UpToNext ==
  ASSUME NEW n \in Nat \ {0}
  PROVE  UpTo(0) = <<>> /\ UpTo(n) = Append(UpTo(n - 1), n)
<1> DEFINE a == UpTo(n - 1)
           b == UpTo(n)
           c == Append(a, n)
<1>1. a \in Seq(Nat) /\ Len(a) = n - 1 /\ \A s \in 1..n - 1 : a[s] = s
  BY DEF UpTo
<1>2. b \in Seq(Nat) /\ Len(b) = n /\ \A s \in 1..n : b[s] = s
  BY DEF UpTo
<1> HIDE DEF a, b
<1>3. c \in Seq(Nat) /\ Len(c) = n /\ c[n] = n /\ \A s \in 1..n - 1 : c[s] = s
  BY <1>1, AppendProperties
<1> HIDE DEF c
<1>4. \A s \in 1..n : b[s] = c[s]
  BY <1>2, <1>3
<1>5. b = c
  BY <1>2, <1>3, <1>4, SeqEqual
<1>6. UpTo(0) = <<>>
  BY DEF UpTo
<1>7. QED
  BY <1>5, <1>6 DEF a, b, c

\* A turn that fits joins the chunk that is being collected ...
LEMMA TurnJoins ==
  ASSUME recording \in Recordings, NEW t \in Seq(Segments),
         NEW c \in Seq(Seq(1..Len(t))), NEW p \in Seq(1..Len(t)), NEW n \in 1..Len(t),
         Carries(t, Collected(c, p), n - 1), p = <<>> => c = <<>>,
         p # <<>> => Space(t, p) + TurnSizes(t)[n] <= VoiceChars /\ Len(p) < VoiceTurns
  PROVE  /\ Append(p, n) \in Seq(1..Len(t)) /\ Append(p, n) # <<>>
         /\ Len(Append(p, n)) <= VoiceTurns
         /\ Carries(t, Append(c, Append(p, n)), n)
         /\ Space(t, Append(p, n)) = Space(t, p) + TurnSizes(t)[n]
<1> DEFINE S == 1..Len(t)
           y == Append(p, n)
           F == Fitting(t)
           R == Filled(t)
<1>0. VoiceTurns \in Nat \ {0} /\ n \in Nat \ {0}
  BY TurnSizesType, TranscriptAssumption
<1>1. /\ y \in Seq(S) /\ Len(y) = Len(p) + 1 /\ Len(p) \in Nat /\ y # <<>>
      /\ p # <<>> => Len(p) # 0 /\ Head(y) = Head(p)
      /\ p = <<>> => Len(y) = 1
  <2>1. /\ y \in Seq(S) /\ Len(y) = Len(p) + 1 /\ Len(p) \in Nat
        /\ \A i \in 1..Len(p) : y[i] = p[i]
    BY AppendProperties
  <2>2. p = <<>> <=> Len(p) = 0
    BY EmptySeq
  <2>3. p # <<>> => 1 \in 1..Len(p)
    BY <2>1, <2>2
  <2> HIDE DEF y
  <2>4. y # <<>>
    BY <2>1, EmptySeq
  <2>5. QED
    BY <2>1, <2>2, <2>3, <2>4
<1>2. Space(t, y) = Space(t, p) + TurnSizes(t)[n]
  BY SpaceAppend
<1>3. FlattenSeq(Append(c, y)) = UpTo(n)
  <2>1. FlattenSeq(Append(c, y)) = Append(FlattenSeq(Collected(c, p)), n)
    <3>1. c \in Seq(Seq(S)) /\ p \in Seq(S) /\ n \in S
      OBVIOUS
    <3> HIDE DEF S
    <3>2. /\ FlattenSeq(Append(c, Append(p, n))) = Append(FlattenSeq(c) \o p, n)
          /\ FlattenSeq(Append(c, p)) = FlattenSeq(c) \o p
          /\ FlattenSeq(c) \o <<>> = FlattenSeq(c)
      <4> DEFINE f == FlattenSeq(c)
      <4>1. f \in Seq(S) /\ FlattenSeq(Append(c, p)) = f \o p
        BY <3>1, FlattenAppend
      <4>2. FlattenSeq(Append(c, y)) = f \o y
        <5> HIDE DEF y
        <5> QED
          BY <1>1, <3>1, FlattenAppend DEF S
      <4> HIDE DEF f
      <4>3. \A a, b \in Seq(S), q \in S : a \o Append(b, q) = Append(a \o b, q)
        BY ONLY AppendToConcat
      <4>4. f \o <<>> = f
        BY <4>1, ConcatEmptySeq
      <4>5. f \o y = Append(f \o p, n)
        BY <3>1, <4>1, <4>3
      <4>6. QED
        BY <4>1, <4>2, <4>4, <4>5 DEF f
    <3>3. CASE p = <<>>
      BY <3>2, <3>3 DEF Collected
    <3>4. CASE p # <<>>
      BY <3>2, <3>4 DEF Collected
    <3>5. QED
      BY <3>3, <3>4
  <2>2. QED
    BY <1>0, <2>1, UpToNext DEF Carries
<1>4. Len(y) <= VoiceTurns /\ Len(y) \in 1..VoiceTurns /\ y \in F
  <2>1. Len(y) <= VoiceTurns /\ Len(y) \in 1..VoiceTurns
    <3> HIDE DEF y
    <3> QED
      BY <1>0, <1>1
  <2>2. Len(y) = 1 \/ Space(t, y) <= VoiceChars
    BY <1>1, <1>2
  <2> HIDE DEF y
  <2>3. QED
    BY <1>1, <2>1, <2>2 DEF Fitting
<1>5. Linked(c, F, R) /\ (c # <<>> => <<c[Len(c)], y>> \in R)
  <2>1. CASE p = <<>>
    BY <2>1 DEF Carries, Collected
  <2>2. CASE p # <<>>
    <3>1. Linked(Append(c, p), F, R)
      BY <2>2 DEF Carries, Collected
    <3>2. Linked(c, F, R) /\ (c # <<>> => <<c[Len(c)], p>> \in R)
      <4>1. c \in Seq(Seq(S)) /\ p \in Seq(S)
        OBVIOUS
      <4> HIDE DEF S, F, R
      <4>2. QED
        BY <3>1, <4>1, LinkedAppend
    <3>3. ASSUME <<c[Len(c)], p>> \in R PROVE <<c[Len(c)], y>> \in R
      <4> DEFINE z == c[Len(c)]
      <4> HIDE DEF z, y
      <4>1. <<z, p>> \in R
        BY <3>3 DEF z
      <4>2. /\ z \in Seq(S)
            /\ Len(z) = VoiceTurns \/ Space(t, Append(z, Head(p))) > VoiceChars
        BY <4>1 DEF Filled
      <4>3. <<z, y>> \in R
        BY <1>1, <2>2, <4>2 DEF Filled
      <4>4. QED
        BY <4>3 DEF z
    <3>4. QED
      BY <3>2, <3>3
  <2>3. QED
    BY <2>1, <2>2
<1>6. Linked(Append(c, y), F, R)
  <2>1. c \in Seq(Seq(S)) /\ y \in Seq(S)
    BY <1>1
  <2> HIDE DEF S, F, R, y
  <2>2. QED
    BY <1>4, <1>5, <2>1, LinkedAppend
<1>7. QED
  BY <1>1, <1>2, <1>3, <1>4, <1>6 DEF Carries

\* ... and one that does not begins a new one.
LEMMA TurnBegins ==
  ASSUME recording \in Recordings, NEW t \in Seq(Segments),
         NEW c \in Seq(Seq(1..Len(t))), NEW p \in Seq(1..Len(t)), NEW n \in 1..Len(t),
         Carries(t, Append(c, p), n - 1), Len(p) <= VoiceTurns,
         Space(t, p) + TurnSizes(t)[n] > VoiceChars \/ Len(p) >= VoiceTurns
  PROVE  Carries(t, Append(Append(c, p), <<n>>), n)
<1> DEFINE S == 1..Len(t)
           d == Append(c, p)
           y == <<n>>
           F == Fitting(t)
           R == Filled(t)
<1>0. VoiceTurns \in Nat \ {0} /\ n \in Nat \ {0} /\ Len(p) \in Nat
  BY TurnSizesType, TranscriptAssumption, LenProperties
<1>1. y \in Seq(S) /\ Len(y) = 1 /\ Head(y) = n
  OBVIOUS
<1>2. Space(t, Append(p, n)) = Space(t, p) + TurnSizes(t)[n]
  BY SpaceAppend
<1>3. d \in Seq(Seq(S)) /\ d # <<>> /\ d[Len(d)] = p
  <2>1. c \in Seq(Seq(S)) /\ p \in Seq(S)
    OBVIOUS
  <2> HIDE DEF S
  <2>2. /\ d \in Seq(Seq(S)) /\ d # <<>> /\ Len(d) = Len(c) + 1 /\ d[Len(c) + 1] = p
        /\ Len(c) \in Nat
    BY ONLY <2>1, AppendProperties, LenProperties, SMTT(20)
  <2>3. QED
    BY <2>2
<1>4. FlattenSeq(Append(d, y)) = UpTo(n)
  <2>1. FlattenSeq(Append(d, y)) = Append(FlattenSeq(d), n)
    <3>1. d \in Seq(Seq(S)) /\ n \in S
      BY <1>3
    <3> HIDE DEF S, d
    <3>2. QED
      BY <3>1, FlattenBegins
  <2>2. QED
    BY <1>0, <2>1, UpToNext DEF Carries
<1>5. y \in F
  <2>1. Len(y) \in 1..VoiceTurns /\ Len(y) = 1
    BY <1>0, <1>1
  <2> HIDE DEF y
  <2>2. QED
    BY <1>1, <2>1 DEF Fitting
<1>6. <<p, y>> \in R
  <2>1. Len(p) = VoiceTurns \/ Space(t, Append(p, Head(y))) > VoiceChars
    BY <1>0, <1>1, <1>2
  <2> HIDE DEF y
  <2>2. QED
    BY <1>1, <2>1 DEF Filled
<1>7. Linked(Append(d, y), F, R)
  <2>1. Linked(d, F, R)
    BY DEF Carries
  <2> HIDE DEF S, F, R, y, d
  <2>2. QED
    BY <1>1, <1>3, <1>5, <1>6, <2>1, LinkedAppend
<1>8. QED
  BY <1>4, <1>7 DEF Carries

\* A transcription starts with no piece cut.
LEMMA PieceInit == TranscriptInit => PieceInv
<1> SUFFICES ASSUME TranscriptInit PROVE PieceInv
  OBVIOUS
<1>1. /\ stage = "hearing" /\ piece = <<>> /\ pieces = <<>> /\ next = 1
      /\ filled = HeaderChars
  BY DEF TranscriptInit, NothingHeard
<1>2. <<>> \in Seq(1..Len(transcript)) /\ <<>> \in Seq(Seq(1..Len(transcript)))
  BY EmptySeq
<1>3. QED
  BY <1>1, <1>2 DEF PieceInv, CuttingAt

\* A turn goes to the open piece, or closes it and begins the next one.
LEMMA TurnStep == HeardInv /\ PieceInv /\ AddTurn => PieceInv'
<1> SUFFICES ASSUME HeardInv, PieceInv, AddTurn PROVE PieceInv'
  OBVIOUS
<1> DEFINE t == transcript
           S == 1..Len(t)
           w == TurnSizes(t)[next]
<1>1. /\ recording \in Recordings /\ t \in Seq(Segments) /\ Len(t) \in Nat
      /\ VoiceTurns \in Nat
  BY TurnSizesType, TranscriptAssumption DEF HeardInv, Hears
<1>2. /\ stage = "cutting" /\ stage' = stage /\ transcript' = t /\ recording' = recording
      /\ next <= Len(t) /\ next' = next + 1
  BY DEF AddTurn
<1>3. /\ piece \in Seq(S) /\ pieces \in Seq(Seq(S))
      /\ next \in 1..Len(t) + 1
      /\ Carries(t, Collected(pieces, piece), next - 1)
      /\ filled = Space(t, piece)
      /\ piece = <<>> => pieces = <<>>
      /\ Len(piece) <= VoiceTurns
  BY <1>2 DEF PieceInv, CuttingAt
<1>4. next \in S /\ next' \in 1..Len(t) + 1 /\ next' - 1 = next
  BY <1>1, <1>2, <1>3
<1>5. TurnChars(next) = w
  BY <1>4 DEF TurnSizes, TurnChars
<1>6. /\ Len(piece) \in Nat /\ Space(t, piece) + w \in Nat
  <2>1. Space(t, piece) \in Nat /\ TurnSizes(t) \in [1..Len(t) -> Nat]
    BY <1>1, <1>3, <1>4, SpaceAppend, TurnSizesType
  <2>2. w \in Nat
    BY <1>4, <2>1
  <2>3. QED
    BY <1>3, <2>1, <2>2, LenProperties
<1> DEFINE full == filled + TurnChars(next) > VoiceChars \/ Len(piece) >= VoiceTurns
<1> HIDE DEF t
<1>7. CASE piece # <<>> /\ full
  <2>1. pieces' = Append(pieces, piece) /\ piece' = <<next>> /\ filled' = HeaderChars + w
    BY <1>5, <1>7 DEF AddTurn
  <2>2. Carries(t, Append(Append(pieces, piece), <<next>>), next)
    <3>1. Carries(t, Append(pieces, piece), next - 1)
      BY <1>3, <1>7 DEF Collected
    <3>2. Space(t, piece) + w > VoiceChars \/ Len(piece) >= VoiceTurns
      BY <1>3, <1>5, <1>7
    <3>3. QED
      BY <1>1, <1>3, <1>4, <3>1, <3>2, TurnBegins
  <2>3. filled' = Space(t, <<next>>)
    BY <1>1, <1>3, <1>4, <2>1, SpaceAppend
  <2>4. /\ <<next>> \in Seq(S) /\ <<next>> # <<>> /\ Len(<<next>>) = 1
        /\ Append(pieces, piece) \in Seq(Seq(S))
    <3>1. Append(pieces, piece) \in Seq(Seq(S))
      <4> HIDE DEF S
      <4> QED
        BY <1>3, AppendProperties
    <3>2. QED
      BY <1>4, <3>1
  <2>5. VoiceTurns >= 1
    BY TranscriptAssumption
  <2>6. CuttingAt(stage', transcript', next', piece', filled', pieces')
    <3>1. Collected(pieces', piece') = Append(Append(pieces, piece), <<next>>)
      BY <2>1, <2>4 DEF Collected
    <3>2. QED
      BY <1>2, <1>4, <2>1, <2>2, <2>3, <2>4, <2>5, <3>1 DEF CuttingAt
  <2>7. QED
    BY <1>2, <2>6, PieceNext
<1>8. CASE ~ (piece # <<>> /\ full)
  <2>1. /\ piece' = Append(piece, next) /\ pieces' = pieces
        /\ filled' = Space(t, piece) + w
    BY <1>3, <1>5, <1>8 DEF AddTurn
  <2>2. piece # <<>> => Space(t, piece) + w <= VoiceChars /\ Len(piece) < VoiceTurns
    <3>1. VoiceChars \in Nat
      BY TranscriptAssumption
    <3> DEFINE a == Space(t, piece) + w
    <3>2. piece # <<>> => ~ (a > VoiceChars) /\ ~ (Len(piece) >= VoiceTurns)
      BY <1>3, <1>5, <1>8
    <3>3. a \in Nat
      BY <1>6
    <3> HIDE DEF a
    <3>4. piece # <<>> => a <= VoiceChars /\ Len(piece) < VoiceTurns
      BY <1>1, <1>6, <3>1, <3>2, <3>3
    <3>5. QED
      BY <3>4 DEF a
  <2>3. /\ Append(piece, next) \in Seq(S) /\ Append(piece, next) # <<>>
        /\ Len(Append(piece, next)) <= VoiceTurns
        /\ Carries(t, Append(pieces, Append(piece, next)), next)
        /\ Space(t, Append(piece, next)) = Space(t, piece) + w
    BY <1>1, <1>3, <1>4, <2>2, TurnJoins
  <2>4. CuttingAt(stage', transcript', next', piece', filled', pieces')
    <3>1. Collected(pieces', piece') = Append(pieces, Append(piece, next))
      BY <2>1, <2>3 DEF Collected
    <3>2. QED
      BY <1>2, <1>3, <1>4, <2>1, <2>3, <3>1 DEF CuttingAt
  <2>5. QED
    BY <1>2, <2>4, PieceNext
<1>9. QED
  BY <1>7, <1>8

\* Every step keeps each turn in one piece.
LEMMA PieceStep == HeardInv /\ PieceInv /\ [TranscriptNext]_voiceVars => PieceInv'
<1> SUFFICES ASSUME HeardInv, PieceInv, [TranscriptNext]_voiceVars PROVE PieceInv'
  OBVIOUS
<1>0. CuttingAt(stage, transcript, next, piece, filled, pieces)
  BY DEF PieceInv
<1>1. ASSUME stage = "hearing", stage' \notin {"cutting", "ready"}, recording' = recording,
             UNCHANGED <<next, piece, filled, pieces>>
      PROVE  PieceInv'
  <2>1. piece' = <<>> /\ pieces' = <<>> /\ next' = 1 /\ filled' = HeaderChars
    BY <1>0, <1>1 DEF CuttingAt
  <2>2. <<>> \in Seq(1..Len(transcript')) /\ <<>> \in Seq(Seq(1..Len(transcript')))
    BY EmptySeq
  <2>3. CuttingAt(stage', transcript', next', piece', filled', pieces')
    BY <1>1, <2>1, <2>2 DEF CuttingAt
  <2>4. QED
    BY <1>1, <2>3, PieceNext
<1>2. CASE HearWindow
  BY <1>1, <1>2 DEF HearWindow
<1>3. CASE HearNothing
  BY <1>1, <1>3 DEF HearNothing
<1>4. CASE Refuse
  BY <1>1, <1>4 DEF Refuse
<1>5. CASE Merge
  <2>1. /\ stage = "hearing" /\ stage' = "cutting" /\ recording' = recording
        /\ UNCHANGED <<next, piece, filled, pieces>>
    BY <1>5 DEF Merge
  <2>2. piece' = <<>> /\ pieces' = <<>> /\ next' = 1 /\ filled' = HeaderChars
    BY <1>0, <2>1 DEF CuttingAt
  <2>3. transcript' \in Seq(Segments) /\ recording \in Recordings
    <3>1. HeardInv'
      BY <1>5, MergeStep
    <3>2. QED
      BY <2>1, <3>1, HeardNext DEF Hears
  <2> DEFINE t == transcript'
  <2>4. Len(t) \in Nat /\ 1 \in 1..Len(t) + 1
    <3>1. Len(t) \in Nat
      BY <2>3, SegmentIn
    <3> HIDE DEF t
    <3>2. QED
      BY <3>1
  <2>5. /\ <<>> \in Seq(1..Len(t)) /\ <<>> \in Seq(Seq(1..Len(t)))
    BY EmptySeq
  <2>6. Space(t, <<>>) = HeaderChars
    <3>1. TotalOf(TurnSizes(t), <<>>) = 0
      <4>1. [i \in 1..Len(<<>>) |-> TurnSizes(t)[<<>>[i]]] = <<>>
        BY EmptySeq
      <4>2. QED
        BY <4>1, TotalEmpty DEF TotalOf
    <3>2. HeaderChars + 0 = HeaderChars
      BY TranscriptAssumption
    <3>3. QED
      BY <3>1, <3>2 DEF Space
  <2>7. Carries(t, <<>>, 1 - 1)
    <3>1. FlattenSeq(<<>>) = UpTo(0)
      BY FlattenEmpty, UpToNext
    <3>2. Linked(<<>>, Fitting(t), Filled(t))
      BY EmptySeq DEF Linked
    <3>3. 1 - 1 = 0
      OBVIOUS
    <3>4. QED
      BY <3>1, <3>2, <3>3 DEF Carries
  <2>8. Len(<<>>) <= VoiceTurns
    BY EmptySeq, TranscriptAssumption
  <2> HIDE DEF t
  <2>9. CuttingAt("cutting", t, 1, <<>>, HeaderChars, <<>>)
    BY <2>4, <2>5, <2>6, <2>7, <2>8 DEF CuttingAt, Collected
  <2>10. QED
    BY <2>1, <2>2, <2>9, PieceNext DEF t
<1>6. CASE AddTurn
  BY <1>6, TurnStep
<1>7. CASE EndPieces
  <2>1. /\ stage = "cutting" /\ stage' = "ready" /\ recording' = recording
        /\ transcript' = transcript /\ next > Len(transcript)
        /\ pieces' = Collected(pieces, piece) /\ piece' = <<>>
    BY <1>7 DEF EndPieces, Collected
  <2>2. /\ piece \in Seq(1..Len(transcript)) /\ pieces \in Seq(Seq(1..Len(transcript)))
        /\ next \in 1..Len(transcript) + 1
        /\ Carries(transcript, Collected(pieces, piece), next - 1)
    BY <1>0, <2>1 DEF CuttingAt
  <2>3. next - 1 = Len(transcript)
    <3>1. Len(transcript) \in Nat
      BY SegmentIn DEF HeardInv, Hears
    <3>2. QED
      BY <2>1, <2>2, <3>1
  <2>4. Collected(pieces, piece) \in Seq(Seq(1..Len(transcript)))
    <3> DEFINE S == 1..Len(transcript)
    <3> HIDE DEF S
    <3>1. Append(pieces, piece) \in Seq(Seq(S))
      BY <2>2, AppendProperties DEF S
    <3>2. QED
      BY <2>2, <3>1 DEF Collected, S
  <2>5. <<>> \in Seq(1..Len(transcript))
    BY EmptySeq
  <2>6. CuttingAt(stage', transcript', next', piece', filled', pieces')
    BY <2>1, <2>2, <2>3, <2>4, <2>5 DEF CuttingAt
  <2>7. QED
    BY <2>1, <2>6, PieceNext
<1>8. CASE UNCHANGED voiceVars
  <2>1. UNCHANGED <<recording, stage, transcript, next, piece, filled, pieces>>
    BY <1>8 DEF voiceVars
  <2>2. QED
    BY <1>0, <2>1, PieceNext
<1>9. QED
  BY <1>2, <1>3, <1>4, <1>5, <1>6, <1>7, <1>8 DEF TranscriptNext

\* What the invariants say of the finished chunks.
LEMMA PiecesHold == HeardInv /\ PieceInv => PiecesCarryTheTranscript
<1> SUFFICES ASSUME HeardInv, PieceInv, stage = "ready"
             PROVE  PiecesCarryTheTranscript
  BY DEF PiecesCarryTheTranscript
<1> DEFINE t == transcript
           S == 1..Len(t)
           chars(q) == HeaderChars + Total([i \in 1..Len(q) |-> TurnChars(q[i])])
<1>1. /\ pieces \in Seq(Seq(S)) /\ FlattenSeq(pieces) = UpTo(Len(t))
      /\ Linked(pieces, Fitting(t), Filled(t))
  BY DEF PieceInv, CuttingAt, Carries
<1>2. ASSUME NEW q \in Seq(S) PROVE chars(q) = Space(t, q)
  <2>1. \A i \in 1..Len(q) : q[i] \in S
    BY ElementOfSeq
  <2>2. \A i \in 1..Len(q) : TurnChars(q[i]) = TurnSizes(t)[q[i]]
    BY <2>1 DEF TurnChars, TurnSizes
  <2>3. [i \in 1..Len(q) |-> TurnChars(q[i])] = [i \in 1..Len(q) |-> TurnSizes(t)[q[i]]]
    BY <2>2
  <2>4. QED
    BY <2>3 DEF Space, TotalOf
<1> HIDE DEF chars
<1>3. ASSUME NEW p \in 1..Len(pieces)
      PROVE  /\ Len(pieces[p]) \in 1..VoiceTurns
             /\ Len(pieces[p]) = 1 \/ chars(pieces[p]) <= VoiceChars
             /\ p < Len(pieces) =>
                  \/ Len(pieces[p]) = VoiceTurns
                  \/ chars(Append(pieces[p], Head(pieces[p + 1]))) > VoiceChars
  <2> DEFINE q == pieces[p]
             u == pieces[p + 1]
  <2>1. q \in Fitting(t) /\ (p < Len(pieces) => <<q, u>> \in Filled(t))
    BY <1>1 DEF Linked
  <2>2. /\ q \in Seq(S) /\ Len(q) \in 1..VoiceTurns
        /\ Len(q) = 1 \/ Space(t, q) <= VoiceChars
    BY <2>1 DEF Fitting
  <2>3. chars(q) = Space(t, q)
    BY <1>2, <2>2
  <2>4. ASSUME p < Len(pieces)
        PROVE  Len(q) = VoiceTurns \/ chars(Append(q, Head(u))) > VoiceChars
    <3>1. Len(q) = VoiceTurns \/ Space(t, Append(q, Head(u))) > VoiceChars
      BY <2>1, <2>4 DEF Filled
    <3>2. u \in Fitting(t)
      <4>1. Len(pieces) \in Nat
        BY <1>1, LenProperties
      <4>2. p + 1 \in 1..Len(pieces)
        BY <2>4, <4>1
      <4>3. QED
        BY <1>1, <4>2 DEF Linked
    <3>3. u \in Seq(S) /\ 1 \in 1..Len(u)
      BY <3>2 DEF Fitting
    <3> DEFINE h == Head(u)
    <3>4. h \in S
      BY <3>3, ElementOfSeq
    <3>5. Append(q, h) \in Seq(S)
      <4> HIDE DEF q, S, h
      <4> QED
        BY <2>2, <3>4, AppendProperties
    <3>6. QED
      BY <1>2, <3>1, <3>5
  <2>5. QED
    BY <2>2, <2>3, <2>4
<1>4. QED
  BY <1>1, <1>3 DEF PiecesCarryTheTranscript, UpTo, chars

\* The chunks of a finished transcription hold its segments once and in order, and
\* each is as large as the two limits let it be (build_voice_chunks).
THEOREM PiecesCarryAll == TranscriptSpec => []PiecesCarryTheTranscript
  BY PiecesHold, HeardInit, HeardStep, PieceInit, PieceStep, PTL DEF TranscriptSpec

-----------------------------------------------------------------------------
(* The files of an export.                                                 *)

FileLine == [of : Nat, number : Nat]

\* A line is the last of its message; two lines follow each other in a file.
Ends(l) == l.number = history[l.of].more + 1

Follows(l, k) ==
  IF StartsMessage(k) THEN Ends(l) ELSE k.of = l.of /\ k.number = l.number + 1

OfHistory(l) == l.of \in 1..Len(history) /\ l.number \in 1..history[l.of].more + 1

\* Lines b and below are whole messages.
WholeFrom(f, b) ==
  /\ f \in Seq(FileLine)
  /\ b <= Len(f)
  /\ StartsMessage(f[b])
  /\ Ends(f[Len(f)])
  /\ \A p \in b..Len(f) : OfHistory(f[p])
  /\ \A p \in b..Len(f) - 1 : Follows(f[p], f[p + 1])

Neat(f) == f[1] = Preamble /\ WholeFrom(f, 2)

\* Whole messages after whole messages are whole messages.
LEMMA WholeJoin ==
  ASSUME NEW f, NEW g, WholeFrom(f, 1), WholeFrom(g, 1)
  PROVE  WholeFrom(f \o g, 1)
<1> DEFINE m == Len(f)
           n == Len(g)
           h == f \o g
<1>1. m \in Nat /\ n \in Nat /\ m >= 1 /\ n >= 1 /\ f \in Seq(FileLine) /\ g \in Seq(FileLine)
  BY LenProperties DEF WholeFrom
<1>2. /\ h \in Seq(FileLine)
      /\ Len(h) = m + n
      /\ \A i \in 1..m + n : h[i] = IF i <= m THEN f[i] ELSE g[i - m]
  BY <1>1, ConcatProperties
<1>3. /\ StartsMessage(f[1]) /\ Ends(f[m])
      /\ \A p \in 1..m : OfHistory(f[p])
      /\ \A p \in 1..m - 1 : Follows(f[p], f[p + 1])
  BY DEF WholeFrom
<1>4. /\ StartsMessage(g[1]) /\ Ends(g[n])
      /\ \A p \in 1..n : OfHistory(g[p])
      /\ \A p \in 1..n - 1 : Follows(g[p], g[p + 1])
  BY DEF WholeFrom
<1> HIDE DEF m, n, h
<1>9. /\ \A i \in 1..m : h[i] = f[i]
      /\ \A q \in 1..n : h[m + q] = g[q]
  <2>1. \A i \in 1..m : i \in 1..m + n /\ i <= m
    BY <1>1
  <2>2. ASSUME NEW q \in 1..n PROVE h[m + q] = g[q]
    <3>1. m + q \in 1..m + n /\ (m + q) - m = q /\ ~ (m + q <= m)
      BY <1>1
    <3>2. QED
      BY <1>2, <3>1
  <2>3. QED
    BY <1>2, <2>1, <2>2
<1>5. StartsMessage(h[1]) /\ Ends(h[m + n])
  <2>1. h[1] = f[1] /\ h[m + n] = g[n]
    BY <1>1, <1>2
  <2>2. QED
    BY <1>3, <1>4, <2>1
<1>6. ASSUME NEW p \in 1..m + n PROVE OfHistory(h[p])
  <2>1. CASE p <= m
    BY <1>1, <1>2, <1>3, <2>1
  <2>2. CASE p > m
    <3>1. p - m \in 1..n /\ h[p] = g[p - m]
      BY <1>1, <1>2, <2>2
    <3>2. QED
      BY <1>4, <3>1
  <2>3. QED
    BY <1>1, <2>1, <2>2
<1>7. ASSUME NEW p \in 1..m + n - 1 PROVE Follows(h[p], h[p + 1])
  <2>1. CASE p < m
    <3>1. p \in 1..m - 1 /\ h[p] = f[p] /\ h[p + 1] = f[p + 1]
      BY <1>1, <1>2, <2>1
    <3>2. QED
      BY <1>3, <3>1
  <2>2. CASE p = m
    <3>1. h[p] = f[m] /\ h[p + 1] = g[1]
      <4>1. m \in 1..m /\ 1 \in 1..n
        BY <1>1
      <4>2. h[m] = f[m] /\ h[m + 1] = g[1]
        BY <1>9, <4>1
      <4>3. QED
        BY <2>2, <4>2
    <3>2. QED
      BY <1>3, <1>4, <3>1 DEF Follows
  <2>3. CASE p > m
    <3> DEFINE q == p - m
    <3>1. q \in 1..n - 1 /\ q \in 1..n /\ q + 1 \in 1..n /\ p = m + q /\ p + 1 = m + (q + 1)
      BY <1>1, <2>3
    <3> HIDE DEF q
    <3>2. h[p] = g[q] /\ h[p + 1] = g[q + 1]
      BY <1>9, <3>1
    <3>3. QED
      BY <1>4, <3>1, <3>2
  <2>4. QED
    BY <1>1, <2>1, <2>2, <2>3
<1>8. QED
  BY <1>1, <1>2, <1>5, <1>6, <1>7 DEF WholeFrom, h

\* The lines of one message.
LEMMA WholeMessage ==
  ASSUME history \in Seq(Entry), NEW m \in 1..Len(history)
  PROVE  WholeFrom(LinesOf(m), 1)
<1> DEFINE k == history[m].more
           f == LinesOf(m)
<1>1. m \in Nat /\ k \in Nat
  <2>1. history[m] \in Entry
    BY ElementOfSeq
  <2>2. QED
    BY <2>1, LenProperties DEF Entry
<1>2. f = [n \in 1..k + 1 |-> [of |-> m, number |-> n]]
  BY DEF LinesOf
<1>0. \A n \in 1..k + 1 : [of |-> m, number |-> n] \in FileLine
  BY <1>1 DEF FileLine
<1>3. f \in Seq(FileLine) /\ Len(f) = k + 1
  <2> HIDE DEF f, k
  <2> QED
    BY <1>0, <1>1, <1>2
<1> HIDE DEF f
<1>4. \A n \in 1..k + 1 : f[n].of = m /\ f[n].number = n
  BY <1>2
<1>5. \A n \in 1..k + 1 : OfHistory(f[n])
  BY <1>4 DEF OfHistory
<1>6. StartsMessage(f[1]) /\ Ends(f[k + 1])
  BY <1>1, <1>4 DEF StartsMessage, Ends
<1>7. \A n \in 1..k : Follows(f[n], f[n + 1])
  BY <1>1, <1>4 DEF Follows, StartsMessage
<1>8. 1 <= Len(f) /\ Len(f) - 1 = k
  BY <1>1, <1>3
<1>9. WholeFrom(f, 1)
  BY <1>3, <1>5, <1>6, <1>7, <1>8 DEF WholeFrom
<1>10. QED
  BY <1>9 DEF f

\* An uploaded file is the notice and whole messages.
LEMMA NeatFile ==
  ASSUME history \in Seq(Entry), NEW from \in 1..Len(history), NEW to \in 1..Len(history),
         from <= to
  PROVE  Neat(<<Preamble>> \o FlattenSeq([i \in 1..to + 1 - from |-> LinesOf(from + i - 1)]))
<1> DEFINE first(n) == [i \in 1..n |-> LinesOf(from + i - 1)]
           T        == {n \in Nat : from + n <= Len(history) => WholeFrom(FlattenSeq(first(n + 1)), 1)}
<1>1. from \in Nat /\ to \in Nat /\ Len(history) \in Nat /\ from >= 1
  BY LenProperties
<1>2. \A m \in 1..Len(history) : LinesOf(m) \in Seq(FileLine) /\ WholeFrom(LinesOf(m), 1)
  BY WholeMessage DEF WholeFrom
<1>3. ASSUME NEW n \in Nat, from + n <= Len(history)
      PROVE  /\ first(n) \in Seq(Seq(FileLine))
             /\ first(n + 1) = Append(first(n), LinesOf(from + n))
             /\ LinesOf(from + n) \in Seq(FileLine)
             /\ WholeFrom(LinesOf(from + n), 1)
  <2> DEFINE a == first(n)
             b == first(n + 1)
             x == LinesOf(from + n)
  <2>1. \A i \in 1..n + 1 : from + i - 1 \in 1..Len(history)
    BY <1>1, <1>3
  <2>2. a \in Seq(Seq(FileLine)) /\ Len(a) = n /\ \A i \in 1..n : a[i] = LinesOf(from + i - 1)
    <3>1. \A i \in 1..n : LinesOf(from + i - 1) \in Seq(FileLine)
      BY <1>2, <2>1
    <3>2. QED
      BY <3>1
  <2>3. /\ b \in Seq(Seq(FileLine)) /\ Len(b) = n + 1
        /\ \A i \in 1..n + 1 : b[i] = LinesOf(from + i - 1)
    <3>1. \A i \in 1..n + 1 : LinesOf(from + i - 1) \in Seq(FileLine)
      BY <1>2, <2>1
    <3>2. QED
      BY <3>1
  <2>4. from + n \in 1..Len(history) /\ from + (n + 1) - 1 = from + n
    BY <1>1, <1>3
  <2>5. x \in Seq(FileLine) /\ WholeFrom(x, 1)
    BY <1>2, <2>4
  <2>6. b[n + 1] = x
    BY <2>3, <2>4
  <2> HIDE DEF a, b, x
  <2>7. /\ Append(a, x) \in Seq(Seq(FileLine)) /\ Len(Append(a, x)) = n + 1
        /\ Append(a, x)[n + 1] = x
        /\ \A i \in 1..n : Append(a, x)[i] = a[i]
    BY <2>2, <2>5, AppendProperties
  <2>8. \A i \in 1..n + 1 : b[i] = Append(a, x)[i]
    <3>1. \A i \in 1..n + 1 : i = n + 1 \/ i \in 1..n
      OBVIOUS
    <3>2. QED
      BY <2>2, <2>3, <2>6, <2>7, <3>1
  <2>9. b = Append(a, x)
    BY <2>3, <2>7, <2>8, SeqEqual
  <2>10. QED
    BY <2>2, <2>5, <2>9 DEF a, b, x
<1> HIDE DEF first
<1>4. ASSUME NEW n \in Nat, from + n <= Len(history)
      PROVE  /\ FlattenSeq(first(n)) \in Seq(FileLine)
             /\ FlattenSeq(first(n + 1)) = FlattenSeq(first(n)) \o LinesOf(from + n)
  <2> DEFINE a == first(n)
             x == LinesOf(from + n)
  <2>1. a \in Seq(Seq(FileLine)) /\ x \in Seq(FileLine) /\ first(n + 1) = Append(a, x)
    BY <1>3, <1>4
  <2> HIDE DEF a, x
  <2>2. FlattenSeq(a) \in Seq(FileLine) /\ FlattenSeq(Append(a, x)) = FlattenSeq(a) \o x
    BY <2>1, FlattenAppend
  <2>3. QED
    BY <2>1, <2>2 DEF a, x
<1>5. 0 \in T
  <2> SUFFICES ASSUME from + 0 <= Len(history) PROVE WholeFrom(FlattenSeq(first(1)), 1)
    OBVIOUS
  <2>1. first(0) = <<>>
    BY DEF first
  <2>2. FlattenSeq(first(0)) = <<>>
    BY <2>1, FlattenEmpty
  <2>3. /\ FlattenSeq(first(0 + 1)) = FlattenSeq(first(0)) \o LinesOf(from + 0)
        /\ LinesOf(from + 0) \in Seq(FileLine)
        /\ WholeFrom(LinesOf(from + 0), 1)
    BY <1>3, <1>4
  <2>4. FlattenSeq(first(0 + 1)) = LinesOf(from + 0)
    BY <2>2, <2>3, ConcatEmptySeq
  <2>5. QED
    BY <2>3, <2>4
<1>6. ASSUME NEW n \in T PROVE n + 1 \in T
  <2> SUFFICES ASSUME from + (n + 1) <= Len(history)
               PROVE  WholeFrom(FlattenSeq(first((n + 1) + 1)), 1)
    OBVIOUS
  <2>1. from + n <= Len(history) /\ n \in Nat /\ n + 1 \in Nat
    BY <1>1
  <2>2. WholeFrom(FlattenSeq(first(n + 1)), 1)
    BY <1>6, <2>1
  <2>3. /\ FlattenSeq(first((n + 1) + 1)) = FlattenSeq(first(n + 1)) \o LinesOf(from + (n + 1))
        /\ WholeFrom(LinesOf(from + (n + 1)), 1)
    BY <1>3, <1>4, <2>1
  <2>4. QED
    BY <2>2, <2>3, WholeJoin
<1>7. to - from \in T
  <2>1. Nat \subseteq T
    <3> HIDE DEF T
    <3> QED
      BY ONLY <1>5, <1>6, Induction
  <2>2. to - from \in Nat
    BY <1>1
  <2> HIDE DEF T
  <2>3. QED
    BY <2>1, <2>2
<1> DEFINE F == FlattenSeq([i \in 1..to + 1 - from |-> LinesOf(from + i - 1)])
           f == <<Preamble>> \o F
<1>8. WholeFrom(F, 1)
  <2>1. from + (to - from) <= Len(history) /\ (to - from) + 1 = to + 1 - from
    BY <1>1
  <2>2. F = FlattenSeq(first(to + 1 - from))
    BY DEF first
  <2>3. QED
    BY <1>7, <2>1, <2>2
<1> HIDE DEF F
<1> DEFINE n == Len(F)
<1>9. /\ n \in Nat /\ n >= 1 /\ F \in Seq(FileLine)
      /\ StartsMessage(F[1]) /\ Ends(F[n])
      /\ \A p \in 1..n : OfHistory(F[p])
      /\ \A p \in 1..n - 1 : Follows(F[p], F[p + 1])
  BY <1>8, LenProperties DEF WholeFrom
<1>10. <<Preamble>> \in Seq(FileLine) /\ Len(<<Preamble>>) = 1 /\ <<Preamble>>[1] = Preamble
  BY DEF FileLine, Preamble
<1>11. /\ f \in Seq(FileLine) /\ Len(f) = 1 + n
       /\ \A i \in 1..1 + n : f[i] = IF i <= 1 THEN <<Preamble>>[i] ELSE F[i - 1]
  BY <1>9, <1>10, ConcatProperties
<1> HIDE DEF f, n
<1>12. f[1] = Preamble /\ \A p \in 2..n + 1 : p - 1 \in 1..n /\ f[p] = F[p - 1]
  BY <1>9, <1>10, <1>11
<1>13. StartsMessage(f[2]) /\ Ends(f[n + 1])
  <2>1. f[2] = F[1] /\ f[n + 1] = F[n]
    BY <1>9, <1>12
  <2>2. QED
    BY <1>9, <2>1
<1>14. \A p \in 2..n + 1 : OfHistory(f[p])
  BY <1>9, <1>12
<1>15. ASSUME NEW p \in 2..n PROVE Follows(f[p], f[p + 1])
  <2>1. p - 1 \in 1..n - 1 /\ f[p] = F[p - 1] /\ f[p + 1] = F[(p - 1) + 1]
    <3>1. p \in 2..n + 1 /\ p + 1 \in 2..n + 1 /\ (p + 1) - 1 = (p - 1) + 1 /\ p - 1 \in 1..n - 1
      BY <1>9
    <3>2. QED
      BY <1>12, <3>1
  <2>2. QED
    BY <1>9, <2>1
<1>16. Neat(f)
  BY <1>9, <1>11, <1>12, <1>13, <1>14, <1>15 DEF Neat, WholeFrom
<1>17. QED
  BY <1>16 DEF f, F

-----------------------------------------------------------------------------
(* The records of a file and the rows of a chat.                           *)

\* The phones whose dates can be told: months first, or only late days.
Reliable == written = "MDY" \/ \A m \in 1..Len(history) : history[m].day > 12

\* A record of message m that has gathered the lines up to the n-th.
Begun(r, m, n) ==
  /\ r \in Record
  /\ m \in 1..Len(history)
  /\ r.of = m
  /\ r.says = history[m].says
  /\ Reliable => r.at = <<history[m].month, history[m].day>>
  /\ r.body = IF history[m].kind = "media" THEN <<>> ELSE UpTo(n)

Whole(r) == Begun(r, r.of, history[r.of].more + 1)

Firsts(f) == {l \in Range(f) : StartsMessage(l)}

\* The first lines among the first n.
StartsIn(f, n) == Keep(SubSeq(f, 1, n), Firsts(f))

\* Records, one for each first line.
SameOf(rs, ls) == Len(rs) = Len(ls) /\ \A i \in 1..Len(rs) : rs[i].of = ls[i].of

Complete(rs, ls) ==
  /\ rs \in Seq(Record)
  /\ \A i \in 1..Len(rs) : Whole(rs[i])
  /\ SameOf(rs, ls)

\* The lines before n are gathered; the notice is dropped.
Parsed(f, n, p, rs) ==
  /\ n \in 1..Len(f) + 1
  /\ rs \in Seq(Record) /\ p \in Seq(Record)
  /\ \A i \in 1..Len(rs) : Whole(rs[i])
  /\ n <= 2 => p = <<>> /\ rs = <<>>
  /\ n > 2 => Len(p) = 1 /\ Begun(p[1], f[n - 1].of, f[n - 1].number)
  /\ SameOf(rs \o p, StartsIn(f, n - 1))

\* Rows of whole messages, none twice.
Rowed(x) ==
  /\ x \in Seq(Record)
  /\ \A i \in 1..Len(x) : Whole(x[i])
  /\ \A i, j \in 1..Len(x) : SyntheticId(x[i]) = SyntheticId(x[j]) => i = j

\* The records before n have rows.
Covered(rs, n, x) ==
  \A i \in 1..n - 1 : \E j \in 1..Len(x) : SyntheticId(x[j]) = SyntheticId(rs[i])

ImportAt(st, f, o, n, p, rs, a, s) ==
  /\ history \in Seq(Entry) /\ written \in {"MDY", "DMY"}
  /\ st \in {"idle", "detect", "parse", "insert", "flushed"}
  /\ a \in Seq(Record) /\ Rowed(s) /\ Rowed(s \o a)
  /\ o \in {"MDY", "DMY"}
  /\ st \in {"idle", "detect"} => n = 1 /\ p = <<>> /\ rs = <<>>
  /\ st \in {"idle", "detect", "parse"} => a = <<>>
  /\ st # "idle" => Neat(f)
  /\ st = "parse" => (Reliable => o = written) /\ Parsed(f, n, p, rs)
  /\ st \in {"insert", "flushed"} =>
       /\ p = <<>>
       /\ Complete(rs, Keep(f, Firsts(f)))
       /\ n \in 1..Len(rs) + 1
       /\ Covered(rs, n, s \o a)
  /\ st = "flushed" => n = Len(rs) + 1

ImportInv == ImportAt(step, file, order, line, pending, records, added, stored)

\* The invariant of the imports in the next state, told of that state's values.
LEMMA ImportNext ==
  ASSUME UNCHANGED <<history, written>>
  PROVE  ImportInv' <=> ImportAt(step', file', order', line', pending', records', added', stored')
  BY DEF ImportInv, ImportAt, Rowed, Covered, Complete, SameOf, Parsed, StartsIn, Firsts, Whole,
         Begun, Reliable, Neat, WholeFrom, OfHistory, Follows, Ends, StartsMessage, SyntheticId

\* The message of a line.
LEMMA MessageOf ==
  ASSUME history \in Seq(Entry), NEW m \in 1..Len(history)
  PROVE  /\ m \in Nat
         /\ history[m].kind \in {"text", "media"} /\ history[m].says \in Nat
         /\ history[m].month \in 1..12 /\ history[m].day \in 1..31 /\ history[m].more \in Nat
<1>1. history[m] \in Entry
  BY ElementOfSeq
<1>2. QED
  BY <1>1, LenProperties DEF Entry

\* A date is read rightly in the order it is written in; in the other order a late
\* day is no month.
LEMMA DateRead ==
  ASSUME history \in Seq(Entry), written \in {"MDY", "DMY"},
         NEW l, l.of \in 1..Len(history), NEW as \in {"MDY", "DMY"}
  PROVE  LET m == history[l.of] IN
         /\ ReadDate(DateOn(l), as) \in Nat \X Nat
         /\ as = written => ReadDate(DateOn(l), as) = <<m.month, m.day>>
         /\ as = written => ReadDate(DateOn(l), as) # NoDate
         /\ as # written /\ m.day > 12 /\ written = "DMY" => ReadDate(DateOn(l), as) = NoDate
<1> DEFINE m == history[l.of].month
           d == history[l.of].day
<1>1. m \in 1..12 /\ d \in 1..31
  BY MessageOf
<1>2. \A x, y \in Nat : /\ <<x, y>>[1] = x /\ <<x, y>>[2] = y
                         /\ <<x, y>> \in Nat \X Nat
                         /\ x > 0 => <<x, y>> # <<0, 0>>
  OBVIOUS
<1>3. m \in Nat /\ d \in Nat /\ m > 0 /\ m <= 12 /\ <<0, 0>> \in Nat \X Nat
  <2> HIDE DEF m, d
  <2>1. m \in Nat /\ d \in Nat /\ m > 0 /\ m <= 12
    BY <1>1
  <2>2. QED
    BY <1>2, <2>1
<1>4. DateOn(l) = IF written = "MDY" THEN <<m, d>> ELSE <<d, m>>
  BY DEF DateOn
<1> HIDE DEF m, d
<1>5. /\ ReadDate(<<m, d>>, "MDY") = <<m, d>>
      /\ ReadDate(<<d, m>>, "DMY") = <<m, d>>
      /\ ReadDate(<<m, d>>, "DMY") = IF d <= 12 THEN <<d, m>> ELSE <<0, 0>>
      /\ ReadDate(<<d, m>>, "MDY") = IF d <= 12 THEN <<d, m>> ELSE <<0, 0>>
  BY <1>2, <1>3 DEF ReadDate, NoDate
<1>6. <<m, d>> \in Nat \X Nat /\ <<d, m>> \in Nat \X Nat /\ <<m, d>> # <<0, 0>>
  BY <1>2, <1>3
<1>7. d > 12 => ~ (d <= 12)
  BY <1>3
<1> DEFINE read == ReadDate(DateOn(l), as)
<1>8. /\ read \in Nat \X Nat
      /\ as = written => read = <<m, d>>
      /\ as # written /\ d > 12 /\ written = "DMY" => read = <<0, 0>>
  <2>1. CASE as = "MDY" /\ written = "MDY"
    BY <1>4, <1>5, <1>6, <2>1
  <2>2. CASE as = "DMY" /\ written = "DMY"
    BY <1>4, <1>5, <1>6, <2>2
  <2>3. CASE as = "MDY" /\ written = "DMY"
    BY <1>3, <1>4, <1>5, <1>6, <1>7, <2>3
  <2>4. CASE as = "DMY" /\ written = "MDY"
    BY <1>3, <1>4, <1>5, <1>6, <1>7, <2>4
  <2>5. QED
    BY <2>1, <2>2, <2>3, <2>4
<1>9. QED
  BY <1>6, <1>8 DEF NoDate, m, d

\* A first line begins the record of its message.
LEMMA RecordBegun ==
  ASSUME history \in Seq(Entry), written \in {"MDY", "DMY"}, order \in {"MDY", "DMY"},
         Reliable => order = written,
         NEW l \in FileLine, OfHistory(l), StartsMessage(l)
  PROVE  Begun(RecordOf(l), l.of, l.number)
<1> DEFINE m == history[l.of]
           d == ReadDate(DateOn(l), order)
<1>1. /\ l.of \in 1..Len(history) /\ l.of \in Nat /\ m.says \in Nat
      /\ m.month \in 1..12 /\ m.day \in 1..31
  BY MessageOf DEF OfHistory
<1>2. d \in Nat \X Nat
  BY <1>1, DateRead
<1>3. order = written => d = <<m.month, m.day>>
  BY <1>1, DateRead
<1> DEFINE b == IF m.kind = "media" THEN <<>> ELSE <<1>>
<1>4. b \in Seq(Nat)
  OBVIOUS
<1>5. UpTo(1) = <<1>>
  BY DEF UpTo
<1>6. RecordOf(l) = [of |-> l.of, says |-> m.says, at |-> d, body |-> b]
  BY DEF RecordOf
<1>7. l.number = 1
  BY DEF StartsMessage
<1> HIDE DEF m, d, b
<1>8. RecordOf(l) \in Record
  BY <1>1, <1>2, <1>4, <1>6 DEF Record
<1>9. /\ RecordOf(l).of = l.of /\ RecordOf(l).says = m.says /\ RecordOf(l).at = d
      /\ RecordOf(l).body = b
  BY <1>6
<1>10. b = IF m.kind = "media" THEN <<>> ELSE UpTo(1)
  BY <1>5 DEF b
<1>11. QED
  BY <1>1, <1>3, <1>7, <1>8, <1>9, <1>10 DEF Begun, m

\* One more record and its first line.
LEMMA SameOfAppend ==
  ASSUME NEW rs \in Seq(Record), NEW ls \in Seq(FileLine), SameOf(rs, ls),
         NEW r \in Record, NEW l \in FileLine, r.of = l.of
  PROVE  SameOf(Append(rs, r), Append(ls, l))
<1> DEFINE n == Len(rs)
           x == Append(rs, r)
           y == Append(ls, l)
<1>1. n \in Nat /\ n = Len(ls) /\ \A i \in 1..n : rs[i].of = ls[i].of
  BY LenProperties DEF SameOf
<1>2. Len(x) = n + 1 /\ x[n + 1] = r /\ \A i \in 1..n : x[i] = rs[i]
  BY AppendProperties
<1>3. Len(y) = n + 1 /\ y[n + 1] = l /\ \A i \in 1..n : y[i] = ls[i]
  BY <1>1, AppendProperties
<1> HIDE DEF n, x, y
<1>4. \A i \in 1..n + 1 : x[i].of = y[i].of
  <2> TAKE i \in 1..n + 1
  <2>1. CASE i = n + 1
    BY <1>2, <1>3, <2>1
  <2>2. CASE i # n + 1
    <3>1. i \in 1..n
      BY <1>1, <2>2
    <3>2. QED
      BY <1>1, <1>2, <1>3, <3>1
  <2>3. QED
    BY <2>1, <2>2
<1>5. QED
  BY <1>2, <1>3, <1>4 DEF SameOf, x, y

\* The first lines among one line more.
LEMMA StartsNext ==
  ASSUME NEW f \in Seq(FileLine), NEW n \in 1..Len(f)
  PROVE  /\ StartsIn(f, 0) = <<>>
         /\ StartsIn(f, n - 1) \in Seq(FileLine)
         /\ StartsIn(f, n) = IF StartsMessage(f[n]) THEN Append(StartsIn(f, n - 1), f[n])
                             ELSE StartsIn(f, n - 1)
<1> DEFINE a == SubSeq(f, 1, n - 1)
           K == Firsts(f)
<1>1. Len(f) \in Nat /\ n \in Nat /\ f[n] \in FileLine /\ \A i \in 1..Len(f) : f[i] \in FileLine
  BY LenProperties, ElementOfSeq
<1>2. a \in Seq(FileLine)
  BY <1>1, SubSeqProperties
<1>3. SubSeq(f, 1, n) = Append(a, f[n])
  <2>1. 1 \in 1..Len(f) /\ n \in 1..Len(f)
    BY <1>1
  <2>2. SubSeq(f, 1, n) = a \o <<f[n]>>
    BY <2>1, SubSeqRecursiveSecond
  <2>3. QED
    BY <1>1, <1>2, <2>2, AppendIsConcat
<1>4. f[n] \in K <=> StartsMessage(f[n])
  BY <1>1, LenProperties DEF Firsts, Range
<1>5. SubSeq(f, 1, 0) = <<>>
  BY SubSeqEmpty
<1> HIDE DEF a, K
<1>6. /\ Keep(a, K) \in Seq(FileLine)
      /\ Keep(Append(a, f[n]), K) = IF f[n] \in K THEN Append(Keep(a, K), f[n]) ELSE Keep(a, K)
  BY <1>1, <1>2, KeepAppend
<1>7. QED
  BY <1>3, <1>4, <1>5, <1>6, KeepEmpty DEF StartsIn, a, K

\* No imports yet.
LEMMA ImportInit == ExportInit => ImportInv
<1> SUFFICES ASSUME ExportInit PROVE ImportInv
  OBVIOUS
<1>1. history \in Seq(Entry) /\ written \in {"MDY", "DMY"}
  BY ExportAssumption DEF ExportInit
<1>2. <<>> \in Seq(Record) /\ Len(<<>>) = 0 /\ <<>> \o <<>> = <<>>
  BY EmptySeq
<1>3. Rowed(<<>>)
  BY <1>2 DEF Rowed
<1>4. QED
  BY <1>1, <1>2, <1>3 DEF ExportInit, NothingImported, ImportInv, ImportAt

\* A file is uploaded ...
LEMMA UploadStep == ImportInv /\ Upload => ImportInv'
<1> SUFFICES ASSUME ImportInv, Upload PROVE ImportInv'
  OBVIOUS
<1>1. Neat(file')
  <2>1. PICK from \in 1..Len(history), to \in 1..Len(history) :
          /\ from <= to
          /\ file' = <<Preamble>> \o
                     FlattenSeq([i \in 1..to + 1 - from |-> LinesOf(from + i - 1)])
    BY DEF Upload
  <2>2. history \in Seq(Entry)
    BY DEF ImportInv, ImportAt
  <2>3. QED
    BY <2>1, <2>2, NeatFile
<1>2. ImportAt(step', file', order', line', pending', records', added', stored')
  BY <1>1 DEF ImportInv, ImportAt, Upload
<1>3. QED
  BY <1>2, ImportNext DEF Upload

\* ... its dates are looked at ...
LEMMA DetectStep == ImportInv /\ DetectOrder => ImportInv'
<1> SUFFICES ASSUME ImportInv, DetectOrder PROVE ImportInv'
  OBVIOUS
<1>1. /\ step = "detect" /\ history \in Seq(Entry) /\ written \in {"MDY", "DMY"}
      /\ Neat(file) /\ line = 1 /\ pending = <<>> /\ records = <<>>
  BY DEF DetectOrder, ImportInv, ImportAt
<1> DEFINE n == Len(file)
<1>2. /\ n \in Nat /\ 2 <= n /\ file \in Seq(FileLine) /\ StartsMessage(file[2])
      /\ file[1] = Preamble /\ \A p \in 2..n : OfHistory(file[p])
  BY <1>1, LenProperties DEF Neat, WholeFrom
<1> DEFINE k == IF n < SampleLines THEN n ELSE SampleLines
<1>3. k \in Nat /\ 2 <= k /\ k <= n
  BY <1>2, ExportAssumption
<1>4. Len(Sample) = k /\ \A i \in 1..k : Sample[i] = file[i]
  <2>1. Sample = SubSeq(file, 1, k)
    BY DEF Sample
  <2> DEFINE one == 1
  <2>2. one \in Int /\ k \in Int /\ one <= k /\ k - one + 1 = k
    BY <1>3
  <2>3. \A i \in one..k : file[i] \in FileLine
    <3>1. \A i \in one..k : i \in 1..n
      BY <1>2, <1>3
    <3>2. QED
      BY <1>2, <3>1, ElementOfSeq
  <2> HIDE DEF one, k
  <2>4. /\ Len(SubSeq(file, one, k)) = IF one <= k THEN k - one + 1 ELSE 0
        /\ \A i \in 1..k - one + 1 : SubSeq(file, one, k)[i] = file[one + i - 1]
    BY <2>2, <2>3, SubSeqProperties
  <2>5. \A i \in 1..k : one + i - 1 = i
    BY <1>3 DEF one
  <2>6. QED
    BY <2>1, <2>2, <2>4, <2>5 DEF one
<1> HIDE DEF k, n
<1>5. ASSUME NEW i \in 1..k, StartsMessage(Sample[i])
      PROVE  Sample[i].of \in 1..Len(history)
  <2>1. Sample[i] = file[i] /\ i \in 1..n
    BY <1>2, <1>3, <1>4
  <2>2. i # 1
    BY <1>2, <1>5, <2>1 DEF StartsMessage, Preamble
  <2>3. OfHistory(Sample[i])
    BY <1>2, <2>1, <2>2
  <2>4. QED
    BY <2>3 DEF OfHistory
<1>6. 2 \in 1..k /\ StartsMessage(Sample[2])
  BY <1>2, <1>3, <1>4
<1>7. Reliable => order' = written
  <2> SUFFICES ASSUME Reliable PROVE order' = written
    OBVIOUS
  <2>1. CASE written = "MDY"
    <3>1. \A i \in 1..k : StartsMessage(Sample[i]) => ReadDate(DateOn(Sample[i]), "MDY") # NoDate
      BY <1>1, <1>5, <2>1, DateRead
    <3>2. Valid("MDY") = {} => Valid("DMY") = {}
      BY <1>4, <3>1 DEF Valid
    <3>3. QED
      BY <2>1, <3>2 DEF DetectOrder
  <2>2. CASE written = "DMY"
    <3>1. \A i \in 1..k :
            StartsMessage(Sample[i]) =>
              /\ ReadDate(DateOn(Sample[i]), "MDY") = NoDate
              /\ ReadDate(DateOn(Sample[i]), "DMY") # NoDate
      BY <1>1, <1>5, <2>2, DateRead DEF Reliable
    <3>2. Valid("MDY") = {} /\ 2 \in Valid("DMY")
      BY <1>4, <1>6, <3>1 DEF Valid
    <3>3. QED
      BY <2>2, <3>2 DEF DetectOrder
  <2>3. QED
    BY <1>1, <2>1, <2>2
<1>8. Parsed(file, 1, <<>>, <<>>)
  <2>1. <<>> \in Seq(Record) /\ Len(<<>>) = 0 /\ <<>> \o <<>> = <<>> /\ 1 \in 1..n + 1
    BY <1>2, EmptySeq
  <2>2. StartsIn(file, 1 - 1) = <<>>
    <3>1. 1 \in 1..Len(file)
      BY <1>2 DEF n
    <3>2. QED
      BY <1>2, <3>1, StartsNext
  <2>3. SameOf(<<>> \o <<>>, StartsIn(file, 1 - 1))
    BY <2>1, <2>2 DEF SameOf
  <2>4. QED
    BY <2>1, <2>3 DEF Parsed, n
<1>9. ImportAt(step', file', order', line', pending', records', added', stored')
  BY <1>1, <1>7, <1>8 DEF ImportInv, ImportAt, DetectOrder
<1>10. QED
  BY <1>9, ImportNext DEF DetectOrder

\* ... its lines are gathered one after another ...
LEMMA ParseStep == ImportInv /\ ParseLine => ImportInv'
<1> SUFFICES ASSUME ImportInv, ParseLine PROVE ImportInv'
  OBVIOUS
<1> DEFINE l == file[line]
           n == Len(file)
<1>1. /\ step = "parse" /\ history \in Seq(Entry) /\ written \in {"MDY", "DMY"}
      /\ order \in {"MDY", "DMY"} /\ Neat(file)
      /\ Reliable => order = written
      /\ Parsed(file, line, pending, records)
  BY DEF ParseLine, ImportInv, ImportAt
<1>2. /\ line \in 1..n + 1 /\ line <= n
      /\ records \in Seq(Record) /\ pending \in Seq(Record)
      /\ \A i \in 1..Len(records) : Whole(records[i])
      /\ line <= 2 => pending = <<>> /\ records = <<>>
      /\ line > 2 => Len(pending) = 1 /\ Begun(pending[1], file[line - 1].of, file[line - 1].number)
      /\ SameOf(records \o pending, StartsIn(file, line - 1))
  BY <1>1 DEF Parsed, ParseLine
<1>3. /\ n \in Nat /\ 2 <= n /\ file \in Seq(FileLine)
      /\ StartsMessage(file[2]) /\ file[1] = Preamble
      /\ \A p \in 2..n : OfHistory(file[p])
      /\ \A p \in 2..n - 1 : Follows(file[p], file[p + 1])
  BY <1>1, LenProperties DEF Neat, WholeFrom
<1>4. line \in 1..n /\ line \in Nat /\ l \in FileLine
  <2>1. line \in 1..n /\ line \in Nat
    BY <1>2, <1>3
  <2>2. QED
    BY <1>3, <2>1, ElementOfSeq
<1>5. /\ StartsIn(file, 0) = <<>>
      /\ StartsIn(file, line - 1) \in Seq(FileLine)
      /\ StartsIn(file, line) = IF StartsMessage(l) THEN Append(StartsIn(file, line - 1), l)
                                ELSE StartsIn(file, line - 1)
  BY <1>3, <1>4, StartsNext
<1>6. line > 2 => Follows(file[line - 1], l) /\ OfHistory(file[line - 1])
  <2> SUFFICES ASSUME line > 2 PROVE Follows(file[line - 1], l) /\ OfHistory(file[line - 1])
    OBVIOUS
  <2>1. line - 1 \in 2..n - 1 /\ line - 1 \in 2..n /\ (line - 1) + 1 = line
    BY <1>3, <1>4
  <2>2. QED
    BY <1>3, <2>1
<1>7. line' = line + 1 /\ line' - 1 = line /\ line' \in 1..n + 1
  BY <1>3, <1>4 DEF ParseLine
<1> HIDE DEF l, n
<1>8. ASSUME StartsMessage(l), records' = records \o pending, pending' = <<RecordOf(l)>>
      PROVE  Parsed(file, line', pending', records')
  <2>1. line # 1
    BY <1>3, <1>8 DEF l, StartsMessage, Preamble
  <2>2. OfHistory(l)
    BY <1>3, <1>4, <2>1 DEF l
  <2>3. Begun(RecordOf(l), l.of, l.number)
    BY <1>1, <1>4, <1>8, <2>2, RecordBegun
  <2>4. RecordOf(l) \in Record /\ RecordOf(l).of = l.of
    BY <2>3 DEF Begun
  <2>5. records' \in Seq(Record)
    BY <1>2, <1>8, ConcatProperties
  <2>6. \A i \in 1..Len(records') : Whole(records'[i])
    <3>1. CASE line = 2
      <4>1. records' = <<>> \o <<>>
        BY <1>2, <1>8, <3>1
      <4>2. Len(records') = 0
        BY <4>1
      <4>3. QED
        BY <4>2
    <3>2. CASE line > 2
      <4>1. Begun(pending[1], pending[1].of, history[pending[1].of].more + 1)
        <5>1. Ends(file[line - 1])
          BY <1>6, <1>8, <3>2 DEF Follows
        <5>2. pending[1].of = file[line - 1].of
          BY <1>2, <3>2 DEF Begun
        <5>3. file[line - 1].number = history[pending[1].of].more + 1
          BY <5>1, <5>2 DEF Ends
        <5>4. QED
          BY <1>2, <3>2, <5>2, <5>3
      <4>2. Whole(pending[1])
        BY <4>1 DEF Whole
      <4> DEFINE k == Len(records)
                 x == records \o pending
      <4>3. k \in Nat /\ Len(pending) = 1
        BY <1>2, <3>2, LenProperties
      <4>4. /\ Len(x) = k + Len(pending)
            /\ \A i \in 1..k + Len(pending) : x[i] = IF i <= k THEN records[i] ELSE pending[i - k]
        BY <1>2, ConcatProperties
      <4> HIDE DEF k, x
      <4>5. Len(x) = k + 1 /\ \A i \in 1..k + 1 : x[i] = IF i <= k THEN records[i] ELSE pending[i - k]
        BY <4>3, <4>4
      <4>6. ASSUME NEW i \in 1..k + 1 PROVE Whole(x[i])
        <5>1. CASE i <= k
          <6>1. x[i] = records[i] /\ i \in 1..k
            BY <4>3, <4>5, <5>1
          <6>2. QED
            BY <1>2, <6>1 DEF k
        <5>2. CASE i > k
          <6>1. i - k = 1 /\ ~ (i <= k)
            BY <4>3, <5>2
          <6>2. x[i] = pending[i - k]
            BY <4>5, <6>1
          <6>3. QED
            BY <4>2, <6>1, <6>2
        <5>3. QED
          BY <4>3, <5>1, <5>2
      <4>7. QED
        BY <1>8, <4>5, <4>6 DEF x
    <3>3. QED
      BY <1>4, <2>1, <3>1, <3>2
  <2>7. SameOf(records' \o pending', StartsIn(file, line' - 1))
    <3>1. SameOf(Append(records', RecordOf(l)), Append(StartsIn(file, line - 1), l))
      BY <1>2, <1>4, <1>5, <1>8, <2>4, <2>5, SameOfAppend
    <3>2. records' \o pending' = Append(records', RecordOf(l))
      BY <1>8, <2>4, <2>5, AppendIsConcat
    <3>3. QED
      BY <1>5, <1>7, <1>8, <3>1, <3>2
  <2>8. /\ pending' \in Seq(Record) /\ Len(pending') = 1
        /\ Begun(pending'[1], file[line' - 1].of, file[line' - 1].number)
    <3>1. pending' \in Seq(Record) /\ Len(pending') = 1 /\ pending'[1] = RecordOf(l)
      BY <1>8, <2>4
    <3>2. file[line' - 1] = l
      BY <1>7 DEF l
    <3>3. QED
      BY <2>3, <3>1, <3>2
  <2>9. line' > 2
    BY <1>4, <1>7, <2>1
  <2>10. QED
    BY <1>4, <1>7, <2>5, <2>6, <2>7, <2>8, <2>9 DEF Parsed, n
<1>9. ASSUME ~ StartsMessage(l), records' = records,
             pending' = [i \in 1..Len(pending) |->
                           IF pending[i].body = <<>> THEN pending[i]
                           ELSE [pending[i] EXCEPT !.body = Append(@, l.number)]]
      PROVE  Parsed(file, line', pending', records')
  <2>1. line # 2
    BY <1>3, <1>9 DEF l
  <2>2. StartsIn(file, line' - 1) = StartsIn(file, line - 1)
    BY <1>5, <1>7, <1>9
  <2>3. CASE line = 1
    <3>1. pending = <<>> /\ records = <<>>
      BY <1>2, <2>3
    <3>2. pending' = <<>>
      BY <1>9, <3>1
    <3>3. line' <= 2 /\ ~ (line' > 2)
      BY <1>7, <2>3
    <3>4. SameOf(records' \o pending', StartsIn(file, line' - 1))
      BY <1>2, <1>9, <2>2, <3>1, <3>2
    <3>5. QED
      BY <1>2, <1>7, <1>9, <3>1, <3>2, <3>3, <3>4 DEF Parsed, n
  <2>4. CASE line > 2
    <3> DEFINE r == pending[1]
               s == IF r.body = <<>> THEN r ELSE [r EXCEPT !.body = Append(@, l.number)]
               k == file[line - 1]
    <3>1. /\ Len(pending) = 1 /\ Begun(r, k.of, k.number)
          /\ l.of = k.of /\ l.number = k.number + 1 /\ k.number \in 1..history[k.of].more + 1
          /\ k.of \in 1..Len(history)
      BY <1>2, <1>6, <1>9, <2>4 DEF Follows, OfHistory
    <3>2. k.number \in Nat /\ k.number > 0
      BY <1>1, <3>1, MessageOf
    <3>3. pending' = [i \in 1..1 |-> IF pending[i].body = <<>> THEN pending[i]
                                     ELSE [pending[i] EXCEPT !.body = Append(@, l.number)]]
      BY <1>9, <3>1
    <3>4. Len(pending') = 1 /\ pending'[1] = s
      BY <3>3
    <3>5. r \in Record /\ r.of \in Nat /\ r.says \in Nat /\ r.body \in Seq(Nat)
      BY <3>1 DEF Begun, Record
    <3> HIDE DEF k, r
    <3>6. /\ s \in Record /\ s.of = r.of /\ s.says = r.says /\ s.at = r.at
          /\ s.body = IF r.body = <<>> THEN <<>> ELSE Append(r.body, l.number)
      <4>1. CASE r.body = <<>>
        BY <3>5, <4>1
      <4>2. CASE r.body # <<>>
        <5>1. Append(r.body, l.number) \in Seq(Nat)
          BY <3>1, <3>2, <3>5, AppendProperties
        <5>2. s = [r EXCEPT !.body = Append(r.body, l.number)]
          BY <4>2
        <5> HIDE DEF s
        <5>3. /\ s \in Record /\ s.of = r.of /\ s.says = r.says /\ s.at = r.at
              /\ s.body = Append(r.body, l.number)
          BY <3>5, <5>1, <5>2 DEF Record
        <5>4. QED
          BY <4>2, <5>3
      <4>3. QED
        BY <4>1, <4>2
    <3> HIDE DEF s
    <3>7. Begun(s, l.of, l.number)
      <4>1. CASE history[k.of].kind = "media"
        BY <3>1, <3>6, <4>1 DEF Begun
      <4>2. CASE history[k.of].kind # "media"
        <5>1. r.body = UpTo(k.number)
          BY <3>1, <4>2 DEF Begun
        <5>2. Len(UpTo(k.number)) = k.number
          BY <3>2 DEF UpTo
        <5>3. r.body # <<>>
          BY <3>2, <5>1, <5>2, EmptySeq
        <5>4. UpTo(k.number + 1) = Append(UpTo(k.number), k.number + 1)
          <6>1. k.number + 1 \in Nat \ {0} /\ (k.number + 1) - 1 = k.number
            BY <3>2
          <6>2. UpTo(k.number + 1) = Append(UpTo((k.number + 1) - 1), k.number + 1)
            BY ONLY <6>1, UpToNext
          <6>3. QED
            BY <6>1, <6>2
        <5>5. s.body = UpTo(l.number)
          BY <3>1, <3>6, <5>1, <5>3, <5>4
        <5>6. QED
          BY <3>1, <3>6, <4>2, <5>5 DEF Begun
      <4>3. QED
        BY <4>1, <4>2
    <3>8. pending' \in Seq(Record)
      <4>1. DOMAIN pending' = 1..1 /\ pending' = [i \in 1..1 |-> pending'[i]]
        BY <3>3
      <4>2. \A i \in 1..1 : pending'[i] \in Record
        BY <3>4, <3>6
      <4>3. pending' \in [1..1 -> Record]
        BY <4>1, <4>2
      <4>4. QED
        BY <4>3, SeqDef
    <3>9. SameOf(records' \o pending', StartsIn(file, line' - 1))
      <4> DEFINE m == Len(records)
                 x == records \o pending
                 y == records \o pending'
      <4>1. m \in Nat
        BY <1>2, LenProperties
      <4>2. /\ Len(x) = m + 1 /\ Len(y) = m + 1
            /\ \A i \in 1..m + 1 : x[i] = IF i <= m THEN records[i] ELSE pending[i - m]
            /\ \A i \in 1..m + 1 : y[i] = IF i <= m THEN records[i] ELSE pending'[i - m]
        <5> HIDE DEF m
        <5>1. \A q \in Seq(Record) : Len(q) = 1 =>
                /\ Len(records \o q) = m + 1
                /\ \A i \in 1..m + 1 : (records \o q)[i] = IF i <= m THEN records[i] ELSE q[i - m]
          <6> TAKE q \in Seq(Record)
          <6>1. /\ Len(records \o q) = m + Len(q)
                /\ \A i \in 1..m + Len(q) :
                     (records \o q)[i] = IF i <= m THEN records[i] ELSE q[i - m]
            BY <1>2, ConcatProperties DEF m
          <6>2. QED
            BY <6>1
        <5>2. QED
          BY <1>2, <3>1, <3>4, <3>8, <5>1
      <4> HIDE DEF m, x, y
      <4>3. ASSUME NEW i \in 1..m + 1 PROVE y[i].of = x[i].of
        <5>1. CASE i <= m
          BY <4>2, <5>1
        <5>2. CASE i > m
          <6>1. i - m = 1 /\ ~ (i <= m)
            BY <4>1, <5>2
          <6>2. x[i] = pending[i - m] /\ y[i] = pending'[i - m]
            BY <4>2, <6>1
          <6>3. QED
            BY <3>4, <3>6, <6>1, <6>2 DEF r
        <5>3. QED
          BY <4>1, <5>1, <5>2
      <4>4. SameOf(y, StartsIn(file, line - 1))
        BY <1>2, <4>2, <4>3 DEF SameOf, x
      <4>5. QED
        BY <1>9, <2>2, <4>4 DEF y
    <3>10. line' > 2 /\ file[line' - 1] = l
      BY <1>4, <1>7, <2>4 DEF l
    <3>11. ~ (line' <= 2)
      BY <1>4, <1>7, <2>4
    <3>12. /\ records' \in Seq(Record) /\ \A i \in 1..Len(records') : Whole(records'[i])
           /\ line' \in 1..Len(file) + 1
      BY <1>2, <1>7, <1>9 DEF n
    <3>13. Len(pending') = 1 /\ Begun(pending'[1], file[line' - 1].of, file[line' - 1].number)
      BY <3>4, <3>7, <3>10
    <3>14. QED
      BY <3>8, <3>9, <3>11, <3>12, <3>13 DEF Parsed
  <2>5. QED
    BY <1>4, <2>1, <2>3, <2>4
<1>10. Parsed(file, line', pending', records')
  BY <1>8, <1>9 DEF ParseLine, l
<1>11. ImportAt(step', file', order', line', pending', records', added', stored')
  BY <1>1, <1>10 DEF ImportInv, ImportAt, ParseLine
<1>12. QED
  BY <1>11, ImportNext DEF ParseLine

\* ... the last record ends with the file ...
LEMMA EndParseStep == ImportInv /\ EndParse => ImportInv'
<1> SUFFICES ASSUME ImportInv, EndParse PROVE ImportInv'
  OBVIOUS
<1> DEFINE n == Len(file)
           k == Len(records)
           x == records \o pending
<1>1. /\ step = "parse" /\ history \in Seq(Entry) /\ written \in {"MDY", "DMY"}
      /\ added \in Seq(Record) /\ Rowed(stored) /\ Rowed(stored \o added)
      /\ order \in {"MDY", "DMY"} /\ added = <<>> /\ Neat(file)
      /\ Parsed(file, line, pending, records)
  BY DEF EndParse, ImportInv, ImportAt
<1>2. /\ n \in Nat /\ 2 <= n /\ file \in Seq(FileLine) /\ Ends(file[n])
  BY <1>1, LenProperties DEF Neat, WholeFrom
<1>3. line = n + 1 /\ line > 2 /\ line - 1 = n
  BY <1>1, <1>2 DEF Parsed, EndParse
<1>4. /\ records \in Seq(Record) /\ pending \in Seq(Record) /\ Len(pending) = 1
      /\ \A i \in 1..k : Whole(records[i])
      /\ Begun(pending[1], file[n].of, file[n].number)
      /\ SameOf(x, StartsIn(file, n))
  BY <1>1, <1>3 DEF Parsed
<1>5. Whole(pending[1])
  <2>1. pending[1].of = file[n].of
    BY <1>4 DEF Begun
  <2>2. file[n].number = history[pending[1].of].more + 1
    BY <1>2, <2>1 DEF Ends
  <2>3. Begun(pending[1], pending[1].of, history[pending[1].of].more + 1)
    BY <1>4, <2>1, <2>2
  <2>4. QED
    BY <2>3 DEF Whole
<1>6. k \in Nat
  BY <1>4, LenProperties
<1>7. /\ x \in Seq(Record) /\ Len(x) = k + Len(pending)
      /\ \A i \in 1..k + Len(pending) : x[i] = IF i <= k THEN records[i] ELSE pending[i - k]
  BY <1>4, ConcatProperties
<1>8. StartsIn(file, n) = Keep(file, Firsts(file))
  BY <1>2, SubSeqFull DEF StartsIn
<1> HIDE DEF k, x, n
<1>9. Len(x) = k + 1 /\ \A i \in 1..k + 1 : x[i] = IF i <= k THEN records[i] ELSE pending[i - k]
  BY <1>4, <1>7
<1>10. ASSUME NEW i \in 1..k + 1 PROVE Whole(x[i])
  <2>1. CASE i <= k
    <3>1. x[i] = records[i] /\ i \in 1..k
      BY <1>6, <1>9, <2>1
    <3>2. QED
      BY <1>4, <3>1
  <2>2. CASE i > k
    <3>1. i - k = 1 /\ ~ (i <= k)
      BY <1>6, <2>2
    <3>2. x[i] = pending[i - k]
      BY <1>9, <3>1
    <3>3. QED
      BY <1>5, <3>1, <3>2
  <2>3. QED
    BY <1>6, <2>1, <2>2
<1>11. Complete(x, Keep(file, Firsts(file)))
  BY <1>4, <1>7, <1>8, <1>9, <1>10 DEF Complete
<1>12. 1 \in 1..Len(x) + 1 /\ Covered(x, 1, stored \o added)
  BY <1>6, <1>9 DEF Covered
<1>13. /\ step' = "insert" /\ file' = file /\ order' = order /\ line' = 1 /\ pending' = <<>>
       /\ records' = x /\ added' = added /\ stored' = stored
  BY DEF EndParse, x
<1>14. ImportAt(step', file', order', line', pending', records', added', stored')
  BY <1>1, <1>11, <1>12, <1>13 DEF ImportAt
<1>15. QED
  BY <1>14, ImportNext DEF EndParse

\* A row joins the others if none has its identifier.
LEMMA RowJoins ==
  ASSUME NEW x, Rowed(x), NEW r \in Record, Whole(r),
         \A i \in 1..Len(x) : SyntheticId(x[i]) # SyntheticId(r)
  PROVE  Rowed(Append(x, r))
<1> DEFINE n == Len(x)
           y == Append(x, r)
<1>1. /\ x \in Seq(Record) /\ \A i \in 1..n : Whole(x[i])
      /\ \A i, j \in 1..n : SyntheticId(x[i]) = SyntheticId(x[j]) => i = j
      /\ \A i \in 1..n : SyntheticId(x[i]) # SyntheticId(r)
  BY DEF Rowed
<1>2. n \in Nat /\ y \in Seq(Record) /\ Len(y) = n + 1 /\ y[n + 1] = r /\ \A i \in 1..n : y[i] = x[i]
  BY <1>1, LenProperties, AppendProperties
<1> HIDE DEF n, y
<1>3. \A i \in 1..n + 1 : i = n + 1 \/ i \in 1..n
  BY <1>2
<1>4. \A i \in 1..n + 1 : Whole(y[i])
  BY <1>1, <1>2, <1>3
<1>5. ASSUME NEW i \in 1..n + 1, NEW j \in 1..n + 1, SyntheticId(y[i]) = SyntheticId(y[j])
      PROVE  i = j
  <2>1. CASE i = n + 1 /\ j \in 1..n
    BY <1>1, <1>2, <1>5, <2>1
  <2>2. CASE j = n + 1 /\ i \in 1..n
    BY <1>1, <1>2, <1>5, <2>2
  <2>3. CASE i \in 1..n /\ j \in 1..n
    BY <1>1, <1>2, <1>5, <2>3
  <2>4. QED
    BY <1>3, <2>1, <2>2, <2>3
<1>6. QED
  BY <1>2, <1>4, <1>5 DEF Rowed, y

\* ... a record without a row gets one ...
LEMMA InsertStep == ImportInv /\ InsertRecord => ImportInv'
<1> SUFFICES ASSUME ImportInv, InsertRecord PROVE ImportInv'
  OBVIOUS
<1> DEFINE r == records[line]
           n == Len(records)
           x == stored \o added
           y == stored \o added'
<1>1. /\ step = "insert" /\ history \in Seq(Entry) /\ written \in {"MDY", "DMY"}
      /\ added \in Seq(Record) /\ Rowed(stored) /\ Rowed(x) /\ order \in {"MDY", "DMY"}
      /\ Neat(file) /\ pending = <<>> /\ Complete(records, Keep(file, Firsts(file)))
      /\ line \in 1..n + 1 /\ Covered(records, line, x) /\ line <= n /\ line' = line + 1
  BY DEF InsertRecord, ImportInv, ImportAt
<1>2. n \in Nat /\ line \in 1..n /\ r \in Record /\ Whole(r) /\ stored \in Seq(Record) /\ x \in Seq(Record)
  <2>1. records \in Seq(Record) /\ n \in Nat
    BY <1>1, LenProperties DEF Complete
  <2>2. line \in 1..n
    BY <1>1, <2>1
  <2>3. QED
    BY <1>1, <2>1, <2>2, ElementOfSeq DEF Complete, Rowed
<1>3. Range(x) = {x[i] : i \in 1..Len(x)}
  BY <1>2, RangeEquality
<1>4. \/ /\ added' = added
         /\ \E j \in 1..Len(x) : SyntheticId(x[j]) = SyntheticId(r)
      \/ /\ added' = Append(added, r)
         /\ \A j \in 1..Len(x) : SyntheticId(x[j]) # SyntheticId(r)
  <2>1. CASE SyntheticId(r) \in {SyntheticId(s) : s \in Range(x)}
    <3>1. PICK s \in Range(x) : SyntheticId(s) = SyntheticId(r)
      BY <2>1
    <3>2. PICK j \in 1..Len(x) : s = x[j]
      BY <1>3
    <3>3. QED
      BY <2>1, <3>1, <3>2 DEF InsertRecord
  <2>2. CASE SyntheticId(r) \notin {SyntheticId(s) : s \in Range(x)}
    <3>1. \A j \in 1..Len(x) : SyntheticId(x[j]) # SyntheticId(r)
      BY <1>3, <2>2
    <3>2. QED
      BY <2>2, <3>1 DEF InsertRecord
  <2>3. QED
    BY <2>1, <2>2
<1> HIDE DEF r, n, x
<1>5. /\ added' \in Seq(Record) /\ Rowed(y)
      /\ \A i \in 1..Len(x) : \E j \in 1..Len(y) : SyntheticId(y[j]) = SyntheticId(x[i])
      /\ \E j \in 1..Len(y) : SyntheticId(y[j]) = SyntheticId(r)
  <2>1. CASE added' = added /\ \E j \in 1..Len(x) : SyntheticId(x[j]) = SyntheticId(r)
    <3>1. y = x
      BY <2>1 DEF x
    <3> HIDE DEF y
    <3>2. QED
      BY <1>1, <2>1, <3>1
  <2>2. CASE added' = Append(added, r) /\ \A j \in 1..Len(x) : SyntheticId(x[j]) # SyntheticId(r)
    <3>1. y = Append(x, r) /\ added' \in Seq(Record)
      <4>1. stored \o Append(added, r) = Append(stored \o added, r)
        BY <1>1, <1>2, AppendToConcat
      <4>2. QED
        BY <1>1, <1>2, <2>2, <4>1, AppendProperties DEF x
    <3> HIDE DEF y
    <3>2. Rowed(y)
      BY <1>1, <1>2, <2>2, <3>1, RowJoins
    <3>3. /\ Len(x) \in Nat /\ Len(y) = Len(x) + 1 /\ y[Len(x) + 1] = r
          /\ \A i \in 1..Len(x) : y[i] = x[i]
      BY <1>2, <3>1, LenProperties, AppendProperties
    <3>4. Len(x) + 1 \in 1..Len(y) /\ \A i \in 1..Len(x) : i \in 1..Len(y)
      BY <3>3
    <3>5. QED
      BY <3>1, <3>2, <3>3, <3>4
  <2>3. QED
    BY <1>4, <2>1, <2>2
<1> HIDE DEF y
<1>6. Covered(records, line', y)
  <2> SUFFICES ASSUME NEW i \in 1..line' - 1
               PROVE  \E j \in 1..Len(y) : SyntheticId(y[j]) = SyntheticId(records[i])
    BY DEF Covered
  <2>1. CASE i = line
    BY <1>5, <2>1 DEF r
  <2>2. CASE i # line
    <3>1. i \in 1..line - 1
      BY <1>1, <1>2, <2>2
    <3>2. PICK j \in 1..Len(x) : SyntheticId(x[j]) = SyntheticId(records[i])
      BY <1>1, <3>1 DEF Covered
    <3>3. QED
      BY <1>5, <3>2
  <2>3. QED
    BY <2>1, <2>2
<1>7. line' \in 1..n + 1
  BY <1>1, <1>2
<1>8. /\ step' = step /\ file' = file /\ order' = order /\ pending' = pending /\ records' = records
      /\ stored' = stored
  BY DEF InsertRecord
<1>9. ImportAt(step', file', order', line', pending', records', added', stored')
  BY <1>1, <1>5, <1>6, <1>7, <1>8 DEF ImportAt, n, y
<1>10. QED
  BY <1>9, ImportNext DEF InsertRecord

\* ... and the transaction commits or is rolled back.
LEMMA ImportStep == ImportInv /\ [ExportNext]_importVars => ImportInv'
<1> SUFFICES ASSUME ImportInv, [ExportNext]_importVars PROVE ImportInv'
  OBVIOUS
<1>1. CASE UNCHANGED importVars
  BY <1>1, ImportNext DEF importVars, ImportInv
<1>2. CASE Flush
  <2>1. /\ step = "insert" /\ line > Len(records) /\ line \in 1..Len(records) + 1
        /\ records \in Seq(Record)
    BY <1>2 DEF Flush, ImportInv, ImportAt, Complete
  <2>2. line = Len(records) + 1
    BY <2>1, LenProperties
  <2>3. ImportAt(step', file', order', line', pending', records', added', stored')
    BY <1>2, <2>2 DEF Flush, ImportInv, ImportAt
  <2>4. QED
    BY <1>2, <2>3, ImportNext DEF Flush
<1>3. CASE EndImport
  <2>1. /\ Rowed(stored) /\ Rowed(stored \o added) /\ pending = <<>>
        /\ history \in Seq(Entry) /\ written \in {"MDY", "DMY"} /\ order \in {"MDY", "DMY"}
    BY <1>3 DEF EndImport, ImportInv, ImportAt
  <2>2. /\ stored' \in {stored, stored \o added} /\ added' = <<>> /\ records' = <<>>
        /\ line' = 1 /\ step' = "idle" /\ order' = order /\ pending' = pending
    BY <1>3 DEF EndImport
  <2>3. Rowed(stored')
    BY <2>1, <2>2
  <2>4. <<>> \in Seq(Record) /\ stored' \o <<>> = stored'
    BY <2>3, EmptySeq, ConcatEmptySeq DEF Rowed
  <2>5. ImportAt(step', file', order', line', pending', records', added', stored')
    BY <2>1, <2>2, <2>3, <2>4 DEF ImportAt
  <2>6. QED
    BY <1>3, <2>5, ImportNext DEF EndImport
<1>4. QED
  BY <1>1, <1>2, <1>3, UploadStep, DetectStep, ParseStep, EndParseStep, InsertStep DEF ExportNext

\* What the invariant says of the records of a file.
LEMMA LinesHold == ImportInv => EveryLineFindsItsMessage
<1> SUFFICES ASSUME ImportInv, step \in {"insert", "flushed"}
             PROVE  LET starts == Keep(file, Firsts(file)) IN
                    /\ Len(records) = Len(starts)
                    /\ \A i \in 1..Len(records) :
                         LET m == starts[i].of IN
                         /\ records[i].of = m
                         /\ history[m].kind = "text" =>
                              records[i].body = [n \in 1..history[m].more + 1 |-> n]
  BY DEF EveryLineFindsItsMessage, Firsts
<1>1. Complete(records, Keep(file, Firsts(file)))
  BY DEF ImportInv, ImportAt
<1>2. QED
  BY <1>1 DEF Complete, SameOf, Whole, Begun, UpTo

\* parse_export_lines: whatever the messages and wherever the files begin and end, a
\* file becomes one record per message, and a text's has all its lines and no others.
THEOREM LinesFindTheirMessages == ExportSpec => []EveryLineFindsItsMessage
  BY LinesHold, ImportInit, ImportStep, PTL DEF ExportSpec

\* What the invariant says of the rows of the chat.
LEMMA RowsHold == ImportInv => FilesAgreeOnRows
<1> DEFINE x == stored \o added
           n == Len(x)
<1> SUFFICES ASSUME ImportInv
             PROVE  /\ step = "flushed" =>
                         \A i \in 1..Len(records) :
                           Cardinality({j \in 1..n :
                                          SyntheticId(x[j]) = SyntheticId(records[i])}) = 1
                    /\ Reliable =>
                         /\ \A j \in 1..n :
                              x[j].at = <<history[x[j].of].month, history[x[j].of].day>>
                         /\ \A i, j \in 1..n : x[i].of = x[j].of => i = j
  BY DEF FilesAgreeOnRows, Reliable
<1>1. /\ \A j \in 1..n : Whole(x[j])
      /\ \A i, j \in 1..n : SyntheticId(x[i]) = SyntheticId(x[j]) => i = j
  BY DEF ImportInv, ImportAt, Rowed
<1>2. ASSUME step = "flushed", NEW i \in 1..Len(records)
      PROVE  Cardinality({j \in 1..n : SyntheticId(x[j]) = SyntheticId(records[i])}) = 1
  <2>1. Covered(records, Len(records) + 1, x) /\ records \in Seq(Record)
    BY <1>2 DEF ImportInv, ImportAt, Complete
  <2> HIDE DEF x, n
  <2>2. i \in 1..(Len(records) + 1) - 1
    BY <2>1, LenProperties
  <2>3. PICK j \in 1..n : SyntheticId(x[j]) = SyntheticId(records[i])
    BY <2>1, <2>2 DEF Covered, n
  <2>4. {k \in 1..n : SyntheticId(x[k]) = SyntheticId(records[i])} = {j}
    BY <1>1, <2>3
  <2>5. QED
    BY <2>4, FS_Singleton
<1>3. ASSUME Reliable
      PROVE  /\ \A j \in 1..n : x[j].at = <<history[x[j].of].month, history[x[j].of].day>>
             /\ \A i, j \in 1..n : x[i].of = x[j].of => i = j
  <2> HIDE DEF x, n
  <2>1. \A j \in 1..n :
          LET m == x[j].of IN
          /\ x[j].at = <<history[m].month, history[m].day>>
          /\ x[j].says = history[m].says
          /\ x[j].body = IF history[m].kind = "media" THEN <<>> ELSE UpTo(history[m].more + 1)
    BY <1>1, <1>3 DEF Whole, Begun
  <2>2. ASSUME NEW i \in 1..n, NEW j \in 1..n, x[i].of = x[j].of PROVE i = j
    <3>1. SyntheticId(x[i]) = SyntheticId(x[j])
      BY <2>1, <2>2 DEF SyntheticId
    <3>2. QED
      BY <1>1, <3>1
  <2>3. QED
    BY <2>1, <2>2
<1>4. QED
  BY <1>2, <1>3

\* ingest_export: however many files are imported, whatever they share, and whether
\* their transactions commit, what a file holds has one row, and the messages of a
\* phone whose dates can be told have one row each, with their own dates.
THEOREM OneRowForEach == ExportSpec => []FilesAgreeOnRows
  BY RowsHold, ImportInit, ImportStep, PTL DEF ExportSpec

-----------------------------------------------------------------------------
(* Next to each other.                                                     *)

\* What holds of the one program that runs, and of the others at rest.
ContentInv ==
  /\ CutInv /\ VectorInv /\ TextInv
  /\ ImportInv
  /\ stage = "none" \/ (HeardInv /\ PieceInv)

\* A program at rest has nothing.
LEMMA RebuildRests == RebuildAtRest => CutInv /\ VectorInv /\ TextInv
<1> SUFFICES ASSUME RebuildAtRest PROVE CutInv /\ VectorInv /\ TextInv
  OBVIOUS
<1>1. /\ log = <<>> /\ phase = "done" /\ pos = 1 /\ start = 1 /\ sessions = <<>> /\ nth = 0
      /\ lines = <<>> /\ used = 0 /\ chunks = <<>> /\ vectors = <<>> /\ attempt = 0
      /\ rows = <<>>
  BY DEF RebuildAtRest
<1>2. Len(<<>>) = 0 /\ \A S : <<>> \in Seq(S)
  BY EmptySeq
<1>3. CutInv
  BY <1>1, <1>2 DEF CutInv, CutTypes, OpenSession, Chained, Maximal, Following
<1>4. RowsAreAligned
  BY <1>1, <1>2 DEF RowsAreAligned
<1>5. VectorInv
  BY <1>1, <1>2, <1>4 DEF VectorInv, ChunkTypes, Prefix
<1>6. TextInv
  BY <1>1, <1>2 DEF TextInv, TextTypes, Splitting, Unsplit, Finished
<1>7. QED
  BY <1>3, <1>5, <1>6

\* ... and nothing is imported.
LEMMA ImportsRest == ImportsAtRest => ImportInv
<1> SUFFICES ASSUME ImportsAtRest PROVE ImportInv
  OBVIOUS
<1>1. history \in Seq(Entry) /\ written \in {"MDY", "DMY"}
  BY EmptySeq DEF ImportsAtRest
<1>2. <<>> \in Seq(Record) /\ Len(<<>>) = 0 /\ <<>> \o <<>> = <<>>
  BY EmptySeq
<1>3. Rowed(<<>>)
  BY <1>2 DEF Rowed
<1>4. QED
  BY <1>1, <1>2, <1>3 DEF ImportsAtRest, NothingImported, ImportInv, ImportAt

\* A transcription at rest stays at rest.
LEMMA TranscriptRests == stage = "none" /\ [TranscriptNext]_voiceVars => stage' = "none"
  BY DEF TranscriptNext, voiceVars, HearWindow, HearNothing, Refuse, Merge, AddTurn, EndPieces

\* Whichever of the three runs, all that is promised of it holds, and of the others.
THEOREM ContentIsRight ==
  ContentSpec => [](/\ SessionsCoverLog /\ SessionsAreMaximal
                    /\ RowsAreAligned /\ EveryTextIsWritten
                    /\ EveryLineFindsItsMessage /\ FilesAgreeOnRows
                    /\ SpeechInPlace /\ FailsOnlyInSilence /\ PiecesCarryTheTranscript)
<1>1. ContentInit => ContentInv
  <2> SUFFICES ASSUME ContentInit PROVE ContentInv
    OBVIOUS
  <2>1. CutInv /\ VectorInv /\ TextInv
    BY CutInit, VectorInit, TextInit, RebuildRests DEF ContentInit
  <2>2. ImportInv
    BY ImportInit, ImportsRest DEF ContentInit
  <2>3. stage = "none" \/ (HeardInv /\ PieceInv)
    BY HeardInit, PieceInit DEF ContentInit, TranscriptAtRest
  <2>4. QED
    BY <2>1, <2>2, <2>3 DEF ContentInv
<1>2. ContentInv /\ [ContentNext]_contentVars => ContentInv'
  <2> SUFFICES ASSUME ContentInv, [ContentNext]_contentVars PROVE ContentInv'
    OBVIOUS
  <2>1. [Next]_vars /\ [ExportNext]_importVars /\ [TranscriptNext]_voiceVars
    BY DEF ContentNext, contentVars
  <2>2. (CutInv /\ VectorInv /\ TextInv)'
    BY <2>1, CutStep, VectorStep, TextStep DEF ContentInv
  <2>3. ImportInv'
    BY <2>1, ImportStep DEF ContentInv
  <2>4. (stage = "none" \/ (HeardInv /\ PieceInv))'
    BY <2>1, TranscriptRests, HeardStep, PieceStep DEF ContentInv
  <2>5. QED
    BY <2>2, <2>3, <2>4 DEF ContentInv
<1>3. stage = "none" => SpeechInPlace /\ FailsOnlyInSilence /\ PiecesCarryTheTranscript
  BY DEF SpeechInPlace, FailsOnlyInSilence, PiecesCarryTheTranscript
<1>4. ContentInv =>
        /\ SessionsCoverLog /\ SessionsAreMaximal
        /\ RowsAreAligned /\ EveryTextIsWritten
        /\ EveryLineFindsItsMessage /\ FilesAgreeOnRows
        /\ SpeechInPlace /\ FailsOnlyInSilence /\ PiecesCarryTheTranscript
  BY <1>3, CoverHolds, MaximalHolds, VectorsHold, TextsHold, LinesHold, RowsHold,
     SpeechHolds, SilenceHolds, PiecesHold DEF ContentInv
<1>5. QED
  BY <1>1, <1>2, <1>4, PTL DEF ContentSpec
=============================================================================
