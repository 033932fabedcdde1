------------------------------ MODULE Retrieval ------------------------------
(***************************************************************************)
(* The semantic answer to one question (hybrid_search in                   *)
(* app/retrieval/search.py, _answer_semantic in answer.py) next to live    *)
(* ingest, which replaces the text chunks of the chat whenever it commits. *)
(*                                                                         *)
(* The answer takes four statements in one READ COMMITTED transaction: two *)
(* searches, the lookup of the authors for the trust boost, and the chunks *)
(* that are quoted.  Each sees the chunks committed when it runs.  A       *)
(* rebuild gives every piece of text a new chunk id; voice chunks keep     *)
(* theirs.                                                                 *)
(***************************************************************************)
EXTENDS Lists, SequencesExt, FiniteSetsExt

CONSTANTS
  Texts,        \* pieces of text the chat's sessions are cut into
  Voices,       \* pieces of voice recordings
  Neutral,      \* trust weight 1.0 in the unit of Weight
  Weight,       \* product of the trust weights of a text's authors
  Trusted,      \* texts with an author in trusted_senders
  TopK,         \* retrieval_top_k
  RrfK,         \* retrieval_rrf_k
  MaxRebuilds   \* bound of the model: rebuilds that commit in a run

ASSUME RetrievalAssumption ==
  /\ Texts \intersect Voices = {}
  /\ Weight \in [Texts -> Nat]
  /\ Trusted \subseteq Texts
  /\ {Neutral, TopK, RrfK, MaxRebuilds} \subseteq Nat

VARIABLES
  generation,   \* rebuilds committed so far
  progress,     \* "vector", "keyword", "fuse", "boost", "quote" or "answered"
  near,         \* hits of the vector search, best first
  matching,     \* hits of the keyword search, best first
  fused,        \* the two lists merged and cut
  ranked,       \* the same after the trust boost
  quoted,       \* the chunks the answer quotes
  before        \* the generation the first search saw (history)

retrievalVars == <<generation, progress, near, matching, fused, ranked, quoted, before>>

Chunks == (Texts \X (0..MaxRebuilds)) \union (Voices \X {0})

\* The chunks a statement sees now.
Current == (Texts \X {generation}) \union (Voices \X {0})

Hits == {s \in BoundedSeq(Chunks, TopK) : IsInjective(s)}

RetrievalTypeOK ==
  /\ generation \in 0..MaxRebuilds
  /\ progress \in {"vector", "keyword", "fuse", "boost", "quote", "answered"}
  /\ {near, matching, fused, ranked, quoted} \subseteq Hits
  /\ before \in 0..generation

RetrievalInit ==
  /\ generation = 0
  /\ progress = "vector"
  /\ near = <<>>
  /\ matching = <<>>
  /\ fused = <<>>
  /\ ranked = <<>>
  /\ quoted = <<>>
  /\ before = 0

Lowest(a, b) == IF a < b THEN a ELSE b

\* The rank of a hit in a list, 0 when it is not there.
Place(list, c) == SelectInSeq(list, LAMBDA d : d = c)

-----------------------------------------------------------------------------
(* Faulty variants: mistakes the properties must catch.  No specification  *)
(* below uses them.                                                        *)

\* ScoreIn that is not inverted: the later a hit, the more it counts.
ScoreByRank(list, c) == IF c \in Range(list) THEN RrfK + Place(list, c) ELSE 0

-----------------------------------------------------------------------------
(* Scores.                                                                 *)

\* 1 / (RrfK + rank), over the common denominator of all ranks.
Share ==
  [rank \in 1..TopK |->
     LET product[r \in 0..TopK] ==
           IF r = 0 THEN 1 ELSE product[r - 1] * (IF r = rank THEN 1 ELSE RrfK + r)
     IN product[TopK]]

ScoreIn(list, c) == IF c \in Range(list) THEN Share[Place(list, c)] ELSE 0

Score(c) == ScoreIn(near, c) + ScoreIn(matching, c)

\* Voice chunks carry no message ids, and chunks that are gone no authors.
Factor(c, seen) == IF c \in seen /\ c[1] \in Texts THEN Weight[c[1]] ELSE Neutral

Boosted(c, seen) == Score(c) * Factor(c, seen)

\* The scores are a dict: its keys stay in the order of the vector hits, then of
\* the keyword hits that are not among them.
Arrival(c) ==
  IF c \in Range(near) THEN Place(near, c) ELSE Len(near) + Place(matching, c)

\* sorted() by score is stable.
Ahead(c, d) ==
  \/ Score(c) > Score(d)
  \/ Score(c) = Score(d) /\ Arrival(c) < Arrival(d)

Found == Range(near) \union Range(matching)

Fusion ==
  [k \in 1..Cardinality(Found) |->
     CHOOSE c \in Found : Cardinality({d \in Found : Ahead(d, c)}) = k - 1]

-----------------------------------------------------------------------------
(* More faulty variants, of the statements of the answer.                  *)

\* Quote what the searches found, without looking at the chunks again.
QuoteHits ==
  /\ progress = "quote"
  /\ quoted' = ranked
  /\ progress' = "answered"
  /\ UNCHANGED <<generation, near, matching, fused, ranked, before>>

\* Quote nothing when one of the chunks is gone.
QuoteAllOrNone ==
  /\ progress = "quote"
  /\ quoted' = IF Range(ranked) \subseteq Current THEN ranked ELSE <<>>
  /\ progress' = "answered"
  /\ UNCHANGED <<generation, near, matching, fused, ranked, before>>

-----------------------------------------------------------------------------
(* hybrid_search.                                                          *)

\* The nearest chunks of the chat: any order, as many as there are up to TopK.
SearchVectors ==
  /\ progress = "vector"
  /\ \E hits \in Hits :
       /\ Range(hits) \subseteq Current
       /\ Len(hits) = Lowest(TopK, Cardinality(Current))
       /\ near' = hits
  /\ before' = generation
  /\ progress' = "keyword"
  /\ UNCHANGED <<generation, matching, fused, ranked, quoted>>

\* The chunks with the question's words: any, none for an empty query.
SearchKeywords ==
  /\ progress = "keyword"
  /\ \E hits \in Hits : Range(hits) \subseteq Current /\ matching' = hits
  /\ progress' = "fuse"
  /\ UNCHANGED <<generation, near, fused, ranked, quoted, before>>

\* _rrf, cut to TopK before any boost.  Nothing found ends the answer.
FuseHits ==
  /\ progress = "fuse"
  /\ fused' = SubSeq(Fusion, 1, Lowest(TopK, Cardinality(Found)))
  /\ progress' = IF fused' = <<>> THEN "answered" ELSE "boost"
  /\ UNCHANGED <<generation, near, matching, ranked, quoted, before>>

\* _apply_trust_boost: the authors of the chunks that are still there.  With a
\* trusted one among them the list is sorted by boosted score and chunk id; ids
\* are random, so equal scores come in any order.
Boost ==
  LET seen == Range(fused) \intersect Current IN
  /\ progress = "boost"
  /\ IF \E c \in seen : c[1] \in Trusted
       THEN \E order \in SetToSeqs(Range(fused)) :
              /\ \A i, j \in 1..Len(order) :
                   i < j => Boosted(order[i], seen) >= Boosted(order[j], seen)
              /\ ranked' = order
       ELSE ranked' = fused
  /\ progress' = "quote"
  /\ UNCHANGED <<generation, near, matching, fused, quoted, before>>

\* _answer_semantic reads the chunks again and skips those that are gone.
Quote ==
  /\ progress = "quote"
  /\ quoted' = Keep(ranked, Current)
  /\ progress' = "answered"
  /\ UNCHANGED <<generation, near, matching, fused, ranked, before>>

\* A rebuild of the chat commits: new ids for every piece of text.
CommitRebuild ==
  /\ generation < MaxRebuilds
  /\ generation' = generation + 1
  /\ UNCHANGED <<progress, near, matching, fused, ranked, quoted, before>>

-----------------------------------------------------------------------------

RetrievalNext ==
  \/ SearchVectors \/ SearchKeywords \/ FuseHits \/ Boost \/ Quote
  \/ CommitRebuild

RetrievalSpec == RetrievalInit /\ [][RetrievalNext]_retrievalVars

-----------------------------------------------------------------------------
(* Properties.                                                             *)

\* A piece of text is quoted once at most, although the two searches may have
\* found it under the ids of two generations.
QuotedOnce ==
  \A i, j \in 1..Len(quoted) : quoted[i][1] = quoted[j][1] => i = j

\* An answer loses what a rebuild replaced while it was made, and nothing else:
\* pieces of recordings and texts that are still there are quoted, in the order
\* of the ranking.
LostToRebuild ==
  progress = "answered" =>
    /\ \A c \in Range(ranked) \ Range(quoted) : c[1] \in Texts /\ c[2] # generation
    /\ before = generation => quoted = ranked

\* A chunk that both searches rank above another one comes before it.
FusionAgrees ==
  progress \in {"boost", "quote", "answered"} =>
    \A c, d \in Range(near) \intersect Range(matching) :
      /\ Place(near, c) < Place(near, d)
      /\ Place(matching, c) < Place(matching, d)
      /\ d \in Range(fused)
      => /\ c \in Range(fused)
         /\ Place(fused, c) < Place(fused, d)
=============================================================================
