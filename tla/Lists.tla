-------------------------------- MODULE Lists --------------------------------
(***************************************************************************)
(* Operators on lists that the models of the sequential parts share.  They *)
(* say what SelectSeq, a fold with + and SortSeq say, in recursive         *)
(* functions and sets of pairs, which ListLemmas can reason about.         *)
(***************************************************************************)
EXTENDS Naturals, Sequences, FiniteSets

\* The elements of s that are in S, in their order.
Keep(s, S) ==
  LET kept[i \in 0..Len(s)] ==
        IF i = 0 THEN <<>>
        ELSE IF s[i] \in S THEN Append(kept[i - 1], s[i]) ELSE kept[i - 1]
  IN kept[Len(s)]

\* The sum of a list of numbers.
Total(s) ==
  LET sum[i \in 0..Len(s)] == IF i = 0 THEN 0 ELSE sum[i - 1] + s[i]
  IN sum[Len(s)]

\* How many elements of S a set of pairs places before c.
Before(S, pairs, c) == Cardinality({d \in S : <<d, c>> \in pairs})

\* The elements of S in the order the pairs give.
Arrange(S, pairs) ==
  [k \in 1..Cardinality(S) |-> CHOOSE c \in S : Before(S, pairs, c) = k - 1]

\* The pairs of S that are sorted, and decide between any two elements.
Orders(S, pairs) ==
  /\ \A c \in S : <<c, c>> \notin pairs
  /\ \A c, d \in S : c = d \/ <<c, d>> \in pairs \/ <<d, c>> \in pairs
  /\ \A c, d, e \in S : <<c, d>> \in pairs /\ <<d, e>> \in pairs => <<c, e>> \in pairs
=============================================================================
