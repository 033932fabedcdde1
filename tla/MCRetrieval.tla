---------------------------- MODULE MCRetrieval ----------------------------
(***************************************************************************)
(* Small instances of Answer and, below it, Retrieval: t1, t2, t3 are      *)
(* texts, the last by a trusted author, v1 is a piece of a recording.      *)
(***************************************************************************)
EXTENDS Answer

CONSTANTS t1, t2, t3, v1

WeightOf == [t \in Texts |-> IF t \in Trusted THEN 2 * Neutral ELSE Neutral]

\* Monday, the first of a month; the first days of a year and of March of a leap
\* year; a Sunday night; the last hour of a year.
SomeClocks ==
  {[year |-> 2024, month |-> 1,  day |-> 1,  hour |-> 0],
   [year |-> 2024, month |-> 3,  day |-> 1,  hour |-> 9],
   [year |-> 2025, month |-> 1,  day |-> 2,  hour |-> 5],
   [year |-> 2024, month |-> 10, day |-> 13, hour |-> 23],
   [year |-> 2024, month |-> 12, day |-> 31, hour |-> 23]}

\* A question about no period; one about each phrase alone; two phrases at once; and
\* dates of the two years, with a four-digit year, a two-digit one, and no such day.
SomeQuestions ==
  [date : {<<>>}, phrases : {{}, {"yesterday", "lastWeek"}} \union {{p} : p \in Range(Precedence)}]
    \union [date : {<<[month |-> 12, day |-> 31, year |-> 2023]>>,
                    <<[month |-> 12, day |-> 31, year |-> 24]>>,
                    <<[month |-> 2,  day |-> 30, year |-> 2024]>>},
            phrases : {{}}]

\* The midnights at which days, weeks, months and years begin around a clock.
Turning(c) ==
  LET today == Ordinal(c.year, c.month, c.day) IN
  {Day * (today - n) : n \in {0, 1}}
    \union {Day * (today - (today % 7) - n) : n \in {0, 7}}
    \union {Midnight(c.year, c.month, 1), Midnight(c.year, 1, 1), Midnight(c.year - 1, 1, 1)}
    \union {IF c.month = 1 THEN Midnight(c.year - 1, 12, 1) ELSE Midnight(c.year, c.month - 1, 1)}

\* The last hour before and the first after each of them, and the present.
Marks(c) ==
  UNION {{t - 1, t} : t \in Turning(c)} \union {Midnight(c.year, c.month, c.day) + c.hour}

\* Up to two messages, in one session or two, or one recording.
SomePasts(c) ==
  [sessions : {<<>>} \union {<<<<a>>>> : a \in Marks(c)}
                \union {<<<<a>>, <<b>>>> : <<a, b>> \in {<<a, b>> \in Marks(c) \X Marks(c) : a < b}}
                \union {<<<<a, b>>>> : <<a, b>> \in {<<a, b>> \in Marks(c) \X Marks(c) : b = a + 1}},
   calls : {{}}]
  \union [sessions : {<<>>}, calls : {{[at |-> a, done |-> d]} : a \in Marks(c), d \in BOOLEAN}]
=============================================================================
