------------------------------- MODULE Answer -------------------------------
(***************************************************************************)
(* The answer to one question (answer_question in app/retrieval/           *)
(* answer.py): a question about a period is answered from the sessions and *)
(* recordings of that period, any other by the search of Retrieval; what   *)
(* was found is then put into words by Gemini or, when that fails, quoted. *)
(*                                                                         *)
(* Time is counted in hours, in days of Python's proleptic calendar; one   *)
(* hour stands for one second where the code subtracts one.  Regular       *)
(* expressions are left out: a question is what they find in it.           *)
(***************************************************************************)
EXTENDS Retrieval, Integers

CONSTANTS
  Questions,     \* what may be asked, see IsQuestion
  Clocks,        \* when it may be asked
  Pasts(_),      \* what the chat may hold at a time, see Past
  MaxListed      \* sessions a period's answer takes

\* Phrases are tried in this order.  "recently" names no hours ("lately", "what did I
\* miss"); "since" is a phrase whose hours are not read ("past year", "since Monday").
Precedence == <<"yesterday", "today", "thisWeek", "thisMonth", "thisYear", "lastWeek",
                "lastMonth", "lastYear", "lastNight", "lastDays", "pastWeek", "pastMonth",
                "since", "recently">>

\* Phrases that name a period the code does not look up: it takes the last three days,
\* or two.
Unread == {"pastWeek", "pastMonth", "since"}

\* The last year that has a next one in the calendar of datetime.
LastYear == 9998

\* date: nothing or one date as written, month first, the year with two or four
\* digits.  A question without date and phrases is not about a period.
Written == [month : 0..99, day : 0..99, year : 0..LastYear]

IsQuestion(q) ==
  /\ DOMAIN q = {"date", "phrases"}
  /\ q.date \in Seq(Written) /\ Len(q.date) <= 1
  /\ q.phrases \subseteq Range(Precedence)

Clock == [year : 1..LastYear, month : 1..12, day : 1..31, hour : 0..23]

\* sessions: the hours of the messages of each session, as the rebuild cuts them from
\* a sorted log; calls: when recordings were uploaded, and whether they are transcribed.
Past == [sessions : Seq(Seq(Nat)), calls : SUBSET [at : Nat, done : BOOLEAN]]

InOrder(ss) ==
  /\ \A i \in 1..Len(ss) : ss[i] # <<>> /\ \A j, k \in 1..Len(ss[i]) : j < k => ss[i][j] <= ss[i][k]
  /\ \A i, j \in 1..Len(ss) : i < j => Last(ss[i]) <= ss[j][1]

ASSUME AnswerAssumption ==
  /\ \A q \in Questions : IsQuestion(q)
  /\ Clocks \subseteq Clock
  /\ \A c \in Clocks : \A p \in Pasts(c) : p \in Past /\ InOrder(p.sessions)
  /\ MaxListed \in Nat

VARIABLES
  question,
  clock,
  past,
  at,        \* "routing", "searching", "listing", "listening", "writing",
             \* "answered" or "refused"
  period,    \* the first and the last hour a question is about
  listed,    \* sessions the answer lists
  recalled,  \* recordings the answer lists
  requests,  \* requests sent to Gemini
  said       \* the answer: "whole", "cut" or "quotes"; "" for none yet

asked == <<question, clock, past>>
answerVars == <<asked, at, period, listed, recalled, requests, said>>

AnswerTypeOK ==
  /\ question \in Questions
  /\ clock \in Clocks
  /\ at \in {"routing", "searching", "listing", "listening", "writing", "answered", "refused"}
  /\ period \in Int \X Int
  /\ listed \in Seq(Seq(Nat))
  /\ recalled \subseteq past.calls
  /\ requests \in 0..2
  /\ said \in {"", "whole", "cut", "quotes"}

AnswerInit ==
  /\ RetrievalInit
  /\ question \in Questions
  /\ clock \in Clocks
  /\ past \in IF question.date = <<>> /\ question.phrases = {}
                THEN {[sessions |-> <<>>, calls |-> {}]} ELSE Pasts(clock)
  /\ at = "routing"
  /\ period = <<0, 0>>
  /\ listed = <<>>
  /\ recalled = {}
  /\ requests = 0
  /\ said = ""

-----------------------------------------------------------------------------
(* datetime.                                                               *)

Day == 24

Leap(year) == year % 4 = 0 /\ (year % 100 = 0 => year % 400 = 0)

DaysBefore == <<0, 31, 59, 90, 120, 151, 181, 212, 243, 273, 304, 334>>

\* Days since the beginning of year 1, a Monday.
Ordinal(year, month, day) ==
  LET y == year - 1 IN
  365 * y + y \div 4 - y \div 100 + y \div 400
    + DaysBefore[month] + (IF month > 2 /\ Leap(year) THEN 1 ELSE 0) + day - 1

Midnight(year, month, day) == Day * Ordinal(year, month, day)

DaysIn(year, month) ==
  IF month = 12 THEN 31 ELSE Ordinal(year, month + 1, 1) - Ordinal(year, month, 1)

\* datetime.now() is a day that exists.
ASSUME ClockAssumption == \A c \in Clocks : c.day <= DaysIn(c.year, c.month)

Now == Midnight(clock.year, clock.month, clock.day) + clock.hour

FloorDay(t)    == t - (t % Day)
CeilDay(t)     == FloorDay(t) + Day - 1
StartOfWeek(t) == FloorDay(t) - Day * ((t \div Day) % 7)

-----------------------------------------------------------------------------
(* Faulty variants: mistakes the properties must catch.  No specification  *)
(* below uses them.                                                        *)

\* LastMonth that forgets that January follows December of another year.
LastMonthThisYear ==
  <<Midnight(clock.year, ((clock.month - 2) % 12) + 1, 1), Midnight(clock.year, clock.month, 1)>>

\* IsText that does not look at finish_reason.
IsAnyText(reply) == reply # "none"

-----------------------------------------------------------------------------
(* _parse_time_range.                                                      *)

LastMonth ==
  LET previous == ((clock.month - 2) % 12) + 1
      year     == IF clock.month > 1 THEN clock.year ELSE clock.year - 1
  IN  <<Midnight(year, previous, 1), Midnight(clock.year, clock.month, 1)>>

Relative ==
  [yesterday |-> <<FloorDay(Now - Day), CeilDay(Now - Day)>>,
   today     |-> <<FloorDay(Now), Now>>,
   thisWeek  |-> <<StartOfWeek(Now), Now>>,
   thisMonth |-> <<Midnight(clock.year, clock.month, 1), Now>>,
   thisYear  |-> <<Midnight(clock.year, 1, 1), Now>>,
   lastWeek  |-> <<StartOfWeek(Now - 7 * Day), StartOfWeek(Now)>>,
   lastMonth |-> LastMonth,
   lastYear  |-> <<Midnight(clock.year - 1, 1, 1), Midnight(clock.year, 1, 1)>>,
   lastNight |-> <<FloorDay(Now - Day) + 22, FloorDay(Now) + 6>>,
   lastDays  |-> <<Now - 3 * Day, Now>>,
   pastWeek  |-> <<Now - 3 * Day, Now>>,
   pastMonth |-> <<Now - 3 * Day, Now>>,
   since     |-> <<Now - 2 * Day, Now>>,
   recently  |-> <<Now - 2 * Day, Now>>]

\* Two-digit years from 70 on are read as 20xx, the others as 19xx.
YearOf(written) ==
  IF written >= 100 THEN written
  ELSE IF written >= 70 THEN 2000 + written ELSE 1900 + written

Dated(d) ==
  LET midnight == Midnight(YearOf(d.year), d.month, d.day) IN
  <<FloorDay(midnight), CeilDay(midnight)>>

\* datetime() raises for a date that does not exist, and the phrases are tried.
Exists(d) == d.month \in 1..12 /\ d.day \in 1..DaysIn(YearOf(d.year), d.month)

PhraseOf(q) ==
  LET named == {i \in 1..Len(Precedence) : Precedence[i] \in q.phrases} IN
  IF named = {} THEN "recently" ELSE Precedence[Min(named)]

PeriodOf(q) ==
  IF q.date # <<>> /\ Exists(Head(q.date)) THEN Dated(Head(q.date)) ELSE Relative[PhraseOf(q)]

-----------------------------------------------------------------------------
(* answer_question.                                                        *)

\* route_question; the periods are closed at both ends.
Route ==
  /\ at = "routing"
  /\ IF question.date = <<>> /\ question.phrases = {}
       THEN /\ at' = "searching"
            /\ UNCHANGED period
       ELSE /\ at' = "listing"
            /\ period' = PeriodOf(question)
  /\ UNCHANGED <<retrievalVars, asked, listed, recalled, requests, said>>

\* The question's embedding, a statement or the making of Gemini's client fails, which
\* nothing here catches: /ask answers with an error, the reply worker apologises.
Raise ==
  /\ \/ at \in {"searching", "listing", "listening"}
     \/ at = "writing" /\ requests = 0
  /\ at' = "refused"
  /\ UNCHANGED <<retrievalVars, asked, period, listed, recalled, requests, said>>

\* Retrieval; whatever it found, or that it found nothing, is put into words.
Search ==
  /\ at = "searching"
  /\ RetrievalNext
  /\ at' = IF progress' = "answered" THEN "writing" ELSE at
  /\ UNCHANGED <<asked, period, listed, recalled, requests, said>>

-----------------------------------------------------------------------------
(* _answer_time_range.  A rebuild next to it changes nothing: the sessions *)
(* are read in one statement, and messages keep their ids.                 *)

Overlaps(session) == session[1] <= period[2] /\ Last(session) >= period[1]

\* The sessions that overlap the period, the oldest ones if there are too many.
ListSessions ==
  LET overlapping == Keep(past.sessions, {s \in Range(past.sessions) : Overlaps(s)}) IN
  /\ at = "listing"
  /\ listed' = SubSeq(overlapping, 1, Lowest(MaxListed, Len(overlapping)))
  /\ at' = "listening"
  /\ UNCHANGED <<retrievalVars, asked, period, recalled, requests, said>>

\* Recordings uploaded in the period, if they are transcribed.
ListRecordings ==
  /\ at = "listening"
  /\ recalled' = {c \in past.calls : c.done /\ c.at \in period[1]..period[2]}
  /\ at' = "writing"
  /\ UNCHANGED <<retrievalVars, asked, period, listed, requests, said>>

-----------------------------------------------------------------------------
(* _apply_answer_provider, _gemini_synthesize.                             *)

\* answer_provider is not "gemini", or there is no key: the answer is the quotations.
QuoteOnly ==
  /\ at = "writing"
  /\ requests = 0
  /\ said' = "quotes"
  /\ at' = "answered"
  /\ UNCHANGED <<retrievalVars, asked, period, listed, recalled, requests>>

\* finish_reason: a text that ran into the limit is not one.
IsText(reply) == reply \notin {"cut", "none"}

\* A request brings a text, whole or cut off, or none: an empty one or an exception.
\* Without a text there is a second request, and then the quotations.
Write ==
  /\ at = "writing"
  /\ requests' = requests + 1
  /\ \E reply \in {"whole", "cut", "none"} :
       \/ IsText(reply) /\ said' = reply /\ at' = "answered"
       \/ ~IsText(reply) /\ requests = 0 /\ UNCHANGED <<said, at>>
       \/ ~IsText(reply) /\ requests = 1 /\ said' = "quotes" /\ at' = "answered"
  /\ UNCHANGED <<retrievalVars, asked, period, listed, recalled>>

-----------------------------------------------------------------------------

AnswerNext ==
  \/ Route \/ Search \/ Raise
  \/ ListSessions \/ ListRecordings
  \/ QuoteOnly \/ Write

\* A question is answered in one thread; every statement and request returns.
AnswerSpec ==
  /\ AnswerInit
  /\ [][AnswerNext]_<<retrievalVars, answerVars>>
  /\ WF_<<retrievalVars, answerVars>>(AnswerNext)

-----------------------------------------------------------------------------
(* Properties.                                                             *)

WeekAt(t) == (t \div Day) \div 7

\* Months are counted from the beginning of year 0.
BeginOf(m)    == Midnight(m \div 12, (m % 12) + 1, 1)
InMonth(t, m) == BeginOf(m) <= t /\ t < BeginOf(m + 1)
MonthsNear    == 12 * (clock.year - 2)..12 * clock.year + 11

\* Questions about one period that the code sets out to look up: one date, its year
\* in full (see DatesAreCovered for the others), or one phrase it reads.
IsRead(q) ==
  \/ Len(q.date) = 1 /\ q.phrases = {} /\ Head(q.date).year > 99
  \/ q.date = <<>> /\ Cardinality(q.phrases) = 1 /\ q.phrases \intersect Unread = {}

\* The hours a phrase names.  Those without a length ("last few days", "lately") are
\* taken for the last two days at least.
Meant(p, t) ==
  CASE p = "yesterday" -> t \div Day = Now \div Day - 1
    [] p = "today"     -> t \div Day = Now \div Day
    [] p = "thisWeek"  -> WeekAt(t) = WeekAt(Now)
    [] p = "thisMonth" -> \E m \in MonthsNear : InMonth(Now, m) /\ InMonth(t, m)
    [] p = "thisYear"  -> \E m \in MonthsNear :
                            /\ InMonth(Now, m)
                            /\ \E n \in MonthsNear : InMonth(t, n) /\ n \div 12 = m \div 12
    [] p = "lastWeek"  -> WeekAt(t) = WeekAt(Now) - 1
    [] p = "lastMonth" -> \E m \in MonthsNear : InMonth(Now, m) /\ InMonth(t, m - 1)
    [] p = "lastYear"  -> \E m \in MonthsNear :
                            /\ InMonth(Now, m)
                            /\ \E n \in MonthsNear : InMonth(t, n) /\ n \div 12 = m \div 12 - 1
    [] p = "lastNight" -> t \in FloorDay(Now) - 2..FloorDay(Now) + 5
    [] p \in {"lastDays", "recently"} -> t > Now - 2 * Day
    [] OTHER -> FALSE

\* The hours such a question names.
Names(q, t) ==
  IF q.date # <<>>
    THEN LET d == Head(q.date) IN
         Exists(d) /\ t \div Day = Ordinal(d.year, d.month, d.day)
    ELSE \E p \in q.phrases : Meant(p, t)

\* The session is listed, or the list is full of earlier ones.
Listed(s) ==
  \/ s \in Range(listed)
  \/ Len(listed) = MaxListed /\ \A l \in Range(listed) : Last(l) <= s[1]

\* An answer about a period the code reads leaves out no message and no transcribed
\* recording of it.  "Past week", "past month", "since ..." and dates with a two-digit
\* year are not among them.
PeriodIsCovered ==
  at \in {"writing", "answered"} /\ IsRead(question) =>
    /\ \A s \in Range(past.sessions) :
         (\E i \in 1..Len(s) : s[i] <= Now /\ Names(question, s[i])) => Listed(s)
    /\ \A c \in past.calls : c.done /\ c.at <= Now /\ Names(question, c.at) => c \in recalled

\* A date may be written 11/12/24 as well as 11/12/2024 (answer.py says so twice): an
\* answer about a day of this century, its year in two digits, leaves out no message
\* of that day.  The code reads 24 as 1924.
DatesAreCovered ==
  at \in {"writing", "answered"} /\ question.date # <<>> =>
    LET d == Head(question.date)
        year == 2000 + d.year
    IN  d.year < 100 /\ d.month \in 1..12 /\ d.day \in 1..DaysIn(year, d.month) =>
          \A s \in Range(past.sessions) :
            (\E i \in 1..Len(s) : s[i] <= Now /\ s[i] \div Day = Ordinal(year, d.month, d.day)) =>
              Listed(s)

\* Every question gets an answer, whole or as quotations, or is seen to fail: a text
\* that was cut off is never sent, and nothing is tried forever.
AnsweredInFull ==
  at = "routing" ~> at = "refused" \/ (at = "answered" /\ said \in {"whole", "quotes"})
=============================================================================
