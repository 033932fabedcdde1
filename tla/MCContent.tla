----------------------------- MODULE MCContent -----------------------------
(***************************************************************************)
(* Small instances of Content.                                             *)
(***************************************************************************)
EXTENDS Content

CONSTANTS MaxLength, Silences, Lengths, Durations, MaxTurns, Days, MaxMessagesOut

\* All logs of up to n messages, each a silence after the one before.  Two silences
\* of one minute each are longer than the gap: measured from the start of the
\* session, they would cut it.
LogsUpTo(n) ==
  UNION {{[i \in 1..k |-> [at    |-> FoldSeq(+, 0, SubSeq(silence, 1, i)),
                           chars |-> chars[i]]] :
            silence \in [1..k -> Silences], chars \in [1..k -> Lengths]} : k \in 0..n}

AllLogs == LogsUpTo(MaxLength)

\* Histories of texts of one or two lines and placeholders with a line below, on the
\* given days of March; texts with the same number of lines and day are the same.
Sayings ==
  [kind : {"text"}, day : Days, month : {3}, says : {1}, more : {0, 1}]
    \union [kind : {"media"}, day : Days, month : {3}, says : {2}, more : {1}]

AllHistories ==
  {h \in UNION {[1..n -> Sayings] : n \in 1..MaxMessagesOut} :
     \A i \in 2..Len(h) : h[i - 1].day <= h[i].day}

\* Recordings of the given lengths (0 is unknown: a short one) with up to MaxTurns
\* turns one after another, a longer turn with a longer line.
Turns(length) ==
  {[from |-> a, to |-> b, chars |-> 3 * (b - a) + 2] :
     <<a, b>> \in {<<a, b>> \in (0..length) \X (0..length) :
        a < b /\ (length > WindowLength => b <= ((a \div WindowLength) + 1) * WindowLength)}}

AllRecordings ==
  UNION {{[length |-> n, speech |-> s] :
            s \in {s \in UNION {[1..k -> Turns(IF n = 0 THEN WindowLength ELSE n)] :
                                  k \in 0..MaxTurns} :
                     \A i \in 2..Len(s) : s[i - 1].to <= s[i].from}} : n \in Durations}
=============================================================================
