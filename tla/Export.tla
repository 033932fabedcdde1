------------------------------- MODULE Export -------------------------------
(***************************************************************************)
(* Imports of a chat's exported .txt files (app/ingest/                    *)
(* whatsapp_export_parser.py and _insert_messages in app/routes_ingest.py):*)
(* the order of day and month is guessed from the first lines, the lines   *)
(* are gathered into records, and records without a row yet are inserted.  *)
(* The rebuild that follows in the same transaction is module Rebuild.     *)
(*                                                                         *)
(* The phone's history is the model's input; a file holds a stretch of it, *)
(* so that files of one chat may overlap.  The four line formats, AM/PM,   *)
(* years and clock times are left out: a date stands for a point in time.  *)
(***************************************************************************)
EXTENDS Lists, SequencesExt

CONSTANTS
  Histories,    \* what may have been written in the chat, oldest first
  DateOrders,   \* subset of {"MDY", "DMY"}: how the phone may write a date
  SampleLines,  \* _SAMPLE_LINES
  MaxImports    \* bound of the model: files imported one after another

\* says: author and words of the message; more: how many lines follow its first.
\* "media" has nothing but a placeholder on its first line; system messages are
\* gathered like any text.
Entry == [kind : {"text", "media"}, day : 1..31, month : 1..12, says : Nat, more : Nat]

ASSUME ExportAssumption ==
  /\ Histories \subseteq Seq(Entry)
  /\ DateOrders \subseteq {"MDY", "DMY"}
  /\ {SampleLines, MaxImports} \subseteq Nat
  /\ SampleLines > 1     \* the notice and a first line; the code samples 50

VARIABLES
  history,
  written,     \* the date order of the phone
  imports,     \* imports begun
  step,        \* "idle", "detect", "parse", "insert" or "flushed"
  file,        \* its lines: the message a line belongs to, and its number there
  order,       \* the date order the parser assumes
  line,        \* the line or record the loop is at
  pending,     \* the record being gathered, <<>> or <<record>>
  records,     \* parsed records
  added,       \* rows the open transaction has inserted
  stored       \* committed rows of the chat

importVars == <<history, written, imports, step, file, order, line, pending,
                records, added, stored>>

NoDate == <<0, 0>>

\* body: the numbers of the lines a record has kept, 1 for the first; empty is None.
\* of: the message its first line is from (history); a record is known by the rest.
Record == [of : Nat, says : Nat, at : Nat \X Nat, body : Seq(Nat)]

ExportTypeOK ==
  /\ imports \in 0..MaxImports
  /\ step \in {"idle", "detect", "parse", "insert", "flushed"}
  /\ file \in Seq([of : Nat, number : Nat])
  /\ {written, order} \subseteq {"MDY", "DMY"}
  /\ line \in Nat
  /\ pending \in {<<>>} \union {<<r>> : r \in {pending[i] : i \in 1..Len(pending)}}
  /\ pending \o records \o added \o stored \in Seq(Record)

NothingImported ==
  /\ step = "idle"
  /\ file = <<>>
  /\ order = "MDY"
  /\ line = 1
  /\ pending = <<>>
  /\ records = <<>>
  /\ added = <<>>
  /\ stored = <<>>

ExportInit ==
  /\ history \in Histories
  /\ written \in DateOrders
  /\ imports = 0
  /\ NothingImported

-----------------------------------------------------------------------------
(* The file.                                                               *)

LinesOf(m) == [n \in 1..history[m].more + 1 |-> [of |-> m, number |-> n]]

\* A line of the notice some phones put before the first message.
Preamble == [of |-> 0, number |-> 2]

StartsMessage(l) == l.number = 1

\* The two numbers at the beginning of a message's first line.
DateOn(l) ==
  LET m == history[l.of] IN
  IF written = "MDY" THEN <<m.month, m.day>> ELSE <<m.day, m.month>>

\* _parse_local_datetime: month and day, or None for a month above twelve.
ReadDate(pair, as) ==
  LET month == IF as = "MDY" THEN pair[1] ELSE pair[2]
      day   == IF as = "MDY" THEN pair[2] ELSE pair[1]
  IN IF month <= 12 THEN <<month, day>> ELSE NoDate

\* A first line's record; _classify_body leaves nothing of a placeholder.
RecordOf(l) ==
  [of   |-> l.of,
   says |-> history[l.of].says,
   at   |-> ReadDate(DateOn(l), order),
   body |-> IF history[l.of].kind = "media" THEN <<>> ELSE <<1>>]

\* synthetic_message_id: a hash of chat, author, time and body.
SyntheticId(r) == <<r.says, r.at, r.body>>

Sample == SubSeq(file, 1, IF Len(file) < SampleLines THEN Len(file) ELSE SampleLines)

\* The sampled dates that are valid when read in an order.
Valid(as) ==
  {i \in 1..Len(Sample) :
     StartsMessage(Sample[i]) /\ ReadDate(DateOn(Sample[i]), as) # NoDate}

-----------------------------------------------------------------------------
(* Faulty variants: mistakes the properties must catch.  No specification  *)
(* below uses them.                                                        *)

\* EndParse without the last flush.
EndParseUnflushed ==
  /\ step = "parse"
  /\ line > Len(file)
  /\ pending' = <<>>
  /\ line' = 1
  /\ step' = "insert"
  /\ UNCHANGED <<history, written, imports, file, order, records, added, stored>>

\* InsertRecord that only knows the rows of earlier imports.
InsertUnseen ==
  LET r == records[line] IN
  /\ step = "insert"
  /\ line <= Len(records)
  /\ line' = line + 1
  /\ added' = IF SyntheticId(r) \in {SyntheticId(s) : s \in Range(stored)}
                THEN added ELSE Append(added, r)
  /\ UNCHANGED <<history, written, imports, step, file, order, pending, records, stored>>

-----------------------------------------------------------------------------
(* parse_export.                                                           *)

\* Somebody uploads an export that begins and ends at any message.
Upload ==
  /\ step = "idle"
  /\ imports < MaxImports
  /\ \E from, to \in 1..Len(history) :
       /\ from <= to
       /\ file' = <<Preamble>> \o
                  FlattenSeq([i \in 1..to + 1 - from |-> LinesOf(from + i - 1)])
  /\ imports' = imports + 1
  /\ step' = "detect"
  /\ UNCHANGED <<history, written, order, line, pending, records, added, stored>>

\* _detect_date_order: days first only when no sampled date is valid months first.
DetectOrder ==
  /\ step = "detect"
  /\ order' = IF Valid("MDY") = {} /\ Valid("DMY") # {} THEN "DMY" ELSE "MDY"
  /\ step' = "parse"
  /\ UNCHANGED <<history, written, imports, file, line, pending, records, added, stored>>

\* parse_export_lines: a first line closes the record before it; another line goes
\* to the pending record if that has a body, and is dropped if it has none.
ParseLine ==
  LET l == file[line] IN
  /\ step = "parse"
  /\ line <= Len(file)
  /\ line' = line + 1
  /\ \/ /\ StartsMessage(l)
        /\ records' = records \o pending
        /\ pending' = <<RecordOf(l)>>
     \/ /\ ~ StartsMessage(l)
        /\ pending' = [i \in 1..Len(pending) |->
                         IF pending[i].body = <<>> THEN pending[i]
                         ELSE [pending[i] EXCEPT !.body = Append(@, l.number)]]
        /\ UNCHANGED records
  /\ UNCHANGED <<history, written, imports, step, file, order, added, stored>>

\* The last flush.
EndParse ==
  /\ step = "parse"
  /\ line > Len(file)
  /\ records' = records \o pending
  /\ pending' = <<>>
  /\ line' = 1
  /\ step' = "insert"
  /\ UNCHANGED <<history, written, imports, file, order, added, stored>>

-----------------------------------------------------------------------------
(* ingest_export.                                                          *)

\* _insert_messages: a record whose id is stored, or was met in this file, is
\* skipped.
InsertRecord ==
  LET r == records[line] IN
  /\ step = "insert"
  /\ line <= Len(records)
  /\ line' = line + 1
  /\ added' = IF SyntheticId(r) \in {SyntheticId(s) : s \in Range(stored \o added)}
                THEN added ELSE Append(added, r)
  /\ UNCHANGED <<history, written, imports, step, file, order, pending, records, stored>>

Flush ==
  /\ step = "insert"
  /\ line > Len(records)
  /\ step' = "flushed"
  /\ UNCHANGED <<history, written, imports, file, order, line, pending, records,
                 added, stored>>

\* The rebuild went well and the transaction commits, or it raised and everything
\* is rolled back.
EndImport ==
  /\ step = "flushed"
  /\ stored' \in {stored, stored \o added}
  /\ added' = <<>>
  /\ records' = <<>>
  /\ file' = <<>>
  /\ line' = 1
  /\ step' = "idle"
  /\ UNCHANGED <<history, written, imports, order, pending>>

-----------------------------------------------------------------------------

ExportNext ==
  \/ Upload \/ DetectOrder \/ ParseLine \/ EndParse
  \/ InsertRecord \/ Flush \/ EndImport

ExportSpec == ExportInit /\ [][ExportNext]_importVars

-----------------------------------------------------------------------------
(* Properties.                                                             *)

\* A file becomes one record per message, in order, and the record of a text has all
\* lines of its message and no others.  Nothing is said here of the lines below a
\* lone placeholder: LinesAreReattached does not hold of them.
EveryLineFindsItsMessage ==
  step \in {"insert", "flushed"} =>
    LET starts == Keep(file, {l \in Range(file) : StartsMessage(l)}) IN
    /\ Len(records) = Len(starts)
    /\ \A i \in 1..Len(records) :
         LET m == starts[i].of IN
         /\ records[i].of = m
         /\ history[m].kind = "text" =>
              records[i].body = [n \in 1..history[m].more + 1 |-> n]

\* What the parser's docstring says: "every line that does NOT start a new message is
\* a continuation line and is re-attached to the previous message's body".
LinesAreReattached ==
  step \in {"insert", "flushed"} =>
    \A i \in 1..Len(records) :
      2..history[records[i].of].more + 1 \subseteq Range(records[i].body)

\* Whatever stretches of the chat the files share, each message has one row with its
\* own date, if the phone writes months first or only wrote after the twelfth; and
\* what a file holds is never missing: each record has one row with its author,
\* date and text.
FilesAgreeOnRows ==
  LET rowsNow == stored \o added IN
  /\ step = "flushed" =>
       \A i \in 1..Len(records) :
         Cardinality({j \in 1..Len(rowsNow) :
                        SyntheticId(rowsNow[j]) = SyntheticId(records[i])}) = 1
  /\ (written = "MDY" \/ \A m \in 1..Len(history) : history[m].day > 12) =>
       /\ \A j \in 1..Len(rowsNow) :
            rowsNow[j].at = <<history[rowsNow[j].of].month, history[rowsNow[j].of].day>>
       /\ \A i, j \in 1..Len(rowsNow) : rowsNow[i].of = rowsNow[j].of => i = j

\* "Timestamps in the export are stable per file, so the same file (or an updated
\* export covering overlapping history) re-imports without duplicating rows"
\* (synthetic_message_id).
OneRowPerExportedMessage ==
  \A i, j \in 1..Len(stored) : stored[i].of = stored[j].of => i = j
=============================================================================
