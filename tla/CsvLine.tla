------------------------------- MODULE CsvLine -------------------------------
(***************************************************************************)
(* splitCsvLine of tools/import-hotels-from-csv.ts, and the quoting it is  *)
(* meant to undo.  A line and a field are sequences of characters; only    *)
(* the quote and the comma are told apart from the others.                 *)
(***************************************************************************)
EXTENDS Naturals, Sequences, SequencesExt

CONSTANT OtherChars     \* the characters that mean nothing to the splitter

Quote == "quote"
Comma == "comma"

Chars == {Quote, Comma} \cup OtherChars

-----------------------------------------------------------------------------
\* The loop's variables; `skip` is its i++ over the second of two quotes.
Start == [fields |-> <<>>, field |-> <<>>, inQuotes |-> FALSE, skip |-> FALSE]

\* Mutant: two quotes inside a quoted field are not looked for.
EveryQuoteCloses(line, i, s) ==
    CASE line[i] = Quote -> [s EXCEPT !.inQuotes = ~ @]
      [] line[i] = Comma /\ ~ s.inQuotes ->
            [s EXCEPT !.fields = Append(@, s.field), !.field = <<>>]
      [] OTHER -> [s EXCEPT !.field = Append(@, line[i])]

\* One turn of the loop.
ReadChar(line, i, s) ==
    CASE s.skip -> [s EXCEPT !.skip = FALSE]
      [] ~ s.skip /\ s.inQuotes /\ line[i] = Quote ->
            IF i < Len(line) /\ line[i + 1] = Quote
              THEN [s EXCEPT !.field = Append(@, Quote), !.skip = TRUE]
              ELSE [s EXCEPT !.inQuotes = FALSE]
      [] ~ s.skip /\ ~ s.inQuotes /\ line[i] = Quote -> [s EXCEPT !.inQuotes = TRUE]
      [] ~ s.skip /\ ~ s.inQuotes /\ line[i] = Comma ->
            [s EXCEPT !.fields = Append(@, s.field), !.field = <<>>]
      [] OTHER -> [s EXCEPT !.field = Append(@, line[i])]

SplitCsvLine(line) ==
    LET after[i \in 0 .. Len(line)] ==
            IF i = 0 THEN Start ELSE ReadChar(line, i, after[i - 1])
        end == after[Len(line)]
    IN  Append(end.fields, end.field)

-----------------------------------------------------------------------------
\* What writes such a line: a field is put in quotes, its own quotes doubled.
\* Quotes may be left out around a field with neither a quote nor a comma.
Quoted(field) ==
    <<Quote>> \o FlattenSeq([i \in 1 .. Len(field) |->
                               IF field[i] = Quote THEN <<Quote, Quote>> ELSE <<field[i]>>])
              \o <<Quote>>

Writings(field) ==
    {Quoted(field)} \cup (IF Range(field) \cap {Quote, Comma} = {} THEN {field} ELSE {})

Lines(record) ==
    {FlattenSeq([k \in DOMAIN record |->
                   IF k = 1 THEN written[k] ELSE <<Comma>> \o written[k]]) :
       written \in {w \in [DOMAIN record -> UNION {Writings(f) : f \in Range(record)}] :
                      \A k \in DOMAIN record : w[k] \in Writings(record[k])}}

\* Every way of writing a record as a line is split into that record again: no
\* comma or quote of a description moves a later column, such as a coordinate, to
\* another place.
SplitUndone(record) == \A line \in Lines(record) : SplitCsvLine(line) = record
=============================================================================
