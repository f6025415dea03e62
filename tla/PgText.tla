------------------------------- MODULE PgText -------------------------------
(***************************************************************************)
(* Reading PostgreSQL's text forms: array and composite values             *)
(* (pg_replicate/conversions/text.rs) and the lines of COPY                *)
(* (conversions/table_row.rs), against what PostgreSQL writes for the same *)
(* values.  A text is a sequence of characters, of which the ones that     *)
(* matter to the grammar are themselves and "a" stands for every other;    *)
(* "null" is the word NULL in any case.                                    *)
(***************************************************************************)
EXTENDS Integers, Sequences, SequencesExt

CONSTANTS Texts    \* [form, values]: the values PostgreSQL writes, NoText for SQL null

VARIABLES
  written,          \* what PostgreSQL wrote
  parsed            \* what was read: <<>> before, then [ok, values]

tvars == <<written, parsed>>

NoText == <<"NULL">>
Failed == [ok |-> FALSE, values |-> <<>>]
-----------------------------------------------------------------------------
(* The state of parse_array's and parse_composite's loop *)
NewScan == [val |-> <<>>, quoted |-> FALSE, inQuotes |-> FALSE, inEscape |-> FALSE, skip |-> FALSE, terminated |-> FALSE,
            done |-> <<>>]

EndValue(s) == [s EXCEPT !.done = Append(@, [text |-> s.val, quoted |-> s.quoted]), !.val = <<>>, !.quoted = FALSE]

(* Mutant: a quote ends the quoted part whatever follows *)
QuoteAlone(s, next) == IF s.inQuotes THEN [s EXCEPT !.inQuotes = FALSE] ELSE [s EXCEPT !.inQuotes = TRUE, !.quoted = TRUE]

(* A quote: doubled inside quotes it stands for itself *)
Quote(s, next) ==
  CASE ~s.inQuotes  -> [s EXCEPT !.inQuotes = TRUE, !.quoted = TRUE]
    [] next = "\""  -> [s EXCEPT !.val = Append(@, "\""), !.skip = TRUE]
    [] OTHER        -> [s EXCEPT !.inQuotes = FALSE]

(* One character; next is the one after it.  In an array a backslash escapes *)
(* everywhere, in a composite inside quotes only                             *)
Scan(form, s, c, next) ==
  CASE s.skip     -> [s EXCEPT !.skip = FALSE]
    [] s.inEscape -> [s EXCEPT !.val = Append(@, c), !.inEscape = FALSE]
    [] ~s.inEscape /\ ~s.skip ->
         CASE c = "\""                                      -> Quote(s, next)
           [] c = "\\" /\ (form = "array" \/ s.inQuotes)    -> [s EXCEPT !.inEscape = TRUE]
           [] c = "," /\ ~s.inQuotes                        -> EndValue(s)
           [] OTHER                                         -> [s EXCEPT !.val = Append(@, c)]

(* What stands between the braces or the parentheses, split at its commas *)
Split(form, text) ==
  IF text = <<>> THEN <<>>
  ELSE LET Step(s, i) == Scan(form, s, text[i], IF i < Len(text) THEN text[i + 1] ELSE "end")
       IN  EndValue(FoldLeft(Step, NewScan, [i \in 1 .. Len(text) |-> i])).done

Inner(text) == SubSeq(text, 2, Len(text) - 1)

ParseArray(text) ==
  IF Len(text) < 2 \/ Head(text) # "{" \/ Last(text) # "}" THEN Failed
  ELSE LET parts == Split("array", Inner(text))
       IN  [ok |-> TRUE,
            values |-> [i \in DOMAIN parts |->
                          IF ~parts[i].quoted /\ parts[i].text = <<"null">> THEN NoText ELSE parts[i].text]]

ParseComposite(text, n) ==
  IF Len(text) < 2 \/ Head(text) # "(" \/ Last(text) # ")" THEN Failed
  ELSE LET parts == Split("composite", Inner(text))
       IN  IF Len(parts) # n THEN Failed
           ELSE [ok |-> TRUE,
                 values |-> [i \in DOMAIN parts |->
                               IF ~parts[i].quoted /\ parts[i].text = <<>> THEN NoText ELSE parts[i].text]]

(* parse_composite_array *)
ParseCompositeArray(text, n) ==
  LET outer == ParseArray(text)
      elems == [i \in DOMAIN outer.values |->
                  IF outer.values[i] = NoText THEN [ok |-> TRUE, values |-> NoText]
                  ELSE ParseComposite(outer.values[i], n)]
  IN  IF ~outer.ok \/ \E i \in DOMAIN elems : ~elems[i].ok THEN Failed
      ELSE [ok |-> TRUE, values |-> [i \in DOMAIN elems |-> elems[i].values]]

(* TableRowConverter::try_from: the loop over the characters of a line; t   *)
(* and n stand for all the letters that are control characters when escaped *)
CopyStep(s, c) ==
  CASE s.inEscape ->
         [s EXCEPT !.inEscape = FALSE,
                   !.val = CASE c = "N" -> @ \o <<"\\", "N">>
                             [] c = "t" -> Append(@, "\t")
                             [] c = "n" -> Append(@, "\n")
                             [] OTHER   -> Append(@, c)]
    [] ~s.inEscape /\ c = "\t" -> EndValue(s)
    [] ~s.inEscape /\ c = "\n" -> [EndValue(s) EXCEPT !.terminated = TRUE]
    [] ~s.inEscape /\ c = "\\" -> [s EXCEPT !.inEscape = TRUE]
    [] ~s.inEscape /\ c \notin {"\t", "\n", "\\"} -> [s EXCEPT !.val = Append(@, c)]

(* What follows the end of the line is dropped, and too few values are no error *)
ParseCopyLine(text, n) ==
  LET s == FoldLeft(CopyStep, NewScan, text)
  IN  IF ~s.terminated \/ Len(s.done) > n THEN Failed
      ELSE [ok |-> TRUE, values |-> [i \in DOMAIN s.done |->
                                       IF s.done[i].text = <<"\\", "N">> THEN NoText ELSE s.done[i].text]]
-----------------------------------------------------------------------------
(* What PostgreSQL writes: array_out, record_out and CopyAttributeOutText *)
Escaped(text, esc) == FlattenSeq([i \in DOMAIN text |-> esc[text[i]]])

Joined(parts, sep) ==
  FlattenSeq([i \in DOMAIN parts |-> IF i = 1 THEN parts[i] ELSE <<sep>> \o parts[i]])

Quoted(text, esc) == <<"\"">> \o Escaped(text, esc) \o <<"\"">>

Has(text, chars) == \E i \in DOMAIN text : text[i] \in chars

ArrayElement(text) ==
  LET esc == [c \in Range(text) |-> IF c \in {"\"", "\\"} THEN <<"\\", c>> ELSE <<c>>]
  IN  IF text = NoText THEN <<"null">>
      ELSE IF text \in {<<>>, <<"null">>} \/ Has(text, {"\"", "\\", ",", "{", "}", "\t", "\n"}) THEN Quoted(text, esc)
      ELSE text

RecordField(text) ==
  LET esc == [c \in Range(text) |-> IF c \in {"\"", "\\"} THEN <<c, c>> ELSE <<c>>]
  IN  IF text = NoText THEN <<>>
      ELSE IF text = <<>> \/ Has(text, {"\"", "\\", ",", "(", ")", "\t", "\n"}) THEN Quoted(text, esc)
      ELSE text

CopyField(text) ==
  LET esc == [c \in Range(text) |->
                CASE c = "\\" -> <<"\\", "\\">> [] c = "\t" -> <<"\\", "t">>
                  [] c = "\n" -> <<"\\", "n">>  [] OTHER   -> <<c>>]
  IN  IF text = NoText THEN <<"\\", "N">> ELSE Escaped(text, esc)

ArrayOut(values)  == <<"{">> \o Joined([i \in DOMAIN values |-> ArrayElement(values[i])], ",") \o <<"}">>
RecordOut(values) == <<"(">> \o Joined([i \in DOMAIN values |-> RecordField(values[i])], ",") \o <<")">>
CopyOut(values)   == Joined([i \in DOMAIN values |-> CopyField(values[i])], "\t") \o <<"\n">>
-----------------------------------------------------------------------------
TInit == written \in Texts /\ parsed = <<>>

(* The value arrives and is read; the rows of "records" are composites of   *)
(* one width in an array                                                    *)
Read ==
  /\ parsed = <<>>
  /\ parsed' = CASE written.form = "array"     -> ParseArray(ArrayOut(written.values))
               [] written.form = "composite" -> ParseComposite(RecordOut(written.values), Len(written.values))
               [] written.form = "copy"      -> ParseCopyLine(CopyOut(written.values), Len(written.values))
               [] written.form = "records"   ->
                    ParseCompositeArray(ArrayOut([i \in DOMAIN written.values |-> RecordOut(written.values[i])]), 2)
  /\ UNCHANGED written

TNext == Read

TSpec == TInit /\ [][TNext]_tvars
-----------------------------------------------------------------------------
(* Two texts are misread: the text \N in a COPY line becomes null, and a    *)
(* composite of one null field is refused                                   *)
Misread ==
  \/ written.form = "copy" /\ \E i \in DOMAIN written.values : written.values[i] = <<"\\", "N">>
  \/ written.form = "composite" /\ written.values = <<NoText>>

(* Whatever characters the values of an array, a composite, an array of     *)
(* composites or a COPY line hold - quotes, backslashes, separators, the    *)
(* word NULL - the converter reads back the values PostgreSQL wrote: of a   *)
(* composite only an empty field is null, the word is a text.               *)
TextReadsBack == parsed # <<>> /\ ~Misread => parsed = [ok |-> TRUE, values |-> written.values]

(* What the comment of parse_composite says of the word (not so, and not    *)
(* what PostgreSQL means by it).                                            *)
CompositeNullsAreCommented ==
  parsed # <<>> /\ written.form = "composite" =>
    \A i \in DOMAIN parsed.values : written.values[i] = <<"null">> => parsed.values[i] = NoText

(* TextReadsBack without the exceptions.                                    *)
EveryTextReadsBack == parsed # <<>> => parsed = [ok |-> TRUE, values |-> written.values]
=============================================================================
