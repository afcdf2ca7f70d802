--------------------------- MODULE BeforeRowsCsv ---------------------------
(***************************************************************************)
(* The file "Download before rows CSV" writes, and a reader of such files. *)
(*                                                                         *)
(* A text is a sequence of characters, of which "quote", "comma" and       *)
(* "newline" mean something in a CSV file.  A row of a rollback artifact   *)
(* is a JSON object: its keys in order, and at each key Null or the text   *)
(* the value is written as (String, or JSON.stringify of an object).       *)
(***************************************************************************)
EXTENDS Naturals, Sequences, SequencesExt

CONSTANTS Character,  \* the characters of texts
          Null        \* null

CsvText == Seq(Character)

ASSUME CharacterAssumption == {"quote", "comma", "newline"} \subseteq Character
ASSUME NullAssumption == Null \notin CsvText

\* The rows of an artifact that has a download button: one column at least.
IsBeforeRows(rs) ==
  /\ rs \in Seq({rs[i] : i \in DOMAIN rs})
  /\ \A i \in DOMAIN rs : /\ rs[i].keys \in Seq(CsvText)
                          /\ \A key \in DOMAIN rs[i].at : rs[i].at[key] \in CsvText \cup {Null}
  /\ \E i \in DOMAIN rs : rs[i].keys # << >>

\* row[column]: a key the row lacks is undefined, and written like null.
Value(row, column) == IF column \in DOMAIN row.at THEN row.at[column] ELSE Null

TextOf(value) == IF value = Null THEN << >> ELSE value

Joined(texts, separator) ==
  FlattenSeq([i \in DOMAIN texts |-> IF i = 1 THEN texts[i] ELSE <<separator>> \o texts[i]])

FaultyCsvCell(value) == <<"quote">> \o TextOf(value) \o <<"quote">>

Doubled(text) ==
  FlattenSeq([i \in DOMAIN text |->
                IF text[i] = "quote" THEN <<"quote", "quote">> ELSE <<text[i]>>])

csvCell(value) == <<"quote">> \o Doubled(TextOf(value)) \o <<"quote">>

\* Every text once, where it is first met.
Once(texts) ==
  FlattenSeq([n \in DOMAIN texts |->
                IF \E m \in 1 .. n - 1 : texts[m] = texts[n] THEN << >> ELSE <<texts[n]>>])

Columns(rs) == Once(FlattenSeq([i \in DOMAIN rs |-> rs[i].keys]))

CsvLine(values) == Joined([j \in DOMAIN values |-> csvCell(values[j])], "comma")

beforeRowsCsv(rs) ==
  LET columns == Columns(rs)
      Line(row) == CsvLine([j \in DOMAIN columns |-> Value(row, columns[j])])
  IN Joined(<<CsvLine(columns)>> \o [i \in DOMAIN rs |-> Line(rs[i])], "newline")
     \o <<"newline">>

-----------------------------------------------------------------------------
(* A reader (RFC 4180): fields in quotes, a doubled quote is a quote. *)

ReadChar(s, c) ==
  CASE s.mode = "field" /\ c = "quote" -> [s EXCEPT !.mode = "quoted"]
    [] s.mode = "quoted" /\ c = "quote" -> [s EXCEPT !.mode = "closed"]
    [] s.mode = "quoted" /\ c # "quote" -> [s EXCEPT !.cell = Append(@, c)]
    [] s.mode = "closed" /\ c = "quote" -> [s EXCEPT !.mode = "quoted", !.cell = Append(@, c)]
    [] s.mode = "closed" /\ c = "comma" ->
         [s EXCEPT !.mode = "field", !.line = Append(@, s.cell), !.cell = << >>]
    [] s.mode = "closed" /\ c = "newline" ->
         [s EXCEPT !.mode = "field", !.lines = Append(@, Append(s.line, s.cell)),
                   !.line = << >>, !.cell = << >>]
    [] OTHER -> [s EXCEPT !.mode = "malformed"]

ReadFrom(start, text) ==
  LET state[n \in 0 .. Len(text)] ==
        IF n = 0 THEN start ELSE ReadChar(state[n - 1], text[n])
  IN state[Len(text)]

ReadCsv(text) ==
  ReadFrom([mode |-> "field", cell |-> << >>, line |-> << >>, lines |-> << >>], text)

\* What the lines of a file have to be, to hold the rows: the first one names
\* each key of the rows once, and the others hold under it what each row has
\* there, with null and absent values as empty texts.
HoldRows(lines, rs) ==
  LET columns == lines[1]
  IN /\ \A i \in DOMAIN columns : \E r \in DOMAIN rs : Contains(rs[r].keys, columns[i])
     /\ \A r \in DOMAIN rs : \A k \in DOMAIN rs[r].keys : Contains(columns, rs[r].keys[k])
     /\ \A i, j \in DOMAIN columns : columns[i] = columns[j] => i = j
     /\ Len(lines) = Len(rs) + 1
     /\ \A r \in DOMAIN rs :
          lines[r + 1] = [j \in DOMAIN columns |-> TextOf(Value(rs[r], columns[j]))]

\* A file reads back as the rows, whatever their texts hold.
ReadsBack(file, rs) ==
  LET end == ReadCsv(file)
  IN end.mode = "field" /\ end.cell = << >> /\ end.line = << >> /\ HoldRows(end.lines, rs)
=============================================================================
