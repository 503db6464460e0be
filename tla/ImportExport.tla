------------------------------ MODULE ImportExport ------------------------------
(***************************************************************************)
(* Export and import of the records of a table as text: the menus of       *)
(* FrmEditRecMaster, and what CSVUtils and dbRecord::fromString make of    *)
(* the file.  A row has a code and a text; the columns of a file are those *)
(* two, in that order, and its header is left out.  Between the export and *)
(* the import other users change the table (at most MaxChanges times).     *)
(* A value is a sequence of characters, of which those that the format     *)
(* cares for are named.                                                    *)
(***************************************************************************)
EXTENDS Integers, Sequences, SequencesExt, FiniteSetsExt

CONSTANTS
  RowIds,       \* the ids of the table: 1 .. some number
  NoEntry,      \* no row has this id
  FirstTables,  \* the tables there may be at first
  Changes,      \* the rows that others may write
  MaxChanges

Quote == "\""
Comma == ","
NewLine == "\n"
Escape == "\\"
Spaces == {" ", NewLine}
Blank == [code |-> <<>>, text |-> <<>>]

VARIABLES
  table,     \* id -> row
  file,      \* the text of the file
  exported,  \* the rows that it was made of, and with which fields
  import,    \* the import under way: its options, its lines, and the record at hand
  before     \* the table when the import began

transferVars == <<table, file, exported, import, before>>

Stored(t) == {i \in RowIds : t[i] # NoEntry}

\* The value without the blanks at its ends.
Trim(v) ==
  LET kept == {i \in DOMAIN v : v[i] \notin Spaces}
  IN  IF kept = {} THEN <<>> ELSE SubSeq(v, Min(kept), Max(kept))

------------------------------------------------------------------------------
(* Writing                                                                     *)

DupQuotes(v) == FlattenSeq([i \in DOMAIN v |-> IF v[i] = Quote THEN <<Quote, Quote>> ELSE <<v[i]>>])

\* Mutant: a quote within a value is left as it is.
CsvFieldAsIs(v, fields) == <<Quote>> \o v \o <<Quote>>

\* Quotes are doubled when the columns of the view are exported, not when all fields are.
CsvField(v, fields) == <<Quote>> \o (IF fields = "view" THEN DupQuotes(v) ELSE v) \o <<Quote>>

CsvLine(row, fields) ==
  CsvField(row.code, fields) \o <<Comma>> \o CsvField(row.text, fields) \o <<NewLine>>

------------------------------------------------------------------------------
(* Reading                                                                     *)

\* The text between the ends of line; the last piece is what std::getline meets the end of file in.
Pieces(text) ==
  FoldLeft(LAMBDA p, c : IF c = NewLine THEN p \o <<<<>>>> ELSE Front(p) \o <<Append(Last(p), c)>>,
           <<<<>>>>, text)

\* A quote after a backslash is not counted.
Balanced(line) ==
  Cardinality({i \in DOMAIN line : line[i] = Quote /\ ~(i > 1 /\ line[i - 1] = Escape)}) % 2 = 0

\* A line goes on in the next piece while its quotes are not balanced. Empty pieces are lost.
ReadPiece(f, piece) ==
  LET line == CASE f.open = <<>> -> Trim(piece)
                [] f.open # <<>> /\ piece = <<>> -> f.open
                [] OTHER -> f.open \o <<NewLine>> \o piece
  IN  IF line = <<>> THEN f
      ELSE IF Balanced(line) THEN [lines |-> Append(f.lines, line), open |-> <<>>]
      ELSE [f EXCEPT !.open = line]

ReadCsvFile(text) ==
  LET pieces == Pieces(text)
      f      == FoldLeft(ReadPiece, [lines |-> <<>>, open |-> <<>>], Front(pieces))
      rest   == IF f.open # <<>> THEN f.open ELSE Trim(Last(pieces))
  IN  f.lines \o IF rest = <<>> THEN <<>> ELSE <<rest>>

\* One character of a line. Quotes open a token only at its beginning, and close it anywhere.
NextChar(line, t, i) ==
  LET c == line[i]
      doubled == t.quoted /\ c = Quote /\ i < Len(line) /\ line[i + 1] = Quote
      u == [t EXCEPT !.skip = "no"]
      Take(x) == [u EXCEPT !.token = Append(@, x), !.rest = TRUE]
  IN  CASE t.skip = "one" \/ (t.skip = "blanks" /\ c \in Spaces) -> IF t.skip = "one" THEN u ELSE t
        [] ~t.escaped /\ c = Escape -> [u EXCEPT !.escaped = TRUE]
        [] t.escaped -> [Take(IF c = "n" THEN NewLine ELSE c) EXCEPT !.escaped = FALSE]
        [] ~t.quoted /\ t.token = <<>> /\ c = Quote -> [u EXCEPT !.quoted = TRUE, !.rest = TRUE]
        [] doubled -> [Take(c) EXCEPT !.skip = "one"]
        [] t.quoted /\ c = Quote -> [u EXCEPT !.quoted = FALSE]
        [] ~t.quoted /\ c = Comma -> [u EXCEPT !.values = Append(@, Trim(t.token)), !.token = <<>>,
                                               !.rest = FALSE, !.skip = "blanks"]
        [] OTHER -> Take(c)

Tokenize(line) ==
  LET start == [values |-> <<>>, token |-> <<>>, quoted |-> FALSE, escaped |-> FALSE,
                rest |-> FALSE, skip |-> "no"]
      t == FoldLeft(LAMBDA s, i : NextChar(line, s, i), start, [i \in DOMAIN line |-> i])
  IN  IF t.rest THEN Append(t.values, Trim(t.token)) ELSE t.values

\* The row with the values of a line. What is blank in the line keeps its value; ~ empties it.
FromString(row, line) ==
  LET values == Tokenize(line)
      Value(old, n) == CASE n > Len(values) \/ values[n] = <<>> -> old
                         [] values[n] = <<"~">> -> <<>>
                         [] OTHER -> values[n]
  IN  [code |-> Value(row.code, 1), text |-> Value(row.text, 2)]

\* The rows with this code.
Matching(row) == {i \in Stored(table) : table[i].code = row.code}

------------------------------------------------------------------------------
(* The menus                                                                   *)

Idle == [state |-> "idle", existing |-> "update", review |-> FALSE, lines |-> <<>>, record |-> Blank,
         id |-> 0, skipped |-> FALSE, changes |-> 0]

InitTransfer ==
  /\ table \in FirstTables /\ before = table
  /\ file = <<>> /\ exported = [rows |-> {}, fields |-> "view"] /\ import = Idle

\* "Registro actual" leaves the loop when it comes to the current row: it exports no row.
Export ==
  /\ import = Idle /\ file = <<>>
  /\ \E range \in {"current", "selected", "all"}, fields \in {"all", "view"},
        selection \in SUBSET Stored(table) :
       LET ids == CASE range = "current" -> {} [] range = "selected" -> selection [] OTHER -> Stored(table)
       IN  /\ range # "selected" => selection = {}
           /\ file' = FlattenSeq([n \in 1 .. Cardinality(ids) |->
                                    CsvLine(table[SetToSortSeq(ids, <)[n]], fields)])
           /\ exported' = [rows |-> {table[i] : i \in ids}, fields |-> fields]
  /\ UNCHANGED <<table, import, before>>

\* Others modify, remove or insert a row; codes are unique.
OthersChange ==
  /\ import.state = "idle" /\ file # <<>> /\ import.changes < MaxChanges
  /\ import' = [import EXCEPT !.changes = @ + 1]
  /\ \E i \in RowIds, row \in Changes \cup {NoEntry} :
       /\ row # NoEntry => \A j \in Stored(table) \ {i} : table[j].code # row.code
       /\ table' = [table EXCEPT ![i] = row]
  /\ UNCHANGED <<file, exported, before>>

\* A file without records is refused.
BeginImport ==
  /\ import.state = "idle" /\ file # <<>> /\ ReadCsvFile(file) # <<>>
  /\ \E existing \in {"update", "ignore", "cancel"}, review \in BOOLEAN :
       import' = [import EXCEPT !.state = "lines", !.existing = existing, !.review = review,
                                !.lines = ReadCsvFile(file)]
  /\ before' = table
  /\ UNCHANGED <<table, file, exported>>

\* The next line, or the end.
NextLine(i) ==
  LET rest == Tail(i.lines)
  IN  [i EXCEPT !.lines = rest, !.state = IF rest = <<>> THEN "done" ELSE "lines",
                !.record = Blank, !.id = 0]

\* INSERT of a new record, UPDATE of the one that was read.
SaveRecord(row, id) ==
  IF id # 0 THEN table' = [table EXCEPT ![id] = row]
  ELSE \E new \in RowIds \ Stored(table) :
         /\ \A i \in RowIds \ Stored(table) : new <= i
         /\ table' = [table EXCEPT ![new] = row]

\* A line: it is put into an empty record, and again into the record with its code if there is one.
\* What is not valid, cannot be saved or has to be reviewed is shown in a form.
ImportLine ==
  /\ import.state = "lines"
  /\ LET line  == Head(import.lines)
         typed == FromString(Blank, line)
         found == Matching(typed)
     IN  \/ /\ found # {} /\ import.existing # "update"
            /\ import' = IF import.existing = "ignore" THEN NextLine(import)
                         ELSE [import EXCEPT !.state = "done", !.skipped = TRUE]
            /\ UNCHANGED table
         \/ /\ found = {} \/ import.existing = "update"
            /\ \E id \in IF found = {} THEN {0} ELSE found :
                 LET row == IF id = 0 THEN typed ELSE FromString(table[id], line)
                 IN  \/ /\ ~import.review /\ row.code # <<>>
                        /\ SaveRecord(row, id)
                        /\ import' = NextLine(import)
                     \/ /\ import' = [import EXCEPT !.state = "review", !.record = row, !.id = id]
                        /\ UNCHANGED table
  /\ UNCHANGED <<file, exported, before>>

\* The form is accepted as it is.
AcceptReview ==
  /\ import.state = "review" /\ import.record.code # <<>>
  /\ SaveRecord(import.record, import.id)
  /\ import' = NextLine(import)
  /\ UNCHANGED <<file, exported, before>>

\* The form is cancelled: the next line, or no more of them.
CancelReview ==
  /\ import.state = "review"
  /\ \/ import' = [NextLine(import) EXCEPT !.skipped = TRUE]
     \/ import' = [import EXCEPT !.state = "done", !.skipped = TRUE]
  /\ UNCHANGED <<table, file, exported, before>>

NextTransfer == Export \/ OthersChange \/ BeginImport \/ ImportLine \/ AcceptReview \/ CancelReview

SpecTransfer == InitTransfer /\ [][NextTransfer]_transferVars

------------------------------------------------------------------------------
(* Properties                                                                  *)

\* Rows have a code and a text, and an import has lines to go while it is under way.
TypeOKTransfer ==
  /\ \A i \in Stored(table) : DOMAIN table[i] = DOMAIN Blank
  /\ import.state \in {"idle", "lines", "review", "done"} /\ import.id \in RowIds \cup {0}
  /\ import.state \in {"lines", "review"} => import.lines # <<>>

\* A value that the format keeps: without backslashes, blanks at the ends of a line, empty lines, a
\* lone ~ or, when all fields are exported, quotes.
Kept(v) ==
  /\ \A i \in DOMAIN v : v[i] # Escape /\ (exported.fields = "all" => v[i] # Quote)
  /\ Trim(v) = v /\ v # <<"~">>
  /\ \A i \in 1 .. Len(v) - 1 : v[i + 1] = NewLine => v[i] \notin Spaces

\* What is exported and imported again, whatever others did in between, is as it was exported: each row
\* of the file is stored once with the text it had (or the one others gave it, if it had none),
\* and no other row has changed. Rows that exist change only if that was asked for. This is what the
\* writer of menuTableExport_clicked and the reader of CSVUtils and fromString have to agree on.
ImportedAsExported ==
  /\ import.state = "done"
  /\ \A r \in exported.rows : Kept(r.code) /\ Kept(r.text) /\ r.code # <<>>
  =>
    LET codes == {r.code : r \in exported.rows}
        Rows(t, c) == {i \in Stored(t) : t[i].code = c}
    IN  /\ \A i \in Stored(before) :
             before[i].code \notin codes \/ import.existing # "update" => table[i] = before[i]
        /\ \A i \in Stored(table) : table[i].code \in codes \/ i \in Stored(before)
        /\ \A r \in exported.rows :
             /\ Cardinality(Rows(table, r.code)) <= 1
             /\ import.existing = "update" /\ ~import.skipped =>
                  \E i \in Rows(table, r.code) :
                    \/ table[i].text = r.text
                    \/ r.text = <<>> /\ i \in Stored(before) /\ table[i].text = before[i].text
=============================================================================
