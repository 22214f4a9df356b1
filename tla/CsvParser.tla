----------------------------- MODULE CsvParser ------------------------------
(* CSVParser (csv_parser.cpp) and TableParser (build_table.cpp) as from_csv  *)
(* uses them: a file comes in buffers of any size, and what a buffer's last  *)
(* character leaves open - an escape, half a line end - is settled when the  *)
(* next one comes or the file ends.  Fields become values, values records.   *)
EXTENDS CsvFormat

VARIABLES
  file, header,      \* what is read: its characters, and whether line one is a header
  unread,            \* the part fread has not given yet
  buffer,            \* the part of a buffer execute() has not looked at
  phase,             \* "read", "execute", "finish" (in its call of execute), "parsed",
                     \* "threw", "undefined"
  current_field, col_idx, row_idx, num_cols,
  after_first_row, quoted, after_record_sep, escaping, newlining,
  last_record,       \* TableParser's values of the record so far
  full_table         \* the rows added

parser == <<current_field, col_idx, row_idx, num_cols, after_first_row, quoted,
            after_record_sep, escaping, newlining>>
records == <<last_record, full_table>>
parserVars == <<file, header, unread, buffer, phase, parser, records>>

\* A new TableParser at the beginning of the file.
ParserReset ==
  /\ unread' = file
  /\ buffer' = <<>> /\ current_field' = <<>>
  /\ col_idx' = 0 /\ row_idx' = 0 /\ num_cols' = 0
  /\ after_first_row' = FALSE /\ quoted' = FALSE /\ after_record_sep' = FALSE
  /\ escaping' = FALSE /\ newlining' = FALSE
  /\ last_record' = <<>> /\ full_table' = <<>>

ParserInit(f, h) ==
  /\ file = f /\ header = h /\ unread = f
  /\ buffer = <<>> /\ current_field = <<>>
  /\ col_idx = 0 /\ row_idx = 0 /\ num_cols = 0
  /\ after_first_row = FALSE /\ quoted = FALSE /\ after_record_sep = FALSE
  /\ escaping = FALSE /\ newlining = FALSE
  /\ last_record = <<>> /\ full_table = <<>>

\* execute() goes on with the rest of its buffer or returns.
GoOn(rest) ==
  /\ buffer' = rest
  /\ phase' = IF rest # <<>> THEN phase ELSE IF phase = "finish" THEN "parsed" ELSE "read"

\* The load ends here: with an exception, or with a read past the attributes.
GiveUp(how) ==
  /\ phase' = how
  /\ UNCHANGED <<file, header, unread, buffer, parser, records>>

-----------------------------------------------------------------------------
(* Fields and records.                                                     *)

InHeader == header /\ row_idx = 0

NewRecord == Append(last_record, Converted(Attributes[col_idx + 1], current_field))
LastColumn == col_idx + 1 = Len(Attributes)

\* on_field reads the type of a column that the table does not have, or add_record
\* that of a value more than the table has columns.
OutOfBounds ==
  /\ ~InHeader
  /\ \/ col_idx >= Len(Attributes) /\ current_field # <<>>
     \/ LastColumn /\ Len(last_record) >= Len(Attributes)

ParseError ==
  ~InHeader /\ col_idx < Len(Attributes) /\ ~Convertible(Attributes[col_idx + 1], current_field)

FieldFails ==
  \/ OutOfBounds /\ GiveUp("undefined")
  \/ ParseError /\ GiveUp("threw")

\* The record is added with the value of the last column.
OnField ==
  /\ ~OutOfBounds /\ ~ParseError
  /\ IF InHeader THEN UNCHANGED records
     ELSE IF col_idx >= Len(Attributes)
       THEN last_record' = Append(last_record, NullCell) /\ UNCHANGED full_table
     ELSE IF LastColumn THEN last_record' = <<>> /\ full_table' = Append(full_table, NewRecord)
     ELSE last_record' = NewRecord /\ UNCHANGED full_table

Inconsistent == after_first_row /\ col_idx + 1 # num_cols

\* The end of a line that is as long as the first.
EndRecord(rest) ==
  /\ ~Inconsistent
  /\ OnField
  /\ after_first_row' = TRUE
  /\ num_cols' = IF after_first_row THEN num_cols ELSE col_idx + 1
  /\ current_field' = <<>>
  /\ col_idx' = 0
  /\ row_idx' = row_idx + 1
  /\ after_record_sep' = TRUE
  /\ newlining' = FALSE
  /\ GoOn(rest)
  /\ UNCHANGED <<file, header, unread, quoted, escaping>>

EndLine(rest) ==
  \/ Inconsistent /\ GiveUp("threw")
  \/ ~Inconsistent /\ FieldFails
  \/ EndRecord(rest)

-----------------------------------------------------------------------------
(* execute().                                                              *)

\* fread returns some of the file.
Read ==
  /\ phase = "read" /\ unread # <<>>
  /\ \E n \in 1 .. Len(unread) :
       /\ buffer' = SubSeq(unread, 1, n)
       /\ unread' = SubSeq(unread, n + 1, Len(unread))
  /\ phase' = "execute"
  /\ UNCHANGED <<file, header, parser, records>>

\* The last buffer ended with a backslash.
ResumeEscape ==
  /\ phase = "execute" /\ escaping
  /\ IF Head(buffer) \in {Quote, Escape}
       THEN current_field' = Append(current_field, Head(buffer)) /\ GoOn(Tail(buffer))
       ELSE current_field' = Append(current_field, Escape) /\ GoOn(buffer)
  /\ escaping' = FALSE
  /\ UNCHANGED <<file, header, unread, col_idx, row_idx, num_cols, after_first_row, quoted,
                 after_record_sep, newlining, records>>

\* The other half of the line end is not looked for.
ResumeNewline_bug ==
  /\ phase \in {"execute", "finish"} /\ newlining
  /\ EndLine(buffer)

\* The last buffer ended with \r, or nothing follows it.
ResumeNewline ==
  /\ phase \in {"execute", "finish"} /\ newlining
  /\ EndLine(IF buffer # <<>> /\ Head(buffer) = LF THEN Tail(buffer) ELSE buffer)

InLoop ==
  phase \in {"execute", "finish"} /\ ~escaping /\ ~newlining /\ buffer # <<>>

\* A character of the field.
TakeChar ==
  /\ InLoop
  /\ \/ Head(buffer) = Digit
     \/ Head(buffer) \in {Comma, CR, LF} /\ quoted
     \/ Head(buffer) = Escape /\ ~quoted
  /\ current_field' = Append(current_field, Head(buffer))
  /\ after_record_sep' = FALSE
  /\ GoOn(Tail(buffer))
  /\ UNCHANGED <<file, header, unread, col_idx, row_idx, num_cols, after_first_row, quoted,
                 escaping, newlining, records>>

EndField ==
  /\ InLoop
  /\ Head(buffer) = Comma /\ ~quoted
  /\ \/ FieldFails
     \/ /\ OnField
        /\ current_field' = <<>>
        /\ col_idx' = col_idx + 1
        /\ after_record_sep' = FALSE
        /\ GoOn(Tail(buffer))
        /\ UNCHANGED <<file, header, unread, row_idx, num_cols, after_first_row, quoted,
                       escaping, newlining>>

\* \r at the end of a buffer: the next one may begin with \n.
HalfNewline ==
  /\ InLoop
  /\ buffer = <<CR>> /\ ~quoted
  /\ newlining' = TRUE
  /\ GoOn(<<>>)
  /\ UNCHANGED <<file, header, unread, current_field, col_idx, row_idx, num_cols,
                 after_first_row, quoted, after_record_sep, escaping, records>>

Newline ==
  /\ InLoop
  /\ Head(buffer) \in {CR, LF} /\ ~quoted /\ buffer # <<CR>>
  /\ EndLine(IF Head(buffer) = CR /\ buffer[2] = LF THEN Tail(Tail(buffer)) ELSE Tail(buffer))

ToggleQuote ==
  /\ InLoop
  /\ Head(buffer) = Quote
  /\ quoted' = ~quoted
  /\ after_record_sep' = FALSE
  /\ GoOn(Tail(buffer))
  /\ UNCHANGED <<file, header, unread, current_field, col_idx, row_idx, num_cols,
                 after_first_row, escaping, newlining, records>>

\* Not only in quotes.
HalfEscape_bug ==
  /\ InLoop
  /\ buffer = <<Escape>>
  /\ escaping' = TRUE
  /\ GoOn(<<>>)
  /\ UNCHANGED <<file, header, unread, current_field, col_idx, row_idx, num_cols,
                 after_first_row, quoted, after_record_sep, newlining, records>>

\* A backslash in quotes at the end of a buffer.
HalfEscape ==
  /\ InLoop
  /\ buffer = <<Escape>> /\ quoted
  /\ escaping' = TRUE
  /\ GoOn(<<>>)
  /\ UNCHANGED <<file, header, unread, current_field, col_idx, row_idx, num_cols,
                 after_first_row, quoted, after_record_sep, newlining, records>>

TakeEscaped ==
  /\ InLoop
  /\ Head(buffer) = Escape /\ quoted /\ Len(buffer) > 1
  /\ IF buffer[2] \in {Quote, Escape}
       THEN current_field' = Append(current_field, buffer[2]) /\ GoOn(Tail(Tail(buffer)))
       ELSE current_field' = Append(current_field, Escape) /\ GoOn(Tail(buffer))
  /\ after_record_sep' = FALSE
  /\ UNCHANGED <<file, header, unread, col_idx, row_idx, num_cols, after_first_row, quoted,
                 escaping, newlining, records>>

-----------------------------------------------------------------------------
NothingLeft == after_record_sep /\ ~newlining

\* The loop over the buffers goes on at the end of the file.
Finish_bug ==
  /\ phase = "read" /\ unread = <<>>
  /\ UNCHANGED parserVars

\* finish(): a quote left open is an error, half a line end and a last line
\* without one are completed.
Finish ==
  /\ phase = "read" /\ unread = <<>>
  /\ IF quoted
       THEN GiveUp("threw")
       ELSE /\ phase' = IF NothingLeft THEN "parsed" ELSE "finish"
            /\ buffer' = IF NothingLeft \/ newlining THEN <<>> ELSE <<LF>>
            /\ UNCHANGED <<file, header, unread, parser, records>>

ParserNext ==
  \/ Read \/ ResumeEscape \/ ResumeNewline \/ TakeChar \/ EndField \/ HalfNewline \/ Newline
  \/ ToggleQuote \/ HalfEscape \/ TakeEscaped \/ Finish

-----------------------------------------------------------------------------
ParserTypeOK ==
  /\ phase \in {"idle", "read", "execute", "finish", "parsed", "threw", "undefined"}
  /\ current_field \in Seq(Char)
  /\ col_idx \in Nat /\ row_idx \in Nat /\ num_cols \in Nat
  /\ after_first_row \in BOOLEAN /\ quoted \in BOOLEAN /\ after_record_sep \in BOOLEAN
  /\ escaping \in BOOLEAN /\ newlining \in BOOLEAN
  /\ escaping => quoted
  /\ newlining => ~quoted

\* A file of as many columns as the table gives the rows it means, wherever it is
\* cut into buffers, and an exception exactly when it means none.
LoadsFile ==
  /\ phase = "parsed" /\ num_cols = Len(Attributes) =>
       WellFormed(file, header) /\ full_table = RowsOfFile(file, header)
  /\ phase \in {"threw", "undefined"} /\ NumColumns(file) = Len(Attributes) =>
       ~WellFormed(file, header)

=============================================================================
