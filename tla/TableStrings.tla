---------------------------- MODULE TableStrings ----------------------------
(* The VARCHAR case of Table::to_columnar and Table::from_columnar           *)
(* (build_table.cpp): the writer lays a page out as ColumnInserter does, with *)
(* a bitmap that starts empty on every page; the reader copies every row out, *)
(* where the engine's scan keeps references.                                  *)
EXTENDS StringPages

\* A record whose field is a string that fits a page.
TableShort(s) ==
  /\ MayInsertString
  /\ ~IsLong(s)
  /\ IF StringFits(s)
       THEN /\ data' = data \o Chars(s)
            /\ offsets' = Append(offsets, data_size + s.size)
            /\ bitmap' = bitmap \union {num_rows}
            /\ num_rows' = num_rows + 1
            /\ UNCHANGED pages
       ELSE /\ pages' = Append(pages, SavedPage)
            /\ data' = Chars(s)
            /\ offsets' = <<s.size>>
            /\ bitmap' = {0}
            /\ num_rows' = 1
  /\ inserted' = Append(inserted, s)
  /\ UNCHANGED finished

\* save_page when there is something to save, with its cleared buffers.
FlushTable(column) ==
  IF num_rows > 0
    THEN /\ pages' = Append(pages, SavedPage) \o column
         /\ num_rows' = 0 /\ data' = <<>> /\ offsets' = <<>> /\ bitmap' = {}
    ELSE /\ pages' = pages \o column
         /\ UNCHANGED <<num_rows, data, offsets, bitmap>>

\* A record whose field is a longer one: pages of its own behind the rows so far.
TableLong(s) ==
  /\ MayInsertString
  /\ IsLong(s)
  /\ FlushTable(LongPages(s))
  /\ inserted' = Append(inserted, s)
  /\ UNCHANGED finished

\* A record whose field is empty.
TableNull ==
  /\ MayInsertNull
  /\ IF NullFits
       THEN /\ bitmap' = bitmap \ {num_rows}
            /\ num_rows' = num_rows + 1
            /\ UNCHANGED <<pages, data, offsets>>
       ELSE /\ pages' = Append(pages, SavedPage)
            /\ data' = <<>>
            /\ offsets' = <<>>
            /\ bitmap' = {}
            /\ num_rows' = 1
  /\ inserted' = Append(inserted, Null)
  /\ UNCHANGED finished

\* After the last record.
TableFinish ==
  /\ ~finished
  /\ finished' = TRUE
  /\ FlushTable(<<>>)
  /\ UNCHANGED inserted

TableNext ==
  \/ \E s \in String : TableShort(s) \/ TableLong(s)
  \/ TableNull
  \/ TableFinish

TableSpec == Init /\ [][TableNext]_vars

-----------------------------------------------------------------------------
\* The strings of a page of ordinary rows: each from the end of the one before
\* it to its own offset.
CopiedPage(page) ==
  LET data_idx(r) == Cardinality({b \in page.valid : b < r})
      string_begin(n) == IF n = 1 THEN 0 ELSE page.offsets[n - 1]
  IN  [r \in 1 .. page.rows |->
         IF r - 1 \notin page.valid THEN Null
         ELSE SubSeq(page.chars, string_begin(data_idx(r)) + 1, page.offsets[data_idx(r)])]

\* (A definition whose name ends in _bug is a plausible mistake in the one it
\* precedes, used by no specification.)  Every long page is a row.
CopiedRows_bug(column) ==
  LET upto[p \in 0 .. Len(column)] ==
        IF p = 0 THEN <<>>
        ELSE IF IsLongPage(column[p]) THEN Append(upto[p - 1], column[p].chars)
        ELSE upto[p - 1] \o CopiedPage(column[p])
  IN  upto[Len(column)]

\* from_columnar: the first page of a long string starts a row, a following page
\* goes on with the last row.
CopiedRows(column) ==
  LET upto[p \in 0 .. Len(column)] ==
        IF p = 0 THEN <<>>
        ELSE IF column[p].rows = LongPage THEN Append(upto[p - 1], column[p].chars)
        ELSE IF column[p].rows = LongPageNext
          THEN [upto[p - 1] EXCEPT ![Len(upto[p - 1])] = @ \o column[p].chars]
        ELSE upto[p - 1] \o CopiedPage(column[p])
  IN  upto[Len(column)]

\* The two readers of the format on the same pages: from_columnar returns every
\* row as it was inserted, long strings in adjacent rows included, and the
\* resolver all others.
ReadersReturnRows ==
  /\ CopiedRows(Column) = [r \in DOMAIN inserted |-> CharsOf(inserted[r])]
  /\ ReadsBackLongRuns
=============================================================================
