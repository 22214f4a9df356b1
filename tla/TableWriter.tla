---------------------------- MODULE TableWriter -----------------------------
(* The other writer of the page format: Table::to_columnar (build_table.cpp) *)
(* turns a table of rows into columns, for values of fixed length.  It has    *)
(* the state of ColumnInserter<T>, but reserves a whole value, and its bitmap *)
(* starts empty on every page.                                                *)
EXTENDS PageWriter

\* Room for one more value of sizeof(T) bytes.
TableValueFits == HasRoom(data_end + ValueSize, num_rows)

TableNullFits == HasRoom(data_end, num_rows)

\* A record whose field holds a value of the column's type.
TableValue(value) ==
  /\ ~finished
  /\ Len(inserted) < MaxRows
  /\ IF TableValueFits
       THEN /\ data_end' = data_end + ValueSize
            /\ cells' = Append(cells, value)
            /\ bitmap' = bitmap \union {num_rows}
            /\ num_rows' = num_rows + 1
            /\ UNCHANGED pages
       ELSE /\ pages' = Append(pages, SavedPage)
            /\ data_end' = DataBegin + ValueSize
            /\ cells' = <<value>>
            /\ bitmap' = {0}
            /\ num_rows' = 1
  /\ inserted' = Append(inserted, value)
  /\ UNCHANGED finished

\* A record whose field is empty.
TableNull ==
  /\ ~finished
  /\ Len(inserted) < MaxRows
  /\ IF TableNullFits
       THEN /\ bitmap' = bitmap \ {num_rows}
            /\ num_rows' = num_rows + 1
            /\ UNCHANGED <<pages, data_end, cells>>
       ELSE /\ pages' = Append(pages, SavedPage)
            /\ data_end' = DataBegin
            /\ cells' = <<>>
            /\ bitmap' = {}
            /\ num_rows' = 1
  /\ inserted' = Append(inserted, Null)
  /\ UNCHANGED finished

\* After the last record, the last page if it has a row.
TableFinish ==
  /\ ~finished
  /\ finished' = TRUE
  /\ IF num_rows # 0
       THEN /\ pages' = Append(pages, SavedPage)
            /\ num_rows' = 0
            /\ data_end' = DataBegin
            /\ cells' = <<>>
            /\ bitmap' = {}
       ELSE UNCHANGED <<pages, num_rows, data_end, cells, bitmap>>
  /\ UNCHANGED inserted

TableNext == (\E value \in Value : TableValue(value)) \/ TableNull \/ TableFinish

TableSpec == Init /\ [][TableNext]_vars
=============================================================================
