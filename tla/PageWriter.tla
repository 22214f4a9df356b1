----------------------------- MODULE PageWriter -----------------------------
(* ColumnInserter<T> of plan.h for fixed-length T: rows are appended to a    *)
(* page until the next one would not fit, then the page is saved with its    *)
(* bitmap.  The bitmap buffer outlives a page, so it holds stale bits.       *)
EXTENDS PageFormat

CONSTANTS
  ValueSize,      \* sizeof(T)
  InsertReserve,  \* the bytes insert() reserves for a value: the literal 4
  Value,          \* values of type T
  MaxRows         \* bound on the rows inserted, for TLC

\* The header's two counters take four bytes.
ASSUME WriterAssumption ==
  /\ ValueSize \in Nat \ {0}
  /\ InsertReserve \in Nat
  /\ PageSize >= 4 + 2 * ValueSize
  /\ MaxRows \in Nat
  /\ {Garbage, Null} \cap Value = {}

VARIABLES
  pages,     \* the column's saved pages
  num_rows,  \* rows of the current page
  data_end,  \* first free byte of the current page
  bitmap,    \* the bits set in the inserter's bitmap buffer
  cells,     \* the values written to the current page
  inserted,  \* history: every row inserted
  finished   \* finalize() has run

vars == <<pages, num_rows, data_end, bitmap, cells, inserted, finished>>

DataBegin == IF ValueSize < 4 THEN 4 ELSE ValueSize

Init ==
  /\ pages = <<>>
  /\ num_rows = 0
  /\ data_end = DataBegin
  /\ bitmap = {}
  /\ cells = <<>>
  /\ inserted = <<>>
  /\ finished = FALSE

\* The page save_page leaves: whole bytes of the bitmap are copied over the end
\* of the page, and over any value that reaches there.
SavedPage ==
  LET bytes == BitmapBytes(num_rows)
      intact(k) == DataBegin + k * ValueSize <= PageSize - bytes
  IN  [rows  |-> num_rows,
       count |-> (data_end - DataBegin) \div ValueSize,
       data  |-> [k \in DOMAIN cells |-> IF intact(k) THEN cells[k] ELSE Garbage],
       valid |-> {b \in bitmap : b < bytes * BitsPerByte}]

\* The guard of insert() asks for a byte too little.
ValueFits_bug == HasRoom(data_end + InsertReserve - 1, num_rows)

ValueFits == HasRoom(data_end + InsertReserve, num_rows)

NullFits == HasRoom(data_end, num_rows)

\* insert(value): save the page first when it is full.
Insert(value) ==
  /\ ~finished
  /\ Len(inserted) < MaxRows
  /\ IF ValueFits
       THEN /\ data_end' = data_end + ValueSize
            /\ cells' = Append(cells, value)
            /\ bitmap' = bitmap \union {num_rows}
            /\ num_rows' = num_rows + 1
            /\ UNCHANGED pages
       ELSE /\ pages' = Append(pages, SavedPage)
            /\ data_end' = DataBegin + ValueSize
            /\ cells' = <<value>>
            /\ bitmap' = bitmap \union {0}
            /\ num_rows' = 1
  /\ inserted' = Append(inserted, value)
  /\ UNCHANGED finished

\* The bit of an earlier page is not cleared.
InsertNull_bug ==
  /\ ~finished
  /\ Len(inserted) < MaxRows
  /\ IF NullFits
       THEN /\ num_rows' = num_rows + 1
            /\ UNCHANGED <<pages, data_end, cells>>
       ELSE /\ pages' = Append(pages, SavedPage)
            /\ data_end' = DataBegin
            /\ cells' = <<>>
            /\ num_rows' = 1
  /\ inserted' = Append(inserted, Null)
  /\ UNCHANGED <<finished, bitmap>>

\* insert_null(): a row without a value.
InsertNull ==
  /\ ~finished
  /\ Len(inserted) < MaxRows
  /\ IF NullFits
       THEN /\ bitmap' = bitmap \ {num_rows}
            /\ num_rows' = num_rows + 1
            /\ UNCHANGED <<pages, data_end, cells>>
       ELSE /\ pages' = Append(pages, SavedPage)
            /\ data_end' = DataBegin
            /\ cells' = <<>>
            /\ bitmap' = bitmap \ {0}
            /\ num_rows' = 1
  /\ inserted' = Append(inserted, Null)
  /\ UNCHANGED finished

\* finalize(): the last page, if it has a row.
Finalize ==
  /\ ~finished
  /\ finished' = TRUE
  /\ IF num_rows # 0
       THEN /\ pages' = Append(pages, SavedPage)
            /\ num_rows' = 0
            /\ data_end' = DataBegin
            /\ cells' = <<>>
       ELSE UNCHANGED <<pages, num_rows, data_end, cells>>
  /\ UNCHANGED <<bitmap, inserted>>

Next == (\E value \in Value : Insert(value)) \/ InsertNull \/ Finalize

Spec == Init /\ [][Next]_vars

-----------------------------------------------------------------------------
\* In particular no value of a saved page is Garbage: none was overwritten.
TypeOK ==
  /\ pages \in Seq([rows : Nat, count : Nat, data : Seq(Value), valid : SUBSET Nat])
  /\ num_rows \in Nat
  /\ data_end \in Nat
  /\ bitmap \subseteq Nat
  /\ cells \in Seq(Value)
  /\ finished \in BOOLEAN

\* README_ORIGINAL.md: the values lie in front of the bitmap in the page's last
\* bytes.  At every moment the values written so far leave room for the bitmap
\* of the rows written so far, whatever mixture of values and NULLs came.
LayoutDisjoint == data_end <= PageSize - BitmapBytes(num_rows)

\* Rows of the saved pages, then of the page being written.
RowsRead == ReadColumn(pages) \o DecodePage(SavedPage)

\* What the scan reads back is what was inserted, row by row, across page
\* boundaries and in spite of stale bits in the reused bitmap.
ReadsBack == RowsRead = inserted

\* A column is read in place exactly when no row is NULL, and then the n-th
\* value of a page is its n-th row.
ZeroCopySound ==
  /\ \A p \in DOMAIN pages :
       ~PageHasNulls(pages[p]) => pages[p].data = DecodePage(pages[p])
  /\ finished => (ColumnHasNulls(pages) <=> \E r \in DOMAIN inserted : inserted[r] = Null)
=============================================================================
