---------------------------- MODULE StringPages -----------------------------
(* A VARCHAR column from insertion to late materialisation:                  *)
(* ColumnInserter<std::string> (plan.h) fills pages of offsets and chars and *)
(* gives a long string pages of its own; the scan emits a reference per row; *)
(* StringRefResolver::resolve turns a reference back into the string when    *)
(* the result is written.                                                    *)
EXTENDS PageFormat

CONSTANTS
  String,        \* the strings inserted: [id, size]
  LongPage,      \* 0xffff in the row counter: first page of a long string
  LongPageNext,  \* 0xfffe: a following page of it
  MaxStrings,    \* bounds on the rows inserted, for TLC
  MaxNulls

\* The place of a string: its page and its number on it (PackedStringRef).
Reference == [page_idx : Nat, slot_idx : Nat]

\* PAGE_SIZE 8192 and 8 bits: at most 65504 rows, below 0xfffe.
ASSUME StringAssumption ==
  /\ \A s \in String : s.size \in Nat
  /\ PageSize >= 8
  /\ LongPage \in Nat /\ LongPageNext \in Nat
  /\ BitsPerByte * (PageSize - 4) < LongPageNext
  /\ LongPageNext < LongPage
  /\ \A s \in String : \A k \in 1 .. s.size : <<s.id, k>> # Garbage
  /\ Null \notin String /\ Null \notin Reference

VARIABLES
  pages,     \* the column's pages
  num_rows,  \* rows of the current page
  data,      \* the chars buffered for the current page
  offsets,   \* the end offsets written to it
  bitmap,    \* the bits set in the bitmap buffer, stale ones included
  inserted,  \* history: every row inserted
  finished   \* finalize() has run

vars == <<pages, num_rows, data, offsets, bitmap, inserted, finished>>

\* The characters of a string, told apart by string and position.
Chars(s) == [k \in 1 .. s.size |-> <<s.id, k>>]

Char == UNION {{Chars(s)[k] : k \in 1 .. s.size} : s \in String}

data_size == Len(data)
offset_end == 4 + 2 * Len(offsets)

Init ==
  /\ pages = <<>>
  /\ num_rows = 0
  /\ data = <<>>
  /\ offsets = <<>>
  /\ bitmap = {}
  /\ inserted = <<>>
  /\ finished = FALSE

-----------------------------------------------------------------------------
(* The inserter.                                                           *)

\* The page save_page leaves: the chars behind the offsets, the bitmap's bytes
\* over the end of the page and over any char that reaches there.  There are as
\* many offsets as rows that are not NULL (README_ORIGINAL.md has the chars behind
\* as many offsets as rows; no writer or reader of pages does).
SavedPage ==
  LET bytes == BitmapBytes(num_rows)
  IN  [rows    |-> num_rows,
       count   |-> (offset_end - 4) \div 2,
       offsets |-> offsets,
       chars   |-> [k \in DOMAIN data |->
                      IF offset_end + k <= PageSize - bytes THEN data[k] ELSE Garbage],
       valid   |-> {b \in bitmap : b < bytes * BitsPerByte}]

\* The pages of save_long_string: PageSize - 4 chars each.
LongPages(s) ==
  LET room == PageSize - 4
      upto(p) == IF p * room < s.size THEN p * room ELSE s.size
  IN  [p \in 1 .. (s.size + room - 1) \div room |->
         [rows  |-> IF p = 1 THEN LongPage ELSE LongPageNext,
          count |-> upto(p) - upto(p - 1),
          chars |-> SubSeq(Chars(s), upto(p - 1) + 1, upto(p))]]

IsLong(s) == s.size > PageSize - 7

MayInsertString ==
  ~finished /\ Cardinality({r \in DOMAIN inserted : inserted[r] # Null}) < MaxStrings

MayInsertNull ==
  ~finished /\ Cardinality({r \in DOMAIN inserted : inserted[r] = Null}) < MaxNulls

\* (Definitions whose name ends in _bug are plausible mistakes, used by no
\* specification.)  The new string's own offset is not counted.
StringFits_bug(s) == HasRoom(offset_end + data_size + s.size, num_rows)

StringFits(s) == HasRoom(offset_end + 2 + data_size + s.size, num_rows)

\* The header is not counted.
NullFits_bug == HasRoom(offset_end - 4 + data_size, num_rows)

NullFits == HasRoom(offset_end + data_size, num_rows)

\* insert(value) of a string that fits a page.
InsertShort(s) ==
  /\ MayInsertString
  /\ ~IsLong(s)
  /\ IF StringFits(s)
       THEN /\ data' = data \o Chars(s)
            /\ offsets' = Append(offsets, data_size + s.size)
            /\ bitmap' = bitmap \union {num_rows}
            /\ num_rows' = num_rows + 1
            /\ UNCHANGED pages
       ELSE /\ pages' = Append(pages, SavedPage)
            /\ data' = Chars(s)
            /\ offsets' = <<s.size>>
            /\ bitmap' = bitmap \union {0}
            /\ num_rows' = 1
  /\ inserted' = Append(inserted, s)
  /\ UNCHANGED finished

\* The rows before a long string stay in the buffer and are saved after it.
InsertLong_bug(s) ==
  /\ MayInsertString
  /\ IsLong(s)
  /\ pages' = pages \o LongPages(s)
  /\ inserted' = Append(inserted, s)
  /\ UNCHANGED <<bitmap, finished, num_rows, data, offsets>>

\* insert(value) of a longer one: the rows before it are saved first.
InsertLong(s) ==
  /\ MayInsertString
  /\ IsLong(s)
  /\ pages' = (IF num_rows > 0 THEN Append(pages, SavedPage) ELSE pages) \o LongPages(s)
  /\ IF num_rows > 0
       THEN num_rows' = 0 /\ data' = <<>> /\ offsets' = <<>>
       ELSE UNCHANGED <<num_rows, data, offsets>>
  /\ inserted' = Append(inserted, s)
  /\ UNCHANGED <<bitmap, finished>>

\* insert_null()
InsertNull ==
  /\ MayInsertNull
  /\ IF NullFits
       THEN /\ bitmap' = bitmap \ {num_rows}
            /\ num_rows' = num_rows + 1
            /\ UNCHANGED <<pages, data, offsets>>
       ELSE /\ pages' = Append(pages, SavedPage)
            /\ data' = <<>>
            /\ offsets' = <<>>
            /\ bitmap' = bitmap \ {0}
            /\ num_rows' = 1
  /\ inserted' = Append(inserted, Null)
  /\ UNCHANGED finished

\* finalize()
Finalize ==
  /\ ~finished
  /\ finished' = TRUE
  /\ IF num_rows # 0
       THEN /\ pages' = Append(pages, SavedPage)
            /\ num_rows' = 0 /\ data' = <<>> /\ offsets' = <<>>
       ELSE UNCHANGED <<pages, num_rows, data, offsets>>
  /\ UNCHANGED <<bitmap, inserted>>

Next ==
  \/ \E s \in String : InsertShort(s) \/ InsertLong(s)
  \/ InsertNull
  \/ Finalize

Spec == Init /\ [][Next]_vars

-----------------------------------------------------------------------------
(* The scan and the resolver.                                              *)

\* The references the scan emits for page p (numbered from 0): one for the
\* first page of a long string, none for the following ones, one per valid row
\* of any other page.
PageRefs(page, p) ==
  IF page.rows = LongPage THEN <<[page_idx |-> p, slot_idx |-> LongPage]>>
  ELSE IF page.rows = LongPageNext THEN <<>>
  ELSE [r \in 1 .. page.rows |->
          IF r - 1 \in page.valid
            THEN [page_idx |-> p, slot_idx |-> Cardinality({b \in page.valid : b < r}) - 1]
            ELSE Null]

ScanRefs(column) == Rows([p \in DOMAIN column |-> PageRefs(column[p], p - 1)])

\* The pieces from number p on, one after the other, as long as they are wanted.
RunFrom(pieces, wanted, p) ==
  LET from[q \in 1 .. Len(pieces) + 1] ==
        IF q \in wanted THEN pieces[q] \o from[q + 1] ELSE <<>>
  IN  from[p]

IsLongPage(page) == page.rows \in {LongPage, LongPageNext}

\* The loop of resolve over the pages of a long string, from page p: it goes on
\* as long as the page belongs to some long string.
LongString(column, p) ==
  RunFrom([q \in DOMAIN column |-> column[q].chars],
          {q \in DOMAIN column : IsLongPage(column[q])}, p + 1)

\* resolve(ref); finalize writes NULL when it returns no pointer.
Resolve(column, ref) ==
  LET page == column[ref.page_idx + 1]
      start == IF ref.slot_idx = 0 THEN 0 ELSE page.offsets[ref.slot_idx]
  IN  IF IsLongPage(page) THEN LongString(column, ref.page_idx)
      ELSE IF ref.slot_idx >= page.count THEN Null
      ELSE SubSeq(page.chars, start + 1, page.offsets[ref.slot_idx + 1])

-----------------------------------------------------------------------------
RowPage ==
  [rows : Nat, count : Nat, offsets : Seq(Nat), chars : Seq(Char), valid : SUBSET Nat]

LongStringPage == [rows : {LongPage, LongPageNext}, count : Nat, chars : Seq(Char)]

\* In particular no char of a saved page is Garbage: none was overwritten.
TypeOK ==
  /\ pages \in Seq(RowPage \union LongStringPage)
  /\ num_rows \in Nat
  /\ data \in Seq(Char)
  /\ offsets \in Seq(Nat)
  /\ bitmap \subseteq Nat
  /\ finished \in BOOLEAN

\* The offsets of the rows that are not NULL, their chars right behind them, as
\* every reader of the code expects, and the bitmap share the page without overlap.
LayoutDisjoint == offset_end + data_size <= PageSize - BitmapBytes(num_rows)

\* No page of ordinary rows has a row count that marks a long string, even when
\* it holds nothing but NULLs.
RowsBelowMarkers ==
  /\ num_rows < LongPageNext
  /\ \A p \in DOMAIN pages :
       pages[p] \in RowPage => pages[p].rows < LongPageNext

\* The column as it would be read if it were finalised now.
Column == IF num_rows = 0 THEN pages ELSE Append(pages, SavedPage)

RowsRead ==
  LET refs == ScanRefs(Column)
  IN  [r \in DOMAIN refs |-> IF refs[r] = Null THEN Null ELSE Resolve(Column, refs[r])]

CharsOf(row) == IF row = Null THEN Null ELSE Chars(row)

\* README_ORIGINAL.md: 0xffff marks the first page of a long string.  So every
\* row reads back as the string that was inserted.
ReadsBack == RowsRead = [r \in DOMAIN inserted |-> CharsOf(inserted[r])]

\* What the resolver does: a long string is read together with the long strings
\* in the rows right after it; every other row, a long one followed by something
\* else included, reads back as inserted.
LongRun(r) ==
  RunFrom([q \in DOMAIN inserted |-> CharsOf(inserted[q])],
          {q \in DOMAIN inserted : inserted[q] # Null /\ IsLong(inserted[q])}, r)

ReadsBackLongRuns ==
  RowsRead = [r \in DOMAIN inserted |->
                IF inserted[r] = Null THEN Null
                ELSE IF IsLong(inserted[r]) THEN LongRun(r)
                ELSE Chars(inserted[r])]
=============================================================================
