----------------------------- MODULE PageFormat -----------------------------
(* The page of a column (plan.h, README_ORIGINAL.md): a header with the      *)
(* number of rows and of values, the values from the front, and a bitmap     *)
(* with one bit per row from the back.  A saved fixed-length page is a       *)
(* record: rows and count as in the header, data the values, valid the       *)
(* numbers of the bits that are set in the bitmap's bytes.                   *)
EXTENDS Pages, FiniteSets

CONSTANTS
  PageSize,     \* PAGE_SIZE, in bytes
  BitsPerByte,  \* 8 in the code; smaller in the checked instances
  Null,         \* a NULL row
  Garbage       \* a value whose bytes were overwritten

ASSUME SizeAssumption ==
  /\ PageSize \in Nat
  /\ BitsPerByte \in Nat \ {0}

\* (Definitions whose name ends in _bug are plausible mistakes in the ones they
\* precede, used by no specification.)  The bitmap is a byte long too often.
BitmapBytes_bug(n) == n \div BitsPerByte + 1

\* (n + 7) / 8: the bytes of a bitmap of n rows.
BitmapBytes(n) == (n + BitsPerByte - 1) \div BitsPerByte

\* The inserters' test that one more row fits: the bytes used by then, and a
\* bitmap of rows + 1 bits.
HasRoom(used, rows) == used + rows \div BitsPerByte + 1 <= PageSize

\* What the rows of a page are read as: the value index advances on valid rows only.
\* Behind the last value lie bytes no value was written to.
DecodePage(page) ==
  LET data_idx(r) == Cardinality({b \in page.valid : b < r})
  IN  [r \in 1 .. page.rows |->
         IF r - 1 \notin page.valid THEN Null
         ELSE IF data_idx(r) \in DOMAIN page.data THEN page.data[data_idx(r)]
         ELSE Garbage]

\* from_columnar: the rows of a column of fixed-length values, page after page.
ReadColumn(pages) == Rows([p \in DOMAIN pages |-> DecodePage(pages[p])])

\* The bits of byte i that belong to a row.
Expected(page, i) ==
  {b \in i * BitsPerByte .. (i + 1) * BitsPerByte - 1 :
     i = BitmapBytes(page.rows) - 1 /\ page.rows % BitsPerByte # 0 => b < page.rows}

\* The last byte of a page is taken for full.
PageHasNulls_bug(page) ==
  \E i \in 0 .. BitmapBytes(page.rows) - 2 : ~(Expected(page, i) \subseteq page.valid)

PageHasNulls(page) ==
  \E i \in 0 .. BitmapBytes(page.rows) - 1 : ~(Expected(page, i) \subseteq page.valid)

\* column_has_nulls: only a column without is read in place.
ColumnHasNulls(pages) == \E p \in DOMAIN pages : PageHasNulls(pages[p])
=============================================================================
