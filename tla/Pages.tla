------------------------------- MODULE Pages --------------------------------
(***************************************************************************)
(* A column as the engine stores it: a sequence of pages, each a sequence   *)
(* of values.  Rows are numbered across pages, so finding a row means       *)
(* finding its page; the scan records where each page starts.               *)
(***************************************************************************)
EXTENDS Integers, Sequences

\* page_offsets as the scan builds it: [p] is the first row of page p (pages are
\* numbered from 0), [n] the number of rows.
PageOffsets(pages) ==
  LET cumulative[p \in 0 .. Len(pages)] ==
        IF p = 0 THEN 0 ELSE cumulative[p - 1] + Len(pages[p])
  IN  cumulative

NumRows(pages) == PageOffsets(pages)[Len(pages)]

\* (A definition whose name ends in _bug is a plausible mistake in the one it
\* precedes.)  The search goes one page too far at the last row of a page.
FindPage_bug(offsets, row) ==
  LET last == CHOOSE n \in DOMAIN offsets : \A m \in DOMAIN offsets : m <= n
      search[range \in (0 .. last) \X (0 .. last)] ==
        LET left == range[1]
            right == range[2]
            mid == (left + right) \div 2
        IN  IF left >= right - 1 THEN left
            ELSE IF row + 1 < offsets[mid] THEN search[<<left, mid>>]
            ELSE search[<<mid, right>>]
  IN  search[<<0, last>>]

\* The binary search over page_offsets for the page of a row.
FindPage(offsets, row) ==
  LET last == CHOOSE n \in DOMAIN offsets : \A m \in DOMAIN offsets : m <= n
      search[range \in (0 .. last) \X (0 .. last)] ==
        LET left == range[1]
            right == range[2]
            mid == (left + right) \div 2
        IN  IF left >= right - 1 THEN left
            ELSE IF row < offsets[mid] THEN search[<<left, mid>>]
            ELSE search[<<mid, right>>]
  IN  search[<<0, last>>]

\* Whether a row lies on a page.
OnPage(offsets, p, row) == offsets[p] <= row /\ row < offsets[p + 1]

\* A row before the remembered page is looked for on it all the same.
PageFrom_bug(offsets, cached, row) ==
  LET numPages == CHOOSE n \in DOMAIN offsets : n + 1 \notin DOMAIN offsets
  IN  IF cached < numPages /\ row < offsets[cached + 1] THEN cached
      ELSE IF cached + 1 < numPages /\ OnPage(offsets, cached + 1, row) THEN cached + 1
      ELSE FindPage(offsets, row)

\* The page of a row, from the page read last: that page, the next or any other.
PageFrom(offsets, cached, row) ==
  LET numPages == CHOOSE n \in DOMAIN offsets : n + 1 \notin DOMAIN offsets
  IN  IF cached < numPages /\ OnPage(offsets, cached, row) THEN cached
      ELSE IF cached + 1 < numPages /\ OnPage(offsets, cached + 1, row) THEN cached + 1
      ELSE FindPage(offsets, row)

\* The column's values in row order.
Rows(pages) ==
  LET upto[p \in 0 .. Len(pages)] ==
        IF p = 0 THEN <<>> ELSE upto[p - 1] \o pages[p]
  IN  upto[Len(pages)]

\* A loop over a list that keeps the elements wanted, in their order.
Kept(list, wanted) ==
  LET upto[n \in 0 .. Len(list)] ==
        IF n = 0 THEN <<>>
        ELSE IF list[n] \in wanted THEN Append(upto[n - 1], list[n])
        ELSE upto[n - 1]
  IN  upto[Len(list)]
=============================================================================
