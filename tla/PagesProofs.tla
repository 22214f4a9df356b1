---------------------------- MODULE PagesProofs -----------------------------
(* Facts about columns in pages, which are sequences of sequences: where the  *)
(* rows of a page are, that the searches find a row's page, the valid rows in  *)
(* front of a row, and the arithmetic of sizes.  What recursive functions     *)
(* compute is proved by induction over a set of numbers.                      *)
EXTENDS Pages, Functions, FiniteSetTheorems, WellFoundedInduction, SequenceTheorems, TLAPS

-----------------------------------------------------------------------------
(* Induction and arithmetic.                                               *)

\* A set with 0 and the successors of its numbers has all numbers.
LEMMA Induction ==
  ASSUME NEW S, 0 \in S, \A n \in Nat : n \in S => n + 1 \in S
  PROVE  \A n \in Nat : n \in S
<1>. SUFFICES ASSUME Nat \ S # {} PROVE FALSE
  OBVIOUS
<1>1. PICK m \in Nat \ S : \A k \in Nat \ S : ~(<<k, m>> \in OpToRel(<, Nat))
  BY NatLessThanWellFounded, WFMin
<1>2. \A k \in Nat \ S : ~(k < m)
  BY <1>1 DEF OpToRel
<1>. QED
  BY <1>2

\* The quotient of Euclid: the facts about \div the provers need for a divisor
\* that is a constant of the module.
LEMMA Quotient ==
  ASSUME NEW a \in Int, NEW b \in Nat \ {0}, NEW q \in Int,
         b * q <= a, a < b * q + b
  PROVE  a \div b = q
OBVIOUS

LEMMA QuotientBounds ==
  ASSUME NEW a \in Nat, NEW b \in Nat \ {0}
  PROVE  /\ a \div b \in Nat
         /\ b * (a \div b) <= a
         /\ a < b * (a \div b) + b
OBVIOUS

LEMMA Remainder ==
  ASSUME NEW a \in Nat, NEW b \in Nat \ {0}
  PROVE  a % b = a - b * (a \div b) /\ a % b \in Nat /\ a % b < b
OBVIOUS

\* Multiplication by a natural number is monotonic.
LEMMA TimesMonotonic ==
  ASSUME NEW b \in Nat, NEW m \in Nat, NEW n \in Nat, m <= n
  PROVE  b * m <= b * n
OBVIOUS

\* Rounding up to whole blocks of b: enough of them, and one not much.
LEMMA RoundUp ==
  ASSUME NEW n \in Nat, NEW b \in Nat \ {0}
  PROVE  /\ (n + b - 1) \div b \in Nat
         /\ n <= b * ((n + b - 1) \div b)
         /\ b * ((n + b - 1) \div b) < n + b
<1>. DEFINE a == n + b - 1
            q == a \div b
<1>1. a \in Nat
  OBVIOUS
<1>2. q \in Nat /\ b * q <= a /\ a < b * q + b
  BY <1>1, QuotientBounds
<1>3. b * q \in Int
  BY <1>2
<1>. HIDE DEF q
<1>4. n <= b * q /\ b * q < n + b
  BY <1>2, <1>3
<1>. QED
  BY <1>2, <1>4 DEF q

LEMMA RoundUpNext ==
  ASSUME NEW n \in Nat, NEW b \in Nat \ {0}
  PROVE  (n + 1 + b - 1) \div b = n \div b + 1
<1>. DEFINE q == n \div b
<1>1. q \in Nat /\ b * q <= n /\ n < b * q + b
  BY QuotientBounds
<1>2. n + b \in Int /\ q + 1 \in Int
  BY <1>1
<1>. HIDE DEF q
<1>3. b * (q + 1) <= n + b /\ n + b < b * (q + 1) + b
  BY <1>1
<1>4. (n + b) \div b = q + 1
  BY <1>2, <1>3, Quotient
<1>5. n + 1 + b - 1 = n + b
  OBVIOUS
<1>. QED
  BY <1>4, <1>5 DEF q

LEMMA RoundUpSmall ==
  ASSUME NEW b \in Nat \ {0}
  PROVE  (0 + b - 1) \div b = 0 /\ (1 + b - 1) \div b = 1
<1>1. (0 + b - 1) \div b = 0
  BY Quotient
<1>2. (1 + b - 1) \div b = 1
  BY Quotient
<1>. QED
  BY <1>1, <1>2

-----------------------------------------------------------------------------
(* Page offsets.                                                           *)

LEMMA OffsetsDefined ==
  ASSUME NEW pages, Len(pages) \in Nat
  PROVE  PageOffsets(pages) =
           [p \in 0 .. Len(pages) |->
              IF p = 0 THEN 0 ELSE PageOffsets(pages)[p - 1] + Len(pages[p])]
<1>. DEFINE Upto(n, f) == f = [p \in 0 .. n |-> IF p = 0 THEN 0 ELSE f[p - 1] + Len(pages[p])]
            S == {n \in Nat : \E f : Upto(n, f)}
<1>1. 0 \in S
  <2>1. Upto(0, [p \in 0 .. 0 |-> 0])
    OBVIOUS
  <2>. QED
    BY <2>1
<1>2. ASSUME NEW n \in Nat, n \in S PROVE n + 1 \in S
  <2>1. PICK f : Upto(n, f)
    BY <1>2
  <2>. DEFINE g == [p \in 0 .. n + 1 |-> IF p = n + 1 THEN f[n] + Len(pages[p]) ELSE f[p]]
  <2>2. Upto(n + 1, g)
    BY <2>1
  <2>3. \E h : Upto(n + 1, h)
    <3>. HIDE DEF Upto, g
    <3>. QED
      BY <2>2
  <2>. HIDE DEF Upto
  <2>. QED
    BY <2>3
<1>3. Len(pages) \in S
  <2>. HIDE DEF S
  <2>. QED
    BY <1>1, <1>2, Induction
<1>. QED
  BY <1>3 DEF PageOffsets

\* Offsets ascend from 0 by the lengths of the pages.
LEMMA OffsetsAscend ==
  ASSUME NEW V, NEW pages \in Seq(Seq(V))
  PROVE  /\ Len(pages) \in Nat
         /\ \A p \in 1 .. Len(pages) : pages[p] \in Seq(V) /\ Len(pages[p]) \in Nat
         /\ PageOffsets(pages) \in [0 .. Len(pages) -> Nat]
         /\ \A p \in 0 .. Len(pages) : PageOffsets(pages)[p] \in Nat
         /\ PageOffsets(pages)[0] = 0
         /\ \A p \in 1 .. Len(pages) :
              PageOffsets(pages)[p] = PageOffsets(pages)[p - 1] + Len(pages[p])
         /\ \A p, q \in 0 .. Len(pages) : p <= q => PageOffsets(pages)[p] <= PageOffsets(pages)[q]
<1>. DEFINE off == PageOffsets(pages)
<1>0. /\ Len(pages) \in Nat
      /\ \A p \in 1 .. Len(pages) : pages[p] \in Seq(V) /\ Len(pages[p]) \in Nat
  OBVIOUS
<1>1. off = [p \in 0 .. Len(pages) |-> IF p = 0 THEN 0 ELSE off[p - 1] + Len(pages[p])]
  BY OffsetsDefined
<1>. HIDE DEF off
<1>2. DOMAIN off = 0 .. Len(pages) /\ off[0] = 0
  BY <1>0, <1>1
<1>3. \A p \in 1 .. Len(pages) : off[p] = off[p - 1] + Len(pages[p])
  <2>. TAKE p \in 1 .. Len(pages)
  <2>1. p \in 0 .. Len(pages) /\ p # 0
    OBVIOUS
  <2>. QED
    BY <1>1, <2>1
<1>4. \A p \in 0 .. Len(pages) : off[p] \in Nat
  <2>. DEFINE S == {n \in Nat : n <= Len(pages) => off[n] \in Nat}
  <2>1. 0 \in S
    BY <1>2
  <2>2. ASSUME NEW n \in Nat, n \in S PROVE n + 1 \in S
    <3>1. CASE n + 1 <= Len(pages)
      <4>1. n + 1 \in 1 .. Len(pages) /\ (n + 1) - 1 = n
        BY <1>0, <3>1
      <4>2. off[n + 1] = off[n] + Len(pages[n + 1])
        BY <1>3, <4>1
      <4>. QED
        BY <1>0, <2>2, <4>1, <4>2
    <3>. QED
      BY <3>1
  <2>3. \A n \in Nat : n \in S
    <3>. HIDE DEF S
    <3>. QED
      BY <2>1, <2>2, Induction
  <2>. QED
    BY <2>3
<1>5. \A p, q \in 0 .. Len(pages) : p <= q => off[p] <= off[q]
  <2>. SUFFICES ASSUME NEW p \in 0 .. Len(pages)
                PROVE  \A q \in 0 .. Len(pages) : p <= q => off[p] <= off[q]
    OBVIOUS
  <2>. DEFINE S == {n \in Nat : p + n <= Len(pages) => off[p] <= off[p + n]}
  <2>1. 0 \in S
    BY <1>4
  <2>2. ASSUME NEW n \in Nat, n \in S PROVE n + 1 \in S
    <3>. SUFFICES ASSUME p + (n + 1) <= Len(pages) PROVE off[p] <= off[p + (n + 1)]
      OBVIOUS
    <3>1. p + n + 1 \in 1 .. Len(pages) /\ p + n \in 0 .. Len(pages) /\ (p + n + 1) - 1 = p + n
      BY <1>0
    <3>2. off[p + n + 1] = off[p + n] + Len(pages[p + n + 1])
      BY <1>3, <3>1
    <3>. QED
      BY <1>0, <1>4, <2>2, <3>1, <3>2
  <2>3. \A n \in Nat : n \in S
    <3>. HIDE DEF S
    <3>. QED
      BY <2>1, <2>2, Induction
  <2>. SUFFICES ASSUME NEW q \in 0 .. Len(pages), p <= q PROVE off[p] <= off[q]
    OBVIOUS
  <2>4. q - p \in Nat /\ p + (q - p) = q /\ q <= Len(pages)
    BY <1>0
  <2>5. q - p \in S
    <3>. HIDE DEF S
    <3>. QED
      BY <2>3, <2>4
  <2>. QED
    BY <2>4, <2>5
<1>6. off \in [0 .. Len(pages) -> Nat]
  BY <1>1, <1>2, <1>4
<1>. QED
  BY <1>0, <1>2, <1>3, <1>4, <1>5, <1>6 DEF off

\* The page of a row is unique.
LEMMA OnePage ==
  ASSUME NEW V, NEW pages \in Seq(Seq(V)), NEW row \in Int,
         NEW p \in 0 .. Len(pages) - 1, NEW q \in 0 .. Len(pages) - 1,
         OnPage(PageOffsets(pages), p, row), OnPage(PageOffsets(pages), q, row)
  PROVE  p = q
<1>. DEFINE off == PageOffsets(pages)
<1>1. /\ Len(pages) \in Nat
      /\ \A r \in 0 .. Len(pages) : off[r] \in Nat
      /\ \A r, s \in 0 .. Len(pages) : r <= s => off[r] <= off[s]
  BY OffsetsAscend
<1>2. off[p] <= row /\ row < off[p + 1] /\ off[q] <= row /\ row < off[q + 1]
  BY DEF OnPage
<1>3. /\ p \in 0 .. Len(pages) /\ p + 1 \in 0 .. Len(pages)
      /\ q \in 0 .. Len(pages) /\ q + 1 \in 0 .. Len(pages)
  BY <1>1
<1>. HIDE DEF off
<1>4. off[p] \in Nat /\ off[p + 1] \in Nat /\ off[q] \in Nat /\ off[q + 1] \in Nat
  BY <1>1, <1>3
<1>5. (p + 1 <= q => off[p + 1] <= off[q]) /\ (q + 1 <= p => off[q + 1] <= off[p])
  BY <1>1, <1>3
<1>. QED
  BY <1>2, <1>4, <1>5, SMTT(60)

\* Every row lies on a page.
LEMMA RowOnPage ==
  ASSUME NEW V, NEW pages \in Seq(Seq(V)), NEW row \in Nat, row < NumRows(pages)
  PROVE  \E p \in 0 .. Len(pages) - 1 : OnPage(PageOffsets(pages), p, row)
<1>. DEFINE off == PageOffsets(pages)
            S == {n \in Nat : n <= Len(pages) /\ row < off[n] =>
                               \E p \in 0 .. Len(pages) - 1 : OnPage(off, p, row)}
<1>1. Len(pages) \in Nat /\ off \in [0 .. Len(pages) -> Nat] /\ off[0] = 0
  BY OffsetsAscend
<1>2. 0 \in S
  BY <1>1
<1>3. ASSUME NEW n \in Nat, n \in S PROVE n + 1 \in S
  <2>. HIDE DEF off
  <2>. SUFFICES ASSUME n + 1 <= Len(pages), row < off[n + 1]
                PROVE  \E p \in 0 .. Len(pages) - 1 : OnPage(off, p, row)
    OBVIOUS
  <2>1. off[n] \in Nat /\ n \in 0 .. Len(pages) - 1
    BY <1>1
  <2>2. CASE row < off[n]
    BY <1>1, <1>3, <2>2
  <2>3. CASE off[n] <= row
    BY <2>1, <2>3 DEF OnPage
  <2>. QED
    BY <2>1, <2>2, <2>3
<1>4. Len(pages) \in S
  <2>. HIDE DEF S
  <2>. QED
    BY <1>1, <1>2, <1>3, Induction
<1>. QED
  BY <1>1, <1>4 DEF NumRows

-----------------------------------------------------------------------------
(* Searching for the page of a row.                                        *)

LEMMA MiddleBetween ==
  ASSUME NEW left \in Nat, NEW right \in Nat, left < right - 1
  PROVE  /\ (left + right) \div 2 \in Nat
         /\ left < (left + right) \div 2 /\ (left + right) \div 2 < right
OBVIOUS

\* What the binary search does at each range.
Halve(offsets, row, f, range) ==
  LET left == range[1]
      right == range[2]
      mid == (left + right) \div 2
  IN  IF left >= right - 1 THEN left
      ELSE IF row < offsets[mid] THEN f[<<left, mid>>]
      ELSE f[<<mid, right>>]

LEMMA SearchDefined ==
  ASSUME NEW offsets, NEW row, NEW last \in Nat
  PROVE  \E f : f = [range \in (0 .. last) \X (0 .. last) |-> Halve(offsets, row, f, range)]
<1>. DEFINE D == (0 .. last) \X (0 .. last)
            Upto(n, f) == \A range \in D : range[2] - range[1] <= n =>
                            f[range] = Halve(offsets, row, f, range)
            S == {n \in Nat : \E f : Upto(n, f)}
<1>1. 0 \in S
  <2>. DEFINE g == [range \in D |-> range[1]]
  <2>1. Upto(0, g)
    BY DEF Halve
  <2>2. \E f : Upto(0, f)
    <3>. HIDE DEF Upto, g
    <3>. QED
      BY <2>1
  <2>. HIDE DEF Upto
  <2>. QED
    BY <2>2
<1>2. ASSUME NEW n \in Nat, n \in S PROVE n + 1 \in S
  <2>1. PICK f : Upto(n, f)
    BY <1>2
  <2>. DEFINE g == [range \in D |-> IF range[2] - range[1] <= n THEN f[range]
                                    ELSE Halve(offsets, row, f, range)]
  <2>2. ASSUME NEW range \in D, range[2] - range[1] <= n + 1
        PROVE  g[range] = Halve(offsets, row, g, range)
    <3>. DEFINE left == range[1]
                right == range[2]
                mid == (left + right) \div 2
    <3>0. left \in 0 .. last /\ right \in 0 .. last
      OBVIOUS
    <3>1. g[range] = Halve(offsets, row, f, range)
      BY <2>1
    <3>2. CASE left >= right - 1
      BY <3>1, <3>2 DEF Halve
    <3>3. CASE left < right - 1
      <4>1. mid \in 0 .. last /\ left < mid /\ mid < right
        BY <3>0, <3>3, MiddleBetween
      <4>2. <<left, mid>> \in D /\ <<mid, right>> \in D /\ mid - left <= n /\ right - mid <= n
        BY <2>2, <3>0, <4>1
      <4>3. g[<<left, mid>>] = f[<<left, mid>>] /\ g[<<mid, right>>] = f[<<mid, right>>]
        <5>. HIDE DEF mid, left, right
        <5>. QED
          BY <4>2
      <4>. QED
        BY <3>1, <4>3 DEF Halve
    <3>. QED
      BY <3>0, <3>2, <3>3
  <2>3. Upto(n + 1, g)
    BY <2>2
  <2>4. \E h : Upto(n + 1, h)
    <3>. HIDE DEF Upto, g
    <3>. QED
      BY <2>3
  <2>. HIDE DEF Upto
  <2>. QED
    BY <2>4
<1>3. last \in S
  <2>. HIDE DEF S
  <2>. QED
    BY <1>1, <1>2, Induction
<1>4. PICK f : Upto(last, f)
  BY <1>3
<1>. DEFINE g == [range \in D |-> f[range]]
<1>5. \A range \in D : g[range] = Halve(offsets, row, g, range)
  <2>. TAKE range \in D
  <2>. DEFINE left == range[1]
              right == range[2]
              mid == (left + right) \div 2
  <2>0. left \in 0 .. last /\ right \in 0 .. last
    OBVIOUS
  <2>1. g[range] = Halve(offsets, row, f, range)
    BY <1>4, <2>0
  <2>2. CASE left >= right - 1
    BY <2>1, <2>2 DEF Halve
  <2>3. CASE left < right - 1
    <3>1. mid \in 0 .. last /\ left < mid /\ mid < right
      BY <2>0, <2>3, MiddleBetween
    <3>2. <<left, mid>> \in D /\ <<mid, right>> \in D
      BY <2>0, <3>1
    <3>3. g[<<left, mid>>] = f[<<left, mid>>] /\ g[<<mid, right>>] = f[<<mid, right>>]
      <4>. HIDE DEF mid, left, right
      <4>. QED
        BY <3>2
    <3>. QED
      BY <2>1, <3>3 DEF Halve
  <2>. QED
    BY <2>0, <2>2, <2>3
<1>6. g = [range \in D |-> Halve(offsets, row, g, range)]
  <2>1. g = [range \in D |-> g[range]]
    OBVIOUS
  <2>. HIDE DEF g
  <2>. QED
    BY <1>5, <2>1
<1>. HIDE DEF g
<1>. QED
  BY <1>6

\* The binary search finds the page of a row.
LEMMA FindPageCorrect ==
  ASSUME NEW V, NEW pages \in Seq(Seq(V)), NEW row \in Nat, row < NumRows(pages)
  PROVE  LET p == FindPage(PageOffsets(pages), row)
         IN  p \in 0 .. Len(pages) - 1 /\ OnPage(PageOffsets(pages), p, row)
<1>. DEFINE off == PageOffsets(pages)
            n == Len(pages)
            D == (0 .. n) \X (0 .. n)
<1>1. n \in Nat /\ off \in [0 .. n -> Nat] /\ off[0] = 0
  BY OffsetsAscend
<1>. DEFINE last == CHOOSE l \in DOMAIN off : \A m \in DOMAIN off : m <= l
            IsSearch(f) == f = [range \in (0 .. last) \X (0 .. last) |-> Halve(off, row, f, range)]
            search == CHOOSE f : IsSearch(f)
<1>2. last = n
  <2>1. n \in DOMAIN off /\ \A m \in DOMAIN off : m <= n
    BY <1>1
  <2>2. last \in DOMAIN off /\ \A m \in DOMAIN off : m <= last
    BY <2>1
  <2>. QED
    BY <1>1, <2>1, <2>2
<1>3. FindPage(off, row) = search[<<0, last>>]
  BY DEF FindPage, Halve
<1>4. IsSearch(search)
  <2>1. \E f : IsSearch(f)
    <3>1. last \in Nat
      BY <1>1, <1>2
    <3>. HIDE DEF last, off
    <3>. QED
      BY ONLY <3>1, SearchDefined, ZenonT(60)
  <2>. HIDE DEF IsSearch
  <2>. QED
    BY <2>1
<1>5. \A range \in D : search[range] = Halve(off, row, search, range)
  BY <1>2, <1>4
<1>. HIDE DEF off, n, last, search
<1>. DEFINE Found(left, right) ==
              search[<<left, right>>] \in 0 .. n - 1 /\ OnPage(off, search[<<left, right>>], row)
            S == {w \in Nat : \A left, right \in 0 .. n :
                    /\ left < right /\ right - left <= w
                    /\ off[left] <= row /\ row < off[right]
                    => Found(left, right)}
<1>6. 0 \in S
  OBVIOUS
<1>7. ASSUME NEW w \in Nat, w \in S PROVE w + 1 \in S
  <2>. SUFFICES ASSUME NEW left \in 0 .. n, NEW right \in 0 .. n,
                       left < right, right - left <= w + 1, off[left] <= row, row < off[right]
                PROVE  Found(left, right)
    OBVIOUS
  <2>. DEFINE mid == (left + right) \div 2
  <2>1. search[<<left, right>>] =
          IF left >= right - 1 THEN left
          ELSE IF row < off[mid] THEN search[<<left, mid>>] ELSE search[<<mid, right>>]
    BY <1>5 DEF Halve
  <2>2. CASE left >= right - 1
    <3>1. right = left + 1 /\ search[<<left, right>>] = left
      BY <1>1, <2>1, <2>2
    <3>. QED
      BY <1>1, <3>1 DEF OnPage
  <2>3. CASE left < right - 1
    <3>1. mid \in 0 .. n /\ left < mid /\ mid < right
      BY <1>1, <2>3, MiddleBetween
    <3>2. mid - left <= w /\ right - mid <= w
      BY <1>1, <3>1
    <3>. HIDE DEF mid
    <3>3. CASE row < off[mid]
      BY <1>7, <2>1, <2>3, <3>1, <3>2, <3>3
    <3>4. CASE off[mid] <= row
      <4>1. ~(row < off[mid])
        BY <1>1, <3>1, <3>4
      <4>. QED
        BY <1>7, <2>1, <2>3, <3>1, <3>2, <3>4, <4>1
    <3>. QED
      BY <1>1, <3>1, <3>3, <3>4
  <2>. QED
    BY <1>1, <2>2, <2>3
<1>8. n \in S
  <2>. HIDE DEF S
  <2>. QED
    BY <1>1, <1>6, <1>7, Induction
<1>9. row < off[n] /\ 0 < n
  BY <1>1 DEF NumRows, off, n
<1>10. Found(0, n)
  BY <1>1, <1>8, <1>9
<1>. QED
  BY <1>2, <1>3, <1>10 DEF off, n

\* So does the search from a remembered page, whatever page that is.
LEMMA PageFromCorrect ==
  ASSUME NEW V, NEW pages \in Seq(Seq(V)), NEW row \in Nat, row < NumRows(pages),
         NEW remembered \in Nat
  PROVE  LET p == PageFrom(PageOffsets(pages), remembered, row)
         IN  p \in 0 .. Len(pages) - 1 /\ OnPage(PageOffsets(pages), p, row)
<1>. DEFINE off == PageOffsets(pages)
            numPages == CHOOSE n \in DOMAIN off : n + 1 \notin DOMAIN off
<1>1. Len(pages) \in Nat /\ off \in [0 .. Len(pages) -> Nat]
  BY OffsetsAscend
<1>2. numPages = Len(pages)
  <2>. HIDE DEF off
  <2>1. Len(pages) \in DOMAIN off /\ Len(pages) + 1 \notin DOMAIN off
    BY <1>1
  <2>2. numPages \in DOMAIN off /\ numPages + 1 \notin DOMAIN off
    BY <2>1
  <2>. QED
    BY <1>1, <2>1, <2>2
<1>3. FindPage(off, row) \in 0 .. Len(pages) - 1 /\ OnPage(off, FindPage(off, row), row)
  BY FindPageCorrect
<1>4. PageFrom(off, remembered, row) =
        IF remembered < numPages /\ OnPage(off, remembered, row) THEN remembered
        ELSE IF remembered + 1 < numPages /\ OnPage(off, remembered + 1, row) THEN remembered + 1
        ELSE FindPage(off, row)
  BY DEF PageFrom
<1>. HIDE DEF numPages, off
<1>. DEFINE q == PageFrom(off, remembered, row)
<1>5. q \in 0 .. Len(pages) - 1 /\ OnPage(off, q, row)
  BY <1>1, <1>2, <1>3, <1>4
<1>. QED
  BY <1>5 DEF off

-----------------------------------------------------------------------------
(* The rows of a column.                                                   *)

LEMMA Concatenation ==
  ASSUME NEW V, NEW s \in Seq(V), NEW t \in Seq(V)
  PROVE  /\ s \o t \in Seq(V)
         /\ Len(s) \in Nat /\ Len(t) \in Nat
         /\ Len(s \o t) = Len(s) + Len(t)
         /\ \A i \in 1 .. Len(s) : (s \o t)[i] = s[i]
         /\ \A i \in 1 .. Len(t) : (s \o t)[Len(s) + i] = t[i]
<1>1. s \o t \in Seq(V) /\ Len(s) \in Nat /\ Len(t) \in Nat /\ Len(s \o t) = Len(s) + Len(t)
  OBVIOUS
<1>2. \A i \in 1 .. Len(s) : (s \o t)[i] = s[i]
  OBVIOUS
<1>3. ASSUME NEW i \in 1 .. Len(t) PROVE (s \o t)[Len(s) + i] = t[i]
  <2>1. Len(s) + i \in 1 .. Len(s) + Len(t) /\ ~(Len(s) + i <= Len(s)) /\ (Len(s) + i) - Len(s) = i
    BY <1>1
  <2>. QED
    BY <1>1, <2>1
<1>. QED
  BY <1>1, <1>2, <1>3

LEMMA RowsDefined ==
  ASSUME NEW pages, Len(pages) \in Nat
  PROVE  \E f : /\ f = [p \in 0 .. Len(pages) |-> IF p = 0 THEN <<>> ELSE f[p - 1] \o pages[p]]
                /\ Rows(pages) = f[Len(pages)]
<1>. DEFINE Upto(n, f) == f = [p \in 0 .. n |-> IF p = 0 THEN <<>> ELSE f[p - 1] \o pages[p]]
            S == {n \in Nat : \E f : Upto(n, f)}
<1>1. 0 \in S
  <2>1. Upto(0, [p \in 0 .. 0 |-> <<>>])
    OBVIOUS
  <2>. QED
    BY <2>1
<1>2. ASSUME NEW n \in Nat, n \in S PROVE n + 1 \in S
  <2>1. PICK f : Upto(n, f)
    BY <1>2
  <2>. DEFINE g == [p \in 0 .. n + 1 |-> IF p = n + 1 THEN f[n] \o pages[p] ELSE f[p]]
  <2>2. Upto(n + 1, g)
    <3>1. ASSUME NEW p \in 0 .. n + 1
          PROVE  g[p] = IF p = 0 THEN <<>> ELSE g[p - 1] \o pages[p]
      <4>1. CASE p = n + 1
        <5>1. n \in 0 .. n + 1 /\ n # n + 1 /\ p # 0 /\ p - 1 = n
          BY <4>1
        <5>2. g[p] = f[n] \o pages[p] /\ g[n] = f[n]
          BY <4>1, <5>1
        <5>. QED
          BY <5>1, <5>2
      <4>2. CASE p # n + 1 /\ p # 0
        <5>1. p \in 0 .. n /\ p - 1 \in 0 .. n /\ p - 1 \in 0 .. n + 1 /\ p - 1 # n + 1
          BY <4>2
        <5>2. g[p] = f[p] /\ g[p - 1] = f[p - 1] /\ f[p] = f[p - 1] \o pages[p]
          BY <2>1, <4>2, <5>1
        <5>. QED
          BY <4>2, <5>2
      <4>3. CASE p = 0
        BY <2>1, <4>3
      <4>. QED
        BY <4>1, <4>2, <4>3
    <3>2. g = [p \in 0 .. n + 1 |-> g[p]]
      OBVIOUS
    <3>. HIDE DEF g
    <3>. QED
      BY <3>1, <3>2
  <2>3. \E h : Upto(n + 1, h)
    <3>. HIDE DEF Upto, g
    <3>. QED
      BY <2>2
  <2>. HIDE DEF Upto
  <2>. QED
    BY <2>3
<1>3. Len(pages) \in S
  <2>. HIDE DEF S
  <2>. QED
    BY <1>1, <1>2, Induction
<1>4. \E f : Upto(Len(pages), f)
  BY <1>3
<1>. DEFINE upto == CHOOSE f : Upto(Len(pages), f)
<1>5. Upto(Len(pages), upto)
  <2>. HIDE DEF Upto
  <2>. QED
    BY <1>4
<1>6. Rows(pages) = upto[Len(pages)]
  BY DEF Rows
<1>. HIDE DEF upto
<1>. QED
  BY <1>5, <1>6

\* A page's values are where its offset says.
LEMMA RowsOfPages ==
  ASSUME NEW V, NEW pages \in Seq(Seq(V))
  PROVE  /\ Rows(pages) \in Seq(V)
         /\ Len(Rows(pages)) = NumRows(pages)
         /\ NumRows(pages) \in Nat
         /\ \A p \in 1 .. Len(pages) : \A i \in 1 .. Len(pages[p]) :
              /\ PageOffsets(pages)[p - 1] + i \in 1 .. NumRows(pages)
              /\ Rows(pages)[PageOffsets(pages)[p - 1] + i] = pages[p][i]
<1>. DEFINE off == PageOffsets(pages)
<1>1. /\ Len(pages) \in Nat /\ off \in [0 .. Len(pages) -> Nat] /\ off[0] = 0
      /\ \A p \in 1 .. Len(pages) : pages[p] \in Seq(V) /\ Len(pages[p]) \in Nat
      /\ \A p \in 0 .. Len(pages) : off[p] \in Nat
      /\ \A p \in 1 .. Len(pages) : off[p] = off[p - 1] + Len(pages[p])
      /\ \A p, q \in 0 .. Len(pages) : p <= q => off[p] <= off[q]
  BY OffsetsAscend
<1>2. PICK f : /\ f = [p \in 0 .. Len(pages) |-> IF p = 0 THEN <<>> ELSE f[p - 1] \o pages[p]]
               /\ Rows(pages) = f[Len(pages)]
  BY <1>1, RowsDefined
<1>3. f[0] = <<>> /\ \A p \in 1 .. Len(pages) : f[p] = f[p - 1] \o pages[p]
  <2>1. f[0] = <<>>
    BY <1>1, <1>2
  <2>2. ASSUME NEW p \in 1 .. Len(pages) PROVE f[p] = f[p - 1] \o pages[p]
    <3>1. p \in 0 .. Len(pages) /\ p # 0
      OBVIOUS
    <3>. QED
      BY <1>2, <3>1
  <2>. QED
    BY <2>1, <2>2
<1>. HIDE DEF off
<1>. DEFINE Has(n) == /\ f[n] \in Seq(V) /\ Len(f[n]) = off[n]
                      /\ \A p \in 1 .. n : \A i \in 1 .. Len(pages[p]) :
                            f[n][off[p - 1] + i] = pages[p][i]
            S == {n \in Nat : n <= Len(pages) => Has(n)}
<1>4. \A p \in 1 .. Len(pages) : /\ pages[p] \in Seq(V) /\ Len(pages[p]) \in Nat
                                 /\ p - 1 \in 0 .. Len(pages) /\ off[p - 1] \in Nat
                                 /\ p \in 0 .. Len(pages) /\ off[p] \in Nat
  <2>1. \A p \in 1 .. Len(pages) : p - 1 \in 0 .. Len(pages) /\ p \in 0 .. Len(pages)
    BY <1>1
  <2>. QED
    BY <1>1, <2>1
<1>5. 0 \in S
  <2>1. f[0] \in Seq(V) /\ Len(f[0]) = off[0]
    BY <1>1, <1>3
  <2>. QED
    BY <2>1
<1>6. ASSUME NEW n \in Nat, n \in S PROVE n + 1 \in S
  <2>. SUFFICES ASSUME n + 1 <= Len(pages) PROVE Has(n + 1)
    OBVIOUS
  <2>1. n + 1 \in 1 .. Len(pages) /\ (n + 1) - 1 = n /\ n \in 0 .. Len(pages) /\ n <= Len(pages)
    BY <1>1
  <2>2. f[n + 1] = f[n] \o pages[n + 1] /\ off[n + 1] = off[n] + Len(pages[n + 1])
    BY <1>1, <1>3, <2>1
  <2>3. Has(n)
    BY <1>6, <2>1
  <2>4. pages[n + 1] \in Seq(V) /\ off[n] \in Nat
    BY <1>1, <1>4, <2>1
  <2>5. /\ f[n + 1] \in Seq(V) /\ Len(f[n + 1]) = off[n + 1]
        /\ \A i \in 1 .. off[n] : f[n + 1][i] = f[n][i]
        /\ \A i \in 1 .. Len(pages[n + 1]) : f[n + 1][off[n] + i] = pages[n + 1][i]
    <3>1. f[n] \in Seq(V) /\ Len(f[n]) = off[n]
      BY <2>3
    <3>. HIDE DEF Has
    <3>. DEFINE s == f[n]
                t == pages[n + 1]
    <3>2. s \in Seq(V) /\ t \in Seq(V)
      BY <2>4, <3>1
    <3>. HIDE DEF s, t
    <3>3. /\ s \o t \in Seq(V)
          /\ Len(s \o t) = Len(s) + Len(t)
          /\ \A i \in 1 .. Len(s) : (s \o t)[i] = s[i]
          /\ \A i \in 1 .. Len(t) : (s \o t)[Len(s) + i] = t[i]
      BY <3>2, Concatenation
    <3>. QED
      BY <2>2, <3>1, <3>3 DEF s, t
  <2>6. ASSUME NEW p \in 1 .. n + 1, NEW i \in 1 .. Len(pages[p])
        PROVE  f[n + 1][off[p - 1] + i] = pages[p][i]
    <3>1. CASE p <= n
      <4>1. p \in 1 .. n /\ p \in 1 .. Len(pages) /\ n \in 0 .. Len(pages)
        BY <1>1, <2>1, <3>1
      <4>2. off[p] = off[p - 1] + Len(pages[p]) /\ off[p] <= off[n]
        BY <1>1, <1>4, <4>1
      <4>3. off[p - 1] \in Nat /\ Len(pages[p]) \in Nat
        BY <1>4, <4>1
      <4>4. off[p - 1] + i \in 1 .. off[n]
        BY <2>4, <4>2, <4>3, SMTT(60)
      <4>. QED
        BY <2>3, <2>5, <4>1, <4>4
    <3>2. CASE p = n + 1
      BY <2>1, <2>5, <3>2
    <3>. QED
      BY <3>1, <3>2
  <2>. QED
    BY <2>5, <2>6
<1>7. Len(pages) \in S
  <2>. HIDE DEF S
  <2>. QED
    BY <1>1, <1>5, <1>6, Induction
<1>8. Has(Len(pages))
  BY <1>1, <1>7
<1>9. \A p \in 1 .. Len(pages) : \A i \in 1 .. Len(pages[p]) : off[p - 1] + i \in 1 .. off[Len(pages)]
  <2>. TAKE p \in 1 .. Len(pages)
  <2>. TAKE i \in 1 .. Len(pages[p])
  <2>1. Len(pages) \in 0 .. Len(pages)
    BY <1>1
  <2>2. off[p] = off[p - 1] + Len(pages[p]) /\ off[p] <= off[Len(pages)] /\ off[Len(pages)] \in Nat
    BY <1>1, <1>4, <2>1
  <2>3. off[p - 1] \in Nat /\ Len(pages[p]) \in Nat
    BY <1>4
  <2>. QED
    BY ONLY <2>2, <2>3, i \in 1 .. Len(pages[p])
<1>10. off[Len(pages)] \in Nat /\ NumRows(pages) = off[Len(pages)]
  BY <1>1 DEF NumRows, off
<1>. QED
  BY <1>2, <1>8, <1>9, <1>10 DEF off

\* A row read from the page it lies on is the row.
RowFound(pages, p, row) ==
  LET slot == row - PageOffsets(pages)[p] + 1
  IN  slot \in DOMAIN pages[p + 1] /\ pages[p + 1][slot] = Rows(pages)[row + 1]

LEMMA RowReadFromPage ==
  ASSUME NEW V, NEW pages \in Seq(Seq(V)), NEW row \in Nat,
         NEW p \in 0 .. Len(pages) - 1, OnPage(PageOffsets(pages), p, row)
  PROVE  RowFound(pages, p, row) /\ row < NumRows(pages)
<1>. DEFINE off == PageOffsets(pages)
            i == row - off[p] + 1
<1>1. /\ Len(pages) \in Nat /\ off \in [0 .. Len(pages) -> Nat]
      /\ p + 1 \in 1 .. Len(pages) /\ (p + 1) - 1 = p
      /\ off[p + 1] = off[p] + Len(pages[p + 1])
  BY OffsetsAscend
<1>2. off[p] <= row /\ row < off[p + 1]
  BY DEF OnPage
<1>3. pages[p + 1] \in Seq(V) /\ off[p] \in Nat
  BY <1>1
<1>. HIDE DEF off
<1>4. i \in 1 .. Len(pages[p + 1]) /\ off[p] + i = row + 1
  BY <1>1, <1>2, <1>3
<1>5. Rows(pages)[off[p] + i] = pages[p + 1][i] /\ off[p] + i \in 1 .. NumRows(pages)
  BY <1>1, <1>4, RowsOfPages DEF off
<1>6. NumRows(pages) \in Nat
  BY RowsOfPages
<1>. QED
  BY <1>3, <1>4, <1>5, <1>6, SMTT(60) DEF off, RowFound

\* The rows are the values of the pages.
LEMMA RangeOfRows ==
  ASSUME NEW V, NEW pages \in Seq(Seq(V))
  PROVE  Range(Rows(pages)) = UNION {Range(pages[p]) : p \in 1 .. Len(pages)}
<1>1. /\ Rows(pages) \in Seq(V) /\ Len(Rows(pages)) = NumRows(pages) /\ NumRows(pages) \in Nat
      /\ Len(pages) \in Nat
  BY RowsOfPages, OffsetsAscend
<1>2. ASSUME NEW r \in DOMAIN Rows(pages)
      PROVE  \E p \in 1 .. Len(pages) : Rows(pages)[r] \in Range(pages[p])
  <2>1. r - 1 \in Nat /\ r - 1 < NumRows(pages) /\ (r - 1) + 1 = r
    BY <1>1
  <2>2. PICK p \in 0 .. Len(pages) - 1 : OnPage(PageOffsets(pages), p, r - 1)
    BY <2>1, RowOnPage
  <2>3. p + 1 \in 1 .. Len(pages)
    BY <1>1
  <2>4. /\ (r - 1) - PageOffsets(pages)[p] + 1 \in DOMAIN pages[p + 1]
        /\ pages[p + 1][(r - 1) - PageOffsets(pages)[p] + 1] = Rows(pages)[(r - 1) + 1]
    BY <2>1, <2>2, RowReadFromPage DEF RowFound
  <2>5. Rows(pages)[r] \in Range(pages[p + 1])
    BY <2>1, <2>4 DEF Range
  <2>. QED
    BY <2>3, <2>5
<1>3. ASSUME NEW p \in 1 .. Len(pages), NEW i \in DOMAIN pages[p]
      PROVE  pages[p][i] \in Range(Rows(pages))
  <2>1. i \in 1 .. Len(pages[p])
    <3>1. pages[p] \in Seq(V)
      BY OffsetsAscend
    <3>. QED
      BY <3>1
  <2>. DEFINE r == PageOffsets(pages)[p - 1] + i
  <2>2. r \in 1 .. NumRows(pages) /\ Rows(pages)[r] = pages[p][i]
    BY <2>1, RowsOfPages
  <2>3. r \in DOMAIN Rows(pages)
    BY <1>1, <2>2
  <2>. QED
    BY <2>2, <2>3 DEF Range
<1>4. Range(Rows(pages)) \subseteq UNION {Range(pages[p]) : p \in 1 .. Len(pages)}
  <2>. SUFFICES ASSUME NEW v \in Range(Rows(pages))
                PROVE  \E p \in 1 .. Len(pages) : v \in Range(pages[p])
    OBVIOUS
  <2>1. PICK r \in DOMAIN Rows(pages) : v = Rows(pages)[r]
    BY DEF Range
  <2>. QED
    BY <1>2, <2>1
<1>5. \A p \in 1 .. Len(pages) : Range(pages[p]) \subseteq Range(Rows(pages))
  <2>. TAKE p \in 1 .. Len(pages)
  <2>. SUFFICES ASSUME NEW v \in Range(pages[p]) PROVE v \in Range(Rows(pages))
    OBVIOUS
  <2>1. PICK i \in DOMAIN pages[p] : v = pages[p][i]
    BY DEF Range
  <2>. QED
    BY <1>3, <2>1
<1>. QED
  BY <1>4, <1>5

\* Pages that repeat no value and share none make rows that repeat none.
LEMMA InjectiveRows ==
  ASSUME NEW V, NEW pages \in Seq(Seq(V)),
         \A p \in 1 .. Len(pages) : IsInjective(pages[p]),
         \A p, q \in 1 .. Len(pages) : p # q => Range(pages[p]) \cap Range(pages[q]) = {}
  PROVE  IsInjective(Rows(pages))
<1>1. /\ Rows(pages) \in Seq(V) /\ Len(Rows(pages)) = NumRows(pages) /\ NumRows(pages) \in Nat
      /\ Len(pages) \in Nat
  BY RowsOfPages, OffsetsAscend
<1>. SUFFICES ASSUME NEW r \in DOMAIN Rows(pages), NEW s \in DOMAIN Rows(pages),
                     Rows(pages)[r] = Rows(pages)[s]
              PROVE  r = s
  BY DEF IsInjective
<1>. DEFINE off == PageOffsets(pages)
<1>2. /\ r \in Nat /\ r - 1 \in Nat /\ r - 1 < NumRows(pages) /\ (r - 1) + 1 = r
      /\ s \in Nat /\ s - 1 \in Nat /\ s - 1 < NumRows(pages) /\ (s - 1) + 1 = s
  BY <1>1
<1>3. PICK p \in 0 .. Len(pages) - 1 : OnPage(off, p, r - 1)
  BY <1>2, RowOnPage
<1>4. PICK q \in 0 .. Len(pages) - 1 : OnPage(off, q, s - 1)
  BY <1>2, RowOnPage
<1>5. /\ p + 1 \in 1 .. Len(pages) /\ q + 1 \in 1 .. Len(pages)
      /\ p \in 0 .. Len(pages) /\ off[p] \in Nat
  BY <1>1, OffsetsAscend
<1>6. /\ (r - 1) - off[p] + 1 \in DOMAIN pages[p + 1]
      /\ pages[p + 1][(r - 1) - off[p] + 1] = Rows(pages)[r]
  BY <1>2, <1>3, RowReadFromPage, SMTT(60) DEF RowFound
<1>7. /\ (s - 1) - off[q] + 1 \in DOMAIN pages[q + 1]
      /\ pages[q + 1][(s - 1) - off[q] + 1] = Rows(pages)[s]
  BY <1>2, <1>4, RowReadFromPage DEF RowFound
<1>. HIDE DEF off
<1>8. p + 1 = q + 1
  BY <1>5, <1>6, <1>7 DEF Range
<1>9. p = q
  BY <1>8
<1>10. (r - 1) - off[p] + 1 = (s - 1) - off[p] + 1
  BY <1>5, <1>6, <1>7, <1>9 DEF IsInjective
<1>. QED
  BY <1>2, <1>5, <1>10, SMTT(60)

\* A page of fixed size is found by division.
LEMMA FullPages ==
  ASSUME NEW V, NEW pages \in Seq(Seq(V)), NEW size \in Nat \ {0},
         \A p \in 1 .. Len(pages) : Len(pages[p]) <= size,
         \A p \in 1 .. Len(pages) - 1 : Len(pages[p]) = size,
         NEW row \in Nat, row < NumRows(pages)
  PROVE  /\ row \div size \in 0 .. Len(pages) - 1
         /\ (row % size) + 1 \in DOMAIN pages[row \div size + 1]
         /\ pages[row \div size + 1][(row % size) + 1] = Rows(pages)[row + 1]
<1>. DEFINE off == PageOffsets(pages)
            S == {n \in Nat : n <= Len(pages) - 1 => off[n] = size * n}
<1>1. /\ Len(pages) \in Nat
      /\ \A p \in 1 .. Len(pages) : pages[p] \in Seq(V) /\ Len(pages[p]) \in Nat
      /\ off[0] = 0
      /\ \A p \in 1 .. Len(pages) : off[p] = off[p - 1] + Len(pages[p])
  BY OffsetsAscend
<1>2. PICK p \in 0 .. Len(pages) - 1 : OnPage(off, p, row)
  BY RowOnPage
<1>3. /\ row - off[p] + 1 \in DOMAIN pages[p + 1]
      /\ pages[p + 1][row - off[p] + 1] = Rows(pages)[row + 1]
  BY <1>2, RowReadFromPage DEF RowFound
<1>4. off[p] = size * p
  <2>. HIDE DEF off
  <2>1. 0 \in S
    BY <1>1
  <2>2. ASSUME NEW n \in Nat, n \in S PROVE n + 1 \in S
    <3>. SUFFICES ASSUME n + 1 <= Len(pages) - 1 PROVE off[n + 1] = size * (n + 1)
      OBVIOUS
    <3>1. n + 1 \in 1 .. Len(pages) /\ n + 1 \in 1 .. Len(pages) - 1 /\ (n + 1) - 1 = n
          /\ n <= Len(pages) - 1
      BY <1>1
    <3>2. off[n + 1] = size * n + size
      BY <1>1, <2>2, <3>1
    <3>. QED
      BY <3>2
  <2>3. p \in S
    <3>1. p \in Nat
      BY <1>1
    <3>. HIDE DEF S
    <3>. QED
      BY <2>1, <2>2, <3>1, Induction
  <2>. QED
    BY <2>3, <1>1
<1>5. p + 1 \in 1 .. Len(pages) /\ (p + 1) - 1 = p /\ p \in Nat /\ size * p \in Nat
  BY <1>1
<1>6. off[p + 1] = off[p] + Len(pages[p + 1]) /\ Len(pages[p + 1]) <= size /\ Len(pages[p + 1]) \in Nat
  BY <1>1, <1>5
<1>7. off[p] <= row /\ row < off[p + 1]
  BY <1>2 DEF OnPage
<1>. HIDE DEF off
<1>8. off[p] <= row /\ row < off[p] + size
  <2>1. off[p] \in Nat
    BY <1>4, <1>5
  <2>. QED
    BY <1>6, <1>7, <2>1
<1>9. row \div size = p
  <2>1. size * p <= row /\ row < size * p + size
    BY <1>4, <1>8
  <2>2. row \in Int /\ p \in Int
    BY <1>5
  <2>. QED
    BY <2>1, <2>2, Quotient
<1>10. row % size = row - off[p]
  BY <1>4, <1>9, Remainder
<1>. QED
  BY <1>2, <1>3, <1>9, <1>10

\* Pages for n rows, the last one cut to size, have n rows.
LEMMA PagesForRows ==
  ASSUME NEW V, NEW pages \in Seq(Seq(V)), NEW size \in Nat \ {0}, NEW n \in Nat,
         Len(pages) = (n + size - 1) \div size,
         \A p \in 1 .. Len(pages) :
           Len(pages[p]) = IF n - (p - 1) * size < size THEN n - (p - 1) * size ELSE size
  PROVE  /\ NumRows(pages) = n
         /\ \A p \in 1 .. Len(pages) : Len(pages[p]) <= size
         /\ \A p \in 1 .. Len(pages) - 1 : Len(pages[p]) = size
<1>. DEFINE k == Len(pages)
            off == PageOffsets(pages)
<1>1. /\ k \in Nat /\ off[0] = 0
      /\ \A p \in 1 .. k : Len(pages[p]) \in Nat
      /\ \A p \in 0 .. k : off[p] \in Nat
      /\ \A p \in 1 .. k : off[p] = off[p - 1] + Len(pages[p])
  BY OffsetsAscend
<1>2. n <= size * k /\ size * k < n + size
  BY RoundUp
<1>3. \A p \in 1 .. k : Len(pages[p]) <= size
  <2>. TAKE p \in 1 .. k
  <2>. DEFINE rest == n - (p - 1) * size
  <2>1. rest \in Int
    BY <1>1
  <2>2. Len(pages[p]) = IF rest < size THEN rest ELSE size
    OBVIOUS
  <2>. HIDE DEF rest
  <2>. QED
    BY <2>1, <2>2
<1>4. \A p \in 1 .. k - 1 : Len(pages[p]) = size
  <2>. TAKE p \in 1 .. k - 1
  <2>1. p \in Nat /\ k - 1 \in Nat /\ p <= k - 1 /\ p \in 1 .. k /\ p - 1 \in Nat
    BY <1>1
  <2>2. size * p <= size * (k - 1)
    BY <2>1, TimesMonotonic
  <2>3. size * (k - 1) = size * k - size
    BY <1>1
  <2>4. (p - 1) * size = size * p - size
    BY <2>1
  <2>5. size * p \in Nat /\ size * k \in Nat
    BY <1>1, <2>1
  <2>6. ~(n - (p - 1) * size < size)
    BY <1>2, <2>2, <2>3, <2>4, <2>5
  <2>. QED
    BY <2>1, <2>6
<1>5. \A p \in Nat : p <= k - 1 => off[p] = size * p
  <2>. DEFINE S == {p \in Nat : p <= k - 1 => off[p] = size * p}
  <2>1. 0 \in S
    BY <1>1
  <2>2. ASSUME NEW p \in Nat, p \in S PROVE p + 1 \in S
    <3>. HIDE DEF off, k
    <3>. SUFFICES ASSUME p + 1 <= k - 1 PROVE off[p + 1] = size * (p + 1)
      OBVIOUS
    <3>1. p + 1 \in 1 .. k /\ p + 1 \in 1 .. k - 1 /\ (p + 1) - 1 = p /\ p <= k - 1
      BY <1>1
    <3>2. off[p + 1] = off[p] + Len(pages[p + 1])
      BY <1>1, <3>1
    <3>3. off[p + 1] = size * p + size
      BY <1>4, <2>2, <3>1, <3>2
    <3>. QED
      BY <3>3
  <2>3. \A p \in Nat : p \in S
    <3>. HIDE DEF S
    <3>. QED
      BY <2>1, <2>2, Induction
  <2>. QED
    BY <2>3
<1>6. NumRows(pages) = off[k]
  BY DEF NumRows
<1>7. off[k] = n
  <2>1. CASE k = 0
    <3>1. size * k = 0
      BY <2>1
    <3>2. n = 0
      BY <1>2, <3>1
    <3>. QED
      BY <1>1, <2>1, <3>2
  <2>2. CASE k # 0
    <3>1. k \in 1 .. k /\ k - 1 \in Nat /\ size * k \in Nat
      BY <1>1, <2>2
    <3>2. off[k - 1] = size * (k - 1) /\ size * (k - 1) = size * k - size /\ (k - 1) * size = size * k - size
      BY <1>5, <3>1
    <3>3. Len(pages[k]) = n - (k - 1) * size
      <4>1. Len(pages[k]) = IF n - (k - 1) * size < size THEN n - (k - 1) * size ELSE size
        BY <3>1
      <4>2. n - (k - 1) * size <= size
        BY <1>2, <3>1, <3>2
      <4>3. n - (k - 1) * size \in Int
        BY <3>1, <3>2
      <4>. QED
        BY <4>1, <4>2, <4>3
    <3>4. off[k] = off[k - 1] + Len(pages[k])
      BY <1>1, <3>1
    <3>. HIDE DEF off, k
    <3>. QED
      BY <3>1, <3>2, <3>3, <3>4
  <2>. QED
    BY <2>1, <2>2
<1>. QED
  BY <1>3, <1>4, <1>6, <1>7

\* Quotient and remainder together name one row.
LEMMA RowNamed ==
  ASSUME NEW size \in Nat \ {0}, NEW a \in Nat, NEW b \in Nat,
         a \div size = b \div size, a % size = b % size
  PROVE  a = b
<1>1. a % size = a - size * (a \div size) /\ a \div size \in Nat
  BY Remainder, QuotientBounds
<1>2. b % size = b - size * (b \div size)
  BY Remainder
<1>3. size * (a \div size) \in Nat
  BY <1>1
<1>. QED
  BY <1>1, <1>2, <1>3

\* Writing a value into a page changes no other.
LEMMA ValueWritten ==
  ASSUME NEW V, NEW pages \in Seq(Seq(V)), NEW p \in 1 .. Len(pages),
         NEW i \in 1 .. Len(pages[p]), NEW v \in V
  PROVE  LET new == [pages EXCEPT ![p][i] = v]
         IN  /\ new \in Seq(Seq(V))
             /\ Len(new) = Len(pages)
             /\ \A q \in 1 .. Len(pages) : Len(new[q]) = Len(pages[q])
             /\ new[p][i] = v
             /\ \A q \in 1 .. Len(pages) : \A j \in 1 .. Len(pages[q]) :
                  q # p \/ j # i => new[q][j] = pages[q][j]
<1>. DEFINE page == [pages[p] EXCEPT ![i] = v]
            new == [pages EXCEPT ![p] = page]
<1>1. /\ DOMAIN pages = 1 .. Len(pages) /\ Len(pages) \in Nat
      /\ pages[p] \in Seq(V) /\ DOMAIN pages[p] = 1 .. Len(pages[p]) /\ Len(pages[p]) \in Nat
  OBVIOUS
<1>2. page \in Seq(V) /\ Len(page) = Len(pages[p])
  OBVIOUS
<1>3. page[i] = v /\ \A j \in 1 .. Len(pages[p]) : j # i => page[j] = pages[p][j]
  BY <1>1
<1>. HIDE DEF page
<1>4. new \in Seq(Seq(V)) /\ Len(new) = Len(pages)
  BY <1>2
<1>5. new[p] = page /\ \A q \in 1 .. Len(pages) : q # p => new[q] = pages[q]
  BY <1>1
<1>. HIDE DEF new
<1>6. \A q \in 1 .. Len(pages) : Len(new[q]) = Len(pages[q])
  BY <1>2, <1>5
<1>7. \A q \in 1 .. Len(pages) : \A j \in 1 .. Len(pages[q]) :
        q # p \/ j # i => new[q][j] = pages[q][j]
  BY <1>3, <1>5
<1>. QED
  BY <1>3, <1>4, <1>5, <1>6, <1>7 DEF new, page

-----------------------------------------------------------------------------
(* Copying some elements of a list.                                        *)

LEMMA KeptDefined ==
  ASSUME NEW list, NEW wanted, Len(list) \in Nat
  PROVE  \E f : /\ f = [n \in 0 .. Len(list) |->
                          IF n = 0 THEN <<>>
                          ELSE IF list[n] \in wanted THEN Append(f[n - 1], list[n])
                          ELSE f[n - 1]]
                /\ Kept(list, wanted) = f[Len(list)]
<1>. DEFINE Step(f, p) == IF p = 0 THEN <<>>
                          ELSE IF list[p] \in wanted THEN Append(f[p - 1], list[p])
                          ELSE f[p - 1]
            Upto(n, f) == f = [p \in 0 .. n |-> Step(f, p)]
            S == {n \in Nat : \E f : Upto(n, f)}
<1>1. 0 \in S
  <2>1. Upto(0, [p \in 0 .. 0 |-> <<>>])
    OBVIOUS
  <2>. QED
    BY <2>1
<1>2. ASSUME NEW n \in Nat, n \in S PROVE n + 1 \in S
  <2>1. PICK f : Upto(n, f)
    BY <1>2
  <2>. DEFINE g == [p \in 0 .. n + 1 |-> IF p = n + 1 THEN Step(f, p) ELSE f[p]]
  <2>2. Upto(n + 1, g)
    <3>1. ASSUME NEW p \in 0 .. n + 1 PROVE g[p] = Step(g, p)
      <4>1. CASE p = n + 1
        <5>1. n \in 0 .. n + 1 /\ n # n + 1 /\ p # 0 /\ p - 1 = n
          BY <4>1
        <5>2. g[p] = Step(f, p) /\ g[n] = f[n]
          BY <4>1, <5>1
        <5>. QED
          BY <5>1, <5>2
      <4>2. CASE p # n + 1 /\ p # 0
        <5>1. p \in 0 .. n /\ p - 1 \in 0 .. n /\ p - 1 \in 0 .. n + 1 /\ p - 1 # n + 1
          BY <4>2
        <5>2. g[p] = f[p] /\ g[p - 1] = f[p - 1] /\ f[p] = Step(f, p)
          BY <2>1, <4>2, <5>1
        <5>. QED
          BY <4>2, <5>2
      <4>3. CASE p = 0
        BY <2>1, <4>3
      <4>. QED
        BY <4>1, <4>2, <4>3
    <3>2. g = [p \in 0 .. n + 1 |-> g[p]]
      OBVIOUS
    <3>. HIDE DEF g, Step
    <3>. QED
      BY <3>1, <3>2
  <2>3. \E h : Upto(n + 1, h)
    <3>. HIDE DEF Upto, g
    <3>. QED
      BY <2>2
  <2>. HIDE DEF Upto
  <2>. QED
    BY <2>3
<1>3. Len(list) \in S
  <2>. HIDE DEF S
  <2>. QED
    BY <1>1, <1>2, Induction
<1>4. \E f : Upto(Len(list), f)
  BY <1>3
<1>. DEFINE upto == CHOOSE f : Upto(Len(list), f)
<1>5. Upto(Len(list), upto)
  <2>. HIDE DEF Upto
  <2>. QED
    BY <1>4
<1>6. Kept(list, wanted) = upto[Len(list)]
  BY DEF Kept
<1>. HIDE DEF upto
<1>. QED
  BY <1>5, <1>6

LEMMA AppendToList ==
  ASSUME NEW V, NEW s \in Seq(V), NEW v \in V
  PROVE  /\ Append(s, v) \in Seq(V)
         /\ Range(Append(s, v)) = Range(s) \union {v}
         /\ IsInjective(s) /\ v \notin Range(s) => IsInjective(Append(s, v))
<1>1. /\ Append(s, v) \in Seq(V) /\ Len(Append(s, v)) = Len(s) + 1 /\ Len(s) \in Nat
      /\ \A i \in 1 .. Len(s) : Append(s, v)[i] = s[i]
      /\ Append(s, v)[Len(s) + 1] = v
  OBVIOUS
<1>2. DOMAIN Append(s, v) = 1 .. Len(s) + 1 /\ DOMAIN s = 1 .. Len(s)
  BY <1>1
<1>. DEFINE t == Append(s, v)
<1>. HIDE DEF t
<1>3. \A i \in DOMAIN t : i = Len(s) + 1 \/ i \in DOMAIN s
  BY <1>1, <1>2 DEF t
<1>4. DOMAIN s \subseteq DOMAIN t /\ Len(s) + 1 \in DOMAIN t
  BY <1>1, <1>2 DEF t
<1>5. Range(t) = Range(s) \union {v}
  BY <1>1, <1>2, <1>3, <1>4 DEF t, Range
<1>6. IsInjective(s) /\ v \notin Range(s) => IsInjective(t)
  BY <1>1, <1>2, <1>3, <1>4 DEF t, Range, IsInjective
<1>. QED
  BY <1>1, <1>5, <1>6 DEF t

\* The list keeps the wanted elements, and repeats none that was not repeated.
LEMMA KeptElements ==
  ASSUME NEW V, NEW list \in Seq(V), NEW wanted
  PROVE  /\ Kept(list, wanted) \in Seq(V)
         /\ Range(Kept(list, wanted)) = Range(list) \cap wanted
         /\ IsInjective(list) => IsInjective(Kept(list, wanted))
<1>1. Len(list) \in Nat /\ DOMAIN list = 1 .. Len(list) /\ \A n \in 1 .. Len(list) : list[n] \in V
  OBVIOUS
<1>2. PICK f : /\ f = [n \in 0 .. Len(list) |->
                          IF n = 0 THEN <<>>
                          ELSE IF list[n] \in wanted THEN Append(f[n - 1], list[n])
                          ELSE f[n - 1]]
               /\ Kept(list, wanted) = f[Len(list)]
  BY <1>1, KeptDefined
<1>3. /\ f[0] = <<>>
      /\ \A n \in 1 .. Len(list) :
           f[n] = IF list[n] \in wanted THEN Append(f[n - 1], list[n]) ELSE f[n - 1]
  <2>1. f[0] = <<>>
    BY <1>1, <1>2
  <2>2. ASSUME NEW n \in 1 .. Len(list)
        PROVE  f[n] = IF list[n] \in wanted THEN Append(f[n - 1], list[n]) ELSE f[n - 1]
    <3>1. n \in 0 .. Len(list) /\ n # 0
      OBVIOUS
    <3>. QED
      BY <1>2, <3>1
  <2>. QED
    BY <2>1, <2>2
<1>. DEFINE Has(n) == /\ f[n] \in Seq(V)
                      /\ Range(f[n]) = {list[i] : i \in 1 .. n} \cap wanted
                      /\ IsInjective(list) => IsInjective(f[n])
            S == {n \in Nat : n <= Len(list) => Has(n)}
<1>4. 0 \in S
  <2>1. <<>> \in Seq(V) /\ Range(<<>>) = {} /\ IsInjective(<<>>)
    BY DEF Range, IsInjective
  <2>2. {list[i] : i \in 1 .. 0} = {}
    OBVIOUS
  <2>3. Has(0)
    BY <1>3, <2>1, <2>2
  <2>. QED
    BY <2>3
<1>5. ASSUME NEW n \in Nat, n \in S PROVE n + 1 \in S
  <2>. SUFFICES ASSUME n + 1 <= Len(list) PROVE Has(n + 1)
    OBVIOUS
  <2>1. n + 1 \in 1 .. Len(list) /\ (n + 1) - 1 = n /\ n <= Len(list) /\ list[n + 1] \in V
    BY <1>1
  <2>2. Has(n) /\ f[n + 1] = IF list[n + 1] \in wanted THEN Append(f[n], list[n + 1]) ELSE f[n]
    BY <1>3, <1>5, <2>1
  <2>3. {list[i] : i \in 1 .. n + 1} = {list[i] : i \in 1 .. n} \union {list[n + 1]}
    <3>1. 1 .. n + 1 = (1 .. n) \union {n + 1}
      OBVIOUS
    <3>. QED
      BY <3>1
  <2>4. CASE list[n + 1] \notin wanted
    BY <2>2, <2>3, <2>4
  <2>5. CASE list[n + 1] \in wanted
    <3>1. f[n] \in Seq(V) /\ Range(f[n]) = {list[i] : i \in 1 .. n} \cap wanted
          /\ (IsInjective(list) => IsInjective(f[n])) /\ f[n + 1] = Append(f[n], list[n + 1])
      BY <2>2, <2>5
    <3>2. IsInjective(list) => list[n + 1] \notin {list[i] : i \in 1 .. n}
      <4>1. \A i \in 1 .. n : i \in DOMAIN list /\ n + 1 \in DOMAIN list /\ i # n + 1
        BY <1>1, <2>1
      <4>. QED
        BY <4>1 DEF IsInjective
    <3>. DEFINE s == f[n]
                v == list[n + 1]
    <3>. HIDE DEF s, v
    <3>3. s \in Seq(V) /\ v \in V
      BY <2>1, <3>1 DEF s, v
    <3>4. /\ Append(s, v) \in Seq(V) /\ Range(Append(s, v)) = Range(s) \union {v}
          /\ IsInjective(s) /\ v \notin Range(s) => IsInjective(Append(s, v))
      BY <3>3, AppendToList
    <3>. QED
      BY <2>3, <2>5, <3>1, <3>2, <3>4 DEF s, v
  <2>. QED
    BY <2>4, <2>5
<1>6. Len(list) \in S
  <2>. HIDE DEF S
  <2>. QED
    BY <1>1, <1>4, <1>5, Induction
<1>7. Has(Len(list))
  BY <1>1, <1>6
<1>8. Range(list) = {list[i] : i \in 1 .. Len(list)}
  BY <1>1 DEF Range
<1>. QED
  BY <1>2, <1>7, <1>8


\* Another page adds its values behind the others.
LEMMA RowsAppended ==
  ASSUME NEW V, NEW pages \in Seq(Seq(V)), NEW page \in Seq(V)
  PROVE  /\ Append(pages, page) \in Seq(Seq(V))
         /\ Rows(Append(pages, page)) = Rows(pages) \o page
<1>. DEFINE n == Len(pages)
            longer == Append(pages, page)
<1>1. /\ n \in Nat /\ longer \in Seq(Seq(V)) /\ Len(longer) = n + 1
      /\ \A p \in 1 .. n : longer[p] = pages[p]
      /\ longer[n + 1] = page /\ Len(longer) \in Nat
  BY AppendProperties, LenProperties
<1>2. PICK f : /\ f = [p \in 0 .. n |-> IF p = 0 THEN <<>> ELSE f[p - 1] \o pages[p]]
               /\ Rows(pages) = f[n]
  BY <1>1, RowsDefined
<1>. HIDE DEF longer
<1>3. PICK g : /\ g = [p \in 0 .. Len(longer) |-> IF p = 0 THEN <<>> ELSE g[p - 1] \o longer[p]]
               /\ Rows(longer) = g[Len(longer)]
  BY <1>1, RowsDefined
<1>. DEFINE S == {p \in Nat : p <= n => g[p] = f[p]}
<1>4. 0 \in S
  <2>1. 0 \in 0 .. n /\ 0 \in 0 .. Len(longer)
    BY <1>1
  <2>2. f[0] = <<>> /\ g[0] = <<>>
    BY <1>2, <1>3, <2>1
  <2>. QED
    BY <2>2
<1>5. ASSUME NEW p \in Nat, p \in S PROVE p + 1 \in S
  <2>. SUFFICES ASSUME p + 1 <= n PROVE g[p + 1] = f[p + 1]
    OBVIOUS
  <2>1. /\ p + 1 \in 0 .. n /\ p + 1 \in 0 .. Len(longer) /\ p + 1 # 0 /\ (p + 1) - 1 = p
        /\ p + 1 \in 1 .. n /\ p <= n
    BY <1>1
  <2>2. f[p + 1] = f[p] \o pages[p + 1]
    BY <1>2, <2>1
  <2>3. g[p + 1] = g[p] \o longer[p + 1]
    BY <1>3, <2>1
  <2>. QED
    BY <1>1, <1>5, <2>1, <2>2, <2>3
<1>6. g[n] = f[n]
  <2>1. n \in S
    <3>. HIDE DEF S
    <3>. QED
      BY <1>1, <1>4, <1>5, Induction
  <2>. QED
    BY <2>1
<1>7. g[n + 1] = g[n] \o longer[n + 1]
  <2>1. n + 1 \in 0 .. Len(longer) /\ n + 1 # 0 /\ (n + 1) - 1 = n
    BY <1>1
  <2>. QED
    BY <1>3, <2>1
<1>. QED
  BY <1>1, <1>2, <1>3, <1>6, <1>7 DEF longer

-----------------------------------------------------------------------------
(* Where a row's value is: the values before a row are the set bits before it. *)

\* A bitmap by the numbers of its set bits.
Bits(valid) == valid \subseteq Nat

Below(valid, r) == {b \in valid : b < r}

ValuesBefore(valid, r) == Cardinality(Below(valid, r))

LEMMA BelowFinite ==
  ASSUME NEW valid, Bits(valid), NEW n \in Nat
  PROVE  /\ \A b : b \in Below(valid, n) <=> b \in Nat /\ b \in valid /\ b < n
         /\ IsFiniteSet(Below(valid, n))
         /\ ValuesBefore(valid, n) \in Nat
<1>1. \A b : b \in Below(valid, n) <=> b \in Nat /\ b \in valid /\ b < n
  BY DEF Below, Bits
<1>2. \A b \in Below(valid, n) : b \in Nat /\ b <= n
  BY <1>1
<1>3. Below(valid, n) \in SUBSET Nat /\ \A b \in Below(valid, n) : b <= n
  BY <1>2
<1>4. IsFiniteSet(Below(valid, n))
  BY <1>3, FS_BoundedSetOfNaturals
<1>. QED
  BY <1>1, <1>4, FS_CardinalityType DEF ValuesBefore

LEMMA CountNext ==
  ASSUME NEW valid, Bits(valid), NEW n \in Nat
  PROVE  /\ n \in valid => ValuesBefore(valid, n + 1) = ValuesBefore(valid, n) + 1
         /\ n \notin valid => ValuesBefore(valid, n + 1) = ValuesBefore(valid, n)
<1>1. n + 1 \in Nat
  OBVIOUS
<1>2. /\ \A b : b \in Below(valid, n) <=> b \in Nat /\ b \in valid /\ b < n
      /\ \A b : b \in Below(valid, n + 1) <=> b \in Nat /\ b \in valid /\ b < n + 1
      /\ IsFiniteSet(Below(valid, n))
  BY <1>1, BelowFinite
<1>3. n \notin Below(valid, n)
  BY <1>2
<1>4. Cardinality(Below(valid, n) \union {n}) = Cardinality(Below(valid, n)) + 1
  BY <1>2, <1>3, FS_AddElement
<1>5. \A b \in Nat : b < n + 1 <=> b < n \/ b = n
  OBVIOUS
<1>6. n \in valid => Below(valid, n + 1) = Below(valid, n) \union {n}
  <2>. SUFFICES ASSUME n \in valid, NEW b
                PROVE  b \in Below(valid, n + 1) <=> b \in Below(valid, n) \/ b = n
    OBVIOUS
  <2>. QED
    BY <1>2, <1>5
<1>7. n \notin valid => Below(valid, n + 1) = Below(valid, n)
  <2>. SUFFICES ASSUME n \notin valid, NEW b
                PROVE  b \in Below(valid, n + 1) <=> b \in Below(valid, n)
    OBVIOUS
  <2>. QED
    BY <1>2, <1>5
<1>. QED
  BY <1>4, <1>6, <1>7 DEF ValuesBefore

LEMMA CountAscends ==
  ASSUME NEW valid, Bits(valid), NEW m \in Nat, NEW n \in Nat, m <= n
  PROVE  ValuesBefore(valid, m) <= ValuesBefore(valid, n)
<1>1. /\ \A b : b \in Below(valid, m) <=> b \in Nat /\ b \in valid /\ b < m
      /\ \A b : b \in Below(valid, n) <=> b \in Nat /\ b \in valid /\ b < n
      /\ IsFiniteSet(Below(valid, n))
  BY BelowFinite
<1>2. \A b \in Nat : b < m => b < n
  OBVIOUS
<1>3. Below(valid, m) \in SUBSET Below(valid, n)
  BY <1>1, <1>2
<1>. QED
  BY <1>1, <1>3, FS_Subset DEF ValuesBefore

\* A valid row's value is one of the values.
LEMMA CountOfRow ==
  ASSUME NEW valid, Bits(valid), NEW n \in Nat, NEW r \in 1 .. n, r - 1 \in valid
  PROVE  ValuesBefore(valid, r) \in 1 .. ValuesBefore(valid, n)
<1>1. r \in Nat /\ r - 1 \in Nat /\ (r - 1) + 1 = r /\ r <= n
  OBVIOUS
<1>2. ValuesBefore(valid, r - 1) \in Nat /\ ValuesBefore(valid, n) \in Nat
  BY <1>1, BelowFinite
<1>3. ValuesBefore(valid, (r - 1) + 1) = ValuesBefore(valid, r - 1) + 1
  BY <1>1, CountNext
<1>4. ValuesBefore(valid, r) <= ValuesBefore(valid, n)
  BY <1>1, CountAscends
<1>5. ValuesBefore(valid, r) = ValuesBefore(valid, r - 1) + 1
  BY <1>1, <1>3
<1>. QED
  BY <1>2, <1>4, <1>5

LEMMA CountNone ==
  ASSUME NEW valid, Bits(valid)
  PROVE  ValuesBefore(valid, 0) = 0
<1>1. \A b : b \in Below(valid, 0) <=> b \in Nat /\ b \in valid /\ b < 0
  BY BelowFinite
<1>2. Below(valid, 0) = {}
  BY <1>1
<1>. QED
  BY <1>2, FS_EmptySet DEF ValuesBefore

\* With every bit set, the values before a row are the rows before it.
LEMMA CountAll ==
  ASSUME NEW valid, Bits(valid), NEW n \in Nat,
         \A b \in Nat : b < n => b \in valid
  PROVE  \A r \in 0 .. n : ValuesBefore(valid, r) = r
<1>1. ASSUME NEW r \in 0 .. n PROVE ValuesBefore(valid, r) = r
  <2>1. r \in Nat /\ r <= n
    OBVIOUS
  <2>2. \A b : b \in Below(valid, r) <=> b \in Nat /\ b \in valid /\ b < r
    BY <2>1, BelowFinite
  <2>3. \A b : b \in Below(valid, r) <=> b \in 0 .. r - 1
    BY <2>1, <2>2
  <2>4. Below(valid, r) = 0 .. r - 1
    BY <2>3
  <2>5. Cardinality(0 .. r - 1) = r
    BY <2>1, FS_Interval
  <2>. QED
    BY <2>4, <2>5 DEF ValuesBefore
<1>. QED
  BY <1>1

\* Only the bits of a page's rows matter.
Agree(valid, other, n) == \A b \in Nat : b < n => (b \in valid <=> b \in other)

LEMMA SameCount ==
  ASSUME NEW valid, NEW other, NEW n \in Nat,
         Bits(valid), Bits(other), Agree(valid, other, n)
  PROVE  \A r \in 0 .. n : ValuesBefore(valid, r) = ValuesBefore(other, r)
<1>1. ASSUME NEW r \in 0 .. n PROVE ValuesBefore(valid, r) = ValuesBefore(other, r)
  <2>1. r \in Nat /\ r <= n
    OBVIOUS
  <2>2. /\ \A b : b \in Below(valid, r) <=> b \in Nat /\ b \in valid /\ b < r
        /\ \A b : b \in Below(other, r) <=> b \in Nat /\ b \in other /\ b < r
    BY <2>1, BelowFinite
  <2>3. \A b : b \in Below(valid, r) <=> b \in Below(other, r)
    BY <2>1, <2>2 DEF Agree
  <2>4. Below(valid, r) = Below(other, r)
    BY <2>3
  <2>. QED
    BY <2>4 DEF ValuesBefore
<1>. QED
  BY <1>1
=============================================================================
