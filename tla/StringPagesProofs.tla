------------------------- MODULE StringPagesProofs --------------------------
(* For every page size and every set of strings: offsets, chars and bitmap   *)
(* never overlap, no char is overwritten when a page is saved, the row count *)
(* of an ordinary page is never the mark of a long string's page, and both   *)
(* readers return the rows that were inserted.  The inserter and to_columnar *)
(* take the same few kinds of steps.                                         *)
EXTENDS TableStrings, PagesProofs, SequenceTheorems

-----------------------------------------------------------------------------
(* Runs of pieces: the pages of long strings, and the rows.                *)

\* The run from p: its first piece and the run behind it, or nothing.
LEMMA RunFromDefined ==
  ASSUME NEW pieces, NEW wanted, Len(pieces) \in Nat, wanted \subseteq 1 .. Len(pieces),
         NEW p \in 1 .. Len(pieces) + 1
  PROVE  RunFrom(pieces, wanted, p) =
           IF p \in wanted THEN pieces[p] \o RunFrom(pieces, wanted, p + 1) ELSE <<>>
<1> DEFINE n == Len(pieces)
           Step(f, q) == IF q \in wanted THEN pieces[q] \o f[q + 1] ELSE <<>>
           Back(k, f) == f = [q \in n + 1 - k .. n + 1 |-> Step(f, q)]
           S == {k \in Nat : \E f : Back(k, f)}
<1>1. 0 \in S
  <2>1. n + 1 \notin wanted /\ n + 1 - 0 = n + 1 BY SMT
  <2>2. Back(0, [q \in n + 1 .. n + 1 |-> <<>>])
    <3> DEFINE g == [q \in n + 1 .. n + 1 |-> <<>>]
    <3>1. ASSUME NEW q \in n + 1 - 0 .. n + 1 PROVE g[q] = Step(g, q) BY <2>1
    <3>2. g = [q \in n + 1 - 0 .. n + 1 |-> g[q]] BY <2>1
    <3> HIDE DEF g, Step
    <3> QED BY <3>1, <3>2 DEF g
  <2> HIDE DEF Back
  <2> QED BY <2>2
<1>2. ASSUME NEW k \in Nat, k \in S PROVE k + 1 \in S
  <2>1. PICK f : Back(k, f) BY <1>2
  <2> DEFINE first == n + 1 - (k + 1)
             g == [q \in first .. n + 1 |-> IF q = first THEN Step(f, q) ELSE f[q]]
  <2>2. ASSUME NEW q \in first .. n + 1 PROVE g[q] = Step(g, q)
    <3>1. CASE q = first
      <4>1. g[q] = Step(f, q) BY <3>1
      <4>2. q \in wanted => q + 1 \in first .. n + 1 /\ q + 1 # first BY <3>1
      <4>3. q \in wanted => g[q + 1] = f[q + 1] BY <4>2
      <4> QED BY <4>1, <4>3
    <3>2. CASE q # first
      <4>1. q \in n + 1 - k .. n + 1 BY <3>2
      <4>2. g[q] = f[q] /\ f[q] = Step(f, q) BY <2>1, <3>2, <4>1
      <4>3. q \in wanted => q + 1 \in first .. n + 1 /\ q + 1 # first BY <3>2
      <4>4. q \in wanted => g[q + 1] = f[q + 1] BY <4>3
      <4> QED BY <4>2, <4>4
    <3> QED BY <3>1, <3>2
  <2>3. g = [q \in first .. n + 1 |-> g[q]] OBVIOUS
  <2>4. Back(k + 1, g)
    <3> HIDE DEF g, Step
    <3> QED BY <2>2, <2>3
  <2>5. \E h : Back(k + 1, h)
    <3> HIDE DEF Back, g
    <3> QED BY <2>4
  <2> HIDE DEF Back
  <2> QED BY <2>5
<1>3. n \in S
  <2> HIDE DEF S
  <2> QED BY <1>1, <1>2, Induction
<1> DEFINE Whole(f) == f = [q \in 1 .. n + 1 |-> Step(f, q)]
<1>4. \E f : Whole(f)
  <2>1. PICK f : Back(n, f) BY <1>3
  <2>2. n + 1 - n = 1 OBVIOUS
  <2>3. Whole(f)
    <3> HIDE DEF Step
    <3> QED BY <2>1, <2>2
  <2> HIDE DEF Whole
  <2> QED BY <2>3
<1> DEFINE from == CHOOSE f : Whole(f)
<1>5. Whole(from)
  <2> HIDE DEF Whole
  <2> QED BY <1>4
<1>6. RunFrom(pieces, wanted, p) = from[p] /\ RunFrom(pieces, wanted, p + 1) = from[p + 1]
  BY DEF RunFrom
<1> HIDE DEF from
<1>7. from[p] = Step(from, p)
  <2> HIDE DEF Step
  <2> QED BY <1>5
<1> QED BY <1>6, <1>7

\* The pieces wanted are lists of elements of V.
PiecesOf(V, pieces, wanted) ==
  /\ Len(pieces) \in Nat /\ wanted \in SUBSET (1 .. Len(pieces))
  /\ \A q \in wanted : pieces[q] \in Seq(V)

\* More pieces, that begin with the same ones.
GoesOn(pieces, wanted, more, wanted2) ==
  /\ Len(pieces) <= Len(more)
  /\ \A q \in 1 .. Len(pieces) : more[q] = pieces[q] /\ (q \in wanted2 <=> q \in wanted)

\* A run is a concatenation of pieces, and empty behind the last one.
LEMMA RunFromTyped ==
  ASSUME NEW V, NEW pieces, NEW wanted, PiecesOf(V, pieces, wanted)
  PROVE  /\ RunFrom(pieces, wanted, Len(pieces) + 1) = <<>>
         /\ \A p \in 1 .. Len(pieces) + 1 : RunFrom(pieces, wanted, p) \in Seq(V)
<1> DEFINE n == Len(pieces)
           run(p) == RunFrom(pieces, wanted, p)
           S == {k \in Nat : k <= n => run(n + 1 - k) \in Seq(V)}
<1>1. n \in Nat /\ wanted \subseteq 1 .. n /\ \A p \in wanted : pieces[p] \in Seq(V)
  BY DEF PiecesOf
<1>2. ASSUME NEW p \in 1 .. n + 1
      PROVE  run(p) = IF p \in wanted THEN pieces[p] \o run(p + 1) ELSE <<>>
  BY <1>1, RunFromDefined
<1>3. run(n + 1) = <<>>
  <2>1. n + 1 \in 1 .. n + 1 /\ n + 1 \notin wanted BY <1>1
  <2> QED BY <1>2, <2>1
<1> HIDE DEF n, run
<1>4. 0 \in S
  <2>1. n + 1 - 0 = n + 1 BY <1>1
  <2>2. run(n + 1) \in Seq(V) BY <1>3, EmptySeq
  <2>3. 0 <= n => run(n + 1 - 0) \in Seq(V) BY <2>1, <2>2
  <2> QED BY <2>3
<1>5. ASSUME NEW k \in Nat, k \in S PROVE k + 1 \in S
  <2> SUFFICES ASSUME k + 1 <= n PROVE run(n + 1 - (k + 1)) \in Seq(V)
    OBVIOUS
  <2> DEFINE p == n + 1 - (k + 1)
  <2>1. p \in 1 .. n /\ p \in 1 .. n + 1 /\ p + 1 = n + 1 - k /\ k <= n BY <1>1
  <2>2. run(p + 1) \in Seq(V) BY <1>5, <2>1
  <2>3. p \in wanted => pieces[p] \in Seq(V) BY <1>1
  <2>4. run(p) = IF p \in wanted THEN pieces[p] \o run(p + 1) ELSE <<>> BY <1>2, <2>1
  <2> HIDE DEF p
  <2>5. run(p) \in Seq(V) BY <2>2, <2>3, <2>4, EmptySeq, ConcatProperties
  <2> QED BY <2>5 DEF p
<1>6. \A k \in Nat : k \in S
  <2> HIDE DEF S
  <2> QED BY <1>4, <1>5, Induction
<1>7. ASSUME NEW p \in 1 .. n + 1 PROVE run(p) \in Seq(V)
  <2>1. n + 1 - p \in Nat /\ n + 1 - p <= n /\ n + 1 - (n + 1 - p) = p BY <1>1
  <2> QED BY <1>6, <2>1
<1> QED BY <1>3, <1>7 DEF n, run

\* More pieces go on with a run that has reached the end, and with no other.
LEMMA RunFromExtended ==
  ASSUME NEW V,
         NEW pieces, NEW wanted, PiecesOf(V, pieces, wanted),
         NEW more, NEW wanted2, PiecesOf(V, more, wanted2),
         GoesOn(pieces, wanted, more, wanted2),
         NEW first \in 1 .. Len(pieces) + 1
  PROVE  RunFrom(more, wanted2, first) =
           IF first .. Len(pieces) \subseteq wanted
             THEN RunFrom(pieces, wanted, first) \o RunFrom(more, wanted2, Len(pieces) + 1)
             ELSE RunFrom(pieces, wanted, first)
<1> DEFINE n == Len(pieces)
           old(p) == RunFrom(pieces, wanted, p)
           new(p) == RunFrom(more, wanted2, p)
           Claim(p) == new(p) = IF p .. n \subseteq wanted THEN old(p) \o new(n + 1) ELSE old(p)
           S == {k \in Nat : k <= n => Claim(n + 1 - k)}
<1>1. /\ n \in Nat /\ Len(more) \in Nat /\ n <= Len(more)
      /\ wanted \subseteq 1 .. n /\ wanted2 \subseteq 1 .. Len(more)
      /\ \A p \in wanted : pieces[p] \in Seq(V)
      /\ \A q \in 1 .. n : more[q] = pieces[q] /\ (q \in wanted2 <=> q \in wanted)
  BY DEF PiecesOf, GoesOn
<1>2. ASSUME NEW p \in 1 .. n + 1
      PROVE  old(p) = IF p \in wanted THEN pieces[p] \o old(p + 1) ELSE <<>>
  BY <1>1, RunFromDefined
<1>3. ASSUME NEW p \in 1 .. n
      PROVE  new(p) = IF p \in wanted THEN pieces[p] \o new(p + 1) ELSE <<>>
  <2>1. p \in 1 .. Len(more) + 1 BY <1>1
  <2> QED BY <1>1, <2>1, RunFromDefined
<1>4. /\ old(n + 1) = <<>>
      /\ \A p \in 1 .. n + 1 : old(p) \in Seq(V) /\ new(p) \in Seq(V)
  <2>1. \A p \in 1 .. n + 1 : p \in 1 .. Len(more) + 1 BY <1>1
  <2> QED BY <2>1, RunFromTyped
<1> HIDE DEF n, old, new
<1>5. 0 \in S
  <2>1. n + 1 - 0 = n + 1 /\ n + 1 .. n = {} /\ n + 1 \in 1 .. n + 1 BY <1>1
  <2>2. <<>> \o new(n + 1) = new(n + 1) BY <1>4, <2>1, ConcatEmptySeq
  <2>3. Claim(n + 1) BY <1>4, <2>1, <2>2
  <2> HIDE DEF Claim
  <2> QED BY <2>1, <2>3
<1>6. ASSUME NEW k \in Nat, k \in S PROVE k + 1 \in S
  <2> SUFFICES ASSUME k + 1 <= n PROVE Claim(n + 1 - (k + 1))
    OBVIOUS
  <2> DEFINE p == n + 1 - (k + 1)
  <2>1. p \in 1 .. n /\ p \in 1 .. n + 1 /\ p + 1 = n + 1 - k /\ k <= n /\ p + 1 \in 1 .. n + 1
        /\ n + 1 \in 1 .. n + 1
    BY <1>1
  <2>2. Claim(p + 1)
    <3> HIDE DEF Claim
    <3> QED BY <1>6, <2>1
  <2>3. /\ new(p) = IF p \in wanted THEN pieces[p] \o new(p + 1) ELSE <<>>
        /\ old(p) = IF p \in wanted THEN pieces[p] \o old(p + 1) ELSE <<>>
    BY <1>2, <1>3, <2>1
  <2>4. (p \in wanted => pieces[p] \in Seq(V)) /\ old(p + 1) \in Seq(V) /\ new(n + 1) \in Seq(V)
    BY <1>1, <1>4, <2>1
  <2> HIDE DEF p
  <2>5. p .. n \subseteq wanted <=> p \in wanted /\ p + 1 .. n \subseteq wanted
    <3>1. p .. n = {p} \union (p + 1 .. n) BY <1>1, <2>1
    <3> QED BY <3>1
  <2>6. p \in wanted =>
          (pieces[p] \o old(p + 1)) \o new(n + 1) = pieces[p] \o (old(p + 1) \o new(n + 1))
    <3>1. \A a, b, c \in Seq(V) : (a \o b) \o c = a \o (b \o c) BY ConcatAssociative
    <3> QED BY <2>4, <3>1
  <2>7. Claim(p) BY <2>2, <2>3, <2>5, <2>6
  <2> HIDE DEF Claim
  <2> QED BY <2>7 DEF p
<1>7. \A k \in Nat : k \in S
  <2> HIDE DEF S
  <2> QED BY <1>5, <1>6, Induction
<1>8. Claim(first)
  <2>1. /\ n + 1 - first \in Nat /\ n + 1 - first <= n
        /\ n + 1 - (n + 1 - first) = first
    BY <1>1 DEF n
  <2> HIDE DEF Claim
  <2> QED BY <1>7, <2>1
<1> QED BY <1>8 DEF n, old, new

-----------------------------------------------------------------------------
(* The bytes of a bitmap.                                                  *)

\* The bitmap of n + 1 rows has n / 8 + 1 bytes, as the guards write it.
LEMMA BitmapGrows ==
  ASSUME NEW n \in Nat
  PROVE  BitmapBytes(n + 1) = n \div BitsPerByte + 1
BY SizeAssumption, RoundUpNext DEF BitmapBytes

LEMMA BitmapSmall == BitmapBytes(0) = 0 /\ BitmapBytes(1) = 1
BY SizeAssumption, RoundUpSmall DEF BitmapBytes

\* A bitmap has room for its rows.
LEMMA BitmapCovers ==
  ASSUME NEW n \in Nat
  PROVE  BitmapBytes(n) \in Nat /\ n <= BitsPerByte * BitmapBytes(n)
BY SizeAssumption, RoundUp DEF BitmapBytes

\* A page of ordinary rows whose row count is no mark.
GoodRowPage == {page \in RowPage : page.rows < LongPageNext}

\* The inductive invariant: LayoutDisjoint bounds the rows, and pages keep the
\* bound when they are saved.
IInv ==
  /\ TypeOK
  /\ LayoutDisjoint
  /\ pages \in Seq(GoodRowPage \union LongStringPage)

LEMMA Types ==
  ASSUME IInv
  PROVE  /\ num_rows \in Nat /\ bitmap \subseteq Nat /\ finished \in BOOLEAN
         /\ data \in Seq(Char) /\ offsets \in Seq(Nat)
         /\ data_size \in Nat /\ offset_end \in Nat /\ offset_end >= 4
         /\ DOMAIN data = 1 .. data_size
         /\ BitmapBytes(num_rows) \in Nat
<1>1. /\ num_rows \in Nat /\ bitmap \subseteq Nat /\ finished \in BOOLEAN
      /\ data \in Seq(Char) /\ offsets \in Seq(Nat)
  BY DEF IInv, TypeOK
<1>2. Len(offsets) \in Nat /\ Len(data) \in Nat /\ DOMAIN data = 1 .. Len(data) BY <1>1
<1>3. /\ data_size \in Nat /\ DOMAIN data = 1 .. data_size
      /\ offset_end \in Nat /\ offset_end >= 4
  BY <1>2 DEF data_size, offset_end
<1>4. BitmapBytes(num_rows) \in Nat BY <1>1, BitmapCovers
<1> QED BY <1>1, <1>3, <1>4

\* Room for the bitmap bounds the rows of a page, NULLs included.
LEMMA RowsBound ==
  ASSUME IInv
  PROVE  num_rows < LongPageNext
<1> DEFINE bytes == BitmapBytes(num_rows)
<1>1. num_rows \in Nat /\ bytes \in Nat /\ num_rows <= BitsPerByte * bytes
  BY Types, BitmapCovers
<1>2. bytes <= PageSize - 4 BY Types, SizeAssumption DEF IInv, LayoutDisjoint
<1>3. PageSize - 4 \in Nat BY SizeAssumption, StringAssumption
<1>4. BitsPerByte * bytes <= BitsPerByte * (PageSize - 4)
  BY <1>1, <1>2, <1>3, SizeAssumption, TimesMonotonic
<1>5. /\ BitsPerByte * bytes \in Nat /\ BitsPerByte * (PageSize - 4) \in Nat
  BY <1>1, <1>3, SizeAssumption
<1> HIDE DEF bytes
<1> QED BY <1>1, <1>4, <1>5, StringAssumption

\* save_page keeps every char.
LEMMA SavedChars ==
  ASSUME IInv
  PROVE  SavedPage.chars = data
<1> DEFINE bytes == BitmapBytes(num_rows)
           intact(k) == offset_end + k <= PageSize - bytes
           chars == [k \in DOMAIN data |-> IF intact(k) THEN data[k] ELSE Garbage]
<1>1. ASSUME NEW k \in DOMAIN data PROVE intact(k)
  BY <1>1, Types, SizeAssumption DEF IInv, LayoutDisjoint
<1>2. chars = data
  <2>1. chars = [k \in DOMAIN data |-> data[k]] BY <1>1
  <2> QED BY <2>1, Types
<1> QED BY <1>2 DEF SavedPage

LEMMA SavedTyped ==
  ASSUME IInv
  PROVE  SavedPage \in GoodRowPage
<1> DEFINE bytes == BitmapBytes(num_rows)
           chars == [k \in DOMAIN data |->
                       IF offset_end + k <= PageSize - bytes THEN data[k] ELSE Garbage]
<1>2. chars = data BY SavedChars DEF SavedPage
<1>3. (offset_end - 4) \div 2 \in Nat BY Types, QuotientBounds
<1>4. {b \in bitmap : b < bytes * BitsPerByte} \in SUBSET Nat BY Types
<1>5. SavedPage \in RowPage
  BY <1>2, <1>3, <1>4, Types DEF SavedPage, RowPage
<1>6. SavedPage.rows < LongPageNext BY RowsBound DEF SavedPage
<1> QED BY <1>5, <1>6 DEF GoodRowPage

LEMMA CharsTyped ==
  ASSUME NEW s \in String
  PROVE  Chars(s) \in Seq(Char) /\ Len(Chars(s)) = s.size /\ s.size \in Nat
<1>1. s.size \in Nat BY StringAssumption
<1>2. ASSUME NEW k \in 1 .. s.size PROVE Chars(s)[k] \in Char
  BY <1>2 DEF Char
<1>3. Chars(s) \in Seq(Char)
  <2>1. Chars(s) = [k \in 1 .. s.size |-> Chars(s)[k]] BY DEF Chars
  <2> QED BY <1>1, <1>2, <2>1, SMTT(60) DEF Chars
<1>4. Len(Chars(s)) = s.size BY <1>1 DEF Chars
<1> QED BY <1>1, <1>3, <1>4

\* The pages of a long string hold a stretch of it each.
LEMMA LongPagesTyped ==
  ASSUME NEW s \in String
  PROVE  LongPages(s) \in Seq(LongStringPage)
<1> DEFINE room == PageSize - 4
           upto(p) == IF p * room < s.size THEN p * room ELSE s.size
           n == (s.size + room - 1) \div room
           page(p) == [rows  |-> IF p = 1 THEN LongPage ELSE LongPageNext,
                       count |-> upto(p) - upto(p - 1),
                       chars |-> SubSeq(Chars(s), upto(p - 1) + 1, upto(p))]
<1>1. room \in Nat \ {0} BY SizeAssumption, StringAssumption
<1>2. s.size \in Nat /\ Chars(s) \in Seq(Char) /\ Len(Chars(s)) = s.size BY CharsTyped
<1>3. n \in Nat
  <2> HIDE DEF room
  <2>1. ASSUME NEW a \in Nat, NEW b \in Nat \ {0} PROVE a + b - 1 \in Nat OBVIOUS
  <2>2. s.size + room - 1 \in Nat BY <1>1, <1>2, <2>1
  <2> QED BY <2>2, <1>1, <2>1, QuotientBounds
<1>4. ASSUME NEW p \in 1 .. n PROVE page(p) \in LongStringPage
  <2>1. (p - 1) * room \in Nat /\ p * room = (p - 1) * room + room BY <1>1, <1>3
  <2> HIDE DEF room
  <2>2. upto(p) \in Nat /\ upto(p - 1) \in Nat BY <1>1, <1>2, <2>1
  <2>3. upto(p - 1) <= upto(p) /\ upto(p) <= s.size BY <1>1, <1>2, <2>1
  <2> HIDE DEF upto
  <2>4. SubSeq(Chars(s), upto(p - 1) + 1, upto(p)) \in Seq(Char)
    BY <1>2, <2>2, <2>3, SubSeqProperties
  <2>5. upto(p) - upto(p - 1) \in Nat BY <2>2, <2>3
  <2> QED BY <2>4, <2>5 DEF LongStringPage
<1> HIDE DEF page, n
<1>5. [p \in 1 .. n |-> page(p)] \in Seq(LongStringPage) BY <1>3, <1>4
<1> QED BY <1>5 DEF LongPages, page, n

\* The chars of a fresh page: a short string fits one, with its offset and bit.
LEMMA ShortFits ==
  ASSUME NEW s \in String, ~IsLong(s)
  PROVE  4 + 2 + s.size <= PageSize - 1
BY StringAssumption, SizeAssumption DEF IsLong

\* The pages after a save, a long string, both or neither.
PagesGrow ==
  \/ pages' = pages
  \/ pages' = Append(pages, SavedPage)
  \/ \E s \in String : \/ pages' = pages \o LongPages(s)
                       \/ pages' = Append(pages, SavedPage) \o LongPages(s)

LEMMA PagesTyped ==
  ASSUME IInv, PagesGrow
  PROVE  pages' \in Seq(GoodRowPage \union LongStringPage)
<1> DEFINE Good == GoodRowPage \union LongStringPage
<1>1. pages \in Seq(Good) /\ SavedPage \in Good BY SavedTyped DEF IInv
<1>2. ASSUME NEW s \in String PROVE LongPages(s) \in Seq(Good)
  <2>1. LongPages(s) \in Seq(LongStringPage) BY LongPagesTyped
  <2> HIDE DEF Good
  <2>2. LongStringPage \subseteq Good BY DEF Good
  <2> QED BY <2>1, <2>2
<1> HIDE DEF Good
<1>3. Append(pages, SavedPage) \in Seq(Good) BY <1>1
<1>4. pages' = pages => pages' \in Seq(Good) BY <1>1
<1>5. pages' = Append(pages, SavedPage) => pages' \in Seq(Good) BY <1>3
<1>6. ASSUME NEW s \in String,
             pages' = pages \o LongPages(s) \/ pages' = Append(pages, SavedPage) \o LongPages(s)
      PROVE  pages' \in Seq(Good)
  <2>1. LongPages(s) \in Seq(Good) BY <1>2
  <2>2. pages \o LongPages(s) \in Seq(Good) BY <1>1, <2>1
  <2>3. Append(pages, SavedPage) \o LongPages(s) \in Seq(Good) BY <1>3, <2>1
  <2> QED BY <1>6, <2>2, <2>3
<1>7. pages' \in Seq(Good) BY <1>4, <1>5, <1>6 DEF PagesGrow
<1> QED BY <1>7 DEF Good

LEMMA GoodPagesTyped ==
  ASSUME NEW ps, ps \in Seq(GoodRowPage \union LongStringPage)
  PROVE  ps \in Seq(RowPage \union LongStringPage)
<1>1. GoodRowPage \union LongStringPage \subseteq RowPage \union LongStringPage
  BY DEF GoodRowPage
<1> DEFINE Good == GoodRowPage \union LongStringPage
           Any == RowPage \union LongStringPage
<1>2. Good \subseteq Any /\ ps \in Seq(Good) BY <1>1
<1> HIDE DEF Good, Any
<1>3. ps \in Seq(Any) BY <1>2
<1> QED BY <1>3 DEF Any

-----------------------------------------------------------------------------
LEMMA InitIInv == Init => IInv
<1> SUFFICES ASSUME Init PROVE IInv
  OBVIOUS
<1>1. pages \in Seq(GoodRowPage \union LongStringPage) BY DEF Init
<1>2. pages \in Seq(RowPage \union LongStringPage) BY <1>1, GoodPagesTyped
<1>3. TypeOK
  <2>1. bitmap \subseteq Nat BY Zenon DEF Init
  <2>2. data \in Seq(Char) /\ offsets \in Seq(Nat) BY DEF Init
  <2>3. num_rows \in Nat /\ finished \in BOOLEAN BY DEF Init
  <2> QED BY <1>2, <2>1, <2>2, <2>3 DEF TypeOK
<1>4. BitmapBytes(num_rows) = 0 BY BitmapSmall DEF Init
<1>5. offset_end = 4 /\ data_size = 0 BY DEF Init, offset_end, data_size
<1>6. LayoutDisjoint BY <1>4, <1>5, SizeAssumption, StringAssumption DEF LayoutDisjoint
<1> QED BY <1>1, <1>3, <1>6 DEF IInv

\* What the two writers' steps do, by what they leave.  One more string, when it
\* fits with its offset.
LEMMA ShortAdded ==
  ASSUME IInv, NEW s \in String, StringFits(s),
         data' = data \o Chars(s),
         offsets' = Append(offsets, data_size + s.size),
         bitmap' = bitmap \union {num_rows},
         num_rows' = num_rows + 1,
         pages' = pages,
         finished' = finished
  PROVE  IInv'
<1>1. pages' \in Seq(GoodRowPage \union LongStringPage) BY PagesTyped DEF PagesGrow
<1>2. pages' \in Seq(RowPage \union LongStringPage) BY <1>1, GoodPagesTyped
<1>3. Chars(s) \in Seq(Char) /\ Len(Chars(s)) = s.size /\ s.size \in Nat BY CharsTyped
<1>4. TypeOK' BY <1>2, <1>3, Types, SMTT(60) DEF TypeOK
<1>5. BitmapBytes(num_rows') = num_rows \div BitsPerByte + 1 BY Types, BitmapGrows
<1>6. num_rows \div BitsPerByte \in Nat BY Types, SizeAssumption, QuotientBounds
<1>7. offset_end' = offset_end + 2 /\ data_size' = data_size + s.size
  <2>1. Len(data') = Len(data) + s.size
    <3>1. data \in Seq(Char) BY Types
    <3>2. Len(data \o Chars(s)) = Len(data) + Len(Chars(s)) BY <1>3, <3>1, ConcatProperties
    <3> QED BY <1>3, <3>2
  <2>2. Len(offsets') = Len(offsets) + 1 /\ Len(offsets) \in Nat BY Types
  <2> QED BY <2>1, <2>2 DEF offset_end, data_size
<1>8. LayoutDisjoint'
  <2>1. offset_end + 2 + data_size + s.size + num_rows \div BitsPerByte + 1 <= PageSize
    BY DEF StringFits, HasRoom
  <2>2. offset_end \in Nat /\ data_size \in Nat /\ PageSize \in Nat BY Types, SizeAssumption
  <2>3. offset_end' + data_size' <= PageSize - (num_rows \div BitsPerByte + 1)
    BY ONLY <1>3, <1>6, <1>7, <2>1, <2>2
  <2> QED BY <1>5, <2>3 DEF LayoutDisjoint
<1> QED BY <1>1, <1>4, <1>8 DEF IInv

\* The page is saved and the string is the first of the next one.
LEMMA ShortOnFreshPage ==
  ASSUME IInv, NEW s \in String, ~IsLong(s),
         pages' = Append(pages, SavedPage),
         data' = Chars(s),
         offsets' = <<s.size>>,
         bitmap' \subseteq Nat,
         num_rows' = 1,
         finished' = finished
  PROVE  IInv'
<1>1. pages' \in Seq(GoodRowPage \union LongStringPage) BY PagesTyped DEF PagesGrow
<1>2. pages' \in Seq(RowPage \union LongStringPage) BY <1>1, GoodPagesTyped
<1>3. Chars(s) \in Seq(Char) /\ Len(Chars(s)) = s.size /\ s.size \in Nat BY CharsTyped
<1>4. TypeOK' BY <1>2, <1>3, Types DEF TypeOK
<1>5. offset_end' = 6 /\ data_size' = s.size BY <1>3 DEF offset_end, data_size
<1>6. BitmapBytes(num_rows') = 1 BY BitmapSmall
<1>7. LayoutDisjoint' BY <1>3, <1>5, <1>6, ShortFits, SizeAssumption DEF LayoutDisjoint
<1> QED BY <1>1, <1>4, <1>7 DEF IInv

\* One more NULL on the page.
LEMMA NullAdded ==
  ASSUME IInv, NullFits,
         bitmap' = bitmap \ {num_rows},
         num_rows' = num_rows + 1,
         UNCHANGED <<pages, data, offsets, finished>>
  PROVE  IInv'
<1>1. pages' \in Seq(GoodRowPage \union LongStringPage) BY PagesTyped DEF PagesGrow
<1>2. pages' \in Seq(RowPage \union LongStringPage) BY <1>1, GoodPagesTyped
<1>3. TypeOK' BY <1>2, Types DEF TypeOK
<1>4. BitmapBytes(num_rows') = num_rows \div BitsPerByte + 1 BY Types, BitmapGrows
<1>5. num_rows \div BitsPerByte \in Nat BY Types, SizeAssumption, QuotientBounds
<1>6. offset_end' = offset_end /\ data_size' = data_size BY DEF offset_end, data_size
<1>7. LayoutDisjoint'
  BY <1>4, <1>5, <1>6, Types, SizeAssumption, SMTT(60) DEF LayoutDisjoint, NullFits, HasRoom
<1> QED BY <1>1, <1>3, <1>7 DEF IInv

\* The next page holds a NULL or nothing yet.
LEMMA FreshPageStarted ==
  ASSUME IInv, PagesGrow,
         data' = <<>>,
         offsets' = <<>>,
         bitmap' \subseteq Nat,
         num_rows' \in {0, 1},
         finished' \in BOOLEAN
  PROVE  IInv'
<1>1. pages' \in Seq(GoodRowPage \union LongStringPage) BY PagesTyped
<1>2. pages' \in Seq(RowPage \union LongStringPage) BY <1>1, GoodPagesTyped
<1>3. TypeOK' BY <1>2 DEF TypeOK
<1>4. offset_end' = 4 /\ data_size' = 0 BY DEF offset_end, data_size
<1>5. BitmapBytes(num_rows') \in {0, 1} BY BitmapSmall
<1>6. LayoutDisjoint' BY <1>4, <1>5, SizeAssumption, StringAssumption DEF LayoutDisjoint
<1> QED BY <1>1, <1>3, <1>6 DEF IInv

\* The rows of the page stay, whatever is saved in front of it.
LEMMA RowsKept ==
  ASSUME IInv, PagesGrow, UNCHANGED <<num_rows, data, offsets, bitmap>>, finished' \in BOOLEAN
  PROVE  IInv'
<1>1. pages' \in Seq(GoodRowPage \union LongStringPage) BY PagesTyped
<1>2. pages' \in Seq(RowPage \union LongStringPage) BY <1>1, GoodPagesTyped
<1>3. TypeOK' BY <1>2, Types DEF TypeOK
<1>4. LayoutDisjoint' BY DEF IInv, LayoutDisjoint, offset_end, data_size
<1> QED BY <1>1, <1>3, <1>4 DEF IInv

LEMMA InserterStep ==
  ASSUME IInv, [Next]_vars
  PROVE  IInv'
<1>1. ASSUME NEW s \in String, InsertShort(s) PROVE IInv'
  <2>1. CASE StringFits(s) BY <1>1, <2>1, ShortAdded DEF InsertShort
  <2>2. CASE ~StringFits(s)
    <3>1. bitmap' \subseteq Nat BY <1>1, <2>2, Types DEF InsertShort
    <3> QED BY <1>1, <2>2, <3>1, ShortOnFreshPage DEF InsertShort
  <2> QED BY <2>1, <2>2
<1>2. ASSUME NEW s \in String, InsertLong(s) PROVE IInv'
  <2>1. PagesGrow BY <1>2 DEF InsertLong, PagesGrow
  <2>2. bitmap' = bitmap /\ finished' = finished BY <1>2 DEF InsertLong
  <2>3. CASE num_rows > 0 BY <1>2, <2>1, <2>2, <2>3, Types, FreshPageStarted DEF InsertLong
  <2>4. CASE ~(num_rows > 0) BY <1>2, <2>1, <2>2, <2>4, Types, RowsKept DEF InsertLong
  <2> QED BY <2>3, <2>4
<1>3. CASE InsertNull
  <2>1. CASE NullFits BY <1>3, <2>1, NullAdded DEF InsertNull
  <2>2. CASE ~NullFits
    <3>1. bitmap' \subseteq Nat /\ finished' \in BOOLEAN BY <1>3, <2>2, Types DEF InsertNull
    <3>2. PagesGrow BY <1>3, <2>2 DEF InsertNull, PagesGrow
    <3> QED BY <1>3, <2>2, <3>1, <3>2, FreshPageStarted DEF InsertNull
  <2> QED BY <2>1, <2>2
<1>4. CASE Finalize
  <2>1. bitmap' = bitmap /\ finished' = TRUE BY <1>4 DEF Finalize
  <2>2. PagesGrow BY <1>4 DEF Finalize, PagesGrow
  <2>3. CASE num_rows # 0 BY <1>4, <2>1, <2>2, <2>3, Types, FreshPageStarted DEF Finalize
  <2>4. CASE num_rows = 0 BY <1>4, <2>1, <2>2, <2>4, RowsKept DEF Finalize
  <2> QED BY <2>3, <2>4
<1>5. CASE UNCHANGED vars BY <1>5, Types, RowsKept DEF vars, PagesGrow
<1> QED BY <1>1, <1>2, <1>3, <1>4, <1>5 DEF Next

\* to_columnar's flush, with the pages of the long string that follows or none.
LEMMA Flushed ==
  ASSUME IInv, finished' \in BOOLEAN, NEW column,
         FlushTable(column),
         column = <<>> \/ \E s \in String : column = LongPages(s)
  PROVE  IInv'
<1>1. pages \o <<>> = pages /\ Append(pages, SavedPage) \o <<>> = Append(pages, SavedPage)
  BY SavedTyped DEF IInv
<1>2. PagesGrow BY <1>1 DEF FlushTable, PagesGrow
<1>3. CASE num_rows > 0 BY <1>2, <1>3, FreshPageStarted DEF FlushTable
<1>4. CASE ~(num_rows > 0) BY <1>2, <1>4, RowsKept DEF FlushTable
<1> QED BY <1>3, <1>4

LEMMA TableStep ==
  ASSUME IInv, [TableNext]_vars
  PROVE  IInv'
<1>1. ASSUME NEW s \in String, TableShort(s) PROVE IInv'
  <2>1. CASE StringFits(s) BY <1>1, <2>1, ShortAdded DEF TableShort
  <2>2. CASE ~StringFits(s)
    <3>1. bitmap' \subseteq Nat BY <1>1, <2>2 DEF TableShort
    <3> QED BY <1>1, <2>2, <3>1, ShortOnFreshPage DEF TableShort
  <2> QED BY <2>1, <2>2
<1>2. ASSUME NEW s \in String, TableLong(s) PROVE IInv'
  BY <1>2, Types, Flushed DEF TableLong
<1>3. CASE TableNull
  <2>1. CASE NullFits BY <1>3, <2>1, NullAdded DEF TableNull
  <2>2. CASE ~NullFits
    <3>1. bitmap' \subseteq Nat /\ finished' \in BOOLEAN BY <1>3, <2>2, Types DEF TableNull
    <3>2. PagesGrow BY <1>3, <2>2 DEF TableNull, PagesGrow
    <3> QED BY <1>3, <2>2, <3>1, <3>2, FreshPageStarted DEF TableNull
  <2> QED BY <2>1, <2>2
<1>4. CASE TableFinish BY <1>4, Types, Flushed DEF TableFinish
<1>5. CASE UNCHANGED vars BY <1>5, Types, RowsKept DEF vars, PagesGrow
<1> QED BY <1>1, <1>2, <1>3, <1>4, <1>5 DEF TableNext

\* Row pages kept by the invariant carry no mark.
LEMMA MarkersApart == IInv => RowsBelowMarkers
<1> SUFFICES ASSUME IInv PROVE RowsBelowMarkers
  OBVIOUS
<1>1. ASSUME NEW p \in DOMAIN pages, pages[p] \in RowPage
      PROVE  pages[p].rows < LongPageNext
  <2>1. pages[p] \in GoodRowPage \union LongStringPage BY <1>1 DEF IInv
  <2>2. pages[p] \notin LongStringPage
    <3>1. "valid" \in DOMAIN pages[p] BY <1>1 DEF RowPage
    <3>2. \A page \in LongStringPage : "valid" \notin DOMAIN page BY DEF LongStringPage
    <3> QED BY <3>1, <3>2
  <2> QED BY <2>1, <2>2 DEF GoodRowPage
<1> QED BY <1>1, RowsBound DEF RowsBelowMarkers

\* In every column the inserter builds, of any strings, none of a page's chars is
\* overwritten when it is saved: no Garbage in TypeOK.
THEOREM StringTypeCorrect == Spec => []TypeOK
<1>1. IInv /\ [Next]_vars => IInv' BY InserterStep
<1>2. IInv => TypeOK BY DEF IInv
<1> QED BY <1>1, <1>2, InitIInv, PTL DEF Spec

\* The offsets, the chars and the bitmap of a page never overlap.
THEOREM StringLayout == Spec => []LayoutDisjoint
<1>1. IInv /\ [Next]_vars => IInv' BY InserterStep
<1>2. IInv => LayoutDisjoint BY DEF IInv
<1> QED BY <1>1, <1>2, InitIInv, PTL DEF Spec

\* No ordinary page is taken for a long string's, however many NULLs it holds.
THEOREM StringMarkers == Spec => []RowsBelowMarkers
<1>1. IInv /\ [Next]_vars => IInv' BY InserterStep
<1>2. IInv => RowsBelowMarkers BY MarkersApart
<1> QED BY <1>1, <1>2, InitIInv, PTL DEF Spec

\* The same for every column Table::to_columnar builds.
THEOREM TableStringLayout == TableSpec => [](TypeOK /\ LayoutDisjoint /\ RowsBelowMarkers)
<1>1. IInv /\ [TableNext]_vars => IInv' BY TableStep
<1>2. IInv => TypeOK /\ LayoutDisjoint /\ RowsBelowMarkers BY MarkersApart DEF IInv
<1> QED BY <1>1, <1>2, InitIInv, PTL DEF TableSpec

-----------------------------------------------------------------------------
(* The readers, page by page.                                              *)

\* What from_columnar has read when it has read one more page.
CopyStep(rows, page) ==
  IF page.rows = LongPage THEN Append(rows, page.chars)
  ELSE IF page.rows = LongPageNext THEN [rows EXCEPT ![Len(rows)] = @ \o page.chars]
  ELSE rows \o CopiedPage(page)

LEMMA CopiedDefined ==
  ASSUME NEW column, Len(column) \in Nat
  PROVE  \E f : /\ f = [p \in 0 .. Len(column) |->
                          IF p = 0 THEN <<>> ELSE CopyStep(f[p - 1], column[p])]
                /\ CopiedRows(column) = f[Len(column)]
<1> DEFINE Step(f, p) == IF p = 0 THEN <<>> ELSE CopyStep(f[p - 1], column[p])
           Upto(n, f) == f = [p \in 0 .. n |-> Step(f, p)]
           S == {n \in Nat : \E f : Upto(n, f)}
<1>1. 0 \in S
  <2>1. Upto(0, [p \in 0 .. 0 |-> <<>>]) OBVIOUS
  <2> HIDE DEF Upto
  <2> QED BY <2>1
<1>2. ASSUME NEW n \in Nat, n \in S PROVE n + 1 \in S
  <2>1. PICK f : Upto(n, f) BY <1>2
  <2> DEFINE g == [p \in 0 .. n + 1 |-> IF p = n + 1 THEN Step(f, p) ELSE f[p]]
  <2>2. ASSUME NEW p \in 0 .. n + 1 PROVE g[p] = Step(g, p)
    <3>1. CASE p = n + 1
      <4>1. n \in 0 .. n + 1 /\ n # n + 1 /\ p # 0 /\ p - 1 = n BY <3>1
      <4>2. g[p] = Step(f, p) /\ g[n] = f[n] BY <3>1, <4>1
      <4> QED BY <4>1, <4>2
    <3>2. CASE p # n + 1 /\ p # 0
      <4>1. p \in 0 .. n /\ p - 1 \in 0 .. n /\ p - 1 \in 0 .. n + 1 /\ p - 1 # n + 1
        BY <3>2
      <4>2. g[p] = f[p] /\ g[p - 1] = f[p - 1] /\ f[p] = Step(f, p) BY <2>1, <3>2, <4>1
      <4> QED BY <3>2, <4>2
    <3>3. CASE p = 0 BY <2>1, <3>3
    <3> QED BY <3>1, <3>2, <3>3
  <2>3. g = [p \in 0 .. n + 1 |-> g[p]] OBVIOUS
  <2>4. Upto(n + 1, g)
    <3> HIDE DEF g, Step
    <3> QED BY <2>2, <2>3
  <2>5. \E h : Upto(n + 1, h)
    <3> HIDE DEF Upto, g
    <3> QED BY <2>4
  <2> HIDE DEF Upto
  <2> QED BY <2>5
<1>3. Len(column) \in S
  <2> HIDE DEF S
  <2> QED BY <1>1, <1>2, Induction
<1>4. \E f : Upto(Len(column), f) BY <1>3
<1> DEFINE upto == CHOOSE f : Upto(Len(column), f)
<1>5. Upto(Len(column), upto)
  <2> HIDE DEF Upto
  <2> QED BY <1>4
<1>6. CopiedRows(column) = upto[Len(column)] BY DEF CopiedRows, CopyStep
<1> HIDE DEF upto
<1> QED BY <1>5, <1>6

LEMMA CopiedEmpty == CopiedRows(<<>>) = <<>>
<1>1. Len(<<>>) = 0 OBVIOUS
<1>2. PICK f : /\ f = [p \in 0 .. Len(<<>>) |->
                         IF p = 0 THEN <<>> ELSE CopyStep(f[p - 1], <<>>[p])]
               /\ CopiedRows(<<>>) = f[Len(<<>>)]
  BY <1>1, CopiedDefined
<1>3. 0 \in 0 .. Len(<<>>) BY <1>1
<1> QED BY <1>1, <1>2, <1>3

\* One more page, read.
LEMMA CopiedAppended ==
  ASSUME NEW P, NEW column \in Seq(P), NEW page \in P
  PROVE  CopiedRows(Append(column, page)) = CopyStep(CopiedRows(column), page)
<1> DEFINE n == Len(column)
           longer == Append(column, page)
<1>1. /\ n \in Nat /\ Len(longer) = n + 1 /\ \A p \in 1 .. n : longer[p] = column[p]
      /\ longer[n + 1] = page /\ Len(longer) \in Nat
  BY AppendProperties, LenProperties
<1>2. PICK f : /\ f = [p \in 0 .. n |-> IF p = 0 THEN <<>> ELSE CopyStep(f[p - 1], column[p])]
               /\ CopiedRows(column) = f[n]
  BY <1>1, CopiedDefined
<1> HIDE DEF longer
<1>3. PICK g : /\ g = [p \in 0 .. Len(longer) |->
                         IF p = 0 THEN <<>> ELSE CopyStep(g[p - 1], longer[p])]
               /\ CopiedRows(longer) = g[Len(longer)]
  BY <1>1, CopiedDefined
<1> DEFINE S == {p \in Nat : p <= n => g[p] = f[p]}
<1>4. 0 \in S
  <2>1. 0 \in 0 .. n /\ 0 \in 0 .. Len(longer) BY <1>1
  <2>2. f[0] = <<>> /\ g[0] = <<>> BY <1>2, <1>3, <2>1
  <2> QED BY <2>2
<1>5. ASSUME NEW p \in Nat, p \in S PROVE p + 1 \in S
  <2> SUFFICES ASSUME p + 1 <= n PROVE g[p + 1] = f[p + 1]
    OBVIOUS
  <2>1. /\ p + 1 \in 0 .. n /\ p + 1 \in 0 .. Len(longer) /\ p + 1 # 0 /\ (p + 1) - 1 = p
        /\ p + 1 \in 1 .. n /\ p <= n
    BY <1>1
  <2>2. f[p + 1] = CopyStep(f[p], column[p + 1]) BY <1>2, <2>1
  <2>3. g[p + 1] = CopyStep(g[p], longer[p + 1]) BY <1>3, <2>1
  <2> QED BY <1>1, <1>5, <2>1, <2>2, <2>3
<1>6. g[n] = f[n]
  <2>1. n \in S
    <3> HIDE DEF S
    <3> QED BY <1>1, <1>4, <1>5, Induction
  <2> QED BY <2>1
<1>7. g[n + 1] = CopyStep(g[n], longer[n + 1])
  <2>1. n + 1 \in 0 .. Len(longer) /\ n + 1 # 0 /\ (n + 1) - 1 = n BY <1>1
  <2> QED BY <1>3, <2>1
<1> QED BY <1>1, <1>2, <1>3, <1>6, <1>7 DEF longer

AnyPage == GoodRowPage \union LongStringPage

Ref == Reference \union {Null}

\* A page of a long string and a page of rows are told apart by the row count.
LEMMA PageKinds ==
  ASSUME NEW page \in AnyPage
  PROVE  /\ IsLongPage(page) => page \in LongStringPage
         /\ ~IsLongPage(page) => page \in GoodRowPage
         /\ page.chars \in Seq(Char)
<1>1. page \in LongStringPage => IsLongPage(page) /\ page.chars \in Seq(Char)
  BY DEF LongStringPage, IsLongPage
<1>2. page \in GoodRowPage => /\ page.rows \in Nat /\ page.rows < LongPageNext
                              /\ page.chars \in Seq(Char)
  BY DEF GoodRowPage, RowPage
<1>3. page \in GoodRowPage => ~IsLongPage(page) BY <1>2, StringAssumption DEF IsLongPage
<1> QED BY <1>1, <1>2, <1>3 DEF AnyPage

LEMMA RefsTyped ==
  ASSUME NEW page \in AnyPage, NEW p \in Nat
  PROVE  PageRefs(page, p) \in Seq(Ref)
<1>1. CASE page.rows = LongPage
  <2>1. [page_idx |-> p, slot_idx |-> LongPage] \in Ref
    BY StringAssumption DEF Ref, Reference
  <2> QED BY <1>1, <2>1 DEF PageRefs
<1>2. CASE page.rows # LongPage /\ page.rows = LongPageNext BY <1>2 DEF PageRefs
<1>3. CASE page.rows # LongPage /\ page.rows # LongPageNext
  <2> DEFINE ref(r) == IF r - 1 \in page.valid
                         THEN [page_idx |-> p, slot_idx |-> ValuesBefore(page.valid, r) - 1]
                         ELSE Null
  <2>1. page.rows \in Nat /\ Bits(page.valid)
    <3>1. page \in GoodRowPage BY <1>3, PageKinds DEF IsLongPage
    <3> QED BY <3>1 DEF GoodRowPage, RowPage, Bits
  <2>2. ASSUME NEW r \in 1 .. page.rows PROVE ref(r) \in Ref
    <3>1. CASE r - 1 \in page.valid
      <4>1. ValuesBefore(page.valid, r) \in 1 .. ValuesBefore(page.valid, page.rows)
        BY <2>1, <3>1, CountOfRow
      <4>2. ValuesBefore(page.valid, page.rows) \in Nat BY <2>1, BelowFinite
      <4>3. ValuesBefore(page.valid, r) - 1 \in Nat BY <4>1, <4>2
      <4> QED BY <3>1, <4>3 DEF Ref, Reference
    <3>2. CASE r - 1 \notin page.valid BY <3>2 DEF Ref
    <3> QED BY <3>1, <3>2
  <2>3. PageRefs(page, p) = [r \in 1 .. page.rows |-> ref(r)]
    BY <1>3 DEF PageRefs, ValuesBefore, Below
  <2> HIDE DEF ref
  <2> QED BY <2>1, <2>2, <2>3
<1> QED BY <1>1, <1>2, <1>3

LEMMA ScanEmpty == ScanRefs(<<>>) = <<>>
<1> DEFINE lists == [p \in DOMAIN <<>> |-> PageRefs(<<>>[p], p - 1)]
<1>1. lists = <<>> OBVIOUS
<1>2. PICK f : /\ f = [p \in 0 .. Len(<<>>) |-> IF p = 0 THEN <<>> ELSE f[p - 1] \o <<>>[p]]
               /\ Rows(<<>>) = f[Len(<<>>)]
  BY RowsDefined
<1>3. 0 \in 0 .. Len(<<>>) /\ Len(<<>>) = 0 OBVIOUS
<1> QED BY <1>1, <1>2, <1>3 DEF ScanRefs

\* One more page, scanned.
LEMMA ScanAppended ==
  ASSUME NEW column \in Seq(AnyPage), NEW page \in AnyPage
  PROVE  /\ ScanRefs(column) \in Seq(Ref)
         /\ ScanRefs(Append(column, page)) = ScanRefs(column) \o PageRefs(page, Len(column))
<1> DEFINE n == Len(column)
           longer == Append(column, page)
           lists == [p \in DOMAIN column |-> PageRefs(column[p], p - 1)]
           more == [p \in DOMAIN longer |-> PageRefs(longer[p], p - 1)]
<1>1. /\ n \in Nat /\ DOMAIN column = 1 .. n /\ DOMAIN longer = 1 .. n + 1
      /\ \A p \in 1 .. n : longer[p] = column[p] /\ column[p] \in AnyPage
      /\ longer[n + 1] = page
  BY AppendProperties, LenProperties, ElementOfSeq
<1>2. lists \in Seq(Seq(Ref)) /\ Len(lists) = n
  <2>1. \A p \in 1 .. n : PageRefs(column[p], p - 1) \in Seq(Ref) BY <1>1, RefsTyped
  <2>2. lists = [p \in 1 .. n |-> PageRefs(column[p], p - 1)] BY <1>1
  <2> QED BY <1>1, <2>1, <2>2
<1>3. PageRefs(page, n) \in Seq(Ref) BY <1>1, RefsTyped
<1>4. more = Append(lists, PageRefs(page, n))
  <2>1. \A p \in 1 .. n : more[p] = lists[p] BY <1>1
  <2>2. more[n + 1] = PageRefs(page, n) BY <1>1
  <2>3. more = [p \in 1 .. n + 1 |-> more[p]] BY <1>1
  <2> DEFINE appended == Append(lists, PageRefs(page, n))
  <2>4. /\ appended = [p \in 1 .. n + 1 |-> appended[p]]
        /\ \A p \in 1 .. n : appended[p] = lists[p]
        /\ appended[n + 1] = PageRefs(page, n)
    <3> HIDE DEF lists
    <3>1. /\ appended \in Seq(Seq(Ref)) /\ Len(appended) = n + 1
          /\ \A p \in 1 .. n : appended[p] = lists[p]
          /\ appended[n + 1] = PageRefs(page, n)
      BY <1>2, <1>3, AppendProperties
    <3> HIDE DEF appended
    <3>2. appended \in [1 .. n + 1 -> Seq(Ref)] BY <3>1, LenProperties
    <3> QED BY <3>1, <3>2
  <2> HIDE DEF more, lists, appended
  <2>5. \A p \in 1 .. n + 1 : more[p] = appended[p]
    <3>1. \A p \in 1 .. n + 1 : p \in 1 .. n \/ p = n + 1 BY <1>1
    <3> QED BY <2>1, <2>2, <2>4, <3>1
  <2>6. more = appended BY <2>3, <2>4, <2>5
  <2> QED BY <2>6 DEF appended
<1>5. /\ Rows(lists) \in Seq(Ref)
      /\ Rows(Append(lists, PageRefs(page, n))) = Rows(lists) \o PageRefs(page, n)
  <2> HIDE DEF lists
  <2> QED BY <1>2, <1>3, RowsOfPages, RowsAppended
<1> QED BY <1>4, <1>5 DEF ScanRefs

-----------------------------------------------------------------------------
(* The pages of a long string.                                             *)

\* How much of a string its first p pages hold.
Cut(s, p) == IF p * (PageSize - 4) < s.size THEN p * (PageSize - 4) ELSE s.size

LEMMA CutsAscend ==
  ASSUME NEW s \in String, NEW p \in Nat
  PROVE  /\ Cut(s, 0) = 0
         /\ Cut(s, p) \in 0 .. s.size /\ Cut(s, p) <= Cut(s, p + 1)
         /\ Cut(s, p) < s.size => Cut(s, p) < Cut(s, p + 1)
<1> DEFINE room == PageSize - 4
<1>1. room \in Nat \ {0} /\ s.size \in Nat BY SizeAssumption, StringAssumption
<1> HIDE DEF room
<1>2. p * room \in Nat /\ (p + 1) * room = p * room + room /\ 0 * room = 0 BY <1>1
<1>3. /\ Cut(s, p) = IF p * room < s.size THEN p * room ELSE s.size
      /\ Cut(s, p + 1) = IF (p + 1) * room < s.size THEN (p + 1) * room ELSE s.size
      /\ Cut(s, 0) = IF 0 * room < s.size THEN 0 * room ELSE s.size
  BY DEF Cut, room
<1> QED BY <1>1, <1>2, <1>3

LEMMA LongPagesParts ==
  ASSUME NEW s \in String, IsLong(s)
  PROVE  LET lp == LongPages(s)
         IN  /\ lp \in Seq(LongStringPage) /\ Len(lp) \in Nat \ {0}
             /\ Cut(s, Len(lp)) = s.size
             /\ \A p \in 1 .. Len(lp) :
                  /\ lp[p].rows = IF p = 1 THEN LongPage ELSE LongPageNext
                  /\ lp[p].chars = SubSeq(Chars(s), Cut(s, p - 1) + 1, Cut(s, p))
<1> DEFINE room == PageSize - 4
           n == (s.size + room - 1) \div room
           page(p) == [rows  |-> IF p = 1 THEN LongPage ELSE LongPageNext,
                       count |-> Cut(s, p) - Cut(s, p - 1),
                       chars |-> SubSeq(Chars(s), Cut(s, p - 1) + 1, Cut(s, p))]
<1>1. room \in Nat \ {0} /\ s.size \in Nat \ {0}
  BY SizeAssumption, StringAssumption DEF IsLong
<1>2. n \in Nat /\ s.size <= room * n
  <2> HIDE DEF room
  <2> QED BY <1>1, RoundUp
<1>3. room * n = n * room /\ n # 0 /\ n * room \in Nat
  <2> HIDE DEF room, n
  <2> QED BY <1>1, <1>2
<1>4. LongPages(s) = [p \in 1 .. n |-> page(p)] BY DEF LongPages, Cut
<1> HIDE DEF n, page
<1>5. /\ Len(LongPages(s)) = n /\ \A p \in 1 .. n : LongPages(s)[p] = page(p)
  BY <1>2, <1>4
<1>6. Cut(s, n) = s.size BY <1>1, <1>2, <1>3 DEF Cut
<1> QED BY <1>2, <1>3, <1>5, <1>6, LongPagesTyped DEF page

-----------------------------------------------------------------------------
(* What it means that a column reads back as rows.                         *)

Row == String \union {Null}

ColumnPieces(column) == [q \in DOMAIN column |-> column[q].chars]

ColumnLongs(column) == {q \in DOMAIN column : IsLongPage(column[q])}

RowPieces(rows) == [q \in DOMAIN rows |-> CharsOf(rows[q])]

RowLongs(rows) == {q \in DOMAIN rows : rows[q] # Null /\ IsLong(rows[q])}

ColumnRun(column, p) == RunFrom(ColumnPieces(column), ColumnLongs(column), p)

RowRun(rows, r) == RunFrom(RowPieces(rows), RowLongs(rows), r)

\* A long string starts on page p, and the resolver goes on reading as long as
\* the rows from r on are long strings.
LongReads(column, rows, r, p) ==
  /\ p \in 1 .. Len(column) /\ IsLongPage(column[p])
  /\ p .. Len(column) \subseteq ColumnLongs(column) <=> r .. Len(rows) \subseteq RowLongs(rows)
  /\ ColumnRun(column, p) = RowRun(rows, r)

ShortReads(column, row, ref) ==
  /\ ref.page_idx + 1 \in 1 .. Len(column) /\ ~IsLongPage(column[ref.page_idx + 1])
  /\ Resolve(column, ref) = Chars(row)

RefReads(column, rows, r, ref) ==
  IF rows[r] = Null THEN ref = Null
  ELSE /\ ref \in Reference
       /\ IF IsLong(rows[r]) THEN LongReads(column, rows, r, ref.page_idx + 1)
          ELSE ShortReads(column, rows[r], ref)

Reads(column, rows) ==
  /\ column \in Seq(AnyPage) /\ rows \in Seq(Row)
  /\ CopiedRows(column) = RowPieces(rows)
  /\ Len(ScanRefs(column)) = Len(rows)
  /\ \A r \in 1 .. Len(rows) : RefReads(column, rows, r, ScanRefs(column)[r])

\* One list goes on with another.
Extends(list, more) ==
  Len(list) <= Len(more) /\ \A q \in 1 .. Len(list) : more[q] = list[q]

LEMMA ColumnPiecesTyped ==
  ASSUME NEW column \in Seq(AnyPage)
  PROVE  /\ Len(column) \in Nat /\ Len(ColumnPieces(column)) = Len(column)
         /\ ColumnLongs(column) \in SUBSET (1 .. Len(column))
         /\ \A q \in 1 .. Len(column) :
              /\ ColumnPieces(column)[q] = column[q].chars
              /\ column[q].chars \in Seq(Char)
              /\ q \in ColumnLongs(column) <=> IsLongPage(column[q])
<1>1. /\ Len(column) \in Nat /\ DOMAIN column = 1 .. Len(column)
      /\ \A q \in 1 .. Len(column) : column[q] \in AnyPage
  BY LenProperties, ElementOfSeq
<1>2. ColumnPieces(column) = [q \in 1 .. Len(column) |-> column[q].chars]
  BY <1>1 DEF ColumnPieces
<1>3. Len(ColumnPieces(column)) = Len(column) BY <1>1, <1>2
<1>4. \A q \in 1 .. Len(column) : column[q].chars \in Seq(Char) BY <1>1, PageKinds
<1> QED BY <1>1, <1>2, <1>3, <1>4 DEF ColumnLongs

LEMMA RowPiecesTyped ==
  ASSUME NEW rows \in Seq(Row)
  PROVE  /\ Len(rows) \in Nat /\ Len(RowPieces(rows)) = Len(rows)
         /\ RowLongs(rows) \in SUBSET (1 .. Len(rows))
         /\ RowPieces(rows) \in Seq(Seq(Char) \union {Null})
         /\ \A q \in 1 .. Len(rows) :
              /\ rows[q] \in Row
              /\ RowPieces(rows)[q] = CharsOf(rows[q])
              /\ q \in RowLongs(rows) <=> rows[q] # Null /\ IsLong(rows[q])
              /\ q \in RowLongs(rows) => RowPieces(rows)[q] \in Seq(Char)
<1>1. /\ Len(rows) \in Nat /\ DOMAIN rows = 1 .. Len(rows)
      /\ \A q \in 1 .. Len(rows) : rows[q] \in Row
  BY LenProperties, ElementOfSeq
<1>2. RowPieces(rows) = [q \in 1 .. Len(rows) |-> CharsOf(rows[q])] BY <1>1 DEF RowPieces
<1>3. ASSUME NEW q \in 1 .. Len(rows)
      PROVE  /\ CharsOf(rows[q]) \in Seq(Char) \union {Null}
             /\ rows[q] # Null => CharsOf(rows[q]) \in Seq(Char)
  <2>1. rows[q] \in Row BY <1>1
  <2>2. rows[q] # Null => rows[q] \in String BY <2>1 DEF Row
  <2> QED BY <2>2, CharsTyped DEF CharsOf
<1>4. RowPieces(rows) \in Seq(Seq(Char) \union {Null}) /\ Len(RowPieces(rows)) = Len(rows)
  <2> DEFINE W == Seq(Char) \union {Null}
  <2>1. \A q \in 1 .. Len(rows) : CharsOf(rows[q]) \in W BY <1>3
  <2> HIDE DEF W
  <2>2. [q \in 1 .. Len(rows) |-> CharsOf(rows[q])] \in Seq(W) BY <1>1, <2>1
  <2>3. Len(RowPieces(rows)) = Len(rows) BY <1>1, <1>2
  <2> QED BY <1>2, <2>2, <2>3 DEF W
<1> QED BY <1>1, <1>2, <1>3, <1>4 DEF RowLongs

\* A string that has been read is still read when both go on in step: the run
\* behind the column is the run behind the rows, and reaches as far.
LEMMA LongExtended ==
  ASSUME NEW column \in Seq(AnyPage), NEW longer \in Seq(AnyPage), Extends(column, longer),
         NEW rows \in Seq(Row), NEW more \in Seq(Row), Extends(rows, more),
         ColumnRun(longer, Len(column) + 1) = RowRun(more, Len(rows) + 1),
         Len(column) + 1 .. Len(longer) \subseteq ColumnLongs(longer) <=>
           Len(rows) + 1 .. Len(more) \subseteq RowLongs(more),
         NEW r \in 1 .. Len(rows), NEW p, LongReads(column, rows, r, p)
  PROVE  LongReads(longer, more, r, p)
<1> DEFINE n == Len(column)
           m == Len(rows)
<1>1. /\ n \in Nat /\ Len(longer) \in Nat /\ n <= Len(longer)
      /\ m \in Nat /\ Len(more) \in Nat /\ m <= Len(more)
      /\ \A q \in 1 .. n : longer[q] = column[q]
      /\ \A q \in 1 .. m : more[q] = rows[q]
  BY ColumnPiecesTyped, RowPiecesTyped DEF Extends
<1>2. /\ p \in 1 .. n /\ IsLongPage(column[p])
      /\ p .. n \subseteq ColumnLongs(column) <=> r .. m \subseteq RowLongs(rows)
      /\ ColumnRun(column, p) = RowRun(rows, r)
  BY DEF LongReads
<1>3. /\ \A q \in 1 .. n : /\ ColumnPieces(longer)[q] = ColumnPieces(column)[q]
                           /\ q \in ColumnLongs(longer) <=> q \in ColumnLongs(column)
      /\ \A q \in 1 .. n : q \in 1 .. Len(longer)
  <2>1. \A q \in 1 .. n : q \in 1 .. Len(longer) BY <1>1
  <2>2. \A q \in 1 .. n : /\ ColumnPieces(column)[q] = column[q].chars
                          /\ q \in ColumnLongs(column) <=> IsLongPage(column[q])
    BY ColumnPiecesTyped
  <2>3. \A q \in 1 .. Len(longer) : /\ ColumnPieces(longer)[q] = longer[q].chars
                                    /\ q \in ColumnLongs(longer) <=> IsLongPage(longer[q])
    BY ColumnPiecesTyped
  <2> QED BY <1>1, <2>1, <2>2, <2>3
<1>4. /\ \A q \in 1 .. m : /\ RowPieces(more)[q] = RowPieces(rows)[q]
                           /\ q \in RowLongs(more) <=> q \in RowLongs(rows)
      /\ \A q \in 1 .. m : q \in 1 .. Len(more)
  BY <1>1, RowPiecesTyped
<1>5. ColumnRun(longer, p) = IF p .. n \subseteq ColumnLongs(column)
                               THEN ColumnRun(column, p) \o ColumnRun(longer, n + 1)
                               ELSE ColumnRun(column, p)
  <2> DEFINE a == ColumnPieces(column)
             A == ColumnLongs(column)
             b == ColumnPieces(longer)
             B == ColumnLongs(longer)
  <2>1. /\ Len(a) \in Nat /\ A \in SUBSET (1 .. Len(a)) /\ Len(a) = n
        /\ Len(b) \in Nat /\ B \in SUBSET (1 .. Len(b)) /\ Len(a) <= Len(b)
        /\ \A q \in A : a[q] \in Seq(Char)
        /\ \A q \in B : b[q] \in Seq(Char)
    <3>1. /\ \A q \in A : q \in 1 .. Len(column)
          /\ \A q \in B : q \in 1 .. Len(longer)
      BY ColumnPiecesTyped
    <3> QED BY <1>1, <3>1, ColumnPiecesTyped
  <2>2. /\ PiecesOf(Char, a, A) /\ PiecesOf(Char, b, B) /\ GoesOn(a, A, b, B)
    <3> HIDE DEF a, A, b, B
    <3>1. \A q \in 1 .. Len(a) : b[q] = a[q] /\ (q \in B <=> q \in A)
      BY <1>3, <2>1 DEF a, A, b, B
    <3> QED BY <2>1, <3>1 DEF PiecesOf, GoesOn
  <2>3. p \in 1 .. Len(a) + 1 BY <1>1, <1>2, <2>1
  <2> HIDE DEF a, A, b, B
  <2>4. RunFrom(b, B, p) = IF p .. Len(a) \subseteq A
                             THEN RunFrom(a, A, p) \o RunFrom(b, B, Len(a) + 1)
                             ELSE RunFrom(a, A, p)
    BY <2>2, <2>3, RunFromExtended
  <2> QED BY <2>1, <2>4 DEF a, A, b, B, ColumnRun
<1>6. RowRun(more, r) = IF r .. m \subseteq RowLongs(rows)
                          THEN RowRun(rows, r) \o RowRun(more, m + 1)
                          ELSE RowRun(rows, r)
  <2> DEFINE a == RowPieces(rows)
             A == RowLongs(rows)
             b == RowPieces(more)
             B == RowLongs(more)
  <2>1. /\ Len(a) \in Nat /\ A \in SUBSET (1 .. Len(a)) /\ Len(a) = m
        /\ Len(b) \in Nat /\ B \in SUBSET (1 .. Len(b)) /\ Len(a) <= Len(b)
        /\ \A q \in A : a[q] \in Seq(Char)
        /\ \A q \in B : b[q] \in Seq(Char)
    <3>1. /\ \A q \in A : q \in 1 .. Len(rows)
          /\ \A q \in B : q \in 1 .. Len(more)
      BY RowPiecesTyped
    <3> QED BY <1>1, <3>1, RowPiecesTyped
  <2>2. /\ PiecesOf(Char, a, A) /\ PiecesOf(Char, b, B) /\ GoesOn(a, A, b, B)
    <3> HIDE DEF a, A, b, B
    <3>1. \A q \in 1 .. Len(a) : b[q] = a[q] /\ (q \in B <=> q \in A)
      BY <1>4, <2>1 DEF a, A, b, B
    <3> QED BY <2>1, <3>1 DEF PiecesOf, GoesOn
  <2>3. r \in 1 .. Len(a) + 1 BY <1>1, <2>1
  <2> HIDE DEF a, A, b, B
  <2>4. RunFrom(b, B, r) = IF r .. Len(a) \subseteq A
                             THEN RunFrom(a, A, r) \o RunFrom(b, B, Len(a) + 1)
                             ELSE RunFrom(a, A, r)
    BY <2>2, <2>3, RunFromExtended, SMTT(60)
  <2> QED BY <2>1, <2>4 DEF a, A, b, B, RowRun
<1>7. ColumnRun(longer, p) = RowRun(more, r) BY <1>2, <1>5, <1>6
<1>8. p .. Len(longer) \subseteq ColumnLongs(longer) <=>
        p .. n \subseteq ColumnLongs(column) /\ n + 1 .. Len(longer) \subseteq ColumnLongs(longer)
  <2>1. p .. Len(longer) = (p .. n) \union (n + 1 .. Len(longer)) BY <1>1, <1>2
  <2>2. \A q \in p .. n : q \in 1 .. n BY <1>1, <1>2
  <2> QED BY <1>3, <2>1, <2>2
<1>9. r .. Len(more) \subseteq RowLongs(more) <=>
        r .. m \subseteq RowLongs(rows) /\ m + 1 .. Len(more) \subseteq RowLongs(more)
  <2>1. r .. Len(more) = (r .. m) \union (m + 1 .. Len(more)) BY <1>1
  <2>2. \A q \in r .. m : q \in 1 .. m BY <1>1
  <2> QED BY <1>4, <2>1, <2>2
<1>10. p \in 1 .. Len(longer) /\ IsLongPage(longer[p]) BY <1>1, <1>2
<1> QED BY <1>2, <1>7, <1>8, <1>9, <1>10 DEF LongReads

LEMMA ShortExtended ==
  ASSUME NEW column \in Seq(AnyPage), NEW longer \in Seq(AnyPage), Extends(column, longer),
         NEW row, NEW ref, ShortReads(column, row, ref)
  PROVE  ShortReads(longer, row, ref)
<1> DEFINE p == ref.page_idx + 1
<1>1. Len(column) \in Nat /\ Len(longer) \in Nat /\ Len(column) <= Len(longer)
  BY ColumnPiecesTyped DEF Extends
<1>2. p \in 1 .. Len(column) /\ ~IsLongPage(column[p]) /\ Resolve(column, ref) = Chars(row)
  BY DEF ShortReads
<1>3. longer[p] = column[p] /\ p \in 1 .. Len(longer) BY <1>1, <1>2 DEF Extends
<1>4. Resolve(longer, ref) = Resolve(column, ref) BY <1>2, <1>3 DEF Resolve
<1> QED BY <1>2, <1>3, <1>4 DEF ShortReads

-----------------------------------------------------------------------------
(* Columns that grow.                                                      *)

\* A column and its rows go on in step: the runs behind them are the same and
\* reach as far.
InStep(column, rows, longer, more) ==
  /\ Extends(column, longer) /\ Extends(rows, more)
  /\ ColumnRun(longer, Len(column) + 1) = RowRun(more, Len(rows) + 1)
  /\ Len(column) + 1 .. Len(longer) \subseteq ColumnLongs(longer) <=>
       Len(rows) + 1 .. Len(more) \subseteq RowLongs(more)

LEMMA RefExtended ==
  ASSUME NEW column \in Seq(AnyPage), NEW longer \in Seq(AnyPage),
         NEW rows \in Seq(Row), NEW more \in Seq(Row), InStep(column, rows, longer, more),
         NEW r \in 1 .. Len(rows), NEW ref, RefReads(column, rows, r, ref)
  PROVE  RefReads(longer, more, r, ref)
<1>1. more[r] = rows[r] BY DEF InStep, Extends
<1>2. CASE rows[r] = Null BY <1>1, <1>2 DEF RefReads
<1>3. CASE rows[r] # Null /\ IsLong(rows[r])
  <2>1. ref \in Reference /\ LongReads(column, rows, r, ref.page_idx + 1)
    BY <1>3 DEF RefReads
  <2>2. LongReads(longer, more, r, ref.page_idx + 1) BY <2>1, LongExtended, SMTT(60) DEF InStep
  <2> QED BY <1>1, <1>3, <2>1, <2>2 DEF RefReads
<1>4. CASE rows[r] # Null /\ ~IsLong(rows[r])
  <2>1. ref \in Reference /\ ShortReads(column, rows[r], ref) BY <1>4 DEF RefReads
  <2>2. ShortReads(longer, rows[r], ref) BY <2>1, ShortExtended DEF InStep
  <2> QED BY <1>1, <1>4, <2>1, <2>2 DEF RefReads
<1> QED BY <1>2, <1>3, <1>4

\* A list behind another.
Joined(list, tail, whole) ==
  /\ Len(list) \in Nat /\ Len(tail) \in Nat /\ Len(whole) = Len(list) + Len(tail)
  /\ \A i \in 1 .. Len(list) : whole[i] = list[i]
  /\ \A i \in 1 .. Len(tail) : whole[Len(list) + i] = tail[i]

LEMMA ListsJoined ==
  ASSUME NEW V, NEW list \in Seq(V), NEW tail \in Seq(V)
  PROVE  list \o tail \in Seq(V) /\ Joined(list, tail, list \o tail)
BY Concatenation DEF Joined

LEMMA RowPiecesJoined ==
  ASSUME NEW rows \in Seq(Row), NEW list \in Seq(Row)
  PROVE  RowPieces(rows \o list) = RowPieces(rows) \o RowPieces(list)
<1> DEFINE W == Seq(Char) \union {Null}
           all == rows \o list
           joined == RowPieces(rows) \o RowPieces(list)
<1>1. /\ all \in Seq(Row) /\ Len(rows) \in Nat /\ Len(list) \in Nat
      /\ Len(all) = Len(rows) + Len(list)
      /\ \A i \in 1 .. Len(rows) : all[i] = rows[i]
      /\ \A i \in 1 .. Len(list) : all[Len(rows) + i] = list[i]
  BY ListsJoined DEF Joined
<1> HIDE DEF all
<1>2. /\ RowPieces(rows) \in Seq(W) /\ Len(RowPieces(rows)) = Len(rows)
      /\ RowPieces(list) \in Seq(W) /\ Len(RowPieces(list)) = Len(list)
      /\ RowPieces(all) \in Seq(W) /\ Len(RowPieces(all)) = Len(all)
      /\ \A i \in 1 .. Len(rows) : RowPieces(rows)[i] = CharsOf(rows[i])
      /\ \A i \in 1 .. Len(list) : RowPieces(list)[i] = CharsOf(list[i])
      /\ \A i \in 1 .. Len(all) : RowPieces(all)[i] = CharsOf(all[i])
  BY <1>1, RowPiecesTyped
<1> HIDE DEF W
<1>3. /\ joined \in Seq(W) /\ Len(joined) = Len(rows) + Len(list)
      /\ \A i \in 1 .. Len(rows) : joined[i] = CharsOf(rows[i])
      /\ \A i \in 1 .. Len(list) : joined[Len(rows) + i] = CharsOf(list[i])
  <2>1. joined \in Seq(W) /\ Joined(RowPieces(rows), RowPieces(list), joined)
    BY <1>2, ListsJoined
  <2> HIDE DEF joined
  <2> QED BY <1>2, <2>1 DEF Joined
<1> HIDE DEF joined
<1>4. ASSUME NEW i \in 1 .. Len(all) PROVE RowPieces(all)[i] = joined[i]
  <2>1. CASE i <= Len(rows)
    <3>1. i \in 1 .. Len(rows) BY <1>1, <2>1
    <3> QED BY <1>1, <1>2, <1>3, <3>1
  <2>2. CASE ~(i <= Len(rows))
    <3>1. i - Len(rows) \in 1 .. Len(list) /\ Len(rows) + (i - Len(rows)) = i BY <1>1, <2>2
    <3>2. all[i] = list[i - Len(rows)] /\ joined[i] = CharsOf(list[i - Len(rows)])
      BY <1>1, <1>3, <3>1
    <3> QED BY <1>2, <3>2
  <2> QED BY <2>1, <2>2
<1>5. RowPieces(all) = joined BY <1>1, <1>2, <1>3, <1>4, SeqEqual
<1> QED BY <1>5 DEF all, joined

\* A short string by its page and its number there.
ShortString(page, slot) ==
  LET start == IF slot = 0 THEN 0 ELSE page.offsets[slot]
  IN  IF slot >= page.count THEN Null
      ELSE SubSeq(page.chars, start + 1, page.offsets[slot + 1])

\* A page of ordinary rows holds these rows, for both readers.
PageMeans(page, list) ==
  /\ page \in GoodRowPage /\ list \in Seq(Row) /\ Len(list) = page.rows
  /\ CopiedPage(page) = RowPieces(list)
  /\ \A p \in Nat : \A r \in 1 .. Len(list) :
       IF list[r] = Null THEN PageRefs(page, p)[r] = Null
       ELSE /\ ~IsLong(list[r])
            /\ PageRefs(page, p)[r] \in Reference
            /\ PageRefs(page, p)[r].page_idx = p
            /\ ShortString(page, PageRefs(page, p)[r].slot_idx) = Chars(list[r])

\* A page of ordinary rows behind the others.
LEMMA ReadsOrdinary ==
  ASSUME NEW column, NEW rows, Reads(column, rows),
         NEW page, NEW list, PageMeans(page, list), list # <<>>
  PROVE  Reads(Append(column, page), rows \o list)
<1> DEFINE n == Len(column)
           m == Len(rows)
           longer == Append(column, page)
           more == rows \o list
           refs == ScanRefs(column)
           new == PageRefs(page, n)
<1>1. /\ column \in Seq(AnyPage) /\ rows \in Seq(Row)
      /\ CopiedRows(column) = RowPieces(rows) /\ Len(refs) = m
      /\ \A r \in 1 .. m : RefReads(column, rows, r, refs[r])
  BY DEF Reads
<1>2. /\ page \in GoodRowPage /\ list \in Seq(Row) /\ Len(list) = page.rows
      /\ CopiedPage(page) = RowPieces(list)
  BY DEF PageMeans
<1>3. page \in AnyPage /\ ~IsLongPage(page)
  <2>1. page.rows \in Nat /\ page.rows < LongPageNext BY <1>2 DEF GoodRowPage, RowPage
  <2>2. ~IsLongPage(page) BY <2>1, StringAssumption DEF IsLongPage
  <2> QED BY <1>2, <2>2 DEF AnyPage
<1>4. /\ n \in Nat /\ longer \in Seq(AnyPage) /\ Len(longer) = n + 1
      /\ \A p \in 1 .. n : longer[p] = column[p]
      /\ longer[n + 1] = page
  BY <1>1, <1>3, AppendProperties, LenProperties
<1>5. /\ more \in Seq(Row) /\ m \in Nat /\ Len(list) \in Nat /\ Len(more) = m + Len(list)
      /\ Extends(rows, more)
      /\ \A i \in 1 .. m : more[i] = rows[i]
      /\ \A i \in 1 .. Len(list) : more[m + i] = list[i]
  <2>1. more \in Seq(Row) /\ Joined(rows, list, more) BY <1>1, <1>2, ListsJoined
  <2> HIDE DEF more
  <2> QED BY <2>1 DEF Joined, Extends
<1>6. 1 \in 1 .. Len(list) BY <1>2, <1>5, EmptySeq
<1>7. CopiedRows(longer) = RowPieces(more)
  <2>1. page.rows # LongPage /\ page.rows # LongPageNext BY <1>3 DEF IsLongPage
  <2>2. CopiedRows(longer) = CopiedRows(column) \o CopiedPage(page)
    BY <1>1, <1>3, <2>1, CopiedAppended DEF CopyStep
  <2> QED BY <1>1, <1>2, <2>2, RowPiecesJoined
<1>8. /\ ScanRefs(longer) = refs \o new
      /\ refs \in Seq(Ref) /\ new \in Seq(Ref) /\ Len(new) = Len(list)
  <2>1. refs \in Seq(Ref) /\ ScanRefs(longer) = refs \o new BY <1>1, <1>3, ScanAppended
  <2>2. new \in Seq(Ref) BY <1>3, <1>4, RefsTyped
  <2>3. page.rows # LongPage /\ page.rows # LongPageNext BY <1>3 DEF IsLongPage
  <2>4. Len(new) = page.rows
    <3>1. page.rows \in Nat BY <1>2 DEF GoodRowPage, RowPage
    <3> QED BY <2>3, <3>1 DEF PageRefs
  <2> QED BY <1>2, <2>1, <2>2, <2>4
<1>9. /\ Len(refs \o new) = m + Len(list)
      /\ \A i \in 1 .. m : (refs \o new)[i] = refs[i]
      /\ \A i \in 1 .. Len(list) : (refs \o new)[m + i] = new[i]
  <2>1. Joined(refs, new, refs \o new) BY <1>8, ListsJoined
  <2> HIDE DEF refs, new
  <2> QED BY <1>1, <1>8, <2>1 DEF Joined
<1> HIDE DEF longer, more, refs, new, m, n
<1>10. InStep(column, rows, longer, more)
  <2>1. Extends(column, longer) BY <1>4 DEF Extends, n
  <2>2. n + 1 \notin ColumnLongs(longer)
    <3>1. n + 1 \in 1 .. Len(longer) BY <1>4
    <3> QED BY <1>3, <1>4, <3>1, ColumnPiecesTyped
  <2>3. m + 1 \notin RowLongs(more)
    <3>1. m + 1 \in 1 .. Len(more) /\ more[m + 1] = list[1] BY <1>5, <1>6
    <3>2. list[1] = Null \/ ~IsLong(list[1])
      <4>1. 0 \in Nat OBVIOUS
      <4> QED BY <1>6, <4>1 DEF PageMeans
    <3> QED BY <1>5, <3>1, <3>2, RowPiecesTyped
  <2>4. ColumnRun(longer, n + 1) = <<>>
    <3>1. /\ Len(ColumnPieces(longer)) = n + 1
          /\ ColumnLongs(longer) \subseteq 1 .. Len(ColumnPieces(longer))
      BY <1>4, ColumnPiecesTyped
    <3>2. n + 1 \in 1 .. Len(ColumnPieces(longer)) + 1 /\ Len(ColumnPieces(longer)) \in Nat
      BY <1>4, <3>1
    <3> QED BY <2>2, <3>1, <3>2, RunFromDefined DEF ColumnRun
  <2>5. RowRun(more, m + 1) = <<>>
    <3>1. /\ Len(RowPieces(more)) = m + Len(list)
          /\ RowLongs(more) \subseteq 1 .. Len(RowPieces(more))
      BY <1>5, RowPiecesTyped
    <3>2. m + 1 \in 1 .. Len(RowPieces(more)) + 1 /\ Len(RowPieces(more)) \in Nat
      BY <1>5, <3>1
    <3> QED BY <2>3, <3>1, <3>2, RunFromDefined DEF RowRun
  <2>6. /\ ~(n + 1 .. Len(longer) \subseteq ColumnLongs(longer))
        /\ ~(m + 1 .. Len(more) \subseteq RowLongs(more))
    <3>1. n + 1 \in n + 1 .. Len(longer) /\ m + 1 \in m + 1 .. Len(more) BY <1>4, <1>5, <1>6
    <3> QED BY <2>2, <2>3, <3>1
  <2> QED BY <1>5, <2>1, <2>4, <2>5, <2>6 DEF InStep, m, n
<1>11. ASSUME NEW r \in 1 .. m PROVE RefReads(longer, more, r, (refs \o new)[r])
  <2>1. RefReads(column, rows, r, refs[r]) BY <1>1
  <2>2. r \in 1 .. Len(rows) BY DEF m
  <2>3. RefReads(longer, more, r, refs[r]) BY <1>1, <1>4, <1>5, <1>10, <2>1, <2>2, RefExtended
  <2> QED BY <1>9, <2>3
<1>12. ASSUME NEW i \in 1 .. Len(list) PROVE RefReads(longer, more, m + i, (refs \o new)[m + i])
  <2>1. (refs \o new)[m + i] = new[i] /\ more[m + i] = list[i] BY <1>5, <1>9
  <2>2. IF list[i] = Null THEN new[i] = Null
        ELSE /\ ~IsLong(list[i]) /\ new[i] \in Reference /\ new[i].page_idx = n
             /\ ShortString(page, new[i].slot_idx) = Chars(list[i])
    BY <1>4 DEF PageMeans, new
  <2>3. CASE list[i] = Null BY <2>1, <2>2, <2>3 DEF RefReads
  <2>4. CASE list[i] # Null
    <3>1. longer[new[i].page_idx + 1] = page /\ new[i].page_idx + 1 \in 1 .. Len(longer)
      BY <1>4, <2>2, <2>4
    <3>2. Resolve(longer, new[i]) = ShortString(page, new[i].slot_idx)
      BY <1>3, <3>1 DEF Resolve, ShortString
    <3>3. ShortReads(longer, list[i], new[i]) BY <1>3, <2>2, <2>4, <3>1, <3>2 DEF ShortReads
    <3> QED BY <2>1, <2>2, <2>4, <3>3 DEF RefReads
  <2> QED BY <2>3, <2>4
<1>13. ASSUME NEW r \in 1 .. Len(more) PROVE RefReads(longer, more, r, (refs \o new)[r])
  <2>1. CASE r <= m
    <3>1. r \in 1 .. m BY <1>5, <2>1
    <3> QED BY <1>11, <3>1
  <2>2. CASE ~(r <= m)
    <3>1. r - m \in 1 .. Len(list) /\ m + (r - m) = r BY <1>5, <2>2
    <3>2. RefReads(longer, more, m + (r - m), (refs \o new)[m + (r - m)]) BY <1>12, <3>1
    <3> QED BY <3>1, <3>2
  <2> QED BY <2>1, <2>2
<1>14. Reads(longer, more) BY <1>4, <1>5, <1>7, <1>8, <1>9, <1>13 DEF Reads
<1> QED BY <1>14 DEF longer, more

\* Behind a column, the resolver reads all pages of a long string.
LEMMA LongTail ==
  ASSUME NEW column \in Seq(AnyPage), NEW s \in String, IsLong(s)
  PROVE  LET longer == column \o LongPages(s)
         IN  /\ longer \in Seq(AnyPage) /\ Extends(column, longer)
             /\ Len(column) + 1 .. Len(longer) \subseteq ColumnLongs(longer)
             /\ Len(column) + 1 \in 1 .. Len(longer)
             /\ ColumnRun(longer, Len(column) + 1) = Chars(s)
<1> DEFINE n == Len(column)
           lp == LongPages(s)
           k == Len(lp)
           longer == column \o lp
           size == s.size
           text(a, b) == SubSeq(Chars(s), a + 1, b)
           S == {j \in Nat : j <= k => ColumnRun(longer, n + 1 + k - j) = text(Cut(s, k - j), size)}
<1>1. /\ lp \in Seq(LongStringPage) /\ k \in Nat \ {0} /\ Cut(s, k) = size
      /\ \A p \in 1 .. k : /\ lp[p].rows = IF p = 1 THEN LongPage ELSE LongPageNext
                           /\ lp[p].chars = text(Cut(s, p - 1), Cut(s, p))
  BY LongPagesParts
<1>2. lp \in Seq(AnyPage)
  <2>1. LongStringPage \subseteq AnyPage BY DEF AnyPage
  <2> QED BY <1>1, <2>1
<1>3. longer \in Seq(AnyPage) /\ Joined(column, lp, longer) BY <1>2, ListsJoined
<1> HIDE DEF lp, longer
<1>4. /\ n \in Nat /\ Len(longer) = n + k
      /\ \A p \in 1 .. n : longer[p] = column[p]
      /\ \A p \in 1 .. k : longer[n + p] = lp[p]
  BY <1>3 DEF Joined
<1> HIDE DEF n, k
<1>5. ASSUME NEW p \in 1 .. k
      PROVE  /\ n + p \in 1 .. Len(longer) /\ n + p \in ColumnLongs(longer)
             /\ ColumnPieces(longer)[n + p] = text(Cut(s, p - 1), Cut(s, p))
  <2>1. n + p \in 1 .. Len(longer) BY <1>1, <1>4
  <2>2. longer[n + p] = lp[p] /\ lp[p].rows \in {LongPage, LongPageNext}
    <3>1. lp[p].rows = IF p = 1 THEN LongPage ELSE LongPageNext BY <1>1
    <3> QED BY <1>4, <3>1
  <2>3. IsLongPage(longer[n + p]) BY <2>2 DEF IsLongPage
  <2>4. lp[p].chars = text(Cut(s, p - 1), Cut(s, p)) BY <1>1
  <2> HIDE DEF text
  <2> QED BY <1>3, <2>1, <2>2, <2>3, <2>4, ColumnPiecesTyped
<1>6. n + 1 .. Len(longer) \subseteq ColumnLongs(longer)
  <2>1. ASSUME NEW q \in n + 1 .. Len(longer) PROVE q \in ColumnLongs(longer)
    <3>1. q - n \in 1 .. k /\ n + (q - n) = q BY <1>1, <1>4
    <3>2. n + (q - n) \in ColumnLongs(longer) BY <1>5, <3>1
    <3> QED BY <3>1, <3>2
  <2> QED BY <2>1
<1>7. ASSUME NEW p \in 1 .. Len(longer) + 1
      PROVE  ColumnRun(longer, p) = IF p \in ColumnLongs(longer)
                                      THEN ColumnPieces(longer)[p] \o ColumnRun(longer, p + 1)
                                      ELSE <<>>
  <2>1. /\ Len(ColumnPieces(longer)) = Len(longer) /\ Len(longer) \in Nat
        /\ ColumnLongs(longer) \subseteq 1 .. Len(ColumnPieces(longer))
    BY <1>3, ColumnPiecesTyped
  <2> QED BY <2>1, RunFromDefined DEF ColumnRun
<1>8. Chars(s) \in Seq(Char) /\ Len(Chars(s)) = size /\ size \in Nat BY CharsTyped
<1> HIDE DEF size, text
<1>9. 0 \in S
  <2>1. n + 1 + k - 0 = n + k + 1 /\ k - 0 = k BY <1>1, <1>4
  <2>2. n + k + 1 \in 1 .. Len(longer) + 1 /\ n + k + 1 \notin 1 .. Len(longer) BY <1>1, <1>4
  <2>3. ColumnLongs(longer) \subseteq 1 .. Len(longer) BY <1>3, ColumnPiecesTyped
  <2>4. ColumnRun(longer, n + k + 1) = <<>> BY <1>7, <2>2, <2>3
  <2>5. text(size, size) = <<>> BY <1>8, SubSeqEmpty DEF text
  <2> QED BY <1>1, <2>1, <2>4, <2>5
<1>10. ASSUME NEW j \in Nat, j \in S PROVE j + 1 \in S
  <2> SUFFICES ASSUME j + 1 <= k
               PROVE  ColumnRun(longer, n + 1 + k - (j + 1)) = text(Cut(s, k - (j + 1)), size)
    OBVIOUS
  <2> DEFINE p == k - j
  <2>1. /\ p \in 1 .. k /\ p \in Nat /\ n + 1 + k - (j + 1) = n + p /\ k - (j + 1) = p - 1
        /\ n + 1 + k - j = (n + p) + 1 /\ j <= k /\ p - 1 \in Nat /\ (p - 1) + 1 = p
    BY <1>1, <1>4
  <2>2. ColumnRun(longer, (n + p) + 1) = text(Cut(s, p), size) BY <1>10, <2>1
  <2> HIDE DEF p
  <2>3. n + p \in 1 .. Len(longer) + 1 BY <1>1, <1>4, <2>1
  <2>4. ColumnRun(longer, n + p) = text(Cut(s, p - 1), Cut(s, p)) \o text(Cut(s, p), size)
    BY <1>5, <1>7, <2>1, <2>2, <2>3
  <2>5. text(Cut(s, p - 1), Cut(s, p)) \o text(Cut(s, p), size) = text(Cut(s, p - 1), size)
    <3> DEFINE a == Cut(s, p - 1)
               b == Cut(s, p)
    <3>1. a \in 0 .. size /\ b \in 0 .. size /\ a <= b
      <4>1. /\ Cut(s, p - 1) \in 0 .. s.size /\ Cut(s, p - 1) <= Cut(s, (p - 1) + 1)
            /\ Cut(s, p) \in 0 .. s.size
        BY <2>1, CutsAscend
      <4> QED BY <2>1, <4>1 DEF size
    <3> HIDE DEF a, b
    <3>2. a + 1 \in 1 .. size + 1 /\ b \in (a + 1) - 1 .. size /\ size \in b .. size
      BY <1>8, <3>1
    <3>3. SubSeq(Chars(s), a + 1, b) \o SubSeq(Chars(s), b + 1, size) =
            SubSeq(Chars(s), a + 1, size)
      BY <1>8, <3>2, ConcatAdjacentSubSeq
    <3> QED BY <3>3 DEF a, b, text
  <2> QED BY <2>1, <2>4, <2>5
<1>11. ColumnRun(longer, n + 1) = Chars(s)
  <2>1. k \in S
    <3> HIDE DEF S
    <3> QED BY <1>1, <1>9, <1>10, Induction
  <2>2. n + 1 + k - k = n + 1 /\ k - k = 0 /\ k <= k BY <1>1, <1>4
  <2>3. ColumnRun(longer, n + 1) = text(Cut(s, 0), size) BY <2>1, <2>2
  <2>4. Cut(s, 0) = 0 BY CutsAscend
  <2>5. text(0, size) = Chars(s) BY <1>8, SubSeqFull DEF text
  <2> QED BY <2>3, <2>4, <2>5
<1>12. n + 1 \in 1 .. Len(longer) /\ Extends(column, longer) BY <1>1, <1>4 DEF Extends, n
<1> QED BY <1>3, <1>6, <1>11, <1>12 DEF longer, lp, n

\* from_columnar and the scan, page by page: one row and one reference.
LEMMA LongRead ==
  ASSUME NEW column \in Seq(AnyPage), NEW s \in String, IsLong(s),
         CopiedRows(column) \in Seq(Seq(Char) \union {Null})
  PROVE  /\ CopiedRows(column \o LongPages(s)) = Append(CopiedRows(column), Chars(s))
         /\ ScanRefs(column \o LongPages(s)) =
              Append(ScanRefs(column), [page_idx |-> Len(column), slot_idx |-> LongPage])
<1> DEFINE n == Len(column)
           lp == LongPages(s)
           k == Len(lp)
           W == Seq(Char) \union {Null}
           rows == CopiedRows(column)
           refs == ScanRefs(column)
           ref == [page_idx |-> n, slot_idx |-> LongPage]
           size == s.size
           text(p) == SubSeq(Chars(s), 1, Cut(s, p))
           part(p) == column \o SubSeq(lp, 1, p)
           Claim(p) == /\ part(p) \in Seq(AnyPage) /\ Len(part(p)) = n + p
                       /\ CopiedRows(part(p)) = Append(rows, text(p))
                       /\ ScanRefs(part(p)) = Append(refs, ref)
           S == {j \in Nat : j + 1 <= k => Claim(j + 1)}
<1>1. /\ lp \in Seq(LongStringPage) /\ k \in Nat \ {0} /\ Cut(s, k) = size
      /\ \A p \in 1 .. k :
           /\ lp[p].rows = IF p = 1 THEN LongPage ELSE LongPageNext
           /\ lp[p].chars = SubSeq(Chars(s), Cut(s, p - 1) + 1, Cut(s, p))
  BY LongPagesParts
<1>2. lp \in Seq(AnyPage) /\ \A p \in 1 .. k : lp[p] \in AnyPage
  <2>1. LongStringPage \subseteq AnyPage BY DEF AnyPage
  <2>2. lp \in Seq(AnyPage) BY <1>1, <2>1
  <2> HIDE DEF lp
  <2> QED BY <2>2, ElementOfSeq
<1>3. Chars(s) \in Seq(Char) /\ Len(Chars(s)) = size /\ size \in Nat BY CharsTyped
<1>4. n \in Nat /\ rows \in Seq(W) /\ Len(rows) \in Nat BY LenProperties
<1>5. refs \in Seq(Ref) BY <1>1, <1>2, ScanAppended
<1> HIDE DEF n, lp, k, rows, refs, W, size
\* One more page of the string.
<1>6. ASSUME NEW p \in 0 .. k - 1, part(p) \in Seq(AnyPage), Len(part(p)) = n + p
      PROVE  /\ part(p + 1) = Append(part(p), lp[p + 1])
             /\ part(p + 1) \in Seq(AnyPage) /\ Len(part(p + 1)) = n + (p + 1)
             /\ CopiedRows(part(p + 1)) = CopyStep(CopiedRows(part(p)), lp[p + 1])
             /\ ScanRefs(part(p + 1)) = ScanRefs(part(p)) \o PageRefs(lp[p + 1], n + p)
  <2>1. p + 1 \in 1 .. k /\ 1 \in 1 .. k /\ p + 1 \in 1 .. Len(lp) /\ (p + 1) - 1 = p
        /\ 1 \in 1 .. Len(lp) /\ p + 1 \in 1 .. Len(lp)
    BY <1>1 DEF k
  <2>2. SubSeq(lp, 1, p + 1) = SubSeq(lp, 1, p) \o <<lp[p + 1]>>
    BY <1>2, <2>1, SubSeqRecursiveSecond
  <2>3. SubSeq(lp, 1, p) \in Seq(AnyPage) /\ <<lp[p + 1]>> \in Seq(AnyPage)
    <3>1. \A i \in 1 .. p : lp[i] \in AnyPage BY <1>2, <2>1
    <3> QED BY <1>2, <2>1, <3>1, SubSeqProperties
  <2>4. part(p + 1) = part(p) \o <<lp[p + 1]>> BY <2>2, <2>3, ConcatAssociative
  <2> HIDE DEF part
  <2>5. part(p + 1) = Append(part(p), lp[p + 1]) BY <1>2, <1>6, <2>1, <2>4, AppendIsConcat
  <2>6. lp[p + 1] \in AnyPage BY <1>2, <2>1
  <2>7. Append(part(p), lp[p + 1]) \in Seq(AnyPage) /\ Len(Append(part(p), lp[p + 1])) = n + p + 1
    BY <1>4, <1>6, <2>6, AppendProperties
  <2>8. CopiedRows(Append(part(p), lp[p + 1])) = CopyStep(CopiedRows(part(p)), lp[p + 1])
    BY <1>6, <2>6, CopiedAppended
  <2>9. ScanRefs(Append(part(p), lp[p + 1])) = ScanRefs(part(p)) \o PageRefs(lp[p + 1], n + p)
    BY <1>6, <2>6, ScanAppended
  <2>10. n + p + 1 = n + (p + 1) BY <1>4, <2>1
  <2> QED BY <2>5, <2>7, <2>8, <2>9, <2>10
<1>7. part(0) = column
  <2>1. SubSeq(lp, 1, 0) = <<>> BY SubSeqEmpty
  <2> QED BY <2>1, ConcatEmptySeq
<1>8. LongPageNext # LongPage BY StringAssumption
<1>9. 0 \in S
  <2>1. 0 \in 0 .. k - 1 /\ 1 \in 1 .. k /\ n + 0 = n BY <1>1, <1>4
  <2>2. /\ part(1) \in Seq(AnyPage) /\ Len(part(1)) = n + 1
        /\ CopiedRows(part(1)) = CopyStep(rows, lp[1])
        /\ ScanRefs(part(1)) = refs \o PageRefs(lp[1], n)
    <3>1. part(0) \in Seq(AnyPage) /\ Len(part(0)) = n + 0 BY <1>4, <1>7 DEF n
    <3>2. CopiedRows(part(0)) = rows /\ ScanRefs(part(0)) = refs BY <1>7 DEF rows, refs
    <3> HIDE DEF part
    <3>3. /\ part(0 + 1) \in Seq(AnyPage) /\ Len(part(0 + 1)) = n + (0 + 1)
          /\ CopiedRows(part(0 + 1)) = CopyStep(CopiedRows(part(0)), lp[0 + 1])
          /\ ScanRefs(part(0 + 1)) = ScanRefs(part(0)) \o PageRefs(lp[0 + 1], n + 0)
      BY <1>6, <2>1, <3>1
    <3>4. 0 + 1 = 1 OBVIOUS
    <3> QED BY <2>1, <3>2, <3>3, <3>4
  <2>3. lp[1].rows = LongPage /\ lp[1].chars = text(1)
    <3>1. Cut(s, 0) = 0 BY CutsAscend
    <3> QED BY <1>1, <2>1, <3>1
  <2> HIDE DEF part
  <2>4. CopiedRows(part(1)) = Append(rows, text(1)) BY <2>2, <2>3 DEF CopyStep
  <2>5. ref \in Ref BY <1>4, StringAssumption DEF Ref, Reference
  <2>6. PageRefs(lp[1], n) = <<ref>> BY <2>3 DEF PageRefs
  <2> HIDE DEF ref, text
  <2>7. ScanRefs(part(1)) = Append(refs, ref) BY <1>5, <2>2, <2>5, <2>6, AppendIsConcat
  <2> QED BY <2>2, <2>4, <2>7
<1>10. ASSUME NEW j \in Nat, j \in S PROVE j + 1 \in S
  <2> SUFFICES ASSUME j + 1 + 1 <= k PROVE Claim(j + 1 + 1)
    OBVIOUS
  <2> DEFINE p == j + 1
  <2>1. /\ p \in 0 .. k - 1 /\ p \in Nat /\ p + 1 \in 1 .. k /\ p + 1 # 1
        /\ j + 1 <= k /\ (p + 1) - 1 = p
    BY <1>1
  <2>2. Claim(p) BY <1>10, <2>1
  <2> HIDE DEF p, part
  <2>3. /\ part(p + 1) \in Seq(AnyPage) /\ Len(part(p + 1)) = n + (p + 1)
        /\ CopiedRows(part(p + 1)) = CopyStep(Append(rows, text(p)), lp[p + 1])
        /\ ScanRefs(part(p + 1)) = Append(refs, ref) \o PageRefs(lp[p + 1], n + p)
    BY <1>6, <2>1, <2>2
  <2>4. /\ lp[p + 1].rows = LongPageNext
        /\ lp[p + 1].chars = SubSeq(Chars(s), Cut(s, p) + 1, Cut(s, p + 1))
    BY <1>1, <2>1
  <2>5. /\ text(p) \o lp[p + 1].chars = text(p + 1)
        /\ text(p) \in Seq(Char) /\ text(p + 1) \in Seq(Char)
    <3>1. /\ Cut(s, p) \in 0 .. size /\ Cut(s, p) <= Cut(s, p + 1) /\ Cut(s, p + 1) \in 0 .. size
      <4>1. p + 1 \in Nat BY <2>1
      <4> QED BY <2>1, <4>1, CutsAscend DEF size
    <3> DEFINE a == Cut(s, p)
               b == Cut(s, p + 1)
    <3>2. a \in 0 .. size /\ a <= b /\ b \in 0 .. size BY <3>1
    <3> HIDE DEF a, b
    <3>3. 1 \in 1 .. size + 1 /\ a \in 1 - 1 .. size /\ b \in a .. size BY <1>3, <3>2
    <3>4. SubSeq(Chars(s), 1, a) \o SubSeq(Chars(s), a + 1, b) = SubSeq(Chars(s), 1, b)
      BY <1>3, <3>3, ConcatAdjacentSubSeq
    <3>5. SubSeq(Chars(s), 1, a) \in Seq(Char) /\ SubSeq(Chars(s), 1, b) \in Seq(Char)
      <4>1. \A i \in 1 .. size : Chars(s)[i] \in Char BY <1>3, ElementOfSeq
      <4>2. a \in Int /\ b \in Int /\ \A i \in 1 .. a : i \in 1 .. size BY <1>3, <3>2
      <4>3. \A i \in 1 .. b : i \in 1 .. size BY <1>3, <3>2
      <4> QED BY <4>1, <4>2, <4>3, SubSeqProperties
    <3> QED BY <2>4, <3>4, <3>5 DEF a, b
  <2>6. /\ Append(rows, text(p)) \in Seq(W) /\ Len(Append(rows, text(p))) = Len(rows) + 1
        /\ text(p) \in W /\ text(p + 1) \in W
    <3>1. text(p) \in W /\ text(p + 1) \in W BY <2>5 DEF W
    <3> HIDE DEF text
    <3> QED BY <1>4, <3>1, AppendProperties
  <2>7. CopyStep(Append(rows, text(p)), lp[p + 1]) = Append(rows, text(p + 1))
    <3> HIDE DEF text
    <3> DEFINE old == Append(rows, text(p))
               new == Append(rows, text(p + 1))
               l == Len(rows) + 1
    <3>1. /\ old \in Seq(W) /\ Len(old) = l /\ old[l] = text(p)
          /\ new \in Seq(W) /\ Len(new) = l /\ new[l] = text(p + 1)
          /\ \A i \in 1 .. Len(rows) : old[i] = rows[i] /\ new[i] = rows[i]
      BY <1>4, <2>6, AppendProperties
    <3>2. CopyStep(old, lp[p + 1]) = [old EXCEPT ![l] = text(p + 1)]
      BY <1>8, <2>4, <2>5, <3>1 DEF CopyStep
    <3> HIDE DEF old, new
    <3>3. l \in 1 .. Len(old) BY <1>4, <3>1
    <3>4. /\ [old EXCEPT ![l] = text(p + 1)] \in Seq(W)
          /\ Len([old EXCEPT ![l] = text(p + 1)]) = Len(old)
          /\ \A i \in 1 .. Len(old) :
               [old EXCEPT ![l] = text(p + 1)][i] = IF i = l THEN text(p + 1) ELSE old[i]
      BY <2>6, <3>1, <3>3, ExceptSeq
    <3>5. \A i \in 1 .. l : i \in 1 .. Len(rows) \/ i = l BY <1>4
    <3>6. \A i \in 1 .. l : [old EXCEPT ![l] = text(p + 1)][i] = new[i]
      BY <3>1, <3>4, <3>5
    <3>7. [old EXCEPT ![l] = text(p + 1)] = new BY <3>1, <3>4, <3>6, SeqEqual
    <3> QED BY <3>2, <3>7 DEF old, new
  <2>8. PageRefs(lp[p + 1], n + p) = <<>> BY <1>8, <2>4 DEF PageRefs
  <2>9. ScanRefs(part(p + 1)) = Append(refs, ref)
    <3>1. ref \in Ref BY <1>4, StringAssumption DEF Ref, Reference
    <3> HIDE DEF ref
    <3>2. Append(refs, ref) \in Seq(Ref) BY <1>5, <3>1, AppendProperties
    <3> QED BY <2>3, <2>8, <3>2, ConcatEmptySeq
  <2>10. Claim(p + 1) BY <2>3, <2>7, <2>9
  <2> HIDE DEF Claim
  <2> QED BY <2>10 DEF p
<1>11. Claim(k)
  <2>1. k - 1 \in Nat /\ (k - 1) + 1 = k BY <1>1
  <2>2. k - 1 \in S
    <3> HIDE DEF S
    <3> QED BY <1>9, <1>10, <2>1, Induction
  <2> HIDE DEF Claim
  <2> QED BY <2>1, <2>2
<1>12. part(k) = column \o lp
  <2>1. SubSeq(lp, 1, k) = lp BY <1>2, SubSeqFull DEF k
  <2> QED BY <2>1
<1>13. text(k) = Chars(s) BY <1>1, <1>3, SubSeqFull
<1> HIDE DEF text, part
<1> QED BY <1>11, <1>12, <1>13 DEF lp, rows, refs, n

\* Nothing is read from no page.
LEMMA ReadsEmpty == Reads(<<>>, <<>>)
<1>1. <<>> \in Seq(AnyPage) /\ <<>> \in Seq(Row) BY EmptySeq
<1>2. RowPieces(<<>>) = <<>> BY DEF RowPieces
<1>3. Len(<<>>) = 0 /\ 1 .. 0 = {} OBVIOUS
<1> QED BY <1>1, <1>2, <1>3, CopiedEmpty, ScanEmpty DEF Reads

\* The pages of a long string behind the others.
LEMMA ReadsLong ==
  ASSUME NEW column, NEW rows, Reads(column, rows), NEW s \in String, IsLong(s)
  PROVE  Reads(column \o LongPages(s), Append(rows, s))
<1> DEFINE n == Len(column)
           m == Len(rows)
           longer == column \o LongPages(s)
           more == Append(rows, s)
           refs == ScanRefs(column)
           ref == [page_idx |-> n, slot_idx |-> LongPage]
           W == Seq(Char) \union {Null}
<1>1. /\ column \in Seq(AnyPage) /\ rows \in Seq(Row)
      /\ CopiedRows(column) = RowPieces(rows) /\ Len(refs) = m
      /\ \A r \in 1 .. m : RefReads(column, rows, r, refs[r])
  BY DEF Reads
<1>2. s \in Row /\ s # Null /\ CharsOf(s) = Chars(s) BY StringAssumption DEF Row, CharsOf
<1>3. /\ longer \in Seq(AnyPage) /\ Extends(column, longer)
      /\ n + 1 .. Len(longer) \subseteq ColumnLongs(longer)
      /\ n + 1 \in 1 .. Len(longer)
      /\ ColumnRun(longer, n + 1) = Chars(s)
  BY <1>1, LongTail
<1>4. /\ more \in Seq(Row) /\ m \in Nat /\ Len(more) = m + 1
      /\ \A i \in 1 .. m : more[i] = rows[i]
      /\ more[m + 1] = s
  BY <1>1, <1>2, AppendProperties, LenProperties
<1>5. n \in Nat BY <1>1, LenProperties
<1>6. /\ RowPieces(rows) \in Seq(W) /\ Len(RowPieces(rows)) = m
      /\ \A q \in 1 .. m : RowPieces(rows)[q] = CharsOf(rows[q])
  BY <1>1, RowPiecesTyped
<1>7. /\ CopiedRows(longer) = Append(RowPieces(rows), Chars(s))
      /\ ScanRefs(longer) = Append(refs, ref)
  BY <1>1, <1>6, LongRead
<1>8. refs \in Seq(Ref)
  <2>1. LongPages(s)[1] \in AnyPage
    <3>1. LongPages(s) \in Seq(LongStringPage) /\ 1 \in 1 .. Len(LongPages(s)) BY LongPagesParts
    <3>2. LongPages(s)[1] \in LongStringPage BY <3>1, ElementOfSeq
    <3> QED BY <3>2 DEF AnyPage
  <2> QED BY <1>1, <2>1, ScanAppended
<1>9. ref \in Reference /\ ref.page_idx = n /\ ref \in Ref
  BY <1>5, StringAssumption DEF Ref, Reference
<1> HIDE DEF longer, more, refs, ref, n, m, W
<1>10. /\ Len(RowPieces(more)) = m + 1 /\ RowPieces(more) \in Seq(W)
       /\ RowLongs(more) \subseteq 1 .. m + 1
       /\ \A q \in 1 .. m + 1 : RowPieces(more)[q] = CharsOf(more[q])
       /\ m + 1 \in RowLongs(more)
  <2>1. m + 1 \in 1 .. Len(more) BY <1>4
  <2> QED BY <1>2, <1>4, <2>1, RowPiecesTyped DEF W
<1>11. RowPieces(more) = Append(RowPieces(rows), Chars(s))
  <2> DEFINE appended == Append(RowPieces(rows), Chars(s))
  <2>1. Chars(s) \in W BY CharsTyped DEF W
  <2>2. /\ appended \in Seq(W) /\ Len(appended) = m + 1
        /\ \A q \in 1 .. m : appended[q] = CharsOf(rows[q])
        /\ appended[m + 1] = Chars(s)
    BY <1>6, <2>1, AppendProperties
  <2> HIDE DEF appended
  <2>3. \A q \in 1 .. m + 1 : q \in 1 .. m \/ q = m + 1 BY <1>4
  <2>4. \A q \in 1 .. m + 1 : RowPieces(more)[q] = appended[q] BY <1>2, <1>4, <1>10, <2>2, <2>3
  <2>5. RowPieces(more) = appended BY <1>10, <2>2, <2>4, SeqEqual
  <2> QED BY <2>5 DEF appended
<1>12. RowRun(more, m + 1) = Chars(s)
  <2>1. /\ Len(RowPieces(more)) \in Nat /\ m + 1 \in 1 .. Len(RowPieces(more)) + 1
        /\ (m + 1) + 1 \in 1 .. Len(RowPieces(more)) + 1
        /\ RowLongs(more) \subseteq 1 .. Len(RowPieces(more))
        /\ (m + 1) + 1 \notin RowLongs(more)
    BY <1>4, <1>10
  <2>2. RowRun(more, m + 1) = RowPieces(more)[m + 1] \o RowRun(more, (m + 1) + 1)
    BY <1>10, <2>1, RunFromDefined DEF RowRun
  <2>3. RowRun(more, (m + 1) + 1) = <<>>
    <3>1. ASSUME NEW q \in 1 .. Len(RowPieces(more)) + 1, q \notin RowLongs(more)
          PROVE  RowRun(more, q) = <<>>
      BY <2>1, <3>1, RunFromDefined DEF RowRun
    <3> QED BY <2>1, <3>1
  <2>4. RowPieces(more)[m + 1] = Chars(s)
    <3>1. m + 1 \in 1 .. m + 1 BY <1>4
    <3> QED BY <1>2, <1>4, <1>10, <3>1
  <2>5. Chars(s) \o <<>> = Chars(s) BY CharsTyped, ConcatEmptySeq
  <2> QED BY <2>2, <2>3, <2>4, <2>5
<1>13. m + 1 .. Len(more) \subseteq RowLongs(more)
  <2>1. \A q \in m + 1 .. Len(more) : q = m + 1 BY <1>4
  <2> QED BY <1>10, <2>1
<1>14. InStep(column, rows, longer, more)
  <2>1. Extends(rows, more) BY <1>4 DEF Extends, m
  <2> QED BY <1>3, <1>12, <1>13, <2>1 DEF InStep, n, m
<1>15. /\ Len(Append(refs, ref)) = m + 1
       /\ \A r \in 1 .. m : Append(refs, ref)[r] = refs[r]
       /\ Append(refs, ref)[m + 1] = ref
  BY <1>1, <1>8, <1>9, AppendProperties
<1>16. ASSUME NEW r \in 1 .. m PROVE RefReads(longer, more, r, Append(refs, ref)[r])
  <2>1. RefReads(column, rows, r, refs[r]) /\ r \in 1 .. Len(rows) BY <1>1 DEF m
  <2>2. RefReads(longer, more, r, refs[r]) BY <1>1, <1>3, <1>4, <1>14, <2>1, RefExtended
  <2> QED BY <1>15, <2>2
<1>17. RefReads(longer, more, m + 1, ref)
  <2>1. IsLongPage(longer[n + 1])
    <3>1. n + 1 \in n + 1 .. Len(longer) BY <1>3, <1>5
    <3>2. n + 1 \in ColumnLongs(longer) BY <1>3, <3>1
    <3> QED BY <3>2 DEF ColumnLongs
  <2>2. LongReads(longer, more, m + 1, n + 1) BY <1>3, <1>12, <1>13, <2>1 DEF LongReads
  <2> QED BY <1>2, <1>4, <1>9, <2>2 DEF RefReads
<1>18. \A r \in 1 .. m + 1 : RefReads(longer, more, r, Append(refs, ref)[r])
  <2>1. \A r \in 1 .. m + 1 : r \in 1 .. m \/ r = m + 1 BY <1>4
  <2> QED BY <1>15, <1>16, <1>17, <2>1
<1>19. Reads(longer, more) BY <1>3, <1>4, <1>7, <1>11, <1>15, <1>18 DEF Reads
<1> QED BY <1>19 DEF longer, more

\* All that ReadersReturnRows asks of a column.
LEMMA ReadsAll ==
  ASSUME NEW column, NEW rows, Reads(column, rows)
  PROVE  /\ CopiedRows(column) = [r \in DOMAIN rows |-> CharsOf(rows[r])]
         /\ DOMAIN ScanRefs(column) = DOMAIN rows
         /\ \A r \in DOMAIN rows :
              (IF ScanRefs(column)[r] = Null THEN Null ELSE Resolve(column, ScanRefs(column)[r])) =
                IF rows[r] = Null THEN Null
                ELSE IF IsLong(rows[r]) THEN RowRun(rows, r)
                ELSE Chars(rows[r])
<1> DEFINE refs == ScanRefs(column)
<1>1. /\ column \in Seq(AnyPage) /\ rows \in Seq(Row)
      /\ CopiedRows(column) = RowPieces(rows) /\ Len(refs) = Len(rows)
      /\ \A r \in 1 .. Len(rows) : RefReads(column, rows, r, refs[r])
  BY DEF Reads
<1>2. DOMAIN rows = 1 .. Len(rows) BY <1>1, LenProperties
<1>3. DOMAIN refs = DOMAIN rows
  <2>1. refs \in Seq(Ref)
    <3>1. \E page : page \in AnyPage
      <4>1. [rows |-> LongPage, count |-> 0, chars |-> <<>>] \in LongStringPage
        BY EmptySeq DEF LongStringPage
      <4> QED BY <4>1 DEF AnyPage
    <3> QED BY <1>1, <3>1, ScanAppended
  <2> HIDE DEF refs
  <2> QED BY <1>1, <1>2, <2>1, LenProperties
<1>4. ASSUME NEW r \in DOMAIN rows
      PROVE  (IF refs[r] = Null THEN Null ELSE Resolve(column, refs[r])) =
               IF rows[r] = Null THEN Null
               ELSE IF IsLong(rows[r]) THEN RowRun(rows, r)
               ELSE Chars(rows[r])
  <2>1. RefReads(column, rows, r, refs[r]) BY <1>1, <1>2
  <2> HIDE DEF refs
  <2>2. CASE rows[r] = Null BY <2>1, <2>2 DEF RefReads
  <2>3. CASE rows[r] # Null /\ IsLong(rows[r])
    <3>1. refs[r] \in Reference /\ LongReads(column, rows, r, refs[r].page_idx + 1)
      BY <2>1, <2>3 DEF RefReads
    <3>2. refs[r] # Null BY <3>1, StringAssumption
    <3>3. /\ IsLongPage(column[refs[r].page_idx + 1])
          /\ ColumnRun(column, refs[r].page_idx + 1) = RowRun(rows, r)
      BY <3>1 DEF LongReads
    <3>4. Resolve(column, refs[r]) = ColumnRun(column, refs[r].page_idx + 1)
      BY <3>3 DEF Resolve, LongString, ColumnRun, ColumnPieces, ColumnLongs
    <3> QED BY <2>3, <3>2, <3>3, <3>4
  <2>4. CASE rows[r] # Null /\ ~IsLong(rows[r])
    <3>1. refs[r] \in Reference /\ ShortReads(column, rows[r], refs[r])
      BY <2>1, <2>4 DEF RefReads
    <3>2. refs[r] # Null BY <3>1, StringAssumption
    <3> QED BY <2>4, <3>1, <3>2 DEF ShortReads
  <2> QED BY <2>2, <2>3, <2>4
<1> QED BY <1>1, <1>3, <1>4 DEF RowPieces

-----------------------------------------------------------------------------
(* The page that is being filled.                                          *)

\* String i of a page: from the end of the one before it to its own offset.
StringAt(offs, chars, i) ==
  SubSeq(chars, (IF i = 1 THEN 0 ELSE offs[i - 1]) + 1, offs[i])

\* n rows in the buffers, by their offsets, chars and bits, are this list.
BufferMeans(n, offs, chars, bits, list) ==
  /\ list \in Seq(Row) /\ Len(list) = n
  /\ offs \in Seq(Nat) /\ chars \in Seq(Char) /\ Bits(bits)
  /\ Len(offs) = ValuesBefore(bits, n)
  /\ \A i \in 1 .. Len(offs) : offs[i] <= Len(chars)
  /\ Len(offs) = 0 => Len(chars) = 0
  /\ Len(offs) > 0 => offs[Len(offs)] = Len(chars)
  /\ \A r \in 1 .. n :
       IF r - 1 \in bits
         THEN /\ list[r] \in String /\ ~IsLong(list[r])
              /\ StringAt(offs, chars, ValuesBefore(bits, r)) = Chars(list[r])
         ELSE list[r] = Null

\* Without rows, the bits left by earlier pages do not matter.
LEMMA BufferEmpty ==
  ASSUME NEW bits, Bits(bits)
  PROVE  BufferMeans(0, <<>>, <<>>, bits, <<>>)
<1>1. ValuesBefore(bits, 0) = 0 BY CountNone
<1>2. Len(<<>>) = 0 /\ 1 .. 0 = {} OBVIOUS
<1>3. <<>> \in Seq(Row) /\ <<>> \in Seq(Nat) /\ <<>> \in Seq(Char) BY EmptySeq
<1> QED BY <1>1, <1>2, <1>3 DEF BufferMeans

\* Only the bits of the rows matter.
LEMMA BufferBits ==
  ASSUME NEW n \in Nat, NEW offs, NEW chars, NEW bits, NEW other, NEW list,
         BufferMeans(n, offs, chars, bits, list), Bits(other), Agree(bits, other, n)
  PROVE  BufferMeans(n, offs, chars, other, list)
<1>1. Bits(bits) BY DEF BufferMeans
<1>2. \A r \in 0 .. n : ValuesBefore(bits, r) = ValuesBefore(other, r) BY <1>1, SameCount
<1>3. n \in 0 .. n OBVIOUS
<1>4. ASSUME NEW r \in 1 .. n
      PROVE  /\ r - 1 \in bits <=> r - 1 \in other
             /\ ValuesBefore(bits, r) = ValuesBefore(other, r)
  <2>1. r - 1 \in Nat /\ r - 1 < n /\ r \in 0 .. n OBVIOUS
  <2> QED BY <1>2, <2>1 DEF Agree
<1> QED BY <1>2, <1>3, <1>4 DEF BufferMeans

\* Another string behind the chars.
LEMMA BufferString ==
  ASSUME NEW n \in Nat, NEW offs, NEW chars, NEW bits, NEW list,
         BufferMeans(n, offs, chars, bits, list), NEW s \in String, ~IsLong(s)
  PROVE  BufferMeans(n + 1, Append(offs, Len(chars) + s.size), chars \o Chars(s),
                     bits \union {n}, Append(list, s))
<1> DEFINE offs2 == Append(offs, Len(chars) + s.size)
           chars2 == chars \o Chars(s)
           bits2 == bits \union {n}
           list2 == Append(list, s)
           k == Len(offs)
<1>1. /\ list \in Seq(Row) /\ Len(list) = n
      /\ offs \in Seq(Nat) /\ chars \in Seq(Char) /\ Bits(bits)
      /\ k = ValuesBefore(bits, n)
      /\ \A i \in 1 .. k : offs[i] <= Len(chars)
      /\ k = 0 => Len(chars) = 0
      /\ k > 0 => offs[k] = Len(chars)
      /\ \A r \in 1 .. n :
           IF r - 1 \in bits
             THEN /\ list[r] \in String /\ ~IsLong(list[r])
                  /\ StringAt(offs, chars, ValuesBefore(bits, r)) = Chars(list[r])
             ELSE list[r] = Null
  BY DEF BufferMeans
<1>2. k \in Nat /\ Len(chars) \in Nat BY <1>1, LenProperties
<1>3. Chars(s) \in Seq(Char) /\ Len(Chars(s)) = s.size /\ s.size \in Nat BY CharsTyped
<1>4. /\ offs2 \in Seq(Nat) /\ Len(offs2) = k + 1
      /\ \A i \in 1 .. k : offs2[i] = offs[i]
      /\ offs2[k + 1] = Len(chars) + s.size
  <2>1. Len(chars) + s.size \in Nat BY <1>2, <1>3
  <2> QED BY <1>1, <2>1, AppendProperties
<1>5. /\ chars2 \in Seq(Char) /\ Len(chars2) = Len(chars) + s.size
      /\ \A i \in 1 .. Len(chars) : chars2[i] = chars[i]
      /\ \A i \in 1 .. s.size : chars2[Len(chars) + i] = Chars(s)[i]
  <2>1. chars2 \in Seq(Char) /\ Joined(chars, Chars(s), chars2) BY <1>1, <1>3, ListsJoined
  <2> HIDE DEF chars2
  <2> QED BY <1>3, <2>1 DEF Joined
<1>6. /\ list2 \in Seq(Row) /\ Len(list2) = n + 1
      /\ \A r \in 1 .. n : list2[r] = list[r]
      /\ list2[n + 1] = s
  <2>1. s \in Row BY DEF Row
  <2> QED BY <1>1, <2>1, AppendProperties
<1>7. Bits(bits2) BY <1>1 DEF Bits
<1>8. Agree(bits, bits2, n)
  <2>1. \A b \in Nat : b < n => b # n OBVIOUS
  <2> QED BY <2>1 DEF Agree
<1>9. \A r \in 0 .. n : ValuesBefore(bits, r) = ValuesBefore(bits2, r)
  BY <1>1, <1>7, <1>8, SameCount
<1>10. ValuesBefore(bits2, n + 1) = k + 1
  <2>1. n \in bits2 /\ n \in 0 .. n OBVIOUS
  <2>2. ValuesBefore(bits2, n + 1) = ValuesBefore(bits2, n) + 1 BY <1>7, <2>1, CountNext
  <2> QED BY <1>1, <1>9, <2>1, <2>2
<1> HIDE DEF offs2, chars2, bits2, list2, k
<1>11. \A i \in 1 .. k + 1 : offs2[i] <= Len(chars2)
  <2>1. \A i \in 1 .. k + 1 : i \in 1 .. k \/ i = k + 1 BY <1>2
  <2>2. \A i \in 1 .. k : offs[i] \in Nat BY <1>1, ElementOfSeq DEF k
  <2>3. \A i \in 1 .. k : offs2[i] <= Len(chars2)
    <3> TAKE i \in 1 .. k
    <3>1. offs2[i] = offs[i] /\ offs[i] <= Len(chars) /\ offs[i] \in Nat BY <1>1, <1>4, <2>2
    <3> QED BY <1>2, <1>3, <1>5, <3>1
  <2>4. offs2[k + 1] <= Len(chars2) BY <1>2, <1>3, <1>4, <1>5
  <2> QED BY <2>1, <2>3, <2>4
\* The strings that were there.
<1>12. ASSUME NEW i \in 1 .. k PROVE StringAt(offs2, chars2, i) = StringAt(offs, chars, i)
  <2> DEFINE a == IF i = 1 THEN 0 ELSE offs[i - 1]
             b == offs[i]
  <2>1. a \in Nat /\ b \in Nat /\ b <= Len(chars)
    <3>1. i # 1 => i - 1 \in 1 .. k BY <1>2
    <3>2. \A j \in 1 .. k : offs[j] \in Nat BY <1>1, ElementOfSeq DEF k
    <3> QED BY <1>1, <3>1, <3>2
  <2>2. offs2[i] = b /\ (i # 1 => offs2[i - 1] = offs[i - 1])
    <3>1. i # 1 => i - 1 \in 1 .. k BY <1>2
    <3> QED BY <1>4, <3>1
  <2>3. /\ StringAt(offs, chars, i) = SubSeq(chars, a + 1, b)
        /\ StringAt(offs2, chars2, i) = SubSeq(chars2, a + 1, b)
    BY <2>2 DEF StringAt
  <2> HIDE DEF a, b
  <2>4. SubSeq(chars2, a + 1, b) = SubSeq(chars, a + 1, b)
    <3>1. \A j \in a + 1 .. b : j \in 1 .. Len(chars) BY <1>2, <2>1
    <3>2. \A j \in a + 1 .. b : chars[j] \in Char /\ chars2[j] = chars[j]
      BY <1>1, <1>5, <3>1, ElementOfSeq
    <3>3. a + 1 \in Int /\ b \in Int BY <2>1
    <3>4. /\ SubSeq(chars, a + 1, b) \in Seq(Char)
          /\ Len(SubSeq(chars, a + 1, b)) = IF a + 1 <= b THEN b - (a + 1) + 1 ELSE 0
          /\ \A j \in 1 .. b - (a + 1) + 1 : SubSeq(chars, a + 1, b)[j] = chars[(a + 1) + j - 1]
      BY <3>2, <3>3, SubSeqProperties
    <3>5. /\ SubSeq(chars2, a + 1, b) \in Seq(Char)
          /\ Len(SubSeq(chars2, a + 1, b)) = IF a + 1 <= b THEN b - (a + 1) + 1 ELSE 0
          /\ \A j \in 1 .. b - (a + 1) + 1 : SubSeq(chars2, a + 1, b)[j] = chars2[(a + 1) + j - 1]
      BY <3>2, <3>3, SubSeqProperties
    <3>6. ASSUME NEW j \in 1 .. Len(SubSeq(chars2, a + 1, b))
          PROVE  SubSeq(chars2, a + 1, b)[j] = SubSeq(chars, a + 1, b)[j]
      <4>1. j \in 1 .. b - (a + 1) + 1 /\ (a + 1) + j - 1 \in a + 1 .. b BY <2>1, <3>5
      <4> QED BY <3>2, <3>4, <3>5, <4>1
    <3>7. Len(SubSeq(chars2, a + 1, b)) = Len(SubSeq(chars, a + 1, b)) BY <3>4, <3>5
    <3> QED BY <3>4, <3>5, <3>6, <3>7, SeqEqual
  <2> QED BY <2>3, <2>4
\* The new one.
<1>13. StringAt(offs2, chars2, k + 1) = Chars(s)
  <2> DEFINE a == Len(chars)
             b == Len(chars) + s.size
             t == SubSeq(chars2, a + 1, b)
  <2>1. (IF k + 1 = 1 THEN 0 ELSE offs2[(k + 1) - 1]) = a
    <3>1. CASE k = 0 BY <1>1, <3>1
    <3>2. CASE k > 0
      <4>1. k \in 1 .. k /\ (k + 1) - 1 = k /\ k + 1 # 1 BY <1>2, <3>2
      <4> QED BY <1>1, <1>4, <3>2, <4>1
    <3> QED BY <1>2, <3>1, <3>2
  <2>2. StringAt(offs2, chars2, k + 1) = t BY <1>4, <2>1 DEF StringAt
  <2>3. a \in Nat /\ b \in Nat /\ b - (a + 1) + 1 = s.size BY <1>2, <1>3
  <2>4. \A j \in a + 1 .. b : chars2[j] \in Char
    <3>1. \A j \in a + 1 .. b : j \in 1 .. Len(chars2) BY <1>2, <1>3, <1>5
    <3> QED BY <1>5, <3>1, ElementOfSeq
  <2>5. /\ t \in Seq(Char)
        /\ Len(t) = IF a + 1 <= b THEN b - (a + 1) + 1 ELSE 0
        /\ \A j \in 1 .. b - (a + 1) + 1 : t[j] = chars2[(a + 1) + j - 1]
    <3>1. a + 1 \in Int /\ b \in Int BY <2>3
    <3> HIDE DEF a, b
    <3> QED BY <2>4, <3>1, SubSeqProperties
  <2>6. Len(t) = s.size BY <1>2, <1>3, <2>3, <2>5
  <2>7. ASSUME NEW j \in 1 .. s.size PROVE t[j] = Chars(s)[j]
    <3>1. (a + 1) + j - 1 = Len(chars) + j BY <1>2, <1>3
    <3>2. t[j] = chars2[(a + 1) + j - 1] BY <2>3, <2>5
    <3> HIDE DEF t, a
    <3> QED BY <1>5, <3>1, <3>2
  <2> HIDE DEF t
  <2>8. t = Chars(s) BY <1>3, <2>5, <2>6, <2>7, SeqEqual
  <2> QED BY <2>2, <2>8
<1>14. ASSUME NEW r \in 1 .. n + 1
       PROVE  IF r - 1 \in bits2
                THEN /\ list2[r] \in String /\ ~IsLong(list2[r])
                     /\ StringAt(offs2, chars2, ValuesBefore(bits2, r)) = Chars(list2[r])
                ELSE list2[r] = Null
  <2>1. CASE r = n + 1
    <3>1. r - 1 = n /\ n \in bits2 BY <2>1 DEF bits2
    <3> QED BY <1>6, <1>10, <1>13, <2>1, <3>1
  <2>2. CASE r # n + 1
    <3>1. r \in 1 .. n /\ r \in 0 .. n /\ r - 1 \in Nat /\ r - 1 < n BY <2>2
    <3>2. r - 1 \in bits <=> r - 1 \in bits2 BY <1>8, <3>1 DEF Agree
    <3>3. CASE r - 1 \in bits
      <4>1. ValuesBefore(bits, r) \in 1 .. k BY <1>1, <3>1, <3>3, CountOfRow
      <4> QED BY <1>1, <1>6, <1>9, <1>12, <3>1, <3>2, <3>3, <4>1
    <3>4. CASE r - 1 \notin bits BY <1>1, <1>6, <3>1, <3>2, <3>4
    <3> QED BY <3>3, <3>4
  <2> QED BY <2>1, <2>2
<1>15. BufferMeans(n + 1, offs2, chars2, bits2, list2)
  <2>1. k + 1 > 0 /\ k + 1 # 0 BY <1>2
  <2>2. offs2[k + 1] = Len(chars2) BY <1>4, <1>5
  <2> QED BY <1>4, <1>5, <1>6, <1>7, <1>10, <1>11, <1>14, <2>1, <2>2 DEF BufferMeans
<1> QED BY <1>15 DEF offs2, chars2, bits2, list2

\* Another NULL.
LEMMA BufferNull ==
  ASSUME NEW n \in Nat, NEW offs, NEW chars, NEW bits, NEW list,
         BufferMeans(n, offs, chars, bits, list)
  PROVE  BufferMeans(n + 1, offs, chars, bits \ {n}, Append(list, Null))
<1> DEFINE bits2 == bits \ {n}
           list2 == Append(list, Null)
<1>1. Bits(bits) /\ Bits(bits2) /\ list \in Seq(Row) /\ Len(list) = n BY DEF BufferMeans, Bits
<1>2. Agree(bits, bits2, n)
  <2>1. \A b \in Nat : b < n => b # n OBVIOUS
  <2> QED BY <2>1 DEF Agree
<1>3. BufferMeans(n, offs, chars, bits2, list) BY <1>1, <1>2, BufferBits
<1>4. ValuesBefore(bits2, n + 1) = ValuesBefore(bits2, n) BY <1>1, CountNext
<1>5. /\ list2 \in Seq(Row) /\ Len(list2) = n + 1
      /\ \A r \in 1 .. n : list2[r] = list[r]
      /\ list2[n + 1] = Null
  <2>1. Null \in Row BY DEF Row
  <2> QED BY <1>1, <2>1, AppendProperties
<1>6. n \notin bits2 OBVIOUS
<1> HIDE DEF bits2, list2
<1>7. ASSUME NEW r \in 1 .. n + 1
      PROVE  IF r - 1 \in bits2
               THEN /\ list2[r] \in String /\ ~IsLong(list2[r])
                    /\ StringAt(offs, chars, ValuesBefore(bits2, r)) = Chars(list2[r])
               ELSE list2[r] = Null
  <2>1. CASE r = n + 1
    <3>1. r - 1 = n BY <2>1
    <3> QED BY <1>5, <1>6, <2>1, <3>1
  <2>2. CASE r # n + 1
    <3>1. r \in 1 .. n BY <2>2
    <3> QED BY <1>3, <1>5, <3>1 DEF BufferMeans
  <2> QED BY <2>1, <2>2
<1>8. BufferMeans(n + 1, offs, chars, bits2, list2) BY <1>3, <1>4, <1>5, <1>7 DEF BufferMeans
<1> QED BY <1>8 DEF bits2, list2

\* A page with the contents of the buffers has their rows.
LEMMA PageFilled ==
  ASSUME NEW page, page \in GoodRowPage, page.count = Len(page.offsets), NEW list,
         BufferMeans(page.rows, page.offsets, page.chars, page.valid, list)
  PROVE  PageMeans(page, list)
<1> DEFINE n == page.rows
           d(r) == ValuesBefore(page.valid, r)
           string(r) == StringAt(page.offsets, page.chars, d(r))
<1>1. n \in Nat /\ Bits(page.valid) /\ n < LongPageNext
  BY DEF GoodRowPage, RowPage, Bits
<1>2. /\ list \in Seq(Row) /\ Len(list) = n
      /\ page.count = d(n)
      /\ \A r \in 1 .. n : IF r - 1 \in page.valid
                             THEN /\ list[r] \in String /\ ~IsLong(list[r])
                                  /\ string(r) = Chars(list[r])
                             ELSE list[r] = Null
  BY DEF BufferMeans
<1>3. d(n) \in Nat BY <1>1, BelowFinite
<1>4. \A r \in 1 .. n : r - 1 \in page.valid => d(r) \in 1 .. d(n)
  BY <1>1, CountOfRow
<1>5. \A r \in 1 .. n : r - 1 \in page.valid => list[r] # Null /\ CharsOf(list[r]) = Chars(list[r])
  BY <1>2, StringAssumption DEF CharsOf
<1>6. CopiedPage(page) = RowPieces(list)
  <2>1. CopiedPage(page) = [r \in 1 .. n |-> IF r - 1 \notin page.valid THEN Null ELSE string(r)]
    BY DEF CopiedPage, StringAt, ValuesBefore, Below
  <2>2. RowPieces(list) = [r \in 1 .. n |-> CharsOf(list[r])]
    <3>1. DOMAIN list = 1 .. n BY <1>2, LenProperties
    <3> QED BY <3>1 DEF RowPieces
  <2>3. ASSUME NEW r \in 1 .. n
        PROVE  (IF r - 1 \notin page.valid THEN Null ELSE string(r)) = CharsOf(list[r])
    <3>1. CASE r - 1 \in page.valid BY <1>2, <1>5, <3>1
    <3>2. CASE r - 1 \notin page.valid BY <1>2, <3>2 DEF CharsOf
    <3> QED BY <3>1, <3>2
  <2> HIDE DEF string
  <2> QED BY <2>1, <2>2, <2>3
<1>7. ASSUME NEW p \in Nat, NEW r \in 1 .. n
      PROVE  IF list[r] = Null THEN PageRefs(page, p)[r] = Null
             ELSE /\ ~IsLong(list[r])
                  /\ PageRefs(page, p)[r] \in Reference
                  /\ PageRefs(page, p)[r].page_idx = p
                  /\ ShortString(page, PageRefs(page, p)[r].slot_idx) = Chars(list[r])
  <2>1. n # LongPage /\ n # LongPageNext BY <1>1, StringAssumption
  <2>2. PageRefs(page, p)[r] = IF r - 1 \in page.valid
                                 THEN [page_idx |-> p, slot_idx |-> d(r) - 1] ELSE Null
    BY <2>1 DEF PageRefs, ValuesBefore, Below
  <2>3. CASE r - 1 \notin page.valid BY <1>2, <2>2, <2>3
  <2>4. CASE r - 1 \in page.valid
    <3> DEFINE slot == d(r) - 1
    <3>1. /\ slot \in Nat /\ ~(slot >= page.count) /\ slot + 1 = d(r)
          /\ slot = 0 <=> d(r) = 1
      BY <1>2, <1>3, <1>4, <2>4
    <3>2. ShortString(page, slot) = string(r)
      <4> HIDE DEF d
      <4> QED BY <3>1 DEF ShortString, StringAt
    <3>3. [page_idx |-> p, slot_idx |-> slot] \in Reference
      <4> HIDE DEF slot
      <4> QED BY <3>1 DEF Reference
    <3> HIDE DEF string, d
    <3> QED BY <1>2, <1>5, <2>2, <2>4, <3>2, <3>3
  <2> QED BY <2>3, <2>4
<1> QED BY <1>2, <1>6, <1>7 DEF PageMeans

\* The rows of the column so far: those of the saved pages, and behind them
\* those of the buffers.
RowInv ==
  \E saved, rest \in Seq(Row) :
    /\ inserted = saved \o rest
    /\ Reads(pages, saved)
    /\ BufferMeans(num_rows, offsets, data, bitmap, rest)

\* save_page saves the rows of the buffers.
LEMMA SavedMeans ==
  ASSUME IInv, NEW list, BufferMeans(num_rows, offsets, data, bitmap, list)
  PROVE  PageMeans(SavedPage, list)
<1> DEFINE bytes == BitmapBytes(num_rows)
           valid == {b \in bitmap : b < bytes * BitsPerByte}
<1>1. SavedPage \in GoodRowPage BY SavedTyped
<1>2. /\ SavedPage.rows = num_rows /\ SavedPage.offsets = offsets
      /\ SavedPage.valid = valid /\ SavedPage.count = (offset_end - 4) \div 2
  BY DEF SavedPage
<1>3. SavedPage.chars = data BY SavedChars
<1>4. SavedPage.count = Len(offsets)
  <2>1. Len(offsets) \in Nat BY Types, LenProperties
  <2>2. offset_end - 4 = 2 * Len(offsets) BY <2>1 DEF offset_end
  <2>3. (2 * Len(offsets)) \div 2 = Len(offsets) BY <2>1
  <2> QED BY <1>2, <2>2, <2>3
<1>5. Bits(valid) /\ Agree(bitmap, valid, num_rows)
  <2>1. num_rows \in Nat /\ bytes \in Nat /\ num_rows <= BitsPerByte * bytes
    BY Types, BitmapCovers
  <2>2. BitsPerByte * bytes = bytes * BitsPerByte /\ bytes * BitsPerByte \in Nat
    <3> HIDE DEF bytes
    <3> QED BY <2>1, SizeAssumption
  <2>3. \A b \in Nat : b < num_rows => b < bytes * BitsPerByte
    <3> DEFINE m == bytes * BitsPerByte
    <3>1. m \in Nat /\ num_rows <= m /\ num_rows \in Nat BY <2>1, <2>2
    <3> HIDE DEF m
    <3>2. \A b \in Nat : b < num_rows => b < m BY <3>1
    <3> QED BY <3>2 DEF m
  <2> QED BY <2>3, Types DEF Bits, Agree
<1>6. BufferMeans(num_rows, offsets, data, valid, list)
  <2> HIDE DEF valid
  <2> QED BY <1>5, Types, BufferBits
<1> HIDE DEF valid
<1> QED BY <1>1, <1>2, <1>3, <1>4, <1>6, PageFilled

LEMMA Flushes ==
  ASSUME IInv, NEW saved, NEW rest, Reads(pages, saved),
         BufferMeans(num_rows, offsets, data, bitmap, rest), num_rows # 0
  PROVE  Reads(Append(pages, SavedPage), saved \o rest)
<1>1. PageMeans(SavedPage, rest) BY SavedMeans
<1>2. Len(rest) # 0 BY DEF BufferMeans
<1>3. rest # <<>> BY <1>2
<1> QED BY <1>1, <1>3, ReadsOrdinary

\* Without rows the buffers are empty, and a short string or a NULL fits.
LEMMA RoomWhenEmpty ==
  ASSUME IInv, NEW rest, BufferMeans(num_rows, offsets, data, bitmap, rest), num_rows = 0
  PROVE  /\ rest = <<>> /\ data = <<>> /\ offsets = <<>>
         /\ NullFits
         /\ \A s \in String : ~IsLong(s) => StringFits(s)
<1>1. /\ rest \in Seq(Row) /\ Len(rest) = 0
      /\ Len(offsets) = ValuesBefore(bitmap, 0) /\ Bits(bitmap)
      /\ Len(offsets) = 0 => Len(data) = 0
  BY DEF BufferMeans
<1>2. Len(offsets) = 0 /\ Len(data) = 0 BY <1>1, CountNone
<1>3. rest = <<>> /\ data = <<>> /\ offsets = <<>> BY <1>1, <1>2, Types, EmptySeq
<1>4. offset_end = 4 /\ data_size = 0 BY <1>2 DEF offset_end, data_size
<1>5. num_rows \div BitsPerByte = 0
  <2>1. BitsPerByte * 0 = 0 BY SizeAssumption
  <2> QED BY <2>1, SizeAssumption, Quotient
<1>6. NullFits BY <1>4, <1>5, SizeAssumption, StringAssumption DEF NullFits, HasRoom
<1>7. ASSUME NEW s \in String, ~IsLong(s) PROVE StringFits(s)
  <2>1. 4 + 2 + s.size <= PageSize - 1 /\ s.size \in Nat BY <1>7, ShortFits, StringAssumption
  <2> QED BY <1>4, <1>5, <2>1, SizeAssumption DEF StringFits, HasRoom
<1> QED BY <1>3, <1>6, <1>7

LEMMA RowsGrow ==
  ASSUME NEW saved \in Seq(Row), NEW rest \in Seq(Row), NEW row \in Row
  PROVE  /\ Append(saved \o rest, row) = saved \o Append(rest, row)
         /\ Append(rest, row) \in Seq(Row) /\ saved \o rest \in Seq(Row)
         /\ Append(saved \o rest, row) = (saved \o rest) \o Append(<<>>, row)
         /\ Append(saved \o rest, row) \in Seq(Row)
         /\ Append(saved \o rest, row) = Append(saved \o rest, row) \o <<>>
         /\ Append(<<>>, row) \in Seq(Row)
<1>1. saved \o rest \in Seq(Row) /\ <<>> \in Seq(Row) BY Concatenation, EmptySeq
<1>2. /\ Append(rest, row) \in Seq(Row) /\ Append(saved \o rest, row) \in Seq(Row)
      /\ Append(<<>>, row) \in Seq(Row)
  BY <1>1, AppendProperties
<1>3. /\ Append(rest, row) = rest \o <<row>>
      /\ Append(saved \o rest, row) = (saved \o rest) \o <<row>>
      /\ Append(<<>>, row) = <<>> \o <<row>> /\ <<row>> \in Seq(Row)
  BY <1>1, AppendIsConcat
<1>4. (saved \o rest) \o <<row>> = saved \o (rest \o <<row>>) BY <1>3, ConcatAssociative
<1>5. <<>> \o <<row>> = <<row>> BY <1>3, ConcatEmptySeq
<1>6. Append(saved \o rest, row) \o <<>> = Append(saved \o rest, row) BY <1>2, ConcatEmptySeq
<1> QED BY <1>1, <1>2, <1>3, <1>4, <1>5, <1>6

-----------------------------------------------------------------------------
(* Both writers keep the rows.                                             *)

LEMMA InitRows == Init => RowInv
<1> SUFFICES ASSUME Init PROVE RowInv
  OBVIOUS
<1>1. Reads(pages, <<>>) BY ReadsEmpty DEF Init
<1>2. BufferMeans(num_rows, offsets, data, bitmap, <<>>)
  <2>1. Bits(bitmap) BY DEF Init, Bits
  <2> QED BY <2>1, BufferEmpty DEF Init
<1>3. inserted = <<>> \o <<>> /\ <<>> \in Seq(Row) BY EmptySeq, ConcatEmptySeq DEF Init
<1> QED BY <1>1, <1>2, <1>3 DEF RowInv

LEMMA RowInvNext ==
  ASSUME NEW saved \in Seq(Row), NEW rest \in Seq(Row),
         inserted' = saved \o rest, Reads(pages', saved),
         BufferMeans(num_rows', offsets', data', bitmap', rest)
  PROVE  RowInv'
BY DEF RowInv

LEMMA ShortKeepsRows ==
  ASSUME IInv, RowInv, NEW s \in String, ~IsLong(s), StringFits(s),
         data' = data \o Chars(s),
         offsets' = Append(offsets, data_size + s.size),
         bitmap' = bitmap \union {num_rows},
         num_rows' = num_rows + 1,
         pages' = pages,
         inserted' = Append(inserted, s)
  PROVE  RowInv'
<1>1. PICK saved \in Seq(Row), rest \in Seq(Row) :
        /\ inserted = saved \o rest
        /\ Reads(pages, saved)
        /\ BufferMeans(num_rows, offsets, data, bitmap, rest)
  BY DEF RowInv
<1>2. s \in Row BY DEF Row
<1>3. BufferMeans(num_rows', offsets', data', bitmap', Append(rest, s))
  BY <1>1, Types, BufferString DEF data_size
<1>4. inserted' = saved \o Append(rest, s) /\ Append(rest, s) \in Seq(Row)
  BY <1>1, <1>2, RowsGrow
<1> QED BY <1>1, <1>3, <1>4, RowInvNext

\* The page is saved, and the string or the NULL is the first row of the next.
LEMMA FreshKeepsRows ==
  ASSUME IInv, RowInv, NEW row \in Row, NEW bits, Bits(bits), num_rows # 0,
         pages' = Append(pages, SavedPage),
         num_rows' = 1,
         inserted' = Append(inserted, row),
         \/ /\ row \in String /\ ~IsLong(row)
            /\ data' = Chars(row) /\ offsets' = <<row.size>> /\ bitmap' = bits \union {0}
         \/ /\ row = Null
            /\ data' = <<>> /\ offsets' = <<>> /\ bitmap' = bits \ {0}
  PROVE  RowInv'
<1>1. PICK saved \in Seq(Row), rest \in Seq(Row) :
        /\ inserted = saved \o rest
        /\ Reads(pages, saved)
        /\ BufferMeans(num_rows, offsets, data, bitmap, rest)
  BY DEF RowInv
<1>2. Reads(pages', saved \o rest) BY <1>1, Flushes
<1>3. BufferMeans(num_rows', offsets', data', bitmap', Append(<<>>, row))
  <2>1. BufferMeans(0, <<>>, <<>>, bits, <<>>) BY BufferEmpty
  <2>2. CASE row \in String
    <3>1. row # Null BY <2>2, StringAssumption
    <3>2. /\ ~IsLong(row) /\ data' = Chars(row) /\ offsets' = <<row.size>>
          /\ bitmap' = bits \union {0}
      BY <3>1
    <3>3. BufferMeans(0 + 1, Append(<<>>, Len(<<>>) + row.size), <<>> \o Chars(row),
                      bits \union {0}, Append(<<>>, row))
      BY <2>1, <2>2, <3>2, BufferString
    <3>4. <<>> \o Chars(row) = Chars(row) BY <2>2, CharsTyped, ConcatEmptySeq
    <3>5. Append(<<>>, Len(<<>>) + row.size) = <<row.size>>
      <4>1. row.size \in Nat BY <2>2, CharsTyped
      <4>2. Len(<<>>) + row.size = row.size BY <4>1
      <4> QED BY <4>2
    <3>6. 0 + 1 = 1 OBVIOUS
    <3> QED BY <3>2, <3>3, <3>4, <3>5, <3>6
  <2>3. CASE row = Null
    <3>1. Null \notin String BY StringAssumption
    <3>2. data' = <<>> /\ offsets' = <<>> /\ bitmap' = bits \ {0} BY <2>3, <3>1
    <3>3. BufferMeans(0 + 1, <<>>, <<>>, bits \ {0}, Append(<<>>, Null)) BY <2>1, BufferNull
    <3>4. 0 + 1 = 1 OBVIOUS
    <3> QED BY <2>3, <3>2, <3>3, <3>4
  <2> QED BY <2>2, <2>3 DEF Row
<1>4. /\ inserted' = (saved \o rest) \o Append(<<>>, row)
      /\ saved \o rest \in Seq(Row) /\ Append(<<>>, row) \in Seq(Row)
  BY <1>1, RowsGrow
<1> QED BY <1>2, <1>3, <1>4, RowInvNext

LEMMA NullKeepsRows ==
  ASSUME IInv, RowInv,
         bitmap' = bitmap \ {num_rows},
         num_rows' = num_rows + 1,
         UNCHANGED <<pages, data, offsets>>,
         inserted' = Append(inserted, Null)
  PROVE  RowInv'
<1>1. PICK saved \in Seq(Row), rest \in Seq(Row) :
        /\ inserted = saved \o rest
        /\ Reads(pages, saved)
        /\ BufferMeans(num_rows, offsets, data, bitmap, rest)
  BY DEF RowInv
<1>2. Null \in Row BY DEF Row
<1>3. BufferMeans(num_rows', offsets', data', bitmap', Append(rest, Null))
  BY <1>1, Types, BufferNull
<1>4. inserted' = saved \o Append(rest, Null) /\ Append(rest, Null) \in Seq(Row)
  BY <1>1, <1>2, RowsGrow
<1> QED BY <1>1, <1>3, <1>4, RowInvNext

\* The rows so far are saved and a long string behind them, or none.
LEMMA FlushKeepsRows ==
  ASSUME IInv, RowInv, NEW column,
         pages' = (IF num_rows > 0 THEN Append(pages, SavedPage) ELSE pages) \o column,
         num_rows' = 0, data' = <<>>, offsets' = <<>>, Bits(bitmap'),
         \/ column = <<>> /\ inserted' = inserted
         \/ \E s \in String : IsLong(s) /\ column = LongPages(s) /\ inserted' = Append(inserted, s)
  PROVE  RowInv'
<1>1. PICK saved \in Seq(Row), rest \in Seq(Row) :
        /\ inserted = saved \o rest
        /\ Reads(pages, saved)
        /\ BufferMeans(num_rows, offsets, data, bitmap, rest)
  BY DEF RowInv
<1> DEFINE front == IF num_rows > 0 THEN Append(pages, SavedPage) ELSE pages
<1>2. Reads(front, inserted)
  <2>1. CASE num_rows > 0 BY <1>1, <2>1, Types, Flushes
  <2>2. CASE ~(num_rows > 0)
    <3>1. num_rows = 0 BY <2>2, Types
    <3>2. rest = <<>> BY <1>1, <3>1, RoomWhenEmpty
    <3>3. inserted = saved BY <1>1, <3>2, ConcatEmptySeq
    <3> QED BY <1>1, <2>2, <3>3
  <2> QED BY <2>1, <2>2
<1>3. BufferMeans(num_rows', offsets', data', bitmap', <<>>) BY BufferEmpty
<1>4. pages' = front \o column OBVIOUS
<1> HIDE DEF front
<1>5. inserted \in Seq(Row) /\ front \in Seq(AnyPage) BY <1>2 DEF Reads
<1>6. inserted' \in Seq(Row) /\ Reads(pages', inserted')
  <2>1. CASE column = <<>> /\ inserted' = inserted
    <3>1. front \o <<>> = front BY <1>5, ConcatEmptySeq
    <3> QED BY <1>2, <1>4, <1>5, <2>1, <3>1
  <2>2. ASSUME NEW s \in String, IsLong(s), column = LongPages(s), inserted' = Append(inserted, s)
        PROVE  inserted' \in Seq(Row) /\ Reads(pages', inserted')
    <3>1. Reads(front \o LongPages(s), Append(inserted, s)) BY <1>2, <2>2, ReadsLong
    <3>2. Append(inserted, s) \in Seq(Row) BY <3>1 DEF Reads
    <3> QED BY <1>4, <2>2, <3>1, <3>2
  <2> QED BY <2>1, <2>2
<1>7. inserted' = inserted' \o <<>> /\ <<>> \in Seq(Row) BY <1>6, ConcatEmptySeq, EmptySeq
<1> QED BY <1>3, <1>6, <1>7, RowInvNext


LEMMA InserterKeepsRows ==
  ASSUME IInv, RowInv, [Next]_vars
  PROVE  RowInv'
<1>1. PICK saved \in Seq(Row), rest \in Seq(Row) :
        BufferMeans(num_rows, offsets, data, bitmap, rest)
  BY DEF RowInv
<1>2. Bits(bitmap) /\ num_rows \in Nat BY Types DEF Bits
<1>3. Null \in Row /\ \A s \in String : s \in Row BY DEF Row
<1>4. ASSUME NEW s \in String, InsertShort(s) PROVE RowInv'
  <2>1. CASE StringFits(s) BY <1>4, <2>1, ShortKeepsRows DEF InsertShort
  <2>2. CASE ~StringFits(s)
    <3>1. num_rows # 0 BY <1>1, <1>4, <2>2, RoomWhenEmpty DEF InsertShort
    <3> QED BY <1>2, <1>3, <1>4, <2>2, <3>1, FreshKeepsRows DEF InsertShort
  <2> QED BY <2>1, <2>2
<1>5. ASSUME NEW s \in String, InsertLong(s) PROVE RowInv'
  <2>1. num_rows' = 0 /\ data' = <<>> /\ offsets' = <<>>
    <3>1. CASE num_rows > 0 BY <1>5, <3>1 DEF InsertLong
    <3>2. CASE ~(num_rows > 0)
      <4>1. num_rows = 0 BY <1>2, <3>2
      <4> QED BY <1>1, <1>5, <3>2, <4>1, RoomWhenEmpty DEF InsertLong
    <3> QED BY <3>1, <3>2
  <2>2. Bits(bitmap') BY <1>2, <1>5 DEF InsertLong
  <2> QED BY <1>5, <2>1, <2>2, FlushKeepsRows DEF InsertLong
<1>6. CASE InsertNull
  <2>1. CASE NullFits BY <1>6, <2>1, NullKeepsRows DEF InsertNull
  <2>2. CASE ~NullFits
    <3>1. num_rows # 0 BY <1>1, <2>2, RoomWhenEmpty
    <3> QED BY <1>2, <1>3, <1>6, <2>2, <3>1, FreshKeepsRows DEF InsertNull
  <2> QED BY <2>1, <2>2
<1>7. CASE Finalize
  <2>1. num_rows' = 0 /\ data' = <<>> /\ offsets' = <<>>
    <3>1. CASE num_rows # 0 BY <1>7, <3>1 DEF Finalize
    <3>2. CASE num_rows = 0 BY <1>1, <1>7, <3>2, RoomWhenEmpty DEF Finalize
    <3> QED BY <3>1, <3>2
  <2>2. pages' = (IF num_rows > 0 THEN Append(pages, SavedPage) ELSE pages) \o <<>>
    <3>1. num_rows # 0 <=> num_rows > 0 BY <1>2
    <3>2. pages \o <<>> = pages /\ Append(pages, SavedPage) \o <<>> = Append(pages, SavedPage)
      BY SavedTyped DEF IInv
    <3> QED BY <1>7, <3>1, <3>2 DEF Finalize
  <2>3. Bits(bitmap') /\ inserted' = inserted BY <1>2, <1>7 DEF Finalize
  <2> QED BY <2>1, <2>2, <2>3, FlushKeepsRows
<1>8. CASE UNCHANGED vars BY <1>8 DEF vars, RowInv
<1> QED BY <1>4, <1>5, <1>6, <1>7, <1>8 DEF Next

\* to_columnar's flush, with the pages of the long string that follows or none.
LEMMA FlushedKeepsRows ==
  ASSUME IInv, RowInv, NEW column, FlushTable(column),
         \/ column = <<>> /\ inserted' = inserted
         \/ \E s \in String : IsLong(s) /\ column = LongPages(s) /\ inserted' = Append(inserted, s)
  PROVE  RowInv'
<1>1. PICK saved \in Seq(Row), rest \in Seq(Row) :
        BufferMeans(num_rows, offsets, data, bitmap, rest)
  BY DEF RowInv
<1>2. Bits(bitmap) /\ Bits({}) /\ num_rows \in Nat BY Types DEF Bits
<1>3. /\ num_rows' = 0 /\ data' = <<>> /\ offsets' = <<>> /\ Bits(bitmap')
      /\ pages' = (IF num_rows > 0 THEN Append(pages, SavedPage) ELSE pages) \o column
  <2>1. CASE num_rows > 0 BY <1>2, <2>1 DEF FlushTable
  <2>2. CASE ~(num_rows > 0)
    <3>1. num_rows = 0 BY <1>2, <2>2
    <3> QED BY <1>1, <1>2, <2>2, <3>1, RoomWhenEmpty DEF FlushTable
  <2> QED BY <2>1, <2>2
<1> QED BY <1>3, FlushKeepsRows

LEMMA TableKeepsRows ==
  ASSUME IInv, RowInv, [TableNext]_vars
  PROVE  RowInv'
<1>1. PICK saved \in Seq(Row), rest \in Seq(Row) :
        BufferMeans(num_rows, offsets, data, bitmap, rest)
  BY DEF RowInv
<1>2. Bits({}) /\ {0} = {} \union {0} /\ {} = {} \ {0} BY DEF Bits
<1>3. Null \in Row /\ \A s \in String : s \in Row BY DEF Row
<1>4. ASSUME NEW s \in String, TableShort(s) PROVE RowInv'
  <2>1. CASE StringFits(s) BY <1>4, <2>1, ShortKeepsRows DEF TableShort
  <2>2. CASE ~StringFits(s)
    <3>1. num_rows # 0 BY <1>1, <1>4, <2>2, RoomWhenEmpty DEF TableShort
    <3> QED BY <1>2, <1>3, <1>4, <2>2, <3>1, FreshKeepsRows DEF TableShort
  <2> QED BY <2>1, <2>2
<1>5. ASSUME NEW s \in String, TableLong(s) PROVE RowInv'
  BY <1>5, FlushedKeepsRows DEF TableLong
<1>6. CASE TableNull
  <2>1. CASE NullFits BY <1>6, <2>1, NullKeepsRows DEF TableNull
  <2>2. CASE ~NullFits
    <3>1. num_rows # 0 BY <1>1, <2>2, RoomWhenEmpty
    <3> QED BY <1>2, <1>3, <1>6, <2>2, <3>1, FreshKeepsRows DEF TableNull
  <2> QED BY <2>1, <2>2
<1>7. CASE TableFinish BY <1>7, FlushedKeepsRows DEF TableFinish
<1>8. CASE UNCHANGED vars BY <1>8 DEF vars, RowInv
<1> QED BY <1>4, <1>5, <1>6, <1>7, <1>8 DEF TableNext

\* What ReadersReturnRows says of the column as it would be finalised.
LEMMA RowsReturned ==
  ASSUME IInv, RowInv
  PROVE  ReadersReturnRows
<1>1. PICK saved \in Seq(Row), rest \in Seq(Row) :
        /\ inserted = saved \o rest
        /\ Reads(pages, saved)
        /\ BufferMeans(num_rows, offsets, data, bitmap, rest)
  BY DEF RowInv
<1>2. Reads(Column, inserted)
  <2>1. CASE num_rows = 0
    <3>1. rest = <<>> BY <1>1, <2>1, RoomWhenEmpty
    <3>2. inserted = saved BY <1>1, <3>1, ConcatEmptySeq
    <3> QED BY <1>1, <2>1, <3>2 DEF Column
  <2>2. CASE num_rows # 0 BY <1>1, <2>2, Flushes DEF Column
  <2> QED BY <2>1, <2>2
<1> DEFINE column == Column
           refs == ScanRefs(column)
           read(r) == IF refs[r] = Null THEN Null ELSE Resolve(column, refs[r])
           row(r) == IF inserted[r] = Null THEN Null
                     ELSE IF IsLong(inserted[r]) THEN LongRun(r)
                     ELSE Chars(inserted[r])
<1>3. \A r \in DOMAIN inserted : RowRun(inserted, r) = LongRun(r)
  BY DEF RowRun, RowPieces, RowLongs, LongRun
<1>4. /\ CopiedRows(column) = [r \in DOMAIN inserted |-> CharsOf(inserted[r])]
      /\ DOMAIN refs = DOMAIN inserted
      /\ \A r \in DOMAIN inserted : read(r) = row(r)
  <2>1. Reads(column, inserted) BY <1>2
  <2> HIDE DEF column
  <2> QED BY <1>3, <2>1, ReadsAll
<1>5. RowsRead = [r \in DOMAIN refs |-> read(r)] BY DEF RowsRead
<1> HIDE DEF refs, read, row
<1>6. RowsRead = [r \in DOMAIN inserted |-> row(r)] BY <1>4, <1>5
<1> QED BY <1>4, <1>6 DEF ReadersReturnRows, ReadsBackLongRuns, row

\* Whatever strings and NULLs are inserted, long ones in any order: from_columnar
\* returns every row as it was inserted, and the scan and the resolver return
\* every row but a long string followed by another.
THEOREM StringsReadBack == Spec => []ReadersReturnRows
<1>1. IInv /\ RowInv /\ [Next]_vars => (IInv /\ RowInv)' BY InserterStep, InserterKeepsRows
<1>2. IInv /\ RowInv => ReadersReturnRows BY RowsReturned
<1>3. Init => IInv /\ RowInv BY InitIInv, InitRows
<1> QED BY <1>1, <1>2, <1>3, PTL DEF Spec

\* The same for every column Table::to_columnar builds.
THEOREM TableStringsReadBack == TableSpec => []ReadersReturnRows
<1>1. IInv /\ RowInv /\ [TableNext]_vars => (IInv /\ RowInv)' BY TableStep, TableKeepsRows
<1>2. IInv /\ RowInv => ReadersReturnRows BY RowsReturned
<1>3. Init => IInv /\ RowInv BY InitIInv, InitRows
<1> QED BY <1>1, <1>2, <1>3, PTL DEF TableSpec
=============================================================================
