-------------------------- MODULE PageWriterProofs --------------------------
(* For every page size and value size: no writer of fixed-length values       *)
(* writes one where the bitmap goes, and the column reads back as the rows     *)
(* inserted; to_columnar always, the inserter as long as its guard reserves a  *)
(* whole value.                                                               *)
EXTENDS TableWriter, PagesProofs, FiniteSetTheorems

-----------------------------------------------------------------------------
(* The bytes of a bitmap.                                                  *)

\* The bitmap of n + 1 rows has n / 8 + 1 bytes, as the guards write it.
LEMMA BitmapGrows ==
  ASSUME NEW n \in Nat
  PROVE  BitmapBytes(n + 1) = n \div BitsPerByte + 1
BY SizeAssumption, RoundUpNext DEF BitmapBytes

LEMMA BitmapSmall == BitmapBytes(0) = 0 /\ BitmapBytes(1) = 1
BY SizeAssumption, RoundUpSmall DEF BitmapBytes

\* A bitmap has room for its rows.
LEMMA BitmapCovers ==
  ASSUME NEW n \in Nat
  PROVE  BitmapBytes(n) \in Nat /\ n <= BitsPerByte * BitmapBytes(n)
BY SizeAssumption, RoundUp DEF BitmapBytes

\* A page that was just started has room for a first value or a first NULL.
LEMMA FreshPage ==
  /\ DataBegin \in Nat
  /\ DataBegin <= PageSize
  /\ DataBegin + ValueSize <= PageSize - 1
BY SizeAssumption, WriterAssumption DEF DataBegin

\* The inductive invariant: types, the values in front of the bitmap, and the
\* first free byte right behind the values, which ties the bytes to the values.
CellsPlaced == data_end = DataBegin + ValueSize * Len(cells)

IInv == TypeOK /\ LayoutDisjoint /\ CellsPlaced

SavedPages == [rows : Nat, count : Nat, data : Seq(Value), valid : SUBSET Nat]

\* Where a value ends, however many there are.
LEMMA CellEnd ==
  ASSUME NEW n \in Nat, NEW k \in 1 .. n
  PROVE  /\ ValueSize * k \in Nat /\ ValueSize * n \in Nat
         /\ k * ValueSize = ValueSize * k
         /\ ValueSize * k <= ValueSize * n
BY TimesMonotonic, WriterAssumption

\* save_page writes a page whose values are the ones inserted.
LEMMA SavedTyped ==
  ASSUME IInv
  PROVE  SavedPage \in SavedPages
<1> USE DEF IInv, TypeOK
<1> DEFINE bytes == BitmapBytes(num_rows)
           intact(k) == DataBegin + k * ValueSize <= PageSize - bytes
<1>1. bytes \in Nat BY BitmapCovers
<1>2. Len(cells) \in Nat /\ DOMAIN cells = 1 .. Len(cells) BY DEF TypeOK
<1>3. (data_end - DataBegin) \div ValueSize \in Nat
  <2>1. ValueSize * Len(cells) \in Nat BY <1>2, WriterAssumption
  <2>2. data_end - DataBegin \in Nat BY <2>1, FreshPage DEF CellsPlaced
  <2> QED BY <2>2, WriterAssumption, QuotientBounds
<1>4. ASSUME NEW k \in DOMAIN cells PROVE intact(k)
  BY <1>1, <1>2, <1>4, CellEnd, FreshPage, SizeAssumption DEF CellsPlaced, LayoutDisjoint
<1>5. [k \in DOMAIN cells |-> IF intact(k) THEN cells[k] ELSE Garbage] = cells
  <2>1. [k \in DOMAIN cells |-> IF intact(k) THEN cells[k] ELSE Garbage]
          = [k \in DOMAIN cells |-> cells[k]]
    BY <1>4
  <2>2. cells = [k \in DOMAIN cells |-> cells[k]] BY DEF TypeOK
  <2> QED BY <2>1, <2>2
<1>6. {b \in bitmap : b < bytes * BitsPerByte} \in SUBSET Nat
  <2>1. bitmap \subseteq Nat BY DEF TypeOK
  <2> HIDE DEF IInv, TypeOK
  <2> QED BY <2>1
<1>7. cells \in Seq(Value) /\ num_rows \in Nat BY DEF TypeOK
<1> QED BY <1>3, <1>5, <1>6, <1>7 DEF SavedPage, SavedPages

LEMMA InitIInv == Init => IInv
<1> SUFFICES ASSUME Init PROVE IInv
  OBVIOUS
<1>1. TypeOK
  <2>1. bitmap \subseteq Nat BY Zenon DEF Init
  <2>2. cells \in Seq(Value) BY DEF Init
  <2>3. num_rows \in Nat /\ data_end \in Nat /\ finished \in BOOLEAN
    BY FreshPage DEF Init
  <2>4. pages \in Seq(SavedPages) BY DEF Init
  <2> QED BY <2>1, <2>2, <2>3, <2>4 DEF TypeOK, SavedPages
<1>2. BitmapBytes(num_rows) = 0 BY BitmapSmall DEF Init
<1>3. LayoutDisjoint BY <1>2, FreshPage, SizeAssumption DEF Init, LayoutDisjoint
<1>4. CellsPlaced BY FreshPage, WriterAssumption DEF Init, CellsPlaced
<1> QED BY <1>1, <1>3, <1>4 DEF IInv

\* The pages after a save, and after none.
LEMMA PagesTyped ==
  ASSUME IInv, pages' = Append(pages, SavedPage) \/ pages' = pages
  PROVE  pages' \in Seq(SavedPages)
<1>1. pages \in Seq(SavedPages) BY DEF IInv, TypeOK, SavedPages
<1>2. SavedPage \in SavedPages BY SavedTyped
<1> QED BY <1>1, <1>2

\* What the two writers' steps do, by what they leave.  One more value, when a
\* whole value fits.
LEMMA ValueAdded ==
  ASSUME IInv, NEW value \in Value,
         HasRoom(data_end + ValueSize, num_rows),
         data_end' = data_end + ValueSize,
         cells' = Append(cells, value),
         num_rows' = num_rows + 1,
         bitmap' = bitmap \union {num_rows},
         pages' = pages,
         finished' = finished
  PROVE  IInv'
<1>1. /\ num_rows \in Nat /\ data_end \in Nat /\ bitmap \subseteq Nat
      /\ cells \in Seq(Value) /\ finished \in BOOLEAN
  BY DEF IInv, TypeOK
<1>2. pages' \in Seq(SavedPages) BY PagesTyped
<1>3. TypeOK' BY <1>1, <1>2, WriterAssumption DEF TypeOK, SavedPages
<1>4. BitmapBytes(num_rows') = num_rows \div BitsPerByte + 1 BY <1>1, BitmapGrows
<1>5. num_rows \div BitsPerByte \in Nat BY <1>1, SizeAssumption, QuotientBounds
<1>6. LayoutDisjoint'
  BY <1>1, <1>4, <1>5, SizeAssumption, WriterAssumption DEF LayoutDisjoint, HasRoom
<1>7. CellsPlaced'
  <2>1. Len(cells') = Len(cells) + 1 /\ Len(cells) \in Nat BY <1>1
  <2>2. ValueSize * (Len(cells) + 1) = ValueSize * Len(cells) + ValueSize
    BY <2>1, WriterAssumption
  <2>3. ValueSize * Len(cells) \in Nat BY <2>1, WriterAssumption
  <2> QED BY <2>1, <2>2, <2>3, FreshPage, WriterAssumption DEF IInv, CellsPlaced, DataBegin
<1> QED BY <1>3, <1>6, <1>7 DEF IInv

\* The page is saved and the value is the first of the next one.
LEMMA ValueOnFreshPage ==
  ASSUME IInv, NEW value \in Value,
         pages' = Append(pages, SavedPage),
         data_end' = DataBegin + ValueSize,
         cells' = <<value>>,
         num_rows' = 1,
         bitmap' \subseteq Nat,
         finished' = finished
  PROVE  IInv'
<1>1. pages' \in Seq(SavedPages) BY PagesTyped
<1>2. finished \in BOOLEAN BY DEF IInv, TypeOK
<1>3. TypeOK' BY <1>1, <1>2, FreshPage, WriterAssumption DEF TypeOK, SavedPages
<1>4. LayoutDisjoint'
  BY FreshPage, BitmapSmall, SizeAssumption, WriterAssumption DEF LayoutDisjoint
<1>5. CellsPlaced' BY FreshPage, WriterAssumption DEF CellsPlaced, DataBegin
<1> QED BY <1>3, <1>4, <1>5 DEF IInv

\* One more NULL on the page.
LEMMA NullAdded ==
  ASSUME IInv,
         HasRoom(data_end, num_rows),
         num_rows' = num_rows + 1,
         bitmap' = bitmap \ {num_rows},
         UNCHANGED <<pages, data_end, cells, finished>>
  PROVE  IInv'
<1>1. /\ num_rows \in Nat /\ data_end \in Nat /\ bitmap \subseteq Nat
      /\ cells \in Seq(Value) /\ finished \in BOOLEAN
  BY DEF IInv, TypeOK
<1>2. pages' \in Seq(SavedPages) BY PagesTyped
<1>3. TypeOK' BY <1>1, <1>2 DEF TypeOK, SavedPages
<1>4. BitmapBytes(num_rows') = num_rows \div BitsPerByte + 1 BY <1>1, BitmapGrows
<1>5. num_rows \div BitsPerByte \in Nat BY <1>1, SizeAssumption, QuotientBounds
<1>6. LayoutDisjoint' BY <1>1, <1>4, <1>5, SizeAssumption DEF LayoutDisjoint, HasRoom
<1>7. CellsPlaced' BY DEF IInv, CellsPlaced, DataBegin
<1> QED BY <1>3, <1>6, <1>7 DEF IInv

\* The page is saved; the next one holds a NULL or nothing yet.
LEMMA FreshPageStarted ==
  ASSUME IInv,
         pages' = Append(pages, SavedPage),
         data_end' = DataBegin,
         cells' = <<>>,
         num_rows' \in {0, 1},
         bitmap' \subseteq Nat,
         finished' \in BOOLEAN
  PROVE  IInv'
<1>1. pages' \in Seq(SavedPages) BY PagesTyped
<1>2. TypeOK' BY <1>1, FreshPage DEF TypeOK, SavedPages
<1>3. BitmapBytes(num_rows') \in {0, 1} BY BitmapSmall
<1>4. LayoutDisjoint'
  BY <1>3, FreshPage, SizeAssumption, WriterAssumption DEF LayoutDisjoint
<1>5. CellsPlaced' BY FreshPage, WriterAssumption DEF CellsPlaced, DataBegin
<1> QED BY <1>2, <1>4, <1>5 DEF IInv

\* Nothing but `finished' changes.
LEMMA PageKept ==
  ASSUME IInv, UNCHANGED <<pages, num_rows, data_end, cells, bitmap>>, finished' \in BOOLEAN
  PROVE  IInv'
BY DEF IInv, TypeOK, LayoutDisjoint, CellsPlaced, DataBegin

\* The bits that can be set.
LEMMA BitsTyped == IInv => num_rows \in Nat /\ bitmap \subseteq Nat /\ finished \in BOOLEAN
BY DEF IInv, TypeOK

\* A guard that reserves at least a value leaves room for one.
LEMMA ReserveCovers ==
  ASSUME IInv, ValueSize <= InsertReserve, ValueFits
  PROVE  HasRoom(data_end + ValueSize, num_rows)
<1>1. num_rows \in Nat /\ data_end \in Nat BY DEF IInv, TypeOK
<1>2. num_rows \div BitsPerByte \in Nat BY <1>1, SizeAssumption, QuotientBounds
<1> QED BY <1>1, <1>2, SizeAssumption, WriterAssumption DEF ValueFits, HasRoom

LEMMA InserterStep ==
  ASSUME IInv, ValueSize <= InsertReserve, [Next]_vars
  PROVE  IInv'
<1>1. ASSUME NEW value \in Value, Insert(value) PROVE IInv'
  <2>1. CASE ValueFits BY <1>1, <2>1, ReserveCovers, ValueAdded DEF Insert
  <2>2. CASE ~ValueFits
    <3>1. bitmap' \subseteq Nat BY <1>1, <2>2, BitsTyped DEF Insert
    <3> QED BY <1>1, <2>2, <3>1, ValueOnFreshPage DEF Insert
  <2> QED BY <2>1, <2>2
<1>2. CASE InsertNull
  <2>1. CASE NullFits BY <1>2, <2>1, NullAdded DEF InsertNull, NullFits
  <2>2. CASE ~NullFits
    <3>1. bitmap' \subseteq Nat /\ finished' \in BOOLEAN BY <1>2, <2>2, BitsTyped DEF InsertNull
    <3> QED BY <1>2, <2>2, <3>1, FreshPageStarted DEF InsertNull
  <2> QED BY <2>1, <2>2
<1>3. CASE Finalize
  <2>1. bitmap' \subseteq Nat /\ finished' \in BOOLEAN BY <1>3, BitsTyped DEF Finalize
  <2>2. CASE num_rows # 0 BY <1>3, <2>1, <2>2, FreshPageStarted DEF Finalize
  <2>3. CASE num_rows = 0 BY <1>3, <2>1, <2>3, PageKept DEF Finalize
  <2> QED BY <2>2, <2>3
<1>4. CASE UNCHANGED vars BY <1>4, BitsTyped, PageKept DEF vars
<1> QED BY <1>1, <1>2, <1>3, <1>4 DEF Next

LEMMA TableStep ==
  ASSUME IInv, [TableNext]_vars
  PROVE  IInv'
<1>1. ASSUME NEW value \in Value, TableValue(value) PROVE IInv'
  <2>1. CASE TableValueFits BY <1>1, <2>1, ValueAdded DEF TableValue, TableValueFits
  <2>2. CASE ~TableValueFits
    <3>1. bitmap' \subseteq Nat BY <1>1, <2>2 DEF TableValue
    <3> QED BY <1>1, <2>2, <3>1, ValueOnFreshPage DEF TableValue
  <2> QED BY <2>1, <2>2
<1>2. CASE TableNull
  <2>1. CASE TableNullFits BY <1>2, <2>1, NullAdded DEF TableNull, TableNullFits
  <2>2. CASE ~TableNullFits
    <3>1. bitmap' \subseteq Nat /\ finished' \in BOOLEAN BY <1>2, <2>2, BitsTyped DEF TableNull
    <3> QED BY <1>2, <2>2, <3>1, FreshPageStarted DEF TableNull
  <2> QED BY <2>1, <2>2
<1>3. CASE TableFinish
  <2>1. bitmap' \subseteq Nat /\ finished' \in BOOLEAN BY <1>3, BitsTyped DEF TableFinish
  <2>2. CASE num_rows # 0 BY <1>3, <2>1, <2>2, FreshPageStarted DEF TableFinish
  <2>3. CASE num_rows = 0 BY <1>3, <2>1, <2>3, PageKept DEF TableFinish
  <2> QED BY <2>2, <2>3
<1>4. CASE UNCHANGED vars BY <1>4, BitsTyped, PageKept DEF vars
<1> QED BY <1>1, <1>2, <1>3, <1>4 DEF TableNext

\* Whatever mixture of values and NULLs is inserted, the values of the page stay
\* in front of its bitmap (LayoutDisjoint) and saving it overwrites none (no
\* Garbage in TypeOK), when insert() reserves at least sizeof(T) bytes; with the
\* literal 4 that is every T of up to four bytes.
THEOREM ValuesBeforeBitmap ==
  ASSUME ValueSize <= InsertReserve
  PROVE  Spec => [](TypeOK /\ LayoutDisjoint)
<1>1. IInv /\ [Next]_vars => IInv' BY InserterStep
<1>2. IInv => TypeOK /\ LayoutDisjoint BY DEF IInv
<1> QED BY <1>1, <1>2, InitIInv, PTL DEF Spec

\* The same for Table::to_columnar, which reserves a whole value of any type.
THEOREM TableValuesBeforeBitmap == TableSpec => [](TypeOK /\ LayoutDisjoint)
<1>1. IInv /\ [TableNext]_vars => IInv' BY TableStep
<1>2. IInv => TypeOK /\ LayoutDisjoint BY DEF IInv
<1> QED BY <1>1, <1>2, InitIInv, PTL DEF TableSpec


-----------------------------------------------------------------------------
(* What a page reads as.                                                   *)

Row == Value \union {Null}

RowsOf(n, values, valid) ==
  [r \in 1 .. n |-> IF r - 1 \notin valid THEN Null
                    ELSE IF ValuesBefore(valid, r) \in DOMAIN values
                           THEN values[ValuesBefore(valid, r)]
                    ELSE Garbage]

LEMMA PageRead ==
  ASSUME NEW page
  PROVE  DecodePage(page) = RowsOf(page.rows, page.data, page.valid)
BY Zenon DEF DecodePage, RowsOf, ValuesBefore, Below

\* A page holds a value for each of its valid rows.
Whole(n, values, valid) ==
  /\ n \in Nat
  /\ Bits(valid)
  /\ values \in Seq(Value)
  /\ Len(values) = ValuesBefore(valid, n)

\* Every row of it is read, and none as Garbage.
LEMMA RowsOfWhole ==
  ASSUME NEW n, NEW values, NEW valid, Whole(n, values, valid)
  PROVE  /\ RowsOf(n, values, valid) \in Seq(Row)
         /\ Len(RowsOf(n, values, valid)) = n
         /\ \A r \in 1 .. n :
              /\ r - 1 \notin valid => RowsOf(n, values, valid)[r] = Null
              /\ r - 1 \in valid => /\ ValuesBefore(valid, r) \in 1 .. Len(values)
                                    /\ RowsOf(n, values, valid)[r] = values[ValuesBefore(valid, r)]
                                    /\ RowsOf(n, values, valid)[r] \in Value
<1>. DEFINE rows == RowsOf(n, values, valid)
            read(r) == IF r - 1 \notin valid THEN Null
                       ELSE IF ValuesBefore(valid, r) \in DOMAIN values
                              THEN values[ValuesBefore(valid, r)]
                       ELSE Garbage
<1>1. /\ n \in Nat /\ Bits(valid) /\ values \in Seq(Value)
      /\ Len(values) = ValuesBefore(valid, n) /\ DOMAIN values = 1 .. Len(values)
      /\ \A k \in 1 .. Len(values) : values[k] \in Value
  BY DEF Whole
<1>2. ASSUME NEW r \in 1 .. n, r - 1 \in valid
      PROVE  ValuesBefore(valid, r) \in 1 .. Len(values)
  BY <1>1, <1>2, CountOfRow
<1>3. rows = [r \in 1 .. n |-> read(r)]
  BY Zenon DEF RowsOf
<1>4. ASSUME NEW r \in 1 .. n
      PROVE  /\ r - 1 \notin valid => read(r) = Null
             /\ r - 1 \in valid => read(r) = values[ValuesBefore(valid, r)] /\ read(r) \in Value
             /\ read(r) \in Row
  <2>1. CASE r - 1 \notin valid
    BY <2>1 DEF Row
  <2>2. CASE r - 1 \in valid
    <3>1. ValuesBefore(valid, r) \in 1 .. Len(values)
      BY <1>2, <2>2
    <3>2. read(r) = values[ValuesBefore(valid, r)]
      BY <1>1, <2>2, <3>1
    <3>. HIDE DEF read
    <3>. QED
      BY <1>1, <2>2, <3>1, <3>2 DEF Row
  <2>. QED
    BY <2>1, <2>2
<1>. HIDE DEF read, rows
<1>5. rows \in Seq(Row) /\ Len(rows) = n /\ \A r \in 1 .. n : rows[r] = read(r)
  <2>1. rows \in [1 .. n -> Row]
    BY <1>3, <1>4
  <2>. QED
    BY <1>1, <1>3, <2>1
<1>. QED
  BY <1>2, <1>4, <1>5 DEF rows

\* Bits behind the rows do not matter.
LEMMA SameRows ==
  ASSUME NEW n, NEW values, NEW valid, NEW other, Bits(other),
         Whole(n, values, valid), Agree(valid, other, n)
  PROVE  /\ Whole(n, values, other) /\ RowsOf(n, values, other) = RowsOf(n, values, valid)
         /\ \A r \in 0 .. n : ValuesBefore(valid, r) = ValuesBefore(other, r)
<1>1. n \in Nat /\ Bits(valid) /\ values \in Seq(Value) /\ Len(values) = ValuesBefore(valid, n)
  BY DEF Whole
<1>2. \A r \in 0 .. n : ValuesBefore(valid, r) = ValuesBefore(other, r)
  BY <1>1, SameCount
<1>3. Whole(n, values, other)
  BY <1>1, <1>2 DEF Whole
<1>4. ASSUME NEW r \in 1 .. n
      PROVE  ValuesBefore(valid, r) = ValuesBefore(other, r) /\ (r - 1 \in valid <=> r - 1 \in other)
  BY <1>1, <1>2 DEF Agree
<1>5. RowsOf(n, values, other) = RowsOf(n, values, valid)
  BY <1>4, Zenon DEF RowsOf
<1>. QED
  BY <1>2, <1>3, <1>5

LEMMA ValueCounted ==
  ASSUME NEW n, NEW values, NEW valid, NEW other,
         Whole(n, values, valid), Bits(other), Agree(valid, other, n), n \in other
  PROVE  /\ \A r \in 0 .. n : ValuesBefore(valid, r) = ValuesBefore(other, r)
         /\ ValuesBefore(other, n + 1) = Len(values) + 1
<1>1. n \in Nat /\ n \in 0 .. n /\ Len(values) = ValuesBefore(valid, n)
  BY DEF Whole
<1>2. \A r \in 0 .. n : ValuesBefore(valid, r) = ValuesBefore(other, r)
  BY SameRows
<1>3. ValuesBefore(other, n + 1) = ValuesBefore(other, n) + 1
  BY <1>1, CountNext
<1>. QED
  BY <1>1, <1>2, <1>3

\* A row more: its bit is set and its value behind the others.
LEMMA ValueRead ==
  ASSUME NEW n, NEW values, NEW valid, NEW other, NEW value \in Value,
         Whole(n, values, valid),
         Bits(other), Agree(valid, other, n), n \in other,
         NEW m, m = n + 1, NEW more \in Seq(Value),
         Len(more) = Len(values) + 1, \A k \in 1 .. Len(values) : more[k] = values[k],
         more[Len(values) + 1] = value
  PROVE  /\ Whole(m, more, other)
         /\ RowsOf(m, more, other) = Append(RowsOf(n, values, valid), value)
<1>. DEFINE before == RowsOf(n, values, valid)
            after == RowsOf(m, more, other)
<1>1. /\ n \in Nat /\ Bits(valid) /\ values \in Seq(Value) /\ m \in Nat
      /\ Len(values) = ValuesBefore(valid, n) /\ Len(values) \in Nat
  BY DEF Whole
<1>2. /\ more \in Seq(Value) /\ Len(more) = Len(values) + 1
      /\ \A k \in 1 .. Len(values) : more[k] = values[k]
      /\ more[Len(values) + 1] = value
  OBVIOUS
<1>3. Bits(other) /\ n \in other /\ Agree(valid, other, n)
  OBVIOUS
<1>4. \A r \in 0 .. n : ValuesBefore(valid, r) = ValuesBefore(other, r)
  BY ValueCounted
<1>5. ValuesBefore(other, m) = Len(values) + 1
  BY ValueCounted
<1>6. Whole(m, more, other)
  BY <1>1, <1>2, <1>3, <1>5 DEF Whole
<1>7. /\ before \in Seq(Row) /\ Len(before) = n
      /\ after \in Seq(Row) /\ Len(after) = m
      /\ \A r \in 1 .. n :
           /\ r - 1 \notin valid => before[r] = Null
           /\ r - 1 \in valid => /\ ValuesBefore(valid, r) \in 1 .. Len(values)
                                 /\ before[r] = values[ValuesBefore(valid, r)]
      /\ \A r \in 1 .. m :
           /\ r - 1 \notin other => after[r] = Null
           /\ r - 1 \in other => after[r] = more[ValuesBefore(other, r)]
  BY <1>6, RowsOfWhole
<1>. HIDE DEF before, after
<1>8. ASSUME NEW r \in 1 .. n PROVE after[r] = before[r]
  <2>1. r \in 1 .. m /\ r \in 0 .. n /\ r - 1 \in Nat /\ r - 1 < n
    BY <1>1
  <2>2. (r - 1 \in valid <=> r - 1 \in other) /\ ValuesBefore(valid, r) = ValuesBefore(other, r)
    BY <1>3, <1>4, <2>1 DEF Agree
  <2>3. CASE r - 1 \in valid
    BY <1>2, <1>7, <2>1, <2>2, <2>3
  <2>4. CASE r - 1 \notin valid
    BY <1>7, <2>1, <2>2, <2>4
  <2>. QED
    BY <2>3, <2>4
<1>9. after[m] = value
  <2>1. m \in 1 .. m /\ m - 1 = n
    BY <1>1
  <2>. QED
    BY <1>2, <1>3, <1>5, <1>7, <2>1
<1>10. value \in Row
  BY DEF Row
<1>11. after = Append(before, value)
  BY <1>1, <1>7, <1>8, <1>9, <1>10
<1>. QED
  BY <1>6, <1>11 DEF before, after

\* A row more: its bit is clear and no value is added.
LEMMA NullRead ==
  ASSUME NEW n, NEW values, NEW valid, NEW other,
         Whole(n, values, valid),
         Bits(other), Agree(valid, other, n), n \notin other, NEW m, m = n + 1
  PROVE  /\ Whole(m, values, other)
         /\ RowsOf(m, values, other) = Append(RowsOf(n, values, valid), Null)
<1>. DEFINE before == RowsOf(n, values, valid)
            after == RowsOf(m, values, other)
<1>1. /\ n \in Nat /\ Bits(valid) /\ values \in Seq(Value) /\ m \in Nat
      /\ Len(values) = ValuesBefore(valid, n) /\ Len(values) \in Nat
  BY DEF Whole
<1>2. Bits(other) /\ n \notin other /\ Agree(valid, other, n)
  OBVIOUS
<1>3. Whole(n, values, other) /\ RowsOf(n, values, other) = before
  BY <1>1, <1>2, SameRows
<1>4. ValuesBefore(other, m) = Len(values)
  <2>1. ValuesBefore(other, n + 1) = ValuesBefore(other, n)
    BY <1>1, <1>2, CountNext
  <2>. QED
    BY <1>3, <2>1 DEF Whole
<1>5. Whole(m, values, other)
  BY <1>1, <1>2, <1>4 DEF Whole
<1>6. /\ before \in Seq(Row) /\ Len(before) = n
      /\ after \in Seq(Row) /\ Len(after) = m
      /\ \A r \in 1 .. n :
           /\ r - 1 \notin other => before[r] = Null
           /\ r - 1 \in other => before[r] = values[ValuesBefore(other, r)]
      /\ \A r \in 1 .. m :
           /\ r - 1 \notin other => after[r] = Null
           /\ r - 1 \in other => after[r] = values[ValuesBefore(other, r)]
  <2>1. /\ before \in Seq(Row) /\ Len(before) = n
        /\ \A r \in 1 .. n :
             /\ r - 1 \notin other => before[r] = Null
             /\ r - 1 \in other => before[r] = values[ValuesBefore(other, r)]
    <3>. HIDE DEF before
    <3>. QED
      BY <1>3, RowsOfWhole, SMTT(60)
  <2>2. /\ after \in Seq(Row) /\ Len(after) = m
        /\ \A r \in 1 .. m :
             /\ r - 1 \notin other => after[r] = Null
             /\ r - 1 \in other => after[r] = values[ValuesBefore(other, r)]
    BY <1>5, RowsOfWhole
  <2>. QED
    BY <2>1, <2>2
<1>. HIDE DEF before, after
<1>7. ASSUME NEW r \in 1 .. n PROVE after[r] = before[r]
  <2>1. r \in 1 .. m
    BY <1>1
  <2>. QED
    BY <1>6, <2>1
<1>8. after[m] = Null
  <2>1. m \in 1 .. m /\ m - 1 = n
    BY <1>1
  <2>. QED
    BY <1>2, <1>6, <2>1
<1>9. Null \in Row
  BY DEF Row
<1>10. after = Append(before, Null)
  BY <1>1, <1>6, <1>7, <1>8, <1>9
<1>. QED
  BY <1>5, <1>10 DEF before, after

LEMMA NothingRead ==
  ASSUME NEW valid, Bits(valid)
  PROVE  Whole(0, <<>>, valid) /\ RowsOf(0, <<>>, valid) = <<>>
<1>1. Whole(0, <<>>, valid)
  <2>1. ValuesBefore(valid, 0) = 0
    BY CountNone
  <2>2. <<>> \in Seq(Value) /\ Len(<<>>) = 0
    OBVIOUS
  <2>. QED
    BY <2>1, <2>2 DEF Whole
<1>2. RowsOf(0, <<>>, valid) \in Seq(Row) /\ Len(RowsOf(0, <<>>, valid)) = 0
  BY <1>1, RowsOfWhole
<1>. QED
  BY <1>1, <1>2, EmptySeq


-----------------------------------------------------------------------------
(* Pages without NULLs.                                                    *)

\* The byte of a row's bit.
LEMMA ByteOfRow ==
  ASSUME NEW n \in Nat, NEW b \in 0 .. n - 1
  PROVE  /\ b \div BitsPerByte \in 0 .. BitmapBytes(n) - 1
         /\ b \in (b \div BitsPerByte) * BitsPerByte .. (b \div BitsPerByte + 1) * BitsPerByte - 1
<1>. DEFINE i == b \div BitsPerByte
            bytes == BitmapBytes(n)
            bits == BitsPerByte
<1>1. bits \in Nat \ {0} /\ b \in Nat /\ b < n
  BY SizeAssumption
<1>2. i \in Nat /\ bits * i <= b /\ b < bits * i + bits
  BY <1>1, QuotientBounds
<1>3. bytes \in Nat /\ n <= bits * bytes
  BY BitmapCovers
<1>. HIDE DEF i, bytes, bits
<1>4. bits * i = i * bits /\ (i + 1) * bits = i * bits + bits /\ i * bits \in Nat
  BY <1>1, <1>2
<1>5. i < bytes
  <2>. SUFFICES ASSUME bytes <= i PROVE FALSE
    BY <1>2, <1>3
  <2>1. bits * bytes <= bits * i
    BY <1>1, <1>2, <1>3, TimesMonotonic
  <2>2. bits * bytes \in Nat /\ bits * i \in Nat
    BY <1>1, <1>2, <1>3
  <2>. QED
    BY <1>1, <1>2, <1>3, <2>1, <2>2
<1>6. i \in 0 .. bytes - 1
  BY <1>2, <1>3, <1>5
<1>7. b \in i * bits .. (i + 1) * bits - 1
  BY <1>1, <1>2, <1>4
<1>. QED
  BY <1>6, <1>7 DEF i, bytes, bits

\* The bits column_has_nulls looks at in a byte are bits of rows.
LEMMA BitOfByte ==
  ASSUME NEW page, page.rows \in Nat, NEW i \in 0 .. BitmapBytes(page.rows) - 1,
         NEW b \in Expected(page, i)
  PROVE  b \in 0 .. page.rows - 1
<1>. DEFINE n == page.rows
            bytes == BitmapBytes(page.rows)
            bits == BitsPerByte
<1>1. bits \in Nat \ {0} /\ n \in Nat
  BY SizeAssumption
<1>2. bytes \in Nat /\ n <= bits * bytes
  BY BitmapCovers
<1>3. bits * bytes < n + bits
  BY <1>1, RoundUp DEF BitmapBytes
<1>4. /\ b \in i * bits .. (i + 1) * bits - 1
      /\ i = bytes - 1 /\ n % bits # 0 => b < n
  BY DEF Expected
<1>. HIDE DEF n, bytes, bits
<1>5. i \in 0 .. bytes - 1
  BY DEF bytes
<1>6. i \in Nat /\ i * bits \in Nat /\ (i + 1) * bits = bits * (i + 1) /\ bits * (i + 1) \in Nat
  BY <1>1, <1>2, <1>5
<1>7. b \in Nat /\ b < bits * (i + 1)
  BY <1>1, <1>4, <1>6
<1>8. CASE i # bytes - 1
  <2>1. bytes - 1 \in Nat /\ i + 1 <= bytes - 1
    BY <1>2, <1>5, <1>8
  <2>2. bits * (i + 1) <= bits * (bytes - 1)
    BY <1>1, <1>6, <2>1, TimesMonotonic
  <2>3. bits * (bytes - 1) = bits * bytes - bits /\ bits * bytes \in Nat
    BY <1>1, <1>2
  <2>4. bits * bytes - bits < n
    BY <1>1, <1>3, <2>3
  <2>5. b < n
    BY <1>1, <1>6, <1>7, <2>2, <2>3, <2>4
  <2>. QED
    BY <1>1, <1>7, <2>5 DEF n
<1>9. CASE i = bytes - 1 /\ n % bits # 0
  BY <1>1, <1>4, <1>7, <1>9 DEF n
<1>10. CASE i = bytes - 1 /\ n % bits = 0
  <2>. DEFINE q == n \div bits
  <2>1. q \in Nat /\ n = bits * q
    BY <1>1, <1>10, Remainder, QuotientBounds
  <2>. HIDE DEF q
  <2>2. bits * bytes < bits * q + bits /\ bits * q \in Nat /\ bits * bytes \in Nat
    BY <1>1, <1>2, <1>3, <2>1
  <2>3. bytes <= q
    <3>. SUFFICES ASSUME q + 1 <= bytes PROVE FALSE
      BY <1>2, <2>1
    <3>1. bits * (q + 1) <= bits * bytes
      BY <1>1, <1>2, <2>1, TimesMonotonic
    <3>2. bits * (q + 1) = bits * q + bits
      BY <1>1, <2>1
    <3>. QED
      BY <1>1, <2>2, <3>1, <3>2
  <2>4. bits * bytes <= n
    BY <1>1, <1>2, <2>1, <2>3, TimesMonotonic
  <2>5. bits * (i + 1) = bits * bytes
    BY <1>2, <1>10
  <2>6. b < n
    BY <1>1, <1>6, <1>7, <2>2, <2>4, <2>5
  <2>. QED
    BY <1>1, <1>7, <2>6 DEF n
<1>. QED
  BY <1>8, <1>9, <1>10

\* column_has_nulls finds a page without NULLs to have every row's bit set.
LEMMA NullsOfPage ==
  ASSUME NEW page, page.rows \in Nat
  PROVE  ~PageHasNulls(page) <=> \A b \in 0 .. page.rows - 1 : b \in page.valid
<1>1. ASSUME ~PageHasNulls(page), NEW b \in 0 .. page.rows - 1 PROVE b \in page.valid
  <2>. DEFINE i == b \div BitsPerByte
  <2>1. /\ i \in 0 .. BitmapBytes(page.rows) - 1
        /\ b \in i * BitsPerByte .. (i + 1) * BitsPerByte - 1
    BY ByteOfRow
  <2>2. b < page.rows
    OBVIOUS
  <2>. HIDE DEF i
  <2>3. b \in Expected(page, i)
    BY <2>1, <2>2 DEF Expected
  <2>. QED
    BY <1>1, <2>1, <2>3 DEF PageHasNulls
<1>2. ASSUME \A b \in 0 .. page.rows - 1 : b \in page.valid PROVE ~PageHasNulls(page)
  <2>1. ASSUME NEW i \in 0 .. BitmapBytes(page.rows) - 1 PROVE Expected(page, i) \subseteq page.valid
    <3>1. ASSUME NEW b \in Expected(page, i) PROVE b \in page.valid
      <4>1. b \in 0 .. page.rows - 1
        BY BitOfByte
      <4>. QED
        BY <1>2, <4>1
    <3>. QED
      BY <3>1
  <2>. QED
    BY <2>1 DEF PageHasNulls
<1>. QED
  BY <1>1, <1>2


\* A page that reads as one row for each of its bits.
ReadablePage(page) == Whole(page.rows, page.data, page.valid)

LEMMA PageReads ==
  ASSUME NEW page, ReadablePage(page)
  PROVE  /\ DecodePage(page) \in Seq(Row)
         /\ Len(DecodePage(page)) = page.rows
         /\ PageHasNulls(page) <=> \E r \in 1 .. page.rows : DecodePage(page)[r] = Null
         /\ ~PageHasNulls(page) => page.data = DecodePage(page)
<1>. DEFINE n == page.rows
            values == page.data
            valid == page.valid
            read == DecodePage(page)
<1>1. /\ Whole(n, values, valid) /\ n \in Nat /\ Bits(valid) /\ values \in Seq(Value)
      /\ Len(values) = ValuesBefore(valid, n)
  BY DEF ReadablePage, Whole
<1>2. read = RowsOf(n, values, valid)
  BY PageRead
<1>3. ~PageHasNulls(page) <=> \A b \in 0 .. n - 1 : b \in valid
  BY <1>1, NullsOfPage
<1>. HIDE DEF n, values, valid, read
<1>4. /\ read \in Seq(Row) /\ Len(read) = n
      /\ \A r \in 1 .. n :
           /\ r - 1 \notin valid => read[r] = Null
           /\ r - 1 \in valid => /\ ValuesBefore(valid, r) \in 1 .. Len(values)
                                 /\ read[r] = values[ValuesBefore(valid, r)]
                                 /\ read[r] \in Value
  BY <1>1, <1>2, RowsOfWhole
<1>5. Null \notin Value
  BY WriterAssumption
<1>6. PageHasNulls(page) <=> \E r \in 1 .. n : read[r] = Null
  <2>1. ASSUME PageHasNulls(page) PROVE \E r \in 1 .. n : read[r] = Null
    <3>1. PICK b \in 0 .. n - 1 : b \notin valid
      BY <1>3, <2>1
    <3>2. b + 1 \in 1 .. n /\ (b + 1) - 1 = b
      BY <1>1
    <3>. QED
      BY <1>4, <3>1, <3>2
  <2>2. ASSUME NEW r \in 1 .. n, read[r] = Null PROVE PageHasNulls(page)
    <3>1. r - 1 \notin valid
      BY <1>4, <1>5, <2>2
    <3>2. r - 1 \in 0 .. n - 1
      BY <1>1
    <3>. QED
      BY <1>3, <3>1, <3>2
  <2>. QED
    BY <2>1, <2>2
<1>7. ASSUME ~PageHasNulls(page) PROVE values = read
  <2>1. \A b \in Nat : b < n => b \in valid
    BY <1>1, <1>3, <1>7
  <2>2. \A r \in 0 .. n : ValuesBefore(valid, r) = r
    BY <1>1, <2>1, CountAll
  <2>3. Len(values) = n
    BY <1>1, <2>2
  <2>4. ASSUME NEW r \in 1 .. n PROVE read[r] = values[r]
    <3>1. r \in 0 .. n /\ r - 1 \in Nat /\ r - 1 < n
      BY <1>1
    <3>. QED
      BY <1>4, <2>1, <2>2, <3>1
  <2>. QED
    BY <1>1, <1>4, <2>3, <2>4
<1>. QED
  BY <1>4, <1>6, <1>7 DEF n, read, values

-----------------------------------------------------------------------------
(* What a column reads as.                                                 *)

Readable(column) ==
  /\ column \in Seq(SavedPages)
  /\ \A p \in 1 .. Len(column) : ReadablePage(column[p])

Decoded(column) == [p \in DOMAIN column |-> DecodePage(column[p])]

LEMMA ColumnDecoded ==
  ASSUME NEW column, Readable(column)
  PROVE  /\ Len(column) \in Nat /\ DOMAIN column = 1 .. Len(column)
         /\ Decoded(column) \in Seq(Seq(Row)) /\ Len(Decoded(column)) = Len(column)
         /\ \A p \in 1 .. Len(column) : Decoded(column)[p] = DecodePage(column[p])
         /\ ReadColumn(column) = Rows(Decoded(column))
         /\ ReadColumn(column) \in Seq(Row)
<1>1. Len(column) \in Nat /\ DOMAIN column = 1 .. Len(column)
  BY DEF Readable
<1>2. ASSUME NEW p \in 1 .. Len(column) PROVE DecodePage(column[p]) \in Seq(Row)
  <2>1. ReadablePage(column[p])
    BY DEF Readable
  <2>. QED
    BY <2>1, PageReads
<1>3. Decoded(column) = [p \in 1 .. Len(column) |-> DecodePage(column[p])]
  BY <1>1 DEF Decoded
<1>4. Decoded(column) \in [1 .. Len(column) -> Seq(Row)]
  BY <1>2, <1>3
<1>5. Decoded(column) \in Seq(Seq(Row)) /\ Len(Decoded(column)) = Len(column)
  BY <1>1, <1>4
<1>6. ReadColumn(column) = Rows(Decoded(column))
  BY DEF ReadColumn, Decoded
<1>7. Rows(Decoded(column)) \in Seq(Row)
  BY <1>5, RowsOfPages
<1>. QED
  BY <1>1, <1>3, <1>5, <1>6, <1>7

\* A saved page is read behind the pages before it.
LEMMA PageAppended ==
  ASSUME NEW column, Readable(column), NEW page \in SavedPages, ReadablePage(page)
  PROVE  /\ Readable(Append(column, page))
         /\ ReadColumn(Append(column, page)) = ReadColumn(column) \o DecodePage(page)
<1>. DEFINE longer == Append(column, page)
            read == DecodePage(page)
<1>1. column \in Seq(SavedPages) /\ \A p \in 1 .. Len(column) : ReadablePage(column[p])
  BY DEF Readable
<1>2. /\ longer \in Seq(SavedPages) /\ Len(longer) = Len(column) + 1 /\ Len(column) \in Nat
      /\ \A p \in 1 .. Len(column) : longer[p] = column[p]
      /\ longer[Len(column) + 1] = page
  BY <1>1, AppendProperties
<1>. HIDE DEF longer
<1>3. Readable(longer)
  <2>1. ASSUME NEW p \in 1 .. Len(longer) PROVE ReadablePage(longer[p])
    BY <1>1, <1>2
  <2>. QED
    BY <1>2, <2>1 DEF Readable
<1>4. /\ Decoded(column) \in Seq(Seq(Row)) /\ Len(Decoded(column)) = Len(column)
      /\ \A p \in 1 .. Len(column) : Decoded(column)[p] = DecodePage(column[p])
      /\ ReadColumn(column) = Rows(Decoded(column))
  BY ColumnDecoded
<1>5. /\ Decoded(longer) \in Seq(Seq(Row)) /\ Len(Decoded(longer)) = Len(longer)
      /\ \A p \in 1 .. Len(longer) : Decoded(longer)[p] = DecodePage(longer[p])
      /\ ReadColumn(longer) = Rows(Decoded(longer))
  BY <1>3, ColumnDecoded
<1>6. read \in Seq(Row)
  BY PageReads
<1>7. Decoded(longer)[Len(column) + 1] = read
  BY <1>2, <1>5
<1>8. ASSUME NEW p \in 1 .. Len(column) PROVE Decoded(longer)[p] = Decoded(column)[p]
  BY <1>2, <1>4, <1>5
<1>. HIDE DEF read
<1>9. Decoded(longer) = Append(Decoded(column), read)
  <2>. DEFINE s == Decoded(column)
              t == Decoded(longer)
              W == Seq(Row)
  <2>1. s \in Seq(W) /\ t \in Seq(W) /\ read \in W /\ Len(t) = Len(s) + 1
    BY <1>2, <1>4, <1>5, <1>6
  <2>2. t[Len(s) + 1] = read /\ \A p \in 1 .. Len(s) : t[p] = s[p]
    BY <1>4, <1>7, <1>8
  <2>. HIDE DEF s, t, W
  <2>3. t = Append(s, read)
    BY <2>1, <2>2
  <2>. QED
    BY <2>3 DEF s, t
<1>10. Rows(Append(Decoded(column), read)) = Rows(Decoded(column)) \o read
  BY <1>4, <1>6, RowsAppended
<1>. QED
  BY <1>3, <1>4, <1>5, <1>9, <1>10 DEF longer, read

\* A column has NULLs if one of its rows is read as NULL.
LEMMA ColumnNulls ==
  ASSUME NEW column, Readable(column)
  PROVE  ColumnHasNulls(column) <=> \E r \in DOMAIN ReadColumn(column) : ReadColumn(column)[r] = Null
<1>. DEFINE decoded == Decoded(column)
            rows == ReadColumn(column)
<1>1. /\ DOMAIN column = 1 .. Len(column) /\ Len(column) \in Nat
      /\ decoded \in Seq(Seq(Row)) /\ Len(decoded) = Len(column)
      /\ \A p \in 1 .. Len(column) : decoded[p] = DecodePage(column[p])
      /\ rows = Rows(decoded)
  BY ColumnDecoded
<1>2. ASSUME NEW p \in 1 .. Len(column)
      PROVE  PageHasNulls(column[p]) <=> Null \in Range(decoded[p])
  <2>1. ReadablePage(column[p])
    BY DEF Readable
  <2>2. /\ DecodePage(column[p]) \in Seq(Row) /\ Len(DecodePage(column[p])) = column[p].rows
        /\ PageHasNulls(column[p]) <=>
             \E r \in 1 .. column[p].rows : DecodePage(column[p])[r] = Null
    BY <2>1, PageReads
  <2>3. decoded[p] = DecodePage(column[p])
    BY <1>1
  <2>4. DOMAIN DecodePage(column[p]) = 1 .. column[p].rows
    BY <2>2
  <2>. HIDE DEF decoded
  <2>. QED
    BY <2>2, <2>3, <2>4 DEF Range
<1>. HIDE DEF decoded, rows
<1>3. Range(rows) = UNION {Range(decoded[p]) : p \in 1 .. Len(column)}
  BY <1>1, RangeOfRows
<1>4. ColumnHasNulls(column) <=> \E p \in 1 .. Len(column) : PageHasNulls(column[p])
  BY <1>1 DEF ColumnHasNulls
<1>5. (\E p \in 1 .. Len(column) : Null \in Range(decoded[p])) <=> Null \in Range(rows)
  BY <1>3
<1>6. Null \in Range(rows) <=> \E r \in DOMAIN rows : rows[r] = Null
  BY DEF Range
<1>. QED
  BY <1>2, <1>4, <1>5, <1>6 DEF rows


-----------------------------------------------------------------------------
(* The rows inserted are the rows read.                                    *)

\* The invariant: with IInv, what the pages and the buffers read as.
RowInv ==
  /\ Readable(pages)
  /\ Whole(num_rows, cells, bitmap)
  /\ inserted \in Seq(Row)
  /\ inserted = ReadColumn(pages) \o RowsOf(num_rows, cells, bitmap)
  /\ finished => num_rows = 0

\* save_page writes the rows of the buffers, whatever bits lie behind them.
LEMMA SavedReads ==
  ASSUME IInv, RowInv
  PROVE  /\ SavedPage \in SavedPages
         /\ ReadablePage(SavedPage)
         /\ DecodePage(SavedPage) = RowsOf(num_rows, cells, bitmap)
<1>. DEFINE bytes == BitmapBytes(num_rows)
            intact(k) == DataBegin + k * ValueSize <= PageSize - bytes
            valid == {b \in bitmap : b < bytes * BitsPerByte}
<1>1. Whole(num_rows, cells, bitmap)
  BY DEF RowInv
<1>2. num_rows \in Nat /\ bitmap \subseteq Nat /\ cells \in Seq(Value)
  BY <1>1 DEF Whole, Bits
<1>3. bytes \in Nat /\ num_rows <= BitsPerByte * bytes
  BY <1>2, BitmapCovers
<1>4. Bits(valid) /\ Agree(bitmap, valid, num_rows)
  <2>1. BitsPerByte * bytes = bytes * BitsPerByte /\ BitsPerByte * bytes \in Nat
    BY <1>3, SizeAssumption
  <2>. DEFINE limit == bytes * BitsPerByte
  <2>2. limit \in Nat /\ num_rows <= limit
    BY <1>3, <2>1
  <2>. HIDE DEF limit
  <2>3. \A b : b \in {c \in bitmap : c < limit} <=> b \in Nat /\ b \in bitmap /\ b < limit
    BY <1>2
  <2>4. Bits({c \in bitmap : c < limit})
    BY <2>3 DEF Bits
  <2>5. \A b \in Nat : b < num_rows => b < limit
    BY <1>2, <2>2
  <2>6. Agree(bitmap, {c \in bitmap : c < limit}, num_rows)
    BY <2>3, <2>5 DEF Agree
  <2>. QED
    BY <2>4, <2>6 DEF limit
<1>5. SavedPage.rows = num_rows /\ SavedPage.valid = valid
  BY DEF SavedPage
<1>6. SavedPage.data = cells
  <2>1. SavedPage.data = [k \in DOMAIN cells |-> IF intact(k) THEN cells[k] ELSE Garbage]
    BY DEF SavedPage
  <2>2. ASSUME NEW k \in DOMAIN cells PROVE intact(k)
    <3>1. Len(cells) \in Nat /\ k \in 1 .. Len(cells)
      BY <1>2, <2>2
    <3>. QED
      BY <1>3, <3>1, CellEnd, FreshPage, SizeAssumption, SMTT(60)
      DEF IInv, CellsPlaced, LayoutDisjoint
  <2>. HIDE DEF intact
  <2>3. SavedPage.data = [k \in DOMAIN cells |-> cells[k]]
    BY <2>1, <2>2
  <2>. QED
    BY <1>2, <2>3
<1>. HIDE DEF valid
<1>7. Whole(num_rows, cells, valid) /\ RowsOf(num_rows, cells, valid) = RowsOf(num_rows, cells, bitmap)
  BY <1>1, <1>4, SameRows
<1>8. DecodePage(SavedPage) = RowsOf(SavedPage.rows, SavedPage.data, SavedPage.valid)
  BY PageRead
<1>. QED
  BY <1>5, <1>6, <1>7, <1>8, SavedTyped DEF ReadablePage

LEMMA InitRowInv == Init => RowInv
<1>. SUFFICES ASSUME Init PROVE RowInv
  OBVIOUS
<1>1. /\ pages = <<>> /\ num_rows = 0 /\ bitmap = {} /\ cells = <<>> /\ inserted = <<>>
  BY DEF Init
<1>2. Readable(pages)
  BY <1>1 DEF Readable
<1>3. Bits(bitmap)
  BY <1>1 DEF Bits
<1>4. Whole(num_rows, cells, bitmap) /\ RowsOf(num_rows, cells, bitmap) = <<>>
  BY <1>1, <1>3, NothingRead
<1>5. ReadColumn(pages) = <<>>
  <2>1. /\ ReadColumn(pages) = Rows(Decoded(pages)) /\ Len(Decoded(pages)) = Len(pages)
        /\ Decoded(pages) \in Seq(Seq(Row))
    BY <1>2, ColumnDecoded
  <2>2. Len(Decoded(pages)) = 0 /\ Len(Decoded(pages)) \in Nat
    BY <1>1, <2>1
  <2>3. PICK f : /\ f = [p \in 0 .. Len(Decoded(pages)) |->
                           IF p = 0 THEN <<>> ELSE f[p - 1] \o Decoded(pages)[p]]
                 /\ Rows(Decoded(pages)) = f[Len(Decoded(pages))]
    BY <2>2, RowsDefined
  <2>4. f[0] = <<>>
    BY <2>2, <2>3
  <2>. QED
    BY <2>1, <2>2, <2>3, <2>4
<1>6. inserted \in Seq(Row) /\ inserted = ReadColumn(pages) \o RowsOf(num_rows, cells, bitmap)
  BY <1>1, <1>4, <1>5, EmptySeq, ConcatEmptySeq
<1>. QED
  BY <1>1, <1>2, <1>4, <1>6 DEF RowInv

\* The sequences of the invariant.
LEMMA RowTypes ==
  ASSUME RowInv
  PROVE  /\ ReadColumn(pages) \in Seq(Row) /\ RowsOf(num_rows, cells, bitmap) \in Seq(Row)
         /\ Len(RowsOf(num_rows, cells, bitmap)) = num_rows
         /\ num_rows \in Nat /\ Bits(bitmap) /\ cells \in Seq(Value)
<1>1. Readable(pages) /\ Whole(num_rows, cells, bitmap)
  BY DEF RowInv
<1>2. ReadColumn(pages) \in Seq(Row)
  BY <1>1, ColumnDecoded
<1>3. RowsOf(num_rows, cells, bitmap) \in Seq(Row) /\ Len(RowsOf(num_rows, cells, bitmap)) = num_rows
  BY <1>1, RowsOfWhole
<1>. QED
  BY <1>1, <1>2, <1>3 DEF Whole

\* A row more on the page.
LEMMA RowAdded ==
  ASSUME RowInv, NEW x \in Row, pages' = pages, inserted' = Append(inserted, x), ~finished',
         Whole(num_rows', cells', bitmap'),
         RowsOf(num_rows', cells', bitmap') = Append(RowsOf(num_rows, cells, bitmap), x)
  PROVE  RowInv'
<1>. DEFINE before == ReadColumn(pages)
            here == RowsOf(num_rows, cells, bitmap)
<1>1. before \in Seq(Row) /\ here \in Seq(Row)
  BY RowTypes
<1>2. /\ Readable(pages) /\ inserted \in Seq(Row) /\ inserted = before \o here
  BY DEF RowInv
<1>3. Readable(pages')
  BY <1>2
<1>4. ReadColumn(pages') = before
  OBVIOUS
<1>5. RowsOf(num_rows', cells', bitmap') = Append(here, x)
  OBVIOUS
<1>. HIDE DEF before, here
<1>6. Append(before \o here, x) = before \o Append(here, x)
  <2>1. /\ Append(before \o here, x) = (before \o here) \o <<x>>
        /\ Append(here, x) = here \o <<x>>
        /\ <<x>> \in Seq(Row) /\ before \o here \in Seq(Row)
    BY <1>1, AppendIsConcat, ConcatProperties
  <2>. QED
    BY ONLY <1>1, <2>1, ConcatAssociative
<1>7. inserted' \in Seq(Row) /\ inserted' = before \o Append(here, x)
  BY <1>2, <1>6
<1>. QED
  BY <1>3, <1>4, <1>5, <1>7 DEF RowInv

\* The page is saved and the row is the first of the next one, or there is none.
LEMMA RowOnFreshPage ==
  ASSUME IInv, RowInv, NEW more \in Seq(Row),
         pages' = Append(pages, SavedPage), inserted' = inserted \o more,
         finished' => num_rows' = 0,
         Whole(num_rows', cells', bitmap'), RowsOf(num_rows', cells', bitmap') = more
  PROVE  RowInv'
<1>. DEFINE before == ReadColumn(pages)
            here == RowsOf(num_rows, cells, bitmap)
<1>1. before \in Seq(Row) /\ here \in Seq(Row)
  BY RowTypes
<1>2. /\ Readable(pages) /\ inserted \in Seq(Row) /\ inserted = before \o here
  BY DEF RowInv
<1>3. SavedPage \in SavedPages /\ ReadablePage(SavedPage) /\ DecodePage(SavedPage) = here
  BY SavedReads
<1>4. Readable(pages') /\ ReadColumn(pages') = before \o here
  <2>. HIDE DEF here
  <2>1. /\ Readable(Append(pages, SavedPage))
        /\ ReadColumn(Append(pages, SavedPage)) = before \o DecodePage(SavedPage)
    BY <1>2, <1>3, PageAppended
  <2>. QED
    BY <1>3, <2>1
<1>. HIDE DEF before, here
<1>5. inserted' \in Seq(Row) /\ inserted' = ReadColumn(pages') \o more
  BY <1>1, <1>2, <1>4, ConcatProperties
<1>. QED
  BY <1>4, <1>5 DEF RowInv

\* Nothing but `finished' changes.
LEMMA RowsKept ==
  ASSUME RowInv, UNCHANGED <<pages, num_rows, cells, bitmap, inserted>>, finished' => num_rows = 0
  PROVE  RowInv'
BY DEF RowInv


\* The steps of both writers, by what they leave: a value, ...
LEMMA ValueStep ==
  ASSUME RowInv, NEW value \in Value,
         num_rows' = num_rows + 1, cells' = Append(cells, value),
         bitmap' = bitmap \union {num_rows}, pages' = pages,
         inserted' = Append(inserted, value), ~finished'
  PROVE  RowInv'
<1>. DEFINE n == num_rows
            m == num_rows'
            values == cells
            more == cells'
            valid == bitmap
            other == bitmap'
<1>1. Whole(n, values, valid) /\ n \in Nat /\ values \in Seq(Value) /\ Bits(valid)
  BY RowTypes DEF RowInv
<1>2. m = n + 1
  OBVIOUS
<1>3. /\ more \in Seq(Value) /\ Len(more) = Len(values) + 1
      /\ \A k \in 1 .. Len(values) : more[k] = values[k]
      /\ more[Len(values) + 1] = value
  BY <1>1, AppendProperties
<1>4. Bits(other) /\ Agree(valid, other, n) /\ n \in other
  BY <1>1 DEF Bits, Agree
<1>5. Whole(m, more, other) /\ RowsOf(m, more, other) = Append(RowsOf(n, values, valid), value)
  <2>. HIDE DEF n, m, values, more, valid, other
  <2>. QED
    BY ONLY value \in Value, <1>1, <1>2, <1>3, <1>4, ValueRead
<1>6. value \in Row
  BY DEF Row
<1>. QED
  BY <1>5, <1>6, RowAdded

\* ... a NULL, ...
LEMMA NullStep ==
  ASSUME RowInv, num_rows' = num_rows + 1, cells' = cells,
         bitmap' = bitmap \ {num_rows}, pages' = pages,
         inserted' = Append(inserted, Null), ~finished'
  PROVE  RowInv'
<1>. DEFINE n == num_rows
            m == num_rows'
            values == cells
            valid == bitmap
            other == bitmap'
<1>1. Whole(n, values, valid) /\ n \in Nat /\ values \in Seq(Value) /\ Bits(valid)
  BY RowTypes DEF RowInv
<1>2. m = n + 1
  OBVIOUS
<1>3. Bits(other) /\ Agree(valid, other, n) /\ n \notin other
  BY <1>1 DEF Bits, Agree
<1>4. Whole(m, values, other) /\ RowsOf(m, values, other) = Append(RowsOf(n, values, valid), Null)
  <2>. HIDE DEF n, m, values, valid, other
  <2>. QED
    BY <1>1, <1>2, <1>3, NullRead
<1>5. Null \in Row
  BY DEF Row
<1>. QED
  BY <1>4, <1>5, RowAdded

\* ... the first row of a page.
LEMMA FirstRow ==
  ASSUME NEW bits, Bits(bits)
  PROVE  /\ \A value \in Value : 0 \in bits =>
              Whole(1, <<value>>, bits) /\ RowsOf(1, <<value>>, bits) = <<value>>
         /\ 0 \notin bits => Whole(1, <<>>, bits) /\ RowsOf(1, <<>>, bits) = <<Null>>
<1>1. Whole(0, <<>>, bits) /\ RowsOf(0, <<>>, bits) = <<>>
  BY NothingRead
<1>2. Agree(bits, bits, 0) /\ 1 = 0 + 1 /\ 0 \in Nat
  BY DEF Agree
<1>3. ASSUME NEW value \in Value, 0 \in bits
      PROVE  Whole(1, <<value>>, bits) /\ RowsOf(1, <<value>>, bits) = <<value>>
  <2>. DEFINE first == <<value>>
              none == <<>>
  <2>1. /\ first \in Seq(Value) /\ Len(first) = Len(none) + 1
        /\ \A k \in 1 .. Len(none) : first[k] = none[k]
        /\ first[Len(none) + 1] = value
    OBVIOUS
  <2>2. Whole(0, none, bits) /\ RowsOf(0, none, bits) = <<>>
    BY <1>1
  <2>. HIDE DEF first, none
  <2>3. Whole(1, first, bits) /\ RowsOf(1, first, bits) = Append(RowsOf(0, none, bits), value)
    BY <1>2, <1>3, <2>1, <2>2, ValueRead
  <2>4. Append(<<>>, value) = <<value>>
    OBVIOUS
  <2>. QED
    BY <2>2, <2>3, <2>4 DEF first
<1>4. ASSUME 0 \notin bits
      PROVE  Whole(1, <<>>, bits) /\ RowsOf(1, <<>>, bits) = <<Null>>
  <2>1. Whole(1, <<>>, bits) /\ RowsOf(1, <<>>, bits) = Append(RowsOf(0, <<>>, bits), Null)
    BY <1>1, <1>2, <1>4, NullRead
  <2>2. Append(<<>>, Null) = <<Null>>
    OBVIOUS
  <2>. QED
    BY <1>1, <2>1, <2>2
<1>. QED
  BY <1>3, <1>4

LEMMA FreshValueStep ==
  ASSUME IInv, RowInv, NEW value \in Value,
         pages' = Append(pages, SavedPage), num_rows' = 1, cells' = <<value>>,
         bitmap' \subseteq Nat, 0 \in bitmap',
         inserted' = Append(inserted, value), ~finished'
  PROVE  RowInv'
<1>1. Bits(bitmap')
  BY DEF Bits
<1>2. Whole(num_rows', cells', bitmap') /\ RowsOf(num_rows', cells', bitmap') = <<value>>
  BY <1>1, FirstRow
<1>3. value \in Row /\ inserted \in Seq(Row)
  BY DEF Row, RowInv
<1>4. <<value>> \in Seq(Row) /\ inserted' = inserted \o <<value>>
  BY <1>3, AppendIsConcat
<1>. QED
  BY <1>2, <1>4, RowOnFreshPage

LEMMA FreshNullStep ==
  ASSUME IInv, RowInv,
         pages' = Append(pages, SavedPage), num_rows' = 1, cells' = <<>>,
         bitmap' \subseteq Nat, 0 \notin bitmap',
         inserted' = Append(inserted, Null), ~finished'
  PROVE  RowInv'
<1>1. Bits(bitmap')
  BY DEF Bits
<1>2. Whole(num_rows', cells', bitmap') /\ RowsOf(num_rows', cells', bitmap') = <<Null>>
  BY <1>1, FirstRow
<1>3. Null \in Row /\ inserted \in Seq(Row)
  BY DEF Row, RowInv
<1>4. <<Null>> \in Seq(Row) /\ inserted' = inserted \o <<Null>>
  BY <1>3, AppendIsConcat
<1>. QED
  BY <1>2, <1>4, RowOnFreshPage

LEMMA FinishStep ==
  ASSUME IInv, RowInv,
         pages' = Append(pages, SavedPage), num_rows' = 0, cells' = <<>>,
         bitmap' \subseteq Nat, inserted' = inserted
  PROVE  RowInv'
<1>1. Bits(bitmap')
  BY DEF Bits
<1>2. Whole(num_rows', cells', bitmap') /\ RowsOf(num_rows', cells', bitmap') = <<>>
  BY <1>1, NothingRead
<1>3. <<>> \in Seq(Row) /\ inserted \in Seq(Row)
  BY DEF RowInv
<1>4. inserted' = inserted \o <<>>
  BY <1>3, ConcatEmptySeq
<1>. QED
  BY <1>2, <1>3, <1>4, RowOnFreshPage

LEMMA InserterRows ==
  ASSUME IInv, RowInv, [Next]_vars
  PROVE  RowInv'
<1>1. num_rows \in Nat /\ bitmap \subseteq Nat
  BY RowTypes DEF Bits
<1>2. ASSUME NEW value \in Value, Insert(value) PROVE RowInv'
  <2>1. CASE ValueFits
    BY <1>2, <2>1, ValueStep DEF Insert
  <2>2. CASE ~ValueFits
    <3>1. bitmap' = bitmap \union {0}
      BY <1>2, <2>2 DEF Insert
    <3>2. bitmap' \subseteq Nat /\ 0 \in bitmap'
      BY <1>1, <3>1
    <3>. QED
      BY <1>2, <2>2, <3>2, FreshValueStep DEF Insert
  <2>. QED
    BY <2>1, <2>2
<1>3. CASE InsertNull
  <2>1. CASE NullFits
    BY <1>3, <2>1, NullStep DEF InsertNull
  <2>2. CASE ~NullFits
    <3>1. bitmap' \subseteq Nat /\ 0 \notin bitmap'
      BY <1>1, <1>3, <2>2 DEF InsertNull
    <3>. QED
      BY <1>3, <2>2, <3>1, FreshNullStep DEF InsertNull
  <2>. QED
    BY <2>1, <2>2
<1>4. CASE Finalize
  <2>1. CASE num_rows # 0
    BY <1>1, <1>4, <2>1, FinishStep DEF Finalize
  <2>2. CASE num_rows = 0
    BY <1>4, <2>2, RowsKept DEF Finalize
  <2>. QED
    BY <2>1, <2>2
<1>5. CASE UNCHANGED vars
  BY <1>5 DEF vars, RowInv
<1>. QED
  BY <1>2, <1>3, <1>4, <1>5 DEF Next

LEMMA TableRows ==
  ASSUME IInv, RowInv, [TableNext]_vars
  PROVE  RowInv'
<1>1. num_rows \in Nat /\ bitmap \subseteq Nat
  BY RowTypes DEF Bits
<1>2. ASSUME NEW value \in Value, TableValue(value) PROVE RowInv'
  <2>1. CASE TableValueFits
    BY <1>2, <2>1, ValueStep DEF TableValue
  <2>2. CASE ~TableValueFits
    <3>1. bitmap' \subseteq Nat /\ 0 \in bitmap'
      BY <1>1, <1>2, <2>2 DEF TableValue
    <3>. QED
      BY <1>2, <2>2, <3>1, FreshValueStep DEF TableValue
  <2>. QED
    BY <2>1, <2>2
<1>3. CASE TableNull
  <2>1. CASE TableNullFits
    BY <1>3, <2>1, NullStep DEF TableNull
  <2>2. CASE ~TableNullFits
    <3>1. bitmap' \subseteq Nat /\ 0 \notin bitmap'
      BY <1>1, <1>3, <2>2 DEF TableNull
    <3>. QED
      BY <1>3, <2>2, <3>1, FreshNullStep DEF TableNull
  <2>. QED
    BY <2>1, <2>2
<1>4. CASE TableFinish
  <2>1. CASE num_rows # 0
    BY <1>1, <1>4, <2>1, FinishStep DEF TableFinish
  <2>2. CASE num_rows = 0
    BY <1>4, <2>2, RowsKept DEF TableFinish
  <2>. QED
    BY <2>1, <2>2
<1>5. CASE UNCHANGED vars
  BY <1>5 DEF vars, RowInv
<1>. QED
  BY <1>2, <1>3, <1>4, <1>5 DEF TableNext

\* What the invariant says of the pages saved and the page being written.
LEMMA RowInvReads ==
  ASSUME IInv, RowInv
  PROVE  ReadsBack /\ ZeroCopySound
<1>1. DecodePage(SavedPage) = RowsOf(num_rows, cells, bitmap)
  BY SavedReads
<1>2. Readable(pages) /\ inserted = ReadColumn(pages) \o RowsOf(num_rows, cells, bitmap)
  BY DEF RowInv
<1>3. ReadsBack
  BY <1>1, <1>2 DEF ReadsBack, RowsRead
<1>4. DOMAIN pages = 1 .. Len(pages) /\ ReadColumn(pages) \in Seq(Row)
  BY <1>2, ColumnDecoded
<1>5. ASSUME NEW p \in DOMAIN pages, ~PageHasNulls(pages[p])
      PROVE  pages[p].data = DecodePage(pages[p])
  <2>1. ReadablePage(pages[p])
    BY <1>2, <1>4 DEF Readable
  <2>. QED
    BY <1>5, <2>1, PageReads
<1>6. ASSUME finished
      PROVE  ColumnHasNulls(pages) <=> \E r \in DOMAIN inserted : inserted[r] = Null
  <2>1. num_rows = 0
    BY <1>6 DEF RowInv
  <2>2. /\ RowsOf(num_rows, cells, bitmap) \in Seq(Row)
        /\ Len(RowsOf(num_rows, cells, bitmap)) = 0
    BY <2>1, RowTypes
  <2>3. RowsOf(num_rows, cells, bitmap) = <<>>
    BY <2>2, EmptySeq
  <2>4. inserted = ReadColumn(pages)
    BY <1>2, <1>4, <2>3, ConcatEmptySeq
  <2>. QED
    BY <1>2, <2>4, ColumnNulls
<1>. QED
  BY <1>3, <1>5, <1>6 DEF ZeroCopySound

\* Types, the garbage no page holds included, when insert() reserves a value.
THEOREM WriterTypeCorrect ==
  ASSUME ValueSize <= InsertReserve
  PROVE  Spec => []TypeOK
<1>1. IInv /\ [Next]_vars => IInv' BY InserterStep
<1>2. IInv => TypeOK BY DEF IInv
<1> QED BY <1>1, <1>2, InitIInv, PTL DEF Spec

\* Whatever mixture of values and NULLs is inserted, the rows of the saved pages
\* and of the page being written are read as they were inserted, across pages and
\* in spite of the bits an earlier page left in the bitmap buffer.
THEOREM InserterReadsBack ==
  ASSUME ValueSize <= InsertReserve
  PROVE  Spec => []ReadsBack
<1>1. IInv /\ RowInv /\ [Next]_vars => IInv' /\ RowInv' BY InserterStep, InserterRows
<1>2. IInv /\ RowInv => ReadsBack BY RowInvReads
<1> QED BY <1>1, <1>2, InitIInv, InitRowInv, PTL DEF Spec

\* column_has_nulls says of the finished column whether a NULL was inserted, and
\* the n-th value of a page without NULLs is its n-th row.
THEOREM InserterZeroCopySound ==
  ASSUME ValueSize <= InsertReserve
  PROVE  Spec => []ZeroCopySound
<1>1. IInv /\ RowInv /\ [Next]_vars => IInv' /\ RowInv' BY InserterStep, InserterRows
<1>2. IInv /\ RowInv => ZeroCopySound BY RowInvReads
<1> QED BY <1>1, <1>2, InitIInv, InitRowInv, PTL DEF Spec

\* The same for Table::to_columnar, which reserves a whole value of any type.
THEOREM TableReadsBack == TableSpec => [](ReadsBack /\ ZeroCopySound)
<1>1. IInv /\ RowInv /\ [TableNext]_vars => IInv' /\ RowInv' BY TableStep, TableRows
<1>2. IInv /\ RowInv => ReadsBack /\ ZeroCopySound BY RowInvReads
<1> QED BY <1>1, <1>2, InitIInv, InitRowInv, PTL DEF TableSpec
=============================================================================
