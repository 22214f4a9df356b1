---------------------------- MODULE LoadingProofs ---------------------------
(***************************************************************************)
(* Proofs about loading a table.                                            *)
(*                                                                          *)
(* Filter, for any number of threads, any table, any statement and any      *)
(* width of a byte: no thread loses a bit another one sets, and the rows    *)
(* kept are those for which the statement is true.                          *)
(*                                                                          *)
(* FromCsv, for any file, any schema and any filters: wherever the file is  *)
(* cut into buffers the parser makes the rows that the file means, and the  *)
(* caches answer every call with them.                                      *)
(***************************************************************************)
EXTENDS Filter, FromCsv, WellFoundedInduction, SequenceTheorems, TLAPS

-----------------------------------------------------------------------------
(* Shards.                                                                 *)

LEMMA QuotientBounds ==
  ASSUME NEW a \in Nat, NEW b \in Nat \ {0}
  PROVE  /\ a \div b \in Nat
         /\ b * (a \div b) <= a
         /\ a < b * (a \div b) + b
OBVIOUS

LEMMA ProductsAscend ==
  ASSUME NEW a \in Nat, NEW b \in Nat, NEW c \in Nat, a <= b
  PROVE  a * c \in Nat /\ b * c \in Nat /\ a * c <= b * c
<1>1. b - a \in Nat /\ (b - a) * c \in Nat
  OBVIOUS
<1>2. b * c = a * c + (b - a) * c
  OBVIOUS
<1>3. a * c \in Nat
  OBVIOUS
<1>. QED
  BY <1>1, <1>2, <1>3

\* A later shard begins later.
LEMMA ShardsAscend ==
  ASSUME NEW n \in Nat, NEW a \in Nat, NEW b \in Nat, a <= b
  PROVE  begin_idx(a, n) \in Nat /\ begin_idx(a, n) <= begin_idx(b, n)
<1>. DEFINE base == n \div NumThreads
            rem == n % NumThreads
            extra(t) == IF t < rem THEN t ELSE rem
<1>1. base \in Nat /\ rem \in Nat
  BY NumThreadsAssumption
<1>2. a * base \in Nat /\ b * base \in Nat /\ a * base <= b * base
  BY <1>1, ProductsAscend
<1>3. extra(a) \in Nat /\ extra(b) \in Nat /\ extra(a) <= extra(b)
  BY <1>1
<1>4. begin_idx(a, n) = a * base + extra(a) /\ begin_idx(b, n) = b * base + extra(b)
  BY DEF begin_idx
<1>. HIDE DEF base, rem, extra
<1>. QED
  BY <1>2, <1>3, <1>4

\* The bytes of the rows of a shard are those the shard was given.
LEMMA RowsInShard ==
  ASSUME NumRows \in Nat, NEW n \in Nat, NEW t \in Nat, NEW row \in Nat,
         Boundary(t, "rows", n) <= row, row < Boundary(t + 1, "rows", n)
  PROVE  /\ row < NumRows
         /\ begin_idx(t, n) <= ByteOf(row) /\ ByteOf(row) < begin_idx(t + 1, n)
<1>. DEFINE lo == begin_idx(t, n)
            hi == begin_idx(t + 1, n)
            byte == ByteOf(row)
<1>1. lo \in Nat /\ hi \in Nat
  BY ShardsAscend
<1>2. byte \in Nat /\ ByteBits * byte <= row /\ row < ByteBits * byte + ByteBits
  BY ByteAssumption, QuotientBounds DEF ByteOf
<1>3. ByteBits \in Nat \ {0} /\ lo * ByteBits \in Nat /\ hi * ByteBits \in Nat
  BY <1>1, ByteAssumption
<1>4. /\ Boundary(t, "rows", n) = IF lo * ByteBits < NumRows THEN lo * ByteBits ELSE NumRows
      /\ Boundary(t + 1, "rows", n) = IF hi * ByteBits < NumRows THEN hi * ByteBits ELSE NumRows
  BY DEF Boundary
<1>. HIDE DEF lo, hi, byte
<1>5. row < NumRows /\ lo * ByteBits <= row /\ row < hi * ByteBits
  BY <1>3, <1>4
<1>6. lo <= byte
  <2>. SUFFICES ASSUME byte + 1 <= lo PROVE FALSE
    BY <1>1, <1>2
  <2>1. (byte + 1) * ByteBits <= lo * ByteBits
    BY <1>1, <1>2, <1>3, ProductsAscend
  <2>2. (byte + 1) * ByteBits = ByteBits * byte + ByteBits
    BY <1>2, <1>3
  <2>3. ByteBits * byte \in Nat
    BY <1>2, <1>3
  <2>. QED
    BY <1>2, <1>3, <1>5, <2>1, <2>2, <2>3
<1>7. byte < hi
  <2>. SUFFICES ASSUME hi <= byte PROVE FALSE
    BY <1>1, <1>2
  <2>1. hi * ByteBits <= byte * ByteBits
    BY <1>1, <1>2, <1>3, ProductsAscend
  <2>2. byte * ByteBits = ByteBits * byte /\ ByteBits * byte \in Nat
    BY <1>2, <1>3
  <2>. QED
    BY <1>2, <1>3, <1>5, <2>1, <2>2
<1>. QED
  BY <1>5, <1>6, <1>7 DEF lo, hi, byte

\* No byte of a comparison's output belongs to two shards.
LEMMA ShardsShareNoByte ==
  ASSUME NumRows \in Nat, NEW n \in Nat, NEW t \in Nat, NEW u \in Nat, t # u,
         NEW row \in Nat, NEW other \in Nat,
         Boundary(t, "rows", n) <= row, row < Boundary(t + 1, "rows", n),
         Boundary(u, "rows", n) <= other, other < Boundary(u + 1, "rows", n)
  PROVE  ByteOf(row) # ByteOf(other)
<1>1. /\ begin_idx(t, n) <= ByteOf(row) /\ ByteOf(row) < begin_idx(t + 1, n)
      /\ begin_idx(u, n) <= ByteOf(other) /\ ByteOf(other) < begin_idx(u + 1, n)
  BY RowsInShard
<1>2. /\ \A a \in Nat : begin_idx(a, n) \in Nat
      /\ \A a, b \in Nat : a <= b => begin_idx(a, n) <= begin_idx(b, n)
  <2>1. \A a, b \in Nat :
          a <= b => begin_idx(a, n) \in Nat /\ begin_idx(a, n) <= begin_idx(b, n)
    BY ShardsAscend
  <2>2. \A a \in Nat : a <= a
    OBVIOUS
  <2>. QED
    BY <2>1, <2>2
<1>3. ByteOf(row) \in Nat /\ ByteOf(other) \in Nat
  BY ByteAssumption, QuotientBounds DEF ByteOf
<1>4. t + 1 \in Nat /\ u + 1 \in Nat
  OBVIOUS
<1>5. CASE t + 1 <= u
  <2>1. begin_idx(t + 1, n) <= begin_idx(u, n)
    BY <1>2, <1>4, <1>5
  <2>. QED
    BY <1>1, <1>2, <1>3, <1>4, <2>1
<1>6. CASE u + 1 <= t
  <2>1. begin_idx(u + 1, n) <= begin_idx(t, n)
    BY <1>2, <1>4, <1>6
  <2>. QED
    BY <1>1, <1>2, <1>3, <1>4, <2>1
<1>. QED
  BY <1>5, <1>6

\* A row has its byte in a bitmap of the table.
LEMMA RowHasByte ==
  ASSUME NumRows \in Nat, NEW row \in Nat, row < NumRows
  PROVE  ByteOf(row) + 1 \in 1 .. NumBytes
<1>. DEFINE byte == ByteOf(row)
<1>1. ByteBits \in Nat \ {0} /\ NumRows + ByteBits - 1 \in Nat
  BY ByteAssumption
<1>2. byte \in Nat /\ ByteBits * byte <= row /\ ByteBits * byte \in Nat
  BY <1>1, QuotientBounds DEF ByteOf
<1>3. NumBytes = (NumRows + ByteBits - 1) \div ByteBits
  BY DEF NumBytes, BytesFor
<1>4. NumBytes \in Nat /\ NumRows + ByteBits - 1 < ByteBits * NumBytes + ByteBits
  BY <1>1, <1>3, QuotientBounds
<1>. HIDE DEF byte
<1>5. byte + 1 <= NumBytes
  <2>. SUFFICES ASSUME NumBytes <= byte PROVE FALSE
    BY <1>2, <1>4
  <2>1. NumBytes * ByteBits <= byte * ByteBits
    BY <1>1, <1>2, <1>4, ProductsAscend
  <2>2. NumBytes * ByteBits = ByteBits * NumBytes /\ byte * ByteBits = ByteBits * byte
        /\ ByteBits * NumBytes \in Nat
    BY <1>1, <1>2, <1>4
  <2>. QED
    BY <1>1, <1>2, <1>4, <2>1, <2>2
<1>. QED
  BY <1>2, <1>4, <1>5 DEF byte
LEMMA Induction ==
  ASSUME NEW S, 0 \in S, \A n \in Nat : n \in S => n + 1 \in S
  PROVE  \A n \in Nat : n \in S
<1>. SUFFICES ASSUME Nat \ S # {} PROVE FALSE
  OBVIOUS
<1>1. PICK m \in Nat \ S : \A k \in Nat \ S : ~(<<k, m>> \in OpToRel(<, Nat))
  BY NatLessThanWellFounded, WFMin
<1>2. \A k \in Nat \ S : ~(k < m)
  BY <1>1 DEF OpToRel
<1>. QED
  BY <1>2

\* The value of a node from those of its operands.
NodeValue(s, cols, row, e, n) ==
  CASE s[n].op = "AND" -> \A c \in s[n].children : e[c]
    [] s[n].op = "OR" -> \E c \in s[n].children : e[c]
    [] s[n].op = "NOT" -> \A c \in s[n].children : ~e[c]
    [] OTHER -> EvalComparison(s[n], Cell(cols[s[n].column], row))

\* A node's value depends on its operands only, which come before it.
LEMMA ValueOfOperands ==
  ASSUME NEW s, NEW cols, NEW row, NEW n \in Nat, NEW e, NEW f,
         s[n].op \in Logical => s[n].children \subseteq 1 .. n - 1,
         \A c \in 1 .. n - 1 : e[c] = f[c]
  PROVE  NodeValue(s, cols, row, e, n) = NodeValue(s, cols, row, f, n)
<1>1. CASE s[n].op = "AND"
  <2>1. (\A c \in s[n].children : e[c]) <=> (\A c \in s[n].children : f[c])
    BY <1>1 DEF Logical
  <2>. QED
    BY <1>1, <2>1 DEF NodeValue
<1>2. CASE s[n].op = "OR"
  <2>1. (\E c \in s[n].children : e[c]) <=> (\E c \in s[n].children : f[c])
    BY <1>2 DEF Logical
  <2>. QED
    BY <1>2, <2>1 DEF NodeValue
<1>3. CASE s[n].op = "NOT"
  <2>1. (\A c \in s[n].children : ~e[c]) <=> (\A c \in s[n].children : ~f[c])
    BY <1>3 DEF Logical
  <2>. QED
    BY <1>3, <2>1 DEF NodeValue
<1>4. CASE s[n].op \notin Logical
  BY <1>4 DEF NodeValue, Logical
<1>. QED
  BY <1>1, <1>2, <1>3, <1>4 DEF Logical

LEMMA NodesDefined ==
  ASSUME NEW s, NEW cols, NEW row, NEW k \in Nat, DOMAIN s = 1 .. k,
         \A n \in 1 .. k : s[n].op \in Logical => s[n].children \subseteq 1 .. n - 1
  PROVE  \A n \in 1 .. k : EvalNodes(s, cols, row)[n]
                             = NodeValue(s, cols, row, EvalNodes(s, cols, row), n)
<1>. DEFINE V(f, n) == NodeValue(s, cols, row, f, n)
            Upto(m, f) == f = [n \in 1 .. m |-> V(f, n)]
            S == {m \in Nat : m <= k => \E f : Upto(m, f)}
<1>1. 0 \in S
  <2>1. Upto(0, [n \in 1 .. 0 |-> 0])
    OBVIOUS
  <2>. QED
    BY <2>1
<1>2. ASSUME NEW m \in Nat, m \in S PROVE m + 1 \in S
  <2>. SUFFICES ASSUME m + 1 <= k PROVE \E f : Upto(m + 1, f)
    OBVIOUS
  <2>1. PICK f : Upto(m, f)
    BY <1>2
  <2>. DEFINE g == [n \in 1 .. m + 1 |-> IF n = m + 1 THEN V(f, n) ELSE f[n]]
  <2>. HIDE DEF V
  <2>2. \A n \in 1 .. m : g[n] = f[n]
    OBVIOUS
  <2>4. \A n \in 1 .. m + 1 : g[n] = V(f, n)
    BY <2>1
  <2>5. g = [n \in 1 .. m + 1 |-> g[n]]
    OBVIOUS
  <2>. HIDE DEF g
  <2>3. ASSUME NEW n \in 1 .. m + 1 PROVE g[n] = V(g, n)
    <3>1. n \in 1 .. k /\ n \in Nat
      OBVIOUS
    <3>2. \A c \in 1 .. n - 1 : g[c] = f[c]
      BY <2>2
    <3>3. V(g, n) = V(f, n)
      BY <3>1, <3>2, ValueOfOperands DEF V
    <3>. QED
      BY <2>4, <3>3
  <2>. QED
    BY <2>3, <2>5
<1>3. k \in S
  <2>. HIDE DEF S
  <2>. QED
    BY <1>1, <1>2, Induction
<1>. DEFINE eval == CHOOSE f : Upto(k, f)
<1>4. Upto(k, eval)
  <2>1. \E f : Upto(k, f)
    BY <1>3
  <2>. HIDE DEF Upto
  <2>. QED
    BY <2>1
<1>5. EvalNodes(s, cols, row) = eval
  BY DEF EvalNodes, NodeValue
<1>. HIDE DEF eval
<1>. QED
  BY <1>4, <1>5


\* What eval of one record gives at each kind of node.
LEMMA NodesEvaluated ==
  ASSUME NEW s, NEW cols, NEW row, NEW k \in Nat, DOMAIN s = 1 .. k,
         \A n \in 1 .. k : s[n].op \in Logical => s[n].children \subseteq 1 .. n - 1,
         NEW n \in 1 .. k
  PROVE  LET e == EvalNodes(s, cols, row)
         IN  /\ s[n].op = "AND" => (e[n] <=> \A c \in s[n].children : e[c])
             /\ s[n].op = "OR" => (e[n] <=> \E c \in s[n].children : e[c])
             /\ s[n].op = "NOT" => (e[n] <=> \A c \in s[n].children : ~e[c])
             /\ s[n].op \notin Logical =>
                  (e[n] <=> EvalComparison(s[n], Cell(cols[s[n].column], row)))
<1>. DEFINE e == EvalNodes(s, cols, row)
<1>1. e[n] = NodeValue(s, cols, row, e, n)
  BY NodesDefined
<1>. HIDE DEF e
<1>2. s[n].op = "AND" => (e[n] <=> \A c \in s[n].children : e[c])
  BY <1>1 DEF NodeValue
<1>3. s[n].op = "OR" => (e[n] <=> \E c \in s[n].children : e[c])
  BY <1>1 DEF NodeValue
<1>4. s[n].op = "NOT" => (e[n] <=> \A c \in s[n].children : ~e[c])
  BY <1>1 DEF NodeValue
<1>5. s[n].op \notin Logical =>
        (e[n] <=> EvalComparison(s[n], Cell(cols[s[n].column], row)))
  BY <1>1 DEF NodeValue, Logical
<1>. QED
  BY <1>2, <1>3, <1>4, <1>5 DEF e

-----------------------------------------------------------------------------
(* Bits and bytes.                                                         *)

LEMMA Quotient ==
  ASSUME NEW a \in Int, NEW b \in Nat \ {0}, NEW q \in Int,
         b * q <= a, a < b * q + b
  PROVE  a \div b = q
OBVIOUS

\* Where a row's bit is.
LEMMA BitOfRow ==
  ASSUME NEW row \in Nat
  PROVE  /\ ByteOf(row) \in Nat /\ BitOf(row) \in Bit
         /\ row = ByteBits * ByteOf(row) + BitOf(row)
         /\ ByteBits * ByteOf(row) \in Nat
<1>1. ByteBits \in Nat \ {0}
  BY ByteAssumption
<1>2. row \div ByteBits \in Nat /\ ByteBits * (row \div ByteBits) \in Nat
  BY <1>1, QuotientBounds
<1>3. row % ByteBits = row - ByteBits * (row \div ByteBits) /\ row % ByteBits \in 0 .. ByteBits - 1
  BY <1>1
<1>. QED
  BY <1>2, <1>3 DEF ByteOf, BitOf, Bit

\* Two rows do not have the same bit.
LEMMA OwnBit ==
  ASSUME NEW row \in Nat, NEW other \in Nat,
         ByteOf(row) = ByteOf(other), BitOf(row) = BitOf(other)
  PROVE  row = other
BY BitOfRow

\* The bytes there are with one row more: a new one when the row's bit is the first.
LEMMA BytesForNext ==
  ASSUME NEW n \in Nat
  PROVE  /\ BytesFor(n + 1) = ByteOf(n) + 1
         /\ BytesFor(n) = IF BitOf(n) = 0 THEN ByteOf(n) ELSE ByteOf(n) + 1
         /\ BytesFor(n) \in Nat
<1>. DEFINE q == ByteOf(n)
            r == BitOf(n)
            B == ByteBits
<1>1. /\ q \in Nat /\ r \in Nat /\ r < B /\ B * q \in Nat /\ n = B * q + r
      /\ B \in Nat \ {0}
  BY BitOfRow, ByteAssumption DEF Bit
<1>. HIDE DEF q, r, B
<1>2. B * (q + 1) = B * q + B
  BY <1>1
<1>3. (n + 1 + B - 1) \div B = q + 1
  <2>1. n + 1 + B - 1 \in Int /\ q + 1 \in Int /\ B \in Nat \ {0}
    BY <1>1
  <2>2. B * (q + 1) <= n + 1 + B - 1 /\ n + 1 + B - 1 < B * (q + 1) + B
    BY <1>1, <1>2
  <2>. QED
    BY <2>1, <2>2, Quotient
<1>4. CASE r = 0
  <2>1. n + B - 1 \in Int /\ q \in Int /\ B \in Nat \ {0}
    BY <1>1
  <2>2. B * q <= n + B - 1 /\ n + B - 1 < B * q + B
    BY <1>1, <1>4
  <2>3. (n + B - 1) \div B = q
    BY <2>1, <2>2, Quotient
  <2>. QED
    BY <1>1, <1>3, <1>4, <2>3 DEF BytesFor, q, r, B
<1>5. CASE r # 0
  <2>1. n + B - 1 \in Int /\ q + 1 \in Int /\ B \in Nat \ {0}
    BY <1>1
  <2>2. B * (q + 1) <= n + B - 1 /\ n + B - 1 < B * (q + 1) + B
    BY <1>1, <1>2, <1>5
  <2>3. (n + B - 1) \div B = q + 1
    BY <2>1, <2>2, Quotient
  <2>. QED
    BY <1>1, <1>3, <1>5, <2>3 DEF BytesFor, q, r, B
<1>. QED
  BY <1>4, <1>5

Says(bitmap, row) == BitOf(row) \in bitmap[ByteOf(row) + 1]

\* The bitmap of n rows says which of the values are not NULL.
SaysNotNull(bitmap, n, values) ==
  /\ bitmap \in Seq(SUBSET Bit) /\ Len(bitmap) = BytesFor(n)
  /\ \A row \in 0 .. n - 1 : Says(bitmap, row) <=> values[row + 1] # Null

LEMMA RowsInBytes ==
  ASSUME NEW n \in Nat, NEW row \in 0 .. n - 1
  PROVE  ByteOf(row) + 1 \in 1 .. BytesFor(n) /\ ByteOf(row) <= ByteOf(n)
<1>. DEFINE q == ByteOf(n)
            r == BitOf(n)
            p == ByteOf(row)
            i == BitOf(row)
            B == ByteBits
<1>1. /\ q \in Nat /\ r \in Nat /\ r < B /\ B * q \in Nat /\ n = B * q + r
      /\ p \in Nat /\ i \in Nat /\ i < B /\ B * p \in Nat /\ row = B * p + i
      /\ B \in Nat \ {0}
  BY BitOfRow, ByteAssumption DEF Bit
<1>2. BytesFor(n) = IF r = 0 THEN q ELSE q + 1
  BY BytesForNext
<1>. HIDE DEF q, r, p, i, B
<1>3. p <= q
  <2>. SUFFICES ASSUME q + 1 <= p PROVE FALSE
    BY <1>1
  <2>1. (q + 1) * B <= p * B
    BY <1>1, ProductsAscend
  <2>2. (q + 1) * B = B * q + B /\ p * B = B * p
    BY <1>1
  <2>. QED
    BY <1>1, <2>1, <2>2
<1>4. r = 0 => p # q
  BY <1>1
<1>. QED
  BY <1>1, <1>2, <1>3, <1>4 DEF p, q

LEMMA PushBack ==
  ASSUME NEW bitmap, NEW n \in Nat, NEW values, SaysNotNull(bitmap, n, values)
  PROVE  SaysNotNull(bitmap_push_back(bitmap, n + 1, values[n + 1] # Null), n + 1, values)
<1>. DEFINE on == values[n + 1] # Null
            new == bitmap_push_back(bitmap, n + 1, on)
            q == ByteOf(n)
<1>. SUFFICES SaysNotNull(new, n + 1, values)
  OBVIOUS
<1>1. /\ q \in Nat /\ BitOf(n) \in Bit /\ BytesFor(n + 1) = q + 1
      /\ BytesFor(n) = IF BitOf(n) = 0 THEN q ELSE q + 1
  BY BitOfRow, BytesForNext
<1>2. bitmap \in Seq(SUBSET Bit) /\ Len(bitmap) = BytesFor(n)
  BY DEF SaysNotNull
<1>3. ASSUME NEW row \in 0 .. n - 1
      PROVE  /\ row \in Nat /\ ByteOf(row) + 1 \in 1 .. Len(bitmap) /\ BitOf(row) \in Bit
             /\ ByteOf(row) = q => BitOf(row) # BitOf(n)
  <2>1. row \in Nat /\ row # n
    OBVIOUS
  <2>2. ByteOf(row) + 1 \in 1 .. Len(bitmap)
    BY <1>2, RowsInBytes
  <2>3. BitOf(row) \in Bit
    BY <2>1, BitOfRow
  <2>4. ByteOf(row) = q => BitOf(row) # BitOf(n)
    BY <2>1, OwnBit
  <2>. QED
    BY <2>1, <2>2, <2>3, <2>4
<1>4. CASE BitOf(n) = 0
  <2>1. new = Append(bitmap, FirstBit(on))
    BY <1>1, <1>2, <1>4 DEF bitmap_push_back
  <2>2. FirstBit(on) \in SUBSET Bit /\ (BitOf(n) \in FirstBit(on) <=> on)
    BY <1>1, <1>4 DEF FirstBit
  <2>. DEFINE byte == FirstBit(on)
  <2>. HIDE DEF byte
  <2>3. /\ Append(bitmap, byte) \in Seq(SUBSET Bit)
        /\ Len(Append(bitmap, byte)) = q + 1
        /\ Append(bitmap, byte)[q + 1] = byte
        /\ \A b \in 1 .. Len(bitmap) : Append(bitmap, byte)[b] = bitmap[b]
    BY <1>1, <1>2, <1>4, <2>2 DEF byte
  <2>4. new \in Seq(SUBSET Bit) /\ Len(new) = BytesFor(n + 1)
    BY <1>1, <2>1, <2>3 DEF byte
  <2>5. Says(new, n) <=> on
    BY <2>1, <2>2, <2>3 DEF Says, byte
  <2>6. ASSUME NEW row \in 0 .. n - 1 PROVE Says(new, row) <=> Says(bitmap, row)
    BY <1>3, <2>1, <2>3 DEF Says, byte
  <2>. HIDE DEF new
  <2>7. ASSUME NEW row \in 0 .. n + 1 - 1 PROVE Says(new, row) <=> values[row + 1] # Null
    <3>1. row = n \/ row \in 0 .. n - 1
      OBVIOUS
    <3>. QED
      BY <2>5, <2>6, <3>1 DEF SaysNotNull
  <2>. QED
    BY <2>4, <2>7 DEF SaysNotNull
<1>5. CASE BitOf(n) # 0
  <2>1. new = SetBit(bitmap, n, on)
    <3>1. n + 1 - 1 = n
      OBVIOUS
    <3>. HIDE DEF on, q
    <3>. QED
      BY <1>1, <1>2, <1>5, <3>1 DEF bitmap_push_back
  <2>. DEFINE byte == IF on THEN bitmap[q + 1] \union {BitOf(n)} ELSE bitmap[q + 1] \ {BitOf(n)}
  <2>2. q + 1 \in 1 .. Len(bitmap) /\ bitmap[q + 1] \in SUBSET Bit
    BY <1>1, <1>2, <1>5
  <2>3. byte \in SUBSET Bit /\ (BitOf(n) \in byte <=> on)
        /\ \A bit : bit # BitOf(n) => (bit \in byte <=> bit \in bitmap[q + 1])
    BY <1>1, <2>2
  <2>4. new = [bitmap EXCEPT ![q + 1] = byte]
    BY <2>1 DEF SetBit
  <2>. HIDE DEF byte, new, on
  <2>5. /\ new \in Seq(SUBSET Bit) /\ Len(new) = Len(bitmap) /\ new[q + 1] = byte
        /\ \A b \in 1 .. Len(bitmap) : b # q + 1 => new[b] = bitmap[b]
    BY <1>2, <2>2, <2>3, <2>4
  <2>6. Says(new, n) <=> on
    BY <2>3, <2>5 DEF Says
  <2>7. ASSUME NEW row \in 0 .. n - 1 PROVE Says(new, row) <=> Says(bitmap, row)
    <3>1. CASE ByteOf(row) = q
      BY <1>3, <2>3, <2>5, <3>1 DEF Says
    <3>2. CASE ByteOf(row) # q
      <4>1. ByteOf(row) \in Nat /\ ByteOf(row) + 1 # q + 1
        BY <1>1, <1>3, <3>2, BitOfRow, SMTT(60)
      <4>. QED
        BY <1>3, <2>5, <4>1 DEF Says
    <3>. QED
      BY <3>1, <3>2
  <2>8. Len(new) = BytesFor(n + 1)
    BY <1>1, <1>2, <1>5, <2>5
  <2>9. ASSUME NEW row \in 0 .. n + 1 - 1 PROVE Says(new, row) <=> values[row + 1] # Null
    <3>1. row = n \/ row \in 0 .. n - 1
      OBVIOUS
    <3>. QED
      BY <2>6, <2>7, <3>1 DEF SaysNotNull, on
  <2>. QED
    BY <2>5, <2>8, <2>9 DEF SaysNotNull
<1>. QED
  BY <1>4, <1>5

\* A column of strings is pushed back to in the same way.
LEMMA SamePushBack ==
  ASSUME NEW bitmap, NEW n \in Nat, NEW on
  PROVE  string_bitmap_push_back(bitmap, n, on) = bitmap_push_back(bitmap, n + 1, on)
<1>1. BytesFor(n + 1) = ByteOf(n) + 1 /\ n + 1 - 1 = n
  BY BytesForNext
<1>. QED
  BY <1>1 DEF string_bitmap_push_back, bitmap_push_back

\* The column has the values it was given, NULL where they are NULL.
THEOREM ColumnReads ==
  ASSUME NEW type, NEW values, Len(values) \in Nat, DOMAIN values = 1 .. Len(values)
  PROVE  LET column == InnerColumn(type, values)
         IN  /\ column.type = type
             /\ SaysNotNull(column.bitmap, Len(values), values)
             /\ \A n \in 1 .. Len(values) :
                  /\ column.data[n] # Null
                  /\ Cell(column, n - 1) = values[n]
<1>. DEFINE k == Len(values)
            Push(bitmap, n) == bitmap_push_back(bitmap, n, values[n] # Null)
            Body(f, n) == IF n = 0 THEN <<>>
                          ELSE IF type = "INT32" THEN bitmap_push_back(f[n - 1], n, values[n] # Null)
                          ELSE string_bitmap_push_back(f[n - 1], n - 1, values[n] # Null)
            Upto(m, f) == f = [n \in 0 .. m |-> Body(f, n)]
            Step(f, n) == IF n = 0 THEN <<>> ELSE Push(f[n - 1], n)
            S == {m \in Nat : \E f : Upto(m, f)}
<1>1. ASSUME NEW f, NEW n \in Nat PROVE Body(f, n) = Step(f, n)
  <2>1. CASE n # 0
    <3>1. n - 1 \in Nat /\ (n - 1) + 1 = n
      BY <2>1
    <3>2. string_bitmap_push_back(f[n - 1], n - 1, values[n] # Null)
            = bitmap_push_back(f[n - 1], (n - 1) + 1, values[n] # Null)
      BY <3>1, SamePushBack
    <3>. QED
      BY <2>1, <3>1, <3>2
  <2>. QED
    BY <2>1
<1>2. 0 \in S
  <2>1. Upto(0, [n \in 0 .. 0 |-> <<>>])
    OBVIOUS
  <2>. QED
    BY <2>1
<1>. HIDE DEF Push
<1>3. ASSUME NEW m \in Nat, m \in S PROVE m + 1 \in S
  <2>1. PICK f : Upto(m, f)
    BY <1>3
  <2>. DEFINE g == [n \in 0 .. m + 1 |-> IF n = m + 1 THEN Body(f, n) ELSE f[n]]
  <2>2. \A n \in 0 .. m : g[n] = f[n]
    OBVIOUS
  <2>3. \A n \in 0 .. m + 1 : g[n] = Body(f, n)
    <3>. HIDE DEF Body
    <3>. QED
      BY <2>1
  <2>4. g = [n \in 0 .. m + 1 |-> g[n]]
    OBVIOUS
  <2>. HIDE DEF g
  <2>5. ASSUME NEW n \in 0 .. m + 1 PROVE g[n] = Body(g, n)
    <3>1. CASE n # 0
      <4>1. n - 1 \in 0 .. m
        BY <3>1
      <4>2. g[n - 1] = f[n - 1]
        BY <2>2, <4>1
      <4>. QED
        BY <2>3, <4>2
    <3>2. CASE n = 0
      BY <2>3, <3>2
    <3>. QED
      BY <3>1, <3>2
  <2>. HIDE DEF Body
  <2>. QED
    BY <2>4, <2>5
<1>4. k \in S
  <2>. HIDE DEF S
  <2>. QED
    BY <1>2, <1>3, Induction
<1>. DEFINE bitmaps == CHOOSE f : Upto(k, f)
<1>5. Upto(k, bitmaps)
  <2>1. \E f : Upto(k, f)
    BY <1>4
  <2>. HIDE DEF Upto
  <2>. QED
    BY <2>1
<1>6. InnerColumn(type, values)
        = [type |-> type,
           data |-> [n \in DOMAIN values |-> IF values[n] = Null THEN Empty ELSE values[n]],
           bitmap |-> bitmaps[k]]
  BY DEF InnerColumn
<1>. HIDE DEF bitmaps
<1>7. /\ bitmaps[0] = <<>>
      /\ \A n \in 1 .. k : bitmaps[n] = bitmap_push_back(bitmaps[n - 1], n, values[n] # Null)
  <2>1. bitmaps[0] = <<>>
    BY <1>5
  <2>2. ASSUME NEW n \in 1 .. k PROVE bitmaps[n] = Step(bitmaps, n)
    <3>1. n \in Nat /\ n \in 0 .. k
      OBVIOUS
    <3>2. Body(bitmaps, n) = Step(bitmaps, n)
      BY <1>1, <3>1
    <3>. HIDE DEF Body, Step
    <3>. QED
      BY <1>5, <3>1, <3>2
  <2>. QED
    BY <2>1, <2>2 DEF Push
<1>. DEFINE T == {n \in Nat : n <= k => SaysNotNull(bitmaps[n], n, values)}
<1>8. 0 \in T
  <2>1. BytesFor(0) = 0
    <3>1. 0 + ByteBits - 1 \in Int /\ 0 \in Int /\ ByteBits \in Nat \ {0}
      BY ByteAssumption
    <3>2. ByteBits * 0 <= 0 + ByteBits - 1 /\ 0 + ByteBits - 1 < ByteBits * 0 + ByteBits
      BY <3>1
    <3>. QED
      BY <3>1, <3>2, Quotient DEF BytesFor
  <2>2. <<>> \in Seq(SUBSET Bit) /\ Len(<<>>) = 0 /\ 0 .. 0 - 1 = {}
    OBVIOUS
  <2>3. SaysNotNull(<<>>, 0, values)
    BY <2>1, <2>2 DEF SaysNotNull
  <2>. QED
    BY <1>7, <2>3
<1>9. ASSUME NEW n \in Nat, n \in T PROVE n + 1 \in T
  <2>. SUFFICES ASSUME n + 1 <= k PROVE SaysNotNull(bitmaps[n + 1], n + 1, values)
    OBVIOUS
  <2>1. n + 1 \in 1 .. k /\ (n + 1) - 1 = n /\ SaysNotNull(bitmaps[n], n, values)
    BY <1>9
  <2>2. bitmaps[n + 1] = bitmap_push_back(bitmaps[n], n + 1, values[n + 1] # Null)
    BY <1>7, <2>1
  <2>. QED
    BY <2>1, <2>2, PushBack
<1>10. SaysNotNull(bitmaps[k], k, values)
  <2>1. k \in T
    <3>. HIDE DEF T
    <3>. QED
      BY <1>8, <1>9, Induction
  <2>. QED
    BY <2>1
<1>. DEFINE column == InnerColumn(type, values)
<1>11. ASSUME NEW n \in 1 .. k PROVE column.data[n] # Null /\ Cell(column, n - 1) = values[n]
  <2>1. column.data[n] = IF values[n] = Null THEN Empty ELSE values[n]
    BY <1>6
  <2>2. n - 1 \in 0 .. k - 1 /\ (n - 1) + 1 = n
    OBVIOUS
  <2>3. is_not_null(column, n - 1) <=> values[n] # Null
    BY <1>6, <1>10, <2>2 DEF is_not_null, SaysNotNull, Says
  <2>. HIDE DEF column
  <2>. QED
    BY <2>1, <2>2, <2>3, NullAssumption DEF Cell
<1>. QED
  BY <1>6, <1>10, <1>11

-----------------------------------------------------------------------------
(* The invariant.                                                          *)

Types ==
  /\ running \in BOOLEAN /\ tasks \in Nat
  /\ at \in [Threads -> Nat]
  /\ loaded = [t \in Threads |-> loaded[t]]
  /\ NumRows \in Nat /\ Len(columns) \in Nat

Comparing == running /\ Kind = "rows"

\* A comparison writes a bitmap of the whole table, and each thread is in its shard.
InShards ==
  Comparing =>
    /\ DOMAIN output = 1 .. NumBytes
    /\ \A t \in Threads : Boundary(t, "rows", tasks) <= at[t]

\* Only a comparison loads a byte, for a row of the shard.
LoadsInShard ==
  \A t \in Threads :
    loaded[t] # Nothing => Comparing /\ at[t] < Boundary(t + 1, "rows", tasks)

IInv == Types /\ InShards /\ LoadsInShard /\ NoLostBits
-----------------------------------------------------------------------------
\* A function of the numbers up to n has length n.
LEMMA Lengths ==
  ASSUME NEW n \in Nat, NEW s, DOMAIN s = 1 .. n, s = [m \in 1 .. n |-> s[m]]
  PROVE  Len(s) = n
<1>. DEFINE values == {s[m] : m \in 1 .. n}
<1>1. s \in [1 .. n -> values]
  OBVIOUS
<1>. HIDE DEF values
<1>2. s \in Seq(values)
  BY <1>1, IsASeq
<1>. QED
  BY <1>2, LenProperties

LEMMA InitIInv == Init => IInv
<1>. SUFFICES ASSUME Init PROVE IInv
  OBVIOUS
<1>1. PICK t \in Tables : columns = [c \in DOMAIN t |-> InnerColumn(t[c].type, t[c].values)]
  BY DEF Init
<1>2. /\ Len(t) \in Nat /\ DOMAIN t = 1 .. Len(t) /\ 1 \in DOMAIN t
      /\ Len(t[1].values) \in Nat /\ DOMAIN t[1].values = 1 .. Len(t[1].values)
  BY TableAssumption
<1>3. columns[1].data = [n \in 1 .. Len(t[1].values) |->
                           IF t[1].values[n] = Null THEN Empty ELSE t[1].values[n]]
  BY <1>1, <1>2 DEF InnerColumn
<1>4. NumRows \in Nat /\ Len(columns) \in Nat
  BY <1>1, <1>2, <1>3, Lengths DEF NumRows
<1>5. Types
  BY <1>4 DEF Init, PoolInit, Types
<1>6. ~Comparing /\ \A u \in Threads : loaded[u] = Nothing
  BY DEF Init, PoolInit, Comparing
<1>. QED
  BY <1>5, <1>6 DEF IInv, InShards, LoadsInShard, NoLostBits

NothingLoaded == \A t \in Threads : loaded[t] = Nothing

\* Where nothing is loaded and no comparison runs, only the types matter.
LEMMA NotComparing == Types /\ ~Comparing /\ NothingLoaded => IInv
BY DEF IInv, InShards, LoadsInShard, NoLostBits, NothingLoaded

\* A step that leaves alone what the invariant speaks of.
Unrelated == UNCHANGED <<running, tasks, columns, statement, node, stage, output, at, loaded>>

LEMMA UnrelatedStep == IInv /\ Unrelated => IInv'
<1>. SUFFICES ASSUME IInv, Unrelated PROVE IInv'
  OBVIOUS
<1>. USE DEF Unrelated
<1>1. NumRows' = NumRows /\ NumBytes' = NumBytes /\ (Comparing' <=> Comparing)
  BY DEF NumRows, NumBytes, Comparing, Kind
<1>2. \A t, n : Boundary(t, "rows", n)' = Boundary(t, "rows", n)
  BY <1>1 DEF Boundary
<1>3. Types'
  BY <1>1 DEF IInv, Types
<1>. QED
  BY <1>1, <1>2, <1>3 DEF IInv, InShards, LoadsInShard, NoLostBits

LEMMA StartEvalIInv == ASSUME IInv, NEW n, StartEval(n) PROVE IInv'
<1>. USE DEF StartEval, StartRun, Run, IInv, Types
<1>. DEFINE compares == statement[n].op \in Orders \union Likes
<1>1. ~Comparing /\ \A t \in Threads : loaded[t] = Nothing
  BY DEF Comparing, LoadsInShard
<1>2. NumRows' = NumRows /\ NumBytes' = NumBytes /\ NumRows \in Nat /\ NumBytes \in Nat
  <2>1. NumRows + ByteBits - 1 \in Nat /\ ByteBits \in Nat \ {0}
    BY ByteAssumption
  <2>2. NumBytes \in Nat
    BY <2>1, QuotientBounds DEF NumBytes, BytesFor
  <2>. QED
    BY <2>2 DEF NumRows, NumBytes
<1>3. /\ running' = TRUE /\ tasks' = NumBytes /\ tasks' \in Nat
      /\ loaded' = loaded /\ loaded' = [t \in Threads |-> loaded'[t]]
  BY <1>2
<1>4. Kind' = IF compares THEN "rows" ELSE "byte"
  BY DEF Kind
<1>5. at' = [t \in Threads |-> Boundary(t, IF compares THEN "rows" ELSE "byte", NumBytes)]
  OBVIOUS
<1>6. \A t \in Threads : t \in Nat
  BY NumThreadsAssumption DEF Threads
<1>7. \A t \in Threads : \A kind : Boundary(t, kind, NumBytes) \in Nat
  <2>. SUFFICES ASSUME NEW t \in Threads, NEW kind PROVE Boundary(t, kind, NumBytes) \in Nat
    OBVIOUS
  <2>1. t \in Nat /\ t <= t
    BY <1>6
  <2>2. begin_idx(t, NumBytes) \in Nat
    BY <1>2, <2>1, ShardsAscend
  <2>3. begin_idx(t, NumBytes) * ByteBits \in Nat
    BY <2>2, ByteAssumption
  <2>. QED
    BY <1>2, <2>2, <2>3 DEF Boundary
<1>8. Types'
  BY <1>2, <1>3, <1>5, <1>7
<1>9. InShards'
  <2>. SUFFICES ASSUME Comparing'
                PROVE  /\ DOMAIN output' = 1 .. NumBytes
                       /\ \A t \in Threads : Boundary(t, "rows", tasks)' <= at'[t]
    BY <1>2 DEF InShards
  <2>1. compares
    BY <1>4 DEF Comparing
  <2>2. output' = [b \in 1 .. NumBytes |-> {}]
    BY <2>1 DEF StartBitmap, Orders, Likes
  <2>3. \A t \in Threads : Boundary(t, "rows", tasks)' = Boundary(t, "rows", NumBytes)
    BY <1>2, <1>3 DEF Boundary
  <2>4. \A t \in Threads : at'[t] = Boundary(t, "rows", NumBytes)
    BY <1>5, <2>1
  <2>5. \A t \in Threads : Boundary(t, "rows", NumBytes) \in Nat
    BY <1>7
  <2>. QED
    BY <2>2, <2>3, <2>4, <2>5
<1>10. LoadsInShard' /\ NoLostBits'
  BY <1>1, <1>3 DEF LoadsInShard, NoLostBits
<1>. QED
  BY <1>8, <1>9, <1>10

LEMMA StartConvertIInv == IInv /\ StartConvert => IInv'
<1>. SUFFICES ASSUME IInv, StartConvert PROVE IInv'
  OBVIOUS
<1>. USE DEF StartConvert, StartRun, Run, IInv, Types
<1>1. NothingLoaded'
  BY DEF Comparing, LoadsInShard, NothingLoaded
<1>2. ~Comparing'
  BY DEF Comparing, Kind
<1>3. NumRows' = NumRows /\ columns' = columns
  BY DEF NumRows
<1>4. \A t \in Threads : Boundary(t, "column", Len(columns)) \in Nat
  <2>. TAKE t \in Threads
  <2>1. t \in Nat /\ t <= t
    BY NumThreadsAssumption DEF Threads
  <2>. QED
    BY <2>1, ShardsAscend DEF Boundary
<1>5. Types'
  BY <1>3, <1>4
<1>. QED
  BY <1>1, <1>2, <1>5, NotComparing, PTL

LEMMA LoadByteIInv == ASSUME IInv, NEW t \in Threads, LoadByte(t) PROVE IInv'
<1>. USE DEF LoadByte, IInv
<1>1. /\ NumRows' = NumRows /\ NumBytes' = NumBytes /\ Kind' = Kind
      /\ Comparing' = Comparing /\ Comparing
      /\ \A u, n : Boundary(u, "rows", n)' = Boundary(u, "rows", n)
  BY DEF NumRows, NumBytes, Kind, Comparing, Boundary, HasWork, HasStarted, pool
<1>2. Types'
  <2>1. loaded' = [u \in Threads |-> loaded'[u]]
    BY DEF Types
  <2>. QED
    BY <1>1, <2>1 DEF Types, pool
<1>3. InShards'
  BY <1>1 DEF InShards, pool
<1>4. LoadsInShard'
  BY <1>1 DEF LoadsInShard, Types, HasWork, pool
<1>5. NoLostBits'
  BY DEF NoLostBits, Types
<1>. QED
  BY <1>2, <1>3, <1>4, <1>5

LEMMA StoreByteIInv == ASSUME IInv, NEW t \in Threads, StoreByte(t) PROVE IInv'
<1>. USE DEF StoreByte, IInv
<1>1. /\ NumRows' = NumRows /\ NumBytes' = NumBytes /\ Comparing' = Comparing /\ Comparing
      /\ \A u, n : Boundary(u, "rows", n)' = Boundary(u, "rows", n)
      /\ tasks' = tasks
  BY DEF NumRows, NumBytes, Kind, Comparing, Boundary, LoadsInShard, pool
<1>2. at' = [at EXCEPT ![t] = @ + 1] /\ loaded' = [loaded EXCEPT ![t] = Nothing]
  BY DEF Advance
<1>3. Types'
  <2>1. loaded' = [u \in Threads |-> loaded'[u]]
    BY <1>2 DEF Types
  <2>2. at' \in [Threads -> Nat]
    BY <1>2 DEF Types
  <2>. QED
    BY <1>1, <2>1, <2>2 DEF Types, pool
<1>4. \A u \in Threads :
        u \in Nat /\ at[u] \in Nat /\ Boundary(u, "rows", tasks) \in Nat
  <2>. TAKE u \in Threads
  <2>1. u \in Nat /\ u <= u
    BY NumThreadsAssumption DEF Threads
  <2>2. begin_idx(u, tasks) \in Nat
    BY <2>1, ShardsAscend DEF Types
  <2>3. begin_idx(u, tasks) * ByteBits \in Nat
    BY <2>2, ByteAssumption
  <2>. QED
    BY <2>1, <2>2, <2>3 DEF Boundary, Types
<1>5. InShards'
  <2>1. \A u \in Threads : at[u] <= at'[u] /\ at'[u] \in Nat
    BY <1>2, <1>4 DEF Types
  <2>2. \A u \in Threads : Boundary(u, "rows", tasks) <= at[u]
    BY <1>1 DEF InShards
  <2>3. \A u \in Threads : Boundary(u, "rows", tasks)' <= at'[u]
    BY <1>1, <1>4, <2>1, <2>2
  <2>4. DOMAIN output' = 1 .. NumBytes
    BY <1>1 DEF InShards
  <2>. QED
    BY <1>1, <2>3, <2>4 DEF InShards
<1>6. \A u \in Threads : u # t => at'[u] = at[u] /\ loaded'[u] = loaded[u]
  BY <1>2 DEF Types
<1>7. loaded'[t] = Nothing
  BY <1>2 DEF Types
<1>8. LoadsInShard'
  BY <1>1, <1>6, <1>7 DEF LoadsInShard
<1>9. NoLostBits'
  <2>. SUFFICES ASSUME NEW u \in Threads, loaded'[u] # Nothing
                PROVE  output'[ByteOf(at'[u]) + 1] = loaded'[u]
    BY DEF NoLostBits
  <2>1. u # t /\ at'[u] = at[u] /\ loaded'[u] = loaded[u]
    BY <1>6, <1>7
  <2>2. /\ at[t] < Boundary(t + 1, "rows", tasks) /\ Boundary(t, "rows", tasks) <= at[t]
        /\ at[u] < Boundary(u + 1, "rows", tasks) /\ Boundary(u, "rows", tasks) <= at[u]
    BY <1>1, <2>1 DEF LoadsInShard, InShards
  <2>3. tasks \in Nat /\ NumRows \in Nat
    BY DEF Types
  <2>4. ByteOf(at[t]) # ByteOf(at[u]) /\ ByteOf(at[t]) \in Nat /\ ByteOf(at[u]) \in Nat
    <3>1. ByteOf(at[t]) # ByteOf(at[u])
      BY <1>4, <2>1, <2>2, <2>3, ShardsShareNoByte
    <3>. QED
      BY <3>1, <1>4, ByteAssumption, QuotientBounds DEF ByteOf
  <2>5. at[u] < NumRows
    BY <1>4, <2>2, <2>3, RowsInShard
  <2>6. ByteOf(at[u]) + 1 \in DOMAIN output
    BY <1>1, <1>4, <2>3, <2>5, RowHasByte DEF InShards
  <2>7. output'[ByteOf(at[u]) + 1] = output[ByteOf(at[u]) + 1]
    BY <2>4, <2>6
  <2>. QED
    BY <2>1, <2>7 DEF NoLostBits
<1>. QED
  BY <1>3, <1>5, <1>8, <1>9

LEMMA OtherThreadSteps ==
  ASSUME IInv, NEW t \in Threads, WriteByte(t) \/ ConvertColumn(t) PROVE IInv'
<1>. USE DEF WriteByte, ConvertColumn, IInv
<1>1. NumRows' = NumRows /\ ~Comparing /\ ~Comparing'
  BY DEF NumRows, Comparing, Kind, pool
<1>2. NothingLoaded'
  BY <1>1 DEF LoadsInShard, NothingLoaded
<1>3. Types'
  BY <1>1 DEF Types, Advance, pool
<1>. QED
  BY <1>1, <1>2, <1>3, NotComparing, PTL

LEMMA EndsIInv == IInv /\ (EndEval \/ EndConvert) => IInv'
<1>. SUFFICES ASSUME IInv, EndEval \/ EndConvert PROVE IInv'
  OBVIOUS
<1>. USE DEF EndEval, EndConvert, JoinThreads, IInv
<1>1. ~Comparing'
  BY DEF Comparing
<1>2. NothingLoaded'
  BY DEF AllEnded, NothingLoaded, work
<1>3. Types'
  BY DEF Types, NumRows, work
<1>. QED
  BY <1>1, <1>2, <1>3, NotComparing, PTL

LEMMA StepIInv == IInv /\ [Next]_vars => IInv'
<1>. SUFFICES ASSUME IInv, [Next]_vars PROVE IInv'
  OBVIOUS
<1>1. CASE \E n \in DOMAIN statement : EvalNotNull(n) \/ EvalNothing(n)
  BY <1>1, UnrelatedStep DEF EvalNotNull, EvalNothing, Unrelated, pool, work
<1>2. CASE \E n \in DOMAIN statement : StartEval(n)
  BY <1>2, StartEvalIInv
<1>3. CASE StartThread
  BY <1>3, UnrelatedStep DEF StartThread, Spawn, Unrelated, work
<1>4. CASE EndEval \/ EndConvert
  BY <1>4, EndsIInv
<1>5. CASE StartConvert
  BY <1>5, StartConvertIInv
<1>6. CASE \E t \in Threads : LoadByte(t)
  BY <1>6, LoadByteIInv
<1>7. CASE \E t \in Threads : StoreByte(t)
  BY <1>7, StoreByteIInv
<1>8. CASE \E t \in Threads : WriteByte(t) \/ ConvertColumn(t)
  BY <1>8, OtherThreadSteps
<1>9. CASE UNCHANGED vars
  BY <1>9, UnrelatedStep DEF vars, pool, work, Unrelated
<1>. QED
  BY <1>1, <1>2, <1>3, <1>4, <1>5, <1>6, <1>7, <1>8, <1>9 DEF Next, MainStep, ThreadStep

\* inner_column.h, execute: the shards of a comparison are whole bytes of its bitmap,
\* so that no thread's `output[byte] |= ...' undoes another's, whatever the number
\* of threads and of rows.
THEOREM NoBitLost == Spec => []NoLostBits
<1>1. Init => IInv
  BY InitIInv
<1>2. IInv /\ [Next]_vars => IInv'
  BY StepIInv
<1>3. IInv => NoLostBits
  BY DEF IInv
<1>. QED
  BY <1>1, <1>2, <1>3, PTL DEF Spec

-----------------------------------------------------------------------------
(* That the rows kept are the rows for which the statement is true.         *)

Bitmaps == [1 .. NumBytes -> SUBSET Bit]
RowSet == 0 .. NumRows - 1
NodeHolds(n, row) == EvalNodes(statement, columns, row)[n]

ColumnsOK ==
  /\ Len(columns) \in Nat \ {0} /\ DOMAIN columns = 1 .. Len(columns)
  /\ NumRows \in Nat /\ NumBytes \in Nat
  /\ \A c \in DOMAIN columns :
       /\ columns[c].bitmap \in Bitmaps
       /\ \A row \in RowSet : columns[c].data[row + 1] # Null

StatementOK ==
  /\ Root \in Nat /\ DOMAIN statement = 1 .. Root /\ DOMAIN bits = 1 .. Root
  /\ statement # <<>> => Root # 0
  /\ \A n \in 1 .. Root :
       OperationAt(statement[n], n) \/ ComparisonOf(statement[n], columns)

\* A node is evaluated in one run, after its operands; the columns of the result are
\* filled in the last.
StagesOK ==
  /\ node \in 0 .. Root
  /\ node # 0 <=> running /\ stage = "eval"
  /\ stage \in {"eval", "convert", "done"}
  /\ stage = "done" => ~running
  /\ stage # "eval" /\ statement # <<>> => bits[Root] # Nothing
  /\ node # 0 => /\ \A c \in Operands(node) : bits[c] # Nothing
                 /\ statement[node].op # "IS_NOT_NULL"
                 /\ tasks = NumBytes
  /\ running /\ stage = "convert" => tasks = Len(columns)

\* Every thread is in its shard.
AtInShard ==
  running => \A t \in Threads : /\ at[t] \in Nat
                                /\ Boundary(t, Kind, tasks) <= at[t]
                                /\ at[t] <= Boundary(t + 1, Kind, tasks)

\* A bitmap with the rows for which the node is true.
Evaluates(bitmap, n) ==
  /\ bitmap \in Bitmaps
  /\ \A row \in RowSet : Says(bitmap, row) <=> NodeHolds(n, row)

Evaluated == \A n \in DOMAIN statement : bits[n] # Nothing => Evaluates(bits[n], n)

\* The row, byte or column that a thread has left behind.
Passed(p) == \E t \in Threads : Boundary(t, Kind, tasks) <= p /\ p < at[t]

\* A comparison has set the bits of the rows that match, up to where its threads are.
RowsSoFar ==
  Comparing =>
    /\ output \in Bitmaps
    /\ \A row \in RowSet : Says(output, row) <=> Passed(row) /\ RowMatches(row)

\* The other nodes have written the bytes they have passed; the rest is as it was.
NodeByte(b) ==
  IF statement[node].op \in {"IS_NULL", "NOT"} THEN Bit \ StartBitmap(node)[b]
  ELSE ByteResult(b)

BytesSoFar ==
  running /\ Kind = "byte" =>
    /\ output \in Bitmaps
    /\ \A b \in 1 .. NumBytes :
         output[b] = IF Passed(b - 1) THEN NodeByte(b) ELSE StartBitmap(node)[b]

Filled(c) == ret[c] = Inserted(columns[c]) /\ ret_rows = Len(RowsKept)

ColumnsSoFar ==
  /\ DOMAIN ret = DOMAIN columns
  /\ running /\ stage = "convert" => \A c \in DOMAIN columns : Passed(c - 1) => Filled(c)
  /\ stage = "done" => \A c \in DOMAIN columns : Filled(c)

FInv ==
  /\ ColumnsOK /\ StatementOK /\ StagesOK /\ AtInShard
  /\ Evaluated /\ RowsSoFar /\ BytesSoFar /\ ColumnsSoFar

-----------------------------------------------------------------------------
(* What the nodes compute.                                                 *)

LEMMA OperandsBefore ==
  ASSUME StatementOK, NEW n \in 1 .. Root
  PROVE  /\ statement[n].op \in Logical => /\ Operands(n) = statement[n].children
                                           /\ Operands(n) \subseteq 1 .. n - 1
                                           /\ statement[n].op = "NOT" => \E c : Operands(n) = {c}
         /\ statement[n].op \notin Logical => ComparisonOf(statement[n], columns)
BY DEF StatementOK, OperationAt, ComparisonOf, Operands, Logical, NullTests, Orders, Likes

LEMMA HoldsAtNode ==
  ASSUME StatementOK, NEW n \in 1 .. Root, NEW row
  PROVE  /\ statement[n].op = "AND" =>
              (NodeHolds(n, row) <=> \A c \in Operands(n) : NodeHolds(c, row))
         /\ statement[n].op = "OR" =>
              (NodeHolds(n, row) <=> \E c \in Operands(n) : NodeHolds(c, row))
         /\ statement[n].op = "NOT" =>
              (NodeHolds(n, row) <=> \A c \in Operands(n) : ~NodeHolds(c, row))
         /\ statement[n].op \notin Logical =>
              (NodeHolds(n, row) <=>
                 EvalComparison(statement[n], Cell(columns[statement[n].column], row)))
<1>. DEFINE e == EvalNodes(statement, columns, row)
<1>1. Root \in Nat /\ DOMAIN statement = 1 .. Root
  BY DEF StatementOK
<1>2. \A m \in 1 .. Root :
        statement[m].op \in Logical => statement[m].children \subseteq 1 .. m - 1
  BY OperandsBefore
<1>3. /\ statement[n].op = "AND" => (e[n] <=> \A c \in statement[n].children : e[c])
      /\ statement[n].op = "OR" => (e[n] <=> \E c \in statement[n].children : e[c])
      /\ statement[n].op = "NOT" => (e[n] <=> \A c \in statement[n].children : ~e[c])
      /\ statement[n].op \notin Logical =>
           (e[n] <=> EvalComparison(statement[n], Cell(columns[statement[n].column], row)))
  BY <1>1, <1>2, NodesEvaluated
<1>4. statement[n].op \in {"AND", "OR", "NOT"} => Operands(n) = statement[n].children
  BY OperandsBefore DEF Logical
<1>. HIDE DEF e
<1>5. \A m : NodeHolds(m, row) = e[m]
  BY DEF NodeHolds, e
<1>. QED
  BY <1>3, <1>4, <1>5

\* The kernel of a comparison decides a row as eval of the record does.
LEMMA MatchesHolds ==
  ASSUME ColumnsOK, StatementOK, StagesOK, Comparing, NEW row \in RowSet
  PROVE  RowMatches(row) <=> NodeHolds(node, row)
<1>. DEFINE cmp == statement[node]
            col == columns[cmp.column]
            data == col.data[row + 1]
<1>1. node \in 1 .. Root /\ cmp.op \in Orders \union Likes /\ cmp.op \notin Logical
  BY DEF Comparing, Kind, StagesOK, StatementOK, Orders, Likes, Logical
<1>2. ComparisonOf(cmp, columns)
  BY <1>1, OperandsBefore
<1>3. cmp.column \in DOMAIN columns /\ data # Null
  BY <1>2 DEF ComparisonOf, ColumnsOK
<1>4. NodeHolds(node, row) <=> EvalComparison(cmp, Cell(col, row))
  BY <1>1, HoldsAtNode
<1>5. cmp.op \in Orders => Literal(cmp.column, cmp.value) = cmp.value
  BY <1>2 DEF ComparisonOf, Literal
<1>6. Cell(col, row) = IF is_not_null(col, row) THEN data ELSE Null
  BY DEF Cell
<1>7. RowMatches(row) <=>
        /\ is_not_null(col, row)
        /\ CASE cmp.op = "LIKE" -> Like(data, cmp.value)
             [] cmp.op = "NOT_LIKE" -> ~Like(data, cmp.value)
             [] OTHER -> Compare(cmp.op, data, Literal(cmp.column, cmp.value))
  BY DEF RowMatches
<1>. HIDE DEF cmp, col, data
<1>8. CASE cmp.op = "LIKE"
  BY <1>3, <1>4, <1>6, <1>7, <1>8 DEF EvalComparison
<1>9. CASE cmp.op = "NOT_LIKE"
  BY <1>3, <1>4, <1>6, <1>7, <1>9 DEF EvalComparison
<1>10. CASE cmp.op \in Orders
  <2>1. cmp.op \notin {"IS_NULL", "IS_NOT_NULL", "LIKE", "NOT_LIKE"}
    BY <1>10 DEF Orders
  <2>2. EvalComparison(cmp, Cell(col, row)) <=>
          Cell(col, row) # Null /\ Compare(cmp.op, Cell(col, row), cmp.value)
    BY <2>1 DEF EvalComparison
  <2>3. RowMatches(row) <=> is_not_null(col, row) /\ Compare(cmp.op, data, cmp.value)
    BY <1>5, <1>7, <1>10, <2>1
  <2>. QED
    BY <1>3, <1>4, <1>6, <2>2, <2>3
<1>. QED
  BY <1>1, <1>8, <1>9, <1>10 DEF Likes

\* What a node that is not a comparison writes into a byte.
LEMMA NodeByteHolds ==
  ASSUME ColumnsOK, StatementOK, StagesOK, Evaluated, running, Kind = "byte"
  PROVE  /\ StartBitmap(node) \in Bitmaps
         /\ \A b \in 1 .. NumBytes : NodeByte(b) \in SUBSET Bit
         /\ \A row \in RowSet :
              BitOf(row) \in NodeByte(ByteOf(row) + 1) <=> NodeHolds(node, row)
<1>. DEFINE op == statement[node].op
<1>1. /\ node \in 1 .. Root /\ stage = "eval" /\ op \notin Orders \union Likes
      /\ op # "IS_NOT_NULL" /\ \A c \in Operands(node) : bits[c] # Nothing
  BY DEF Kind, StagesOK, StatementOK
<1>2. op \in {"IS_NULL", "NOT", "AND", "OR"}
  BY <1>1, OperandsBefore DEF ComparisonOf, Logical, NullTests
<1>3. ASSUME NEW row \in RowSet
      PROVE  row \in Nat /\ ByteOf(row) + 1 \in 1 .. NumBytes /\ BitOf(row) \in Bit
  <2>1. row \in Nat /\ row < NumRows /\ NumRows \in Nat
    BY DEF RowSet, ColumnsOK
  <2>. QED
    BY <2>1, RowHasByte, BitOfRow
<1>4. ASSUME NEW c \in Operands(node) PROVE Evaluates(bits[c], c)
  <2>1. c \in DOMAIN statement
    BY <1>1, OperandsBefore DEF Operands, StatementOK
  <2>. QED
    BY <1>1, <2>1 DEF Evaluated
<1>. HIDE DEF op
<1>5. CASE op = "IS_NULL"
  <2>. DEFINE col == columns[statement[node].column]
  <2>1. ComparisonOf(statement[node], columns) /\ op \notin Logical
    BY <1>1, <1>5, OperandsBefore DEF op, Logical
  <2>2. StartBitmap(node) = col.bitmap /\ col.bitmap \in Bitmaps
    BY <1>5, <2>1 DEF op, StartBitmap, ComparisonOf, ColumnsOK
  <2>3. \A b : NodeByte(b) = Bit \ col.bitmap[b]
    BY <1>5, <2>2 DEF op, NodeByte
  <2>4. ASSUME NEW row \in RowSet
        PROVE  BitOf(row) \in NodeByte(ByteOf(row) + 1) <=> NodeHolds(node, row)
    <3>1. NodeHolds(node, row) <=> EvalComparison(statement[node], Cell(col, row))
      BY <1>1, <2>1, HoldsAtNode DEF op
    <3>2. EvalComparison(statement[node], Cell(col, row)) <=> Cell(col, row) = Null
      BY <1>5 DEF op, EvalComparison
    <3>3. col.data[row + 1] # Null
      BY <2>1 DEF ColumnsOK, ComparisonOf
    <3>. QED
      BY <1>3, <2>3, <3>1, <3>2, <3>3 DEF Cell, is_not_null
  <2>. QED
    BY <2>2, <2>3, <2>4
<1>6. CASE op = "NOT"
  <2>1. PICK c : Operands(node) = {c}
    BY <1>1, <1>6, OperandsBefore DEF op, Logical
  <2>2. StartBitmap(node) = bits[c]
    BY <1>6, <2>1 DEF op, StartBitmap
  <2>3. Evaluates(bits[c], c)
    BY <1>4, <2>1
  <2>4. \A b : NodeByte(b) = Bit \ bits[c][b]
    BY <1>6, <2>2 DEF op, NodeByte
  <2>5. ASSUME NEW row \in RowSet
        PROVE  BitOf(row) \in NodeByte(ByteOf(row) + 1) <=> NodeHolds(node, row)
    <3>1. NodeHolds(node, row) <=> ~NodeHolds(c, row)
      BY <1>1, <1>6, <2>1, HoldsAtNode DEF op
    <3>. QED
      BY <1>3, <2>3, <2>4, <3>1 DEF Evaluates, Says
  <2>. QED
    BY <2>2, <2>3, <2>4, <2>5 DEF Evaluates
<1>7. CASE op \in {"AND", "OR"}
  <2>1. StartBitmap(node) = [b \in 1 .. NumBytes |-> {}]
    BY <1>7 DEF op, StartBitmap
  <2>2. \A b : NodeByte(b) = ByteResult(b)
    BY <1>7 DEF op, NodeByte
  <2>3. StartBitmap(node) \in Bitmaps
    BY <2>1 DEF Bitmaps
  <2>4. ASSUME NEW row \in RowSet, NEW c \in Operands(node)
        PROVE  BitOf(row) \in bits[c][ByteOf(row) + 1] <=> NodeHolds(c, row)
    BY <1>4 DEF Evaluates, Says
  <2>5. CASE op = "AND"
    <3>1. \A b : ByteResult(b) = {bit \in Bit : \A c \in Operands(node) : bit \in bits[c][b]}
      BY <2>5 DEF op, ByteResult
    <3>2. ASSUME NEW row \in RowSet
          PROVE  BitOf(row) \in NodeByte(ByteOf(row) + 1) <=> NodeHolds(node, row)
      <4>1. NodeHolds(node, row) <=> \A c \in Operands(node) : NodeHolds(c, row)
        BY <1>1, <2>5, HoldsAtNode DEF op
      <4>. QED
        BY <1>3, <2>2, <2>4, <3>1, <4>1
    <3>. QED
      BY <2>2, <2>3, <3>1, <3>2
  <2>6. CASE op = "OR"
    <3>1. \A b : ByteResult(b) = UNION {bits[c][b] : c \in Operands(node)}
      BY <2>6 DEF op, ByteResult
    <3>2. ASSUME NEW row \in RowSet
          PROVE  BitOf(row) \in NodeByte(ByteOf(row) + 1) <=> NodeHolds(node, row)
      <4>1. NodeHolds(node, row) <=> \E c \in Operands(node) : NodeHolds(c, row)
        BY <1>1, <2>6, HoldsAtNode DEF op
      <4>. QED
        BY <2>2, <2>4, <3>1, <4>1
    <3>3. ASSUME NEW b \in 1 .. NumBytes PROVE NodeByte(b) \in SUBSET Bit
      <4>1. \A c \in Operands(node) : bits[c][b] \in SUBSET Bit
        BY <1>4 DEF Evaluates, Bitmaps
      <4>. QED
        BY <2>2, <3>1, <4>1
    <3>. QED
      BY <2>3, <3>2, <3>3
  <2>. QED
    BY <1>7, <2>5, <2>6
<1>. QED
  BY <1>2, <1>5, <1>6, <1>7

-----------------------------------------------------------------------------
(* Shards leave nothing out.                                               *)

LEMMA LeastNumber ==
  ASSUME NEW S, NEW n \in Nat, n \in S
  PROVE  \E m \in Nat : m \in S /\ \A k \in Nat : k \in S => m <= k
<1>. DEFINE T == {k \in Nat : k \in S}
<1>1. T # {} /\ T \subseteq Nat
  OBVIOUS
<1>2. PICK m \in T : \A k \in T : ~(<<k, m>> \in OpToRel(<, Nat))
  BY <1>1, NatLessThanWellFounded, WFMin
<1>3. \A k \in T : ~(k < m)
  BY <1>2 DEF OpToRel
<1>. QED
  BY <1>3

LEMMA ShardEnds ==
  ASSUME NEW n \in Nat
  PROVE  begin_idx(0, n) = 0 /\ begin_idx(NumThreads, n) = n
<1>. DEFINE base == n \div NumThreads
            rem == n % NumThreads
<1>1. NumThreads \in Nat \ {0}
  BY NumThreadsAssumption
<1>2. base \in Nat /\ rem \in Nat /\ rem < NumThreads /\ NumThreads * base \in Nat
      /\ rem = n - NumThreads * base
  BY <1>1
<1>3. /\ begin_idx(0, n) = 0 * base + IF 0 < rem THEN 0 ELSE rem
      /\ begin_idx(NumThreads, n) = NumThreads * base + IF NumThreads < rem THEN NumThreads ELSE rem
  BY DEF begin_idx
<1>. HIDE DEF base, rem
<1>. QED
  BY <1>1, <1>2, <1>3

LEMMA BoundaryAscends ==
  ASSUME NumRows \in Nat, NEW n \in Nat, NEW kind, NEW t \in Nat
  PROVE  /\ Boundary(t, kind, n) \in Nat /\ Boundary(t + 1, kind, n) \in Nat
         /\ Boundary(t, kind, n) <= Boundary(t + 1, kind, n)
<1>. DEFINE lo == begin_idx(t, n)
            hi == begin_idx(t + 1, n)
<1>1. lo \in Nat /\ hi \in Nat /\ lo <= hi
  <2>1. t + 1 \in Nat /\ t <= t + 1 /\ t + 1 <= t + 1
    OBVIOUS
  <2>. QED
    BY <2>1, ShardsAscend
<1>2. lo * ByteBits \in Nat /\ hi * ByteBits \in Nat /\ lo * ByteBits <= hi * ByteBits
  BY <1>1, ByteAssumption, ProductsAscend
<1>3. /\ Boundary(t, kind, n) = IF kind = "rows"
                                 THEN IF lo * ByteBits < NumRows THEN lo * ByteBits ELSE NumRows
                                 ELSE lo
      /\ Boundary(t + 1, kind, n) = IF kind = "rows"
                                     THEN IF hi * ByteBits < NumRows THEN hi * ByteBits ELSE NumRows
                                     ELSE hi
  BY DEF Boundary
<1>. HIDE DEF lo, hi
<1>. QED
  BY <1>1, <1>2, <1>3

\* What a run is about: rows, bytes or columns.
Total(kind, n) == IF kind = "rows" THEN NumRows ELSE n

LEMMA EveryoneHasAShard ==
  ASSUME NumRows \in Nat, NEW n \in Nat, NEW kind, kind = "rows" => n = NumBytes,
         NEW p \in Nat, p < Total(kind, n)
  PROVE  \E t \in Threads : Boundary(t, kind, n) <= p /\ p < Boundary(t + 1, kind, n)
<1>. DEFINE B(t) == Boundary(t, kind, n)
            S == {t \in Nat : p < B(t + 1)}
<1>1. NumThreads \in Nat \ {0} /\ NumThreads - 1 \in Nat /\ (NumThreads - 1) + 1 = NumThreads
  BY NumThreadsAssumption
<1>2. B(0) = 0
  BY ShardEnds, ByteAssumption DEF Boundary
<1>3. B(NumThreads) = Total(kind, n)
  <2>1. begin_idx(NumThreads, n) = n
    BY ShardEnds
  <2>2. CASE kind = "rows"
    <3>1. ByteBits \in Nat \ {0} /\ NumRows + ByteBits - 1 \in Nat
      BY ByteAssumption
    <3>2. NumBytes = (NumRows + ByteBits - 1) \div ByteBits
      BY DEF NumBytes, BytesFor
    <3>3. /\ NumBytes \in Nat /\ ByteBits * NumBytes \in Nat
          /\ NumRows + ByteBits - 1 < ByteBits * NumBytes + ByteBits
          /\ NumBytes * ByteBits = ByteBits * NumBytes
      <4>1. NumBytes \in Nat /\ NumRows + ByteBits - 1 < ByteBits * NumBytes + ByteBits
        BY <3>1, <3>2, QuotientBounds
      <4>. QED
        BY <3>1, <4>1
    <3>4. ~(NumBytes * ByteBits < NumRows)
      BY <3>1, <3>3
    <3>5. n * ByteBits = NumBytes * ByteBits
      BY <2>2
    <3>6. B(NumThreads) = NumRows \/ n * ByteBits < NumRows
      BY <2>1, <2>2 DEF Boundary
    <3>. QED
      BY <2>2, <3>4, <3>5, <3>6 DEF Total
  <2>3. CASE kind # "rows"
    BY <2>1, <2>3 DEF Boundary, Total
  <2>. QED
    BY <2>2, <2>3
<1>4. \A t \in Nat : B(t) \in Nat
  BY BoundaryAscends
<1>. HIDE DEF B
<1>5. NumThreads - 1 \in S
  BY <1>1, <1>3
<1>6. PICK m \in Nat : m \in S /\ \A k \in Nat : k \in S => m <= k
  <2>. HIDE DEF S
  <2>. QED
    BY <1>1, <1>5, LeastNumber
<1>7. m \in Threads /\ p < B(m + 1)
  BY <1>1, <1>5, <1>6 DEF Threads
<1>8. B(m) <= p
  <2>1. CASE m = 0
    BY <1>2, <2>1
  <2>2. CASE m # 0
    <3>1. m - 1 \in Nat /\ m - 1 \notin S /\ (m - 1) + 1 = m
      BY <1>6, <2>2
    <3>. QED
      BY <1>4, <3>1
  <2>. QED
    BY <2>1, <2>2
<1>. QED
  BY <1>7, <1>8 DEF B

\* A byte or column is in one shard.
LEMMA InOneShard ==
  ASSUME NumRows \in Nat, NEW n \in Nat, NEW kind, kind # "rows",
         NEW t \in Nat, NEW u \in Nat, NEW p \in Nat,
         Boundary(t, kind, n) <= p, p < Boundary(t + 1, kind, n),
         Boundary(u, kind, n) <= p, p < Boundary(u + 1, kind, n)
  PROVE  t = u
<1>1. \A m : Boundary(m, kind, n) = begin_idx(m, n)
  BY DEF Boundary
<1>2. \A a, b \in Nat : a <= b => begin_idx(a, n) \in Nat /\ begin_idx(a, n) <= begin_idx(b, n)
  BY ShardsAscend
<1>3. begin_idx(t, n) \in Nat /\ begin_idx(u, n) \in Nat
      /\ begin_idx(t + 1, n) \in Nat /\ begin_idx(u + 1, n) \in Nat
  <2>1. t <= t /\ u <= u /\ t + 1 <= t + 1 /\ u + 1 <= u + 1 /\ t + 1 \in Nat /\ u + 1 \in Nat
    OBVIOUS
  <2>. QED
    BY <1>2, <2>1
<1>4. CASE t < u
  <2>1. t + 1 \in Nat /\ t + 1 <= u
    BY <1>4
  <2>2. begin_idx(t + 1, n) <= begin_idx(u, n)
    BY <1>2, <2>1
  <2>. QED
    BY <1>1, <1>3, <2>2
<1>5. CASE u < t
  <2>1. u + 1 \in Nat /\ u + 1 <= t
    BY <1>5
  <2>2. begin_idx(u + 1, n) <= begin_idx(t, n)
    BY <1>2, <2>1
  <2>. QED
    BY <1>1, <1>3, <2>2
<1>. QED
  BY <1>4, <1>5

-----------------------------------------------------------------------------
(* The steps.                                                              *)

LEMMA InitFInv == Init => FInv
<1>. SUFFICES ASSUME Init PROVE FInv
  OBVIOUS
<1>1. PICK t \in Tables : columns = [c \in DOMAIN t |-> InnerColumn(t[c].type, t[c].values)]
  BY DEF Init
<1>. DEFINE k == Len(t[1].values)
<1>2. /\ Len(t) \in Nat \ {0} /\ DOMAIN t = 1 .. Len(t) /\ 1 \in DOMAIN t
      /\ k \in Nat
      /\ \A c \in DOMAIN t : Len(t[c].values) = k /\ DOMAIN t[c].values = 1 .. k
  BY TableAssumption
<1>3. ASSUME NEW c \in DOMAIN t
      PROVE  /\ columns[c].type = t[c].type
             /\ SaysNotNull(columns[c].bitmap, k, t[c].values)
             /\ \A n \in 1 .. k : columns[c].data[n] # Null
  <2>1. Len(t[c].values) = k /\ k \in Nat /\ DOMAIN t[c].values = 1 .. Len(t[c].values)
    BY <1>2
  <2>2. columns[c] = InnerColumn(t[c].type, t[c].values)
    BY <1>1
  <2>. HIDE DEF k
  <2>. QED
    BY <2>1, <2>2, ColumnReads
<1>4. columns[1].data = [n \in 1 .. k |-> IF t[1].values[n] = Null THEN Empty ELSE t[1].values[n]]
  BY <1>1, <1>2 DEF InnerColumn
<1>. HIDE DEF k
<1>5. NumRows = k /\ Len(columns) = Len(t) /\ DOMAIN columns = 1 .. Len(t)
  BY <1>1, <1>2, <1>4, Lengths DEF NumRows
<1>6. NumBytes = BytesFor(k) /\ BytesFor(k) \in Nat
  BY <1>2, <1>5, BytesForNext DEF NumBytes
<1>7. ColumnsOK
  <2>1. ASSUME NEW c \in DOMAIN t PROVE columns[c].bitmap \in Bitmaps
    BY <1>3, <1>6 DEF SaysNotNull, Bitmaps
  <2>2. ASSUME NEW c \in DOMAIN t, NEW row \in RowSet PROVE columns[c].data[row + 1] # Null
    <3>1. row + 1 \in 1 .. k
      BY <1>2, <1>5 DEF RowSet
    <3>. QED
      BY <1>3, <3>1
  <2>. QED
    BY <1>2, <1>5, <1>6, <2>1, <2>2 DEF ColumnsOK
<1>8. StatementOK
  <2>1. statement \in Statements /\ DOMAIN bits = DOMAIN statement
    BY DEF Init
  <2>2. CASE statement = <<>>
    <3>1. Root = 0 /\ DOMAIN statement = 1 .. 0
      BY <2>2 DEF Root
    <3>. QED
      BY <2>1, <2>2, <3>1 DEF StatementOK
  <2>3. CASE statement # <<>>
    <3>1. /\ Root \in Nat \ {0} /\ DOMAIN statement = 1 .. Root
          /\ \A n \in DOMAIN statement :
               OperationAt(statement[n], n) \/ ComparisonOf(statement[n], t)
      BY <2>1, <2>3, StatementAssumption DEF Root
    <3>2. \A n \in 1 .. Root :
            ComparisonOf(statement[n], t) => ComparisonOf(statement[n], columns)
      <4>1. \A c \in DOMAIN t : c \in DOMAIN columns /\ columns[c].type = t[c].type
        BY <1>2, <1>3, <1>5
      <4>. QED
        BY <4>1 DEF ComparisonOf
    <3>. QED
      BY <2>1, <3>1, <3>2 DEF StatementOK
  <2>. QED
    BY <2>2, <2>3
<1>9. StagesOK
  BY <1>8 DEF Init, PoolInit, StagesOK, StatementOK
<1>10. ~running /\ stage = "eval" /\ \A n \in DOMAIN statement : bits[n] = Nothing
  BY DEF Init, PoolInit
<1>11. ColumnsSoFar
  BY <1>10 DEF Init, ColumnsSoFar
<1>. QED
  BY <1>7, <1>8, <1>9, <1>10, <1>11
     DEF FInv, AtInShard, Evaluated, RowsSoFar, BytesSoFar, Comparing

\* What depends on the table and the statement alone.
LEMMA SameTable ==
  ASSUME UNCHANGED <<columns, statement>>
  PROVE  /\ NumRows' = NumRows /\ NumBytes' = NumBytes /\ Root' = Root
         /\ RowSet' = RowSet /\ Bitmaps' = Bitmaps /\ RowNumbers' = RowNumbers
         /\ ColumnsOK => ColumnsOK'
         /\ \A t, kind, n : Boundary(t, kind, n)' = Boundary(t, kind, n)
         /\ \A n, row : NodeHolds(n, row)' = NodeHolds(n, row)
         /\ \A b, n : Evaluates(b, n)' <=> Evaluates(b, n)
<1>1. /\ NumRows' = NumRows /\ NumBytes' = NumBytes /\ Root' = Root
      /\ RowSet' = RowSet /\ Bitmaps' = Bitmaps /\ RowNumbers' = RowNumbers
  BY DEF NumRows, NumBytes, Root, RowSet, Bitmaps, RowNumbers
<1>2. ColumnsOK => ColumnsOK'
  BY <1>1 DEF ColumnsOK
<1>3. \A t, kind, n : Boundary(t, kind, n)' = Boundary(t, kind, n)
  BY <1>1 DEF Boundary
<1>4. \A n, row : NodeHolds(n, row)' = NodeHolds(n, row)
  BY DEF NodeHolds
<1>5. \A b, n : Evaluates(b, n)' <=> Evaluates(b, n)
  BY <1>1, <1>4 DEF Evaluates
<1>. QED
  BY <1>1, <1>2, <1>3, <1>4, <1>5

LEMMA SameStatement ==
  ASSUME UNCHANGED <<columns, statement>>, DOMAIN bits' = DOMAIN bits, StatementOK
  PROVE  StatementOK'
BY SameTable DEF StatementOK

\* A step that leaves alone what this invariant speaks of.
Untouched ==
  UNCHANGED <<running, tasks, columns, statement, bits, node, stage, output, at, ret, ret_rows>>

LEMMA UntouchedStep == FInv /\ Untouched => FInv'
<1>. SUFFICES ASSUME FInv, Untouched PROVE FInv'
  OBVIOUS
<1>. USE DEF Untouched, FInv
<1>1. /\ NumRows' = NumRows /\ NumBytes' = NumBytes /\ Root' = Root
      /\ RowSet' = RowSet /\ Bitmaps' = Bitmaps /\ RowNumbers' = RowNumbers
      /\ ColumnsOK' /\ StatementOK'
      /\ \A t, kind, n : Boundary(t, kind, n)' = Boundary(t, kind, n)
      /\ \A b, n : Evaluates(b, n)' <=> Evaluates(b, n)
  BY SameTable, SameStatement
<1>2. Kind' = Kind /\ \A n : Operands(n)' = Operands(n)
  BY DEF Kind, Operands
<1>3. \A p : Passed(p)' <=> Passed(p)
  BY <1>1, <1>2 DEF Passed
<1>4. StagesOK' /\ AtInShard' /\ Evaluated'
  BY <1>1, <1>2 DEF StagesOK, AtInShard, Evaluated
<1>5. RowsSoFar'
  <2>1. \A row : RowMatches(row)' <=> RowMatches(row)
    BY DEF RowMatches, Literal
  <2>. QED
    BY <1>1, <1>2, <1>3, <2>1 DEF RowsSoFar, Comparing, Says
<1>6. BytesSoFar'
  <2>1. \A n : StartBitmap(n)' = StartBitmap(n)
    BY <1>1, <1>2 DEF StartBitmap
  <2>2. \A b : ByteResult(b)' = ByteResult(b)
    BY <1>2 DEF ByteResult
  <2>3. \A b : NodeByte(b)' = NodeByte(b)
    BY <2>1, <2>2 DEF NodeByte
  <2>. QED
    BY <1>1, <1>2, <1>3, <2>1, <2>3 DEF BytesSoFar
<1>7. ColumnsSoFar'
  <2>1. RowsKept' = RowsKept
    BY <1>1 DEF RowsKept, Results
  <2>2. \A c : Filled(c)' <=> Filled(c)
    BY <2>1 DEF Filled, Inserted
  <2>. QED
    BY <1>3, <2>2 DEF ColumnsSoFar
<1>. QED
  BY <1>1, <1>4, <1>5, <1>6, <1>7


\* A node is given a bitmap that says what the node says, and no run goes on.
LEMMA NodeFinished ==
  ASSUME FInv, NEW n \in DOMAIN statement, NEW bitmap, Evaluates(bitmap, n),
         bits' = [bits EXCEPT ![n] = bitmap], node' = 0, ~running', stage = "eval",
         UNCHANGED <<columns, statement, stage, ret, ret_rows>>
  PROVE  FInv'
<1>. USE DEF FInv
<1>1. ColumnsOK' /\ StatementOK' /\ Root' = Root
  BY SameTable, SameStatement
<1>2. StagesOK'
  BY <1>1 DEF StagesOK, StatementOK
<1>3. Evaluated'
  <2>. SUFFICES ASSUME NEW m \in DOMAIN statement, bits'[m] # Nothing
                PROVE  Evaluates(bits'[m], m)
    BY SameTable DEF Evaluated
  <2>1. DOMAIN bits = DOMAIN statement
    BY DEF StatementOK
  <2>2. bits'[m] = IF m = n THEN bitmap ELSE bits[m]
    BY <2>1
  <2>. QED
    BY <2>2 DEF Evaluated
<1>4. AtInShard' /\ RowsSoFar' /\ BytesSoFar'
  BY DEF AtInShard, RowsSoFar, BytesSoFar, Comparing
<1>5. ColumnsSoFar'
  BY DEF ColumnsSoFar
<1>. QED
  BY <1>1, <1>2, <1>3, <1>4, <1>5

LEMMA EvalNotNullFInv ==
  ASSUME FInv, NEW n \in DOMAIN statement, EvalNotNull(n) PROVE FInv'
<1>. USE DEF FInv
<1>. DEFINE col == columns[statement[n].column]
<1>1. n \in 1 .. Root /\ statement[n].op = "IS_NOT_NULL" /\ ~running /\ stage = "eval"
  BY DEF EvalNotNull, StatementOK, StagesOK
<1>2. ComparisonOf(statement[n], columns) /\ statement[n].op \notin Logical
  BY <1>1, OperandsBefore DEF Logical
<1>3. Evaluates(col.bitmap, n)
  <2>1. ASSUME NEW row \in RowSet PROVE Says(col.bitmap, row) <=> NodeHolds(n, row)
    <3>1. NodeHolds(n, row) <=> EvalComparison(statement[n], Cell(col, row))
      BY <1>1, <1>2, HoldsAtNode
    <3>2. EvalComparison(statement[n], Cell(col, row)) <=> Cell(col, row) # Null
      BY <1>1 DEF EvalComparison
    <3>3. col.data[row + 1] # Null
      BY <1>2 DEF ColumnsOK, ComparisonOf
    <3>. QED
      BY <3>1, <3>2, <3>3 DEF Cell, is_not_null, Says
  <2>2. col.bitmap \in Bitmaps
    BY <1>2 DEF ColumnsOK, ComparisonOf
  <2>. QED
    BY <2>1, <2>2 DEF Evaluates
<1>4. /\ bits' = [bits EXCEPT ![n] = col.bitmap] /\ node' = 0 /\ ~running'
      /\ UNCHANGED <<columns, statement, stage, ret, ret_rows>>
  BY <1>1 DEF EvalNotNull, pool
<1>. HIDE DEF col
<1>. QED
  BY <1>1, <1>3, <1>4, NodeFinished

LEMMA EvalNothingFInv ==
  ASSUME FInv, NEW n \in DOMAIN statement, EvalNothing(n) PROVE FInv'
<1>. USE DEF FInv
<1>1. ~running /\ stage = "eval" /\ NumBytes = 0
  BY DEF EvalNothing, StagesOK
<1>2. RowSet = {}
  <2>1. NumRows \in Nat
    BY DEF ColumnsOK
  <2>2. ASSUME NEW row \in RowSet PROVE FALSE
    <3>1. row \in Nat /\ row < NumRows
      BY <2>1 DEF RowSet
    <3>. QED
      BY <1>1, <2>1, <3>1, RowHasByte
  <2>. QED
    BY <2>2
<1>3. Evaluates(<<>>, n)
  BY <1>1, <1>2 DEF Evaluates, Bitmaps
<1>4. /\ bits' = [bits EXCEPT ![n] = <<>>] /\ node' = 0 /\ ~running'
      /\ UNCHANGED <<columns, statement, stage, ret, ret_rows>>
  BY <1>1 DEF EvalNothing, pool
<1>. QED
  BY <1>1, <1>3, <1>4, NodeFinished

\* A run begins with nothing passed.
LEMMA RunBegins ==
  ASSUME NumRows \in Nat, NEW n \in Nat, NEW kind, StartRun(n, kind), Kind' = kind,
         UNCHANGED <<columns, statement>>
  PROVE  /\ running' /\ tasks' = n
         /\ AtInShard'
         /\ \A p \in Nat : ~Passed(p)'
<1>1. running' /\ tasks' = n /\ at' = [t \in Threads |-> Boundary(t, kind, n)]
  BY DEF StartRun, Run
<1>2. \A t : Boundary(t, kind, n)' = Boundary(t, kind, n)
  BY SameTable
<1>3. ASSUME NEW t \in Threads
      PROVE  /\ Boundary(t, kind, n) \in Nat /\ Boundary(t + 1, kind, n) \in Nat
             /\ Boundary(t, kind, n) <= Boundary(t + 1, kind, n)
  <2>1. t \in Nat
    BY NumThreadsAssumption DEF Threads
  <2>. QED
    BY <2>1, BoundaryAscends
<1>4. \A t \in Threads : /\ at'[t] = Boundary(t, kind, n)
                         /\ Boundary(t, Kind, tasks)' = Boundary(t, kind, n)
                         /\ Boundary(t + 1, Kind, tasks)' = Boundary(t + 1, kind, n)
  <2>1. \A t : Boundary(t, Kind, tasks)' = Boundary(t, kind, n)'
    BY <1>1 DEF Boundary
  <2>. QED
    BY <1>1, <1>2, <2>1
<1>5. AtInShard'
  BY <1>3, <1>4 DEF AtInShard
<1>6. ASSUME NEW p \in Nat PROVE ~Passed(p)'
  BY <1>3, <1>4 DEF Passed
<1>. QED
  BY <1>1, <1>5, <1>6

WritesBytes == ColumnsOK /\ StatementOK /\ StagesOK /\ Evaluated /\ running /\ Kind = "byte"

LEMMA StartsAsBitmap == WritesBytes => StartBitmap(node) \in Bitmaps
BY NodeByteHolds DEF WritesBytes

LEMMA StartEvalFInv ==
  ASSUME FInv, NEW n \in DOMAIN statement, StartEval(n) PROVE FInv'
<1>. USE DEF FInv
<1>. DEFINE compares == statement[n].op \in Orders \union Likes
            kind == IF compares THEN "rows" ELSE "byte"
<1>1. /\ n \in 1 .. Root /\ Root \in Nat /\ stage = "eval" /\ ~running
      /\ UNCHANGED <<columns, statement, bits, stage, ret, ret_rows>>
      /\ node' = n /\ output' = StartBitmap(n)
      /\ StartRun(NumBytes, kind)
      /\ statement[n].op # "IS_NOT_NULL"
      /\ \A c \in Operands(n) : bits[c] # Nothing
  BY DEF StartEval, Run, StartRun, StatementOK, Ready
<1>2. NumRows \in Nat /\ NumBytes \in Nat /\ ColumnsOK' /\ StatementOK' /\ Root' = Root
      /\ NumBytes' = NumBytes /\ RowSet' = RowSet /\ Bitmaps' = Bitmaps
  BY <1>1, SameTable, SameStatement DEF ColumnsOK
<1>3. Kind' = kind
  BY <1>1 DEF Kind
<1>. HIDE DEF kind
<1>4. running' /\ tasks' = NumBytes /\ AtInShard' /\ \A p \in Nat : ~Passed(p)'
  BY <1>1, <1>2, <1>3, RunBegins
<1>5. StagesOK'
  <2>1. Operands(n)' = Operands(n)
    BY <1>1 DEF Operands
  <2>. QED
    BY <1>1, <1>2, <1>4, <2>1 DEF StagesOK
<1>6. Evaluated'
  BY <1>1, SameTable DEF Evaluated
<1>7. RowsSoFar'
  <2>. SUFFICES ASSUME compares
                PROVE  /\ output' \in Bitmaps'
                       /\ \A row \in RowSet' : (Says(output, row) <=> Passed(row) /\ RowMatches(row))'
    BY <1>3 DEF RowsSoFar, Comparing, kind
  <2>1. output' = [b \in 1 .. NumBytes |-> {}]
    BY <1>1 DEF StartBitmap, Orders, Likes
  <2>2. output' \in Bitmaps
    BY <2>1 DEF Bitmaps
  <2>3. ASSUME NEW row \in RowSet PROVE ~Says(output', row) /\ ~Passed(row)'
    <3>1. row \in Nat /\ row < NumRows
      BY <1>2 DEF RowSet
    <3>2. ByteOf(row) + 1 \in 1 .. NumBytes
      BY <1>2, <3>1, RowHasByte
    <3>. QED
      BY <1>4, <2>1, <3>1, <3>2 DEF Says
  <2>. QED
    BY <1>2, <2>2, <2>3 DEF Says
<1>8. BytesSoFar'
  <2>. SUFFICES ASSUME ~compares
                PROVE  /\ output' \in Bitmaps'
                       /\ \A b \in 1 .. NumBytes' : output'[b] = StartBitmap(node)'[b] /\ ~Passed(b - 1)'
    BY <1>3 DEF BytesSoFar, kind
  <2>1. StartBitmap(node)' = StartBitmap(n)
    BY <1>1, SameTable DEF StartBitmap, Operands
  <2>2. StartBitmap(node)' \in Bitmaps'
    <3>1. WritesBytes'
      BY <1>2, <1>3, <1>4, <1>5, <1>6 DEF kind, WritesBytes
    <3>2. (StartBitmap(node) \in Bitmaps)'
      BY <3>1, StartsAsBitmap, PTL
    <3>. QED
      BY <3>2
  <2>3. \A b \in 1 .. NumBytes' : ~Passed(b - 1)'
    BY <1>2, <1>4
  <2>. QED
    BY <1>1, <2>1, <2>2, <2>3
<1>9. ColumnsSoFar'
  BY <1>1 DEF ColumnsSoFar
<1>. QED
  BY <1>2, <1>4, <1>5, <1>6, <1>7, <1>8, <1>9


\* A thread goes on in its shard: what it has passed grows by where it was.
LEMMA ThreadAdvances ==
  ASSUME NumRows \in Nat, tasks \in Nat, AtInShard, at \in [Threads -> Nat],
         NEW t \in Threads, at[t] < Boundary(t + 1, Kind, tasks), running,
         at' = [at EXCEPT ![t] = @ + 1],
         UNCHANGED <<running, tasks, columns, statement, node, stage>>
  PROVE  /\ AtInShard'
         /\ \A p \in Nat : Passed(p)' <=> Passed(p) \/ p = at[t]
<1>1. NumRows' = NumRows /\ Kind' = Kind /\ tasks' = tasks
  BY SameTable DEF Kind
<1>2. \A u : Boundary(u, Kind, tasks)' = Boundary(u, Kind, tasks)
  BY <1>1 DEF Boundary
<1>3. /\ at'[t] = at[t] + 1
      /\ \A u \in Threads : u # t => at'[u] = at[u]
      /\ \A u \in Threads : at[u] \in Nat /\ at'[u] \in Nat
  OBVIOUS
<1>4. ASSUME NEW u \in Threads
      PROVE  Boundary(u, Kind, tasks) \in Nat /\ Boundary(u + 1, Kind, tasks) \in Nat
  <2>1. u \in Nat
    BY NumThreadsAssumption DEF Threads
  <2>. QED
    BY <2>1, BoundaryAscends
<1>5. ASSUME NEW u \in Threads
      PROVE  /\ Boundary(u, Kind, tasks) <= at[u] /\ at[u] <= Boundary(u + 1, Kind, tasks)
  BY DEF AtInShard
<1>6. AtInShard'
  <2>. SUFFICES ASSUME NEW u \in Threads
                PROVE  /\ at'[u] \in Nat
                       /\ Boundary(u, Kind, tasks)' <= at'[u]
                       /\ at'[u] <= Boundary(u + 1, Kind, tasks)'
    BY DEF AtInShard
  <2>1. CASE u = t
    BY <1>2, <1>3, <1>4, <1>5, <2>1
  <2>2. CASE u # t
    BY <1>2, <1>3, <1>4, <1>5, <2>2
  <2>. QED
    BY <2>1, <2>2
<1>7. ASSUME NEW p \in Nat PROVE Passed(p)' <=> Passed(p) \/ p = at[t]
  <2>1. ASSUME Passed(p)' PROVE Passed(p) \/ p = at[t]
    <3>1. PICK u \in Threads : Boundary(u, Kind, tasks)' <= p /\ p < at'[u]
      BY <2>1 DEF Passed
    <3>2. u # t => Passed(p)
      BY <1>2, <1>3, <3>1 DEF Passed
    <3>3. u = t => p < at[t] \/ p = at[t]
      BY <1>3, <3>1
    <3>. QED
      BY <1>2, <3>1, <3>2, <3>3 DEF Passed
  <2>2. ASSUME Passed(p) \/ p = at[t] PROVE Passed(p)'
    <3>1. PICK u \in Threads : Boundary(u, Kind, tasks) <= p /\ (p < at[u] \/ (u = t /\ p = at[t]))
      BY <1>5, <2>2 DEF Passed
    <3>2. p < at'[u]
      BY <1>3, <3>1
    <3>. QED
      BY <1>2, <3>1, <3>2 DEF Passed
  <2>. QED
    BY <2>1, <2>2
<1>. QED
  BY <1>6, <1>7

LEMMA StoreByteFInv ==
  ASSUME IInv, FInv, NEW t \in Threads, StoreByte(t) PROVE FInv'
<1>. USE DEF FInv
<1>. DEFINE row == at[t]
            b == ByteOf(row) + 1
            set == IF RowMatches(row) THEN {BitOf(row)} ELSE {}
<1>1. /\ loaded[t] # Nothing
      /\ output' = [output EXCEPT ![b] = loaded[t] \union set]
      /\ at' = [at EXCEPT ![t] = @ + 1]
      /\ UNCHANGED <<running, tasks, columns, statement, bits, node, stage, ret, ret_rows>>
  BY DEF StoreByte, Advance, pool
<1>2. /\ Comparing /\ running /\ Kind = "rows" /\ stage = "eval"
      /\ row < Boundary(t + 1, "rows", tasks)
  BY <1>1 DEF IInv, LoadsInShard, Comparing, StagesOK, Kind
<1>3. at \in [Threads -> Nat] /\ row \in Nat /\ NumRows \in Nat /\ tasks \in Nat /\ t \in Nat
  BY NumThreadsAssumption DEF IInv, Types, Threads
<1>4. Boundary(t, "rows", tasks) <= row
  BY <1>2 DEF AtInShard
<1>5. row \in RowSet /\ b \in 1 .. NumBytes /\ BitOf(row) \in Bit
  <2>1. row < NumRows
    BY <1>2, <1>3, <1>4, RowsInShard
  <2>. QED
    BY <1>3, <2>1, RowHasByte, BitOfRow DEF RowSet
<1>6. loaded[t] = output[b]
  BY <1>1 DEF IInv, NoLostBits
<1>7. ColumnsOK' /\ StatementOK' /\ Root' = Root /\ NumRows' = NumRows /\ NumBytes' = NumBytes
      /\ RowSet' = RowSet /\ Bitmaps' = Bitmaps /\ Kind' = Kind
  BY <1>1, SameTable, SameStatement DEF Kind
<1>8. AtInShard' /\ \A p \in Nat : Passed(p)' <=> Passed(p) \/ p = row
  BY <1>1, <1>2, <1>3, ThreadAdvances
<1>9. StagesOK' /\ Evaluated'
  <2>1. \A n : Operands(n)' = Operands(n)
    BY <1>1 DEF Operands
  <2>. QED
    BY <1>1, <1>7, <2>1, SameTable DEF StagesOK, Evaluated
<1>10. RowsSoFar'
  <2>1. output \in Bitmaps /\ \A r \in RowSet : Says(output, r) <=> Passed(r) /\ RowMatches(r)
    BY <1>2 DEF RowsSoFar
  <2>2. \A r : RowMatches(r)' <=> RowMatches(r)
    BY <1>1 DEF RowMatches, Literal
  <2>3. \A bit : bit \in set <=> bit = BitOf(row) /\ RowMatches(row)
    OBVIOUS
  <2>4. set \in SUBSET Bit
    BY <1>5
  <2>. HIDE DEF set, b
  <2>5. output' \in Bitmaps
    BY <1>1, <1>5, <1>6, <2>1, <2>4 DEF Bitmaps
  <2>6. ASSUME NEW r \in RowSet PROVE Says(output', r) <=> Passed(r)' /\ RowMatches(r)
    <3>1. r \in Nat /\ r < NumRows
      BY <1>3 DEF RowSet
    <3>2. ByteOf(r) + 1 \in 1 .. NumBytes /\ ByteOf(r) \in Nat /\ ByteOf(row) \in Nat
      BY <1>3, <3>1, RowHasByte, BitOfRow
    <3>3. Passed(r)' <=> Passed(r) \/ r = row
      BY <1>8, <3>1
    <3>4. CASE ByteOf(r) + 1 = b
      <4>1. output'[ByteOf(r) + 1] = output[ByteOf(r) + 1] \union set
        BY <1>1, <1>6, <2>1, <3>2, <3>4 DEF Bitmaps
      <4>2. BitOf(r) = BitOf(row) <=> r = row
        <5>1. ByteOf(r) = ByteOf(row)
          BY <3>2, <3>4 DEF b
        <5>. QED
          BY <1>3, <3>1, <5>1, OwnBit
      <4>3. Says(output', r) <=> Says(output, r) \/ (r = row /\ RowMatches(row))
        BY <2>3, <4>1, <4>2 DEF Says
      <4>. HIDE DEF row
      <4>. QED
        BY <2>1, <3>3, <4>3
    <3>5. CASE ByteOf(r) + 1 # b
      <4>1. output'[ByteOf(r) + 1] = output[ByteOf(r) + 1]
        BY <1>1, <2>1, <3>2, <3>5 DEF Bitmaps
      <4>2. r # row
        BY <3>5 DEF b
      <4>. QED
        BY <2>1, <3>3, <4>1, <4>2 DEF Says
    <3>. QED
      BY <3>4, <3>5
  <2>. QED
    BY <1>7, <2>2, <2>5, <2>6 DEF RowsSoFar, Says
<1>11. BytesSoFar' /\ ColumnsSoFar'
  BY <1>1, <1>2, <1>7 DEF BytesSoFar, ColumnsSoFar
<1>. QED
  BY <1>7, <1>8, <1>9, <1>10, <1>11


\* A thread is within what the run is about.
LEMMA WithinTotal ==
  ASSUME NumRows \in Nat, NEW n \in Nat, NEW kind, kind # "rows", NEW t \in Threads,
         NEW p \in Nat, p < Boundary(t + 1, kind, n)
  PROVE  p < n
<1>1. t + 1 \in Nat /\ NumThreads \in Nat /\ t + 1 <= NumThreads
  BY NumThreadsAssumption DEF Threads
<1>2. begin_idx(t + 1, n) \in Nat /\ begin_idx(t + 1, n) <= begin_idx(NumThreads, n)
  BY <1>1, ShardsAscend
<1>3. begin_idx(NumThreads, n) = n
  BY ShardEnds
<1>. QED
  BY <1>2, <1>3 DEF Boundary

LEMMA WriteByteFInv ==
  ASSUME IInv, FInv, NEW t \in Threads, WriteByte(t) PROVE FInv'
<1>. USE DEF FInv
<1>. DEFINE b == at[t] + 1
<1>1. /\ running /\ Kind = "byte" /\ at[t] < Boundary(t + 1, Kind, tasks)
      /\ output' = [output EXCEPT ![b] = ByteResult(b)]
      /\ at' = [at EXCEPT ![t] = @ + 1]
      /\ UNCHANGED <<running, tasks, columns, statement, bits, node, stage, ret, ret_rows>>
  BY DEF WriteByte, HasWork, HasStarted, Advance, pool
<1>2. at \in [Threads -> Nat] /\ at[t] \in Nat /\ NumRows \in Nat /\ tasks \in Nat /\ t \in Nat
  BY NumThreadsAssumption DEF IInv, Types, Threads
<1>3. stage = "eval" /\ tasks = NumBytes /\ NumBytes \in Nat
  BY <1>1 DEF StagesOK, Kind, ColumnsOK
<1>4. b \in 1 .. NumBytes /\ b - 1 = at[t]
  <2>1. at[t] < tasks
    BY <1>1, <1>2, WithinTotal
  <2>. QED
    BY <1>2, <1>3, <2>1
<1>5. /\ ColumnsOK' /\ StatementOK' /\ Root' = Root /\ NumRows' = NumRows /\ NumBytes' = NumBytes
      /\ RowSet' = RowSet /\ Bitmaps' = Bitmaps /\ Kind' = Kind
  BY <1>1, SameTable, SameStatement DEF Kind
<1>6. AtInShard' /\ \A p \in Nat : Passed(p)' <=> Passed(p) \/ p = at[t]
  BY <1>1, <1>2, ThreadAdvances
<1>7. StagesOK' /\ Evaluated'
  <2>1. \A n : Operands(n)' = Operands(n)
    BY <1>1 DEF Operands
  <2>. QED
    BY <1>1, <1>5, <2>1, SameTable DEF StagesOK, Evaluated
<1>8. ~Passed(at[t])
  <2>. SUFFICES ASSUME NEW u \in Threads, Boundary(u, Kind, tasks) <= at[t], at[t] < at[u]
                PROVE  FALSE
    BY DEF Passed
  <2>1. /\ Boundary(t, Kind, tasks) <= at[t] /\ at[u] <= Boundary(u + 1, Kind, tasks)
        /\ at[u] \in Nat /\ u \in Nat
    BY <1>1, <1>2, NumThreadsAssumption DEF AtInShard, Threads
  <2>2. Boundary(u + 1, Kind, tasks) \in Nat
    BY <1>2, <2>1, BoundaryAscends
  <2>3. at[t] < Boundary(u + 1, Kind, tasks)
    BY <1>2, <2>1, <2>2
  <2>4. t = u
    BY <1>1, <1>2, <2>1, <2>3, InOneShard
  <2>. QED
    BY <1>2, <2>4
<1>9. BytesSoFar'
  <2>1. /\ output \in Bitmaps
        /\ \A c \in 1 .. NumBytes :
             output[c] = IF Passed(c - 1) THEN NodeByte(c) ELSE StartBitmap(node)[c]
    BY <1>1 DEF BytesSoFar
  <2>2. output[b] = StartBitmap(node)[b]
    BY <1>4, <1>8, <2>1
  <2>3. ByteResult(b) = NodeByte(b)
    <3>1. CASE statement[node].op \in {"IS_NULL", "NOT"}
      BY <2>2, <3>1 DEF ByteResult, NodeByte
    <3>. QED
      BY <3>1 DEF NodeByte
  <2>4. StartBitmap(node)' = StartBitmap(node)
    BY <1>1, <1>5 DEF StartBitmap, Operands
  <2>5. ASSUME NEW c \in 1 .. NumBytes PROVE NodeByte(c)' = NodeByte(c)
    <3>1. node \in 1 .. Root /\ statement[node].op \notin Orders \union Likes
          /\ statement[node].op # "IS_NOT_NULL"
      BY <1>1, <1>3 DEF StagesOK, StatementOK, Kind
    <3>2. statement[node].op \in {"IS_NULL", "NOT", "AND", "OR"}
      BY <3>1, OperandsBefore DEF ComparisonOf, Logical, NullTests
    <3>3. CASE statement[node].op \in {"IS_NULL", "NOT"}
      BY <1>1, <2>4, <3>3 DEF NodeByte
    <3>4. CASE statement[node].op = "AND"
      <4>1. /\ NodeByte(c) = ByteResult(c) /\ NodeByte(c)' = ByteResult(c)'
            /\ Operands(node)' = Operands(node)
        BY <1>1, <3>4 DEF NodeByte, Operands
      <4>2. ByteResult(c) = {bit \in Bit : \A o \in {bits[d][c] : d \in Operands(node)} : bit \in o}
        BY <3>4 DEF ByteResult
      <4>3. ByteResult(c)'
              = {bit \in Bit : \A o \in {bits'[d][c] : d \in Operands(node)'} : bit \in o}
        BY <1>1, <3>4 DEF ByteResult
      <4>. QED
        BY <1>1, <4>1, <4>2, <4>3
    <3>5. CASE statement[node].op = "OR"
      <4>1. /\ NodeByte(c) = ByteResult(c) /\ NodeByte(c)' = ByteResult(c)'
            /\ Operands(node)' = Operands(node)
        BY <1>1, <3>5 DEF NodeByte, Operands
      <4>2. ByteResult(c) = UNION {bits[d][c] : d \in Operands(node)}
        BY <3>5 DEF ByteResult
      <4>3. ByteResult(c)' = UNION {bits'[d][c] : d \in Operands(node)'}
        BY <1>1, <3>5 DEF ByteResult
      <4>. QED
        BY <1>1, <4>1, <4>2, <4>3
    <3>. QED
      BY <3>2, <3>3, <3>4, <3>5
  <2>6. NodeByte(b) \in SUBSET Bit
    BY <1>1, <1>4, NodeByteHolds
  <2>. HIDE DEF b
  <2>7. output' \in Bitmaps
    BY <1>1, <1>4, <2>1, <2>3, <2>6 DEF Bitmaps
  <2>8. ASSUME NEW c \in 1 .. NumBytes
        PROVE  output'[c] = IF Passed(c - 1)' THEN NodeByte(c) ELSE StartBitmap(node)[c]
    <3>1. c - 1 \in Nat /\ (Passed(c - 1)' <=> Passed(c - 1) \/ c - 1 = at[t])
      BY <1>6
    <3>2. CASE c = b
      <4>1. output'[c] = NodeByte(c)
        BY <1>1, <1>4, <2>1, <2>3, <3>2 DEF Bitmaps
      <4>. QED
        BY <1>4, <3>1, <3>2, <4>1
    <3>3. CASE c # b
      <4>1. output'[c] = output[c]
        BY <1>1, <2>1, <3>3 DEF Bitmaps
      <4>2. c - 1 # at[t]
        BY <1>2, <1>4, <3>3
      <4>. QED
        BY <2>1, <3>1, <4>1, <4>2
    <3>. QED
      BY <3>2, <3>3
  <2>. QED
    BY <1>5, <2>4, <2>5, <2>7, <2>8 DEF BytesSoFar
<1>10. RowsSoFar' /\ ColumnsSoFar'
  BY <1>1, <1>3, <1>5 DEF RowsSoFar, Comparing, ColumnsSoFar
<1>. QED
  BY <1>5, <1>6, <1>7, <1>9, <1>10

\* When every thread has ended, everything has been passed.
LEMMA AllPassed ==
  ASSUME NumRows \in Nat, tasks \in Nat, AtInShard, AllEnded, \A t \in Threads : HasStarted(t),
         Kind = "rows" => tasks = NumBytes
  PROVE  running /\ \A p \in Nat : p < Total(Kind, tasks) => Passed(p)
<1>1. running
  <2>1. Caller \in Threads
    BY NumThreadsAssumption DEF Caller, Threads
  <2>. QED
    BY <2>1 DEF HasStarted
<1>2. ASSUME NEW p \in Nat, p < Total(Kind, tasks) PROVE Passed(p)
  <2>1. PICK t \in Threads : Boundary(t, Kind, tasks) <= p /\ p < Boundary(t + 1, Kind, tasks)
    BY <1>2, EveryoneHasAShard
  <2>2. ~(at[t] < Boundary(t + 1, Kind, tasks)) /\ at[t] \in Nat
    BY <1>1 DEF AllEnded, HasWork, AtInShard
  <2>3. Boundary(t + 1, Kind, tasks) \in Nat
    <3>1. t \in Nat
      BY NumThreadsAssumption DEF Threads
    <3>. QED
      BY <3>1, BoundaryAscends
  <2>4. p < at[t]
    BY <2>1, <2>2, <2>3
  <2>. QED
    BY <2>1, <2>4 DEF Passed
<1>. QED
  BY <1>1, <1>2

LEMMA EndEvalFInv == ASSUME IInv, FInv, EndEval PROVE FInv'
<1>. USE DEF FInv
<1>1. /\ stage = "eval" /\ \A t \in Threads : HasStarted(t)
      /\ AllEnded /\ ~running' /\ node' = 0
      /\ bits' = [bits EXCEPT ![node] = output]
      /\ UNCHANGED <<columns, statement, stage, ret, ret_rows>>
  BY DEF EndEval, JoinThreads
<1>2. NumRows \in Nat /\ tasks \in Nat
  BY DEF IInv, Types
<1>3. running
  <2>1. Caller \in Threads
    BY NumThreadsAssumption DEF Caller, Threads
  <2>. QED
    BY <1>1, <2>1 DEF HasStarted
<1>4. node \in DOMAIN statement /\ tasks = NumBytes /\ NumBytes \in Nat
  BY <1>1, <1>3 DEF StagesOK, StatementOK, ColumnsOK
<1>5. \A p \in Nat : p < Total(Kind, tasks) => Passed(p)
  BY <1>1, <1>2, <1>4, AllPassed
<1>6. CASE Kind = "rows"
  <2>1. Comparing
    BY <1>3, <1>6 DEF Comparing
  <2>2. output \in Bitmaps /\ \A row \in RowSet : Says(output, row) <=> Passed(row) /\ RowMatches(row)
    BY <2>1 DEF RowsSoFar
  <2>3. \A row \in RowSet : Passed(row)
    BY <1>2, <1>5, <1>6 DEF RowSet, Total
  <2>4. \A row \in RowSet : RowMatches(row) <=> NodeHolds(node, row)
    BY <2>1, MatchesHolds
  <2>5. Evaluates(output, node)
    BY <2>2, <2>3, <2>4 DEF Evaluates
  <2>. QED
    BY <1>1, <1>4, <2>5, NodeFinished
<1>7. CASE Kind # "rows"
  <2>1. Kind = "byte"
    BY <1>1, <1>7 DEF Kind
  <2>2. /\ output \in Bitmaps
        /\ \A c \in 1 .. NumBytes :
             output[c] = IF Passed(c - 1) THEN NodeByte(c) ELSE StartBitmap(node)[c]
    BY <1>3, <2>1 DEF BytesSoFar
  <2>3. ASSUME NEW c \in 1 .. NumBytes PROVE output[c] = NodeByte(c)
    <3>1. c - 1 \in Nat /\ c - 1 < Total(Kind, tasks)
      BY <1>4, <2>1 DEF Total
    <3>. QED
      BY <1>5, <2>2, <3>1
  <2>4. \A row \in RowSet : BitOf(row) \in NodeByte(ByteOf(row) + 1) <=> NodeHolds(node, row)
    BY <1>3, <2>1, NodeByteHolds
  <2>5. \A row \in RowSet : ByteOf(row) + 1 \in 1 .. NumBytes
    BY <1>2, RowHasByte DEF RowSet
  <2>6. Evaluates(output, node)
    BY <2>2, <2>3, <2>4, <2>5 DEF Evaluates, Says
  <2>. QED
    BY <1>1, <1>4, <2>6, NodeFinished
<1>. QED
  BY <1>6, <1>7


LEMMA StartConvertFInv == ASSUME IInv, FInv, StartConvert PROVE FInv'
<1>. USE DEF FInv
<1>1. /\ stage = "eval" /\ stage' = "convert" /\ node = 0 /\ ~running
      /\ StartRun(Len(columns), "column")
      /\ statement # <<>> => bits[Root] # Nothing
      /\ UNCHANGED <<columns, statement, bits, node, output, ret, ret_rows>>
  BY DEF StartConvert, StartRun, Run
<1>2. /\ NumRows \in Nat /\ Len(columns) \in Nat /\ DOMAIN columns = 1 .. Len(columns)
      /\ ColumnsOK' /\ StatementOK' /\ Root' = Root
  BY <1>1, SameTable, SameStatement DEF ColumnsOK
<1>3. Kind' = "column"
  BY <1>1 DEF Kind
<1>4. running' /\ tasks' = Len(columns) /\ AtInShard' /\ \A p \in Nat : ~Passed(p)'
  BY <1>1, <1>2, <1>3, RunBegins
<1>5. StagesOK'
  BY <1>1, <1>2, <1>4 DEF StagesOK
<1>6. Evaluated'
  BY <1>1, SameTable DEF Evaluated
<1>7. RowsSoFar' /\ BytesSoFar'
  BY <1>3 DEF RowsSoFar, BytesSoFar, Comparing
<1>8. ColumnsSoFar'
  <2>1. \A c \in DOMAIN columns : c - 1 \in Nat
    BY <1>2
  <2>2. \A c \in DOMAIN columns : ~Passed(c - 1)'
    BY <1>4, <2>1
  <2>. QED
    BY <1>1, <2>2 DEF ColumnsSoFar
<1>. QED
  BY <1>2, <1>4, <1>5, <1>6, <1>7, <1>8

LEMMA ConvertColumnFInv ==
  ASSUME IInv, FInv, NEW t \in Threads, ConvertColumn(t) PROVE FInv'
<1>. USE DEF FInv
<1>. DEFINE d == at[t] + 1
<1>1. /\ running /\ Kind = "column" /\ at[t] < Boundary(t + 1, Kind, tasks)
      /\ ret' = [ret EXCEPT ![d] = Inserted(columns[d])]
      /\ ret_rows' = Len(RowsKept)
      /\ at' = [at EXCEPT ![t] = @ + 1]
      /\ UNCHANGED <<running, tasks, columns, statement, bits, node, stage, output>>
  BY DEF ConvertColumn, HasWork, HasStarted, Advance, pool
<1>2. at \in [Threads -> Nat] /\ at[t] \in Nat /\ NumRows \in Nat /\ tasks \in Nat
  BY DEF IInv, Types
<1>3. stage = "convert" /\ tasks = Len(columns) /\ DOMAIN columns = 1 .. Len(columns)
  BY <1>1 DEF StagesOK, Kind, ColumnsOK
<1>4. d \in DOMAIN columns /\ d - 1 = at[t]
  <2>1. at[t] < tasks
    BY <1>1, <1>2, WithinTotal
  <2>. QED
    BY <1>2, <1>3, <2>1
<1>5. ColumnsOK' /\ StatementOK' /\ Root' = Root /\ NumBytes' = NumBytes /\ NumRows' = NumRows
      /\ RowNumbers' = RowNumbers /\ Kind' = Kind
  BY <1>1, SameTable, SameStatement DEF Kind
<1>6. AtInShard' /\ \A p \in Nat : Passed(p)' <=> Passed(p) \/ p = at[t]
  BY <1>1, <1>2, ThreadAdvances
<1>7. StagesOK' /\ Evaluated' /\ RowsSoFar' /\ BytesSoFar'
  <2>1. \A n : Operands(n)' = Operands(n)
    BY <1>1 DEF Operands
  <2>. QED
    BY <1>1, <1>3, <1>5, <2>1, SameTable
       DEF StagesOK, Evaluated, RowsSoFar, BytesSoFar, Comparing
<1>8. ColumnsSoFar'
  <2>1. RowsKept' = RowsKept
    BY <1>1, <1>5 DEF RowsKept, Results
  <2>2. \A c : Inserted(c)' = Inserted(c)
    BY <2>1 DEF Inserted
  <2>3. DOMAIN ret = DOMAIN columns
        /\ \A c \in DOMAIN columns : Passed(c - 1) => Filled(c)
    BY <1>1, <1>3 DEF ColumnsSoFar
  <2>. HIDE DEF d
  <2>4. ASSUME NEW c \in DOMAIN columns, Passed(c - 1)' PROVE Filled(c)'
    <3>1. c - 1 \in Nat
      BY <1>3
    <3>2. CASE c = d
      <4>1. ret'[c] = Inserted(columns[c])
        BY <1>1, <1>4, <2>3, <3>2
      <4>. QED
        BY <1>1, <2>1, <2>2, <4>1 DEF Filled, Inserted
    <3>3. CASE c # d
      <4>1. ret'[c] = ret[c]
        BY <1>1, <3>3
      <4>2. c - 1 # at[t]
        BY <1>3, <1>4, <3>3
      <4>3. Filled(c)
        BY <1>6, <2>3, <2>4, <3>1, <4>2
      <4>. QED
        BY <1>1, <2>1, <2>2, <4>1, <4>3 DEF Filled, Inserted
    <3>. QED
      BY <3>2, <3>3
  <2>. QED
    BY <1>1, <1>3, <2>3, <2>4 DEF ColumnsSoFar
<1>. QED
  BY <1>5, <1>6, <1>7, <1>8

LEMMA EndConvertFInv == ASSUME IInv, FInv, EndConvert PROVE FInv'
<1>. USE DEF FInv
<1>1. /\ stage = "convert" /\ \A t \in Threads : HasStarted(t)
      /\ AllEnded /\ ~running' /\ stage' = "done"
      /\ UNCHANGED <<columns, statement, bits, node, ret, ret_rows>>
  BY DEF EndConvert, JoinThreads
<1>2. /\ NumRows \in Nat /\ tasks \in Nat /\ Kind = "column"
      /\ DOMAIN columns = 1 .. Len(columns)
  BY <1>1 DEF IInv, Types, Kind, ColumnsOK
<1>3. running /\ \A p \in Nat : p < tasks => Passed(p)
  BY <1>1, <1>2, AllPassed DEF Total
<1>4. tasks = Len(columns)
  BY <1>1, <1>3 DEF StagesOK
<1>5. \A c \in DOMAIN columns : Filled(c)
  <2>1. \A c \in DOMAIN columns : Passed(c - 1)
    BY <1>2, <1>3, <1>4
  <2>. QED
    BY <1>1, <1>3, <2>1 DEF ColumnsSoFar
<1>6. ColumnsOK' /\ StatementOK' /\ Root' = Root /\ NumBytes' = NumBytes
      /\ NumRows' = NumRows /\ RowNumbers' = RowNumbers
  BY <1>1, SameTable, SameStatement
<1>7. StagesOK' /\ Evaluated' /\ AtInShard' /\ RowsSoFar' /\ BytesSoFar'
  BY <1>1, <1>6, SameTable
     DEF StagesOK, Evaluated, AtInShard, RowsSoFar, BytesSoFar, Comparing
<1>8. ColumnsSoFar'
  <2>1. RowsKept' = RowsKept
    BY <1>1, <1>6 DEF RowsKept, Results
  <2>2. \A c : Filled(c)' <=> Filled(c)
    BY <1>1, <2>1 DEF Filled, Inserted
  <2>. QED
    BY <1>1, <1>5, <2>2 DEF ColumnsSoFar
<1>. QED
  BY <1>6, <1>7, <1>8

LEMMA StepFInv == IInv /\ FInv /\ [Next]_vars => FInv'
<1>. SUFFICES ASSUME IInv, FInv, [Next]_vars PROVE FInv'
  OBVIOUS
<1>1. CASE \E n \in DOMAIN statement : EvalNotNull(n)
  BY <1>1, EvalNotNullFInv
<1>2. CASE \E n \in DOMAIN statement : EvalNothing(n)
  BY <1>2, EvalNothingFInv
<1>3. CASE \E n \in DOMAIN statement : StartEval(n)
  BY <1>3, StartEvalFInv
<1>4. CASE StartThread
  BY <1>4, UntouchedStep DEF StartThread, Spawn, Untouched, work
<1>12. CASE \E t \in Threads : LoadByte(t)
  BY <1>12, UntouchedStep DEF LoadByte, Untouched, pool
<1>5. CASE EndEval
  BY <1>5, EndEvalFInv
<1>6. CASE StartConvert
  BY <1>6, StartConvertFInv
<1>7. CASE EndConvert
  BY <1>7, EndConvertFInv
<1>8. CASE \E t \in Threads : StoreByte(t)
  BY <1>8, StoreByteFInv
<1>9. CASE \E t \in Threads : WriteByte(t)
  BY <1>9, WriteByteFInv
<1>10. CASE \E t \in Threads : ConvertColumn(t)
  BY <1>10, ConvertColumnFInv
<1>11. CASE UNCHANGED vars
  BY <1>11, UntouchedStep DEF vars, Untouched, work, pool
<1>. QED
  BY <1>1, <1>2, <1>3, <1>4, <1>5, <1>6, <1>7, <1>8, <1>9, <1>10, <1>11, <1>12
     DEF Next, MainStep, ThreadStep

\* The rows whose bit is set are the rows for which the statement is true.
LEMMA RowsKeptMatch ==
  ASSUME ColumnsOK, StatementOK, Evaluated, statement # <<>> => bits[Root] # Nothing
  PROVE  RowsKept = Lists!Kept(RowNumbers,
                      {row \in 0 .. NumRows - 1 :
                         statement = <<>> \/ EvalRecord(statement, columns, row)})
<1>. DEFINE set == {row \in 0 .. NumRows - 1 : BitOf(row) \in Results[ByteOf(row) + 1]}
            matching == {row \in 0 .. NumRows - 1 :
                           statement = <<>> \/ EvalRecord(statement, columns, row)}
<1>1. ASSUME NEW row \in 0 .. NumRows - 1
      PROVE  row \in RowSet /\ ByteOf(row) + 1 \in 1 .. NumBytes /\ BitOf(row) \in Bit
  <2>1. row \in Nat /\ row < NumRows /\ NumRows \in Nat
    BY DEF ColumnsOK
  <2>. QED
    BY <2>1, RowHasByte, BitOfRow DEF RowSet
<1>2. CASE statement = <<>>
  <2>1. Results = [b \in 1 .. NumBytes |-> Bit]
    BY <1>2 DEF Results
  <2>2. set = matching
    BY <1>1, <1>2, <2>1
  <2>. HIDE DEF set, matching
  <2>3. RowsKept = Lists!Kept(RowNumbers, set)
    BY DEF RowsKept, set
  <2>4. RowsKept = Lists!Kept(RowNumbers, matching)
    BY <2>2, <2>3
  <2>. QED
    BY <2>4 DEF matching
<1>3. CASE statement # <<>>
  <2>1. Results = bits[Root] /\ Root \in DOMAIN statement
    BY <1>3 DEF Results, StatementOK
  <2>2. Evaluates(bits[Root], Root)
    BY <1>3, <2>1 DEF Evaluated
  <2>3. \A row \in RowSet : BitOf(row) \in Results[ByteOf(row) + 1] <=> NodeHolds(Root, row)
    BY <2>1, <2>2 DEF Evaluates, Says
  <2>4. \A row : NodeHolds(Root, row) <=> EvalRecord(statement, columns, row)
    BY DEF NodeHolds, EvalRecord, Root
  <2>5. set = matching
    BY <1>1, <1>3, <2>3, <2>4
  <2>. HIDE DEF set, matching
  <2>6. RowsKept = Lists!Kept(RowNumbers, set)
    BY DEF RowsKept, set
  <2>7. RowsKept = Lists!Kept(RowNumbers, matching)
    BY <2>5, <2>6
  <2>. QED
    BY <2>7 DEF matching
<1>. QED
  BY <1>2, <1>3

LEMMA FInvKeeps == FInv => KeepsMatchingRows
<1>. SUFFICES ASSUME FInv, stage = "done" PROVE KeepsMatchingRows
  BY DEF KeepsMatchingRows
<1>. USE DEF FInv
<1>1. \A c \in DOMAIN columns : ret[c] = Inserted(columns[c]) /\ ret_rows = Len(RowsKept)
  BY DEF ColumnsSoFar, Filled
<1>2. 1 \in DOMAIN columns
  BY DEF ColumnsOK
<1>3. statement # <<>> => bits[Root] # Nothing
  BY DEF StagesOK
<1>4. RowsKept = Lists!Kept(RowNumbers,
                   {row \in 0 .. NumRows - 1 :
                      statement = <<>> \/ EvalRecord(statement, columns, row)})
  BY <1>3, RowsKeptMatch
<1>5. /\ \A c \in DOMAIN columns :
           ret[c] = [n \in DOMAIN RowsKept |-> Cell(columns[c], RowsKept[n])]
      /\ ret_rows = Len(RowsKept)
  BY <1>1, <1>2 DEF Inserted
<1>. HIDE DEF FInv
<1>. QED
  BY <1>4, <1>5 DEF KeepsMatchingRows

\* The bounds of the pool's counters.
LEMMA StepPool == PoolTypeOK /\ IInv' /\ [Next]_vars => PoolTypeOK'
<1>. SUFFICES ASSUME PoolTypeOK, IInv', [Next]_vars PROVE PoolTypeOK'
  OBVIOUS
<1>1. running' \in BOOLEAN /\ tasks' \in Nat
  BY DEF IInv, Types
<1>2. spawned \in 0 .. Caller /\ Caller \in Nat /\ Caller = NumThreads - 1
  BY NumThreadsAssumption DEF PoolTypeOK, Caller
<1>3. spawned' \in {spawned, 0} \/ (spawned + 1 < NumThreads /\ spawned' = spawned + 1)
  BY DEF Next, MainStep, ThreadStep, EvalNotNull, EvalNothing, StartEval, StartThread, Spawn,
         EndEval, StartConvert, EndConvert, LoadByte, StoreByte, WriteByte, ConvertColumn,
         StartRun, Run, JoinThreads, pool, vars
<1>4. spawned' \in 0 .. Caller
  BY <1>2, <1>3, NumThreadsAssumption
<1>. QED
  BY <1>1, <1>4 DEF PoolTypeOK

LEMMA FInvTypes == FInv /\ PoolTypeOK => TypeOK
<1>. SUFFICES ASSUME FInv, PoolTypeOK PROVE TypeOK
  OBVIOUS
<1>. USE DEF FInv
<1>1. NumBytes \in Nat /\ \A b \in Bitmaps : Len(b) = NumBytes
  <2>1. NumBytes \in Nat
    BY DEF ColumnsOK
  <2>2. ASSUME NEW b \in Bitmaps PROVE Len(b) = NumBytes
    BY <2>1, Lengths DEF Bitmaps
  <2>. QED
    BY <2>1, <2>2
<1>2. node \in 0 .. Root /\ (running /\ stage = "eval" => node # 0)
  BY DEF StagesOK
<1>3. \A c \in DOMAIN columns : Len(columns[c].bitmap) = NumBytes
  BY <1>1 DEF ColumnsOK
<1>4. \A n \in DOMAIN statement : bits[n] # Nothing => Len(bits[n]) = NumBytes
  BY <1>1 DEF Evaluated, Evaluates
<1>. QED
  BY <1>2, <1>3, <1>4 DEF TypeOK

-----------------------------------------------------------------------------
LEMMA FilterInvariant == Spec => [](IInv /\ FInv /\ PoolTypeOK)
<1>1. Init => IInv /\ FInv /\ PoolTypeOK
  <2>1. Init => PoolInit
    BY DEF Init
  <2>2. PoolInit => PoolTypeOK
    <3>1. Caller \in Nat /\ 0 \in 0 .. Caller
      BY NumThreadsAssumption DEF Caller
    <3>2. FALSE \in BOOLEAN /\ 0 \in Nat
      OBVIOUS
    <3>. QED
      BY <3>1, <3>2 DEF PoolInit, PoolTypeOK
  <2>. QED
    BY <2>1, <2>2, InitIInv, InitFInv
<1>2. (IInv /\ FInv /\ PoolTypeOK) /\ [Next]_vars => (IInv /\ FInv /\ PoolTypeOK)'
  BY StepIInv, StepFInv, StepPool
<1>. QED
  BY <1>1, <1>2, PTL DEF Spec

\* inner_column.h: run() never starts more threads than the pool has, and every bitmap,
\* of a column or a node of the filter, has a bit for every row of the table.
THEOREM FilterTypeCorrect == Spec => []TypeOK
<1>1. IInv /\ FInv /\ PoolTypeOK => TypeOK
  BY FInvTypes
<1>. QED
  BY <1>1, FilterInvariant, PTL

\* from_csv: whatever the table, the filter, the number of threads and their
\* interleaving, the result has the rows for which the statement is true evaluated
\* record by record, in their order, and claims that number of rows.
THEOREM FilterKeepsMatchingRows == Spec => []KeepsMatchingRows
<1>1. IInv /\ FInv /\ PoolTypeOK => KeepsMatchingRows
  BY FInvKeeps
<1>. QED
  BY <1>1, FilterInvariant, PTL


-----------------------------------------------------------------------------
(* The tokens and the pieces of a text.                                    *)

\* What the tokens of a file without an open quote are.
Token == Char \union {FieldSep, RecordSep, QuoteMark}

\* What the tokens of the last characters are, from those of fewer.
TokensAt(text, from, left) ==
  LET char == text[Len(text) - left + 1]
      next == IF left > 1 THEN text[Len(text) - left + 2] ELSE "end of file"
  IN  [inside \in BOOLEAN |->
         IF left = 0 THEN IF inside THEN <<Unclosed>> ELSE <<>>
         ELSE IF char = Quote THEN <<QuoteMark>> \o from[left - 1][~inside]
         ELSE IF inside /\ char = Escape /\ next \in {Quote, Escape}
           THEN <<next>> \o from[left - 2][inside]
         ELSE IF ~inside /\ char = Comma THEN <<FieldSep>> \o from[left - 1][inside]
         ELSE IF ~inside /\ char = CR /\ next = LF
           THEN <<RecordSep>> \o from[left - 2][inside]
         ELSE IF ~inside /\ char \in {CR, LF} THEN <<RecordSep>> \o from[left - 1][inside]
         ELSE <<char>> \o from[left - 1][inside]]

LEMMA TokensFromFewer ==
  ASSUME NEW text, NEW f, NEW g, NEW left \in Nat,
         \A m \in 0 .. left - 1 : f[m] = g[m]
  PROVE  TokensAt(text, f, left) = TokensAt(text, g, left)
<1>1. CASE left = 0
  BY <1>1 DEF TokensAt
<1>2. CASE left = 1
  <2>1. f[left - 1] = g[left - 1] /\ ~(left > 1) /\ left # 0
    BY <1>2
  <2>. QED
    BY ONLY <2>1 DEF TokensAt, Quote, Escape, LF
<1>3. CASE left > 1
  <2>1. f[left - 1] = g[left - 1] /\ f[left - 2] = g[left - 2]
    BY <1>3
  <2>. QED
    BY ONLY <2>1 DEF TokensAt
<1>. QED
  BY <1>1, <1>2, <1>3

\* The recursive function TokensFrom exists.
LEMMA TokensDefined ==
  ASSUME NEW text, Len(text) \in Nat
  PROVE  \A left \in 0 .. Len(text) :
           TokensFrom(text)[left] = TokensAt(text, TokensFrom(text), left)
<1>. DEFINE Upto(n, f) == f = [left \in 0 .. n |-> TokensAt(text, f, left)]
            S == {n \in Nat : \E f : Upto(n, f)}
<1>1. 0 \in S
  <2>. DEFINE f == [left \in 0 .. 0 |-> TokensAt(text, <<>>, left)]
  <2>1. \A left \in 0 .. 0 : f[left] = TokensAt(text, f, left)
    <3>. TAKE left \in 0 .. 0
    <3>1. left \in Nat /\ \A m \in 0 .. left - 1 : f[m] = (<<>>)[m]
      OBVIOUS
    <3>2. f[left] = TokensAt(text, <<>>, left)
      OBVIOUS
    <3>. QED
      BY ONLY <3>1, <3>2, TokensFromFewer
  <2>2. f = [left \in 0 .. 0 |-> f[left]]
    OBVIOUS
  <2>. HIDE DEF f
  <2>3. Upto(0, f)
    BY <2>1, <2>2
  <2>. HIDE DEF Upto
  <2>. QED
    BY <2>3
<1>2. ASSUME NEW n \in Nat, n \in S PROVE n + 1 \in S
  <2>1. PICK f : Upto(n, f)
    BY <1>2
  <2>. DEFINE g == [left \in 0 .. n + 1 |-> IF left = n + 1 THEN TokensAt(text, f, left) ELSE f[left]]
  <2>2. \A m \in 0 .. n : g[m] = f[m] /\ f[m] = TokensAt(text, f, m)
    BY <2>1
  <2>3. g[n + 1] = TokensAt(text, f, n + 1)
    OBVIOUS
  <2>4. g = [left \in 0 .. n + 1 |-> g[left]]
    OBVIOUS
  <2>. HIDE DEF g
  <2>5. \A left \in 0 .. n + 1 : g[left] = TokensAt(text, g, left)
    <3>. TAKE left \in 0 .. n + 1
    <3>1. left \in Nat /\ \A m \in 0 .. left - 1 : f[m] = g[m]
      BY <2>2
    <3>2. TokensAt(text, f, left) = TokensAt(text, g, left)
      BY ONLY <3>1, TokensFromFewer
    <3>3. g[left] = TokensAt(text, f, left)
      BY <2>2, <2>3
    <3>. QED
      BY ONLY <3>2, <3>3
  <2>6. Upto(n + 1, g)
    BY ONLY <2>4, <2>5
  <2>. HIDE DEF Upto
  <2>. QED
    BY <2>6
<1>3. Len(text) \in S
  <2>. HIDE DEF S
  <2>. QED
    BY <1>1, <1>2, Induction
<1>4. \E f : Upto(Len(text), f)
  BY <1>3
<1>. DEFINE from == CHOOSE f : Upto(Len(text), f)
<1>5. Upto(Len(text), from)
  <2>. HIDE DEF Upto
  <2>. QED
    BY <1>4
<1>6. TokensFrom(text) = from
  BY DEF TokensFrom, TokensAt
<1>. HIDE DEF from
<1>. QED
  BY <1>5, <1>6


\* What one more token makes of the pieces.
AddToken(pieces, t, separator, ignored) ==
  IF t = separator THEN Append(pieces, <<>>)
  ELSE IF t \in ignored THEN pieces
  ELSE [pieces EXCEPT ![Len(pieces)] = Append(@, t)]

\* The pieces of the first tokens, up to each.
PiecesUpto(tokens, separator, ignored, f) ==
  /\ f[0] = <<<<>>>>
  /\ \A n \in 1 .. Len(tokens) : f[n] = AddToken(f[n - 1], tokens[n], separator, ignored)

\* The recursive function in Pieces exists.
LEMMA PiecesDefined ==
  ASSUME NEW tokens, NEW separator, NEW ignored, Len(tokens) \in Nat
  PROVE  \E f : /\ PiecesUpto(tokens, separator, ignored, f)
                /\ Pieces(tokens, separator, ignored) = f[Len(tokens)]
<1>. DEFINE Step(f, n) == IF n = 0 THEN <<<<>>>>
                          ELSE AddToken(f[n - 1], tokens[n], separator, ignored)
            Upto(n, f) == f = [m \in 0 .. n |-> Step(f, m)]
            S == {n \in Nat : \E f : Upto(n, f)}
<1>1. 0 \in S
  <2>. DEFINE f == [m \in 0 .. 0 |-> <<<<>>>>]
  <2>1. \A m \in 0 .. 0 : f[m] = Step(f, m)
    OBVIOUS
  <2>2. f = [m \in 0 .. 0 |-> f[m]]
    OBVIOUS
  <2>. HIDE DEF f, Step
  <2>3. Upto(0, f)
    BY <2>1, <2>2
  <2>. HIDE DEF Upto
  <2>. QED
    BY <2>3
<1>2. ASSUME NEW n \in Nat, n \in S PROVE n + 1 \in S
  <2>1. PICK f : Upto(n, f)
    BY <1>2
  <2>. DEFINE g == [m \in 0 .. n + 1 |-> IF m = n + 1 THEN Step(f, m) ELSE f[m]]
  <2>2. \A m \in 0 .. n : g[m] = f[m] /\ f[m] = Step(f, m)
    <3>. HIDE DEF Step
    <3>. QED
      BY <2>1
  <2>3. g[n + 1] = Step(f, n + 1)
    <3>. HIDE DEF Step
    <3>. QED
      OBVIOUS
  <2>4. g = [m \in 0 .. n + 1 |-> g[m]]
    OBVIOUS
  <2>. HIDE DEF g
  <2>5. \A m \in 0 .. n + 1 : g[m] = Step(g, m)
    <3>. TAKE m \in 0 .. n + 1
    <3>1. m # 0 => f[m - 1] = g[m - 1]
      BY <2>2
    <3>2. Step(f, m) = Step(g, m)
      BY <3>1
    <3>. HIDE DEF Step
    <3>. QED
      BY <2>2, <2>3, <3>2
  <2>6. Upto(n + 1, g)
    <3>. HIDE DEF Step
    <3>. QED
      BY <2>4, <2>5
  <2>. HIDE DEF Upto
  <2>. QED
    BY <2>6
<1>3. Len(tokens) \in S
  <2>. HIDE DEF S
  <2>. QED
    BY <1>1, <1>2, Induction
<1>4. \E f : Upto(Len(tokens), f)
  BY <1>3
<1>. DEFINE upto == CHOOSE f : Upto(Len(tokens), f)
<1>5. Upto(Len(tokens), upto)
  <2>. HIDE DEF Upto
  <2>. QED
    BY <1>4
<1>6. Pieces(tokens, separator, ignored) = upto[Len(tokens)]
  BY DEF Pieces, AddToken
<1>. HIDE DEF upto
<1>7. upto[0] = <<<<>>>> /\ \A n \in 1 .. Len(tokens) : upto[n] = Step(upto, n)
  <2>. HIDE DEF Step
  <2>1. \A n \in 0 .. Len(tokens) : upto[n] = Step(upto, n)
    BY <1>5
  <2>. USE DEF Step
  <2>. QED
    BY <2>1
<1>8. PiecesUpto(tokens, separator, ignored, upto)
  BY <1>7 DEF PiecesUpto
<1>. QED
  BY <1>6, <1>8

LEMMA NoPieces ==
  ASSUME NEW separator, NEW ignored
  PROVE  Pieces(<<>>, separator, ignored) = <<<<>>>>
<1>1. Len(<<>>) = 0
  OBVIOUS
<1>2. PICK f : PiecesUpto(<<>>, separator, ignored, f) /\ Pieces(<<>>, separator, ignored) = f[Len(<<>>)]
  BY <1>1, PiecesDefined
<1>. QED
  BY <1>1, <1>2 DEF PiecesUpto

LEMMA PiecesNext ==
  ASSUME NEW V, NEW tokens \in Seq(V), NEW t \in V, NEW separator, NEW ignored
  PROVE  Pieces(Append(tokens, t), separator, ignored) =
           AddToken(Pieces(tokens, separator, ignored), t, separator, ignored)
<1>. DEFINE more == Append(tokens, t)
<1>1. /\ Len(tokens) \in Nat /\ Len(more) = Len(tokens) + 1 /\ more[Len(tokens) + 1] = t
      /\ \A n \in 1 .. Len(tokens) : more[n] = tokens[n]
  OBVIOUS
<1>. HIDE DEF more
<1>2. PICK f : /\ PiecesUpto(tokens, separator, ignored, f)
               /\ Pieces(tokens, separator, ignored) = f[Len(tokens)]
  BY <1>1, PiecesDefined
<1>3. PICK g : /\ PiecesUpto(more, separator, ignored, g)
               /\ Pieces(more, separator, ignored) = g[Len(more)]
  BY <1>1, PiecesDefined
<1>. DEFINE S == {n \in Nat : n <= Len(tokens) => f[n] = g[n]}
<1>4. 0 \in S
  BY <1>2, <1>3 DEF PiecesUpto
<1>5. ASSUME NEW n \in Nat, n \in S PROVE n + 1 \in S
  <2>. SUFFICES ASSUME n + 1 <= Len(tokens) PROVE f[n + 1] = g[n + 1]
    OBVIOUS
  <2>1. f[n] = g[n] /\ n + 1 \in 1 .. Len(tokens) /\ n + 1 \in 1 .. Len(more) /\ (n + 1) - 1 = n
    BY <1>1, <1>5
  <2>2. /\ f[n + 1] = AddToken(f[n], tokens[n + 1], separator, ignored)
        /\ g[n + 1] = AddToken(g[n], more[n + 1], separator, ignored)
    BY ONLY <1>2, <1>3, <2>1 DEF PiecesUpto
  <2>3. more[n + 1] = tokens[n + 1]
    BY <1>1, <2>1
  <2>. QED
    BY ONLY <2>1, <2>2, <2>3
<1>6. Len(tokens) \in S
  <2>. HIDE DEF S
  <2>. QED
    BY <1>1, <1>4, <1>5, Induction
<1>7. f[Len(tokens)] = g[Len(tokens)]
  BY <1>1, <1>6
<1>8. Len(more) \in 1 .. Len(more) /\ Len(more) - 1 = Len(tokens)
  BY <1>1
<1>9. g[Len(more)] = AddToken(g[Len(tokens)], more[Len(more)], separator, ignored)
  BY ONLY <1>3, <1>8 DEF PiecesUpto
<1>. QED
  BY ONLY <1>1, <1>2, <1>3, <1>7, <1>9 DEF more

\* How pieces grow: at the end of the last one, and behind it.
Grown(V, p, q) ==
  /\ Len(p) <= Len(q)
  /\ \A n \in 1 .. Len(p) - 1 : q[n] = p[n]
  /\ \E r \in Seq(V) : q[Len(p)] = p[Len(p)] \o r

NonEmptyPieces(V) == {p \in Seq(Seq(V)) : Len(p) > 0}

LEMMA PiecesGrowOn ==
  ASSUME NEW V, NEW p \in NonEmptyPieces(V), NEW q \in NonEmptyPieces(V), NEW u \in NonEmptyPieces(V),
         Grown(V, p, q), Grown(V, q, u)
  PROVE  Grown(V, p, u)
<1>1. /\ Len(p) \in Nat \ {0} /\ Len(q) \in Nat \ {0} /\ Len(u) \in Nat \ {0}
      /\ Len(p) <= Len(q) /\ Len(q) <= Len(u)
      /\ \A n \in 1 .. Len(p) - 1 : q[n] = p[n]
      /\ \A n \in 1 .. Len(q) - 1 : u[n] = q[n]
      /\ p[Len(p)] \in Seq(V)
  <2>1. ASSUME NEW x \in NonEmptyPieces(V) PROVE Len(x) \in Nat \ {0} /\ x[Len(x)] \in Seq(V)
    <3>1. x \in Seq(Seq(V)) /\ Len(x) > 0
      BY ONLY <2>1 DEF NonEmptyPieces
    <3>2. Len(x) \in Nat \ {0} /\ Len(x) \in 1 .. Len(x)
      BY ONLY <3>1
    <3>. QED
      BY ONLY <3>1, <3>2
  <2>2. /\ Len(p) <= Len(q) /\ Len(q) <= Len(u)
        /\ \A n \in 1 .. Len(p) - 1 : q[n] = p[n]
        /\ \A n \in 1 .. Len(q) - 1 : u[n] = q[n]
    BY ONLY Grown(V, p, q), Grown(V, q, u) DEF Grown
  <2>. QED
    BY ONLY <2>1, <2>2, p \in NonEmptyPieces(V), q \in NonEmptyPieces(V), u \in NonEmptyPieces(V)
<1>2. PICK r \in Seq(V) : q[Len(p)] = p[Len(p)] \o r
  BY DEF Grown
<1>3. PICK r2 \in Seq(V) : u[Len(q)] = q[Len(q)] \o r2
  BY DEF Grown
<1>4. \E r3 \in Seq(V) : u[Len(p)] = p[Len(p)] \o r3
  <2>1. CASE Len(p) = Len(q)
    <3>. DEFINE last == p[Len(p)]
    <3>1. u[Len(p)] = (last \o r) \o r2 /\ last \in Seq(V) /\ r \in Seq(V) /\ r2 \in Seq(V)
      BY ONLY <1>1, <1>2, <1>3, <2>1
    <3>. HIDE DEF last
    <3>2. u[Len(p)] = last \o (r \o r2)
      BY ONLY <3>1, ConcatAssociative
    <3>3. r \o r2 \in Seq(V)
      BY ONLY <3>1, ConcatProperties
    <3>. QED
      BY ONLY <3>2, <3>3 DEF last
  <2>2. CASE Len(p) # Len(q)
    <3>1. Len(p) \in 1 .. Len(q) - 1
      BY ONLY <1>1, <2>2
    <3>2. u[Len(p)] = p[Len(p)] \o r
      BY ONLY <1>1, <1>2, <3>1
    <3>. QED
      BY ONLY <1>2, <3>2
  <2>. QED
    BY ONLY <2>1, <2>2
<1>5. \A n \in 1 .. Len(p) - 1 : u[n] = p[n]
  <2>. TAKE n \in 1 .. Len(p) - 1
  <2>1. n \in 1 .. Len(q) - 1
    BY ONLY <1>1
  <2>. QED
    BY ONLY <1>1, <2>1
<1>6. Len(p) <= Len(u)
  BY ONLY <1>1
<1>. QED
  BY ONLY <1>4, <1>5, <1>6 DEF Grown

LEMMA PiecesAdded ==
  ASSUME NEW V, NEW p \in NonEmptyPieces(V), NEW t \in V, NEW separator, NEW ignored
  PROVE  /\ AddToken(p, t, separator, ignored) \in NonEmptyPieces(V)
         /\ Grown(V, p, AddToken(p, t, separator, ignored))
<1>. DEFINE q == AddToken(p, t, separator, ignored)
<1>. SUFFICES q \in NonEmptyPieces(V) /\ Grown(V, p, q)
  OBVIOUS
<1>1. /\ p \in Seq(Seq(V)) /\ Len(p) \in Nat \ {0} /\ Len(p) \in 1 .. Len(p) /\ p[Len(p)] \in Seq(V)
      /\ <<>> \in Seq(V) /\ p[Len(p)] \o <<>> = p[Len(p)]
  BY ConcatEmptySeq, EmptySeq DEF NonEmptyPieces
<1>2. CASE t = separator
  <2>1. q = Append(p, <<>>)
    BY <1>2 DEF AddToken
  <2>2. /\ q \in Seq(Seq(V)) /\ Len(q) = Len(p) + 1
        /\ \A n \in 1 .. Len(p) : q[n] = p[n]
    BY ONLY <1>1, <2>1, AppendProperties
  <2>. HIDE DEF q
  <2>3. q \in NonEmptyPieces(V)
    BY ONLY <1>1, <2>2 DEF NonEmptyPieces
  <2>4. Len(p) <= Len(q)
    BY ONLY <1>1, <2>2
  <2>5. ASSUME NEW n \in 1 .. Len(p) - 1 PROVE q[n] = p[n]
    <3>1. n \in 1 .. Len(p)
      BY ONLY <1>1
    <3>. QED
      BY ONLY <2>2, <3>1
  <2>6. q[Len(p)] = p[Len(p)]
    BY ONLY <1>1, <2>2
  <2>7. q[Len(p)] = p[Len(p)] \o <<>> /\ <<>> \in Seq(V)
    BY ONLY <1>1, <2>6, Zenon
  <2>. QED
    BY ONLY <2>3, <2>4, <2>7, <2>5 DEF Grown
<1>3. CASE t # separator /\ t \in ignored
  <2>1. q = p
    BY <1>3 DEF AddToken
  <2>. HIDE DEF q
  <2>2. Len(p) <= Len(q) /\ q[Len(p)] = p[Len(p)] \o <<>>
    BY ONLY <1>1, <2>1
  <2>. QED
    BY ONLY <1>1, <2>1, <2>2 DEF Grown, NonEmptyPieces
<1>4. CASE t # separator /\ t \notin ignored
  <2>1. q = [p EXCEPT ![Len(p)] = Append(p[Len(p)], t)]
    BY <1>4 DEF AddToken
  <2>2. Append(p[Len(p)], t) \in Seq(V) /\ Append(p[Len(p)], t) = p[Len(p)] \o <<t>> /\ <<t>> \in Seq(V)
    BY ONLY <1>1, AppendProperties, AppendIsConcat
  <2>3. /\ q \in Seq(Seq(V)) /\ Len(q) = Len(p)
        /\ \A n \in 1 .. Len(p) : q[n] = IF n = Len(p) THEN Append(p[Len(p)], t) ELSE p[n]
    BY ONLY <1>1, <2>1, <2>2, ExceptSeq
  <2>. HIDE DEF q
  <2>4. q[Len(p)] = p[Len(p)] \o <<t>>
    BY ONLY <1>1, <2>2, <2>3
  <2>5. \A n \in 1 .. Len(p) - 1 : q[n] = p[n]
    BY ONLY <1>1, <2>3
  <2>6. q \in NonEmptyPieces(V) /\ Len(p) <= Len(q)
    BY ONLY <1>1, <2>3 DEF NonEmptyPieces
  <2>. QED
    BY ONLY <2>2, <2>4, <2>5, <2>6 DEF Grown
<1>. QED
  BY ONLY <1>2, <1>3, <1>4

LEMMA PiecesTyped ==
  ASSUME NEW V, NEW tokens \in Seq(V), NEW separator, NEW ignored
  PROVE  Pieces(tokens, separator, ignored) \in NonEmptyPieces(V)
<1>1. Len(tokens) \in Nat /\ \A n \in 1 .. Len(tokens) : tokens[n] \in V
  OBVIOUS
<1>2. PICK f : /\ PiecesUpto(tokens, separator, ignored, f)
               /\ Pieces(tokens, separator, ignored) = f[Len(tokens)]
  BY <1>1, PiecesDefined
<1>. DEFINE S == {n \in Nat : n <= Len(tokens) => f[n] \in NonEmptyPieces(V)}
<1>3. 0 \in S
  <2>1. <<<<>>>> \in Seq(Seq(V)) /\ Len(<<<<>>>>) > 0
    OBVIOUS
  <2>. QED
    BY <1>2, <2>1 DEF PiecesUpto, NonEmptyPieces
<1>4. ASSUME NEW n \in Nat, n \in S PROVE n + 1 \in S
  <2>. SUFFICES ASSUME n + 1 <= Len(tokens) PROVE f[n + 1] \in NonEmptyPieces(V)
    OBVIOUS
  <2>1. f[n] \in NonEmptyPieces(V) /\ n + 1 \in 1 .. Len(tokens) /\ (n + 1) - 1 = n
    BY <1>1, <1>4
  <2>2. f[n + 1] = AddToken(f[n], tokens[n + 1], separator, ignored)
    BY ONLY <1>2, <2>1 DEF PiecesUpto
  <2>. QED
    BY ONLY <1>1, <2>1, <2>2, PiecesAdded
<1>5. Len(tokens) \in S
  <2>. HIDE DEF S
  <2>. QED
    BY <1>1, <1>3, <1>4, Induction
<1>. QED
  BY <1>1, <1>2, <1>5

\* A sequence continued by one more element first.
LEMMA Appended ==
  ASSUME NEW V, NEW s \in Seq(V), NEW t \in V, NEW x \in Seq(V)
  PROVE  s \o (<<t>> \o x) = Append(s, t) \o x
<1>1. <<t>> \in Seq(V) /\ Append(s, t) = s \o <<t>>
  BY AppendIsConcat
<1>. QED
  BY <1>1, ConcatAssociative

\* Reading on leaves the pieces before the last one as they are.
LEMMA PiecesGrow ==
  ASSUME NEW V, NEW separator, NEW ignored, NEW seen \in Seq(V), NEW rest \in Seq(V)
  PROVE  Grown(V, Pieces(seen, separator, ignored), Pieces(seen \o rest, separator, ignored))
<1>. DEFINE P(tokens) == Pieces(tokens, separator, ignored)
            S == {n \in Nat : \A s, r \in Seq(V) : Len(r) = n => Grown(V, P(s), P(s \o r))}
<1>1. 0 \in S
  <2>. SUFFICES ASSUME NEW s \in Seq(V), NEW r \in Seq(V), Len(r) = 0
                PROVE  Grown(V, P(s), P(s \o r))
    OBVIOUS
  <2>1. r = <<>>
    BY EmptySeq
  <2>2. s \o r = s
    BY <2>1, ConcatEmptySeq
  <2>3. P(s) \in NonEmptyPieces(V)
    BY PiecesTyped
  <2>. HIDE DEF P
  <2>4. P(s)[Len(P(s))] \in Seq(V) /\ <<>> \in Seq(V)
    BY <2>3 DEF NonEmptyPieces
  <2>5. P(s)[Len(P(s))] = P(s)[Len(P(s))] \o <<>>
    BY ONLY <2>4, ConcatEmptySeq
  <2>6. Len(P(s)) <= Len(P(s))
    BY <2>3 DEF NonEmptyPieces
  <2>. QED
    BY ONLY <2>2, <2>4, <2>5, <2>6 DEF Grown
<1>2. ASSUME NEW n \in Nat, n \in S PROVE n + 1 \in S
  <2>. SUFFICES ASSUME NEW s \in Seq(V), NEW r \in Seq(V), Len(r) = n + 1
                PROVE  Grown(V, P(s), P(s \o r))
    OBVIOUS
  <2>. DEFINE t == Head(r)
              more == Append(s, t)
  <2>1. r # <<>> /\ t \in V /\ Tail(r) \in Seq(V) /\ Len(Tail(r)) = n
    BY HeadTailProperties
  <2>2. r = <<t>> \o Tail(r)
    BY <2>1
  <2>3. more \in Seq(V) /\ more = s \o <<t>> /\ <<t>> \in Seq(V)
    BY <2>1, AppendProperties, AppendIsConcat
  <2>. HIDE DEF t, more
  <2>4. s \o r = more \o Tail(r)
    BY ONLY <2>1, <2>2, Appended, s \in Seq(V) DEF more
  <2>5. Grown(V, P(more), P(more \o Tail(r)))
    BY <1>2, <2>1, <2>3
  <2>6. more \o Tail(r) \in Seq(V)
    BY ONLY <2>1, <2>3, ConcatProperties
  <2>7. P(s) \in NonEmptyPieces(V) /\ P(more) \in NonEmptyPieces(V) /\ P(more \o Tail(r)) \in NonEmptyPieces(V)
    BY ONLY <2>3, <2>6, PiecesTyped, s \in Seq(V)
  <2>8. P(more) = AddToken(P(s), t, separator, ignored)
    BY ONLY <2>1, PiecesNext, s \in Seq(V) DEF more
  <2>. HIDE DEF P
  <2>9. Grown(V, P(s), P(more))
    BY ONLY <2>1, <2>7, <2>8, PiecesAdded
  <2>. QED
    BY ONLY <2>4, <2>5, <2>7, <2>9, PiecesGrowOn
<1>3. Len(rest) \in Nat /\ \A n \in Nat : n \in S
  <2>. HIDE DEF S
  <2>. QED
    BY <1>1, <1>2, Induction
<1>4. Len(rest) \in S
  BY <1>3
<1>. QED
  BY <1>4

-----------------------------------------------------------------------------
(* Reading a text from its beginning.                                      *)

\* What is left of a text.
IsSuffix(text, rest) ==
  /\ Len(rest) <= Len(text)
  /\ \A n \in 1 .. Len(rest) : rest[n] = text[Len(text) - Len(rest) + n]

\* The tokens of the rest of a text.
Ahead(text, rest, inside) == TokensFrom(text)[Len(rest)][inside]

LEMMA NonEmpty ==
  ASSUME NEW V, NEW s \in Seq(V), s # <<>>
  PROVE  /\ Len(s) \in Nat \ {0} /\ 1 \in 1 .. Len(s)
         /\ Head(s) = s[1] /\ Head(s) \in V
         /\ Tail(s) \in Seq(V) /\ Len(Tail(s)) = Len(s) - 1
         /\ \A n \in 1 .. Len(Tail(s)) : Tail(s)[n] = s[n + 1]
         /\ s = <<Head(s)>> \o Tail(s)
<1>1. Len(s) \in Nat \ {0}
  BY EmptySeq
<1>2. 1 \in 1 .. Len(s)
  BY <1>1
<1>3. Head(s) = s[1] /\ Head(s) \in V
  BY <1>1
<1>4. Tail(s) \in Seq(V) /\ Len(Tail(s)) = Len(s) - 1
  BY HeadTailProperties
<1>5. \A n \in 1 .. Len(Tail(s)) : Tail(s)[n] = s[n + 1]
  BY HeadTailProperties
<1>6. s = <<Head(s)>> \o Tail(s)
  BY <1>1
<1>. QED
  BY ONLY <1>1, <1>2, <1>3, <1>4, <1>5, <1>6

LEMMA SuffixOfSuffix ==
  ASSUME NEW text \in Seq(Char), NEW rest \in Seq(Char), IsSuffix(text, rest), rest # <<>>
  PROVE  IsSuffix(text, Tail(rest))
<1>1. /\ Tail(rest) \in Seq(Char) /\ Len(Tail(rest)) = Len(rest) - 1 /\ Len(rest) \in Nat \ {0}
      /\ \A n \in 1 .. Len(Tail(rest)) : Tail(rest)[n] = rest[n + 1]
  BY NonEmpty
<1>2. Len(text) \in Nat
  OBVIOUS
<1>3. ASSUME NEW n \in 1 .. Len(Tail(rest))
      PROVE  Tail(rest)[n] = text[Len(text) - Len(Tail(rest)) + n]
  <2>1. n + 1 \in 1 .. Len(rest) /\ Len(text) - Len(Tail(rest)) + n = Len(text) - Len(rest) + (n + 1)
    BY ONLY <1>1, <1>2
  <2>. QED
    BY <1>1, <2>1 DEF IsSuffix
<1>. QED
  BY <1>1, <1>2, <1>3 DEF IsSuffix

LEMMA NothingAhead ==
  ASSUME NEW text \in Seq(Char), NEW inside \in BOOLEAN
  PROVE  Ahead(text, <<>>, inside) = IF inside THEN <<Unclosed>> ELSE <<>>
<1>1. Len(<<>>) = 0 /\ 0 \in 0 .. Len(text) /\ Len(text) \in Nat
  OBVIOUS
<1>2. TokensFrom(text)[0] = TokensAt(text, TokensFrom(text), 0)
  BY ONLY <1>1, TokensDefined
<1>. QED
  BY ONLY <1>1, <1>2, inside \in BOOLEAN DEF Ahead, TokensAt

\* The character behind the first.
Behind(rest) == IF Tail(rest) = <<>> THEN "end of file" ELSE Head(Tail(rest))

\* The next token, by the next character and the one behind it.
LEMMA OneAhead ==
  ASSUME NEW text \in Seq(Char), NEW rest \in Seq(Char), IsSuffix(text, rest), rest # <<>>,
         NEW inside \in BOOLEAN
  PROVE  Ahead(text, rest, inside) =
           IF Head(rest) = Quote THEN <<QuoteMark>> \o Ahead(text, Tail(rest), ~inside)
           ELSE IF inside /\ Head(rest) = Escape /\ Behind(rest) \in {Quote, Escape}
             THEN <<Behind(rest)>> \o Ahead(text, Tail(Tail(rest)), inside)
           ELSE IF ~inside /\ Head(rest) = Comma THEN <<FieldSep>> \o Ahead(text, Tail(rest), inside)
           ELSE IF ~inside /\ Head(rest) = CR /\ Behind(rest) = LF
             THEN <<RecordSep>> \o Ahead(text, Tail(Tail(rest)), inside)
           ELSE IF ~inside /\ Head(rest) \in {CR, LF}
             THEN <<RecordSep>> \o Ahead(text, Tail(rest), inside)
           ELSE <<Head(rest)>> \o Ahead(text, Tail(rest), inside)
<1>1. /\ Tail(rest) \in Seq(Char) /\ Len(Tail(rest)) = Len(rest) - 1
      /\ Len(rest) \in Nat \ {0} /\ 1 \in 1 .. Len(rest)
      /\ Head(rest) = rest[1]
      /\ \A n \in 1 .. Len(Tail(rest)) : Tail(rest)[n] = rest[n + 1]
  BY NonEmpty
<1>2. Len(text) \in Nat /\ Len(rest) <= Len(text)
  BY DEF IsSuffix
<1>3. Len(rest) \in Nat \ {0} /\ Len(Tail(rest)) = Len(rest) - 1
  BY <1>1
<1>. DEFINE left == Len(rest)
            after == IF left > 1 THEN text[Len(text) - left + 2] ELSE "end of file"
<1>4. Head(rest) = text[Len(text) - left + 1]
  BY <1>1 DEF IsSuffix
<1>5. Behind(rest) = after
  <2>1. CASE Tail(rest) = <<>>
    <3>1. Len(<<>>) = 0
      OBVIOUS
    <3>2. Len(Tail(rest)) = 0
      BY ONLY <2>1, <3>1
    <3>3. \A a \in Nat : a - 1 = 0 => a = 1
      OBVIOUS
    <3>4. Len(rest) = 1
      BY ONLY <1>3, <3>2, <3>3
    <3>5. ~(left > 1)
      BY ONLY <3>4
    <3>. QED
      BY ONLY <2>1, <3>5 DEF Behind
  <2>2. CASE Tail(rest) # <<>>
    <3>1. /\ Len(Tail(rest)) \in Nat \ {0} /\ 1 \in 1 .. Len(Tail(rest))
          /\ Head(Tail(rest)) = Tail(rest)[1]
      BY ONLY <1>1, <2>2, NonEmpty
    <3>2. Tail(rest)[1] = rest[2] /\ left > 1 /\ 2 \in 1 .. Len(rest)
      BY ONLY <1>1, <3>1
    <3>3. rest[2] = text[Len(text) - left + 2]
      BY <3>2 DEF IsSuffix
    <3>. QED
      BY ONLY <2>2, <3>1, <3>2, <3>3 DEF Behind
  <2>. QED
    BY ONLY <2>1, <2>2
<1>6. Behind(rest) \in {Quote, Escape, LF} => Len(Tail(Tail(rest))) = left - 2
  <2>. SUFFICES ASSUME Behind(rest) \in {Quote, Escape, LF} PROVE Len(Tail(Tail(rest))) = left - 2
    OBVIOUS
  <2>1. Tail(rest) # <<>>
    BY DEF Behind, Quote, Escape, LF
  <2>2. Len(Tail(Tail(rest))) = Len(Tail(rest)) - 1
    BY ONLY <1>1, <2>1, NonEmpty
  <2>. QED
    BY ONLY <1>1, <2>2
<1>7. TokensFrom(text)[left] = TokensAt(text, TokensFrom(text), left)
  <2>1. left \in 0 .. Len(text)
    BY ONLY <1>1, <1>2
  <2>. HIDE DEF left
  <2>. QED
    BY ONLY <1>2, <2>1, TokensDefined
<1>8. Ahead(text, rest, inside) = TokensAt(text, TokensFrom(text), left)[inside]
  BY <1>7 DEF Ahead
<1>9. left # 0 /\ Len(Tail(rest)) = left - 1
  BY ONLY <1>1
<1>. HIDE DEF left
<1>10. TokensAt(text, TokensFrom(text), left)[inside] =
        IF Head(rest) = Quote THEN <<QuoteMark>> \o TokensFrom(text)[left - 1][~inside]
        ELSE IF inside /\ Head(rest) = Escape /\ after \in {Quote, Escape}
          THEN <<after>> \o TokensFrom(text)[left - 2][inside]
        ELSE IF ~inside /\ Head(rest) = Comma THEN <<FieldSep>> \o TokensFrom(text)[left - 1][inside]
        ELSE IF ~inside /\ Head(rest) = CR /\ after = LF
          THEN <<RecordSep>> \o TokensFrom(text)[left - 2][inside]
        ELSE IF ~inside /\ Head(rest) \in {CR, LF}
          THEN <<RecordSep>> \o TokensFrom(text)[left - 1][inside]
        ELSE <<Head(rest)>> \o TokensFrom(text)[left - 1][inside]
  BY ONLY <1>4, <1>9, inside \in BOOLEAN DEF TokensAt
<1>. HIDE DEF after
<1>. QED
  BY ONLY <1>5, <1>6, <1>8, <1>9, <1>10 DEF Ahead

AnyToken == Token \union {Unclosed}

LEMMA Prefixed ==
  ASSUME NEW V, NEW t \in V, NEW s \in Seq(V)
  PROVE  <<t>> \o s \in Seq(V) /\ <<t>> \in Seq(V)
OBVIOUS

LEMMA TokensTyped ==
  ASSUME NEW text \in Seq(Char)
  PROVE  \A left \in 0 .. Len(text) : \A inside \in BOOLEAN :
           TokensFrom(text)[left][inside] \in Seq(AnyToken)
<1>. DEFINE from == TokensFrom(text)
            S == {n \in Nat : \A left \in 0 .. n : left <= Len(text) =>
                                \A inside \in BOOLEAN : from[left][inside] \in Seq(AnyToken)}
<1>1. /\ Len(text) \in Nat
      /\ \A left \in 0 .. Len(text) : from[left] = TokensAt(text, from, left)
  BY TokensDefined
<1>. HIDE DEF from
<1>2. 0 \in S
  <2>. SUFFICES ASSUME NEW inside \in BOOLEAN PROVE from[0][inside] \in Seq(AnyToken)
    OBVIOUS
  <2>1. from[0] = TokensAt(text, from, 0)
    BY <1>1
  <2>2. from[0][inside] = IF inside THEN <<Unclosed>> ELSE <<>>
    BY ONLY <2>1, inside \in BOOLEAN DEF TokensAt
  <2>3. <<Unclosed>> \in Seq(AnyToken) /\ <<>> \in Seq(AnyToken)
    BY DEF AnyToken
  <2>. QED
    BY ONLY <2>2, <2>3
<1>3. ASSUME NEW n \in Nat, n \in S PROVE n + 1 \in S
  <2>1. \A left \in 0 .. n : left <= Len(text) => \A inside \in BOOLEAN : from[left][inside] \in Seq(AnyToken)
    BY <1>3
  <2>. SUFFICES ASSUME n + 1 <= Len(text), NEW inside \in BOOLEAN
                PROVE  from[n + 1][inside] \in Seq(AnyToken)
    BY <2>1
  <2>. DEFINE left == n + 1
              char == text[Len(text) - left + 1]
              next == IF left > 1 THEN text[Len(text) - left + 2] ELSE "end of file"
  <2>2. char \in Char
    <3>1. Len(text) - left + 1 \in 1 .. Len(text)
      BY <1>1
    <3>. QED
      BY <3>1
  <2>3. next \in {Quote, Escape, LF} => left > 1
    BY DEF Quote, Escape, LF
  <2>4. from[left] = TokensAt(text, from, left)
    BY <1>1
  <2>5. left # 0 /\ left - 1 \in 0 .. n /\ left - 1 <= Len(text)
        /\ (left > 1 => left - 2 \in 0 .. n /\ left - 2 <= Len(text))
    BY <1>1
  <2>6. from[left - 1][inside] \in Seq(AnyToken) /\ from[left - 1][~inside] \in Seq(AnyToken)
    BY <2>1, <2>5
  <2>7. left > 1 => from[left - 2][inside] \in Seq(AnyToken)
    BY <2>1, <2>5
  <2>. HIDE DEF left
  <2>8. from[left][inside] =
          IF char = Quote THEN <<QuoteMark>> \o from[left - 1][~inside]
          ELSE IF inside /\ char = Escape /\ next \in {Quote, Escape}
            THEN <<next>> \o from[left - 2][inside]
          ELSE IF ~inside /\ char = Comma THEN <<FieldSep>> \o from[left - 1][inside]
          ELSE IF ~inside /\ char = CR /\ next = LF
            THEN <<RecordSep>> \o from[left - 2][inside]
          ELSE IF ~inside /\ char \in {CR, LF} THEN <<RecordSep>> \o from[left - 1][inside]
          ELSE <<char>> \o from[left - 1][inside]
    BY ONLY <2>4, <2>5, inside \in BOOLEAN DEF TokensAt
  <2>. HIDE DEF char, next
  <2>9. /\ QuoteMark \in AnyToken /\ FieldSep \in AnyToken /\ RecordSep \in AnyToken
        /\ char \in AnyToken /\ Quote \in AnyToken /\ Escape \in AnyToken
    BY <2>2 DEF AnyToken, Token, Char
  <2>10. \E t \in AnyToken, s \in Seq(AnyToken) : from[left][inside] = <<t>> \o s
    BY ONLY <2>3, <2>6, <2>7, <2>8, <2>9
  <2>11. from[left][inside] \in Seq(AnyToken)
    BY ONLY <2>10, Prefixed
  <2>. QED
    BY ONLY <2>11 DEF left
<1>4. Len(text) \in S
  <2>. HIDE DEF S
  <2>. QED
    BY <1>1, <1>2, <1>3, Induction
<1>. QED
  BY <1>1, <1>4 DEF from

LEMMA AheadTyped ==
  ASSUME NEW text \in Seq(Char), NEW rest \in Seq(Char), IsSuffix(text, rest), NEW inside \in BOOLEAN
  PROVE  Ahead(text, rest, inside) \in Seq(AnyToken)
<1>1. Len(rest) \in 0 .. Len(text)
  BY DEF IsSuffix
<1>. QED
  BY <1>1, TokensTyped DEF Ahead

-----------------------------------------------------------------------------
(* What the parser has read: some lines and a part of one.                 *)

\* How many lines of the file are no row.
Skipped == IF header THEN 1 ELSE 0

\* The row a line means, and whether its first fields mean values.
RowOf(line) == [a \in DOMAIN Attributes |-> Converted(Attributes[a], Fields(line)[a])]

FieldsConvertible(line, n) == \A a \in 1 .. n : Convertible(Attributes[a], Fields(line)[a])

\* Where the parser is when it has read these lines and this part of the next one:
\* its counters and flags are functions of them.
Reading(done, line) ==
  /\ row_idx = Len(done)
  /\ after_first_row <=> Len(done) > 0
  /\ \A l \in 1 .. Len(done) : Len(Fields(done[l])) = num_cols
  /\ Len(Fields(line)) = col_idx + 1 /\ Fields(line)[col_idx + 1] = current_field
  /\ quoted => line # <<>>
  /\ after_record_sep <=> Len(done) > 0 /\ line = <<>>

\* The lines read are as long as the table is wide, as far as they are known.
Fitting(done) == (Len(done) > 0 => num_cols = Len(Attributes)) /\ col_idx < Len(Attributes)

\* How many rows those lines are.
RowsDone == IF InHeader THEN 0 ELSE row_idx - Skipped

\* The table holds the rows of the lines read, and the record begun holds the values of
\* the fields that have ended. A file that means no table may leave anything behind.
Loaded(done, line) ==
  Fitting(done) =>
    /\ full_table = [l \in 1 .. RowsDone |-> RowOf(done[l + Skipped])]
    /\ \A l \in 1 .. RowsDone : FieldsConvertible(done[l + Skipped], Len(Attributes))
    /\ InHeader => last_record = <<>>
    /\ ~InHeader =>
         /\ last_record = [a \in 1 .. col_idx |-> Converted(Attributes[a], Fields(line)[a])]
         /\ FieldsConvertible(line, col_idx)

LEMMA MarksAreNoCharacters ==
  /\ FieldSep \notin Char /\ RecordSep \notin Char /\ QuoteMark \notin Char /\ Unclosed \notin Char
  /\ FieldSep # RecordSep /\ FieldSep # QuoteMark /\ RecordSep # QuoteMark
  /\ Unclosed \notin Token
  /\ Char \subseteq Token /\ FieldSep \in Token /\ RecordSep \in Token /\ QuoteMark \in Token
BY DEF FieldSep, RecordSep, QuoteMark, Unclosed, Char, Token, Digit, Comma, LF, CR, Quote, Escape

LEMMA FieldsTyped ==
  ASSUME NEW line \in Seq(AnyToken)
  PROVE  Fields(line) \in Seq(Seq(AnyToken)) /\ Len(Fields(line)) \in Nat \ {0}
BY PiecesTyped DEF Fields, NonEmptyPieces

LEMMA TokensAreAny ==
  ASSUME NEW s \in Seq(Token)
  PROVE  s \in Seq(AnyToken)
BY DEF AnyToken

LEMMA LinesAreAny ==
  ASSUME NEW s \in Seq(Seq(Token))
  PROVE  s \in Seq(Seq(AnyToken))
<1>1. Seq(Token) \subseteq Seq(AnyToken)
  BY TokensAreAny
<1>. QED
  BY <1>1

LEMMA FieldsOfNothing == Fields(<<>>) = <<<<>>>> /\ Len(Fields(<<>>)) = 1 /\ Fields(<<>>)[1] = <<>>
BY NoPieces DEF Fields

LEMMA FieldsWithChar ==
  ASSUME NEW line \in Seq(Token), NEW c \in Char
  PROVE  /\ Len(Fields(Append(line, c))) = Len(Fields(line))
         /\ \A a \in 1 .. Len(Fields(line)) - 1 : Fields(Append(line, c))[a] = Fields(line)[a]
         /\ Fields(Append(line, c))[Len(Fields(line))] = Append(Fields(line)[Len(Fields(line))], c)
<1>1. c \in Token /\ c # FieldSep /\ c \notin {QuoteMark}
  BY MarksAreNoCharacters
<1>2. Fields(Append(line, c)) = AddToken(Fields(line), c, FieldSep, {QuoteMark})
  BY ONLY <1>1, PiecesNext, line \in Seq(Token) DEF Fields
<1>3. Fields(line) \in Seq(Seq(AnyToken)) /\ Len(Fields(line)) \in Nat \ {0}
  BY FieldsTyped, TokensAreAny
<1>. DEFINE f == Fields(line)
            last == Append(f[Len(f)], c)
<1>4. Fields(Append(line, c)) = [f EXCEPT ![Len(f)] = last]
  BY ONLY <1>1, <1>2 DEF AddToken
<1>5. last \in Seq(AnyToken) /\ f \in Seq(Seq(AnyToken)) /\ Len(f) \in Nat \ {0} /\ Len(f) \in 1 .. Len(f)
  BY ONLY <1>1, <1>3, AppendProperties DEF AnyToken
<1>. DEFINE g == Fields(Append(line, c))
            k == Len(f)
<1>. HIDE DEF f, last
<1>6. Len(g) = k /\ \A n \in 1 .. k : g[n] = IF n = k THEN last ELSE f[n]
  BY ONLY <1>4, <1>5, ExceptSeq
<1>. HIDE DEF g, k
<1>7. k \in Nat \ {0}
  BY ONLY <1>5 DEF k
<1>8. g[k] = last /\ \A a \in 1 .. k - 1 : g[a] = f[a]
  BY ONLY <1>6, <1>7
<1>. QED
  BY ONLY <1>6, <1>8 DEF f, g, k, last

LEMMA FieldsWithQuote ==
  ASSUME NEW line \in Seq(Token)
  PROVE  Fields(Append(line, QuoteMark)) = Fields(line)
<1>1. QuoteMark \in Token /\ QuoteMark # FieldSep
  BY MarksAreNoCharacters
<1>2. Fields(Append(line, QuoteMark)) = AddToken(Fields(line), QuoteMark, FieldSep, {QuoteMark})
  BY ONLY <1>1, PiecesNext, line \in Seq(Token) DEF Fields
<1>. QED
  BY ONLY <1>1, <1>2 DEF AddToken

LEMMA FieldsWithSeparator ==
  ASSUME NEW line \in Seq(Token)
  PROVE  /\ Len(Fields(Append(line, FieldSep))) = Len(Fields(line)) + 1
         /\ \A a \in 1 .. Len(Fields(line)) : Fields(Append(line, FieldSep))[a] = Fields(line)[a]
         /\ Fields(Append(line, FieldSep))[Len(Fields(line)) + 1] = <<>>
<1>1. FieldSep \in Token
  BY MarksAreNoCharacters
<1>2. Fields(Append(line, FieldSep)) = AddToken(Fields(line), FieldSep, FieldSep, {QuoteMark})
  BY ONLY <1>1, PiecesNext, line \in Seq(Token) DEF Fields
<1>3. Fields(Append(line, FieldSep)) = Append(Fields(line), <<>>)
  BY ONLY <1>2 DEF AddToken
<1>4. Fields(line) \in Seq(Seq(AnyToken)) /\ <<>> \in Seq(AnyToken)
  BY FieldsTyped, TokensAreAny
<1>. QED
  BY ONLY <1>3, <1>4, AppendProperties

LEMMA AppendedIsNotEmpty ==
  ASSUME NEW V, NEW s \in Seq(V), NEW t \in V
  PROVE  Append(s, t) \in Seq(V) /\ Append(s, t) # <<>> /\ Len(Append(s, t)) = Len(s) + 1
OBVIOUS

\* The values of the fields that have ended are what was made of them.
LEMMA SameFieldsLoaded ==
  ASSUME col_idx \in Nat, NEW done, NEW line, NEW more, Loaded(done, line),
         \A a \in 1 .. col_idx : Fields(more)[a] = Fields(line)[a],
         UNCHANGED <<header, row_idx, num_cols, col_idx, last_record, full_table>>
  PROVE  Loaded(done, more)'
<1>. SUFFICES ASSUME Fitting(done)' PROVE
       /\ full_table' = [l \in 1 .. RowsDone' |-> RowOf(done[l + Skipped'])]
       /\ \A l \in 1 .. RowsDone' : FieldsConvertible(done[l + Skipped'], Len(Attributes))
       /\ InHeader' => last_record' = <<>>
       /\ ~InHeader' =>
            /\ last_record' = [a \in 1 .. col_idx' |-> Converted(Attributes[a], Fields(more)[a])]
            /\ FieldsConvertible(more, col_idx')
  BY DEF Loaded
<1>1. Fitting(done) /\ RowsDone' = RowsDone /\ Skipped' = Skipped /\ (InHeader' <=> InHeader)
      /\ full_table' = full_table /\ last_record' = last_record /\ col_idx' = col_idx
  BY DEF Fitting, RowsDone, Skipped, InHeader
<1>2. [a \in 1 .. col_idx |-> Converted(Attributes[a], Fields(more)[a])]
        = [a \in 1 .. col_idx |-> Converted(Attributes[a], Fields(line)[a])]
  OBVIOUS
<1>3. FieldsConvertible(line, col_idx) => FieldsConvertible(more, col_idx)
  BY DEF FieldsConvertible
<1>4. /\ full_table = [l \in 1 .. RowsDone |-> RowOf(done[l + Skipped])]
      /\ \A l \in 1 .. RowsDone : FieldsConvertible(done[l + Skipped], Len(Attributes))
      /\ InHeader => last_record = <<>>
      /\ ~InHeader =>
           /\ last_record = [a \in 1 .. col_idx |-> Converted(Attributes[a], Fields(line)[a])]
           /\ FieldsConvertible(line, col_idx)
  BY <1>1 DEF Loaded
<1>. QED
  BY ONLY <1>1, <1>2, <1>3, <1>4

\* One character, one quote, one field and one line more, and what the parser keeps of them.
LEMMA CharTaken ==
  ASSUME ParserTypeOK, NEW done \in Seq(Seq(Token)), NEW line \in Seq(Token),
         Reading(done, line), Loaded(done, line), NEW c \in Char,
         current_field' = Append(current_field, c), after_record_sep' = FALSE,
         UNCHANGED <<header, row_idx, num_cols, col_idx, after_first_row, quoted, records>>
  PROVE  Reading(done, Append(line, c))' /\ Loaded(done, Append(line, c))'
<1>. DEFINE more == Append(line, c)
<1>1. col_idx \in Nat /\ Len(Fields(line)) = col_idx + 1 /\ Fields(line)[col_idx + 1] = current_field
  BY DEF ParserTypeOK, Reading
<1>2. /\ Len(Fields(more)) = Len(Fields(line))
      /\ \A a \in 1 .. Len(Fields(line)) - 1 : Fields(more)[a] = Fields(line)[a]
      /\ Fields(more)[Len(Fields(line))] = Append(Fields(line)[Len(Fields(line))], c)
  BY FieldsWithChar
<1>3. more # <<>>
  BY MarksAreNoCharacters, AppendedIsNotEmpty
<1>. HIDE DEF more
<1>4. /\ Len(Fields(more)) = col_idx + 1 /\ Fields(more)[col_idx + 1] = Append(current_field, c)
      /\ \A a \in 1 .. col_idx : Fields(more)[a] = Fields(line)[a]
  <2>1. Len(Fields(line)) - 1 = col_idx
    BY ONLY <1>1
  <2>. QED
    BY ONLY <1>1, <1>2, <2>1
<1>5. Reading(done, more)'
  BY <1>3, <1>4 DEF Reading, ParserTypeOK
<1>6. Loaded(done, more)'
  BY <1>1, <1>4, SameFieldsLoaded DEF records
<1>. QED
  BY ONLY <1>5, <1>6 DEF more

LEMMA QuoteTaken ==
  ASSUME ParserTypeOK, NEW done \in Seq(Seq(Token)), NEW line \in Seq(Token),
         Reading(done, line), Loaded(done, line), after_record_sep' = FALSE,
         UNCHANGED <<header, current_field, row_idx, num_cols, col_idx, after_first_row, records>>
  PROVE  Reading(done, Append(line, QuoteMark))' /\ Loaded(done, Append(line, QuoteMark))'
<1>. DEFINE more == Append(line, QuoteMark)
<1>1. col_idx \in Nat
  BY DEF ParserTypeOK
<1>2. Fields(more) = Fields(line)
  BY FieldsWithQuote
<1>3. more # <<>>
  BY MarksAreNoCharacters, AppendedIsNotEmpty
<1>. HIDE DEF more
<1>4. Reading(done, more)'
  BY <1>2, <1>3 DEF Reading, ParserTypeOK
<1>5. Loaded(done, more)'
  BY <1>1, <1>2, SameFieldsLoaded DEF records
<1>. QED
  BY ONLY <1>4, <1>5 DEF more

LEMMA FieldTaken ==
  ASSUME ParserTypeOK, Attributes \in Seq({"INT32", "VARCHAR"}),
         NEW done \in Seq(Seq(Token)), NEW line \in Seq(Token),
         Reading(done, line), Loaded(done, line), OnField,
         current_field' = <<>>, col_idx' = col_idx + 1, after_record_sep' = FALSE,
         UNCHANGED <<header, row_idx, num_cols, after_first_row, quoted>>
  PROVE  Reading(done, Append(line, FieldSep))' /\ Loaded(done, Append(line, FieldSep))'
<1>. DEFINE more == Append(line, FieldSep)
<1>1. col_idx \in Nat /\ Len(Fields(line)) = col_idx + 1 /\ Fields(line)[col_idx + 1] = current_field
  BY DEF ParserTypeOK, Reading
<1>2. /\ Len(Fields(more)) = col_idx + 2 /\ Fields(more)[col_idx + 2] = <<>>
      /\ \A a \in 1 .. col_idx + 1 : Fields(more)[a] = Fields(line)[a]
  <2>1. /\ Len(Fields(more)) = Len(Fields(line)) + 1
        /\ \A a \in 1 .. Len(Fields(line)) : Fields(more)[a] = Fields(line)[a]
        /\ Fields(more)[Len(Fields(line)) + 1] = <<>>
    BY FieldsWithSeparator
  <2>. HIDE DEF more
  <2>2. Len(Fields(line)) + 1 = col_idx + 2
    BY ONLY <1>1
  <2>. QED
    BY ONLY <1>1, <2>1, <2>2
<1>3. more # <<>>
  BY MarksAreNoCharacters, AppendedIsNotEmpty
<1>. HIDE DEF more
<1>4. Reading(done, more)'
  <2>1. col_idx' + 1 = col_idx + 2
    BY <1>1
  <2>. QED
    BY <1>2, <1>3, <2>1 DEF Reading, ParserTypeOK
<1>5. Loaded(done, more)'
  <2>. SUFFICES ASSUME Fitting(done)' PROVE
         /\ full_table' = [l \in 1 .. RowsDone' |-> RowOf(done[l + Skipped'])]
         /\ \A l \in 1 .. RowsDone' : FieldsConvertible(done[l + Skipped'], Len(Attributes))
         /\ InHeader' => last_record' = <<>>
         /\ ~InHeader' =>
              /\ last_record' = [a \in 1 .. col_idx' |-> Converted(Attributes[a], Fields(more)[a])]
              /\ FieldsConvertible(more, col_idx')
    BY DEF Loaded
  <2>1. /\ Fitting(done) /\ RowsDone' = RowsDone /\ Skipped' = Skipped /\ (InHeader' <=> InHeader)
        /\ col_idx < Len(Attributes) /\ ~LastColumn /\ col_idx' = col_idx + 1
    BY <1>1 DEF Fitting, RowsDone, Skipped, InHeader, LastColumn
  <2>2. /\ full_table = [l \in 1 .. RowsDone |-> RowOf(done[l + Skipped])]
        /\ \A l \in 1 .. RowsDone : FieldsConvertible(done[l + Skipped], Len(Attributes))
        /\ InHeader => last_record = <<>>
        /\ ~InHeader =>
             /\ last_record = [a \in 1 .. col_idx |-> Converted(Attributes[a], Fields(line)[a])]
             /\ FieldsConvertible(line, col_idx)
    BY <2>1 DEF Loaded
  <2>3. InHeader => UNCHANGED <<last_record, full_table>>
    BY DEF OnField, records
  <2>4. ~InHeader => last_record' = NewRecord /\ full_table' = full_table
        /\ Convertible(Attributes[col_idx + 1], current_field)
    <3>1. ~(col_idx >= Len(Attributes))
      BY ONLY <1>1, <2>1, Attributes \in Seq({"INT32", "VARCHAR"})
    <3>. QED
      BY <2>1, <3>1 DEF OnField, ParseError
  <2>5. ASSUME ~InHeader
        PROVE  /\ last_record' = [a \in 1 .. col_idx' |-> Converted(Attributes[a], Fields(more)[a])]
               /\ FieldsConvertible(more, col_idx')
    <3>1. \A a \in 1 .. col_idx + 1 : Convertible(Attributes[a], Fields(more)[a])
      <4>1. Convertible(Attributes[col_idx + 1], Fields(more)[col_idx + 1])
        BY <1>1, <1>2, <2>4, <2>5
      <4>. QED
        BY <1>1, <1>2, <2>2, <2>5, <4>1 DEF FieldsConvertible
    <3>. DEFINE v(a) == Converted(Attributes[a], Fields(line)[a])
                w(a) == Converted(Attributes[a], Fields(more)[a])
    <3>2. last_record' = Append([a \in 1 .. col_idx |-> v(a)], v(col_idx + 1))
      BY <1>1, <2>2, <2>4, <2>5 DEF NewRecord
    <3>3. \A a \in 1 .. col_idx + 1 : v(a) = w(a)
      BY <1>2
    <3>. HIDE DEF v, w
    <3>4. Append([a \in 1 .. col_idx |-> v(a)], v(col_idx + 1)) = [a \in 1 .. col_idx + 1 |-> v(a)]
      BY <1>1
    <3>5. [a \in 1 .. col_idx + 1 |-> v(a)] = [a \in 1 .. col_idx + 1 |-> w(a)]
      BY <3>3
    <3>. QED
      BY <2>1, <3>1, <3>2, <3>4, <3>5 DEF w, FieldsConvertible
  <2>. QED
    BY ONLY <2>1, <2>2, <2>3, <2>4, <2>5
<1>. QED
  BY ONLY <1>4, <1>5 DEF more

LEMMA LineTaken ==
  ASSUME ParserTypeOK, header \in BOOLEAN, Attributes \in Seq({"INT32", "VARCHAR"}),
         NEW done \in Seq(Seq(Token)), NEW line \in Seq(Token),
         Reading(done, line), Loaded(done, line), ~quoted, ~Inconsistent, OnField,
         after_first_row' = TRUE,
         num_cols' = IF after_first_row THEN num_cols ELSE col_idx + 1,
         current_field' = <<>>, col_idx' = 0, row_idx' = row_idx + 1, after_record_sep' = TRUE,
         UNCHANGED <<header, quoted>>
  PROVE  Reading(Append(done, line), <<>>)' /\ Loaded(Append(done, line), <<>>)'
<1>. DEFINE more == Append(done, line)
<1>1. /\ col_idx \in Nat /\ row_idx \in Nat /\ num_cols \in Nat /\ row_idx = Len(done)
      /\ Len(Fields(line)) = col_idx + 1 /\ Fields(line)[col_idx + 1] = current_field
      /\ after_first_row <=> Len(done) > 0
      /\ \A l \in 1 .. Len(done) : Len(Fields(done[l])) = num_cols
  BY DEF ParserTypeOK, Reading
<1>2. /\ Len(more) = Len(done) + 1 /\ more[Len(done) + 1] = line
      /\ \A l \in 1 .. Len(done) : more[l] = done[l]
  BY AppendProperties
<1>. HIDE DEF more
<1>3. num_cols' = col_idx + 1 /\ (Len(done) > 0 => num_cols' = num_cols)
  BY <1>1 DEF Inconsistent
<1>4. Reading(more, <<>>)'
  <2>1. \A l \in 1 .. Len(more) : Len(Fields(more[l])) = num_cols'
    <3>. TAKE l \in 1 .. Len(more)
    <3>1. CASE l = Len(done) + 1
      BY ONLY <1>1, <1>2, <1>3, <3>1
    <3>2. CASE l # Len(done) + 1
      <4>1. l \in 1 .. Len(done) /\ Len(done) > 0
        BY ONLY <1>1, <1>2, <3>2
      <4>. QED
        BY ONLY <1>1, <1>2, <1>3, <4>1
    <3>. QED
      BY ONLY <3>1, <3>2
  <2>2. row_idx' = Len(more) /\ Len(more) > 0
    BY <1>1, <1>2
  <2>3. Len(Fields(<<>>)) = 0 + 1 /\ Fields(<<>>)[0 + 1] = <<>>
    BY FieldsOfNothing
  <2>. QED
    BY <2>1, <2>2, <2>3 DEF Reading
<1>5. Loaded(more, <<>>)'
  <2>. DEFINE n == RowsDone
              s == Skipped
  <2>. SUFFICES ASSUME Fitting(more)' PROVE
         /\ full_table' = [l \in 1 .. RowsDone' |-> RowOf(more[l + Skipped'])]
         /\ \A l \in 1 .. RowsDone' : FieldsConvertible(more[l + Skipped'], Len(Attributes))
         /\ InHeader' => last_record' = <<>>
         /\ ~InHeader' =>
              /\ last_record' = [a \in 1 .. col_idx' |-> Converted(Attributes[a], Fields(<<>>)[a])]
              /\ FieldsConvertible(<<>>, col_idx')
    BY DEF Loaded
  <2>1. Len(Attributes) \in Nat /\ DOMAIN Attributes = 1 .. Len(Attributes)
    OBVIOUS
  <2>2. col_idx + 1 = Len(Attributes) /\ Fitting(done) /\ LastColumn
    <3>1. num_cols' = Len(Attributes)
      BY <1>1, <1>2 DEF Fitting
    <3>2. col_idx + 1 = Len(Attributes) /\ (Len(done) > 0 => num_cols = Len(Attributes))
      BY ONLY <1>3, <3>1
    <3>3. col_idx < Len(Attributes)
      BY ONLY <1>1, <3>2
    <3>. QED
      BY ONLY <3>2, <3>3 DEF Fitting, LastColumn
  <2>3. row_idx \in Nat /\ row_idx' = row_idx + 1 /\ header' = header
    BY <1>1
  <2>4. ~InHeader' /\ Skipped \in {0, 1} /\ Skipped = Skipped'
    BY ONLY <2>3 DEF InHeader, Skipped
  <2>5. ~InHeader' /\ s \in {0, 1} /\ s = Skipped' /\ RowsDone' = row_idx + 1 - s
    BY ONLY <2>3, <2>4 DEF RowsDone
  <2>6. /\ full_table = [l \in 1 .. n |-> RowOf(done[l + s])]
        /\ \A l \in 1 .. n : FieldsConvertible(done[l + s], Len(Attributes))
        /\ InHeader => last_record = <<>>
        /\ ~InHeader =>
             /\ last_record = [a \in 1 .. col_idx |-> Converted(Attributes[a], Fields(line)[a])]
             /\ FieldsConvertible(line, col_idx)
    BY <2>2 DEF Loaded
  <2>7. n \in Nat /\ (InHeader => n = 0 /\ RowsDone' = 0) /\ (~InHeader => n = row_idx - s /\ RowsDone' = n + 1)
    <3>1. InHeader => row_idx = 0 /\ Skipped = 1 /\ RowsDone = 0
      BY ONLY TRUE DEF InHeader, Skipped, RowsDone
    <3>2. ~InHeader => row_idx # 0 \/ Skipped = 0
      BY ONLY TRUE DEF InHeader, Skipped
    <3>3. ~InHeader => RowsDone = row_idx - s
      BY ONLY TRUE DEF RowsDone
    <3>4. CASE InHeader
      <4>1. n = 0 /\ RowsDone' = 0
        BY ONLY <2>5, <2>3, <3>1, <3>4
      <4>. QED
        BY ONLY <3>4, <4>1
    <3>5. CASE ~InHeader
      <4>1. n = row_idx - s /\ RowsDone' = row_idx + 1 - s
        BY ONLY <2>5, <3>3, <3>5
      <4>2. s = 0 \/ (s = 1 /\ row_idx # 0)
        BY ONLY <2>5, <3>2, <3>5
      <4>. HIDE DEF n, s
      <4>3. n \in Nat /\ RowsDone' = n + 1
        BY ONLY <2>3, <4>1, <4>2
      <4>. QED
        BY ONLY <3>5, <4>1, <4>3
    <3>. QED
      BY ONLY <3>4, <3>5
  <2>. HIDE DEF n, s
  <2>8. Len(done) = row_idx
    BY <1>1
  <2>9. \A l \in 1 .. n : more[l + s] = done[l + s]
    <3>. TAKE l \in 1 .. n
    <3>1. (n = 0 \/ n = row_idx - s) /\ n \in Nat
      BY ONLY <2>7
    <3>2. (s = 0 \/ s = 1) /\ row_idx \in Nat
      BY ONLY <2>5, <2>3
    <3>3. l \in Nat /\ 1 <= l /\ l <= n
      BY ONLY <3>1, l \in 1 .. n
    <3>4. l + s \in 1 .. row_idx
      BY ONLY <3>1, <3>3, <3>2
    <3>5. l + s \in 1 .. Len(done)
      BY ONLY <2>8, <3>4
    <3>. QED
      BY <1>2, <3>5
  <2>10. last_record' = <<>>
    <3>1. ~(col_idx >= Len(Attributes))
      BY ONLY <1>1, <2>1, <2>2
    <3>. QED
      BY ONLY <2>2, <2>6, <3>1, OnField DEF OnField, records
  <2>11. CASE InHeader
    <3>1. full_table' = full_table /\ n = 0 /\ RowsDone' = 0
      BY <2>7, <2>11 DEF OnField, records
    <3>2. full_table' = [l \in 1 .. 0 |-> RowOf(more[l + s])]
      BY <2>6, <3>1
    <3>. QED
      BY <2>5, <2>10, <3>1, <3>2 DEF FieldsConvertible
  <2>12. CASE ~InHeader
    <3>1. n = row_idx - s /\ RowsDone' = n + 1
      BY <2>7, <2>12
    <3>2. ~(col_idx >= Len(Attributes))
      BY <1>1, <2>1, <2>2
    <3>3. full_table' = Append(full_table, NewRecord) /\ Convertible(Attributes[col_idx + 1], current_field)
      BY ONLY <2>1, <2>2, <2>12, <3>2, OnField, <1>1 DEF OnField, ParseError, Fitting
    <3>. DEFINE v(a) == Converted(Attributes[a], Fields(line)[a])
    <3>4. NewRecord = Append([a \in 1 .. col_idx |-> v(a)], v(col_idx + 1))
      BY <1>1, <2>6, <2>12 DEF NewRecord
    <3>5. RowOf(line) = [a \in 1 .. col_idx + 1 |-> v(a)]
      BY <2>1, <2>2 DEF RowOf
    <3>6. Append([a \in 1 .. col_idx |-> v(a)], v(col_idx + 1)) = [a \in 1 .. col_idx + 1 |-> v(a)]
      <4>. DEFINE k == col_idx
                  p == [a \in 1 .. k |-> v(a)]
                  q == [a \in 1 .. k + 1 |-> v(a)]
      <4>. HIDE DEF v
      <4>1. k \in Nat
        BY <1>1
      <4>. HIDE DEF k
      <4>2. Len(p) = k /\ DOMAIN p = 1 .. k
        BY ONLY <4>1
      <4>3. Append(p, v(k + 1)) = [a \in 1 .. Len(p) + 1 |-> IF a \in 1 .. Len(p) THEN p[a] ELSE v(k + 1)]
        BY ONLY <4>1, <4>2
      <4>. DEFINE u == v(k + 1)
      <4>. HIDE DEF u
      <4>4. ASSUME NEW a \in 1 .. k + 1 PROVE (IF a \in 1 .. k THEN p[a] ELSE u) = v(a)
        <5>1. CASE a = k + 1
          BY ONLY <4>1, <5>1 DEF u
        <5>2. CASE a # k + 1
          BY ONLY <4>1, <4>4, <5>2
        <5>. QED
          BY ONLY <5>1, <5>2
      <4>5. Append(p, u) = [a \in 1 .. k + 1 |-> IF a \in 1 .. k THEN p[a] ELSE u]
        BY ONLY <4>2, <4>3 DEF u
      <4>. QED
        BY ONLY <4>4, <4>5 DEF k, u
    <3>7. NewRecord = RowOf(line)
      BY ONLY <3>4, <3>5, <3>6
    <3>8. FieldsConvertible(line, Len(Attributes))
      BY <1>1, <2>2, <2>6, <2>12, <3>3 DEF FieldsConvertible
    <3>9. more[n + 1 + s] = line
      <4>1. n + 1 + s = Len(done) + 1
        BY ONLY <1>1, <2>5, <3>1
      <4>. QED
        BY ONLY <1>2, <4>1
    <3>. DEFINE w(l) == RowOf(more[l + s])
    <3>10. full_table' = Append([l \in 1 .. n |-> w(l)], w(n + 1))
      <4>1. [l \in 1 .. n |-> RowOf(done[l + s])] = [l \in 1 .. n |-> w(l)]
        BY <2>9
      <4>. QED
        BY <2>6, <3>3, <3>7, <3>9, <4>1
    <3>11. Append([l \in 1 .. n |-> w(l)], w(n + 1)) = [l \in 1 .. n + 1 |-> w(l)]
      <4>. HIDE DEF w
      <4>. QED
        BY <2>7
    <3>12. \A l \in 1 .. n + 1 : FieldsConvertible(more[l + s], Len(Attributes))
      <4>. TAKE l \in 1 .. n + 1
      <4>1. CASE l = n + 1
        BY ONLY <3>8, <3>9, <4>1
      <4>2. CASE l # n + 1
        <5>1. l \in 1 .. n
          BY <2>7, <4>2
        <5>. QED
          BY ONLY <2>6, <2>9, <5>1
      <4>. QED
        BY ONLY <4>1, <4>2
    <3>13. /\ last_record' = [a \in 1 .. 0 |-> Converted(Attributes[a], Fields(<<>>)[a])]
           /\ FieldsConvertible(<<>>, 0)
      BY <2>10 DEF FieldsConvertible
    <3>. QED
      BY ONLY <2>5, <3>1, <3>10, <3>11, <3>12, <3>13, col_idx' = 0
  <2>. QED
    BY ONLY <2>11, <2>12
<1>. QED
  BY ONLY <1>4, <1>5 DEF more

-----------------------------------------------------------------------------
(* The file's lines, by what is known of its tokens.                       *)

\* The last piece is a line if it is the only one or not empty.
NewestEnds(pieces, lines) ==
  \/ Len(lines) = Len(pieces) /\ (Len(pieces) > 1 => pieces[Len(pieces)] # <<>>)
  \/ Len(lines) = Len(pieces) - 1 /\ Len(pieces) > 1 /\ pieces[Len(pieces)] = <<>>

LEMMA LinesOfTokens ==
  ASSUME NEW text, Tokens(text) \in Seq(AnyToken)
  PROVE  /\ Lines(text) \in Seq(Seq(AnyToken)) /\ Len(Lines(text)) \in Nat \ {0}
         /\ \A l \in 1 .. Len(Lines(text)) : Lines(text)[l] = Pieces(Tokens(text), RecordSep, {})[l]
         /\ NewestEnds(Pieces(Tokens(text), RecordSep, {}), Lines(text))
<1>. DEFINE p == Pieces(Tokens(text), RecordSep, {})
<1>1. p \in Seq(Seq(AnyToken)) /\ Len(p) \in Nat \ {0}
  BY PiecesTyped DEF NonEmptyPieces
<1>2. Lines(text) = IF Len(p) > 1 /\ p[Len(p)] = <<>> THEN SubSeq(p, 1, Len(p) - 1) ELSE p
  BY DEF Lines
<1>. HIDE DEF p
<1>3. CASE Len(p) > 1 /\ p[Len(p)] = <<>>
  <2>1. Lines(text) = SubSeq(p, 1, Len(p) - 1)
    BY <1>2, <1>3
  <2>2. /\ SubSeq(p, 1, Len(p) - 1) \in Seq(Seq(AnyToken))
        /\ Len(SubSeq(p, 1, Len(p) - 1)) = Len(p) - 1
        /\ \A l \in 1 .. Len(p) - 1 : SubSeq(p, 1, Len(p) - 1)[l] = p[l]
    BY ONLY <1>1, <1>3
  <2>3. Len(p) - 1 \in Nat \ {0}
    BY ONLY <1>1, <1>3
  <2>. QED
    BY ONLY <1>3, <2>1, <2>2, <2>3 DEF p, NewestEnds
<1>4. CASE ~(Len(p) > 1 /\ p[Len(p)] = <<>>)
  <2>1. Lines(text) = p
    BY <1>2, <1>4
  <2>. QED
    BY ONLY <1>1, <1>4, <2>1 DEF p, NewestEnds
<1>. QED
  BY ONLY <1>3, <1>4

\* What one more token makes of the lines.
LEMMA LinesNext ==
  ASSUME NEW seen \in Seq(Token), NEW t \in Token, NEW done \in Seq(Seq(Token)), NEW line \in Seq(Token),
         Pieces(seen, RecordSep, {}) = Append(done, line)
  PROVE  Pieces(Append(seen, t), RecordSep, {}) =
           IF t = RecordSep THEN Append(Append(done, line), <<>>) ELSE Append(done, Append(line, t))
<1>. DEFINE m == Append(done, line)
            longer == Append(line, t)
<1>1. Pieces(Append(seen, t), RecordSep, {}) = AddToken(m, t, RecordSep, {})
  <2>1. Pieces(Append(seen, t), RecordSep, {}) = AddToken(Pieces(seen, RecordSep, {}), t, RecordSep, {})
    BY ONLY PiecesNext, seen \in Seq(Token), t \in Token
  <2>. QED
    BY <2>1
<1>2. CASE t = RecordSep
  <2>1. AddToken(m, t, RecordSep, {}) = Append(m, <<>>)
    BY ONLY <1>2 DEF AddToken
  <2>. QED
    BY ONLY <1>1, <1>2, <2>1
<1>3. CASE t # RecordSep
  <2>1. /\ m \in Seq(Seq(Token)) /\ Len(m) = Len(done) + 1 /\ m[Len(done) + 1] = line
        /\ \A l \in 1 .. Len(done) : m[l] = done[l]
        /\ Len(done) \in Nat /\ longer \in Seq(Token)
    BY AppendProperties
  <2>2. AddToken(m, t, RecordSep, {}) = [m EXCEPT ![Len(m)] = Append(m[Len(m)], t)]
    BY ONLY <1>3 DEF AddToken
  <2>. HIDE DEF m
  <2>3. AddToken(m, t, RecordSep, {}) = [m EXCEPT ![Len(done) + 1] = longer]
    BY ONLY <2>1, <2>2
  <2>. HIDE DEF longer
  <2>4. Len(done) + 1 \in 1 .. Len(m)
    BY ONLY <2>1
  <2>5. /\ [m EXCEPT ![Len(done) + 1] = longer] \in Seq(Seq(Token))
        /\ Len([m EXCEPT ![Len(done) + 1] = longer]) = Len(m)
        /\ \A l \in 1 .. Len(m) : [m EXCEPT ![Len(done) + 1] = longer][l]
                                    = IF l = Len(done) + 1 THEN longer ELSE m[l]
    BY ONLY <2>1, <2>4, ExceptSeq
  <2>6. /\ Append(done, longer) \in Seq(Seq(Token)) /\ Len(Append(done, longer)) = Len(done) + 1
        /\ \A l \in 1 .. Len(done) : Append(done, longer)[l] = done[l]
        /\ Append(done, longer)[Len(done) + 1] = longer
    BY ONLY <2>1, AppendProperties, done \in Seq(Seq(Token))
  <2>. DEFINE e == [m EXCEPT ![Len(done) + 1] = longer]
              a == Append(done, longer)
  <2>. HIDE DEF e, a
  <2>7. \A l \in 1 .. Len(done) + 1 : e[l] = a[l]
    BY ONLY <2>1, <2>5, <2>6 DEF e, a
  <2>8. e \in Seq(Seq(Token)) /\ a \in Seq(Seq(Token)) /\ Len(e) = Len(a) /\ Len(a) = Len(done) + 1
    BY ONLY <2>1, <2>5, <2>6 DEF e, a
  <2>9. e = a
    BY ONLY <2>7, <2>8, SeqEqual
  <2>. QED
    BY ONLY <1>1, <1>3, <2>3, <2>9 DEF e, a, longer
<1>. QED
  BY ONLY <1>2, <1>3

\* A line that has ended.
LEMMA EndedLines ==
  ASSUME NEW text, NEW seen \in Seq(Token), NEW rest \in Seq(AnyToken),
         Tokens(text) = Append(seen, RecordSep) \o rest,
         NEW done \in Seq(Seq(Token)), NEW line \in Seq(Token),
         Pieces(seen, RecordSep, {}) = Append(done, line)
  PROVE  /\ Tokens(text) \in Seq(AnyToken)
         /\ Len(Lines(text)) >= Len(done) + 1
         /\ \A l \in 1 .. Len(done) : Lines(text)[l] = done[l]
         /\ Lines(text)[Len(done) + 1] = line
<1>. DEFINE more == Append(seen, RecordSep)
            p == Append(Append(done, line), <<>>)
            q == Pieces(Tokens(text), RecordSep, {})
<1>1. more \in Seq(AnyToken) /\ RecordSep \in Token
  BY MarksAreNoCharacters, TokensAreAny DEF AnyToken
<1>2. Tokens(text) \in Seq(AnyToken)
  BY ONLY <1>1, rest \in Seq(AnyToken), Tokens(text) = more \o rest, ConcatProperties
<1>3. Pieces(more, RecordSep, {}) = p
  BY <1>1, LinesNext
<1>4. /\ Len(p) = Len(done) + 2 /\ Len(done) \in Nat /\ p[Len(done) + 1] = line
      /\ \A l \in 1 .. Len(done) : p[l] = done[l]
  <2>1. /\ Append(done, line) \in Seq(Seq(Token)) /\ <<>> \in Seq(Token) /\ Len(done) \in Nat
        /\ Len(Append(done, line)) = Len(done) + 1 /\ Append(done, line)[Len(done) + 1] = line
        /\ \A l \in 1 .. Len(done) : Append(done, line)[l] = done[l]
    BY AppendProperties
  <2>. DEFINE m == Append(done, line)
  <2>. HIDE DEF m
  <2>2. Len(Append(m, <<>>)) = Len(m) + 1 /\ \A l \in 1 .. Len(m) : Append(m, <<>>)[l] = m[l]
    BY ONLY <2>1, AppendProperties DEF m
  <2>3. Append(m, <<>>) = p
    BY DEF m
  <2>. QED
    BY ONLY <2>1, <2>2, <2>3 DEF m
<1>5. Grown(AnyToken, p, q)
  BY ONLY <1>1, <1>3, PiecesGrow, rest \in Seq(AnyToken), Tokens(text) = more \o rest
<1>6. /\ Lines(text) \in Seq(Seq(AnyToken))
      /\ \A l \in 1 .. Len(Lines(text)) : Lines(text)[l] = q[l]
      /\ Len(Lines(text)) = Len(q) \/ Len(Lines(text)) = Len(q) - 1
      /\ Len(q) \in Nat
  <2>1. Len(q) \in Nat
    BY <1>2, PiecesTyped DEF NonEmptyPieces
  <2>2. NewestEnds(q, Lines(text))
    BY ONLY <1>2, LinesOfTokens
  <2>3. Lines(text) \in Seq(Seq(AnyToken)) /\ \A l \in 1 .. Len(Lines(text)) : Lines(text)[l] = q[l]
    BY ONLY <1>2, LinesOfTokens
  <2>. HIDE DEF q
  <2>. QED
    BY ONLY <2>1, <2>2, <2>3 DEF NewestEnds
<1>. HIDE DEF p, q, more
<1>7. Len(q) >= Len(done) + 2 /\ \A l \in 1 .. Len(done) + 1 : q[l] = p[l]
  BY ONLY <1>4, <1>5, <1>6 DEF Grown
<1>8. Len(Lines(text)) >= Len(done) + 1
  BY ONLY <1>4, <1>6, <1>7
<1>9. \A l \in 1 .. Len(done) + 1 : Lines(text)[l] = p[l]
  <2>. TAKE l \in 1 .. Len(done) + 1
  <2>1. l \in 1 .. Len(Lines(text))
    BY ONLY <1>4, <1>6, <1>8
  <2>. QED
    BY ONLY <1>6, <1>7, <2>1
<1>. QED
  BY ONLY <1>2, <1>4, <1>8, <1>9

\* A line of which a field has ended.
LEMMA BegunLine ==
  ASSUME NEW text, NEW seen \in Seq(Token), NEW rest \in Seq(AnyToken),
         Tokens(text) = Append(seen, FieldSep) \o rest,
         NEW done \in Seq(Seq(Token)), NEW line \in Seq(Token),
         Pieces(seen, RecordSep, {}) = Append(done, line)
  PROVE  /\ Tokens(text) \in Seq(AnyToken)
         /\ Len(Lines(text)) >= Len(done) + 1
         /\ \A l \in 1 .. Len(done) : Lines(text)[l] = done[l]
         /\ \E r \in Seq(AnyToken) : Lines(text)[Len(done) + 1] = Append(line, FieldSep) \o r
<1>. DEFINE more == Append(seen, FieldSep)
            p == Append(done, Append(line, FieldSep))
            q == Pieces(Tokens(text), RecordSep, {})
<1>1. more \in Seq(AnyToken) /\ FieldSep \in Token /\ FieldSep # RecordSep
  BY MarksAreNoCharacters, TokensAreAny DEF AnyToken
<1>2. Tokens(text) \in Seq(AnyToken)
  BY ONLY <1>1, rest \in Seq(AnyToken), Tokens(text) = more \o rest, ConcatProperties
<1>3. Pieces(more, RecordSep, {}) = p
  BY <1>1, LinesNext
<1>4. /\ Len(p) = Len(done) + 1 /\ Len(done) \in Nat /\ p[Len(done) + 1] = Append(line, FieldSep)
      /\ \A l \in 1 .. Len(done) : p[l] = done[l]
  BY <1>1, AppendProperties
<1>5. Grown(AnyToken, p, q)
  BY ONLY <1>1, <1>3, PiecesGrow, rest \in Seq(AnyToken), Tokens(text) = more \o rest
<1>6. /\ Lines(text) \in Seq(Seq(AnyToken))
      /\ \A l \in 1 .. Len(Lines(text)) : Lines(text)[l] = q[l]
      /\ \/ Len(Lines(text)) = Len(q)
         \/ Len(Lines(text)) = Len(q) - 1 /\ q[Len(q)] = <<>>
      /\ Len(q) \in Nat
  <2>1. Len(q) \in Nat
    BY <1>2, PiecesTyped DEF NonEmptyPieces
  <2>2. NewestEnds(q, Lines(text))
    BY ONLY <1>2, LinesOfTokens
  <2>3. Lines(text) \in Seq(Seq(AnyToken)) /\ \A l \in 1 .. Len(Lines(text)) : Lines(text)[l] = q[l]
    BY ONLY <1>2, LinesOfTokens
  <2>. HIDE DEF q
  <2>. QED
    BY ONLY <2>1, <2>2, <2>3 DEF NewestEnds
<1>. HIDE DEF p, q, more
<1>7. /\ Len(q) >= Len(done) + 1 /\ \A l \in 1 .. Len(done) : q[l] = p[l]
      /\ \E r \in Seq(AnyToken) : q[Len(done) + 1] = Append(line, FieldSep) \o r
  <2>1. Len(p) - 1 = Len(done) /\ Len(p) \in Nat
    BY ONLY <1>4
  <2>2. /\ Len(p) <= Len(q) /\ \A n \in 1 .. Len(done) : q[n] = p[n]
        /\ \E r \in Seq(AnyToken) : q[Len(p)] = p[Len(p)] \o r
    BY ONLY <1>5, <2>1 DEF Grown
  <2>. QED
    BY ONLY <1>4, <1>6, <2>2
<1>8. PICK r \in Seq(AnyToken) : q[Len(done) + 1] = Append(line, FieldSep) \o r
  BY <1>7
<1>9. q[Len(done) + 1] # <<>>
  <2>1. Append(line, FieldSep) \in Seq(AnyToken) /\ Len(Append(line, FieldSep)) = Len(line) + 1 /\ Len(line) \in Nat
    <3>1. /\ Append(line, FieldSep) \in Seq(Token)
          /\ Len(Append(line, FieldSep)) = Len(line) + 1 /\ Len(line) \in Nat
      BY <1>1
    <3>. QED
      BY ONLY <3>1, TokensAreAny
  <2>. DEFINE longer == Append(line, FieldSep)
  <2>. HIDE DEF longer
  <2>2. Len(longer \o r) = Len(longer) + Len(r) /\ Len(r) \in Nat
    BY ONLY <2>1, r \in Seq(AnyToken), ConcatProperties DEF longer
  <2>3. Len(longer) >= 1 /\ Len(longer) \in Nat
    BY ONLY <2>1 DEF longer
  <2>4. Len(longer \o r) # 0
    BY ONLY <2>2, <2>3
  <2>5. Len(<<>>) = 0
    OBVIOUS
  <2>6. longer \o r # <<>>
    BY ONLY <2>4, <2>5
  <2>. QED
    BY ONLY <1>8, <2>6 DEF longer
<1>10. Len(Lines(text)) >= Len(done) + 1
  BY ONLY <1>4, <1>6, <1>7, <1>9
<1>11. \A l \in 1 .. Len(done) + 1 : Lines(text)[l] = q[l]
  <2>. TAKE l \in 1 .. Len(done) + 1
  <2>1. l \in 1 .. Len(Lines(text))
    BY ONLY <1>4, <1>6, <1>10
  <2>. QED
    BY ONLY <1>6, <2>1
<1>12. /\ Lines(text)[Len(done) + 1] = Append(line, FieldSep) \o r
       /\ \A l \in 1 .. Len(done) : Lines(text)[l] = done[l]
  <2>1. Len(done) + 1 \in 1 .. Len(done) + 1 /\ \A l \in 1 .. Len(done) : l \in 1 .. Len(done) + 1
    BY ONLY <1>4
  <2>2. Lines(text)[Len(done) + 1] = Append(line, FieldSep) \o r
    BY ONLY <1>8, <1>11, <2>1
  <2>3. \A l \in 1 .. Len(done) : Lines(text)[l] = done[l]
    BY ONLY <1>4, <1>7, <1>11, <2>1
  <2>. QED
    BY ONLY <2>2, <2>3
<1>. QED
  BY ONLY <1>2, <1>10, <1>12

LEMMA FieldsGrow ==
  ASSUME NEW line \in Seq(Token), NEW r \in Seq(AnyToken)
  PROVE  /\ Len(Fields(Append(line, FieldSep) \o r)) >= Len(Fields(line)) + 1
         /\ \A a \in 1 .. Len(Fields(line)) : Fields(Append(line, FieldSep) \o r)[a] = Fields(line)[a]
<1>. DEFINE more == Append(line, FieldSep)
<1>1. more \in Seq(AnyToken)
  <2>1. more \in Seq(Token)
    BY MarksAreNoCharacters, AppendedIsNotEmpty
  <2>. QED
    BY ONLY <2>1, TokensAreAny
<1>2. /\ Len(Fields(more)) = Len(Fields(line)) + 1
      /\ \A a \in 1 .. Len(Fields(line)) : Fields(more)[a] = Fields(line)[a]
  BY FieldsWithSeparator
<1>. HIDE DEF more
<1>3. Grown(AnyToken, Fields(more), Fields(more \o r))
  BY ONLY <1>1, PiecesGrow, r \in Seq(AnyToken) DEF Fields
<1>4. Len(Fields(line)) \in Nat
  BY FieldsTyped, TokensAreAny
<1>5. Len(Fields(more)) - 1 = Len(Fields(line))
  BY ONLY <1>2, <1>4
<1>6. /\ Len(Fields(more)) <= Len(Fields(more \o r))
      /\ \A a \in 1 .. Len(Fields(line)) : Fields(more \o r)[a] = Fields(more)[a]
  BY ONLY <1>3, <1>5 DEF Grown
<1>7. Len(Fields(more \o r)) >= Len(Fields(line)) + 1
  BY ONLY <1>2, <1>6, <1>4
<1>8. \A a \in 1 .. Len(Fields(line)) : Fields(more \o r)[a] = Fields(line)[a]
  BY ONLY <1>2, <1>6
<1>. QED
  BY ONLY <1>7, <1>8 DEF more

\* What is known of the file's lines when a field has ended.
KnownLines(done) ==
  LET lines == Lines(file)
      current == Fields(lines[Len(done) + 1])
  IN  /\ lines \in Seq(Seq(AnyToken))
      /\ Len(lines) >= Len(done) + 1
      /\ \A l \in 1 .. Len(done) : lines[l] = done[l]
      /\ Len(current) \in Nat /\ Len(current) >= col_idx + 1
      /\ current[col_idx + 1] = current_field

\* The field is one of a row that the table cannot have.
LEMMA NoSuchTable ==
  ASSUME ParserTypeOK, header \in BOOLEAN, Attributes \in Seq({"INT32", "VARCHAR"}),
         NEW done \in Seq(Seq(Token)), NEW line,
         Reading(done, line), Loaded(done, line), KnownLines(done),
         OutOfBounds \/ ParseError, NumColumns(file) = Len(Attributes)
  PROVE  ~WellFormed(file, header)
<1>. SUFFICES ASSUME WellFormed(file, header) PROVE FALSE
  OBVIOUS
<1>. DEFINE lines == Lines(file)
            here == Len(done) + 1
            current == Fields(lines[here])
<1>1. /\ col_idx \in Nat /\ row_idx = Len(done) /\ Len(done) \in Nat /\ Len(Attributes) \in Nat
      /\ \A l \in 1 .. Len(done) : Len(Fields(done[l])) = num_cols
  BY DEF ParserTypeOK, Reading
<1>2. /\ lines \in Seq(Seq(AnyToken)) /\ Len(lines) >= here
      /\ \A l \in 1 .. Len(done) : lines[l] = done[l]
      /\ Len(current) \in Nat /\ Len(current) >= col_idx + 1
      /\ current[col_idx + 1] = current_field
  BY DEF KnownLines
<1>3. /\ \A l \in DOMAIN lines : Len(Fields(lines[l])) = Len(Fields(lines[1]))
      /\ Len(Fields(lines[1])) = Len(Attributes)
  BY DEF WellFormed, Consistent, NumColumns
<1>4. DOMAIN lines = 1 .. Len(lines) /\ Len(lines) \in Nat
  BY <1>2
<1>5. DOMAIN Attributes = 1 .. Len(Attributes)
  OBVIOUS
<1>6. \A l \in DOMAIN DataLines(file, header) : \A a \in DOMAIN Attributes :
        Convertible(Attributes[a], Fields(DataLines(file, header)[l])[a])
  BY DEF WellFormed
<1>. HIDE DEF lines, here
<1>7. here \in 1 .. Len(lines) /\ Len(current) = Len(Attributes)
  BY ONLY <1>1, <1>2, <1>3, <1>4 DEF here
<1>. HIDE DEF current
<1>8. col_idx + 1 \in 1 .. Len(Attributes) /\ col_idx < Len(Attributes) /\ ~(col_idx >= Len(Attributes))
  BY ONLY <1>1, <1>2, <1>7
<1>9. Len(done) > 0 => num_cols = Len(Attributes)
  <2>. SUFFICES ASSUME Len(done) > 0 PROVE num_cols = Len(Attributes)
    OBVIOUS
  <2>1. 1 \in 1 .. Len(done)
    BY <1>1
  <2>. QED
    BY ONLY <1>1, <1>2, <1>3, <2>1
<1>10. ~InHeader => Len(last_record) = col_idx
  <2>. SUFFICES ASSUME ~InHeader PROVE Len(last_record) = col_idx
    OBVIOUS
  <2>1. last_record = [a \in 1 .. col_idx |-> Converted(Attributes[a], Fields(line)[a])]
    BY <1>8, <1>9 DEF Loaded, Fitting
  <2>. QED
    BY <1>1, <2>1
<1>11. ~OutOfBounds
  <2>1. ~InHeader => ~(Len(last_record) >= Len(Attributes))
    BY ONLY <1>1, <1>8, <1>10
  <2>. QED
    BY ONLY <1>8, <2>1 DEF OutOfBounds
<1>12. ~InHeader /\ ~Convertible(Attributes[col_idx + 1], current_field)
  BY <1>11 DEF ParseError
<1>13. Convertible(Attributes[col_idx + 1], current[col_idx + 1])
  <2>1. CASE header
    <3>1. DataLines(file, header) = Tail(lines) /\ Len(done) > 0
      BY <1>1, <1>12, <2>1 DEF DataLines, InHeader, lines
    <3>2. Len(lines) > 1 /\ lines # <<>>
      BY ONLY <1>1, <1>4, <1>7, <3>1 DEF here
    <3>3. /\ Tail(lines) \in Seq(Seq(AnyToken)) /\ Len(Tail(lines)) = Len(lines) - 1
          /\ \A l \in 1 .. Len(Tail(lines)) : Tail(lines)[l] = lines[l + 1]
      BY ONLY <1>2, <3>2, NonEmpty
    <3>4. Len(done) \in 1 .. Len(Tail(lines)) /\ Len(done) + 1 = here
      BY ONLY <1>1, <1>4, <1>7, <3>1, <3>3 DEF here
    <3>5. Tail(lines)[Len(done)] = lines[here] /\ DOMAIN Tail(lines) = 1 .. Len(Tail(lines))
      BY ONLY <3>3, <3>4
    <3>. QED
      BY ONLY <1>5, <1>6, <1>8, <3>1, <3>4, <3>5 DEF current
  <2>2. CASE ~header
    <3>1. DataLines(file, header) = lines
      BY <2>2 DEF DataLines, lines
    <3>. QED
      BY ONLY <1>4, <1>5, <1>6, <1>7, <1>8, <3>1 DEF current
  <2>. QED
    BY ONLY <2>1, <2>2
<1>. QED
  BY ONLY <1>2, <1>12, <1>13

\* The line is not as long as the first.
LEMMA UnevenLines ==
  ASSUME ParserTypeOK, NEW done \in Seq(Seq(Token)), NEW line, Reading(done, line), Inconsistent,
         Lines(file) \in Seq(Seq(AnyToken)), Len(Lines(file)) >= Len(done) + 1,
         \A l \in 1 .. Len(done) : Lines(file)[l] = done[l], Lines(file)[Len(done) + 1] = line
  PROVE  ~WellFormed(file, header)
<1>. SUFFICES ASSUME Consistent(file) PROVE FALSE
  BY DEF WellFormed
<1>1. /\ Len(done) > 0 /\ Len(done) \in Nat /\ col_idx + 1 # num_cols /\ Len(Fields(line)) = col_idx + 1
      /\ \A l \in 1 .. Len(done) : Len(Fields(done[l])) = num_cols
  BY DEF ParserTypeOK, Reading, Inconsistent
<1>2. 1 \in 1 .. Len(done) /\ Len(done) + 1 \in DOMAIN Lines(file)
  BY <1>1
<1>3. Len(Fields(Lines(file)[1])) = num_cols
  BY <1>1, <1>2
<1>4. Len(Fields(Lines(file)[Len(done) + 1])) = Len(Fields(Lines(file)[1]))
  BY <1>2 DEF Consistent
<1>. QED
  BY ONLY <1>1, <1>3, <1>4, Lines(file)[Len(done) + 1] = line

\* All lines have been read.
LEMMA AllLoaded ==
  ASSUME ParserTypeOK, header \in BOOLEAN, Attributes \in Seq({"INT32", "VARCHAR"}),
         Tokens(file) \in Seq(Token), Lines(file) \in Seq(Seq(Token)), Len(Lines(file)) > 0,
         Reading(Lines(file), <<>>), Loaded(Lines(file), <<>>)
  PROVE  /\ num_cols = NumColumns(file)
         /\ num_cols = Len(Attributes) =>
              WellFormed(file, header) /\ full_table = RowsOfFile(file, header)
<1>. DEFINE lines == Lines(file)
            n == RowsDone
            s == Skipped
            rows == DataLines(file, header)
<1>1. /\ row_idx = Len(lines) /\ Len(lines) \in Nat \ {0} /\ col_idx \in Nat /\ num_cols \in Nat
      /\ DOMAIN lines = 1 .. Len(lines) /\ 1 \in 1 .. Len(lines)
      /\ \A l \in 1 .. Len(lines) : Len(Fields(lines[l])) = num_cols
  BY DEF ParserTypeOK, Reading
<1>2. num_cols = NumColumns(file)
  BY <1>1 DEF NumColumns
<1>3. col_idx = 0
  <2>1. Len(Fields(<<>>)) = col_idx + 1
    BY DEF Reading
  <2>2. col_idx + 1 = 1 /\ col_idx \in Nat
    BY ONLY <1>1, <2>1, FieldsOfNothing
  <2>. QED
    BY ONLY <2>2
<1>4. num_cols > 0
  <2>1. lines[1] \in Seq(AnyToken)
    BY <1>1, TokensAreAny
  <2>2. Len(Fields(lines[1])) \in Nat \ {0}
    BY ONLY <2>1, FieldsTyped
  <2>. QED
    BY ONLY <1>1, <2>2
<1>. SUFFICES ASSUME num_cols = Len(Attributes)
              PROVE  WellFormed(file, header) /\ full_table = RowsOfFile(file, header)
  BY <1>2
<1>5. Fitting(lines)
  BY <1>3, <1>4 DEF Fitting
<1>6. /\ full_table = [l \in 1 .. n |-> RowOf(lines[l + s])]
      /\ \A l \in 1 .. n : FieldsConvertible(lines[l + s], Len(Attributes))
  BY <1>5 DEF Loaded
<1>7. DOMAIN rows = 1 .. n /\ \A l \in 1 .. n : rows[l] = lines[l + s]
  <2>1. ~InHeader
    BY <1>1 DEF InHeader
  <2>2. CASE header
    <3>1. rows = Tail(lines) /\ s = 1 /\ n = Len(lines) - 1
      BY <1>1, <2>1, <2>2 DEF DataLines, Skipped, RowsDone
    <3>. HIDE DEF lines, rows, n, s
    <3>2. lines \in Seq(Seq(Token)) /\ lines # <<>>
      BY <1>1 DEF lines
    <3>3. /\ Tail(lines) \in Seq(Seq(Token)) /\ Len(Tail(lines)) = Len(lines) - 1
          /\ \A l \in 1 .. Len(Tail(lines)) : Tail(lines)[l] = lines[l + 1]
      BY ONLY <3>2, NonEmpty
    <3>. QED
      BY ONLY <3>1, <3>3
  <2>3. CASE ~header
    <3>1. rows = lines /\ s = 0 /\ n = Len(lines)
      BY <1>1, <2>1, <2>3 DEF DataLines, Skipped, RowsDone
    <3>. HIDE DEF lines, rows, n, s
    <3>. QED
      BY <1>1, <3>1
  <2>. QED
    BY ONLY <2>2, <2>3
<1>8. DOMAIN Attributes = 1 .. Len(Attributes)
  OBVIOUS
<1>. HIDE DEF n, s
<1>9. WellFormed(file, header)
  <2>1. \A p \in DOMAIN Tokens(file) : Tokens(file)[p] # Unclosed
    BY MarksAreNoCharacters
  <2>2. Consistent(file)
    BY <1>1 DEF Consistent
  <2>3. \A l \in DOMAIN rows : \A a \in DOMAIN Attributes : Convertible(Attributes[a], Fields(rows[l])[a])
    BY ONLY <1>6, <1>7, <1>8 DEF FieldsConvertible
  <2>. QED
    BY <2>1, <2>2, <2>3 DEF WellFormed
<1>10. full_table = RowsOfFile(file, header)
  <2>1. RowsOfFile(file, header) = [l \in DOMAIN rows |-> RowOf(rows[l])]
    BY DEF RowsOfFile, RowOf
  <2>. HIDE DEF rows, lines
  <2>. QED
    BY ONLY <1>6, <1>7, <2>1
<1>. QED
  BY ONLY <1>9, <1>10

-----------------------------------------------------------------------------
(* Where the parser is in the file.                                        *)

\* The next character.
Following(more) == IF more = <<>> THEN "end of file" ELSE Head(more)

\* The tokens of the rest of a file, by its first character.
LEMMA NextToken ==
  ASSUME NEW text \in Seq(Char), NEW c \in Char, NEW more \in Seq(Char),
         IsSuffix(text, <<c>> \o more), NEW inside \in BOOLEAN
  PROVE  /\ IsSuffix(text, more)
         /\ more # <<>> => Tail(more) \in Seq(Char) /\ IsSuffix(text, Tail(more))
         /\ Ahead(text, <<c>> \o more, inside) =
              IF c = Quote THEN <<QuoteMark>> \o Ahead(text, more, ~inside)
              ELSE IF inside /\ c = Escape /\ Following(more) \in {Quote, Escape}
                THEN <<Following(more)>> \o Ahead(text, Tail(more), inside)
              ELSE IF ~inside /\ c = Comma THEN <<FieldSep>> \o Ahead(text, more, inside)
              ELSE IF ~inside /\ c = CR /\ Following(more) = LF
                THEN <<RecordSep>> \o Ahead(text, Tail(more), inside)
              ELSE IF ~inside /\ c \in {CR, LF} THEN <<RecordSep>> \o Ahead(text, more, inside)
              ELSE <<c>> \o Ahead(text, more, inside)
<1>. DEFINE rest == <<c>> \o more
<1>1. rest \in Seq(Char) /\ rest # <<>> /\ Head(rest) = c /\ Tail(rest) = more
  OBVIOUS
<1>2. IsSuffix(text, rest)
  OBVIOUS
<1>. HIDE DEF rest
<1>3. IsSuffix(text, more)
  BY <1>1, <1>2, SuffixOfSuffix
<1>4. more # <<>> => Tail(more) \in Seq(Char) /\ IsSuffix(text, Tail(more))
  BY <1>3, SuffixOfSuffix, NonEmpty
<1>5. Behind(rest) = Following(more)
  BY ONLY <1>1 DEF Behind, Following
<1>6. Ahead(text, rest, inside) =
        IF Head(rest) = Quote THEN <<QuoteMark>> \o Ahead(text, Tail(rest), ~inside)
        ELSE IF inside /\ Head(rest) = Escape /\ Behind(rest) \in {Quote, Escape}
          THEN <<Behind(rest)>> \o Ahead(text, Tail(Tail(rest)), inside)
        ELSE IF ~inside /\ Head(rest) = Comma THEN <<FieldSep>> \o Ahead(text, Tail(rest), inside)
        ELSE IF ~inside /\ Head(rest) = CR /\ Behind(rest) = LF
          THEN <<RecordSep>> \o Ahead(text, Tail(Tail(rest)), inside)
        ELSE IF ~inside /\ Head(rest) \in {CR, LF}
          THEN <<RecordSep>> \o Ahead(text, Tail(rest), inside)
        ELSE <<Head(rest)>> \o Ahead(text, Tail(rest), inside)
  BY ONLY <1>1, <1>2, OneAhead, text \in Seq(Char), inside \in BOOLEAN
<1>7. Ahead(text, rest, inside) =
        IF c = Quote THEN <<QuoteMark>> \o Ahead(text, more, ~inside)
        ELSE IF inside /\ c = Escape /\ Following(more) \in {Quote, Escape}
          THEN <<Following(more)>> \o Ahead(text, Tail(more), inside)
        ELSE IF ~inside /\ c = Comma THEN <<FieldSep>> \o Ahead(text, more, inside)
        ELSE IF ~inside /\ c = CR /\ Following(more) = LF
          THEN <<RecordSep>> \o Ahead(text, Tail(more), inside)
        ELSE IF ~inside /\ c \in {CR, LF} THEN <<RecordSep>> \o Ahead(text, more, inside)
        ELSE <<c>> \o Ahead(text, more, inside)
  BY ONLY <1>1, <1>5, <1>6
<1>. QED
  BY ONLY <1>3, <1>4, <1>7 DEF rest

\* One case each.
LEMMA CharacterAhead ==
  ASSUME NEW text \in Seq(Char), NEW c \in Char, NEW more \in Seq(Char),
         IsSuffix(text, <<c>> \o more), NEW inside \in BOOLEAN, c # Quote,
         ~(inside /\ c = Escape /\ Following(more) \in {Quote, Escape}),
         ~(~inside /\ c \in {Comma, CR, LF})
  PROVE  IsSuffix(text, more) /\ Ahead(text, <<c>> \o more, inside) = <<c>> \o Ahead(text, more, inside)
<1>1. IsSuffix(text, more)
  BY NextToken
<1>2. Ahead(text, <<c>> \o more, inside) = <<c>> \o Ahead(text, more, inside)
  <2>1. /\ ~(~inside /\ c = Comma) /\ ~(~inside /\ c = CR /\ Following(more) = LF)
        /\ ~(~inside /\ c \in {CR, LF}) /\ c # Quote
        /\ ~(inside /\ c = Escape /\ Following(more) \in {Quote, Escape})
    OBVIOUS
  <2>2. Ahead(text, <<c>> \o more, inside) =
          IF c = Quote THEN <<QuoteMark>> \o Ahead(text, more, ~inside)
          ELSE IF inside /\ c = Escape /\ Following(more) \in {Quote, Escape}
            THEN <<Following(more)>> \o Ahead(text, Tail(more), inside)
          ELSE IF ~inside /\ c = Comma THEN <<FieldSep>> \o Ahead(text, more, inside)
          ELSE IF ~inside /\ c = CR /\ Following(more) = LF
            THEN <<RecordSep>> \o Ahead(text, Tail(more), inside)
          ELSE IF ~inside /\ c \in {CR, LF} THEN <<RecordSep>> \o Ahead(text, more, inside)
          ELSE <<c>> \o Ahead(text, more, inside)
    BY NextToken
  <2>. QED
    BY ONLY <2>1, <2>2
<1>. QED
  BY <1>1, <1>2

LEMMA QuoteAhead ==
  ASSUME NEW text \in Seq(Char), NEW more \in Seq(Char),
         IsSuffix(text, <<Quote>> \o more), NEW inside \in BOOLEAN
  PROVE  /\ IsSuffix(text, more)
         /\ Ahead(text, <<Quote>> \o more, inside) = <<QuoteMark>> \o Ahead(text, more, ~inside)
<1>1. Quote \in Char
  BY DEF Char
<1>. DEFINE c == Quote
<1>. HIDE DEF c
<1>2. c \in Char /\ c = Quote
  BY <1>1 DEF c
<1>3. IsSuffix(text, <<c>> \o more)
  BY ONLY <1>2, IsSuffix(text, <<Quote>> \o more)
<1>4. IsSuffix(text, more) /\ Ahead(text, <<c>> \o more, inside) = <<QuoteMark>> \o Ahead(text, more, ~inside)
  BY ONLY <1>2, <1>3, NextToken, text \in Seq(Char), more \in Seq(Char), inside \in BOOLEAN, ZenonT(60)
<1>. QED
  BY ONLY <1>2, <1>4

LEMMA EscapedAhead ==
  ASSUME NEW text \in Seq(Char), NEW more \in Seq(Char),
         IsSuffix(text, <<Escape>> \o more), Following(more) \in {Quote, Escape}
  PROVE  /\ Tail(more) \in Seq(Char) /\ IsSuffix(text, Tail(more))
         /\ Ahead(text, <<Escape>> \o more, TRUE) = <<Following(more)>> \o Ahead(text, Tail(more), TRUE)
<1>1. Escape \in Char /\ Escape # Quote /\ more # <<>>
  BY DEF Char, Escape, Quote, Following
<1>2. Tail(more) \in Seq(Char) /\ IsSuffix(text, Tail(more))
  BY <1>1, NextToken
<1>3. Ahead(text, <<Escape>> \o more, TRUE) = <<Following(more)>> \o Ahead(text, Tail(more), TRUE)
  BY <1>1, NextToken
<1>. QED
  BY <1>2, <1>3

LEMMA FieldAhead ==
  ASSUME NEW text \in Seq(Char), NEW more \in Seq(Char), IsSuffix(text, <<Comma>> \o more)
  PROVE  /\ IsSuffix(text, more)
         /\ Ahead(text, <<Comma>> \o more, FALSE) = <<FieldSep>> \o Ahead(text, more, FALSE)
<1>1. Comma \in Char /\ Comma # Quote
  BY DEF Char, Comma, Quote
<1>2. IsSuffix(text, more)
  BY <1>1, NextToken
<1>3. Ahead(text, <<Comma>> \o more, FALSE) = <<FieldSep>> \o Ahead(text, more, FALSE)
  BY <1>1, NextToken
<1>. QED
  BY <1>2, <1>3

\* A line end is \n, \r\n or \r alone.
BehindLine(c, more) == IF c = CR /\ Following(more) = LF THEN Tail(more) ELSE more

LEMMA LineEndAhead ==
  ASSUME NEW text \in Seq(Char), NEW c \in {CR, LF}, NEW more \in Seq(Char),
         IsSuffix(text, <<c>> \o more)
  PROVE  /\ BehindLine(c, more) \in Seq(Char) /\ IsSuffix(text, BehindLine(c, more))
         /\ Ahead(text, <<c>> \o more, FALSE) = <<RecordSep>> \o Ahead(text, BehindLine(c, more), FALSE)
<1>1. c \in Char /\ c # Quote /\ c # Comma /\ (Following(more) = LF => more # <<>>)
  BY DEF Char, CR, LF, Quote, Comma, Following
<1>2. IsSuffix(text, more) /\ (more # <<>> => Tail(more) \in Seq(Char) /\ IsSuffix(text, Tail(more)))
  BY <1>1, NextToken
<1>3. CASE c = CR /\ Following(more) = LF
  <2>1. Ahead(text, <<c>> \o more, FALSE) = <<RecordSep>> \o Ahead(text, Tail(more), FALSE)
    BY <1>1, <1>3, NextToken
  <2>. QED
    BY ONLY <1>1, <1>2, <1>3, <2>1 DEF BehindLine
<1>4. CASE ~(c = CR /\ Following(more) = LF)
  <2>1. Ahead(text, <<c>> \o more, FALSE) = <<RecordSep>> \o Ahead(text, more, FALSE)
    BY <1>1, <1>4, NextToken
  <2>2. BehindLine(c, more) = more
    BY ONLY <1>4 DEF BehindLine
  <2>. QED
    BY ONLY <1>2, <2>1, <2>2, more \in Seq(Char)
<1>. QED
  BY ONLY <1>3, <1>4

\* What the end of a buffer left open, and the rest of the file.
Pending == IF escaping THEN <<Escape>> ELSE IF newlining THEN <<CR>> ELSE <<>>
Rest == Pending \o (buffer \o unread)

\* The tokens seen and those ahead are the file's, wherever the buffer ends; the pieces of
\* those seen are lines done and a part of a line.
ReadTo(seen, done, line) ==
  /\ seen \in Seq(Token) /\ done \in Seq(Seq(Token)) /\ line \in Seq(Token)
  /\ Pieces(seen, RecordSep, {}) = Append(done, line)
  /\ IsSuffix(file, Rest)
  /\ Tokens(file) = seen \o Ahead(file, Rest, quoted)
  /\ Reading(done, line)
  /\ Loaded(done, line)

\* finish() completes the last line.
Completing ==
  /\ Tokens(file) \in Seq(Token)
  /\ \E done \in Seq(Seq(Token)), line \in Seq(Token) :
       Lines(file) = Append(done, line) /\ Reading(done, line) /\ Loaded(done, line)
  /\ ~quoted /\ unread = <<>>
  /\ (newlining /\ buffer = <<>>) \/ (~newlining /\ buffer = <<LF>>)

\* The file has been read to its end.
AllRead ==
  /\ Tokens(file) \in Seq(Token) /\ Lines(file) \in Seq(Seq(Token)) /\ Len(Lines(file)) > 0
  /\ Reading(Lines(file), <<>>) /\ Loaded(Lines(file), <<>>)

\* A load that fails has a reason.
NoTable ==
  phase \in {"threw", "undefined"} /\ NumColumns(file) = Len(Attributes) => ~WellFormed(file, header)

\* The inductive invariant of the parser.
ParserInv ==
  /\ ParserTypeOK
  /\ file \in Seq(Char) /\ header \in BOOLEAN /\ unread \in Seq(Char) /\ buffer \in Seq(Char)
  /\ phase \in {"read", "execute"} => \E seen, done, line : ReadTo(seen, done, line)
  /\ phase = "read" => buffer = <<>>
  /\ phase = "execute" => buffer # <<>>
  /\ phase = "finish" => Completing
  /\ phase = "parsed" => AllRead
  /\ NoTable

\* Sequences put together and taken apart.
LEMMA Parts ==
  ASSUME NEW V, NEW x \in Seq(V), NEW y \in Seq(V)
  PROVE  /\ x \o y \in Seq(V)
         /\ <<>> \o x = x /\ x \o <<>> = x
         /\ x # <<>> => /\ x \o y # <<>> /\ Head(x \o y) = Head(x) /\ Tail(x \o y) = Tail(x) \o y
                        /\ x \o y = <<Head(x)>> \o (Tail(x) \o y)
                        /\ Tail(x) \in Seq(V) /\ Head(x) \in V
<1>1. x \o y \in Seq(V) /\ <<>> \o x = x /\ x \o <<>> = x
  BY ConcatProperties, ConcatEmptySeq
<1>2. ASSUME x # <<>>
      PROVE  /\ x \o y # <<>> /\ Head(x \o y) = Head(x) /\ Tail(x \o y) = Tail(x) \o y
             /\ x \o y = <<Head(x)>> \o (Tail(x) \o y)
             /\ Tail(x) \in Seq(V) /\ Head(x) \in V
  <2>1. x = <<Head(x)>> \o Tail(x) /\ Head(x) \in V /\ Tail(x) \in Seq(V)
    BY <1>2, NonEmpty
  <2>. DEFINE h == Head(x)
              t == Tail(x)
  <2>2. <<h>> \in Seq(V)
    BY <2>1
  <2>. HIDE DEF h, t
  <2>3. (<<h>> \o t) \o y = <<h>> \o (t \o y)
    BY ONLY <2>1, <2>2, ConcatAssociative, y \in Seq(V) DEF h, t
  <2>4. x \o y = <<h>> \o (t \o y)
    BY ONLY <2>1, <2>3 DEF h, t
  <2>5. t \o y \in Seq(V) /\ h \in V
    BY ONLY <2>1, ConcatProperties, y \in Seq(V) DEF h, t
  <2>. DEFINE z == t \o y
  <2>. HIDE DEF z
  <2>6. <<h>> \o z # <<>> /\ Head(<<h>> \o z) = h /\ Tail(<<h>> \o z) = z
    BY <2>5 DEF z
  <2>. QED
    BY ONLY <2>1, <2>4, <2>6 DEF h, t, z
<1>. QED
  BY ONLY <1>1, <1>2

\* A step that reads a token keeps the place in the file.
LEMMA TokenRead ==
  ASSUME file \in Seq(Char), file' = file, NEW seen, NEW done, NEW line, ReadTo(seen, done, line),
         NEW t \in Token, Rest' \in Seq(Char), IsSuffix(file, Rest'), quoted' \in BOOLEAN,
         Ahead(file, Rest, quoted) = <<t>> \o Ahead(file, Rest', quoted'),
         NEW newdone, NEW newline,
         IF t = RecordSep THEN newdone = Append(done, line) /\ newline = <<>>
         ELSE newdone = done /\ newline = Append(line, t),
         Reading(newdone, newline)', Loaded(newdone, newline)'
  PROVE  ReadTo(Append(seen, t), newdone, newline)'
<1>. DEFINE after == Ahead(file, Rest', quoted')
<1>1. /\ seen \in Seq(Token) /\ done \in Seq(Seq(Token)) /\ line \in Seq(Token)
      /\ Pieces(seen, RecordSep, {}) = Append(done, line)
      /\ Tokens(file) = seen \o (<<t>> \o after)
  BY DEF ReadTo
<1>2. after \in Seq(AnyToken)
  BY AheadTyped
<1>. HIDE DEF after
<1>3. Tokens(file) = Append(seen, t) \o after
  <2>1. t \in AnyToken
    BY DEF AnyToken
  <2>2. seen \in Seq(AnyToken)
    BY ONLY <1>1, TokensAreAny
  <2>. QED
    <3>1. seen \o (<<t>> \o after) = Append(seen, t) \o after
      BY ONLY <1>2, <2>1, <2>2, Appended
    <3>. QED
      BY ONLY <1>1, <3>1
<1>4. Append(seen, t) \in Seq(Token)
  BY ONLY <1>1, AppendedIsNotEmpty, t \in Token
<1>5. /\ Pieces(Append(seen, t), RecordSep, {}) = Append(newdone, newline)
      /\ newdone \in Seq(Seq(Token)) /\ newline \in Seq(Token)
  <2>1. Pieces(Append(seen, t), RecordSep, {}) =
          IF t = RecordSep THEN Append(Append(done, line), <<>>) ELSE Append(done, Append(line, t))
    BY ONLY <1>1, LinesNext, t \in Token
  <2>2. /\ Append(done, line) \in Seq(Seq(Token)) /\ Append(line, t) \in Seq(Token)
        /\ <<>> \in Seq(Token)
    BY <1>1, AppendedIsNotEmpty
  <2>. QED
    BY <1>1, <2>1, <2>2
<1>6. Tokens(file') = Append(seen, t) \o Ahead(file', Rest', quoted')
  BY <1>3 DEF after
<1>. QED
  BY <1>4, <1>5, <1>6 DEF ReadTo

LEMMA NothingRead ==
  ASSUME NEW seen, NEW done, NEW line, ReadTo(seen, done, line), Rest' = Rest, col_idx \in Nat,
         UNCHANGED <<file, header, current_field, col_idx, row_idx, num_cols, after_first_row,
                     quoted, after_record_sep, records>>
  PROVE  ReadTo(seen, done, line)'
<1>1. Reading(done, line)'
  BY DEF ReadTo, Reading
<1>2. Loaded(done, line)'
  BY SameFieldsLoaded DEF ReadTo, records
<1>. QED
  BY <1>1, <1>2 DEF ReadTo

\* Outside the loop over the lines nothing of the file has been looked at.
LEMMA ReadStep ==
  ASSUME ParserInv, Read
  PROVE  ParserInv'
<1>1. /\ phase = "read" /\ unread # <<>> /\ phase' = "execute"
      /\ UNCHANGED <<file, header, parser, records>>
      /\ buffer = <<>> /\ unread \in Seq(Char)
  BY DEF Read, ParserInv
<1>2. PICK n \in 1 .. Len(unread) :
        buffer' = SubSeq(unread, 1, n) /\ unread' = SubSeq(unread, n + 1, Len(unread))
  BY DEF Read
<1>3. buffer' \in Seq(Char) /\ unread' \in Seq(Char) /\ buffer' # <<>> /\ buffer' \o unread' = unread
  <2>1. Len(unread) \in Nat /\ n \in Nat /\ 1 <= n /\ n <= Len(unread)
    BY <1>1
  <2>2. SubSeq(unread, 1, n) \in Seq(Char) /\ Len(SubSeq(unread, 1, n)) = n
    BY <1>1, <2>1
  <2>3. SubSeq(unread, n + 1, Len(unread)) \in Seq(Char)
    BY <1>1, <2>1
  <2>4. SubSeq(unread, 1, n) \o SubSeq(unread, n + 1, Len(unread)) = unread
    BY <1>1, <2>1
  <2>5. Len(<<>>) = 0
    OBVIOUS
  <2>6. SubSeq(unread, 1, n) # <<>>
    <3>1. Len(SubSeq(unread, 1, n)) # 0
      BY ONLY <2>1, <2>2
    <3>. QED
      BY ONLY <2>5, <3>1
  <2>. QED
    BY ONLY <1>2, <2>2, <2>3, <2>4, <2>6
<1>4. PICK seen, done, line : ReadTo(seen, done, line)
  BY <1>1 DEF ParserInv
<1>5. ReadTo(seen, done, line)'
  <2>1. buffer \o unread = unread
    BY ONLY <1>1, Parts
  <2>2. Rest' = Rest
    BY <1>1, <1>3, <2>1 DEF Rest, Pending, parser
  <2>. QED
    BY <1>1, <1>4, <2>2, NothingRead DEF parser, ParserInv, ParserTypeOK
<1>6. ParserTypeOK'
  BY <1>1 DEF ParserInv, ParserTypeOK, parser
<1>7. NoTable'
  BY <1>1 DEF NoTable
<1>. QED
  BY <1>1, <1>3, <1>5, <1>6, <1>7 DEF ParserInv

LEMMA WentOn ==
  ASSUME ParserInv, phase = "execute", NEW rest \in Seq(Char), GoOn(rest), ParserTypeOK',
         UNCHANGED <<file, header, unread>>, NEW seen, NEW done, NEW line, ReadTo(seen, done, line)'
  PROVE  ParserInv'
<1>1. /\ buffer' = rest /\ phase' \in {"read", "execute"}
      /\ (phase' = "read" => rest = <<>>) /\ (phase' = "execute" => rest # <<>>)
  BY DEF GoOn
<1>2. NoTable'
  BY <1>1 DEF NoTable
<1>. QED
  BY <1>1, <1>2 DEF ParserInv

\* What the loop over the buffer has before it.
LEMMA LoopAt ==
  ASSUME ParserInv, InLoop
  PROVE  /\ phase = "finish" => buffer = <<LF>> /\ ~quoted
         /\ Rest = <<Head(buffer)>> \o (Tail(buffer) \o unread)
         /\ Head(buffer) \in Char /\ Tail(buffer) \in Seq(Char) /\ Tail(buffer) \o unread \in Seq(Char)
         /\ Tail(buffer) # <<>> =>
              /\ Len(buffer) > 1 /\ buffer[2] = Head(Tail(buffer)) /\ Tail(Tail(buffer)) \in Seq(Char)
              /\ Following(Tail(buffer) \o unread) = buffer[2] /\ buffer[2] \in Char
              /\ Tail(Tail(buffer) \o unread) = Tail(Tail(buffer)) \o unread
         /\ Tail(buffer) = <<>> => ~(Len(buffer) > 1) /\ buffer = <<Head(buffer)>>
<1>1. buffer \in Seq(Char) /\ unread \in Seq(Char) /\ buffer # <<>> /\ ~escaping /\ ~newlining
  BY DEF ParserInv, InLoop
<1>2. phase = "finish" => buffer = <<LF>> /\ ~quoted
  BY <1>1 DEF ParserInv, Completing
<1>3. /\ buffer \o unread = <<Head(buffer)>> \o (Tail(buffer) \o unread)
      /\ buffer \o unread \in Seq(Char)
      /\ Head(buffer) \in Char /\ Tail(buffer) \in Seq(Char)
  BY ONLY <1>1, Parts
<1>4. Tail(buffer) \o unread \in Seq(Char)
  BY ONLY <1>1, <1>3, Parts
<1>5. Rest = buffer \o unread
  <2>1. Rest = <<>> \o (buffer \o unread)
    BY ONLY <1>1 DEF Rest, Pending
  <2>. QED
    BY ONLY <1>3, <2>1, Parts
<1>6. /\ Len(buffer) \in Nat \ {0} /\ Len(Tail(buffer)) = Len(buffer) - 1
      /\ \A n \in 1 .. Len(Tail(buffer)) : Tail(buffer)[n] = buffer[n + 1]
      /\ buffer = <<Head(buffer)>> \o Tail(buffer)
  BY ONLY <1>1, NonEmpty
<1>7. ASSUME Tail(buffer) # <<>>
      PROVE  /\ Len(buffer) > 1 /\ buffer[2] = Head(Tail(buffer)) /\ Tail(Tail(buffer)) \in Seq(Char)
             /\ Following(Tail(buffer) \o unread) = buffer[2] /\ buffer[2] \in Char
             /\ Tail(Tail(buffer) \o unread) = Tail(Tail(buffer)) \o unread
  <2>1. /\ Len(Tail(buffer)) \in Nat \ {0} /\ 1 \in 1 .. Len(Tail(buffer))
        /\ Head(Tail(buffer)) = Tail(buffer)[1] /\ Head(Tail(buffer)) \in Char
        /\ Tail(Tail(buffer)) \in Seq(Char)
    BY ONLY <1>3, <1>7, NonEmpty
  <2>2. Tail(buffer)[1] = buffer[2]
    BY ONLY <1>6, <2>1
  <2>3. Len(buffer) > 1
    BY ONLY <1>6, <2>1
  <2>. DEFINE x == Tail(buffer)
  <2>4. x \in Seq(Char) /\ x # <<>> /\ unread \in Seq(Char)
    BY <1>1, <1>3, <1>7
  <2>. HIDE DEF x
  <2>5. x \o unread # <<>> /\ Head(x \o unread) = Head(x) /\ Tail(x \o unread) = Tail(x) \o unread
    BY ONLY <2>4, Parts
  <2>6. /\ Tail(buffer) \o unread # <<>> /\ Head(Tail(buffer) \o unread) = Head(Tail(buffer))
        /\ Tail(Tail(buffer) \o unread) = Tail(Tail(buffer)) \o unread
    BY ONLY <2>5 DEF x
  <2>. QED
    BY ONLY <2>1, <2>2, <2>3, <2>6 DEF Following
<1>8. ASSUME Tail(buffer) = <<>>
      PROVE  ~(Len(buffer) > 1) /\ buffer = <<Head(buffer)>>
  <2>1. Len(<<>>) = 0 /\ <<Head(buffer)>> \o <<>> = <<Head(buffer)>>
    OBVIOUS
  <2>2. Len(buffer) - 1 = 0 /\ Len(buffer) \in Nat
    BY ONLY <1>6, <1>8, <2>1
  <2>3. \A a \in Nat : a - 1 = 0 => ~(a > 1)
    OBVIOUS
  <2>4. ~(Len(buffer) > 1)
    BY ONLY <2>2, <2>3
  <2>. QED
    BY ONLY <1>6, <1>8, <2>1, <2>4
<1>. QED
  BY ONLY <1>2, <1>3, <1>4, <1>5, <1>7, <1>8

\* Facts that an action in execute() starts from.
LEMMA ExecuteAt ==
  ASSUME ParserInv, phase = "execute"
  PROVE  /\ \E seen, done, line : ReadTo(seen, done, line)
         /\ ParserTypeOK /\ file \in Seq(Char) /\ quoted \in BOOLEAN /\ header \in BOOLEAN
         /\ unread \in Seq(Char) /\ buffer \in Seq(Char) /\ buffer # <<>>
         /\ IsSuffix(file, Rest)
BY DEF ParserInv, ParserTypeOK, ReadTo

LEMMA TakeCharStep ==
  ASSUME ParserInv, TakeChar
  PROVE  ParserInv'
<1>. DEFINE more == Tail(buffer) \o unread
<1>1. /\ InLoop
      /\ \/ Head(buffer) = Digit
         \/ Head(buffer) \in {Comma, CR, LF} /\ quoted
         \/ Head(buffer) = Escape /\ ~quoted
      /\ current_field' = Append(current_field, Head(buffer)) /\ after_record_sep' = FALSE
      /\ GoOn(Tail(buffer))
      /\ UNCHANGED <<file, header, unread, col_idx, row_idx, num_cols, after_first_row, quoted,
                     escaping, newlining, records>>
  BY DEF TakeChar
<1>2. /\ phase = "finish" => buffer = <<LF>> /\ ~quoted
      /\ Rest = <<Head(buffer)>> \o more /\ Head(buffer) \in Char
      /\ Tail(buffer) \in Seq(Char) /\ more \in Seq(Char)
  BY ONLY <1>1, LoopAt, ParserInv
<1>3. phase = "execute"
  <2>1. buffer = <<LF>> => Head(buffer) = LF
    OBVIOUS
  <2>. QED
    BY <1>1, <1>2, <2>1 DEF InLoop, Digit, Comma, CR, LF, Escape
<1>. HIDE DEF more
<1>4. PICK seen, done, line : ReadTo(seen, done, line)
  BY <1>3, ExecuteAt
<1>5. PICK c \in Char : c = Head(buffer)
  BY <1>2
<1>6. /\ ParserTypeOK /\ file \in Seq(Char) /\ quoted \in BOOLEAN
      /\ unread \in Seq(Char) /\ IsSuffix(file, <<c>> \o more)
  BY <1>2, <1>3, <1>5, ExecuteAt
<1>7. Rest' = more
  <2>1. Rest' = <<>> \o more
    BY <1>1 DEF Rest, Pending, GoOn, InLoop, more
  <2>. QED
    BY ONLY <1>2, <2>1, Parts
<1>8. IsSuffix(file, more) /\ Ahead(file, Rest, quoted) = <<c>> \o Ahead(file, more, quoted)
  <2>1. c # Quote /\ ~(quoted /\ c = Escape) /\ ~(~quoted /\ c \in {Comma, CR, LF})
    BY <1>1, <1>5 DEF Digit, Comma, CR, LF, Escape, Quote
  <2>2. IsSuffix(file, more) /\ Ahead(file, <<c>> \o more, quoted) = <<c>> \o Ahead(file, more, quoted)
    BY ONLY <1>2, <1>6, <2>1, c \in Char, CharacterAhead, ZenonT(60)
  <2>. QED
    BY ONLY <1>2, <1>5, <2>2
<1>9. c \in Token /\ c # RecordSep
  BY MarksAreNoCharacters
<1>10. Reading(done, Append(line, c))' /\ Loaded(done, Append(line, c))'
  BY <1>1, <1>4, <1>5, <1>6, CharTaken DEF ReadTo
<1>11. ReadTo(Append(seen, c), done, Append(line, c))'
  BY <1>1, <1>2, <1>4, <1>6, <1>7, <1>8, <1>9, <1>10, TokenRead
<1>12. ParserTypeOK'
  <2>1. current_field' \in Seq(Char) /\ phase' \in {"read", "execute"}
    BY <1>1, <1>2, <1>3, <1>6 DEF ParserTypeOK, GoOn
  <2>. QED
    BY <1>1, <1>6, <2>1 DEF ParserTypeOK
<1>. QED
  BY <1>1, <1>2, <1>3, <1>11, <1>12, WentOn

LEMMA ToggleQuoteStep ==
  ASSUME ParserInv, ToggleQuote
  PROVE  ParserInv'
<1>. DEFINE more == Tail(buffer) \o unread
<1>1. /\ InLoop /\ Head(buffer) = Quote /\ quoted' = ~quoted /\ after_record_sep' = FALSE
      /\ GoOn(Tail(buffer))
      /\ UNCHANGED <<file, header, unread, current_field, col_idx, row_idx, num_cols,
                     after_first_row, escaping, newlining, records>>
  BY DEF ToggleQuote
<1>2. /\ phase = "finish" => buffer = <<LF>> /\ ~quoted
      /\ Rest = <<Quote>> \o more /\ Tail(buffer) \in Seq(Char) /\ more \in Seq(Char)
  BY <1>1, LoopAt
<1>3. phase = "execute"
  <2>1. buffer = <<LF>> => Head(buffer) = LF
    OBVIOUS
  <2>. QED
    BY <1>1, <1>2, <2>1 DEF InLoop, LF, Quote
<1>. HIDE DEF more
<1>4. PICK seen, done, line : ReadTo(seen, done, line)
  BY <1>3, ExecuteAt
<1>5. /\ ParserTypeOK /\ file \in Seq(Char) /\ quoted \in BOOLEAN /\ quoted' \in BOOLEAN
      /\ unread \in Seq(Char) /\ IsSuffix(file, <<Quote>> \o more)
  BY <1>1, <1>2, <1>3, ExecuteAt
<1>6. Rest' = more
  <2>1. Rest' = <<>> \o more
    BY <1>1 DEF Rest, Pending, GoOn, InLoop, more
  <2>. QED
    BY ONLY <1>2, <2>1, Parts
<1>7. IsSuffix(file, more) /\ Ahead(file, Rest, quoted) = <<QuoteMark>> \o Ahead(file, more, quoted')
  BY <1>1, <1>2, <1>5, QuoteAhead
<1>8. QuoteMark \in Token /\ QuoteMark # RecordSep
  BY MarksAreNoCharacters
<1>9. Reading(done, Append(line, QuoteMark))' /\ Loaded(done, Append(line, QuoteMark))'
  BY <1>1, <1>4, <1>5, QuoteTaken DEF ReadTo
<1>10. ReadTo(Append(seen, QuoteMark), done, Append(line, QuoteMark))'
  BY <1>1, <1>2, <1>4, <1>5, <1>6, <1>7, <1>8, <1>9, TokenRead
<1>11. ParserTypeOK'
  <2>1. phase' \in {"read", "execute"}
    BY <1>3, <1>1 DEF GoOn
  <2>2. ~escaping /\ ~newlining
    BY <1>1 DEF InLoop
  <2>. QED
    BY <1>1, <1>5, <2>1, <2>2 DEF ParserTypeOK
<1>. QED
  BY <1>1, <1>2, <1>3, <1>10, <1>11, WentOn

\* A character that its buffer ends with is kept in mind.
LEMMA HalfStep ==
  ASSUME ParserInv, HalfEscape \/ HalfNewline
  PROVE  ParserInv'
<1>1. /\ InLoop /\ GoOn(<<>>)
      /\ UNCHANGED <<file, header, unread, current_field, col_idx, row_idx, num_cols,
                     after_first_row, quoted, after_record_sep, records>>
      /\ \/ buffer = <<Escape>> /\ quoted /\ escaping' = TRUE /\ newlining' = newlining
         \/ buffer = <<CR>> /\ ~quoted /\ newlining' = TRUE /\ escaping' = escaping
  BY DEF HalfEscape, HalfNewline
<1>2. ~escaping /\ ~newlining /\ phase = "execute"
  <2>1. phase = "finish" => buffer = <<LF>>
    BY <1>1, LoopAt
  <2>2. <<LF>> # <<Escape>> /\ <<LF>> # <<CR>>
    BY DEF LF, Escape, CR
  <2>. QED
    BY <1>1, <2>1, <2>2 DEF InLoop
<1>3. PICK seen, done, line : ReadTo(seen, done, line)
  BY <1>2, ExecuteAt
<1>4. ParserTypeOK /\ unread \in Seq(Char) /\ buffer \in Seq(Char)
  BY <1>2, ExecuteAt
<1>5. Rest' = Rest
  <2>1. Rest = <<>> \o (buffer \o unread)
    BY <1>2 DEF Rest, Pending
  <2>2. buffer \o unread \in Seq(Char) /\ <<>> \o unread = unread
    BY ONLY <1>4, Parts
  <2>3. Rest = buffer \o unread
    BY ONLY <2>1, <2>2, Parts
  <2>4. Rest' = buffer \o (<<>> \o unread)
    <3>1. buffer' = <<>> /\ unread' = unread
      BY <1>1 DEF GoOn
    <3>2. CASE buffer = <<Escape>> /\ escaping' = TRUE
      BY <3>1, <3>2 DEF Rest, Pending
    <3>3. CASE buffer = <<CR>> /\ newlining' = TRUE /\ escaping' = escaping
      <4>1. ~escaping'
        BY ONLY <1>2, <3>3
      <4>. QED
        BY <3>1, <3>3, <4>1 DEF Rest, Pending
    <3>. QED
      BY <1>1, <3>2, <3>3
  <2>. QED
    BY ONLY <2>2, <2>3, <2>4
<1>6. ReadTo(seen, done, line)'
  BY <1>1, <1>3, <1>4, <1>5, NothingRead DEF ParserTypeOK
<1>7. ParserTypeOK'
  <2>1. phase' \in {"read", "execute"}
    BY <1>2, <1>1 DEF GoOn
  <2>2. CASE quoted /\ escaping' = TRUE /\ newlining' = newlining
    BY <1>1, <1>2, <1>4, <2>1, <2>2 DEF ParserTypeOK
  <2>3. CASE ~quoted /\ newlining' = TRUE /\ escaping' = escaping
    BY <1>1, <1>2, <1>4, <2>1, <2>3 DEF ParserTypeOK
  <2>. QED
    BY <1>1, <2>2, <2>3
<1>8. <<>> \in Seq(Char)
  OBVIOUS
<1>. QED
  BY <1>1, <1>2, <1>6, <1>7, <1>8, WentOn

\* A backslash in quotes and what is behind it.
LEMMA EscapeRead ==
  ASSUME ParserInv, phase = "execute", quoted, NEW rest \in Seq(Char), rest # <<>>,
         Rest = <<Escape>> \o (rest \o unread),
         IF Head(rest) \in {Quote, Escape}
           THEN current_field' = Append(current_field, Head(rest)) /\ GoOn(Tail(rest))
           ELSE current_field' = Append(current_field, Escape) /\ GoOn(rest),
         after_record_sep' = FALSE, ~escaping', ~newlining', escaping' \in BOOLEAN, newlining' \in BOOLEAN,
         UNCHANGED <<file, header, unread, col_idx, row_idx, num_cols, after_first_row, quoted, records>>
  PROVE  ParserInv'
<1>. DEFINE more == rest \o unread
<1>1. /\ ParserTypeOK /\ file \in Seq(Char) /\ unread \in Seq(Char) /\ quoted = TRUE
      /\ IsSuffix(file, Rest)
  BY ExecuteAt
<1>2. /\ more \in Seq(Char) /\ Following(more) = Head(rest) /\ Tail(more) = Tail(rest) \o unread
      /\ Tail(rest) \in Seq(Char) /\ Head(rest) \in Char
  BY <1>1, Parts DEF Following
<1>3. PICK seen, done, line : ReadTo(seen, done, line)
  BY ExecuteAt
<1>4. Escape \in Char /\ Escape # Quote
  BY DEF Char, Escape, Quote
<1>. HIDE DEF more
<1>5. PICK c \in Char, after \in Seq(Char) :
        /\ current_field' = Append(current_field, c) /\ GoOn(after)
        /\ IsSuffix(file, after \o unread)
        /\ Ahead(file, Rest, TRUE) = <<c>> \o Ahead(file, after \o unread, TRUE)
  <2>1. CASE Head(rest) \in {Quote, Escape}
    <3>1. PICK c \in Char : c = Head(rest)
      BY <1>2
    <3>2. /\ IsSuffix(file, Tail(more))
          /\ Ahead(file, Rest, TRUE) = <<c>> \o Ahead(file, Tail(more), TRUE)
      BY <1>1, <1>2, <2>1, <3>1, EscapedAhead, ZenonT(60) DEF more
    <3>3. current_field' = Append(current_field, c) /\ GoOn(Tail(rest))
      BY <2>1, <3>1
    <3>. QED
      BY <1>2, <3>2, <3>3
  <2>2. CASE Head(rest) \notin {Quote, Escape}
    <3>1. /\ IsSuffix(file, more)
          /\ Ahead(file, Rest, TRUE) = <<Escape>> \o Ahead(file, more, TRUE)
      BY <1>1, <1>2, <1>4, <2>2, CharacterAhead DEF more
    <3>2. current_field' = Append(current_field, Escape) /\ GoOn(rest)
      BY <2>2
    <3>. QED
      BY <1>4, <3>1, <3>2 DEF more
  <2>. QED
    BY <2>1, <2>2
<1>6. Rest' = after \o unread /\ after \o unread \in Seq(Char)
  <2>1. Rest' = <<>> \o (after \o unread)
    BY <1>5 DEF Rest, Pending, GoOn
  <2>2. after \o unread \in Seq(Char)
    BY <1>1, <1>5, Parts
  <2>. QED
    BY ONLY <2>1, <2>2, Parts
<1>7. c \in Token /\ c # RecordSep
  BY MarksAreNoCharacters
<1>8. Reading(done, Append(line, c))' /\ Loaded(done, Append(line, c))'
  BY <1>1, <1>3, <1>5, CharTaken DEF ReadTo
<1>9. ReadTo(Append(seen, c), done, Append(line, c))'
  BY <1>1, <1>3, <1>5, <1>6, <1>7, <1>8, TokenRead
<1>10. ParserTypeOK'
  <2>1. current_field' \in Seq(Char) /\ phase' \in {"read", "execute"}
    BY <1>1, <1>5 DEF ParserTypeOK, GoOn
  <2>. QED
    BY <1>1, <2>1 DEF ParserTypeOK
<1>. QED
  BY <1>5, <1>9, <1>10, WentOn

LEMMA TakeEscapedStep ==
  ASSUME ParserInv, TakeEscaped
  PROVE  ParserInv'
<1>1. /\ InLoop /\ Head(buffer) = Escape /\ quoted /\ Len(buffer) > 1
      /\ IF buffer[2] \in {Quote, Escape}
           THEN current_field' = Append(current_field, buffer[2]) /\ GoOn(Tail(Tail(buffer)))
           ELSE current_field' = Append(current_field, Escape) /\ GoOn(Tail(buffer))
      /\ after_record_sep' = FALSE
      /\ UNCHANGED <<file, header, unread, col_idx, row_idx, num_cols, after_first_row, quoted,
                     escaping, newlining, records>>
  BY DEF TakeEscaped
<1>2. phase = "execute"
  <2>1. phase = "finish" => ~quoted
    BY <1>1, LoopAt
  <2>. QED
    BY <1>1, <2>1 DEF InLoop
<1>3. /\ Rest = <<Escape>> \o (Tail(buffer) \o unread) /\ Tail(buffer) \in Seq(Char)
      /\ Tail(buffer) # <<>> /\ buffer[2] = Head(Tail(buffer))
  BY <1>1, LoopAt
<1>4. ~escaping' /\ ~newlining' /\ escaping' \in BOOLEAN /\ newlining' \in BOOLEAN
  <2>1. escaping \in BOOLEAN /\ newlining \in BOOLEAN
    BY DEF ParserInv, ParserTypeOK
  <2>. QED
    BY <1>1, <2>1 DEF InLoop
<1>. DEFINE rest == Tail(buffer)
<1>5. IF Head(rest) \in {Quote, Escape}
        THEN current_field' = Append(current_field, Head(rest)) /\ GoOn(Tail(rest))
        ELSE current_field' = Append(current_field, Escape) /\ GoOn(rest)
  BY ONLY <1>1, <1>3
<1>6. PICK k \in Seq(Char) : k = rest
  BY <1>3
<1>. HIDE DEF rest
<1>7. /\ IF Head(k) \in {Quote, Escape}
           THEN current_field' = Append(current_field, Head(k)) /\ GoOn(Tail(k))
           ELSE current_field' = Append(current_field, Escape) /\ GoOn(k)
      /\ k # <<>> /\ Rest = <<Escape>> \o (k \o unread)
  BY ONLY <1>3, <1>5, <1>6 DEF rest
<1>. QED
  BY <1>1, <1>2, <1>4, <1>7, EscapeRead

LEMMA ResumeEscapeStep ==
  ASSUME ParserInv, ResumeEscape
  PROVE  ParserInv'
<1>1. /\ phase = "execute" /\ escaping
      /\ IF Head(buffer) \in {Quote, Escape}
           THEN current_field' = Append(current_field, Head(buffer)) /\ GoOn(Tail(buffer))
           ELSE current_field' = Append(current_field, Escape) /\ GoOn(buffer)
      /\ escaping' = FALSE
      /\ UNCHANGED <<file, header, unread, col_idx, row_idx, num_cols, after_first_row, quoted,
                     after_record_sep, newlining, records>>
  BY DEF ResumeEscape
<1>2. ParserTypeOK /\ buffer \in Seq(Char) /\ buffer # <<>>
  BY <1>1, ExecuteAt
<1>3. quoted /\ ~newlining /\ newlining \in BOOLEAN /\ after_record_sep \in BOOLEAN
  BY <1>1, <1>2 DEF ParserTypeOK
<1>4. after_record_sep' = FALSE
  <2>1. PICK seen, done, line : ReadTo(seen, done, line)
    BY <1>1, ExecuteAt
  <2>2. ~after_record_sep
    BY <1>3, <2>1 DEF ReadTo, Reading
  <2>. QED
    BY <1>1, <1>3, <2>2
<1>5. Rest = <<Escape>> \o (buffer \o unread)
  BY <1>1 DEF Rest, Pending
<1>6. PICK k \in Seq(Char) : k = buffer
  BY <1>2
<1>7. /\ IF Head(k) \in {Quote, Escape}
           THEN current_field' = Append(current_field, Head(k)) /\ GoOn(Tail(k))
           ELSE current_field' = Append(current_field, Escape) /\ GoOn(k)
      /\ k # <<>> /\ Rest = <<Escape>> \o (k \o unread)
  BY ONLY <1>1, <1>2, <1>5, <1>6
<1>. QED
  BY <1>1, <1>3, <1>4, <1>7, EscapeRead

\* The load ends because the file means no table.
LEMMA GaveUp ==
  ASSUME ParserInv, NEW how \in {"threw", "undefined"}, GiveUp(how),
         NumColumns(file) = Len(Attributes) => ~WellFormed(file, header)
  PROVE  ParserInv'
<1>1. phase' = how /\ UNCHANGED <<file, header, unread, buffer, parser, records>>
  BY DEF GiveUp
<1>2. ParserTypeOK'
  BY <1>1 DEF ParserInv, ParserTypeOK, parser
<1>3. NoTable'
  <2>1. (NumColumns(file) = Len(Attributes) => ~WellFormed(file, header))'
    BY <1>1
  <2>. QED
    BY <1>1, <2>1 DEF NoTable
<1>. QED
  BY <1>1, <1>2, <1>3 DEF ParserInv

LEMMA FieldFailed ==
  ASSUME ParserInv, FieldFails, NEW done \in Seq(Seq(Token)), NEW line,
         Reading(done, line), Loaded(done, line), KnownLines(done)
  PROVE  ParserInv'
<1>1. NumColumns(file) = Len(Attributes) => ~WellFormed(file, header)
  BY NoSuchTable, FilesAssumption DEF FieldFails, ParserInv
<1>2. GiveUp("undefined") \/ GiveUp("threw")
  BY DEF FieldFails
<1>. QED
  BY <1>1, <1>2, GaveUp

LEMMA EndFieldStep ==
  ASSUME ParserInv, EndField
  PROVE  ParserInv'
<1>. DEFINE more == Tail(buffer) \o unread
<1>1. InLoop /\ Head(buffer) = Comma /\ ~quoted
  BY DEF EndField
<1>2. /\ phase = "finish" => buffer = <<LF>>
      /\ Rest = <<Comma>> \o more /\ Tail(buffer) \in Seq(Char) /\ more \in Seq(Char)
  BY <1>1, LoopAt
<1>3. phase = "execute"
  <2>1. buffer = <<LF>> => Head(buffer) = LF
    OBVIOUS
  <2>. QED
    BY <1>1, <1>2, <2>1 DEF InLoop, LF, Comma
<1>. HIDE DEF more
<1>4. PICK seen, done, line : ReadTo(seen, done, line)
  BY <1>3, ExecuteAt
<1>5. /\ ParserTypeOK /\ file \in Seq(Char) /\ quoted = FALSE
      /\ unread \in Seq(Char) /\ IsSuffix(file, <<Comma>> \o more)
  BY <1>1, <1>2, <1>3, ExecuteAt
<1>6. IsSuffix(file, more) /\ Ahead(file, Rest, FALSE) = <<FieldSep>> \o Ahead(file, more, FALSE)
  BY <1>2, <1>5, FieldAhead
<1>7. FieldSep \in Token /\ FieldSep # RecordSep
  BY MarksAreNoCharacters
<1>8. /\ seen \in Seq(Token) /\ done \in Seq(Seq(Token)) /\ line \in Seq(Token)
      /\ Pieces(seen, RecordSep, {}) = Append(done, line)
      /\ Tokens(file) = seen \o Ahead(file, Rest, FALSE)
      /\ Reading(done, line) /\ Loaded(done, line)
  BY <1>4, <1>5 DEF ReadTo
<1>9. CASE FieldFails
  <2>1. Tokens(file) = Append(seen, FieldSep) \o Ahead(file, more, FALSE)
    <3>1. Ahead(file, more, FALSE) \in Seq(AnyToken)
      BY <1>2, <1>5, <1>6, AheadTyped
    <3>2. FieldSep \in AnyToken
      BY <1>7 DEF AnyToken
    <3>3. seen \in Seq(AnyToken)
      BY ONLY <1>8, TokensAreAny
    <3>. DEFINE x == Ahead(file, more, FALSE)
    <3>4. x \in Seq(AnyToken)
      BY <3>1
    <3>. HIDE DEF x
    <3>5. seen \o (<<FieldSep>> \o x) = Append(seen, FieldSep) \o x
      BY ONLY <3>2, <3>3, <3>4, Appended
    <3>6. Tokens(file) = seen \o (<<FieldSep>> \o x)
      BY ONLY <1>6, <1>8 DEF x
    <3>. QED
      BY ONLY <3>5, <3>6 DEF x
  <2>2. Ahead(file, more, FALSE) \in Seq(AnyToken)
    BY <1>2, <1>5, <1>6, AheadTyped
  <2>3. /\ Tokens(file) \in Seq(AnyToken)
        /\ Len(Lines(file)) >= Len(done) + 1
        /\ \A l \in 1 .. Len(done) : Lines(file)[l] = done[l]
        /\ \E r \in Seq(AnyToken) : Lines(file)[Len(done) + 1] = Append(line, FieldSep) \o r
    BY ONLY <1>8, <2>1, <2>2, BegunLine
  <2>4. PICK r \in Seq(AnyToken) : Lines(file)[Len(done) + 1] = Append(line, FieldSep) \o r
    BY <2>3
  <2>5. Lines(file) \in Seq(Seq(AnyToken))
    BY <2>3, LinesOfTokens
  <2>. DEFINE current == Fields(Lines(file)[Len(done) + 1])
  <2>6. /\ Len(current) >= Len(Fields(line)) + 1
        /\ \A a \in 1 .. Len(Fields(line)) : current[a] = Fields(line)[a]
    BY <1>8, <2>4, FieldsGrow
  <2>7. Len(current) \in Nat
    <3>1. Len(Lines(file)) \in Nat /\ Len(done) + 1 \in 1 .. Len(Lines(file))
      BY <1>8, <2>3, <2>5
    <3>2. Lines(file)[Len(done) + 1] \in Seq(AnyToken)
      BY <2>5, <3>1
    <3>. QED
      BY <3>2, FieldsTyped
  <2>. HIDE DEF current
  <2>8. Len(Fields(line)) = col_idx + 1 /\ Fields(line)[col_idx + 1] = current_field /\ col_idx \in Nat
    BY <1>5, <1>8 DEF Reading, ParserTypeOK
  <2>9. Len(current) >= col_idx + 1 /\ current[col_idx + 1] = current_field
    BY ONLY <2>6, <2>7, <2>8
  <2>10. KnownLines(done)
    BY <2>3, <2>5, <2>7, <2>9 DEF KnownLines, current
  <2>. QED
    BY <1>8, <1>9, <2>10, FieldFailed
<1>10. CASE ~FieldFails
  <2>1. /\ OnField /\ current_field' = <<>> /\ col_idx' = col_idx + 1 /\ after_record_sep' = FALSE
        /\ GoOn(Tail(buffer))
        /\ UNCHANGED <<file, header, unread, row_idx, num_cols, after_first_row, quoted,
                       escaping, newlining>>
    BY <1>10 DEF EndField
  <2>2. Rest' = more
    <3>1. Rest' = <<>> \o more
      BY <1>1, <2>1 DEF Rest, Pending, GoOn, InLoop, more
    <3>. QED
      BY ONLY <1>2, <3>1, Parts
  <2>3. Reading(done, Append(line, FieldSep))' /\ Loaded(done, Append(line, FieldSep))'
    BY <1>5, <1>8, <2>1, FieldTaken, FilesAssumption
  <2>4. ReadTo(Append(seen, FieldSep), done, Append(line, FieldSep))'
    BY <1>2, <1>4, <1>5, <1>6, <1>7, <2>1, <2>2, <2>3, TokenRead
  <2>5. ParserTypeOK'
    <3>1. phase' \in {"read", "execute"}
      BY <1>3, <2>1 DEF GoOn
    <3>2. <<>> \in Seq(Char) /\ col_idx + 1 \in Nat
      BY <1>5 DEF ParserTypeOK
    <3>3. ~escaping /\ ~newlining
      BY <1>1 DEF InLoop
    <3>4. after_record_sep' \in BOOLEAN /\ after_first_row' \in BOOLEAN /\ quoted' \in BOOLEAN
          /\ escaping' \in BOOLEAN /\ newlining' \in BOOLEAN /\ ~escaping' /\ ~newlining'
      BY <1>5, <2>1, <3>3 DEF ParserTypeOK
    <3>5. row_idx' \in Nat /\ num_cols' \in Nat /\ current_field' = <<>> /\ col_idx' = col_idx + 1
      BY <1>5, <2>1 DEF ParserTypeOK
    <3>. QED
      BY ONLY <3>1, <3>2, <3>4, <3>5 DEF ParserTypeOK
  <2>. QED
    BY <1>2, <1>3, <2>1, <2>4, <2>5, WentOn
<1>. QED
  BY <1>9, <1>10

\* The line that ends is the file's, or its fields are not those of a table.
LEMMA LineFailed ==
  ASSUME ParserInv, NEW done \in Seq(Seq(Token)), NEW line \in Seq(Token),
         Reading(done, line), Loaded(done, line),
         Lines(file) \in Seq(Seq(AnyToken)), Len(Lines(file)) >= Len(done) + 1,
         \A l \in 1 .. Len(done) : Lines(file)[l] = done[l], Lines(file)[Len(done) + 1] = line,
         (Inconsistent /\ GiveUp("threw")) \/ FieldFails
  PROVE  ParserInv'
<1>1. ParserTypeOK
  BY DEF ParserInv
<1>2. CASE Inconsistent /\ GiveUp("threw")
  <2>1. ~WellFormed(file, header)
    BY <1>1, <1>2, UnevenLines
  <2>. QED
    BY <1>2, <2>1, GaveUp
<1>3. CASE FieldFails
  <2>1. /\ Len(Fields(line)) = col_idx + 1 /\ Fields(line)[col_idx + 1] = current_field
        /\ col_idx \in Nat
    BY <1>1 DEF Reading, ParserTypeOK
  <2>2. Len(Fields(line)) \in Nat /\ Len(Fields(line)) >= col_idx + 1
    BY <2>1
  <2>3. KnownLines(done)
    BY <2>1, <2>2 DEF KnownLines
  <2>. QED
    BY <1>3, <2>3, FieldFailed
<1>. QED
  BY <1>2, <1>3

LEMMA LineEnded ==
  ASSUME ParserInv, ~quoted, NEW done \in Seq(Seq(Token)), NEW line \in Seq(Token),
         Reading(done, line), Loaded(done, line), NEW rest, EndRecord(rest),
         phase \in {"execute", "finish"}
  PROVE  /\ Reading(Append(done, line), <<>>)' /\ Loaded(Append(done, line), <<>>)'
         /\ ParserTypeOK' /\ ~quoted' /\ ~newlining' /\ ~escaping'
<1>1. /\ ~Inconsistent /\ OnField /\ after_first_row' = TRUE
      /\ num_cols' = IF after_first_row THEN num_cols ELSE col_idx + 1
      /\ current_field' = <<>> /\ col_idx' = 0 /\ row_idx' = row_idx + 1 /\ after_record_sep' = TRUE
      /\ newlining' = FALSE /\ GoOn(rest)
      /\ UNCHANGED <<file, header, unread, quoted, escaping>>
  BY DEF EndRecord
<1>2. ParserTypeOK /\ header \in BOOLEAN
  BY DEF ParserInv
<1>3. Reading(Append(done, line), <<>>)' /\ Loaded(Append(done, line), <<>>)'
  BY <1>1, <1>2, LineTaken, FilesAssumption
<1>4. quoted' = FALSE /\ escaping' = FALSE /\ newlining' = FALSE
  BY <1>1, <1>2 DEF ParserTypeOK
<1>5. <<>> \in Seq(Char) /\ num_cols' \in Nat /\ row_idx' \in Nat
  BY <1>1, <1>2 DEF ParserTypeOK
<1>6. phase' \in {"execute", "finish", "parsed", "read"}
  BY <1>1 DEF GoOn
<1>7. ParserTypeOK'
  BY <1>1, <1>4, <1>5, <1>6 DEF ParserTypeOK
<1>. QED
  BY <1>3, <1>4, <1>7

LEMMA EndLineStep ==
  ASSUME ParserInv, phase = "execute", ~quoted, NEW c \in {CR, LF}, NEW more \in Seq(Char),
         Rest = <<c>> \o more, NEW rest \in Seq(Char),
         rest \o unread = BehindLine(c, more),
         EndLine(rest)
  PROVE  ParserInv'
<1>. DEFINE after == rest \o unread
<1>1. PICK seen, done, line : ReadTo(seen, done, line)
  BY ExecuteAt
<1>2. /\ ParserTypeOK /\ file \in Seq(Char) /\ quoted = FALSE
      /\ unread \in Seq(Char) /\ IsSuffix(file, <<c>> \o more)
  BY ExecuteAt
<1>3. after = BehindLine(c, more)
  OBVIOUS
<1>. HIDE DEF after
<1>4. /\ after \in Seq(Char) /\ IsSuffix(file, after)
      /\ Ahead(file, Rest, FALSE) = <<RecordSep>> \o Ahead(file, after, FALSE)
  <2>1. /\ after \in Seq(Char) /\ IsSuffix(file, after)
        /\ Ahead(file, <<c>> \o more, FALSE) = <<RecordSep>> \o Ahead(file, after, FALSE)
    BY ONLY <1>2, <1>3, c \in {CR, LF}, more \in Seq(Char), LineEndAhead, ZenonT(60)
  <2>. QED
    BY <2>1
<1>5. /\ seen \in Seq(Token) /\ done \in Seq(Seq(Token)) /\ line \in Seq(Token)
      /\ Pieces(seen, RecordSep, {}) = Append(done, line)
      /\ Tokens(file) = seen \o Ahead(file, Rest, FALSE)
      /\ Reading(done, line) /\ Loaded(done, line)
  BY <1>1, <1>2 DEF ReadTo
<1>6. RecordSep \in Token
  BY MarksAreNoCharacters
<1>7. CASE (Inconsistent /\ GiveUp("threw")) \/ FieldFails
  <2>. DEFINE x == Ahead(file, after, FALSE)
  <2>1. x \in Seq(AnyToken)
    BY <1>2, <1>4, AheadTyped
  <2>2. RecordSep \in AnyToken
    BY <1>6 DEF AnyToken
  <2>3. seen \in Seq(AnyToken)
    BY ONLY <1>5, TokensAreAny
  <2>. HIDE DEF x
  <2>4. seen \o (<<RecordSep>> \o x) = Append(seen, RecordSep) \o x
    BY ONLY <2>1, <2>2, <2>3, Appended
  <2>5. Tokens(file) = seen \o (<<RecordSep>> \o x)
    BY ONLY <1>4, <1>5 DEF x
  <2>6. Tokens(file) = Append(seen, RecordSep) \o x
    BY ONLY <2>4, <2>5
  <2>7. /\ Tokens(file) \in Seq(AnyToken)
        /\ Len(Lines(file)) >= Len(done) + 1
        /\ \A l \in 1 .. Len(done) : Lines(file)[l] = done[l]
        /\ Lines(file)[Len(done) + 1] = line
    BY ONLY <1>5, <2>1, <2>6, EndedLines, ZenonT(60)
  <2>8. Lines(file) \in Seq(Seq(AnyToken))
    BY <2>7, LinesOfTokens
  <2>. QED
    BY <1>5, <1>7, <2>7, <2>8, LineFailed
<1>8. CASE EndRecord(rest)
  <2>1. /\ Reading(Append(done, line), <<>>)' /\ Loaded(Append(done, line), <<>>)'
        /\ ParserTypeOK' /\ ~quoted' /\ ~newlining' /\ ~escaping'
    BY <1>5, <1>8, LineEnded
  <2>2. GoOn(rest) /\ UNCHANGED <<file, header, unread>>
    BY <1>8 DEF EndRecord
  <2>3. Rest' = after
    <3>1. Rest' = <<>> \o after
      BY <2>1, <2>2 DEF Rest, Pending, GoOn, after
    <3>. QED
      BY ONLY <1>4, <3>1, Parts
  <2>4. quoted' = FALSE
    BY <2>1 DEF ParserTypeOK
  <2>5. ReadTo(Append(seen, RecordSep), Append(done, line), <<>>)'
    BY <1>1, <1>2, <1>4, <1>6, <2>1, <2>2, <2>3, <2>4, TokenRead
  <2>. QED
    BY <2>1, <2>2, <2>5, WentOn
<1>. QED
  BY <1>7, <1>8 DEF EndLine

\* The end of the last line is the end of the file.
LEMMA LastLineStep ==
  ASSUME ParserInv, phase = "finish", EndLine(<<>>)
  PROVE  ParserInv'
<1>1. Completing /\ ParserTypeOK /\ ~quoted
  BY DEF ParserInv, Completing
<1>2. PICK done \in Seq(Seq(Token)), line \in Seq(Token) :
        Lines(file) = Append(done, line) /\ Reading(done, line) /\ Loaded(done, line)
  BY <1>1 DEF Completing
<1>3. /\ Lines(file) \in Seq(Seq(Token)) /\ Len(Lines(file)) = Len(done) + 1 /\ Len(done) \in Nat
      /\ \A l \in 1 .. Len(done) : Lines(file)[l] = done[l]
      /\ Lines(file)[Len(done) + 1] = line
  BY <1>2, AppendProperties
<1>4. CASE (Inconsistent /\ GiveUp("threw")) \/ FieldFails
  <2>1. Lines(file) \in Seq(Seq(AnyToken)) /\ Len(Lines(file)) >= Len(done) + 1
    BY <1>3, LinesAreAny
  <2>. QED
    BY <1>2, <1>3, <1>4, <2>1, LineFailed
<1>5. CASE EndRecord(<<>>)
  <2>1. /\ Reading(Append(done, line), <<>>)' /\ Loaded(Append(done, line), <<>>)'
        /\ ParserTypeOK'
    BY <1>1, <1>2, <1>5, LineEnded
  <2>2. buffer' = <<>> /\ phase' = "parsed" /\ UNCHANGED <<file, header, unread>>
    BY <1>5 DEF EndRecord, GoOn
  <2>3. Len(Lines(file)) > 0
    BY <1>3
  <2>4. AllRead'
    BY <1>1, <1>2, <1>3, <2>1, <2>2, <2>3 DEF AllRead, Completing
  <2>. QED
    BY <2>1, <2>2, <2>4 DEF ParserInv, NoTable
<1>. QED
  BY <1>4, <1>5 DEF EndLine

LEMMA NewlineStep ==
  ASSUME ParserInv, Newline
  PROVE  ParserInv'
<1>. DEFINE more == Tail(buffer) \o unread
            rest == IF Head(buffer) = CR /\ buffer[2] = LF THEN Tail(Tail(buffer)) ELSE Tail(buffer)
<1>1. InLoop /\ Head(buffer) \in {CR, LF} /\ ~quoted /\ buffer # <<CR>> /\ EndLine(rest)
  BY DEF Newline
<1>2. /\ phase = "finish" => buffer = <<LF>>
      /\ Rest = <<Head(buffer)>> \o more /\ Tail(buffer) \in Seq(Char) /\ more \in Seq(Char)
      /\ Tail(buffer) # <<>> =>
           /\ Tail(Tail(buffer)) \in Seq(Char) /\ Following(more) = buffer[2]
           /\ Tail(more) = Tail(Tail(buffer)) \o unread
      /\ Tail(buffer) = <<>> => buffer = <<Head(buffer)>>
  BY <1>1, LoopAt
<1>3. CASE phase = "finish"
  <2>1. Head(<<LF>>) = LF /\ Tail(<<LF>>) = <<>> /\ LF # CR
    BY DEF LF, CR
  <2>2. rest = <<>>
    BY <1>2, <1>3, <2>1
  <2>. QED
    BY <1>1, <1>3, <2>2, LastLineStep
<1>4. CASE phase = "execute"
  <2>1. Head(buffer) = CR => Tail(buffer) # <<>>
    BY <1>1, <1>2
  <2>2. rest \in Seq(Char) /\ rest \o unread = BehindLine(Head(buffer), more)
    <3>1. CASE Head(buffer) = CR
      <4>1. Tail(buffer) # <<>> /\ Following(more) = buffer[2] /\ Tail(more) = Tail(Tail(buffer)) \o unread
            /\ Tail(Tail(buffer)) \in Seq(Char)
        BY <1>2, <2>1, <3>1
      <4>2. CASE buffer[2] = LF
        <5>1. rest = Tail(Tail(buffer))
          BY ONLY <3>1, <4>2
        <5>2. BehindLine(Head(buffer), more) = Tail(more)
          BY ONLY <3>1, <4>1, <4>2 DEF BehindLine
        <5>. QED
          BY ONLY <4>1, <5>1, <5>2
      <4>3. CASE buffer[2] # LF
        <5>1. rest = Tail(buffer)
          BY ONLY <4>3
        <5>2. BehindLine(Head(buffer), more) = more
          BY ONLY <4>1, <4>3 DEF BehindLine
        <5>. QED
          BY ONLY <1>2, <5>1, <5>2
      <4>. QED
        BY ONLY <4>2, <4>3
    <3>2. CASE Head(buffer) # CR
      BY <1>2, <3>2 DEF BehindLine
    <3>. QED
      BY <3>1, <3>2
  <2>. HIDE DEF rest, more
  <2>. QED
    BY <1>1, <1>2, <1>4, <2>2, EndLineStep
<1>. QED
  BY <1>1, <1>3, <1>4 DEF InLoop

LEMMA ResumeNewlineStep ==
  ASSUME ParserInv, ResumeNewline
  PROVE  ParserInv'
<1>. DEFINE more == buffer \o unread
            rest == IF buffer # <<>> /\ Head(buffer) = LF THEN Tail(buffer) ELSE buffer
<1>1. phase \in {"execute", "finish"} /\ newlining /\ EndLine(rest)
  BY DEF ResumeNewline
<1>2. ~quoted /\ ~escaping /\ buffer \in Seq(Char) /\ unread \in Seq(Char)
  BY <1>1 DEF ParserInv, ParserTypeOK
<1>3. CASE phase = "finish"
  <2>1. buffer = <<>>
    BY <1>1, <1>3 DEF ParserInv, Completing
  <2>2. rest = <<>>
    BY <2>1
  <2>. QED
    BY <1>1, <1>3, <2>2, LastLineStep
<1>4. CASE phase = "execute"
  <2>1. buffer # <<>>
    BY <1>4, ExecuteAt
  <2>2. /\ more \in Seq(Char) /\ Following(more) = Head(buffer) /\ Tail(more) = Tail(buffer) \o unread
        /\ Tail(buffer) \in Seq(Char)
    BY <1>2, <2>1, Parts DEF Following
  <2>3. Rest = <<CR>> \o more
    BY <1>1, <1>2 DEF Rest, Pending
  <2>4. rest \in Seq(Char) /\ rest \o unread = BehindLine(CR, more)
    <3>1. CASE Head(buffer) = LF
      <4>. HIDE DEF more
      <4>. QED
        BY <2>1, <2>2, <3>1 DEF BehindLine
    <3>2. CASE Head(buffer) # LF
      <4>1. BehindLine(CR, more) = more
        BY ONLY <2>2, <3>2 DEF BehindLine
      <4>. QED
        BY <1>2, <3>2, <4>1
    <3>. QED
      BY <3>1, <3>2
  <2>. HIDE DEF rest, more
  <2>. QED
    BY <1>1, <1>2, <1>4, <2>2, <2>3, <2>4, EndLineStep
<1>. QED
  BY <1>1, <1>3, <1>4

\* The last line is not one when nothing of it was read.
LEMMA LastLines ==
  ASSUME NEW text, NEW done \in Seq(Seq(Token)), NEW line \in Seq(Token),
         Pieces(Tokens(text), RecordSep, {}) = Append(done, line)
  PROVE  Lines(text) = IF Len(done) > 0 /\ line = <<>> THEN done ELSE Append(done, line)
<1>. DEFINE p == Append(done, line)
<1>1. /\ p \in Seq(Seq(Token)) /\ Len(p) = Len(done) + 1 /\ p[Len(done) + 1] = line /\ Len(done) \in Nat
      /\ \A l \in 1 .. Len(done) : p[l] = done[l]
  BY AppendProperties
<1>2. Lines(text) = IF Len(p) > 1 /\ p[Len(p)] = <<>> THEN SubSeq(p, 1, Len(p) - 1) ELSE p
  BY DEF Lines
<1>. HIDE DEF p
<1>3. /\ Len(p) > 1 <=> Len(done) > 0
      /\ p[Len(p)] = line /\ Len(p) - 1 = Len(done)
  BY ONLY <1>1
<1>4. SubSeq(p, 1, Len(done)) = done
  <2>1. /\ SubSeq(p, 1, Len(done)) \in Seq(Seq(Token)) /\ Len(SubSeq(p, 1, Len(done))) = Len(done)
        /\ \A l \in 1 .. Len(done) : SubSeq(p, 1, Len(done))[l] = p[l]
    BY ONLY <1>1
  <2>. DEFINE q == SubSeq(p, 1, Len(done))
  <2>. HIDE DEF q
  <2>2. q \in Seq(Seq(Token)) /\ Len(q) = Len(done) /\ \A l \in 1 .. Len(q) : q[l] = done[l]
    BY ONLY <1>1, <2>1 DEF q
  <2>3. q = done
    BY ONLY <2>2, SeqEqual, done \in Seq(Seq(Token))
  <2>. QED
    BY ONLY <2>3 DEF q
<1>. QED
  BY ONLY <1>2, <1>3, <1>4 DEF p

\* A quote that nothing closes.
LEMMA LeftOpen ==
  ASSUME NEW s \in Seq(Token), Tokens(file) = s \o <<Unclosed>>
  PROVE  ~WellFormed(file, header)
<1>1. Tokens(file) = Append(s, Unclosed)
  OBVIOUS
<1>2. Len(s) + 1 \in DOMAIN Append(s, Unclosed) /\ Append(s, Unclosed)[Len(s) + 1] = Unclosed
  OBVIOUS
<1>. QED
  BY <1>1, <1>2 DEF WellFormed

LEMMA FinishStep ==
  ASSUME ParserInv, Finish
  PROVE  ParserInv'
<1>1. /\ phase = "read" /\ unread = <<>> /\ buffer = <<>> /\ ParserTypeOK /\ file \in Seq(Char)
      /\ quoted \in BOOLEAN /\ header \in BOOLEAN
  BY DEF Finish, ParserInv, ParserTypeOK
<1>2. PICK seen, done, line : ReadTo(seen, done, line)
  BY <1>1 DEF ParserInv
<1>3. /\ seen \in Seq(Token) /\ done \in Seq(Seq(Token)) /\ line \in Seq(Token)
      /\ Pieces(seen, RecordSep, {}) = Append(done, line)
      /\ Tokens(file) = seen \o Ahead(file, Rest, quoted) /\ IsSuffix(file, Rest)
      /\ Reading(done, line) /\ Loaded(done, line)
  BY <1>2 DEF ReadTo
<1>4. <<>> \in Seq(Char)
  OBVIOUS
<1>5. Rest = Pending
  <2>1. Rest = Pending \o (<<>> \o <<>>)
    BY ONLY <1>1 DEF Rest
  <2>2. Pending \in Seq(Char)
    <3>1. Escape \in Char /\ CR \in Char
      BY DEF Char
    <3>2. <<Escape>> \in Seq(Char) /\ <<CR>> \in Seq(Char) /\ <<>> \in Seq(Char)
      BY ONLY <3>1, Prefixed, <1>4
    <3>. QED
      BY ONLY <3>2 DEF Pending
  <2>. QED
    BY ONLY <1>4, <2>1, <2>2, Parts
<1>6. CASE quoted
  <2>1. GiveUp("threw")
    BY <1>6 DEF Finish
  <2>2. Ahead(file, <<>>, TRUE) = <<Unclosed>>
    BY <1>1, NothingAhead
  <2>3. \E s \in Seq(Token) : Tokens(file) = s \o <<Unclosed>>
    <3>1. CASE escaping
      <4>1. Rest = <<Escape>> \o <<>>
        <5>1. Rest = <<Escape>> /\ <<Escape>> \o <<>> = <<Escape>>
          BY <1>5, <3>1 DEF Pending
        <5>. QED
          BY ONLY <5>1
      <4>2. Escape \in Char /\ Escape # Quote /\ Following(<<>>) \notin {Quote, Escape} /\ Escape \in Token
        BY MarksAreNoCharacters DEF Char, Escape, Quote, Following
      <4>3. Ahead(file, <<Escape>> \o <<>>, TRUE) = <<Escape>> \o Ahead(file, <<>>, TRUE)
        BY <1>1, <1>3, <1>4, <4>1, <4>2, CharacterAhead
      <4>4. Tokens(file) = seen \o (<<Escape>> \o <<Unclosed>>)
        BY <1>1, <1>3, <1>6, <2>2, <4>1, <4>3
      <4>5. Escape \in AnyToken /\ seen \in Seq(AnyToken) /\ <<Unclosed>> \in Seq(AnyToken)
        BY <1>3, <4>2, TokensAreAny DEF AnyToken
      <4>6. Tokens(file) = Append(seen, Escape) \o <<Unclosed>>
        BY ONLY <4>4, <4>5, Appended
      <4>7. Append(seen, Escape) \in Seq(Token)
        BY ONLY <1>3, <4>2, AppendedIsNotEmpty
      <4>. QED
        BY ONLY <4>6, <4>7
    <3>2. CASE ~escaping
      <4>1. Rest = <<>>
        BY <1>1, <1>5, <1>6, <3>2 DEF Pending, ParserTypeOK
      <4>. QED
        BY <1>1, <1>3, <1>6, <2>2, <4>1
    <3>. QED
      BY <3>1, <3>2
  <2>4. ~WellFormed(file, header)
    BY <2>3, LeftOpen
  <2>. QED
    BY <2>1, <2>4, GaveUp
<1>7. CASE ~quoted
  <2>1. /\ phase' = IF NothingLeft THEN "parsed" ELSE "finish"
        /\ buffer' = IF NothingLeft \/ newlining THEN <<>> ELSE <<LF>>
        /\ UNCHANGED <<file, header, unread, parser, records>>
    BY <1>7 DEF Finish
  <2>2. Ahead(file, <<>>, FALSE) = <<>> /\ ~escaping /\ quoted = FALSE
    BY <1>1, <1>7, NothingAhead DEF ParserTypeOK
  <2>3. ParserTypeOK'
    BY <1>1, <2>1 DEF ParserTypeOK, parser
  <2>4. buffer' \in Seq(Char)
    <3>1. LF \in Char
      BY DEF Char
    <3>2. <<LF>> \in Seq(Char)
      BY ONLY <1>4, <3>1, Prefixed
    <3>. QED
      BY ONLY <1>4, <2>1, <3>2
  <2>5. Reading(done, line)' /\ Loaded(done, line)'
    <3>1. Reading(done, line)'
      BY <1>3, <2>1 DEF Reading, parser
    <3>2. Loaded(done, line)'
      BY <1>1, <1>3, <2>1, SameFieldsLoaded DEF parser, records, ParserTypeOK
    <3>. QED
      BY <3>1, <3>2
  <2>6. CASE newlining
    <3>1. Rest = <<CR>> \o <<>>
      <4>1. Rest = <<CR>> /\ <<CR>> \o <<>> = <<CR>>
        BY <1>5, <2>2, <2>6 DEF Pending
      <4>. QED
        BY ONLY <4>1
    <3>2. CR \in {CR, LF} /\ BehindLine(CR, <<>>) = <<>>
      BY DEF BehindLine, Following, LF
    <3>3. Ahead(file, <<CR>> \o <<>>, FALSE) = <<RecordSep>> \o Ahead(file, BehindLine(CR, <<>>), FALSE)
      BY <1>1, <1>3, <1>4, <3>1, <3>2, LineEndAhead
    <3>4. Tokens(file) = seen \o (<<RecordSep>> \o <<>>)
      BY <1>1, <1>3, <2>2, <3>1, <3>2, <3>3
    <3>5. RecordSep \in Token /\ <<>> \in Seq(Token)
      BY MarksAreNoCharacters
    <3>6. Append(seen, RecordSep) \in Seq(Token)
      BY ONLY <1>3, <3>5, AppendedIsNotEmpty
    <3>7. Tokens(file) = Append(seen, RecordSep)
      <4>1. seen \o (<<RecordSep>> \o <<>>) = Append(seen, RecordSep) \o <<>>
        BY ONLY <1>3, <3>5, Appended
      <4>2. Append(seen, RecordSep) \o <<>> = Append(seen, RecordSep)
        BY ONLY <3>5, <3>6, Parts
      <4>. QED
        BY ONLY <3>4, <4>1, <4>2
    <3>8. Pieces(Tokens(file), RecordSep, {}) = Append(Append(done, line), <<>>)
      <4>1. Pieces(Append(seen, RecordSep), RecordSep, {}) = Append(Append(done, line), <<>>)
        BY ONLY <1>3, <3>5, LinesNext
      <4>. QED
        BY ONLY <3>7, <4>1
    <3>9. Append(done, line) \in Seq(Seq(Token)) /\ Len(Append(done, line)) > 0
      BY <1>3
    <3>10. Lines(file) = Append(done, line)
      BY ONLY <3>5, <3>8, <3>9, LastLines
    <3>11. phase' = "finish" /\ buffer' = <<>> /\ newlining' /\ ~quoted' /\ unread' = <<>>
      BY <1>1, <1>7, <2>1, <2>6 DEF NothingLeft, parser
    <3>12. Completing'
      BY <1>3, <2>1, <2>5, <3>6, <3>7, <3>10, <3>11 DEF Completing
    <3>. QED
      BY <1>1, <2>1, <2>3, <2>4, <3>11, <3>12 DEF ParserInv, NoTable
  <2>7. CASE ~newlining
    <3>1. Tokens(file) = seen
      <4>1. Rest = <<>>
        BY <1>5, <2>2, <2>7 DEF Pending
      <4>2. Tokens(file) = seen \o <<>>
        BY <1>3, <2>2, <4>1
      <4>. QED
        BY ONLY <1>3, <4>2, ConcatEmptySeq
    <3>2. Lines(file) = IF Len(done) > 0 /\ line = <<>> THEN done ELSE Append(done, line)
      BY <1>3, <3>1, LastLines
    <3>3. CASE after_record_sep
      <4>1. Len(done) > 0 /\ line = <<>> /\ Lines(file) = done
        BY <1>3, <3>2, <3>3 DEF Reading
      <4>2. phase' = "parsed" /\ buffer' = <<>>
        BY <2>1, <2>7, <3>3 DEF NothingLeft
      <4>3. AllRead'
        BY <1>3, <2>1, <2>5, <3>1, <4>1 DEF AllRead
      <4>. QED
        BY <1>1, <2>1, <2>3, <2>4, <4>2, <4>3 DEF ParserInv, NoTable
    <3>4. CASE ~after_record_sep
      <4>1. Lines(file) = Append(done, line)
        BY <1>3, <3>2, <3>4 DEF Reading
      <4>2. phase' = "finish" /\ buffer' = <<LF>> /\ ~newlining' /\ ~quoted' /\ unread' = <<>>
        BY <1>1, <1>7, <2>1, <2>7, <3>4 DEF NothingLeft, parser
      <4>3. Completing'
        BY <1>3, <2>1, <2>5, <3>1, <4>1, <4>2 DEF Completing
      <4>. QED
        BY <1>1, <2>1, <2>3, <2>4, <4>2, <4>3 DEF ParserInv, NoTable
    <3>. QED
      BY <3>3, <3>4
  <2>. QED
    BY <2>6, <2>7
<1>. QED
  BY <1>6, <1>7

-----------------------------------------------------------------------------
(* Loading.                                                                *)

\* Every step of the parser keeps its invariant; so does none.
LEMMA ParserStep ==
  ASSUME ParserInv, ParserNext
  PROVE  ParserInv'
<1>1. CASE Read
  BY <1>1, ReadStep
<1>2. CASE ResumeEscape
  BY <1>2, ResumeEscapeStep
<1>3. CASE ResumeNewline
  BY <1>3, ResumeNewlineStep
<1>4. CASE TakeChar
  BY <1>4, TakeCharStep
<1>5. CASE EndField
  BY <1>5, EndFieldStep
<1>6. CASE HalfNewline \/ HalfEscape
  BY <1>6, HalfStep
<1>7. CASE Newline
  BY <1>7, NewlineStep
<1>8. CASE ToggleQuote
  BY <1>8, ToggleQuoteStep
<1>9. CASE TakeEscaped
  BY <1>9, TakeEscapedStep
<1>10. CASE Finish
  BY <1>10, FinishStep
<1>. QED
  BY <1>1, <1>2, <1>3, <1>4, <1>5, <1>6, <1>7, <1>8, <1>9, <1>10 DEF ParserNext

LEMMA ParserStays ==
  ASSUME ParserInv, UNCHANGED parserVars
  PROVE  ParserInv'
<1>1. UNCHANGED <<file, header, unread, buffer, phase, current_field, col_idx, row_idx, num_cols,
                  after_first_row, quoted, after_record_sep, escaping, newlining, last_record, full_table>>
  BY DEF parserVars, parser, records
<1>2. ParserTypeOK'
  BY <1>1 DEF ParserInv, ParserTypeOK
<1>3. ASSUME NEW done, NEW line, Reading(done, line), Loaded(done, line)
      PROVE  Reading(done, line)' /\ Loaded(done, line)'
  <2>1. Reading(done, line)'
    BY <1>1, <1>3 DEF Reading
  <2>2. Loaded(done, line)'
    BY <1>1, <1>3, SameFieldsLoaded DEF ParserInv, ParserTypeOK
  <2>. QED
    BY <2>1, <2>2
<1>4. ASSUME NEW seen, NEW done, NEW line, ReadTo(seen, done, line)
      PROVE  ReadTo(seen, done, line)'
  <2>1. Reading(done, line)' /\ Loaded(done, line)'
    BY <1>3, <1>4 DEF ReadTo
  <2>. QED
    BY <1>1, <1>4, <2>1 DEF ReadTo, Rest, Pending
<1>5. phase' \in {"read", "execute"} => \E seen, done, line : ReadTo(seen, done, line)'
  BY <1>1, <1>4 DEF ParserInv
<1>6. phase' = "finish" => Completing'
  BY <1>1, <1>3 DEF ParserInv, Completing
<1>7. phase' = "parsed" => AllRead'
  <2>. SUFFICES ASSUME AllRead PROVE AllRead'
    BY <1>1 DEF ParserInv
  <2>. DEFINE lines == Lines(file)
  <2>1. PICK done : done = lines
    OBVIOUS
  <2>2. Reading(done, <<>>)' /\ Loaded(done, <<>>)'
    BY <1>3, <2>1 DEF AllRead
  <2>. QED
    BY <1>1, <2>1, <2>2 DEF AllRead
<1>8. NoTable'
  BY <1>1 DEF ParserInv, NoTable
<1>. QED
  BY <1>1, <1>2, <1>5, <1>6, <1>7, <1>8 DEF ParserInv

\* Nothing has been read.
LEMMA AtTheBeginning ==
  ASSUME ParserReset, phase' = "read", file \in Seq(Char), header \in BOOLEAN, UNCHANGED <<file, header>>
  PROVE  ParserInv'
<1>1. /\ unread' = file /\ buffer' = <<>> /\ current_field' = <<>>
      /\ col_idx' = 0 /\ row_idx' = 0 /\ num_cols' = 0
      /\ after_first_row' = FALSE /\ quoted' = FALSE /\ after_record_sep' = FALSE
      /\ escaping' = FALSE /\ newlining' = FALSE
      /\ last_record' = <<>> /\ full_table' = <<>>
  BY DEF ParserReset
<1>2. <<>> \in Seq(Char) /\ <<>> \in Seq(Token) /\ <<>> \in Seq(Seq(Token)) /\ Len(<<>>) = 0
      /\ Append(<<>>, <<>>) = <<<<>>>>
  OBVIOUS
<1>3. Rest' = file
  <2>1. Rest' = <<>> \o (<<>> \o file)
    BY <1>1 DEF Rest, Pending
  <2>. QED
    BY <2>1, Parts
<1>4. IsSuffix(file, file)
  BY DEF IsSuffix
<1>5. Tokens(file) = <<>> \o Ahead(file, file, FALSE)
  <2>1. Tokens(file) = Ahead(file, file, FALSE)
    BY DEF Tokens, Ahead
  <2>2. Ahead(file, file, FALSE) \in Seq(AnyToken)
    BY <1>4, AheadTyped
  <2>. QED
    BY ONLY <2>1, <2>2, Parts
<1>6. Reading(<<>>, <<>>)'
  <2>1. Len(Fields(<<>>)) = 0 + 1 /\ Fields(<<>>)[0 + 1] = <<>>
    BY FieldsOfNothing
  <2>. QED
    BY <1>1, <1>2, <2>1 DEF Reading
<1>7. Loaded(<<>>, <<>>)'
  <2>1. RowsDone' = 0
    <3>1. InHeader' = (header' /\ row_idx' = 0)
      BY DEF InHeader
    <3>2. Skipped' = IF header' THEN 1 ELSE 0
      BY DEF Skipped
    <3>3. RowsDone' = IF InHeader' THEN 0 ELSE row_idx' - Skipped'
      BY DEF RowsDone
    <3>4. CASE header'
      BY <1>1, <3>1, <3>3, <3>4
    <3>5. CASE ~header'
      <4>1. Skipped' = 0 /\ ~InHeader'
        BY ONLY <3>1, <3>2, <3>5
      <4>2. RowsDone' = row_idx' - 0
        BY ONLY <3>3, <4>1
      <4>. QED
        BY ONLY <1>1, <4>2
    <3>. QED
      BY <3>4, <3>5
  <2>. QED
    BY <1>1, <2>1 DEF Loaded, FieldsConvertible
<1>8. Pieces(<<>>, RecordSep, {}) = Append(<<>>, <<>>)
  BY ONLY <1>2, NoPieces
<1>9. ReadTo(<<>>, <<>>, <<>>)'
  BY <1>1, <1>2, <1>3, <1>4, <1>5, <1>6, <1>7, <1>8 DEF ReadTo
<1>10. ParserTypeOK'
  BY <1>1, <1>2 DEF ParserTypeOK
<1>. QED
  BY <1>1, <1>2, <1>9, <1>10 DEF ParserInv, NoTable

\* An idle parser keeps only the file.
LEMMA IdleParser ==
  ASSUME ParserInv, phase' = "idle", UNCHANGED <<file, header, unread, buffer, parser, records>>
  PROVE  ParserInv'
<1>1. ParserTypeOK'
  BY DEF ParserInv, ParserTypeOK, parser
<1>. QED
  BY <1>1 DEF ParserInv, NoTable

\* What has been loaded are the rows of the file.
LEMMA LoadedRows ==
  ASSUME ParserInv, phase = "parsed"
  PROVE  /\ num_cols = NumColumns(file)
         /\ num_cols = Len(Attributes) =>
              WellFormed(file, header) /\ full_table = RowsOfFile(file, header)
BY AllLoaded, FilesAssumption DEF ParserInv, AllRead

\* The caches hold what the file means, if it means a table.
Fits == NumColumns(file) = Len(Attributes)

CachesAgree ==
  /\ table_cache # Absent /\ Fits =>
       WellFormed(file, header) /\ table_cache = RowsOfFile(file, header)
  /\ result_cache # Absent /\ Fits =>
       WellFormed(file, header) /\ result_cache = Filtered(NoFilter, RowsOfFile(file, header))

\* The inductive invariant of the loads.
LoadInv ==
  /\ ParserInv
  /\ filter \in Filters \union {Absent}
  /\ phase # "idle" => filter # Absent
  /\ calls \in 0 .. MaxCalls
  /\ CachesAgree
  /\ AnswersAgree

LEMMA LoadInvHolds ==
  LoadInv => LoadTypeOK /\ LoadsFile /\ AnswersAgree
<1>. SUFFICES ASSUME LoadInv PROVE LoadTypeOK /\ LoadsFile
  BY DEF LoadInv
<1>1. LoadTypeOK
  BY DEF LoadInv, LoadTypeOK, ParserInv
<1>2. LoadsFile
  <2>1. phase = "parsed" /\ num_cols = Len(Attributes) =>
          WellFormed(file, header) /\ full_table = RowsOfFile(file, header)
    BY LoadedRows DEF LoadInv
  <2>. QED
    BY <2>1 DEF LoadInv, ParserInv, NoTable, LoadsFile
<1>. QED
  BY <1>1, <1>2

LEMMA LoadInit_Inv ==
  LoadInit => LoadInv
<1>. SUFFICES ASSUME LoadInit PROVE LoadInv
  OBVIOUS
<1>1. PICK f \in Files, h \in BOOLEAN : ParserInit(f, h)
  BY DEF LoadInit
<1>2. f \in Seq(Char) /\ <<>> \in Seq(Char) /\ MaxCalls \in Nat
  BY FilesAssumption
<1>3. phase = "idle" /\ filter = Absent /\ table_cache = Absent /\ result_cache = Absent
      /\ returned = Absent /\ calls = 0
  BY DEF LoadInit
<1>4. ParserTypeOK
  BY <1>1, <1>2, <1>3 DEF ParserInit, ParserTypeOK
<1>5. ParserInv
  BY <1>1, <1>2, <1>3, <1>4 DEF ParserInit, ParserInv, NoTable
<1>. QED
  BY <1>2, <1>3, <1>5 DEF LoadInv, CachesAgree, AnswersAgree

\* A call, an exception or a cached answer leaves the caches with what the file means.
LEMMA LoadStep ==
  ASSUME LoadInv, [LoadNext]_loadVars
  PROVE  LoadInv'
<1>. USE DEF LoadInv
<1>1. ASSUME NEW f \in Filters, Call(f) PROVE LoadInv'
  <2>1. /\ filter = Absent /\ calls < MaxCalls /\ calls' = calls + 1 /\ filter' = f
        /\ returned' = Absent /\ UNCHANGED <<parserVars, table_cache, result_cache>>
    BY <1>1 DEF Call
  <2>2. ParserInv'
    BY <2>1, ParserStays
  <2>3. phase' = "idle" /\ file' = file /\ header' = header
    BY <2>1 DEF parserVars
  <2>4. calls' \in 0 .. MaxCalls
    BY <2>1, FilesAssumption
  <2>5. CachesAgree'
    BY <2>1, <2>3 DEF CachesAgree, Fits
  <2>6. AnswersAgree'
    BY <2>1 DEF AnswersAgree
  <2>. QED
    BY <2>1, <2>2, <2>3, <2>4, <2>5, <2>6
<1>2. CASE HitResult
  <2>1. /\ filter = NoFilter /\ phase = "idle" /\ result_cache # Absent
        /\ returned' = [filter |-> filter, rows |-> result_cache] /\ filter' = Absent
        /\ UNCHANGED <<parserVars, table_cache, result_cache, calls>>
    BY <1>2 DEF HitResult, Return
  <2>2. ParserInv'
    BY <2>1, ParserStays
  <2>3. phase' = "idle" /\ file' = file /\ header' = header
    BY <2>1 DEF parserVars
  <2>4. CachesAgree'
    BY <2>1, <2>3 DEF CachesAgree, Fits
  <2>5. AnswersAgree'
    BY <2>1, <2>3 DEF AnswersAgree, CachesAgree, Fits
  <2>. QED
    BY <2>1, <2>2, <2>3, <2>4, <2>5
<1>3. CASE Miss
  <2>1. /\ filter # Absent /\ ParserReset /\ phase' = "read"
        /\ UNCHANGED <<file, header, filter, table_cache, result_cache, returned, calls>>
    BY <1>3 DEF Miss, InNoCache
  <2>2. ParserInv'
    BY <2>1, AtTheBeginning DEF ParserInv
  <2>3. CachesAgree' /\ AnswersAgree'
    BY <2>1 DEF CachesAgree, AnswersAgree, Fits
  <2>. QED
    BY <2>1, <2>2, <2>3
<1>4. CASE Parse
  <2>1. ParserNext /\ UNCHANGED <<filter, table_cache, result_cache, returned, calls>>
    BY <1>4 DEF Parse
  <2>2. ParserInv'
    BY <2>1, ParserStep
  <2>3. phase # "idle" /\ file' = file /\ header' = header
    BY <2>1 DEF ParserNext, Read, ResumeEscape, ResumeNewline, TakeChar, EndField, HalfNewline, Newline,
                ToggleQuote, HalfEscape, TakeEscaped, Finish, InLoop, EndLine, EndRecord, FieldFails, GiveUp
  <2>4. CachesAgree' /\ AnswersAgree'
    BY <2>1, <2>3 DEF CachesAgree, AnswersAgree, Fits
  <2>. QED
    BY <2>1, <2>2, <2>3, <2>4
<1>5. CASE Cache
  <2>1. /\ phase = "parsed" /\ phase' = "idle" /\ table_cache' = full_table
        /\ UNCHANGED <<file, header, unread, buffer, parser, records, filter, result_cache, returned, calls>>
    BY <1>5 DEF Cache
  <2>2. ParserInv'
    BY <2>1, IdleParser
  <2>3. Fits => WellFormed(file, header) /\ full_table = RowsOfFile(file, header)
    BY <2>1, LoadedRows DEF Fits
  <2>4. CachesAgree' /\ AnswersAgree'
    BY <2>1, <2>3 DEF CachesAgree, AnswersAgree, Fits
  <2>. QED
    BY <2>1, <2>2, <2>4
<1>6. CASE Answer
  <2>1. /\ phase = "idle" /\ table_cache # Absent
        /\ returned' = [filter |-> filter, rows |-> Filtered(filter, table_cache)] /\ filter' = Absent
        /\ result_cache' = IF filter = NoFilter THEN Filtered(filter, table_cache) ELSE result_cache
        /\ UNCHANGED <<parserVars, table_cache, calls>>
    BY <1>6 DEF Answer, Return
  <2>2. ParserInv'
    BY <2>1, ParserStays
  <2>3. phase' = "idle" /\ file' = file /\ header' = header
    BY <2>1 DEF parserVars
  <2>4. Fits => WellFormed(file, header) /\ table_cache = RowsOfFile(file, header)
    BY <2>1 DEF CachesAgree
  <2>5. CachesAgree'
    BY <2>1, <2>3, <2>4 DEF CachesAgree, Fits
  <2>6. AnswersAgree'
    BY <2>1, <2>3, <2>4 DEF AnswersAgree, Fits
  <2>. QED
    BY <2>1, <2>2, <2>3, <2>5, <2>6
<1>7. CASE Throw
  <2>1. /\ phase' = "idle" /\ filter' = Absent
        /\ UNCHANGED <<file, header, unread, buffer, parser, records, table_cache, result_cache,
                       returned, calls>>
    BY <1>7 DEF Throw
  <2>2. ParserInv'
    BY <2>1, IdleParser
  <2>3. CachesAgree' /\ AnswersAgree'
    BY <2>1 DEF CachesAgree, AnswersAgree, Fits
  <2>. QED
    BY <2>1, <2>2, <2>3
<1>8. CASE UNCHANGED loadVars
  <2>1. UNCHANGED <<parserVars, filter, table_cache, result_cache, returned, calls>>
    BY <1>8 DEF loadVars
  <2>2. ParserInv'
    BY <2>1, ParserStays
  <2>3. phase' = phase /\ file' = file /\ header' = header
    BY <2>1 DEF parserVars
  <2>4. CachesAgree' /\ AnswersAgree'
    BY <2>1, <2>3 DEF CachesAgree, AnswersAgree, Fits
  <2>. QED
    BY <2>1, <2>2, <2>3, <2>4
<1>9. CASE OpenFails
  <2>1. /\ phase = "idle" /\ filter' = Absent
        /\ UNCHANGED <<parserVars, table_cache, result_cache, returned, calls>>
    BY <1>9 DEF OpenFails, InNoCache
  <2>2. ParserInv'
    BY <2>1, ParserStays
  <2>3. phase' = "idle" /\ file' = file /\ header' = header
    BY <2>1 DEF parserVars
  <2>4. CachesAgree' /\ AnswersAgree'
    BY <2>1, <2>3 DEF CachesAgree, AnswersAgree, Fits
  <2>. QED
    BY <2>1, <2>2, <2>3, <2>4
<1>. QED
  BY <1>1, <1>2, <1>3, <1>4, <1>5, <1>6, <1>7, <1>8, <1>9 DEF LoadNext

\* from_csv, for any file, schema and filters, wherever execute() is handed the file's
\* buffers: the parser's place in the file, the rows made so far, the table cache and the
\* result cache stay those of one parse of the whole file.
THEOREM LoadingInvariant == LoadSpec => []LoadInv
<1>1. LoadInv /\ [LoadNext]_loadVars => LoadInv'
  BY LoadStep
<1>. QED
  BY <1>1, LoadInit_Inv, PTL DEF LoadSpec

\* csv_parser.cpp, build_table.cpp: a load's state is well typed, whatever the files,
\* filters and attributes.
THEOREM LoadTypesHold == LoadSpec => []LoadTypeOK
BY LoadingInvariant, LoadInvHolds, PTL

\* CSVParser::execute and finish: wherever a file is cut into buffers, an accepted file has
\* given exactly the rows it means, and a file of the table's width is refused only if a
\* line or a value of it is malformed.
THEOREM FilesAreLoaded == LoadSpec => []LoadsFile
BY LoadingInvariant, LoadInvHolds, PTL

\* Table::from_csv: whatever calls came before, failed ones and ones with another filter
\* included, an answer is the rows of the file that its filter keeps.
THEOREM CachedAnswersAgree == LoadSpec => []AnswersAgree
BY LoadingInvariant, LoadInvHolds, PTL
=============================================================================
