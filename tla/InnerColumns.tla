---------------------------- MODULE InnerColumns ----------------------------
(* The columns a CSV file is parsed into (inner_column.h) and the statements *)
(* that filter them (statement.h).  Bitmaps are sequences of bytes, a byte   *)
(* the set of its bits, ByteBits of them.                                    *)
EXTENDS Integers, Sequences

CONSTANTS
  ByteBits,        \* bits of a byte: 8
  Int32Bits,       \* bits of an INT32
  Null,
  Like(_, _)       \* like_match(string, pattern)

ASSUME ByteAssumption == ByteBits \in Nat \ {0}

Bit == 0 .. ByteBits - 1
ByteOf(row) == row \div ByteBits
BitOf(row) == row % ByteBits
BytesFor(rows) == (rows + ByteBits - 1) \div ByteBits

\* The low bits of a number, as an INT32.
AsInt32(n) == ((n + 2 ^ (Int32Bits - 1)) % 2 ^ Int32Bits) - 2 ^ (Int32Bits - 1)

\* A bit of a byte is set or cleared.
SetBit(bitmap, row, on) ==
  [bitmap EXCEPT ![ByteOf(row) + 1] = IF on THEN @ \union {BitOf(row)} ELSE @ \ {BitOf(row)}]

FirstBit(not_null) == IF not_null THEN {0} ELSE {}

\* Of a column of numbers, which has `size' of them already with this one.
bitmap_push_back(bitmap, size, not_null) ==
  IF BytesFor(size) > Len(bitmap) THEN Append(bitmap, FirstBit(not_null))
  ELSE SetBit(bitmap, size - 1, not_null)

\* Of a column of strings, which has `row' of them without this one.
string_bitmap_push_back(bitmap, row, not_null) ==
  IF ByteOf(row) + 1 > Len(bitmap) THEN Append(bitmap, FirstBit(not_null))
  ELSE SetBit(bitmap, row, not_null)

\* What a NULL leaves in the data: data.emplace_back(), or no characters.  Strings
\* are numbered in their order; the first is the empty one.
Empty == 0
ASSUME NullAssumption == Null # Empty

\* The column of these values, pushed back one by one.
InnerColumn(type, values) ==
  LET bitmap[n \in 0 .. Len(values)] ==
        IF n = 0 THEN <<>>
        ELSE IF type = "INT32" THEN bitmap_push_back(bitmap[n - 1], n, values[n] # Null)
        ELSE string_bitmap_push_back(bitmap[n - 1], n - 1, values[n] # Null)
  IN  [type |-> type,
       data |-> [n \in DOMAIN values |-> IF values[n] = Null THEN Empty ELSE values[n]],
       bitmap |-> bitmap[Len(values)]]

is_not_null(column, row) == BitOf(row) \in column.bitmap[ByteOf(row) + 1]

\* Row r of a column as a Data.
Cell(column, row) == IF is_not_null(column, row) THEN column.data[row + 1] ELSE Null

-----------------------------------------------------------------------------
(* Statements are the nodes of a tree in postorder: the children of a node  *)
(* come before it and the root is the last.                                 *)

NullTests == {"IS_NULL", "IS_NOT_NULL"}
Orders == {"EQ", "NEQ", "LT", "GT", "LEQ", "GEQ"}
Likes == {"LIKE", "NOT_LIKE"}
Logical == {"AND", "OR", "NOT"}

Compare(op, lhs, rhs) ==
  CASE op = "EQ" -> lhs = rhs
    [] op = "NEQ" -> lhs # rhs
    [] op = "LT" -> lhs < rhs
    [] op = "GT" -> lhs > rhs
    [] op = "LEQ" -> lhs <= rhs
    [] op = "GEQ" -> lhs >= rhs

\* Comparison::eval of one record.
EvalComparison(node, cell) ==
  CASE node.op = "IS_NULL" -> cell = Null
    [] node.op = "IS_NOT_NULL" -> cell # Null
    [] node.op = "LIKE" -> cell # Null /\ Like(cell, node.value)
    [] node.op = "NOT_LIKE" -> cell # Null /\ ~Like(cell, node.value)
    [] OTHER -> cell # Null /\ Compare(node.op, cell, node.value)

\* eval of one record, node by node: AND and OR stop at the first child that decides.
EvalNodes(statement, columns, row) ==
  LET eval[n \in DOMAIN statement] ==
        LET node == statement[n]
        IN  CASE node.op = "AND" -> \A c \in node.children : eval[c]
              [] node.op = "OR" -> \E c \in node.children : eval[c]
              [] node.op = "NOT" -> \A c \in node.children : ~eval[c]
              [] OTHER -> EvalComparison(node, Cell(columns[node.column], row))
  IN  eval

EvalRecord(statement, columns, row) == EvalNodes(statement, columns, row)[Len(statement)]
=============================================================================
