------------------------------- MODULE Filter -------------------------------
(* What from_csv does with a parsed table: the statement is evaluated over   *)
(* whole columns into a bitmap of the rows, and the columns of the result    *)
(* are filled with the rows it has.  Every bitmap and every set of columns   *)
(* is the work of one run of the thread pool.                                *)
(*                                                                           *)
(* A comparison's `output[byte] |= ...' is a load and a store.               *)
EXTENDS InnerColumns, FilterPool

CONSTANTS
  Tables,       \* the columns of a table, each a type and its values
  Statements,   \* the filters, <<>> for none
  Nothing

Lists == INSTANCE Pages

\* A table has a column, and its columns have a value for every row.
ASSUME TableAssumption ==
  \A t \in Tables :
    /\ Len(t) \in Nat \ {0} /\ DOMAIN t = 1 .. Len(t)
    /\ Len(t[1].values) \in Nat
    /\ \A c \in DOMAIN t :
         /\ Len(t[c].values) = Len(t[1].values)
         /\ DOMAIN t[c].values = 1 .. Len(t[1].values)

\* A comparison is with a column of the table, and the literal an INT32 column is
\* compared with is an INT32.
ComparisonOf(cmp, t) ==
  /\ cmp.op \in NullTests \union Orders \union Likes
  /\ cmp.column \in DOMAIN t
  /\ cmp.op \in Orders /\ t[cmp.column].type = "INT32" => AsInt32(cmp.value) = cmp.value

\* AND and OR have two operands, NOT has one, and operands come first.
OperationAt(op, n) ==
  /\ op.op \in Logical
  /\ \E l, r \in 1 .. n - 1 : op.children = {l, r} /\ (op.op = "NOT" => l = r)

ASSUME StatementAssumption ==
  \A s \in Statements \ {<<>>} :
    /\ Len(s) \in Nat \ {0} /\ DOMAIN s = 1 .. Len(s)
    /\ \A n \in DOMAIN s :
         OperationAt(s[n], n) \/ \A t \in Tables : ComparisonOf(s[n], t)

VARIABLES
  columns,      \* the table's InnerColumns
  statement,    \* the filter
  bits,         \* the bitmap each node of the statement evaluated to, or Nothing
  node,         \* the node being evaluated, 0 between nodes
  stage,        \* "eval", "convert" or "done"
  output,       \* the bitmap a run writes
  at,           \* each thread's next row, byte or column of its shard
  loaded,       \* the byte a thread is about to add a bit to, or Nothing
  ret,          \* the columns of the result
  ret_rows      \* the atomic that every thread of the last run stores to

work == <<output, at, loaded>>
vars == <<pool, columns, statement, bits, node, stage, work, ret, ret_rows>>

NumRows == Len(columns[1].data)
NumBytes == BytesFor(NumRows)
Root == Len(statement)

Init ==
  /\ PoolInit
  /\ \E t \in Tables : columns = [c \in DOMAIN t |-> InnerColumn(t[c].type, t[c].values)]
  /\ statement \in Statements
  /\ bits = [n \in DOMAIN statement |-> Nothing]
  /\ node = 0
  /\ stage = "eval"
  /\ output = <<>>
  /\ at = [t \in Threads |-> 0]
  /\ loaded = [t \in Threads |-> Nothing]
  /\ ret = [c \in DOMAIN columns |-> <<>>]
  /\ ret_rows = 0

\* What a run does to each of its tasks.
Kind ==
  IF stage = "convert" THEN "column"
  ELSE IF statement[node].op \in Orders \union Likes THEN "rows" ELSE "byte"

\* The rows are shared out without regard to bytes.
Boundary_bug(t, kind, n) ==
  IF kind = "rows" THEN begin_idx(t, NumRows) ELSE begin_idx(t, n)

\* Where shard t begins: a comparison's tasks are bytes of eight rows.
Boundary(t, kind, n) ==
  IF kind = "rows"
    THEN IF begin_idx(t, n) * ByteBits < NumRows THEN begin_idx(t, n) * ByteBits ELSE NumRows
    ELSE begin_idx(t, n)

HasWork(t) == HasStarted(t) /\ at[t] < Boundary(t + 1, Kind, tasks)
AllEnded == \A t \in Threads : ~HasWork(t) /\ loaded[t] = Nothing
Advance(t) == at' = [at EXCEPT ![t] = @ + 1]

\* A run of the pool over n tasks begins.
StartRun(n, kind) ==
  /\ Run(n)
  /\ at' = [t \in Threads |-> Boundary(t, kind, n)]
  /\ UNCHANGED loaded

-----------------------------------------------------------------------------
(* eval: the children of a node in any order, then the node.               *)

Operands(n) == IF statement[n].op \in Logical THEN statement[n].children ELSE {}

Ready(n) == bits[n] = Nothing /\ \A c \in Operands(n) : bits[c] # Nothing

\* The column's own bitmap, copied.
EvalNotNull(n) ==
  /\ stage = "eval" /\ node = 0
  /\ Ready(n)
  /\ statement[n].op = "IS_NOT_NULL"
  /\ bits' = [bits EXCEPT ![n] = columns[statement[n].column].bitmap]
  /\ UNCHANGED <<pool, columns, statement, node, stage, work, ret, ret_rows>>

\* The bitmap a run starts from: zeros, or the copy bitmap_not works on.
StartBitmap(n) ==
  CASE statement[n].op = "IS_NULL" -> columns[statement[n].column].bitmap
    [] statement[n].op = "NOT" -> bits[CHOOSE c \in Operands(n) : TRUE]
    [] OTHER -> [b \in 1 .. NumBytes |-> {}]

\* run() returns at once when there is nothing to do.
EvalNothing(n) ==
  /\ stage = "eval" /\ node = 0
  /\ Ready(n)
  /\ statement[n].op # "IS_NOT_NULL"
  /\ NumBytes = 0
  /\ bits' = [bits EXCEPT ![n] = <<>>]
  /\ UNCHANGED <<pool, columns, statement, node, stage, work, ret, ret_rows>>

StartEval(n) ==
  /\ stage = "eval" /\ node = 0
  /\ Ready(n)
  /\ statement[n].op # "IS_NOT_NULL"
  /\ NumBytes > 0
  /\ node' = n
  /\ output' = StartBitmap(n)
  /\ StartRun(NumBytes, IF statement[n].op \in Orders \union Likes THEN "rows" ELSE "byte")
  /\ UNCHANGED <<columns, statement, bits, stage, ret, ret_rows>>

StartThread ==
  /\ Spawn
  /\ UNCHANGED <<columns, statement, bits, node, stage, work, ret, ret_rows>>

\* A literal is cast to the column's type.
Literal(c, value) == IF columns[c].type = "INT32" THEN AsInt32(value) ELSE value

\* The NULLs are not masked out.
RowMatches_bug(row) ==
  LET cmp == statement[node]
      data == columns[cmp.column].data[row + 1]
  IN  CASE cmp.op = "LIKE" -> Like(data, cmp.value)
        [] cmp.op = "NOT_LIKE" -> ~Like(data, cmp.value)
        [] OTHER -> Compare(cmp.op, data, Literal(cmp.column, cmp.value))

\* less, greater, ..., like, not_like of one row.
RowMatches(row) ==
  LET cmp == statement[node]
      data == columns[cmp.column].data[row + 1]
  IN  /\ is_not_null(columns[cmp.column], row)
      /\ CASE cmp.op = "LIKE" -> Like(data, cmp.value)
           [] cmp.op = "NOT_LIKE" -> ~Like(data, cmp.value)
           [] OTHER -> Compare(cmp.op, data, Literal(cmp.column, cmp.value))

LoadByte(t) ==
  /\ HasWork(t) /\ Kind = "rows"
  /\ loaded[t] = Nothing
  /\ loaded' = [loaded EXCEPT ![t] = output[ByteOf(at[t]) + 1]]
  /\ UNCHANGED <<pool, columns, statement, bits, node, stage, output, at, ret, ret_rows>>

\* Only a row that matches is left behind.
StoreByte_bug(t) ==
  /\ loaded[t] # Nothing
  /\ output' = [output EXCEPT ![ByteOf(at[t]) + 1] =
                  loaded[t] \union (IF RowMatches(at[t]) THEN {BitOf(at[t])} ELSE {})]
  /\ loaded' = [loaded EXCEPT ![t] = Nothing]
  /\ at' = IF RowMatches(at[t]) THEN [at EXCEPT ![t] = @ + 1] ELSE at
  /\ UNCHANGED <<pool, columns, statement, bits, node, stage, ret, ret_rows>>

StoreByte(t) ==
  /\ loaded[t] # Nothing
  /\ output' = [output EXCEPT ![ByteOf(at[t]) + 1] =
                  loaded[t] \union (IF RowMatches(at[t]) THEN {BitOf(at[t])} ELSE {})]
  /\ loaded' = [loaded EXCEPT ![t] = Nothing]
  /\ Advance(t)
  /\ UNCHANGED <<pool, columns, statement, bits, node, stage, ret, ret_rows>>

\* A byte of bitmap_not, bitmap_and or bitmap_or.
ByteResult(b) ==
  LET operands == {bits[c][b] : c \in Operands(node)}
  IN  CASE statement[node].op \in {"IS_NULL", "NOT"} -> Bit \ output[b]
        [] statement[node].op = "AND" -> {bit \in Bit : \A o \in operands : bit \in o}
        [] statement[node].op = "OR" -> UNION operands

WriteByte(t) ==
  /\ HasWork(t) /\ Kind = "byte"
  /\ output' = [output EXCEPT ![at[t] + 1] = ByteResult(at[t] + 1)]
  /\ Advance(t)
  /\ UNCHANGED <<pool, columns, statement, bits, node, stage, loaded, ret, ret_rows>>

EndEval ==
  /\ stage = "eval"
  /\ JoinThreads /\ AllEnded
  /\ bits' = [bits EXCEPT ![node] = output]
  /\ node' = 0
  /\ UNCHANGED <<columns, statement, stage, work, ret, ret_rows>>

-----------------------------------------------------------------------------
(* from_csv: the rows whose bit is set, column by column.                  *)

\* Without a filter every bit is set.
Results == IF statement = <<>> THEN [b \in 1 .. NumBytes |-> Bit] ELSE bits[Root]

StartConvert ==
  /\ stage = "eval" /\ node = 0
  /\ statement # <<>> => bits[Root] # Nothing
  /\ stage' = "convert"
  /\ StartRun(Len(columns), "column")
  /\ UNCHANGED <<columns, statement, bits, node, output, ret, ret_rows>>

\* The loop of from_inner_to_column keeps the rows whose bit is set.
RowNumbers == [n \in 1 .. NumRows |-> n - 1]
RowsKept == Lists!Kept(RowNumbers, {row \in 0 .. NumRows - 1 : BitOf(row) \in Results[ByteOf(row) + 1]})

\* What it inserts into a column of the result.
Inserted(column) == [n \in DOMAIN RowsKept |-> Cell(column, RowsKept[n])]

ConvertColumn(t) ==
  /\ HasWork(t) /\ Kind = "column"
  /\ ret' = [ret EXCEPT ![at[t] + 1] = Inserted(columns[at[t] + 1])]
  /\ ret_rows' = Len(RowsKept)
  /\ Advance(t)
  /\ UNCHANGED <<pool, columns, statement, bits, node, stage, output, loaded>>

EndConvert ==
  /\ stage = "convert"
  /\ JoinThreads /\ AllEnded
  /\ stage' = "done"
  /\ UNCHANGED <<columns, statement, bits, node, work, ret, ret_rows>>

-----------------------------------------------------------------------------
MainStep ==
  \/ \E n \in DOMAIN statement : EvalNotNull(n) \/ EvalNothing(n) \/ StartEval(n)
  \/ StartThread \/ EndEval \/ StartConvert \/ EndConvert

ThreadStep(t) == LoadByte(t) \/ StoreByte(t) \/ WriteByte(t) \/ ConvertColumn(t)

Next == MainStep \/ \E t \in Threads : ThreadStep(t)

\* The operating system runs the caller and every thread it has started.
Spec ==
  /\ Init /\ [][Next]_vars
  /\ WF_vars(MainStep)
  /\ \A t \in Threads : WF_vars(ThreadStep(t))

-----------------------------------------------------------------------------
TypeOK ==
  /\ PoolTypeOK
  /\ node \in 0 .. Root
  /\ running /\ stage = "eval" => node # 0
  /\ \A c \in DOMAIN columns : Len(columns[c].bitmap) = NumBytes
  /\ \A n \in DOMAIN statement : bits[n] # Nothing => Len(bits[n]) = NumBytes

\* Nobody writes a byte between the load and the store of a thread that adds a bit
\* to it: the shards of a comparison share no byte of the output.
NoLostBits ==
  \A t \in Threads : loaded[t] # Nothing => output[ByteOf(at[t]) + 1] = loaded[t]

\* However the threads interleave, the result has the rows for which the statement
\* is true evaluated record by record, in their order, and whichever thread stores
\* last, that is the number of rows it claims.
KeepsMatchingRows ==
  stage = "done" =>
    LET matching == {row \in 0 .. NumRows - 1 :
                       statement = <<>> \/ EvalRecord(statement, columns, row)}
        kept == Lists!Kept(RowNumbers, matching)
    IN  /\ \A c \in DOMAIN columns : ret[c] = [n \in DOMAIN kept |-> Cell(columns[c], kept[n])]
        /\ ret_rows = Len(kept)

\* Every load of a table comes to an end.
FilterEnds == <>(stage = "done")
=============================================================================
