------------------------------ MODULE PlanExec ------------------------------
(* execute() (execute_default.cpp): a plan tree is evaluated by recursive    *)
(* calls, left child first; a scan leaves INT32 columns without NULL where   *)
(* they are and turns the others into value_t words, a join copies words     *)
(* from its inputs, and the root's words are turned into the result.         *)
(*                                                                           *)
(* Joins are the abstract EquiJoin, which HashJoin implements; the pages of  *)
(* columns are left to PageWriter and StringPages.  Nodes and columns are    *)
(* numbered from 1, the rows of a join's inputs from 0.                      *)
EXTENDS Values, Sequences, FiniteSets, SequencesExt

\* A plan is [nodes, root].  A node is a scan [kind, table, attrs] or a join [kind, build_left, left,
\* right, left_attr, right_attr, attrs]; attrs are the output attributes, each
\* with the index of its source and its type.
VARIABLES
  plan,          \* the plan
  inputs,        \* its inputs: tables [num_rows, columns]
  calls,         \* the nodes execute_impl is evaluating, innermost last
  buffers,       \* the ColumnBuffer each finished node returned
  outcome,       \* "loading" before execute is called, "running", "threw" or "done"
  output         \* the rows of the result

vars == <<plan, inputs, calls, buffers, outcome, output>>

Start ==
  /\ plan = [nodes |-> <<>>, root |-> 0]
  /\ inputs = <<>>
  /\ calls = <<>>
  /\ buffers = << >>
  /\ outcome = "loading"
  /\ output = <<>>

\* execute() is called with a plan and its inputs.
Execute(p, in) ==
  /\ plan' = p
  /\ inputs' = in
  /\ calls' = <<p.root>>
  /\ outcome' = "running"
  /\ UNCHANGED <<buffers, output>>

Node == plan.nodes[calls[Len(calls)]]
Finished(n) == n \in DOMAIN buffers

\* The current call returns a buffer.
Return(buffer) ==
  /\ buffers' = [n \in DOMAIN buffers \union {calls[Len(calls)]} |->
                   IF n = calls[Len(calls)] THEN buffer ELSE buffers[n]]
  /\ calls' = SubSeq(calls, 1, Len(calls) - 1)
  /\ UNCHANGED <<plan, inputs, outcome, output>>

-----------------------------------------------------------------------------
(* Scan.                                                                   *)

HasNulls(cells) == \E r \in DOMAIN cells : cells[r] = Null

\* The word the fallback of the scan appends for row r of a column.
Materialised(t, c, r) ==
  LET column == inputs[t].columns[c]
      cell == column.cells[r]
  IN  IF cell = Null THEN make_null
      ELSE IF column.type = "INT32" THEN make_i32(cell)
      ELSE make_str_ref(t, c, r)

\* A zero-copy column reads the cells of its source.
ScanColumn(t, c) ==
  LET column == inputs[t].columns[c]
  IN  IF column.type = "INT32" /\ ~HasNulls(column.cells)
        THEN [zero_copy |-> TRUE, cells |-> column.cells, values |-> <<>>]
        ELSE [zero_copy |-> FALSE, cells |-> <<>>,
              values |-> [r \in DOMAIN column.cells |-> Materialised(t, c, r)]]

ExecuteScan ==
  /\ outcome = "running" /\ calls # <<>>
  /\ Node.kind = "scan"
  /\ Return([num_rows |-> inputs[Node.table].num_rows,
             types    |-> [a \in DOMAIN Node.attrs |-> Node.attrs[a].type],
             columns  |-> [a \in DOMAIN Node.attrs |-> ScanColumn(Node.table, Node.attrs[a].src)]])

-----------------------------------------------------------------------------
(* Join.                                                                   *)

\* execute_hash_join evaluates its left input, then its right one.
CallChild ==
  /\ outcome = "running" /\ calls # <<>>
  /\ Node.kind = "join"
  /\ ~(Finished(Node.left) /\ Finished(Node.right))
  /\ calls' = Append(calls, IF Finished(Node.left) THEN Node.right ELSE Node.left)
  /\ UNCHANGED <<plan, inputs, buffers, outcome, output>>

\* The join key run_int32 sees in row r (from 0): a zero-copy column's cells are
\* compared as they are, a materialised column's words may be NULL.
Key(column, r) ==
  IF column.zero_copy THEN column.cells[r + 1]
  ELSE IF is_null(column.values[r + 1]) THEN Null
  ELSE as_i32(column.values[r + 1])

Keys(buffer, c) == [r \in 1 .. buffer.num_rows |-> Key(buffer.columns[c], r - 1)]

\* column_t::get
Get(column, r) ==
  IF column.zero_copy THEN make_i32(column.cells[r + 1]) ELSE column.values[r + 1]

\* The pairs of rows a join of these keys returns (HashJoin implements it).
Join(leftKeys, rightKeys) == INSTANCE EquiJoin WITH
  left <- leftKeys, right <- rightKeys, found <- {}, returned <- FALSE, result <- <<>>

\* The type of the build key is looked at when both inputs have been evaluated.
BuildKeyType ==
  IF Node.build_left
    THEN plan.nodes[Node.left].attrs[Node.left_attr].type
    ELSE plan.nodes[Node.right].attrs[Node.right_attr].type

\* The row numbers of the two inputs swapped.
OutputColumn_bug(lbuf, rbuf, src, pairs) ==
  LET left_cols == Len(lbuf.columns)
  IN  [zero_copy |-> FALSE, cells |-> <<>>,
       values |-> [o \in DOMAIN pairs |->
                     IF src <= left_cols
                       THEN Get(lbuf.columns[src], pairs[o].ridx)
                       ELSE Get(rbuf.columns[src - left_cols], pairs[o].lidx)]]

\* A column of the output: the words of the pairs' rows, from the left input's
\* columns or, behind them, the right one's.
OutputColumn(lbuf, rbuf, src, pairs) ==
  LET left_cols == Len(lbuf.columns)
  IN  [zero_copy |-> FALSE, cells |-> <<>>,
       values |-> [o \in DOMAIN pairs |->
                     IF src <= left_cols
                       THEN Get(lbuf.columns[src], pairs[o].lidx)
                       ELSE Get(rbuf.columns[src - left_cols], pairs[o].ridx)]]

ExecuteJoin ==
  /\ outcome = "running" /\ calls # <<>>
  /\ Node.kind = "join"
  /\ Finished(Node.left) /\ Finished(Node.right)
  /\ BuildKeyType = "INT32"
  /\ LET lbuf == buffers[Node.left]
         rbuf == buffers[Node.right]
     IN  \E pairs \in SetToSeqs(Join(Keys(lbuf, Node.left_attr),
                                     Keys(rbuf, Node.right_attr))!Matching) :
           Return([num_rows |-> Len(pairs),
                   types    |-> [a \in DOMAIN Node.attrs |-> Node.attrs[a].type],
                   columns  |-> [a \in DOMAIN Node.attrs |->
                                   OutputColumn(lbuf, rbuf, Node.attrs[a].src, pairs)]])

\* "Only INT32 join columns supported."
Throw ==
  /\ outcome = "running" /\ calls # <<>>
  /\ Node.kind = "join"
  /\ Finished(Node.left) /\ Finished(Node.right)
  /\ BuildKeyType # "INT32"
  /\ outcome' = "threw"
  /\ UNCHANGED <<plan, inputs, calls, buffers, output>>

-----------------------------------------------------------------------------
(* Result.                                                                 *)

\* resolve(): the cell a reference points at.
Resolve(raw) == inputs[ref_table(raw)].columns[ref_col(raw)].cells[ref_slot(raw)]

\* finalize_columnbuffer_to_columnar: the cell a word stands for.
Cell(type, raw) ==
  IF is_null(raw) THEN Null
  ELSE IF type = "INT32" THEN as_i32(raw)
  ELSE Resolve(raw)

RowsOf(buffer) ==
  [r \in 1 .. buffer.num_rows |->
     [a \in DOMAIN buffer.columns |-> Cell(buffer.types[a], Get(buffer.columns[a], r - 1))]]

Finalize ==
  /\ outcome = "running"
  /\ calls = <<>>
  /\ output' = RowsOf(buffers[plan.root])
  /\ outcome' = "done"
  /\ UNCHANGED <<plan, inputs, calls, buffers>>

Next == ExecuteScan \/ CallChild \/ ExecuteJoin \/ Throw \/ Finalize

-----------------------------------------------------------------------------
(* What the plan means.                                                    *)

\* The rows of the nodes of a plan p by the definition of scan and join on the cells
\* of its inputs, in some order; a NULL join attribute equals nothing.  A node's
\* children come before it.
ScanRows(in, node) ==
  [r \in 1 .. in[node.table].num_rows |->
     [a \in DOMAIN node.attrs |-> in[node.table].columns[node.attrs[a].src].cells[r]]]

JoinRows(node, l, r) ==
  LET joined == {p \in (DOMAIN l) \X (DOMAIN r) :
                   /\ l[p[1]][node.left_attr] # Null
                   /\ l[p[1]][node.left_attr] = r[p[2]][node.right_attr]}
      both(p) == l[p[1]] \o r[p[2]]
      order == SetToSeq(joined)
  IN  [o \in DOMAIN order |->
         [a \in DOMAIN node.attrs |-> both(order[o])[node.attrs[a].src]]]

RelationalRows(p, in) ==
  LET rows[n \in DOMAIN p.nodes] ==
        LET node == p.nodes[n]
        IN  IF node.kind = "scan" THEN ScanRows(in, node)
            ELSE JoinRows(node, rows[node.left], rows[node.right])
  IN  rows

\* Every row of s is in t at least as often.
Included(s, t) ==
  \A row \in {s[k] : k \in DOMAIN s} :
    Cardinality({k \in DOMAIN s : s[k] = row}) <= Cardinality({k \in DOMAIN t : t[k] = row})

\* What execute takes for granted.  A table's columns have the type they say, one cell
\* for each row; an INT32 cell is not the one whose word is that of NULL, and a
\* string's place fits into a reference that is not.
InputsFit ==
  \A t \in DOMAIN inputs :
    /\ inputs[t].num_rows \in Nat
    /\ \A c \in DOMAIN inputs[t].columns :
         LET column == inputs[t].columns[c]
         IN  /\ DOMAIN column.cells = 1 .. inputs[t].num_rows
             /\ column.type \in {"INT32", "VARCHAR"}
             /\ \A r \in 1 .. inputs[t].num_rows :
                  column.cells[r] # Null =>
                    IF column.type = "INT32" THEN column.cells[r] \in Int32 \ {-1}
                    ELSE Referable(t, c, r)

Attribute == [src : Nat \ {0}, type : {"INT32", "VARCHAR"}]

\* A node's children come before it, attributes name columns of the inputs or of the
\* children and have their types, and joined attributes have the same type.
ScanFits(node) ==
  /\ node.table \in DOMAIN inputs
  /\ \A a \in DOMAIN node.attrs :
       /\ node.attrs[a].src \in DOMAIN inputs[node.table].columns
       /\ node.attrs[a].type = inputs[node.table].columns[node.attrs[a].src].type

JoinFits(node, l, r) ==
  /\ node.left_attr \in DOMAIN l /\ node.right_attr \in DOMAIN r
  /\ l[node.left_attr].type = r[node.right_attr].type
  /\ \A a \in DOMAIN node.attrs :
       /\ node.attrs[a].src \in DOMAIN (l \o r)
       /\ node.attrs[a].type = (l \o r)[node.attrs[a].src].type

PlanFits ==
  /\ InputsFit
  /\ outcome = "running" => plan.root \in DOMAIN plan.nodes
  /\ Len(plan.nodes) \in Nat /\ DOMAIN plan.nodes = 1 .. Len(plan.nodes)
  /\ \A n \in DOMAIN plan.nodes :
       LET node == plan.nodes[n]
       IN  /\ node.attrs \in Seq(Attribute)
           /\ node.kind = "scan" => ScanFits(node)
           /\ node.kind # "scan" =>
                /\ node.left \in 1 .. n - 1 /\ node.right \in 1 .. n - 1
                /\ JoinFits(node, plan.nodes[node.left].attrs, plan.nodes[node.right].attrs)

\* A plan that is executed fits; calls name its nodes and words have the width they
\* are given (run, execute_impl, value_t).
TypeOK ==
  /\ PlanFits
  /\ \A k \in DOMAIN calls : calls[k] \in DOMAIN plan.nodes
  /\ \A n \in DOMAIN buffers :
       \A c \in DOMAIN buffers[n].columns :
         LET column == buffers[n].columns[c]
         IN  IF column.zero_copy
               THEN \A r \in DOMAIN column.cells : column.cells[r] \in Int
               ELSE \A r \in DOMAIN column.values : column.values[r] \in Raw
  /\ outcome \in {"loading", "running", "threw", "done"}

\* Every buffer stands for the rows its node means, NULLs and strings included,
\* through any number of joins and whichever order a join returns its rows in.
BuffersCorrect ==
  \A n \in DOMAIN buffers :
    LET meant == RelationalRows(plan, inputs)[n]
    IN  Included(RowsOf(buffers[n]), meant) /\ Included(meant, RowsOf(buffers[n]))
=============================================================================
