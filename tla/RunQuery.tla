------------------------------ MODULE RunQuery ------------------------------
(* run (tests/read_sql.cpp): a query's WHERE clause is taken apart            *)
(* (WhereClause), its plan is built (PlanBuilder), each scan's input is       *)
(* loaded through the filter of its table, and execute is called (PlanExec).  *)
EXTENDS PlanExec, PlanBuilder, WhereClause

CONSTANTS
  Query,      \* queries: types, where, select and tree (WhereClause, PlanBuilder)
  Data(_),    \* Data(q): what the tables of a query's entities may hold
  Like(_, _)  \* like_match(string, pattern)

VARIABLES
  query,   \* the query
  tables   \* the table of each of its entities, as the CSV files have them

runVars == <<query, tables, vars>>

RunInit ==
  /\ query \in Query
  /\ tables \in Data(query)
  /\ Start

Records == INSTANCE InnerColumns WITH ByteBits <- 8, Int32Bits <- 32

\* from_csv: the rows of a table that its filter keeps.
Loaded(table, filter) ==
  LET columns == [c \in DOMAIN table.columns |->
                    Records!InnerColumn(table.columns[c].type, table.columns[c].cells)]
      kept == SelectSeq([r \in 1 .. table.num_rows |-> r],
                        LAMBDA r : filter = <<>> \/ Records!EvalRecord(filter, columns, r - 1))
  IN  [num_rows |-> Len(kept),
       columns  |-> [c \in DOMAIN table.columns |->
                       [type  |-> table.columns[c].type,
                        cells |-> [k \in DOMAIN kept |-> table.columns[c].cells[kept[k]]]]]]

WithSets(q) ==
  [types |-> q.types, select |-> q.select, tree |-> q.tree, sets |-> Parse(q).sets]

\* The plans a query may get, none when an exception is thrown on the way.
Plans(q) == IF Parse(q).thrown THEN {} ELSE PlansFor(WithSets(q))

\* load_join_pipeline
LoadPlan ==
  /\ outcome = "loading"
  /\ LET entities == InputEntities(query)
         filters == Parse(query).filters
     IN  \E p \in Plans(query) :
           Execute(p, [s \in DOMAIN entities |->
                         Loaded(tables[entities[s]], filters[entities[s]])])
  /\ UNCHANGED <<query, tables>>

Reject ==
  /\ outcome = "loading"
  /\ Plans(query) = {}
  /\ outcome' = "threw"
  /\ UNCHANGED <<query, tables, plan, inputs, calls, buffers, output>>

RunNext ==
  \/ LoadPlan
  \/ Reject
  \/ Next /\ UNCHANGED <<query, tables>>

RunSpec == RunInit /\ [][RunNext]_runVars

-----------------------------------------------------------------------------
(* What a query means.                                                     *)

\* A clause for one row of each table, by SQL's three truth values: a comparison
\* with NULL is neither true nor false, which is NULL too.
Unknown == Null

Truth(where, cell(_)) ==
  LET Leaf(node) ==
        CASE node.op = "IS_NULL" -> cell(node.column) = Null
          [] cell(node.column) = Null -> Unknown
          [] node.op = "COLUMNS" ->
               IF cell(node.other) = Null THEN Unknown
               ELSE Records!Compare(node.cmp, cell(node.column), cell(node.other))
          [] node.op = "BETWEEN" -> cell(node.column) \in node.low .. node.high
          [] node.op = "IN" -> cell(node.column) \in Range(node.values)
          [] node.op = "LIKE" -> Like(cell(node.column), node.value)
          [] node.op = "NOT_LIKE" -> ~Like(cell(node.column), node.value)
          [] OTHER -> Records!Compare(node.op, cell(node.column), node.value)
      truth[n \in DOMAIN where] ==
        LET node == where[n]
            below == IF node.op \in Parents THEN {truth[c] : c \in Range(node.children)} ELSE {}
        IN  CASE node.op = "AND" ->
                   IF FALSE \in below THEN FALSE ELSE IF Unknown \in below THEN Unknown ELSE TRUE
              [] node.op = "OR" ->
                   IF TRUE \in below THEN TRUE ELSE IF Unknown \in below THEN Unknown ELSE FALSE
              [] node.op = "NOT" ->
                   IF Unknown \in below THEN Unknown ELSE below = {FALSE}
              [] OTHER -> Leaf(node)
  IN  truth[Len(where)]

\* The rows of the query: one for every choice of a row from each table for which
\* the clause is true.
Meaning ==
  LET rows == UNION {1 .. tables[e].num_rows : e \in DOMAIN tables}
      choices == {choice \in [DOMAIN tables -> rows] :
                    \A e \in DOMAIN tables : choice[e] <= tables[e].num_rows}
      Cells(choice, col) == tables[col[1]].columns[col[2]].cells[choice[col[1]]]
      true == {choice \in choices : Truth(query.where, LAMBDA col : Cells(choice, col)) = TRUE}
      order == SetToSeq(true)
  IN  [o \in DOMAIN order |-> [k \in DOMAIN query.select |-> Cells(order[o], query.select[k])]]

\* A plan compares one pair of columns at each join: that is all the query asks for
\* when the conditions between its sides are of one set and no set has two columns
\* of one table.
OneSetPerJoin ==
  LET q == WithSets(query)
  IN  /\ \A s \in q.sets : \A a, b \in s : a[1] = b[1] => a = b
      /\ \A n \in Joins(q) : \E s \in q.sets : \A pair \in Links(q, n) : pair[1] \in s

\* Filters know two truth values only: NOT turns a comparison with NULL to true.
NotOnlyOfNullTests ==
  \A n \in DOMAIN query.where :
    query.where[n].op = "NOT" => query.where[query.where[n].children[1]].op = "IS_NULL"

\* NOT of a condition between columns is read as the condition.
NotOfColumns ==
  \E n \in DOMAIN query.where :
    query.where[n].op = "NOT" /\ query.where[query.where[n].children[1]].op = "COLUMNS"

\* However clause and EXPLAIN tree are shaped, whichever child is hashed and whichever
\* condition the iteration order leaves for a join, the result is what the query
\* means: no row of it is missing unless a condition between columns is negated, and
\* none is there that does not belong when each join has the conditions of one set and
\* only tests for NULL are negated.
ResultCorrect ==
  outcome = "done" /\ ~NotOfColumns =>
    LET meant == Meaning
    IN  /\ Included(meant, output)
        /\ OneSetPerJoin /\ NotOnlyOfNullTests => Included(output, meant)
=============================================================================
