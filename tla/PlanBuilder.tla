---------------------------- MODULE PlanBuilder -----------------------------
(* How a query and an EXPLAIN tree become a plan (ParsedSQL's join graph and *)
(* load_join_pipeline in tests/read_sql.cpp).  A query has                    *)
(*   types    the types of each entity's columns (WhereClause),               *)
(*   sets     the sets of columns that must be equal,                         *)
(*   select   the columns it selects, in order,                               *)
(*   tree     the scans and hash joins of the EXPLAIN tree in the order in    *)
(*            which recurse leaves them, which is that of the plan's nodes;   *)
(*            hash is the child that is a "Hash".                             *)
EXTENDS Integers, Sequences, FiniteSets, SequencesExt

-----------------------------------------------------------------------------
(* The join graph.                                                         *)

\* join_graph: any two columns of a set, in both directions.
Conditions(q) == UNION {{pair \in s \X s : pair[1] # pair[2]} : s \in q.sets}

\* "At least two conditions between a same pair of tables."
Rejected(q) ==
  \E x, y \in Conditions(q) :
    x[1][1] = y[1][1] /\ x[2][1] = y[2][1] /\ {x[1], x[2]} # {y[1], y[2]}

-----------------------------------------------------------------------------
(* The tree.                                                               *)

Joins(q) == {n \in DOMAIN q.tree : q.tree[n].kind = "Hash Join"}

\* extract_entities
Entities(q) ==
  LET below[n \in DOMAIN q.tree] ==
        IF n \in Joins(q) THEN below[q.tree[n].left] \union below[q.tree[n].right]
        ELSE {q.tree[n].entity}
  IN  below

\* The conditions found between the two sides of a join.
Links(q, n) ==
  {pair \in Conditions(q) :
     /\ pair[1][1] \in Entities(q)[q.tree[n].left]
     /\ pair[2][1] \in Entities(q)[q.tree[n].right]}

\* The last one found is used; the order of an unordered_map may be any.
Picks(q) == {cond \in [Joins(q) -> Conditions(q)] : \A n \in Joins(q) : cond[n] \in Links(q, n)}

\* left_required, right_required: what is required of a side, and its key if it is
\* not there already.
SideRequired(required, entities, key) ==
  LET ofSide == SelectSeq(required, LAMBDA col : col[1] \in entities)
  IN  IF key \in {ofSide[k] : k \in DOMAIN ofSide} THEN ofSide ELSE Append(ofSide, key)

\* required_attrs of each call of recurse, which are the columns it returns.
Required(q, cond) ==
  LET required[n \in DOMAIN q.tree] ==
        IF n = Len(q.tree) THEN q.select
        ELSE LET p == CHOOSE j \in Joins(q) : n \in {q.tree[j].left, q.tree[j].right}
             IN  SideRequired(required[p], Entities(q)[n],
                              IF n = q.tree[p].left THEN cond[p][1] ELSE cond[p][2])
  IN  required

\* (A definition whose name ends in _bug is a plausible mistake in the one it
\* precedes.)  Only the entity is compared.
Place_bug(columns, col) == SelectInSeq(columns, LAMBDA c : c[1] = col[1])

\* The first place of a column among those of a side or both.
Place(columns, col) == SelectInSeq(columns, LAMBDA c : c = col)

Attr(q, src, col) == [src |-> src, type |-> q.types[col[1]][col[2]]]

\* One input per scan, in the order of the scans.
InputEntities(q) ==
  LET scans == SelectSeq(q.tree, LAMBDA node : node.kind # "Hash Join")
  IN  [s \in DOMAIN scans |-> scans[s].entity]

\* new_scan_node: attributes are columns of the table.
ScanNode(q, n, required) ==
  [kind  |-> "scan",
   table |-> Cardinality({m \in 1 .. n : m \notin Joins(q)}),
   attrs |-> [k \in DOMAIN required[n] |-> Attr(q, required[n][k][2], required[n][k])]]

\* new_join_node: attributes are places in the left columns and, behind them, the
\* right ones; build_left says which side is the "Hash".
JoinNode(q, n, required, cond) ==
  LET node == q.tree[n]
      columns == required[node.left] \o required[node.right]
  IN  [kind       |-> "join",
       build_left |-> node.hash = "left",
       left       |-> node.left,
       right      |-> node.right,
       left_attr  |-> Place(required[node.left], cond[1]),
       right_attr |-> Place(required[node.right], cond[2]),
       attrs      |-> [k \in DOMAIN required[n] |->
                         Attr(q, Place(columns, required[n][k]), required[n][k])]]

PlanFor(q, cond) ==
  LET required == Required(q, cond)
  IN  [nodes |-> [n \in DOMAIN q.tree |->
                    IF n \in Joins(q) THEN JoinNode(q, n, required, cond[n])
                    ELSE ScanNode(q, n, required)],
       root  |-> Len(q.tree)]

\* The plans a query may get; none when an exception is thrown: for two conditions
\* between a pair of tables, or "Cannot find join condition".
PlansFor(q) == IF Rejected(q) THEN {} ELSE {PlanFor(q, cond) : cond \in Picks(q)}

=============================================================================
