---------------------------- MODULE WhereClause -----------------------------
(* What becomes of a WHERE clause (parse_expr and ParsedSQL in               *)
(* tests/read_sql.cpp): conditions between columns of two tables make sets   *)
(* of columns that must be equal, the others become one filter per table.    *)
(*                                                                           *)
(* The clause is a tree in postorder, which is the order of parse_expr_impl: *)
(* its nodes are AND, OR and NOT with their children in order, COLUMNS for a *)
(* comparison of two columns, and comparisons of a column with literals.  A  *)
(* column is <<entity, number>>, entities being the tables of the FROM       *)
(* clause.  Statements are those of InnerColumns, <<>> for none.             *)
EXTENDS Integers, Sequences, SequencesExt

Columns(q) == UNION {{<<e, c>> : c \in DOMAIN q.types[e]} : e \in DOMAIN q.types}

\* DSU::unite, on the sets themselves.
Unite(sets, a, b) ==
  LET touched == {s \in sets : a \in s \/ b \in s}
  IN  (sets \ touched) \union {UNION touched}

-----------------------------------------------------------------------------
(* Statements.                                                             *)

Comparison(op, column, value) == <<[op |-> op, column |-> column, value |-> value]>>

\* A statement's nodes, behind `by' others.
Shifted(statement, by) ==
  [n \in DOMAIN statement |->
     IF "children" \in DOMAIN statement[n]
       THEN [statement[n] EXCEPT !.children = {c + by : c \in @}]
       ELSE statement[n]]

\* makeAnd, makeOr
Make(op, left, right) ==
  left \o Shifted(right, Len(left))
    \o <<[op |-> op, children |-> {Len(left), Len(left) + Len(right)}]>>

\* The operand of a condition between columns is no statement.
MakeNot(child) ==
  Append(child, [op |-> "NOT", children |-> IF child = <<>> THEN {} ELSE {Len(child)}])

\* insert_filter
Insert(filters, entity, statement) ==
  IF statement = <<>> THEN filters
  ELSE [filters EXCEPT ![entity] = IF @ = <<>> THEN statement ELSE Make("AND", @, statement)]

\* A literal, or a row of them, against a column.
Literals(node) ==
  LET column == node.column[2]
  IN  CASE node.op = "BETWEEN" ->
             Make("AND", Comparison("GEQ", column, node.low), Comparison("LEQ", column, node.high))
        [] node.op = "IN" ->
             FoldLeft(LAMBDA statement, value : Make("OR", statement, Comparison("EQ", column, value)),
                      Comparison("EQ", column, Head(node.values)), Tail(node.values))
        [] OTHER -> Comparison(node.op, column, node.value)

-----------------------------------------------------------------------------
(* The clause.                                                             *)

Junctions == {"AND", "OR"}
Parents == Junctions \union {"NOT"}

\* An AND stays on the level of its parent, OR and NOT go one down.
Levels(where) ==
  LET level[n \in DOMAIN where] ==
        IF n = Len(where) THEN 0
        ELSE LET p == CHOOSE m \in n + 1 .. Len(where) :
                        where[m].op \in Parents /\ n \in Range(where[m].children)
             IN  IF where[p].op = "AND" THEN level[p] ELSE level[p] + 1
  IN  level

\* Nothing parsed yet.  Entity 0 is the one of no table.
Unparsed(q) ==
  [statements |-> <<>>, entities |-> <<>>,
   filters    |-> [e \in 0 .. Len(q.types) |-> <<>>],
   sets       |-> {{col} : col \in Columns(q)},
   thrown     |-> FALSE]

Parsed(p, statement, entity) ==
  [p EXCEPT !.statements = Append(@, statement), !.entities = Append(@, entity)]

Thrown(p) == [Parsed(p, <<>>, 0) EXCEPT !.thrown = TRUE]

\* The children of an AND on the top level are filters or conditions; below it, and
\* under an OR, both must be filters of one table.
Junction(p, node, level) ==
  LET l == node.children[1]
      r == node.children[2]
      withLeft == Insert(p.filters, p.entities[l], p.statements[l])
  IN  IF level = 0 /\ node.op = "AND"
        THEN [Parsed(p, <<>>, 0) EXCEPT !.filters = Insert(withLeft, p.entities[r], p.statements[r])]
      ELSE IF p.statements[l] = <<>> \/ p.statements[r] = <<>> \/ p.entities[l] # p.entities[r]
        THEN Thrown(p)
      ELSE Parsed(p, Make(node.op, p.statements[l], p.statements[r]), p.entities[l])

ParseNode(p, node, level) ==
  CASE node.op \in Junctions -> Junction(p, node, level)
    [] node.op = "NOT" ->
         Parsed(p, MakeNot(p.statements[node.children[1]]), p.entities[node.children[1]])
    [] node.op = "COLUMNS" ->
         IF node.cmp # "EQ" THEN Thrown(p)
         ELSE [Parsed(p, <<>>, 0) EXCEPT !.sets = Unite(@, node.column, node.other)]
    [] OTHER -> Parsed(p, Literals(node), node.column[1])

\* parse_expr
Parse(q) ==
  LET level == Levels(q.where)
      root == Len(q.where)
      p == FoldLeft(LAMBDA before, n : ParseNode(before, q.where[n], level[n]),
                    Unparsed(q), [n \in 1 .. root |-> n])
  IN  [p EXCEPT !.filters = Insert(@, p.entities[root], p.statements[root])]
=============================================================================
