----------------------------- MODULE MCPlanExec -----------------------------
(* Queries over two and three tables of integer and string columns, with     *)
(* EXPLAIN trees of either shape and either child hashed, and with filters   *)
(* of every form: some get a plan, some are rejected, and some ask for more  *)
(* than a plan compares or a filter can tell apart.                          *)
EXTENDS RunQuery

CONSTANT Integer  \* the integers in the tables

\* The least INT32 of three bits is among the ordinary ones.
Ordinary == {1, 2, -4}
WithMinusOne == {1, -1}

MCLike(string, pattern) == pattern = "%" \/ string = pattern

MCTypes == <<<<"INT32", "VARCHAR">>, <<"INT32", "VARCHAR", "INT32">>, <<"INT32", "VARCHAR", "VARCHAR">>>>

-----------------------------------------------------------------------------
(* Clauses.                                                                *)

Equal(a, b) == <<[op |-> "COLUMNS", cmp |-> "EQ", column |-> a, other |-> b]>>
Less(a, b) == <<[op |-> "COLUMNS", cmp |-> "LT", column |-> a, other |-> b]>>
Cmp(op, col, value) == <<[op |-> op, column |-> col, value |-> value]>>
IsNull(col) == Cmp("IS_NULL", col, Null)
Between(col, low, high) == <<[op |-> "BETWEEN", column |-> col, low |-> low, high |-> high]>>
In(col, values) == <<[op |-> "IN", column |-> col, values |-> values]>>

Moved(where, by) ==
  [n \in DOMAIN where |->
     IF where[n].op \in Parents
       THEN [where[n] EXCEPT !.children = [k \in DOMAIN @ |-> @[k] + by]]
       ELSE where[n]]

Two(op, l, r) ==
  Append(l \o Moved(r, Len(l)), [op |-> op, children |-> <<Len(l), Len(l) + Len(r)>>])
And(l, r) == Two("AND", l, r)
Or(l, r) == Two("OR", l, r)
Not(where) == Append(where, [op |-> "NOT", children |-> <<Len(where)>>])

\* Columns <<entity, number>>: <<1, 1>>, <<2, 1>>, <<2, 3>> and <<3, 1>> are integers.
Pair == Equal(<<1, 1>>, <<2, 1>>)
Star == And(Pair, Equal(<<3, 1>>, <<2, 1>>))
Chain == And(Pair, Equal(<<2, 3>>, <<3, 1>>))

-----------------------------------------------------------------------------
(* Queries.                                                                *)

Scan(e) == [kind |-> "Seq Scan", entity |-> e]
HashJoin(l, r, hash) == [kind |-> "Hash Join", left |-> l, right |-> r, hash |-> hash]

Side == {"left", "right"}
Join2(a, b, h) == <<Scan(a), Scan(b), HashJoin(1, 2, h)>>
LeftDeep(a, b, c, h) ==
  <<Scan(a), Scan(b), HashJoin(1, 2, h), Scan(c), HashJoin(3, 4, h)>>
RightDeep(a, b, c, h) ==
  <<Scan(a), Scan(b), Scan(c), HashJoin(2, 3, h), HashJoin(1, 4, h)>>

TwoTables(where, tree) ==
  [types |-> SubSeq(MCTypes, 1, 2), where |-> where,
   select |-> <<<<2, 2>>, <<1, 1>>, <<1, 2>>>>, tree |-> tree]
ThreeTables(where, select, tree) ==
  [types |-> MCTypes, where |-> where, select |-> select, tree |-> tree]

Trees ==
  {TwoTables(Pair, Join2(e, 3 - e, h)) : e \in {1, 2}, h \in Side}
    \union {ThreeTables(Star, <<<<3, 2>>, <<2, 2>>, <<1, 2>>>>, LeftDeep(1, 2, 3, "right")),
            ThreeTables(Star, <<<<3, 2>>, <<2, 2>>, <<2, 1>>>>, RightDeep(3, 1, 2, "left")),
            ThreeTables(Star, <<<<1, 2>>, <<2, 2>>>>, LeftDeep(1, 3, 2, "left"))}
    \union {ThreeTables(Chain, <<<<1, 2>>, <<3, 1>>, <<2, 2>>, <<1, 1>>>>, tree) :
              tree \in {LeftDeep(2, 1, 3, "left"), RightDeep(1, 3, 2, "right")}}

\* A join whose condition is lost or NULL, or of strings.
Lossy ==
  {ThreeTables(And(Chain, Equal(<<1, 2>>, <<3, 2>>)), <<<<1, 1>>>>, LeftDeep(1, 2, 3, "left")),
   ThreeTables(And(Chain, Equal(<<3, 2>>, <<3, 3>>)), <<<<1, 1>>>>, LeftDeep(1, 2, 3, "right")),
   TwoTables(Equal(<<1, 2>>, <<2, 2>>), Join2(1, 2, "left"))}

Filters ==
  {And(Pair, Or(And(Cmp("LEQ", <<2, 3>>, 1), Cmp("EQ", <<2, 2>>, "z")), IsNull(<<2, 3>>))),
   And(In(<<1, 1>>, <<1, -4>>), And(Pair, Between(<<2, 3>>, 1, 1))),
   And(And(Cmp("LIKE", <<2, 2>>, "%"), Pair), And(Cmp("NOT_LIKE", <<1, 2>>, "y"), Cmp("NEQ", <<1, 1>>, 2))),
   And(Pair, Not(IsNull(<<2, 3>>))),
   \* true, to the filter, of a NULL
   And(Pair, Not(Cmp("EQ", <<2, 3>>, 1))),
   And(Not(Or(Cmp("GT", <<2, 3>>, 1), Cmp("LT", <<2, 1>>, 1))), Pair),
   \* enforced
   And(Not(Pair), Cmp("GEQ", <<1, 1>>, 1))}

Rejects ==
  {And(Pair, Equal(<<1, 1>>, <<2, 3>>)),                           \* between the same two tables
   Less(<<1, 1>>, <<2, 1>>),
   And(Pair, Or(Cmp("EQ", <<1, 1>>, 1), Cmp("EQ", <<2, 3>>, 1))),  \* no table's filter
   Or(Pair, Cmp("EQ", <<1, 1>>, 1)),
   Not(And(Pair, Cmp("EQ", <<1, 1>>, 1))),
   Cmp("EQ", <<1, 1>>, 1)}                                         \* no join condition

MCQuery ==
  Trees \union Lossy \union {TwoTables(where, Join2(1, 2, "left")) : where \in Filters \union Rejects}

-----------------------------------------------------------------------------
(* Tables.                                                                 *)

Ints(cells) == [type |-> "INT32", cells |-> cells]
Strings(cells) == [type |-> "VARCHAR", cells |-> cells]
Keys2 == [1 .. 2 -> Integer \union {Null}]

MCData(q) ==
  {SubSeq(<<[num_rows |-> 2, columns |-> <<Ints(a), Strings(<<"x", "y">>)>>],
            [num_rows |-> 2, columns |-> <<Ints(b), Strings(<<Null, "z">>), Ints(c)>>],
            [num_rows |-> 1, columns |-> <<Ints(d), Strings(<<"x">>), Strings(<<"v">>)>>]>>,
          1, Len(q.types)) :
     a \in Keys2, b \in Keys2, c \in {<<1, 2>>, <<1, Null>>}, d \in {<<1>>, <<Null>>}}
=============================================================================
