------------------------------ MODULE MCFilter ------------------------------
EXTENDS Filter

\* The strings "", "a" and "b", and the patterns "_", "%" and "b".
MCLike(string, pattern) ==
  CASE pattern = 0 -> string # 0
    [] pattern = 1 -> TRUE
    [] pattern = 2 -> string = 2

Ints(values) == [type |-> "INT32", values |-> values]
Strings(values) == [type |-> "VARCHAR", values |-> values]

\* No rows, one byte, a byte and a part, and more bytes than threads.
MCTables ==
  {<<Ints(<<>>), Strings(<<>>)>>,
   <<Ints(<<Null>>), Strings(<<1>>)>>,
   <<Ints(<<0, Null, 1>>), Strings(<<Null, 1, 2>>)>>,
   <<Ints(<<1, 0, Null, 2, 1>>), Strings(<<2, Null, 1, 1, Null>>)>>,
   <<Ints(<<0, 1, 2, Null, 0, 1, 1>>), Strings(<<1, 2, Null, Null, 2, 1, 2>>)>>}

Cmp(op, column, value) == [op |-> op, column |-> column, value |-> value]
Op(op, children) == [op |-> op, children |-> children]

MCStatements ==
  {<<>>}
    \union {<<Cmp(op, 1, 1)>> : op \in Orders \union NullTests}
    \union {<<Cmp(op, 2, 2)>> : op \in Orders}
    \union {<<Cmp(op, 2, pattern)>> : op \in Likes, pattern \in 0 .. 2}
    \union {<<Cmp(op, 1, 0), Op("NOT", {1})>> : op \in {"GT", "IS_NULL"}}
    \union {<<Cmp("LEQ", 1, 1), Cmp("NOT_LIKE", 2, 2), Op(op, {1, 2})>> : op \in {"AND", "OR"}}
    \union {<<Cmp("GEQ", 1, 1), Cmp("IS_NULL", 2, 2), Op("OR", {1, 2}), Op("NOT", {3})>>}
=============================================================================
