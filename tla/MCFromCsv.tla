----------------------------- MODULE MCFromCsv ------------------------------
EXTENDS FromCsv

MCAttributes == <<"INT32", "VARCHAR">>

\* The empty file, every file of up to four characters behind a digit and a comma,
\* longer ones of two lines with every line end, ones that begin in quotes, and
\* numbers of as many digits as fit and of one more.
Texts(n) == UNION {[1 .. m -> Char] : m \in 0 .. n}
MCFiles ==
  {<<Digit, Comma>> \o t : t \in Texts(4)}
    \union {<<Digit, Comma, Digit, CR>> \o t : t \in Texts(3)}
    \union {<<Quote, Digit>> \o t : t \in Texts(3)}
    \union {<<Digit, Digit>> \o t : t \in Texts(2)}
    \union {<<>>, <<Comma, LF>>, <<Comma, LF, Digit, Digit, Digit, Comma>>}

\* The rows whose first column is not NULL.
MCKeeps(f, row) == row[1] # NullCell
=============================================================================
