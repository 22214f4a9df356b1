----------------------------- MODULE CsvFormat ------------------------------
(* What a CSV file means, read as a whole: lines end with \n, \r or \r\n,    *)
(* fields are separated by commas, both count for nothing inside quotes, and *)
(* inside quotes a backslash before a quote or a backslash makes it an       *)
(* ordinary character.  It is the reference CsvParser is checked against.    *)
EXTENDS Integers, Sequences

CONSTANTS
  Attributes,  \* the types of a table's columns, "INT32" or "VARCHAR"
  NullCell,
  MaxDigits    \* the digits of the longest number, of ones, that fits an INT32 (10)

ASSUME DigitsAssumption == MaxDigits \in Nat

\* Characters: the digit 1 and the five the parser looks for.
Digit == "1"
Comma == ","
LF == "LF"
CR == "CR"
Quote == "quote"
Escape == "backslash"
Char == {Digit, Comma, LF, CR, Quote, Escape}

\* The characters that are not part of a field.
FieldSep == "separator"
RecordSep == "end of line"
QuoteMark == "quote mark"
Unclosed == "unclosed"

\* The file with its separators told from its ordinary characters; [left] has the
\* tokens of its last characters, for a reader that is outside quotes or inside.
TokensFrom(file) ==
  LET from[left \in 0 .. Len(file)] ==
        LET char == file[Len(file) - left + 1]
            next == IF left > 1 THEN file[Len(file) - left + 2] ELSE "end of file"
        IN  [quoted \in BOOLEAN |->
               IF left = 0 THEN IF quoted THEN <<Unclosed>> ELSE <<>>
               ELSE IF char = Quote THEN <<QuoteMark>> \o from[left - 1][~quoted]
               ELSE IF quoted /\ char = Escape /\ next \in {Quote, Escape}
                 THEN <<next>> \o from[left - 2][quoted]
               ELSE IF ~quoted /\ char = Comma THEN <<FieldSep>> \o from[left - 1][quoted]
               ELSE IF ~quoted /\ char = CR /\ next = LF
                 THEN <<RecordSep>> \o from[left - 2][quoted]
               ELSE IF ~quoted /\ char \in {CR, LF} THEN <<RecordSep>> \o from[left - 1][quoted]
               ELSE <<char>> \o from[left - 1][quoted]]
  IN  from

Tokens(file) == TokensFrom(file)[Len(file)][FALSE]

\* The pieces of a sequence between the separators, without what is ignored.
Pieces(tokens, separator, ignored) ==
  LET upto[n \in 0 .. Len(tokens)] ==
        IF n = 0 THEN <<<<>>>>
        ELSE IF tokens[n] = separator THEN Append(upto[n - 1], <<>>)
        ELSE IF tokens[n] \in ignored THEN upto[n - 1]
        ELSE [upto[n - 1] EXCEPT ![Len(upto[n - 1])] = Append(@, tokens[n])]
  IN  upto[Len(tokens)]

\* The lines; one that nothing follows ends the file, but a file has one line.
Lines(file) ==
  LET lines == Pieces(Tokens(file), RecordSep, {})
  IN  IF Len(lines) > 1 /\ lines[Len(lines)] = <<>> THEN SubSeq(lines, 1, Len(lines) - 1)
      ELSE lines

Fields(line) == Pieces(line, FieldSep, {QuoteMark})

\* stoi reads as many digits as there are.
Digits(field) ==
  LET n == CHOOSE n \in 0 .. Len(field) :
             /\ \A p \in 1 .. n : field[p] = Digit
             /\ n < Len(field) => field[n + 1] # Digit
  IN  SubSeq(field, 1, n)

\* The number that so many ones are.
Ones[n \in 0 .. MaxDigits] == IF n = 0 THEN 0 ELSE 10 * Ones[n - 1] + 1

\* stoi wants a digit at least, and a number in range.
Convertible(type, field) ==
  type = "VARCHAR" \/ field = <<>> \/ Len(Digits(field)) \in 1 .. MaxDigits

Converted(type, field) ==
  IF field = <<>> THEN NullCell ELSE IF type = "INT32" THEN Ones[Len(Digits(field))] ELSE field

\* Whether every line has as many fields as the first.
Consistent(file) ==
  \A l \in DOMAIN Lines(file) : Len(Fields(Lines(file)[l])) = Len(Fields(Lines(file)[1]))

NumColumns(file) == Len(Fields(Lines(file)[1]))

\* The lines that are rows.
DataLines(file, header) == IF header THEN Tail(Lines(file)) ELSE Lines(file)

\* A table of these attributes can be read from the file.
WellFormed(file, header) ==
  LET lines == DataLines(file, header)
  IN  /\ \A p \in DOMAIN Tokens(file) : Tokens(file)[p] # Unclosed
      /\ Consistent(file)
      /\ \A l \in DOMAIN lines : \A a \in DOMAIN Attributes :
           Convertible(Attributes[a], Fields(lines[l])[a])

RowsOfFile(file, header) ==
  LET lines == DataLines(file, header)
  IN  [l \in DOMAIN lines |->
         [a \in DOMAIN Attributes |-> Converted(Attributes[a], Fields(lines[l])[a])]]
=============================================================================
