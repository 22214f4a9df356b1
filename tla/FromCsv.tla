------------------------------ MODULE FromCsv -------------------------------
(* Table::from_csv (build_table.cpp): a table is parsed once and kept whole; *)
(* what a call returns are the rows its filter lets through, and a call      *)
(* without filter is answered from a second cache when there was one before. *)
(* A driver may call again after an exception.                               *)
EXTENDS CsvParser

CONSTANTS
  Files,           \* what the file at a path may hold
  Filters,         \* the filters of calls, NoFilter among them
  NoFilter,
  Keeps(_, _),     \* whether a filter lets a row through
  Absent,          \* no entry in a cache, no call, no answer
  MaxCalls         \* a bound on the calls of a behaviour

\* Files are made of the characters that the parser tells apart.
ASSUME FilesAssumption ==
  /\ Files \subseteq Seq(Char)
  /\ Attributes \in Seq({"INT32", "VARCHAR"})
  /\ MaxCalls \in Nat

VARIABLES
  filter,          \* the filter of the call in progress, or Absent
  table_cache,     \* table_cache[path]
  result_cache,    \* result_cache[path]
  returned,        \* history: the last call's filter and answer
  calls            \* history: how many calls there were

loadVars == <<parserVars, filter, table_cache, result_cache, returned, calls>>

LoadInit ==
  /\ \E f \in Files, h \in BOOLEAN : ParserInit(f, h)
  /\ phase = "idle"
  /\ filter = Absent
  /\ table_cache = Absent /\ result_cache = Absent
  /\ returned = Absent
  /\ calls = 0

\* The rows of from_inner_to_column: those whose bit the filter has set.
Filtered(f, table) == LET keeps(row) == f = NoFilter \/ Keeps(f, row) IN SelectSeq(table, keeps)

Call(f) ==
  /\ filter = Absent
  /\ calls < MaxCalls
  /\ calls' = calls + 1
  /\ filter' = f
  /\ returned' = Absent
  /\ UNCHANGED <<parserVars, table_cache, result_cache>>

Return(answer) ==
  /\ returned' = [filter |-> filter, rows |-> answer]
  /\ filter' = Absent

\* A copy of what an earlier call without filter returned.
HitResult ==
  /\ filter = NoFilter
  /\ phase = "idle"
  /\ result_cache # Absent
  /\ Return(result_cache)
  /\ UNCHANGED <<parserVars, table_cache, result_cache, calls>>

InNoCache ==
  /\ filter # Absent
  /\ phase = "idle"
  /\ filter = NoFilter => result_cache = Absent
  /\ table_cache = Absent

\* "Failed to open file": an exception.
OpenFails ==
  /\ InNoCache
  /\ filter' = Absent
  /\ UNCHANGED <<parserVars, table_cache, result_cache, returned, calls>>

\* A cache miss: the file is read from its beginning.
Miss ==
  /\ InNoCache
  /\ ParserReset
  /\ phase' = "read"
  /\ UNCHANGED <<file, header, filter, table_cache, result_cache, returned, calls>>

Parse ==
  /\ ParserNext
  /\ UNCHANGED <<filter, table_cache, result_cache, returned, calls>>

\* The file has been parsed.
Cache ==
  /\ phase = "parsed"
  /\ phase' = "idle"
  /\ table_cache' = full_table
  /\ UNCHANGED <<file, header, unread, buffer, parser, records, filter, result_cache, returned, calls>>

\* Every answer is kept.
Answer_bug ==
  /\ filter # Absent
  /\ phase = "idle"
  /\ filter = NoFilter => result_cache = Absent
  /\ table_cache # Absent
  /\ Return(Filtered(filter, table_cache))
  /\ result_cache' = Filtered(filter, table_cache)
  /\ UNCHANGED <<parserVars, table_cache, calls>>

\* The rows the filter keeps; without a filter, all of them, kept for later calls.
Answer ==
  /\ filter # Absent
  /\ phase = "idle"
  /\ filter = NoFilter => result_cache = Absent
  /\ table_cache # Absent
  /\ Return(Filtered(filter, table_cache))
  /\ result_cache' = IF filter = NoFilter THEN Filtered(filter, table_cache) ELSE result_cache
  /\ UNCHANGED <<parserVars, table_cache, calls>>

\* The exception ends the call; full_table and the parser go with it.
Throw ==
  /\ phase = "threw"
  /\ phase' = "idle"
  /\ filter' = Absent
  /\ UNCHANGED <<file, header, unread, buffer, parser, records, table_cache, result_cache,
                 returned, calls>>

LoadNext ==
  \/ \E f \in Filters : Call(f)
  \/ HitResult \/ OpenFails \/ Miss \/ Parse \/ Cache \/ Answer \/ Throw

\* One thread loads; nothing it does waits for another.
LoadSpec ==
  /\ LoadInit /\ [][LoadNext]_loadVars
  /\ WF_loadVars(HitResult \/ OpenFails \/ Miss \/ Parse \/ Cache \/ Answer \/ Throw)

-----------------------------------------------------------------------------
LoadTypeOK ==
  /\ ParserTypeOK
  /\ filter \in Filters \union {Absent}
  /\ phase # "idle" => filter # Absent
  /\ calls \in 0 .. MaxCalls

\* Whatever calls came before, with whatever filters and however they ended, an
\* answer is the rows of the file that its own filter keeps.
AnswersAgree ==
  returned # Absent /\ NumColumns(file) = Len(Attributes) =>
    /\ WellFormed(file, header)
    /\ returned.rows = Filtered(returned.filter, RowsOfFile(file, header))

\* Every call comes to an end, however the file is cut into buffers.
CallsEnd == filter # Absent ~> (filter = Absent \/ phase = "undefined")
=============================================================================
