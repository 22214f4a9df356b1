------------------------------ MODULE HashJoin ------------------------------
(***************************************************************************)
(* One hash join (JoinAlgorithm::run_int32 in execute_default.cpp): collect *)
(* the build side, build the table, probe it from several threads that      *)
(* steal blocks of probe rows and append matches to lists of their own,     *)
(* join the threads, and copy the rows of the lists into the pages of the   *)
(* output, whose columns are here the two key columns (any column of an     *)
(* input is copied the same way).                                           *)
(*                                                                          *)
(* The stealing loop is WorkStealing, with TotalWork the number of probe    *)
(* rows; the table is represented by the promise of JoinTable, refined by   *)
(* probing: a bucket holds the entries of every key of the same slot.       *)
(***************************************************************************)
EXTENDS WorkStealing, Pages, Functions, FiniteSetsExt

CONSTANTS
  Null,           \* NULL in a materialised column
  SlotOf,         \* SlotOf[k]: the slot a key's hash selects
  ValuesPerPage,  \* values_per_page of a materialised column
  BuildColumns,   \* the columns a build side may have
  ProbeColumns    \* the columns a probe side may have

ASSUME ThreadAssumption == Worker = 0 .. NumThreads - 1

Key == DOMAIN SlotOf
Cell == Key \union {Null}

\* A column: zero-copy ones read their source's pages in place and have no
\* NULL, the others are materialised in pages of ValuesPerPage values.
IsColumn(col) ==
  /\ col.zero_copy \in BOOLEAN
  /\ col.pages \in Seq(Seq(Cell))
  /\ \A p \in 1 .. Len(col.pages) : Len(col.pages[p]) > 0
  /\ col.zero_copy => \A r \in 1 .. NumRows(col.pages) : Rows(col.pages)[r] # Null
  /\ ~col.zero_copy => /\ \A p \in 1 .. Len(col.pages) : Len(col.pages[p]) <= ValuesPerPage
                       /\ \A p \in 1 .. Len(col.pages) - 1 : Len(col.pages[p]) = ValuesPerPage

ASSUME ColumnAssumption ==
  /\ Null \notin Key
  /\ ValuesPerPage \in Nat \ {0}
  /\ \A col \in BuildColumns \union ProbeColumns : IsColumn(col)
  /\ \A col \in ProbeColumns : NumRows(col.pages) = TotalWork

VARIABLES
  stage,       \* "build", "probe", "output" or "returned": where run_int32 is
  build_left,  \* which input builds the table
  build,       \* the build column
  probe,       \* the probe column
  table,       \* the entries in the hash table, in the order they were inserted
  page_idx,    \* each thread's page cursor over a zero-copy probe column
  out,         \* out_by_thread
  cached,      \* cached_page_idx of the left and the right column
  results,     \* the pages of the output
  out_idx      \* how many of its rows have been copied

outputVars == <<cached, results, out_idx>>
mainVars == <<stage, table, outputVars>>
inputVars == <<build_left, build, probe>>
joinVars == <<stage, build_left, build, probe, table, page_idx, out, outputVars, vars>>

JoinInit ==
  /\ Init
  /\ stage = "build"
  /\ build_left \in BOOLEAN
  /\ build \in BuildColumns
  /\ probe \in ProbeColumns
  /\ table = <<>>
  /\ page_idx = [w \in Worker |-> 0]
  /\ out = [w \in Worker |-> <<>>]
  /\ cached = [left |-> 0, right |-> 0]
  /\ results = <<>>
  /\ out_idx = 0

-----------------------------------------------------------------------------
(* Build.                                                                  *)

\* is_zero_copy && src_column != nullptr && page_offsets.size() >= 2
ReadsPages(col) == col.zero_copy /\ Len(col.pages) >= 1

\* A value of a column, on page p when the pages are read in place; beside the rows
\* of that page lies no value of the column.
ValueAt(col, p, row) ==
  LET slot == row - PageOffsets(col.pages)[p] + 1
  IN  IF ~ReadsPages(col)
        THEN col.pages[(row \div ValuesPerPage) + 1][(row % ValuesPerPage) + 1]
      ELSE IF slot \in DOMAIN col.pages[p + 1] THEN col.pages[p + 1][slot]
      ELSE Null

NumberedRows(col) ==
  [r \in 1 .. NumRows(col.pages) |-> [key |-> Rows(col.pages)[r], row_id |-> r - 1]]

\* (Definitions whose name ends in _bug are plausible mistakes, used by no
\* specification.)  NULL rows are inserted like any other.
NonNull_bug(entry) == TRUE

NonNull(entry) == entry.key # Null

\* The table is built straight from the pages, every row included.
BuildFromPages ==
  /\ stage = "build"
  /\ ReadsPages(build)
  /\ table' = NumberedRows(build)
  /\ stage' = "probe"
  /\ UNCHANGED <<inputVars, page_idx, out, outputVars, vars>>

\* The rows that are not NULL are copied first; with none there is no output.
BuildFromCopy ==
  /\ stage = "build"
  /\ ~ReadsPages(build)
  /\ LET rows == NumberedRows(build)
         collected == Kept(rows, {entry \in Range(rows) : NonNull(entry)})
     IN  /\ table' = collected
         /\ stage' = IF collected = <<>> THEN "returned" ELSE "probe"
  /\ UNCHANGED <<inputVars, page_idx, out, outputVars, vars>>

-----------------------------------------------------------------------------
(* Probe: each thread runs the loop of WorkStealing.                       *)

Offsets == PageOffsets(probe.pages)

\* The cursor of a new block: page 0 unless the block starts past it.
StartPage(row) == IF row >= Offsets[1] THEN FindPage(Offsets, row) ELSE 0

\* while (j >= next) ++page_idx
AdvancePage(p, row) ==
  CHOOSE q \in p .. Len(probe.pages) - 1 :
    /\ row < Offsets[q + 1]
    /\ \A m \in p .. q - 1 : row >= Offsets[m + 1]

\* The probe key of row j: data[j - base] on the cursor's page, or the value at
\* j / values_per_page, j % values_per_page.
KeyRead(p, row) == ValueAt(probe, p, row)

\* The bucket probe() returns: every entry of the key's slot.
Bucket(k) == Kept(table, {entry \in Range(table) : SlotOf[entry.key] = SlotOf[k]})

\* The bucket is emitted without comparing keys.
PairsFor_bug(k, row) ==
  LET hits == IF k = Null THEN <<>> ELSE Bucket(k)
  IN  [h \in DOMAIN hits |-> IF build_left
                               THEN [lidx |-> hits[h].row_id, ridx |-> row]
                               ELSE [lidx |-> row, ridx |-> hits[h].row_id]]

\* The pairs appended for one probe row: a NULL key has none; the scan of the
\* bucket keeps the entries with the same key.
PairsFor(k, row) ==
  LET hits == IF k = Null THEN <<>>
              ELSE Kept(Bucket(k), {entry \in Range(table) : entry.key = k})
  IN  [h \in DOMAIN hits |-> IF build_left
                               THEN [lidx |-> hits[h].row_id, ridx |-> row]
                               ELSE [lidx |-> row, ridx |-> hits[h].row_id]]

\* The two outcomes of steal_block and the fetch_add before them.
Steal(w) ==
  /\ stage = "probe"
  /\ FetchAdd(w) \/ NoWorkLeft(w)
  /\ UNCHANGED <<mainVars, inputVars, page_idx, out>>

OpenBlock(w) ==
  /\ stage = "probe"
  /\ BlockGiven(w)
  /\ page_idx' = IF ReadsPages(probe)
                   THEN [page_idx EXCEPT ![w] = StartPage(begin[w])]
                   ELSE page_idx
  /\ UNCHANGED <<mainVars, inputVars, out>>

ProbeRow(w) ==
  /\ stage = "probe"
  /\ ScanRow(w)
  /\ LET row == begin[w]
         p == IF ReadsPages(probe) THEN AdvancePage(page_idx[w], row) ELSE page_idx[w]
     IN  /\ page_idx' = [page_idx EXCEPT ![w] = p]
         /\ out' = [out EXCEPT ![w] = @ \o PairsFor(KeyRead(p, row), row)]
  /\ UNCHANGED <<mainVars, inputVars>>

CloseBlock(w) ==
  /\ stage = "probe"
  /\ BlockFinished(w)
  /\ UNCHANGED <<mainVars, inputVars, page_idx, out>>

ThreadStep(w) == Steal(w) \/ OpenBlock(w) \/ ProbeRow(w) \/ CloseBlock(w)

-----------------------------------------------------------------------------
(* Output.                                                                 *)

\* The threads' lists one after the other, from thread 0 on.
Gathered == Rows([t \in 1 .. NumThreads |-> out[t - 1]])

LeftColumn == IF build_left THEN build ELSE probe
RightColumn == IF build_left THEN probe ELSE build

\* Pages for all rows, the last one cut to size, with nothing in them yet.
Unwritten == [pair |-> Null, left |-> Null, right |-> Null]
OutputPages(total) ==
  [p \in 1 .. (total + ValuesPerPage - 1) \div ValuesPerPage |->
     [i \in 1 .. Min({ValuesPerPage, total - (p - 1) * ValuesPerPage}) |-> Unwritten]]

\* th.join() on every thread; without a match the empty result is returned.
JoinThreads ==
  /\ stage = "probe"
  /\ AllDone
  /\ stage' = IF Gathered = <<>> THEN "returned" ELSE "output"
  /\ results' = OutputPages(Len(Gathered))
  /\ UNCHANGED <<inputVars, table, page_idx, out, cached, out_idx, vars>>

\* The page get() reads for a row, which the column remembers.
PageRead(col, p, row) ==
  IF ReadsPages(col) THEN PageFrom(PageOffsets(col.pages), p, row) ELSE p

\* One thread copies the rows in the order of the lists (parallel_materialize is
\* the constant false).
CopyRow ==
  /\ stage = "output" /\ out_idx < Len(Gathered)
  /\ LET pair == Gathered[out_idx + 1]
     IN  /\ cached' = [left |-> PageRead(LeftColumn, cached.left, pair.lidx),
                       right |-> PageRead(RightColumn, cached.right, pair.ridx)]
         /\ results' =
              [results EXCEPT ![(out_idx \div ValuesPerPage) + 1][(out_idx % ValuesPerPage) + 1] =
                 [pair |-> pair,
                  left |-> ValueAt(LeftColumn, cached'.left, pair.lidx),
                  right |-> ValueAt(RightColumn, cached'.right, pair.ridx)]]
  /\ out_idx' = out_idx + 1
  /\ UNCHANGED <<stage, inputVars, table, page_idx, out, vars>>

ReturnRows ==
  /\ stage = "output" /\ out_idx = Len(Gathered)
  /\ stage' = "returned"
  /\ UNCHANGED <<inputVars, table, page_idx, out, outputVars, vars>>

MainStep == BuildFromPages \/ BuildFromCopy \/ JoinThreads \/ CopyRow \/ ReturnRows

JoinNext == MainStep \/ \E w \in Worker : ThreadStep(w)

JoinSpec == JoinInit /\ [][JoinNext]_joinVars

\* The calling thread and the probe threads keep being scheduled.
FairJoinSpec ==
  /\ JoinSpec
  /\ WF_joinVars(MainStep)
  /\ \A w \in Worker : WF_joinVars(ThreadStep(w))

-----------------------------------------------------------------------------
JoinTypeOK ==
  /\ stage \in {"build", "probe", "output", "returned"}
  /\ build_left \in BOOLEAN
  /\ build \in BuildColumns /\ probe \in ProbeColumns
  /\ \A t \in DOMAIN table : table[t].key # Null
  /\ page_idx \in [Worker -> Nat]
  /\ \A w \in Worker : IsFiniteSet(DOMAIN out[w])

\* A thread's cursor never runs ahead of the row it is about to read, so the
\* while loop that advances it finds the row's page and stays in the column.
CursorBehindRow ==
  \A w \in Worker :
    stage = "probe" /\ ReadsPages(probe) /\ pc[w] = "scan" /\ begin[w] < end[w] =>
      /\ page_idx[w] < Len(probe.pages)
      /\ Offsets[page_idx[w]] <= begin[w]
      /\ KeyRead(AdvancePage(page_idx[w], begin[w]), begin[w]) = Rows(probe.pages)[begin[w] + 1]

\* Every row of the output holds the values of the rows it was made from, although
\* a column read in place remembers a page from one row to the next and the rows of
\* the build side come in any order; every row of every page is written.
RowsCopied ==
  stage = "returned" /\ results # <<>> =>
    LET rows == Rows(results)
    IN  /\ Len(rows) = Len(Gathered)
        /\ \A r \in DOMAIN rows :
             /\ rows[r].pair = Gathered[r]
             /\ rows[r].left = Rows(LeftColumn.pages)[Gathered[r].lidx + 1]
             /\ rows[r].right = Rows(RightColumn.pages)[Gathered[r].ridx + 1]

\* The refinement mapping: the pairs in the threads' lists are the pairs found, and
\* the result's rows are named by their pairs.
PairsWritten == LET rows == Rows(results) IN [r \in DOMAIN rows |-> rows[r].pair]
EquiJoinPromise == INSTANCE EquiJoin WITH
  left     <- Rows(LeftColumn.pages),
  right    <- Rows(RightColumn.pages),
  found    <- UNION {Range(out[w]) : w \in Worker},
  returned <- stage = "returned",
  result   <- IF stage = "returned" THEN PairsWritten ELSE <<>>

\* However the threads interleave, the result is the equi-join: every matching
\* pair once, in the orientation of the inputs, NULL matching nothing.
ImplementsEquiJoin == EquiJoinPromise!Spec

\* The join returns.
JoinReturns == <>(stage = "returned")
=============================================================================
