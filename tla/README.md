# A verification of the hash-join engine

This directory holds TLA+ models of the in-memory join engine of this
repository, the TLC configurations that check them on small instances, and
proofs, checked by TLAPS, of what holds for every instance.  Source paths are
relative to the repository's root.

- [The system](#the-system): its components, their state, what is hard in them
- [The modules](#the-modules): which module models what, and how
- [The runs](#the-runs): what each checks, the bounds, the fairness assumed
- [The proofs](#the-proofs): theorems, assumptions, invariants
- [Disagreements found](#disagreements-found)
- [What is not modelled](#what-is-not-modelled)
- [Plan](#plan)

To run one of them, in this directory:

    tlc -workers 2 -config MCHashJoin.cfg MCHashJoin.tla
    tlapm HashJoinProofs.tla

## The system

A query is a tree of scans and equi-joins over columnar tables.  The driver
(`tests/read_sql.cpp`) takes its WHERE clause apart into one filter per table
and sets of equal columns, turns an EXPLAIN tree into a `Plan`, loads CSV files
into columns of 8 KiB pages, filters them, and calls `Contest::execute`, which
evaluates the tree and returns a `ColumnarTable`.  Two programs built from the
driver share a directory of cache files, dumped by one and mapped by the other.

    CSV file --> CsvParser --> Table --> InnerTable --> filter --> ColumnarTable
                       (from_csv)        (FilterThreadPool)    (ColumnInserter)
                                                                     |
       cache file  <-- build_cache, --> fast (from_cache) -----------+
                                                                     |
       ColumnarTable <-- finalize <-- execute_impl (tree) <-- scan --+
                                          |
                                      run_int32:  build table, then
                                      threads: steal_block, probe, append

The core is the join: the probe side is shared by threads that take blocks of
rows from one atomic counter.  Everything else in `execute` runs on the calling
thread.  Loading has a second set of threads, which evaluate filters over
shards of a bitmap.

### Components

**Work-stealing coordinator** (`src/work_stealing.cpp`,
`include/work_stealing.h`). State: an atomic counter, the number of rows, a
block size computed once. Operations: `get_block_size`, `steal_block`.  Called
by every probe thread, with no lock.  Hard: the fetched value is compared and
used after other threads have moved the counter; the counter runs past the end
of the work, once per thread; a block size of zero would hand out empty blocks
for ever.  Correct when every row is processed once, nobody goes home while
work is waiting, and every thread returns.

**Unchained hash table** (`include/parallel_unchained_hashtable.h`; the table
`execute_default.cpp` uses).  State: the directory of END offsets, Bloom tags,
counters and write pointers per slot, the tuples.  Operations: `reserve`,
`build_from_entries`, `build_from_zero_copy_int32`, `probe`.  Written by one
thread, then only read.  Hard: three passes over the same arrays, buffers
reused by the next build, END pointers of one slot that are begin pointers of
the next, a Bloom test that may lose matches silently.  Correct when a probe
finds exactly the entries of the last build.

**Robin Hood, cuckoo and hopscotch tables** (`include/robinhood.h`, `cuckoo.h`,
`hopscotch.h` and their wrappers).  The alternatives behind the same interface.
Their `#include`s are commented out in `execute_default.cpp:16-18`, and no test
covers them: each wrapper defines the same `create_hashtable()`, so the tests
have the unchained table only (`docs/SOFTWARE_TESTER.md:495,517,634`).  State:
slots, a row list per key, hop bitmaps.  Hard: an entry in hand is in no slot
while others are displaced; insertion may give up; a rehash or a doubling
starts all over; a probe relies on an order of the slots; a build appends its
rows to a storage that two of the three do not clear.

**Hash join** (`src/execute_default.cpp`, `run_int32`).  State: the build
entries, the table, the coordinator, one cursor and one output list per thread.
Hard: interleavings of the probe, cursors over pages in the middle of which
blocks start, three early returns, columns read in place or from materialised
words.  Correct when the output is every matching pair once, in the orientation
of the plan, NULL matching nothing.

**Plan executor** (`src/execute_default.cpp`, `execute_impl`, `execute`;
`include/plan.h`).  State: the stack of calls and the column buffers returned.
Hard: output attributes number the left columns and then the right ones, with
the build side on either hand; the words copied have no types of their own.

**Values, columns, scan, resolver, finalisation**
(`include/late_materialization.h`, `src/late_materialization.cpp`,
`include/columnar.h`).  A row of an intermediate buffer is a 64-bit word: an
integer, a packed reference (table, column, page, slot) to a string, or all
ones for NULL.  INT32 columns without NULL are not copied but read from their
pages.  Strings are resolved once, when the result is written.  Hard: NULL has
no bit of its own; a string may fill several pages; the test whether a column
has NULLs reads partial bitmap bytes.

**Page writers and readers** (`include/plan.h`, `ColumnInserter`;
`src/build_table.cpp`, `Table::to_columnar`, `Table::from_columnar`).  State:
the current page under construction, counts, a bitmap buffer.  A page holds a
row count, a value (or offset) count, values from the front, the validity
bitmap at the back.  Hard: the arithmetic of what still fits; the bitmap moves
as rows are added; marks in the row counter for pages of a long string; two
writers that have to agree with three readers.

**CSV parser and loading** (`src/csv_parser.cpp`, `src/build_table.cpp`,
`include/table.h`).  State: the parser's flags and current field, the record
under construction, two static caches by path.  Hard: a buffer may end
anywhere, between `\r` and `\n` too; the end of the file may or may not be a
line end; exceptions in the middle; cached answers for calls with other
filters.

**Filters** (`include/inner_column.h`, `src/statement.cpp`).  State: columns
with a bitmap of non-NULL rows, the bitmap each statement returns, the shards
of a run. Hard: threads add bits to the bytes of one vector with a plain `|=`;
complements set bits after the last row; all threads store one row count.

**Cache files** (`include/table.h`, `DumpTable`; `src/build_table.cpp`,
`from_cache`; the `build_cache` and `fast` builds of `tests/read_sql.cpp`).
State: one file per pair of a table and a filter and one per result, in a
directory.  Operations: dump a table block by block, map a file column by
column, compare a result.  Hard: a file that exists is taken for complete; a
program killed in the middle, or a disk that is full, leaves a prefix; what
`build_cache` loads or converts may outlive the query it was for.  Correct when
a file whose dump was finished serves the table that was dumped, whatever
happened to other files, and when no file changes under a mapping of it.

**Ownership of pages** (`include/plan.h`, `Column`, `MappedMemory`).  State:
the references a mapping counts, and the heap pages.  Hard: every column of a
table has a part in one mapping; columns move when a vector grows; a mapping is
made before any column refers to it.  Correct when each page is freed once,
with the last column that refers to it, on every way out of a query.

**Driver** (`tests/read_sql.cpp`).  State: the filters and the sets of equal
columns a WHERE clause has given so far, the plan under construction.  Hard:
what a clause means and what survives of it are far apart; the condition a join
gets depends on the iteration order of an `unordered_map`; the columns each
node returns depend on what its parents need; a child that is a `Hash` is the
build side, wherever it stands.

The other components (telemetry, hardware constants, code called by nothing,
database builder, tests) are under [What is not
modelled](#what-is-not-modelled).  `PROJECT.json` lists every component and,
under `hazards`, what is hard to test in them, line by line.

## The modules

| Code | Abstract promise | Detailed module | Checked by | Proved in |
|---|---|---|---|---|
| `work_stealing.cpp` | `WorkPool` | `WorkStealing` | `WorkStealing.cfg` | `HashJoinProofs` |
| `parallel_unchained_hashtable.h` | `JoinTable` | `UnchainedTable`, in `KeyTables` | `MCKeyTables` | `KeyTablesProofs` |
| `robinhood.h`, `cuckoo.h`, `hopscotch.h` | `JoinTable` | `RobinHood`, `Cuckoo`, `Hopscotch` (over `KeyIndex`), in `KeyTables` | `MCKeyTables` | `KeyTablesProofs` |
| `run_int32` | `EquiJoin` | `HashJoin` (extends `WorkStealing`, `Pages`) | `MCHashJoin` | `HashJoinProofs` |
| `execute_impl`, `execute` | rows by the relational definition | `PlanExec` (uses `EquiJoin`, `Values`) | `MCPlanExec` | `PlanExecProofs` |
| `read_sql.cpp`, from a clause to a result | SQL's meaning of the query | `WhereClause`, `PlanBuilder`, `RunQuery` | `MCPlanExec` | |
| `ColumnInserter<T>`, `to_columnar`, `from_columnar` | the history of inserted rows | `PageWriter`, `TableWriter` (over `PageFormat`) | `MCPageWriter` | `PageWriterProofs` |
| the same for strings, `StringRefResolver` | the history of inserted rows | `StringPages`, `TableStrings` | `MCStringPages` | `StringPagesProofs` |
| `csv_parser.cpp`, `from_csv` | `CsvFormat` | `CsvParser`, `FromCsv` | `MCFromCsv` | `LoadingProofs` |
| `inner_column.h`, `statement.cpp` | evaluation record by record | `InnerColumns`, `FilterPool`, `Filter` | `MCFilter` | `LoadingProofs` |
| `DumpTable`, `from_cache`, `Column`, `MappedMemory` | the tables that were dumped | `CacheFiles` (over `Ownership`) | `MCCacheFiles` | `CacheFilesProofs` |

`Pages` has what several of them share: the rows of a column that is a sequence
of pages, the searches for the page of a row, and the list of the rows a test
keeps. `PagesProofs` has the lemmas about them, and about quotients and
induction, that the other modules with proofs cite.

Names of variables, operators and actions are the source's where it has one.
Definitions whose name ends in `_bug` are plausible mistakes in the definition
they precede.  No specification uses them; each property of each run is known
to reject one of them, put in the place of the right definition.

**WorkStealing.** `steal_block` is two steps: `FetchAdd`, the only access to
shared state, and the thread-local decision `NoWorkLeft` or `BlockGiven`.
`ScanRow` is one iteration of the loop of the caller and `BlockFinished` its
exit.  The counter is modulo `Word`, as `size_t` is.  The history variable
`processed` counts how often the body ran for a row.  `WorkPool` is the
promise: items waiting are taken by one worker, finished once, and a worker
retires only when none is waiting.  The refinement takes a claim to happen at
the `fetch_add`.

**UnchainedTable.** Each loop of a build is an action per iteration:
`CountEntry` (counters and Bloom bits), `PrefixSlot` (prefix sums),
`AllocateTuples`, `ScatterEntry`.  `Reserve` computes the directory size.  The
hash function is a constant, `SlotOf` and `TagOf`, so that any collisions may
be chosen.  What survives from one build to the next survives in the model.
`JoinTable` is the promise: after a build the content is what was given.

**HashJoin.** `BuildFromPages` and `BuildFromCopy` are the two ways to collect
the build side, with the return when no key is left.  A probe thread's step is
`Steal`, `OpenBlock` (which places its page cursor), `ProbeRow` (which moves
the cursor, reads the key, filters the bucket and appends pairs) or
`CloseBlock`: each is the step of `WorkStealing` together with what the thread
does of its own.  `JoinThreads` is the join of all threads and the return when
nothing matched, and allocates the output; `CopyRow` copies one row, through
`column_t::get` with the page that remembers (`cached`, searched by
`PageFrom`); `ReturnRows` is the end.  The table is represented by what
`JoinTable` promises: a bucket is all the entries of the key's slot.

**PlanExec.** One action per step of the recursion: `ExecuteScan`, `CallChild`,
`ExecuteJoin`, `Throw` (a join on strings), `Finalize`.  A join is `EquiJoin`'s
result in any order: the order of rows depends on the threads, and the model
allows all of them.  Buffers hold words of `Values`: sign extension, the word
of NULL and packed references are computed as the code does, with fewer bits.

**WhereClause, PlanBuilder, RunQuery.** A clause is a tree in postorder, the
order in which `parse_expr_impl` comes back from its nodes.  `WhereClause`
folds over it and keeps the filters of the tables (`insert_filter`), the sets
of equal columns (`DSU::unite`) and whether an exception was thrown: the
conditions it cannot place are rejected where the code rejects them.
`PlanBuilder` has the join graph, the conditions between the two sides of a
join, the columns required of each node, and the numbers of the attributes; the
choice among several conditions is left open, since the code takes the last one
an `unordered_map` hands out.  `RunQuery` puts them together: `LoadPlan` builds
the plan and loads each scan's input through its filter, `Reject` is an
exception on the way, and the rest is `PlanExec`'s.  `Meaning` is what SQL says
the query is: all choices of a row per table for which the clause, with three
truth values, is true.

**PageWriter, TableWriter.** `Insert`, `InsertNull`, `Finalize` are
`ColumnInserter`'s operations, the other three the loop of `to_columnar`.  A
page under construction is its byte count `data_end`, its cells and its bitmap
buffer, stale bits included.  `SavedPage` is `save_page`: the bitmap is written
over the last bytes, and a value that reaches there becomes `Garbage`.
`DecodePage` and `ReadColumn` are the readers, `PageHasNulls` the scan's test
that allows a column to be read in place.

**StringPages, TableStrings.** The same for strings, which are told apart by
identity and position of each char.  Row counters 0xffff and 0xfffe mark the
pages of a long string.  `PageRefs` is the scan, `Resolve` the resolver with
its loop over pages, `CopiedRows` is `from_columnar`.

**RobinHood, Cuckoo, Hopscotch.** One action per step of the insertion loop, so
that the entry in hand, the displacement count and the hop bitmaps are seen in
every intermediate state; `Rehash`, `Grow` and the failure after the last
attempt are actions of their own.  A table may be built any number of times.
`Build` of the Robin Hood and cuckoo tables replaces slots and index entries
and leaves the storage, to which it appends its rows; the hopscotch table's
clears it; an empty build clears everything.  `KeyIndex` is what they share:
the rows grouped by key (`Groups`), the storage and the index entries made of
them.  A probe is its loop seen from the end: the nearest slot with the key
that no slot before it stops the loop at (`Hits`, `Stops`).

**KeyTables.** The four tables behind the interface of `hashtable_interface.h`:
`backend`, chosen at the start, is the one that the `#include` of
`execute_default.cpp` selects.  It contains the unchained table and one
instance of each of the others, under the same properties and the same promise,
`JoinTable`.  `Stale` names the state in which two of them do not keep it: a
storage with rows of earlier builds in front of the last list's.

**CsvParser, FromCsv.** One action per branch of the parser's loop on a
character.  `Read` takes any prefix of what is left as the next buffer.
`CsvFormat` says, without a parser, what the lines and fields of a text are. A
field is a number when it has a digit at least and not more than `MaxDigits`,
which stands for the range of `stoi`.  `FromCsv` adds the calls and the two
caches; `OpenFails` is a file that cannot be opened, `Throw` ends a call that
met an error in the middle.  Filtering there is the promise that `Filter` is
checked for.

**FilterPool, Filter.** `Run`, `Spawn` and `JoinThreads` are the thread pool,
with shards cut by `begin_idx`.  In a comparison a thread's `output[byte] |=
bit` is two steps, `LoadByte` and `StoreByte`; the bitwise operators are one
step per byte, which they only write.  `ConvertColumn` copies the kept rows of
one column and stores the row count.

**Ownership, CacheFiles.** `Ownership` says who frees the pages of a column:
`Map`, `Assign`, `MovedFrom` and `Destroy` are the constructor of a mapping,
the reference a column takes, what a move leaves behind, and the destructor;
`Grown` is a vector that moves its columns to a larger array.  `CacheFiles` has
two programs over one directory, one after the other.  A program of
`build_cache` dumps each file that does not exist (`StartDump`, `WriteBlock`,
`CloseFile`) and takes one that does for done (`SkipFile`).  A program of
`fast` maps (`OpenCache`, `EmplaceColumn`, `FinishTable`), executes
(`Execute`), compares and destroys, column by column.  A table scanned without
a filter (`Unfiltered`) is loaded twice by `StartDump`: `from_csv` keeps a copy
of it in its static `result_cache` (`build_table.cpp:372-374`), in `kept`.
`Crash` kills either at any step; the block being written may be on the disk in
half, which is enough of the first block to hold the counts.  `DiskFull` cuts a
dump short, and the program goes on as if it had not: the code looks at no
stream's state.  What a mapping shows behind the end of its file is `Garbage`,
or a fault that ends the process (`Fault`): a short file is not noticed by
`from_cache`, and nothing repairs it.  File names, which hold a hash of the
filter's text, are taken to be distinct.

### How the models compose

A component that uses another uses it in one of two ways.  Where they
interleave, the one contains the other: `HashJoin` extends `WorkStealing`,
`Filter` contains `FilterPool`, `FromCsv` contains `CsvParser`, `KeyTables`
contains `UnchainedTable` and the three others, `RunQuery` contains `PlanExec`.
Where the used component is sequential at that point, its checked promise
stands for it: `HashJoin` uses `JoinTable`'s promise (checked of all four
tables), `PlanExec` uses `EquiJoin` (checked of `HashJoin`), `FromCsv` and
`RunQuery` use record-by-record filtering (checked of `Filter`), and
`CacheFiles` takes an execution on the right inputs to give the right result
(checked of `RunQuery`).  `PlanExec` takes a column for its rows, which is what
`PageWriter` and `StringPages` check of pages.

That `HashJoin` runs the coordinator, and that `KeyTables` runs the unchained
table, is proved: what is proved of `WorkStealing` and of `UnchainedTable`
holds of the compositions.  So are four of the promises that stand for a
component: each of the four tables implements `JoinTable`, `HashJoin`
implements `EquiJoin`, `Filter` keeps the rows that the statement holds of,
record by record, and `FromCsv` answers with the rows of `CsvFormat`.

## The runs

| Run | Module, cfg | Distinct states | Properties |
|---|---|---|---|
| work_stealing | `WorkStealing` | 14,476 | ExactlyOnce, IInv, ImplementsPool, Termination |
| hash_join | `MCHashJoin` | 165,808 | JoinTypeOK, CursorBehindRow, RowsCopied, ImplementsEquiJoin, JoinReturns |
| plan_exec | `MCPlanExec` | 204,330 | TypeOK, BuffersCorrect, ResultCorrect |
| page_writer | `MCPageWriter` | 118,096 | TypeOK, LayoutDisjoint, ReadsBack, ZeroCopySound |
| string_pages | `MCStringPages` | 380,640 | TypeOK, LayoutDisjoint, RowsBelowMarkers, ReadersReturnRows |
| key_tables | `MCKeyTables` | 240,127 | TablesTypeOK, ProbeExact, ScatterInSlot, EntriesReachable, GivesUpJustified, IndexProbeExact, ImplementsTable, BuildTerminates |
| from_csv | `MCFromCsv` | 528,007 | LoadTypeOK, LoadsFile, AnswersAgree, CallsEnd |
| filters | `MCFilter` | 9,123 | TypeOK, NoLostBits, KeepsMatchingRows, FilterEnds |
| cache_files | `MCCacheFiles` | 427,547 | TypeOK, ServesTables, MappingsOwned, FilesNeverRewritten |
| wide_values | `MCPageWriter`, `MCPageWriterWide.cfg` | violation | LayoutDisjoint |
| long_strings | `MCStringPages`, `MCLongStrings.cfg` | violation | ReadsBack |
| minus_one | `MCPlanExec`, `MCMinusOne.cfg` | violation | ResultCorrect |

Each module has one type invariant; the other properties are these.

**work_stealing.** Three threads, seven rows, blocks of two, so that the last
block is short, threads outnumber the blocks left at the end, and every thread
overshoots the counter.  `Word` is 16, the least that `NoWrapAssumption`
allows.  `ExactlyOnce`: no row is processed twice, and none is skipped once all
threads are done.  `ImplementsPool`: the refinement.  `IInv` is the invariant
the proofs use, checked first. `Termination` holds because `min_block_size`
keeps the block size from zero.

**hash_join.** Two threads, five probe rows, blocks of two (three blocks, the
last one short), page splits inside and at the ends of blocks, NULLs on both
sides, duplicates on both sides, keys that share a slot, empty and all-NULL
build sides, build side on either hand: 408 combinations of columns.
`CursorBehindRow`: a thread's cursor is never past the row it is about to read,
and reads that row's key.  `RowsCopied`: every row of the output is written and
holds the values of the rows it was made from, although the page that `get`
remembers moves forwards and backwards with the rows of the build side.
`ImplementsEquiJoin`: the result is the equi-join in every interleaving.

**plan_exec.** 25 queries: two and three tables of one and two rows, EXPLAIN
trees that lean to either side, either child hashed, a join on a column that an
earlier join has materialised, a join on strings (which throws); clauses with
every form of filter, with a negated condition, and ones that are rejected,
each for another reason.  The tables hold all choices of three integers and
NULL, the least integer of the width included.  Words have 6 bits and integers
3, which leaves room for sign extension and for references that differ from
NULL. `BuffersCorrect`: every intermediate buffer has the rows its subtree
means. `ResultCorrect`: the result has every row the query means, as a bag, and
no others.  Three kinds of query are excepted, and for each the run has one
that would be refuted without its exception: a join whose conditions come from
several sets, of which a plan compares one (`OneSetPerJoin`); NOT of a
comparison with NULL, which a bitmap takes for true (`NotOnlyOfNullTests`); NOT
of a condition between columns, which is enforced instead (`NotOfColumns`).
All 113 queries of `plans.json` have joins of one set each, none is rejected,
and none negates a condition between columns.

**page_writer.** A page of 16 bytes, with bytes of two bits, holds two values
of four bytes and up to six NULLs, so nine rows need up to five pages; the
boundary between data and bitmap is reached by values and by NULLs, with a full
last bitmap byte and with a partial one.  `LayoutDisjoint`: the values end
where the bitmap begins or before.  `ReadsBack`: the reader returns the rows
inserted.  `ZeroCopySound`: a column the scan reads in place has no NULL.

**string_pages.** Pages of 12 bytes with bytes of one bit; strings of 0, 1, 5,
6 and 11 chars, which are the empty string, one that shares a page, the largest
short one, and long ones of one page and of two.  Up to three of them with nine
NULLs give every order of short, long and NULL rows over a page boundary.
`RowsBelowMarkers`: no page of ordinary rows has a count that marks a long
string; the marks are as close to the largest count as the page size allows.
`ReadersReturnRows`: what the resolver returns for each reference, adjacent
long strings excepted (see below), and what `from_columnar` copies, without an
exception, are the rows inserted.

**key_tables.** Unchained table: any sequence of reserves and builds of lists
of up to three entries, over directories of two and four slots in which keys
collide in the one and not in the other, with overlapping Bloom tags; key 0,
the key of a blank tuple, is among the keys.  Three entries are enough to have
a slot with two, a slot between two others and an empty slot; two builds in a
row are enough for leftovers to show.  The three other tables: lists of up to
five entries with duplicate keys, under 3,384 assignments of homes to keys: all
of one home, neighbours, and homes on both sides of the end of the array. The
limits are small enough to be reached: rehashes, doublings and the final
failure happen.  Builds follow one another as long as the storage has no more
than eight rows (`MaxStorage`), so that a list of four comes behind another; a
hopscotch table, which clears its storage, and an empty build go on for ever.
`ProbeExact`: a probe of the unchained table returns the entries of its key
that the last build was given.  `IndexProbeExact`: a probe of the others
returns as many rows as its key has, and these rows, unless the table is
`Stale`. `ScatterInSlot`: the copy loop writes inside the slot's range.
`EntriesReachable`: the order that probes rely on holds and no entry but the
one in hand is missing from its slots. `GivesUpJustified`: Robin Hood insertion
never gives up, and a cuckoo insertion gives up only when the keys cannot all
have slots (of a limit of four displacements and five keys; that the limit of
the code is enough for any number of keys is not claimed).  `ImplementsTable`:
the promise the join relies on.  The unchained and hopscotch tables keep it
through any sequence of builds, a failed one included; the Robin Hood and
cuckoo tables in the first build, in each after an empty one, and in no state
that is stale (see [Disagreements found](#disagreements-found)).  A join builds
the table it has created once (`execute_default.cpp:42`), and so never sees a
stale one.  `BuildTerminates`: every build ends, a stale one too.

**from_csv.** 2,076 texts of up to seven characters over a digit, comma, line
feed, carriage return, quote and backslash, in every cut into buffers, with and
without a header line, for a table of an integer and a string column; two calls
with a filter or none, whose file may fail to open.  Numbers have up to three
digits, of which two are in range.  The empty file is among the texts; it has
one record of one empty field, so for a table of two columns it is an error,
and that it gives a row to a table of one column is in the proof only.
`LoadsFile`: a call that succeeds has the rows that `CsvFormat` says the text
has, and one that throws had a reason to. `AnswersAgree`: an answer has the
rows of its own filter, whatever calls came before.

**filters.** Five tables of no rows up to seven, with a full byte, a byte and a
part, and more bytes than threads; 26 statements with every operator, nested up
to three deep; three threads.  `NoLostBits`: nobody writes a byte between a
thread's load and its store.  `KeepsMatchingRows`: the kept rows are those for
which the statement is true evaluated record by record, and the row count
stored last, by whichever thread, is theirs.

**cache_files.** Two tables, one of three columns with an empty one among them
and one of two, which is read without a filter; two queries, one of which reads
both tables and the other one table twice.  Any sequence of `build_cache` and
`fast` programs, each killed at any step or none, on a disk that may be full at
any block.  `ServesTables`: a complete file serves the table that was dumped,
page for page, whatever was cut short beside it and in whatever order, and a
query with complete files is found correct.  `MappingsOwned`: at every step, on
the way of an exception too, each mapping is mapped as long as a column refers
to it and has a reference for each column that does, each heap page has one
owner, and nothing outlives its query but, in `build_cache`, the converted
result and the copies that `from_csv` keeps of unfiltered tables (see below);
`fast` has neither.  `FilesNeverRewritten`: a file only grows, and only by the
dump that created it.  Deadlock is checked.

### Bounds

A bound is a constant of the model or a set in the MC module.  `MaxRows`,
`MaxStrings`, `MaxNulls`, `MaxCalls` and `MaxStorage` bound what the
environment does and occur in guards; they stand for nothing in the code.  All
other constants (`PageSize`, `Word`, `MinBlockSize`, `ValuesPerPage`,
`MaxDirSize`, `MaxDisplacements`, `MaxDigits` and so on) are the code's own
limits made small enough to be reached.  The number of programs of
`cache_files` needs no bound: the state they leave is the directory.  Symmetry
is not used: the instances are small, and most runs check a temporal property.

### Fairness

Every fairness assumption is weak and says that the operating system runs a
thread that can run.  `WorkStealing` and `HashJoin`: one per probe thread, and
in `HashJoin` one for the calling thread.  `Filter`: one for the caller and one
per thread of a run.  No thread ever waits but in a thread join, so a thread
that is scheduled makes a step.  `KeyTables` and `FromCsv` run on one thread: a
build that has started, or the call in progress, goes on; nothing obliges the
environment to start one.  `CacheFiles`, whose programs may be killed, and the
other modules state no fairness and no liveness.  In `FromCsv` calls come to an
end with an answer, an exception, or, for a file with more columns than the
table, in the state `"undefined"`, where the code reads past the attributes.

`CHECK_DEADLOCK FALSE` is in the configurations of systems that stop: threads
return, columns are finished, calls are used up, a build has thrown.

## The proofs

TLAPS checks these for every value of the constants the assumptions admit.

| Theorem | Statement | Assumptions |
|---|---|---|
| `HashJoinProofs!Inductive` | `Spec => []IInv` | ConfigAssumption, NoWrapAssumption |
| `HashJoinProofs!TypeCorrect` | `Spec => []TypeOK` | the same |
| `HashJoinProofs!ExactlyOnceHolds` | `Spec => []ExactlyOnce` | the same |
| `HashJoinProofs!PoolRefinement` | `Spec => ImplementsPool` | the same |
| `HashJoinProofs!JoinRunsCoordinator` | `JoinSpec => Spec` | |
| `HashJoinProofs!JoinProbesOnce` | `JoinSpec => []ExactlyOnce` | ConfigAssumption, NoWrapAssumption |
| `HashJoinProofs!OutputIsComplete` | `JoinSpec => []RowsProbed` | the same |
| `HashJoinProofs!JoinInvariant` | `JoinSpec => [](IInv /\ JoinInv)` | the same, ThreadAssumption, ColumnAssumption |
| `HashJoinProofs!JoinTypeCorrect` | `JoinSpec => []JoinTypeOK` | the same |
| `HashJoinProofs!CursorStaysBehind` | `JoinSpec => []CursorBehindRow` | the same |
| `HashJoinProofs!RowsCopiedHolds` | `JoinSpec => []RowsCopied` | the same |
| `HashJoinProofs!EquiJoinRefinement` | `JoinSpec => ImplementsEquiJoin` | the same |
| `PlanExecProofs!ExecTypeCorrect` | `RunSpec /\ []PlanFits => []TypeOK` | WidthAssumption |
| `PlanExecProofs!ExecBuffersCorrect` | `RunSpec /\ []PlanFits => []BuffersCorrect` | WidthAssumption |
| `KeyTablesProofs!CopiesStayInSlot` | `Spec => []ScatterInSlot` | EntryAssumption, SlotAssumption |
| `KeyTablesProofs!ProbesFindEntries` | `Spec => []ProbeExact` | the same |
| `KeyTablesProofs!UnchainedBehindInterface` | `TablesSpec => [](ScatterInSlot /\ ProbeExact)` | the same |
| `KeyTablesProofs!UnchainedTypesHold` | `Spec => []TypeOK` | the same, SizeAssumption |
| `KeyTablesProofs!TablesTypesHold` | `TablesSpec => []TablesTypeOK` | the same, IndexAssumption |
| `KeyTablesProofs!EntriesStayReachable` | `TablesSpec => []EntriesReachable` | the same |
| `KeyTablesProofs!IndexProbesExact` | `TablesSpec => []IndexProbeExact` | the same |
| `KeyTablesProofs!RobinHoodAlwaysInserts` | `TablesSpec => [](backend = "RobinHood" => RobinHood!NeverGivesUp)` | the same |
| `KeyTablesProofs!TablesKeepPromise` | `TablesSpec => ImplementsTable` | the same |
| `LoadingProofs!NoBitLost` | `Spec => []NoLostBits` | NumThreadsAssumption, ByteAssumption, TableAssumption |
| `LoadingProofs!FilterTypeCorrect` | `Spec => []TypeOK` | the same, StatementAssumption, NullAssumption |
| `LoadingProofs!FilterKeepsMatchingRows` | `Spec => []KeepsMatchingRows` | the same |
| `LoadingProofs!ColumnReads` | what `InnerColumn(type, values)` gives back | ByteAssumption, NullAssumption |
| `LoadingProofs!LoadTypesHold` | `LoadSpec => []LoadTypeOK` | FilesAssumption, DigitsAssumption |
| `LoadingProofs!FilesAreLoaded` | `LoadSpec => []LoadsFile` | the same |
| `LoadingProofs!CachedAnswersAgree` | `LoadSpec => []AnswersAgree` | the same |
| `CacheFilesProofs!CacheTypeCorrect` | `Spec => []TypeOK` | CacheAssumption |
| `CacheFilesProofs!CacheServesTables` | `Spec => []ServesTables` | the same |
| `CacheFilesProofs!FilesOnlyGrow` | `Spec => FilesNeverRewritten` | the same |
| `CacheFilesProofs!CacheMappingsOwned` | `Spec => []MappingsOwned` | the same |
| `PageWriterProofs!ValuesBeforeBitmap` | `Spec => [](TypeOK /\ LayoutDisjoint)` | SizeAssumption, WriterAssumption, `ValueSize <= InsertReserve` |
| `PageWriterProofs!WriterTypeCorrect` | `Spec => []TypeOK` | the same |
| `PageWriterProofs!InserterReadsBack` | `Spec => []ReadsBack` | the same |
| `PageWriterProofs!InserterZeroCopySound` | `Spec => []ZeroCopySound` | the same |
| `PageWriterProofs!TableValuesBeforeBitmap` | `TableSpec => [](TypeOK /\ LayoutDisjoint)` | SizeAssumption, WriterAssumption |
| `PageWriterProofs!TableReadsBack` | `TableSpec => [](ReadsBack /\ ZeroCopySound)` | the same |
| `StringPagesProofs!StringTypeCorrect` | `Spec => []TypeOK` | SizeAssumption, StringAssumption |
| `StringPagesProofs!StringLayout` | `Spec => []LayoutDisjoint` | the same |
| `StringPagesProofs!StringMarkers` | `Spec => []RowsBelowMarkers` | the same |
| `StringPagesProofs!TableStringLayout` | `TableSpec => [](TypeOK /\ LayoutDisjoint /\ RowsBelowMarkers)` | the same |
| `StringPagesProofs!StringsReadBack` | `Spec => []ReadersReturnRows` | the same |
| `StringPagesProofs!TableStringsReadBack` | `TableSpec => []ReadersReturnRows` | the same |

**Recursion.**  What a recursive function computes is proved by induction over
a set of numbers: the numbers for which the fact holds contain 0 and the
successor of each, so they are all numbers (`Induction` in `PagesProofs`, from
the well-foundedness of `<`).  A function defined by recursion is a CHOOSE, so
that the first thing to prove of each is that a function with its equation
exists (`OffsetsDefined`, `SearchDefined`, `RowsDefined`, `KeptDefined`,
`Pow2Defined`, `RelationalRowsDefined`, `TokensDefined`, `PiecesDefined`).

**Work stealing.**  `ConfigAssumption` says that the constants are natural
numbers and the set of workers finite and not empty; `NumThreads` need not be
its size, since the code takes it from a configuration.  `NoWrapAssumption`
says that `size_t` has room for the work and one block more than there are
workers. `ExactlyOnce` is not inductive: it does not see the rows a worker has
claimed and not reached, nor the counter that later claims start from. `IInv`
adds that claims are disjoint, lie behind the counter and are still unprocessed
(`ClaimsDisjoint`); that behind the counter a row is claimed or processed and
ahead of it untouched (`Accounted`); what a worker's old locals still say of
the counter (`LocalsCurrent`); and that the counter has passed the end by at
most a block per worker whose `fetch_add` came too late (`OvershootBounded`),
without which the sum might wrap and rows be given twice.  There is a lemma per
action, and the refinement is proved from the same invariant, action by action:
`FetchAdd` is the pool's `Take` or, past the end, a stutter; `ScanRow` is
`Finish`; `NoWorkLeft` is `Retire`; the rest stutters.

**Hash join.**  Each step of a join is a step of one thread in the
coordinator's loop or leaves the coordinator's variables alone, so that a
behaviour of `JoinSpec` is one of `Spec`, and `ExactlyOnce` comes with it.  The
output is made when all threads have returned (`OutputAfterJoin`, inductive by
itself); `RowsProbed` follows: by then every probe row has been looked up,
once.

`ThreadAssumption` numbers the threads, as the code does.  `ColumnAssumption`
is what a scan and an earlier join leave: no page is empty, a column read in
place has no NULL, and the pages of a materialised one are full but for the
last.  `JoinInv` goes beside `IInv`; the four properties do not survive a step
without it.  It says that the table has the build rows that are not NULL, once
each (`TableBuilt`); that a cursor is on the page of its row or before it
(`CursorsBehind`), for which a thread's rows must only grow; that the lists of
all threads together have the matches of the rows looked up, in both
orientations, and no pair twice (`PairsFound`), where `Accounted` says which
rows those are; and which rows of the output have been written, at the page and
slot their number names (`OutputInv`).  Below these lie the lemmas of
`PagesProofs`: the binary search of `FindPage` ends on the page of its row,
and `PageFrom` does whatever page it remembers.  In the refinement, `ProbeRow`
is `EquiJoin`'s `Find`, or a stutter for a row with no match; the steps that
leave the function are `Return`; all other steps stutter.

**Executor.**  `PlanFits` is what `execute` takes for granted, and a part of
`TypeOK`, so that the run checks it of every plan the driver builds there: a
node's children come before it; attributes name columns that exist and have
their types; joined columns are of one type; INT32 cells are 32 bits wide and
none is -1; and the place of a string fits into a reference that is not the
word of NULL.  The theorems are about plans that fit, of any shape and size,
over any tables and for any widths of word, integer and reference with a word
wider than an integer.  They do not say that the plans of every query fit:
that stays with TLC, whose run of `TypeOK` checks `PlanFits` of every plan the
driver builds.

`ExecInv` says of each buffer that its columns are those of its node, with
words in range, or read in place, with integers only (`BufferFits`), and that
its rows are the rows its node means *in some order* (`Permuted`): there is a
bijection between the two.  `BuffersCorrect`, which counts rows, is not
inductive, because a join does not see counts but rows: which row meets which
is carried over by the bijections of the two inputs, and the order the join
returns its pairs in gives the bijection of its output (`JoinPermuted`).
`IntegerWord` and `ReferenceWord` say that words give back what they were made
from: an INT32 other than -1 survives sign extension and truncation, and a
packed reference names its table, column and place.

**Unchained table.**  `EntryAssumption` says that key 0, which blank tuples
have, is a key and that the lists a table is built from name no row twice;
`SlotAssumption` that a directory is not empty and the hash gives every key one
of its slots.  Which slot, and which Bloom tags, is left open.  The two
properties are not inductive: they say nothing of the loops in which the arrays
are made.  `IInv` adds, for each phase, how far its loop has come.  While
tuples are counted, a slot's counter is the number of its entries seen
(`CountInv`).  While prefix sums are made, the END offsets up to here ascend
and differ by the counters (`PrefixInv`).  While tuples are copied, write
pointer and number of entries still to come make up the END offset of the slot,
and what is behind the slot's begin and in front of its write pointer are its
entries so far, each once (`ScatterInv`).  Then all of them are there
(`ReadyInv`).  `ScatterInSlot` follows because the entry in hand is one of
those still to come. `UnchainedBehindInterface` carries both over to
`KeyTables`, whose steps are steps of the unchained table or leave it alone.
`SizeAssumption` is about the sizes `reserve` chooses from: the bounds are powers
of two (1024 and 262,144 in the code), and for every capacity asked for there is
one that is large enough.  It also says that powers of two are natural numbers,
which the provers cannot know, having no exponentiation.

**Robin Hood, cuckoo and hopscotch tables.**  `IndexAssumption` says that keys
are integers, that lists are rows with such keys, and that every hash function
gives every key a number, any number: nothing is assumed of how it spreads them.
A neighbourhood is not larger than the least capacity: 8 and 16 in
`hopscotch.h`.

What the three share is `IndexOf`: of the row lists made from the entries, one
entry per key, in the order of the keys, each names its rows in the storage
(`GroupsOfRows`; the number of a key in that order is found by counting smaller
keys, `KeysOrdered`).  Each table then has an invariant of its own,
since none of the four properties is inductive: they speak of slots, and a step
is about the entry that is in none.  All three say which entries are in the
table, each in one slot (`InHand`, `AllPlaced`): the first `inserted` ones and
the one begun, with the one in hand left out.  A swap exchanges the two roles.

- `RobinHoodInv`: the slots are ordered (`Ordered`), and the entry in hand could
  follow the slot before the one it looks at (`Follows`).  Every slot that this
  insertion has passed is taken (`RobinHoodHand`); as there are fewer entries
  than slots, it cannot have passed all of them, which is
  `RobinHoodAlwaysInserts`.  For a probe, order is carried along the ring from
  the key's home to its slot: it meets no free slot on the way and no entry
  nearer to its home than the key would be.
- `CuckooInv`: every entry is in the slot that one of its two hash functions
  gives (`AtHome`).  The two tables are seen as one set of slots (`Cells`), so
  that throwing an entry out is a swap as well.  A rehash starts from the list
  again, so that the entry in hand when it gave up is not lost.
- `HopscotchInv`: a bit is in the bitmap of a home exactly when the slot at its
  distance has an entry of that home (`Named`).  A move changes two bits of one
  bitmap and two slots, and `Named` holds of what was there and is there then,
  for distances within a capacity name different slots.

From `TablesInv`, which selects the invariant of the table compiled in,
`TablesKeepPromise` follows action by action: a build starts with a list and no
content, a step within it shows nothing, its end shows what was given, because
probes are exact (`ContentIsGiven`), and `reserve` and an empty build drop what
there was.  The invariants of the slots do not mention the storage and survive
any number of builds; what a probe finds there needs the storage to be the last
list's alone.  Hopscotch's `Build` makes it so; of the other two the theorem
says what is true, that a step keeps the promise or leads to a `Stale` table,
whose probes still return as many rows as their keys have (`IndexProbesExact`).

**Filters.**  The assumptions say that there is a thread and that a byte has a
bit, that the columns of a table are of one length, that a node of a statement
has its operands before it, and that the literal an INT32 column is compared
with is an INT32 (`StatementAssumption`); the code does not check the last one,
see `hazards`.  A shard of a comparison starts at the first row of a byte and
ends there or at the last row, since `begin_idx` is computed in bytes; so the
bytes of a shard's rows are the shard's own.  `IInv` says that a running thread
is inside its shard (`InShards`) and that a thread that has loaded a byte is in
a comparison and not at the end of its shard (`LoadsInShard`), whatever other
threads have done.

`FInv` says what has been computed.  The bitmap of a node that is done says of
each row whether the node is true of it, evaluated record by record
(`Evaluated`), whatever is in the bits behind the last row, which NOT sets; in
the node in hand the rows and bytes that threads have passed are right and the
others untouched (`RowsSoFar`, `BytesSoFar`); and the columns of the result
that threads have passed have the rows kept, in order (`ColumnsSoFar`).  A byte
that is written back has the bits of rows of several steps, and `NoLostBits` is
why it may: nobody else's bits were added since it was loaded.

**Parsing and caching.**  `FilesAssumption` says that files are sequences of
the characters the parser tells apart, that a column is an INT32 or a VARCHAR,
and that the bound on calls is a number: a file may be of any length and have
any quotes, line ends and widths.  `DigitsAssumption` says that a number has
room for a digit.  `LoadsFile` is not inductive, since it is about finished
loads only.  `ParserInv` says where in the file the parser is, in terms of
`CsvFormat`, which reads the file as a whole (`ReadTo`).  There are tokens
`seen`, and the file's tokens are these and the tokens of what is left
(`Ahead`, of `Rest`).  What is left begins with what the last buffer left open
(`Pending`): a backslash or half a line end that no token stands for yet, which
is why the place at which a buffer ends makes no difference.  `seen` is cut
into the lines done and a part of the next, and the counters and flags are
functions of them (`Reading`); the rows are those of the lines done, and the
record begun has the values of the fields that have ended (`Loaded`).  `finish`
reads the last line as if a line end followed (`Completing`), after which all
lines are done (`AllRead`).

An action takes a token from what is left and adds it to `seen` (`TokenRead`), or
leaves the place as it is (`NothingRead`: another buffer, or one that ends in a
backslash or \r).  Two kinds of lemma carry this.  `NextToken` says what the
tokens of a rest are by its first two characters; `FieldsWithChar` and its
neighbours say how one more token changes the lines and fields, and
`PiecesGrow` that those already there stay as they are.  The latter is what a
failure needs (`NoTable`): a line of another width, or a field that is no number,
is one of the lines of the whole file, whatever follows, so that the file means
no table (`UnevenLines`, `NoSuchTable`).

`LoadInv` adds that what the two caches hold is what the file means
(`CachesAgree`), for a file of the table's width; a load that fails fills none.
`AnswersAgree` alone would not survive a call answered from the result cache.

**Cache files.**  `CacheAssumption` gives the constants their types; a table
has a column.  `CacheInv` has one part per stage: a file that is there is a
prefix of its table's dump, and a file that is complete is all of it
(`FilesHold`); how far a dump has come (`DumpOK`), how far a mapping
(`MapOK`), and which tables are loaded, rewritten or moved (`LoadOK`); and that
a verdict on complete files is "correct" (`VerdictOK`).  `ServesTables` is no
step's doing, but what is left of all of them after any number of programs,
killed at any step.  `FilesNeverRewritten` follows from `DumpOK`: the only
steps that touch the directory are those that write the block behind the
blocks written, into the file that is being dumped.

`MappingsOwned` gives every heap page one owner, a column or, in `build_cache`,
the results and copies that outlive a query (`Outliving`).  It needs more than
its own terms, since the columns of a program are in four places and move
between them, a vector that grows moves all of its elements, and an exception
destroys what is there.  `OwnedInv` states, for all columns wherever they are,
that a mapping's count is their number and that a heap page is in one column
(`Owning`), with an exception for the mapping that `from_cache` has made and
given to no column yet (`Fresh`).  Every operation of `Ownership` has a lemma
that says what it does to `Owning`.

**Pages of fixed-length values.**  `SizeAssumption` and `WriterAssumption` say
that a page has room for its header and two values, and that values include
neither NULL nor the mark `Garbage` of an overwritten one.  `IInv` is `TypeOK`,
`LayoutDisjoint` and `CellsPlaced`: the first free byte is right behind the
values, which ties the bytes the code counts to the values the page has.
`TypeOK` has no `Garbage` in saved pages, so the theorem also says that no
value is overwritten.  `ReadsBack` speaks of finished columns only; `RowInv`
says of any moment that the rows inserted are the rows of the saved pages and,
behind them, those of the buffers, where the bits that an earlier page left in
the bitmap buffer do not count.  The reader finds the n-th valid row's value by
counting; that this is the n-th value inserted is an induction over the rows of
a page (`KeptDefined`, `AppendToList`).  The theorems on `ColumnInserter` need
`ValueSize <= InsertReserve`, which the code satisfies for types of up to four
bytes only; the run `wide_values` shows what happens otherwise.  `to_columnar`
needs no such condition.

**Pages of strings.**  `StringAssumption` says that a page of nothing but NULLs
has fewer rows than the mark 0xfffe: with 8192 bytes at most 65,504, below
65,534.  `IInv` adds to `TypeOK` and `LayoutDisjoint` that saved pages are
pages of ordinary rows below the mark, or pages of long strings.  The bound on
rows comes from the room that is left for the bitmap.

`ReadersReturnRows` needs to know what every saved page means to two readers of
which one goes on over page boundaries.  `RowInv` says that the rows inserted
are `saved` and, behind them, `rest`: the saved pages read back as `saved`
(`Reads`), and the offsets, chars and bits of the buffers are those of `rest`
(`BufferMeans`).  `Reads` is kept by a page of ordinary rows (`ReadsOrdinary`)
and by the pages of a long string (`ReadsLong`).  The resolver is the hard
half: it reads on as long as pages are long ones, so a page appended may change
what an earlier reference resolves to.  `RunFrom` is its loop as a function of
the pieces, the same over pages and over rows, and `InStep` says that a run of
long pages reaches the column's end exactly when its run of long rows reaches
the last row; so both go on, or both stop, with what is appended
(`RunFromExtended`).  That is also the exact statement of when a long string
reads back: when no long string is in the next row.  `StringAssumption` says
besides that NULL is neither a string nor a reference.  In the code NULL is the
word of 64 ones, a reference only at the slot 0xffff of page 2^32 - 1 of column
255 of table 255; pages are not counted to that width in the model.

Both writers of a format take the same few kinds of step (a row added, a row on
a fresh page, a page flushed), proved once as lemmas and cited by both.

Only model-checked, on the instances above:

- all liveness (`Termination`, `JoinReturns`, `BuildTerminates`, `CallsEnd`,
  `FilterEnds`), which is out of the prover's reach together with `ENABLED`;
- that the plans of queries fit (`PlanFits`), and that results are what the
  queries mean (`ResultCorrect`): both are about everything the plan builder
  makes of the trees of clauses and of EXPLAIN, an induction over data;
- that a cuckoo insertion gives up only when it must, the second half of
  `GivesUpJustified`: it depends on how the limit of displacements compares with
  the number of keys, and does not hold for every value of the constants.  The
  first half is `RobinHoodAlwaysInserts`.

## Disagreements found

Three runs end in a violation, each of a sentence in the repository.

- **wide_values.**  `ColumnInserter<T>::insert` (`include/plan.h:266`) reserves
  4 bytes for a value whatever `sizeof(T)` is, so an 8-byte value may be
  written where the bitmap goes: with real pages, the 1007th value of a page
  that has 18 NULLs ends at byte 8064, and the bitmap of 1025 rows starts at
  8063. `README_ORIGINAL.md:95-97` puts the bitmap in the last bytes, behind
  the values.  `from_inner_to_column` instantiates the template for `int64_t`
  and `double`.
- **long_strings.**  `StringRefResolver::resolve`
  (`src/late_materialization.cpp:178`) does not stop at the first page of the
  next long string, so of two long strings in adjacent rows the first is read
  as both. `README_ORIGINAL.md:101` makes 0xffff the mark of a first page.
  `from_columnar` reads the same pages as they were written.
- **minus_one.**  `value_t::make_i32(-1)` (`include/late_materialization.h:69`)
  is the word of all ones, which is NULL.  An INT32 of -1 is lost when the
  result is written, and as a key when it has been materialised.  The ordinary
  run has all other kinds of integer and passes.

Two more have no run of their own; the properties named state what the code
does.

- **String pages with NULLs.**  `README_ORIGINAL.md:99` has the chars of a page
  begin at `data + 4 + n_r * 2`, behind as many offsets as the page has rows.
  There is one offset per row that is not NULL, and all writers and readers of
  the code put the chars right behind those (`include/plan.h:342`,
  `src/build_table.cpp:610` and `:826`, `src/late_materialization.cpp:191`), as
  if the formula had `n_v`.  The two differ on every page with a NULL.
  `LayoutDisjoint` of `StringPages` and what is proved of it (`StringLayout`)
  are about the layout of the code, on which its writers and readers agree; a
  program that read these pages by the document would not.
- **Second builds.**  `include/hashtable_interface.h:26` says that
  `build_from_entries` builds the table from the entries it is given.  The
  Robin Hood and cuckoo tables do not clear `_storage` (`robinhood.h:113`,
  `cuckoo.h:147`) and number the rows of a build from 0, so that a table built
  again answers with rows of the earlier list, of whatever keys these had.
  `IndexProbeExact` and `ImplementsTable` exempt that state by name (`Stale`);
  without the exemption the run `key_tables` refutes both.  No join builds a
  table twice.

## What is not modelled

- **`get_cached` of `column_t`** is used in a branch that a constant excludes,
  the **column iterator** and **move assignment** of columns and mappings by
  nothing.
- **`copy_scan`** and **`join_columnbuffer_hash`** are called by nothing;
  `unchained_hashtable.h` and `cuckoo_map.h` have been replaced.
- **The copy of a join's output by threads** (`execute_default.cpp:273-302`):
  `parallel_materialize` is the constant false.
- **INT64 and FP64 in plans**: the scan emits nothing for them, and no plan has
  one.  The page writers cover them.
- **Read errors**: `from_csv` takes a read that returns nothing for the end of
  the file and does not ask `ferror` (`build_table.cpp:301-310`), so that after
  an error the rows read so far are the table, and are cached as such.  The
  model's `Read` reaches the end of the file, and so `LoadsFile` and
  `AnswersAgree` say nothing of this case.  A cache file that cannot be created
  (`tests/read_sql.cpp`) is not modelled either; one cut short at once is.
- **Some exceptions of the plan builder**, for EXPLAIN trees with nodes,
  tables, aliases or columns the driver cannot find: the run's trees are
  well-formed.
- **Telemetry, hardware constants**: nothing in the engine depends on them.
- **The rest of the driver**: the external SQL parser, the resolution of names
  and aliases, the comparison with DuckDB's result, and timing.
- **Database builder, unit tests**: the first calls an external library; the
  second have been read for what they promise.
- **Queries and plans** (`plans.json`): data.

Abstracted in what is modelled: strings are model values or sequences told
apart by position; all digits are one character, so that a number is told by
how many it has; hash functions are any assignment the constants give; LIKE is
a table of answers (an external regular expression library in the code); memory
is unbounded; allocation does not fail.

Seen while modelling, allowed for in the properties above: a cache file cut
short is used by every later program; `build_cache` never deletes the result
that `DumpTable` has converted, and keeps a copy of each table it has dumped
without a filter in `from_csv`'s `result_cache`, for which nothing asks, since
the file exists by then (the `InnerTable`s of its `table_cache` have no pages); a
join compares one pair of columns where the clause asks for more; filters have
two truth values.

## Plan

Written: coordinator, tables, join, executor, storage, loading, filters, cache
files with their crashes, and queries from the clause to the result; proofs of
the coordinator and of the join on top of it as a refinement of the equi-join,
of the executor on plans that fit, of all four tables as implementations of the
one a join relies on, of loading a table through the parser, the caches and the
filter, of pages of fixed-length values and of strings from the writer to the
readers, and of the cache files with the ownership of what is mapped.

What could follow: `PlanFits` from the plan builder and from the types of tables
and clauses, so that the executor's theorems hold of every query.
