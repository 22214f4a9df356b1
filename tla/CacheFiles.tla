----------------------------- MODULE CacheFiles -----------------------------
(***************************************************************************)
(* The cache directory between two programs: build_cache dumps the tables   *)
(* and the result of every query into files (DumpTable in table.h), fast    *)
(* maps them (Table::from_cache in build_table.cpp), runs its plans on the  *)
(* mapped pages and compares what it gets with the cached result (run in    *)
(* tests/read_sql.cpp).  Programs run one after the other and may be killed *)
(* at any step; a disk that is full cuts a dump short without an error.     *)
(*                                                                          *)
(* A query is the sequence of files its scans read, one for each pair of a  *)
(* table and a filter (the file name holds the table's name and a hash of   *)
(* the filter's text).  What a file ought to hold is a table: for each      *)
(* column the contents of its pages.                                        *)
(***************************************************************************)
EXTENDS Ownership

CONSTANTS
  Query,     \* the queries of the plans file
  Scans,     \* Scans[q]: the files the scans of a query read, in the order of the plan
  Unfiltered, \* the files of scans without a filter
  ResultOf,  \* ResultOf[q]: the file of its result
  Table,     \* Table[f]: what from_csv or DuckDB gives for a file
  Absent,    \* no file of that name
  Garbage    \* what lies behind the end of a mapping

File == DOMAIN Table

\* The contents of the tables' pages.
Page == UNION {UNION {Range(column) : column \in Range(Table[f])} : f \in File}

ASSUME CacheAssumption ==
  /\ Scans \in [Query -> Seq(File)]
  /\ ResultOf \in [Query -> File]
  /\ Unfiltered \subseteq File
  /\ \A f \in File : Table[f] \in Seq(Seq(Page)) \ {<<>>}

VARIABLES
  disk,      \* each file: its blocks, and whether the last one is cut
  program,   \* "build_cache" or "fast", the one that runs or ran last
  stage,     \* where it is
  query,     \* the query of this run()
  visited,   \* how many of its files have been dealt with
  memory,    \* mappings and heap (Ownership)
  columns,   \* from_cache: the vector under construction
  tables,    \* the inputs of the plan, then the result, then the expected result
  leaked,    \* heap pages nothing refers to any more
  kept,      \* heap pages of the tables in from_csv's static result_cache
  thrown,    \* an exception is on its way to main
  verdict    \* compare_withcache of the last query

objects == <<memory, columns, tables, leaked, kept>>
vars == <<disk, program, stage, query, visited, objects, thrown, verdict>>

Init ==
  /\ disk = [f \in File |-> Absent]
  /\ program = "build_cache"
  /\ stage = "stopped"
  /\ query \in Query
  /\ visited = 0
  /\ memory = NoMemory
  /\ columns = <<>> /\ tables = <<>>
  /\ leaked = {} /\ kept = {}
  /\ thrown = FALSE
  /\ verdict = "none"

-----------------------------------------------------------------------------
(* The programs.                                                           *)

StartProgram ==
  /\ stage = "stopped"
  /\ program' \in {"build_cache", "fast"}
  /\ stage' = "idle"
  /\ UNCHANGED <<disk, query, visited, objects, thrown, verdict>>

\* run(): load_join_pipeline visits the scans.
StartQuery(q) ==
  /\ stage = "idle"
  /\ query' = q
  /\ visited' = 0
  /\ stage' = "load"
  /\ verdict' = "none"
  /\ UNCHANGED <<disk, program, objects, thrown>>

\* The operating system takes back what a process leaves behind.
Stopped ==
  /\ stage' = "stopped"
  /\ memory' = NoMemory
  /\ columns' = <<>> /\ tables' = <<>>
  /\ leaked' = {} /\ kept' = {}
  /\ visited' = 0
  /\ thrown' = FALSE
  /\ UNCHANGED <<program, query>>

\* Every query has been run, or main has caught an exception.
Exit ==
  /\ stage = "idle"
  /\ Stopped
  /\ UNCHANGED <<disk, verdict>>

Files == Append(Scans[query], ResultOf[query])
IsScan == visited < Len(Scans[query])
file == Files[visited + 1]

\* (Ownership's remark on _bug holds here as well.)  A file without a page
\* counts as missing.
Exists_bug(f) == disk[f] # Absent /\ Len(disk[f].blocks) > 1

\* fs::exists
Exists(f) == disk[f] # Absent

-----------------------------------------------------------------------------
(* build_cache.                                                            *)

\* The first block (TableMeta, of which only the page counts are kept here, and a
\* filler of 7984 bytes, so that the half of it holds the counts), then the pages,
\* column by column.
Header(table) == [num_pages |-> [c \in DOMAIN table |-> Len(table[c])]]

Dump(table) == <<Header(table)>> \o Rows(table)

\* "Table already in cache": the plan gets no input, it is not executed.
SkipFile ==
  /\ program = "build_cache" /\ stage = "load" /\ visited < Len(Files)
  /\ Exists(file)
  /\ visited' = visited + 1
  /\ UNCHANGED <<disk, program, stage, query, objects, thrown, verdict>>

\* from_csv without a filter emplaces a copy of the table in result_cache.
KeepsCopy == IsScan /\ file \in Unfiltered

\* The table is loaded, or converted from DuckDB's result, before the ofstream
\* creates its file.  Nobody deletes the table converted by DumpTable.  The copy
\* from_csv keeps is never asked for: the file is there for the next scan.
StartDump ==
  /\ program = "build_cache" /\ stage = "load" /\ visited < Len(Files)
  /\ ~Exists(file)
  /\ LET contents == Table[file]
         loaded == Allocated(memory, contents)
     IN  /\ tables' = Append(tables, NewColumns(memory, contents))
         /\ IF KeepsCopy
              THEN /\ memory' = Allocated(loaded, contents)
                   /\ kept' = kept \union TablePages(NewColumns(loaded, contents))
              ELSE memory' = loaded /\ UNCHANGED kept
  /\ disk' = [disk EXCEPT ![file] = [blocks |-> <<>>, cut |-> FALSE]]
  /\ stage' = "dump"
  /\ UNCHANGED <<program, query, visited, columns, leaked, thrown, verdict>>

\* page->data of every page of the table being dumped.
Contents ==
  [c \in DOMAIN Last(tables) |->
     [p \in DOMAIN Last(tables)[c].pages |-> memory.heap[Last(tables)[c].pages[p].at]]]

ToWrite == Dump(Contents)
Written == Len(disk[file].blocks)

\* dump writes the next block, all of it or the first half.
Write(cut) ==
  disk' = [disk EXCEPT ![file] = [blocks |-> Append(@.blocks, ToWrite[Written + 1]), cut |-> cut]]

WriteBlock ==
  /\ stage = "dump" /\ Written < Len(ToWrite)
  /\ Write(FALSE)
  /\ UNCHANGED <<program, stage, query, visited, objects, thrown, verdict>>

\* The table goes into the plan; that of a result is out of reach.
EndDump ==
  /\ visited' = visited + 1
  /\ stage' = "load"
  /\ IF IsScan
       THEN UNCHANGED <<tables, leaked>>
       ELSE /\ leaked' = leaked \union TablePages(Last(tables))
            /\ tables' = Front(tables)
  /\ UNCHANGED <<program, query, memory, columns, kept, thrown, verdict>>

CloseFile ==
  /\ stage = "dump" /\ Written = Len(ToWrite)
  /\ EndDump
  /\ UNCHANGED disk

\* The page that did not fit is left out, the ones behind it are written.
DiskFull_bug ==
  /\ stage = "dump" /\ Written \in 1 .. Len(ToWrite) - 2
  /\ disk' = [disk EXCEPT ![file].blocks = Append(@, ToWrite[Written + 2])]
  /\ UNCHANGED <<program, stage, query, visited, objects, thrown, verdict>>

\* A write that fails sets the stream's bad bit and the others do nothing; nobody
\* looks at it.
DiskFull ==
  /\ stage = "dump" /\ Written < Len(ToWrite)
  /\ UNCHANGED disk \/ Write(TRUE)
  /\ EndDump

-----------------------------------------------------------------------------
(* fast.                                                                   *)

\* The result is loaded after the plan has been executed.
NextFile ==
  /\ program = "fast" /\ stage = "load" /\ visited < Len(Files)
  /\ ~IsScan => Len(tables) > visited

Readable(f) == Exists(f) /\ disk[f].blocks # <<>>

\* "Table file does not exist", "File is empty".
Throw ==
  /\ NextFile /\ ~Readable(file)
  /\ thrown' = TRUE
  /\ stage' = "unwind"
  /\ UNCHANGED <<disk, program, query, visited, memory, columns, tables, leaked, kept, verdict>>

\* from_cache: map the file.
OpenCache ==
  /\ NextFile /\ Readable(file)
  /\ memory' = Map(memory, file)
  /\ columns' = <<>>
  /\ stage' = "map"
  /\ UNCHANGED <<disk, program, query, visited, tables, leaked, kept, thrown, verdict>>

meta == disk[file].blocks[1]

\* Every column starts at the first page.
FirstPage_bug(c) == 2

\* data, when column c is reached: the block behind the pages of the columns before it.
FirstPage(c) ==
  LET data[d \in 1 .. c] == IF d = 1 THEN 2 ELSE data[d - 1] + meta.num_pages[d - 1]
  IN  data[c]

\* emplace_back, which may find the vector full, assign_mapped_memory and the
\* column's share of the pages.
EmplaceColumn ==
  /\ stage = "map" /\ Len(columns) < Len(meta.num_pages)
  /\ memory' \in {Assign(memory), Assign(Grown(memory, columns))}
  /\ LET c == Len(columns) + 1
         m == Len(memory.maps)
     IN  columns' = Append(columns,
           [mapped_memory |-> m,
            pages |-> [p \in 1 .. meta.num_pages[c] |-> [map |-> m, at |-> FirstPage(c) + p - 1]]])
  /\ UNCHANGED <<disk, program, stage, query, visited, tables, leaked, kept, thrown, verdict>>

\* The vector is moved into the plan's inputs, or is the expected result.
FinishTable ==
  /\ stage = "map" /\ Len(columns) = Len(meta.num_pages)
  /\ tables' = Append(tables, columns)
  /\ columns' = <<>>
  /\ visited' = visited + 1
  /\ stage' = "load"
  /\ UNCHANGED <<disk, program, query, memory, leaked, kept, thrown, verdict>>

\* Whether an address lies behind the end of its mapping, and what is read there.
Behind(address) ==
  /\ address.map # 0
  /\ LET held == disk[memory.maps[address.map].file]
     IN  address.at > Len(held.blocks) \/ (address.at = Len(held.blocks) /\ held.cut)

PageAt(address) ==
  IF address.map = 0 THEN memory.heap[address.at]
  ELSE IF Behind(address) THEN Garbage
  ELSE disk[memory.maps[address.map].file].blocks[address.at]

Read(table) == [c \in DOMAIN table |-> [p \in DOMAIN table[c].pages |-> PageAt(table[c].pages[p])]]

\* The inputs read as they should be.
InputsRight == \A s \in DOMAIN Scans[query] : Read(tables[s]) = Table[Scans[query][s]]

\* The plan is executed; its result is right when its inputs are (the other modules),
\* and anything otherwise.
Execute ==
  /\ program = "fast" /\ stage = "load"
  /\ visited = Len(Scans[query]) /\ Len(tables) = visited
  /\ LET right == Table[ResultOf[query]]
         wrong == [c \in DOMAIN right |-> <<Garbage>>]
     IN  \E result \in {right, wrong} :
           /\ InputsRight => result = right
           /\ tables' = Append(tables, NewColumns(memory, result))
           /\ memory' = Allocated(memory, result)
  /\ UNCHANGED <<disk, program, stage, query, visited, columns, leaked, kept, thrown, verdict>>

\* compare_withcache
Compare ==
  /\ program = "fast" /\ stage = "load" /\ visited = Len(Files)
  /\ verdict' = IF Read(tables[visited]) = Read(tables[visited + 1]) THEN "correct" ELSE "wrong"
  /\ stage' = "unwind"
  /\ UNCHANGED <<disk, program, query, visited, objects, thrown>>

\* Memory behind a mapping need not be there: reading it kills the process.
Fault ==
  /\ program = "fast" /\ stage = "load"
  /\ \/ visited = Len(Scans[query]) /\ Len(tables) = visited
     \/ visited = Len(Files)
  /\ \E t \in DOMAIN tables : \E c \in DOMAIN tables[t] : \E p \in DOMAIN tables[t][c].pages :
       Behind(tables[t][c].pages[p])
  /\ Stopped
  /\ UNCHANGED <<disk, verdict>>

-----------------------------------------------------------------------------
(* Both.                                                                   *)

\* run() of build_cache is over.
EndBuild ==
  /\ program = "build_cache" /\ stage = "load" /\ visited = Len(Files)
  /\ stage' = "unwind"
  /\ UNCHANGED <<disk, program, query, visited, objects, thrown, verdict>>

\* The expected result, the result and the plan are destroyed, column by column.
DestroyColumn ==
  /\ stage = "unwind" /\ tables # <<>>
  /\ memory' = Destroy(memory, Head(Last(tables)))
  /\ tables' = IF Len(Last(tables)) = 1 THEN Front(tables)
               ELSE [tables EXCEPT ![Len(tables)] = Tail(@)]
  /\ UNCHANGED <<disk, program, stage, query, visited, columns, leaked, kept, thrown, verdict>>

EndQuery ==
  /\ stage = "unwind" /\ tables = <<>>
  /\ IF thrown
       THEN Stopped
       ELSE /\ stage' = "idle"
            /\ memory' = [memory EXCEPT !.maps = <<>>]
            /\ visited' = 0
            /\ UNCHANGED <<program, query, columns, tables, leaked, kept, thrown>>
  /\ UNCHANGED <<disk, verdict>>

\* The process is killed; a block it was writing may be on the disk in part.
Crash ==
  /\ stage # "stopped"
  /\ UNCHANGED disk \/ (stage = "dump" /\ Written < Len(ToWrite) /\ Write(TRUE))
  /\ Stopped
  /\ UNCHANGED verdict

Next ==
  \/ StartProgram \/ (\E q \in Query : StartQuery(q)) \/ Exit \/ Crash
  \/ SkipFile \/ StartDump \/ WriteBlock \/ CloseFile \/ DiskFull \/ EndBuild
  \/ Throw \/ OpenCache \/ EmplaceColumn \/ FinishTable \/ Execute \/ Compare \/ Fault
  \/ DestroyColumn \/ EndQuery

Spec == Init /\ [][Next]_vars

-----------------------------------------------------------------------------
\* The types, and what a file may hold: a prefix of its table's dump.
TypeOK ==
  /\ \A f \in File :
       disk[f] # Absent =>
         /\ disk[f].cut \in BOOLEAN
         /\ IsPrefix(disk[f].blocks, Dump(Table[f]))
  /\ program \in {"build_cache", "fast"}
  /\ stage \in {"stopped", "idle", "load", "dump", "map", "unwind"}
  /\ query \in Query /\ visited \in 0 .. Len(Files)
  /\ \A t \in DOMAIN tables : \A c \in DOMAIN tables[t] : IsColumn(tables[t][c])
  /\ thrown \in BOOLEAN /\ verdict \in {"none", "correct", "wrong"}

\* A dump that came to its end.
Complete(f) == disk[f] = [blocks |-> Dump(Table[f]), cut |-> FALSE]

\* Whatever was killed, cut short or dumped earlier, a table mapped from a complete
\* file is the one that was dumped, page for page, and a query whose files are
\* complete is found correct.
ServesTables ==
  program = "fast" =>
    /\ stage = "load" =>
         \A s \in 1 .. Min({visited, Len(Scans[query])}) :
           Complete(Scans[query][s]) => Read(tables[s]) = Table[Scans[query][s]]
    /\ verdict # "none" /\ (\A f \in Range(Files) : Complete(f)) => verdict = "correct"

\* All columns there are: those of the tables and of the vector under construction.
AllColumns == Rows(tables) \o columns

\* What may outlive its query.
Outliving == leaked \union kept

\* At every step of loading, executing, throwing and cleaning up, mappings and heap
\* pages belong to somebody (Ownership).  Only the converted results of build_cache
\* and from_csv's copies of unfiltered tables outlive their query; fast has neither,
\* and when one of its queries is over no page is left.
MappingsOwned ==
  /\ Owned(memory, AllColumns, Outliving, IF stage = "map" THEN Len(memory.maps) ELSE 0)
  /\ program = "fast" => Outliving = {}

\* A file is written once, by the program that created it: pages in use never
\* change under their readers, and what a dump has left is left for good.
FilesNeverRewritten ==
  [][\A f \in File :
       disk[f] # Absent /\ disk'[f] # disk[f] =>
         stage = "dump" /\ f = file /\ IsPrefix(disk[f].blocks, disk'[f].blocks)]_vars
=============================================================================
