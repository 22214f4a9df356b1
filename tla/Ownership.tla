----------------------------- MODULE Ownership ------------------------------
(* Who frees the pages of a column (Column and MappedMemory in plan.h): a    *)
(* column owns its heap pages, or has a part in a mapping that counts the    *)
(* columns that refer to it and is unmapped with the last of them.           *)
EXTENDS Pages, FiniteSetsExt, SequencesExt

\* Memory is a record: maps, the mappings the process has made, each with its
\* references and whether it is still mapped, and heap, the contents of the
\* heap pages that have not been deleted, by their addresses.
NoMemory == [maps |-> <<>>, heap |-> << >>]

\* A column's pages are addresses: blocks of a mapping, or (map 0) heap pages.
IsColumn(column) ==
  /\ column.mapped_memory \in Nat
  /\ \A p \in DOMAIN column.pages :
       /\ column.pages[p].map = column.mapped_memory
       /\ column.pages[p].at \in Nat \ {0}

Column == [pages |-> <<>>, mapped_memory |-> 0]

\* new MappedMemory: nothing refers to it yet.
Map(memory, file) ==
  [memory EXCEPT !.maps = Append(@, [file |-> file, refs |-> 0, mapped |-> TRUE])]

\* assign_mapped_memory, on the newest mapping.
Assign(memory) == [memory EXCEPT !.maps[Len(memory.maps)].refs = @ + 1]

\* new_page for every page of a table: its columns, and the heap that holds them.
FirstFree(memory) == Max(DOMAIN memory.heap \union {0}) + 1

NewColumns(memory, columns) ==
  [c \in DOMAIN columns |->
     LET first == FirstFree(memory) + PageOffsets(columns)[c - 1]
     IN  [mapped_memory |-> 0,
          pages |-> [p \in DOMAIN columns[c] |-> [map |-> 0, at |-> first + p - 1]]]]

Allocated(memory, columns) ==
  LET contents == Rows(columns)
      first == FirstFree(memory)
      new == [at \in first .. first + Len(contents) - 1 |-> contents[at - first + 1]]
  IN  [memory EXCEPT !.heap = [at \in DOMAIN @ \union DOMAIN new |->
                                 IF at \in DOMAIN new THEN new[at] ELSE @[at]]]

HeapPages(column) == {column.pages[p].at : p \in DOMAIN column.pages}

TablePages(table) == UNION {HeapPages(table[c]) : c \in DOMAIN table}

\* (Definitions whose name ends in _bug are plausible mistakes, used by no
\* specification.)  A column that has been moved from still refers to the mapping.
MovedFrom_bug(column) == [column EXCEPT !.pages = <<>>]

\* What the move constructor leaves behind; the new column is what the old one was.
MovedFrom(column) == [pages |-> <<>>, mapped_memory |-> 0]

\* The last reference to a mapping unmaps it.
Released(mapping) ==
  [file |-> mapping.file, refs |-> mapping.refs - 1, mapped |-> mapping.mapped /\ mapping.refs # 1]

\* ~Column: a reference to the mapping is given back, pages of the heap are deleted.
Destroy(memory, column) ==
  LET m == column.mapped_memory
  IN  IF m # 0
        THEN [memory EXCEPT !.maps[m] = Released(@)]
        ELSE [memory EXCEPT !.heap = Restrict(@, DOMAIN @ \ HeapPages(column))]

\* A vector that grows moves its columns into new storage and destroys the old ones.
Grown(memory, columns) ==
  LET after[n \in 0 .. Len(columns)] ==
        IF n = 0 THEN memory ELSE Destroy(after[n - 1], MovedFrom(columns[n]))
  IN  after[Len(columns)]

\* Every column that refers to a mapping is counted, so that the mapping stays as
\* long as one does and goes with the last; heap pages are those of the columns
\* without a mapping, and others: none is deleted early, twice or not at all.
Owned(memory, columns, others, fresh) ==
  LET of(m) == {c \in DOMAIN columns : columns[c].mapped_memory = m}
  IN  /\ \A m \in DOMAIN memory.maps :
           /\ memory.maps[m].refs = Cardinality(of(m))
           /\ memory.maps[m].mapped <=> (of(m) # {} \/ fresh = m)
      /\ DOMAIN memory.heap = others \union UNION {HeapPages(columns[c]) : c \in of(0)}
      /\ \A c, d \in of(0) : c # d => HeapPages(columns[c]) \cap HeapPages(columns[d]) = {}
=============================================================================
