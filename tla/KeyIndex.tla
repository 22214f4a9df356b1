------------------------------ MODULE KeyIndex ------------------------------
(* What the Robin Hood, cuckoo and hopscotch tables share: rows are grouped  *)
(* by key into one storage array, keys in ascending order, and the table     *)
(* itself holds one index entry per key.                                     *)
EXTENDS Integers, FiniteSets, Functions, Pages

\* The index entry of a key (KeyIndexInfo): where its rows start, and how many;
\* the slots of a table hold one each.
IndexInfo == [key : Int, start_index : Nat, count : Nat, is_valid : BOOLEAN]

\* IndexInfo{}
Free == [key |-> 0, start_index |-> 0, count |-> 0, is_valid |-> FALSE]

Keys(entries) == {entries[e].key : e \in DOMAIN entries}

\* The iteration order of std::map.
KeyOrder(entries) ==
  [n \in 1 .. Cardinality(Keys(entries)) |->
     CHOOSE k \in Keys(entries) : Cardinality({j \in Keys(entries) : j < k}) = n - 1]

RowsOf(entries, k) == Kept(entries, {e \in Range(entries) : e.key = k})

\* grouped_entries: a list of rows for each key, in the order of the keys.
Groups(entries) ==
  LET keys == KeyOrder(entries)
  IN  [n \in DOMAIN keys |-> RowsOf(entries, keys[n])]

\* (Definitions whose name ends in _bug are plausible mistakes in the ones they
\* precede.)  The index advances before the entry is made.
StartOf_bug(entries, n) == PageOffsets(Groups(entries))[n]

\* current_storage_index when the n-th key is reached: the rows of the keys before.
StartOf(entries, n) == PageOffsets(Groups(entries))[n - 1]

\* index_infos_to_insert
Infos(entries) ==
  LET groups == Groups(entries)
  IN  [n \in DOMAIN groups |->
         [key |-> KeyOrder(entries)[n], start_index |-> StartOf(entries, n),
          count |-> Len(groups[n]), is_valid |-> TRUE]]

\* _storage
Storage(entries) == Rows(Groups(entries))

\* The rows a probe returns for an index entry.
Bucket(storage, info) == SubSeq(storage, info.start_index + 1, info.start_index + info.count)
=============================================================================
