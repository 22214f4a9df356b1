------------------------------- MODULE Cuckoo -------------------------------
(* CuckooBackend (cuckoo.h): two tables with a hash function each; an entry  *)
(* is in its slot of the one or of the other, and a newcomer throws out      *)
(* whoever is in its slot, who goes to its slot of the other table.  As with *)
(* Robin Hood, building again adds to the storage.                           *)
EXTENDS KeyIndex, FiniteSets, Functions

CONSTANTS
  Key,                \* keys, integers
  HashPair,           \* the pairs of hash functions a build may see, Key to Nat
  EntryLists,         \* the lists a table is built from
  MaxDisplacements,   \* MAX_DISPLACEMENTS
  MaxRehashAttempts,  \* MAX_REHASH_ATTEMPTS
  MaxStorage          \* bound of the model: rows the storage grows to

VARIABLES
  hash,            \* hash_fn1 and hash_fn2 before the remainder
  entries,         \* the list the table is built from
  index_infos,     \* index_infos_to_insert
  phase,           \* "empty", "insert", "ready" or "threw"
  capacity,        \* _capacity
  tables,          \* _table1 and _table2
  storage,         \* _storage
  inserted,        \* how many index entries have their place
  current_info,    \* the entry looking for a slot: a new one or one thrown out
  turn,            \* the table it tries next
  displacements,
  rehash_attempt

vars == <<hash, entries, index_infos, phase, capacity, tables, storage, inserted, current_info,
          turn, displacements, rehash_attempt>>

\* find_home1 and find_home2
find_home(t, k) == hash[t][k] % capacity

Init ==
  /\ hash \in HashPair
  /\ entries = <<>> /\ index_infos = <<>> /\ storage = <<>>
  /\ phase = "empty"
  /\ capacity = 0 /\ tables = <<<< >>, << >>>>
  /\ inserted = 0 /\ current_info = Free /\ turn = 1 /\ displacements = 0
  /\ rehash_attempt = 0

EmptyTables(cap) == [t \in 1 .. 2 |-> [s \in 0 .. cap - 1 |-> Free]]

\* The n-th index entry starts with the first table.
StartInfo(infos, n) ==
  /\ current_info' = infos[n]
  /\ turn' = 1
  /\ displacements' = 0
  /\ inserted' = n - 1

\* ceil(n / 0.45)
InitialCapacity(n) == (20 * n + 8) \div 9

Build(es) ==
  /\ phase # "insert"
  /\ es # <<>>
  /\ Len(storage) + Len(es) <= MaxStorage
  /\ entries' = es
  /\ index_infos' = Infos(es)
  /\ storage' = storage \o Storage(es)
  /\ capacity' = InitialCapacity(Len(index_infos'))
  /\ tables' = EmptyTables(capacity')
  /\ StartInfo(index_infos', 1)
  /\ rehash_attempt' = 0
  /\ phase' = "insert"
  /\ UNCHANGED hash

\* No entries: the tables and the storage are cleared.
BuildNothing ==
  /\ phase # "insert"
  /\ phase' = "ready"
  /\ entries' = <<>> /\ index_infos' = <<>> /\ storage' = <<>>
  /\ capacity' = 0 /\ tables' = <<<< >>, << >>>>
  /\ inserted' = 0 /\ current_info' = Free /\ turn' = 1 /\ displacements' = 0
  /\ rehash_attempt' = 0
  /\ UNCHANGED hash

Slot == find_home(turn, current_info.key)
SlotIsFree == ~tables[turn][Slot].is_valid

\* The limit of the rehashes taken for that of the displacements.
MayTry_bug == displacements < MaxRehashAttempts

\* The condition of the loop in insert_key_info.
MayTry == displacements < MaxDisplacements

\* A free slot takes the entry; the next one starts.
Place ==
  /\ phase = "insert"
  /\ MayTry
  /\ SlotIsFree
  /\ tables' = [tables EXCEPT ![turn][Slot] = current_info]
  /\ IF inserted + 1 < Len(index_infos)
       THEN StartInfo(index_infos, inserted + 2) /\ UNCHANGED phase
       ELSE /\ phase' = "ready"
            /\ inserted' = inserted + 1
            /\ UNCHANGED <<current_info, turn, displacements>>
  /\ UNCHANGED <<hash, entries, index_infos, capacity, storage, rehash_attempt>>

OtherTable == 3 - turn

\* An occupied slot: the entry takes it, and the one in it goes on.
Displace ==
  /\ phase = "insert"
  /\ MayTry
  /\ ~SlotIsFree
  /\ current_info' = tables[turn][Slot]
  /\ tables' = [tables EXCEPT ![turn][Slot] = current_info]
  /\ turn' = OtherTable
  /\ displacements' = IF turn = 2 THEN displacements + 1 ELSE displacements
  /\ UNCHANGED <<hash, entries, index_infos, phase, capacity, storage, inserted, rehash_attempt>>

\* "a cycle was detected"
GivesUp == phase = "insert" /\ ~MayTry

\* Start again in larger tables, or throw.
Rehash ==
  /\ GivesUp
  /\ rehash_attempt' = rehash_attempt + 1
  /\ UNCHANGED <<hash, entries, index_infos, storage>>
  /\ IF rehash_attempt' < MaxRehashAttempts
       THEN /\ capacity' = capacity * 2 + 1
            /\ tables' = EmptyTables(capacity')
            /\ StartInfo(index_infos, 1)
            /\ UNCHANGED phase
       ELSE /\ phase' = "threw"
            /\ UNCHANGED <<capacity, tables, inserted, current_info, turn, displacements>>

Next ==
  \/ \E es \in EntryLists : Build(es)
  \/ BuildNothing \/ Place \/ Displace \/ Rehash

Spec == Init /\ [][Next]_vars

-----------------------------------------------------------------------------
\* probe(): the key's slot in the first table, or else the one in the second.
Probe(k) ==
  LET found == {t \in 1 .. 2 : /\ capacity > 0
                               /\ tables[t][find_home(t, k)].is_valid
                               /\ tables[t][find_home(t, k)].key = k}
      first == IF 1 \in found THEN 1 ELSE 2
  IN  IF found = {} THEN <<>> ELSE Bucket(storage, tables[first][find_home(first, k)])

TypeOK ==
  /\ phase \in {"empty", "insert", "ready", "threw"}
  /\ tables \in [1 .. 2 -> [0 .. capacity - 1 -> IndexInfo]]
  /\ turn \in 1 .. 2
  /\ displacements \in 0 .. MaxDisplacements
  /\ rehash_attempt \in 0 .. MaxRehashAttempts

\* An entry is in one of its two slots, so that two looks find it.
InHome ==
  \A t \in 1 .. 2 : \A s \in DOMAIN tables[t] :
    tables[t][s].is_valid => s = find_home(t, tables[t][s].key)

\* Throwing entries out and starting again loses none: each entry begun is in one
\* table or in hand, once.
NothingDropped ==
  phase = "insert" =>
    \A n \in 1 .. inserted + 1 :
      LET info == index_infos[n]
      IN  Cardinality({p \in (1 .. 2) \X (0 .. capacity - 1) : tables[p[1]][p[2]] = info})
            + (IF current_info = info THEN 1 ELSE 0) = 1

\* The displacement limit takes no long chain for a cycle: an insertion is given
\* up only when the entries begun cannot all have slots of their own.
GivesUpOnlyOnCycles ==
  GivesUp =>
    LET begun == {index_infos[n].key : n \in 1 .. inserted + 1}
    IN  \A place \in [begun -> 1 .. 2] :
          \E k, l \in begun :
            k # l /\ place[k] = place[l] /\ find_home(place[k], k) = find_home(place[l], l)
=============================================================================
