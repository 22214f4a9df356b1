----------------------------- MODULE RobinHood ------------------------------
(* RobinHoodBackend (robinhood.h): open addressing with linear probing where *)
(* an entry that is further from its home takes the slot of one that is      *)
(* nearer, so that a probe may stop at the first entry nearer to its home    *)
(* than the key looked for.  Building again replaces the table, not the      *)
(* storage: its rows go behind those of the builds before.                   *)
EXTENDS KeyIndex, FiniteSets, Functions

CONSTANTS
  Key,                \* keys, integers
  Hash,               \* the hashes a build may see: functions from Key to Nat
  EntryLists,         \* the lists a table is built from
  MaxRehashAttempts,  \* MAX_REHASH_ATTEMPTS
  MaxStorage          \* bound of the model: rows the storage grows to

VARIABLES
  hash,            \* the hash function of this run
  entries,         \* the list the table is built from
  index_infos,     \* index_infos_to_insert
  phase,           \* "empty", "insert", "ready" or "threw"
  capacity,        \* _capacity
  table,           \* _table
  storage,         \* _storage
  inserted,        \* how many index entries have their place
  current_info,    \* the entry looking for a slot: a new one or one displaced
  current_slot,
  attempts,        \* slots it has looked at
  rehash_attempt

vars == <<hash, entries, index_infos, phase, capacity, table, storage, inserted, current_info,
          current_slot, attempts, rehash_attempt>>

find_home(k) == hash[k] % capacity

\* Distance from the home slot, around the end of the table.
psl(slot, home) == IF slot >= home THEN slot - home ELSE slot + capacity - home

Init ==
  /\ hash \in Hash
  /\ entries = <<>> /\ index_infos = <<>> /\ storage = <<>>
  /\ phase = "empty"
  /\ capacity = 0 /\ table = << >>
  /\ inserted = 0 /\ current_info = Free /\ current_slot = 0 /\ attempts = 0
  /\ rehash_attempt = 0

\* The n-th index entry starts at its home in a table of cap slots.
StartInfo(infos, n, cap) ==
  /\ current_info' = infos[n]
  /\ current_slot' = hash[infos[n].key] % cap
  /\ attempts' = 0
  /\ inserted' = n - 1

EmptyTable(cap) == [s \in 0 .. cap - 1 |-> Free]

\* ceil(n / 0.75)
InitialCapacity(n) == (4 * n + 2) \div 3

\* The current_storage_index of a build starts at 0, also when the storage does not.
Build(es) ==
  /\ phase # "insert"
  /\ es # <<>>
  /\ Len(storage) + Len(es) <= MaxStorage
  /\ entries' = es
  /\ index_infos' = Infos(es)
  /\ storage' = storage \o Storage(es)
  /\ capacity' = InitialCapacity(Len(index_infos'))
  /\ table' = EmptyTable(capacity')
  /\ StartInfo(index_infos', 1, capacity')
  /\ rehash_attempt' = 0
  /\ phase' = "insert"
  /\ UNCHANGED hash

\* No entries: the table and the storage are cleared.
BuildNothing ==
  /\ phase # "insert"
  /\ phase' = "ready"
  /\ entries' = <<>> /\ index_infos' = <<>> /\ storage' = <<>>
  /\ capacity' = 0 /\ table' = << >>
  /\ inserted' = 0 /\ current_info' = Free /\ current_slot' = 0 /\ attempts' = 0
  /\ rehash_attempt' = 0
  /\ UNCHANGED hash

\* A free slot takes the entry; the next one starts.
Place ==
  /\ phase = "insert"
  /\ ~table[current_slot].is_valid
  /\ table' = [table EXCEPT ![current_slot] = current_info]
  /\ IF inserted + 1 < Len(index_infos)
       THEN StartInfo(index_infos, inserted + 2, capacity) /\ UNCHANGED phase
       ELSE /\ phase' = "ready"
            /\ inserted' = inserted + 1
            /\ UNCHANGED <<current_info, current_slot, attempts>>
  /\ UNCHANGED <<hash, entries, index_infos, capacity, storage, rehash_attempt>>

\* Entries as far from home as the newcomer are displaced too.
Displaces_bug ==
  psl(current_slot, find_home(current_info.key))
    < psl(current_slot, find_home(table[current_slot].key))

Displaces ==
  psl(current_slot, find_home(current_info.key))
    > psl(current_slot, find_home(table[current_slot].key))

\* An occupied slot: swap if its entry is nearer to its home, and go on.
Advance ==
  /\ phase = "insert"
  /\ table[current_slot].is_valid
  /\ attempts < capacity
  /\ IF Displaces
       THEN /\ current_info' = table[current_slot]
            /\ table' = [table EXCEPT ![current_slot] = current_info]
       ELSE UNCHANGED <<current_info, table>>
  /\ current_slot' = (current_slot + 1) % capacity
  /\ attempts' = attempts + 1
  /\ UNCHANGED <<hash, entries, index_infos, phase, capacity, storage, inserted, rehash_attempt>>

\* Once around the table without a free slot.
GivesUp == phase = "insert" /\ table[current_slot].is_valid /\ attempts >= capacity

\* Start again in a larger table, or throw.
Rehash ==
  /\ GivesUp
  /\ rehash_attempt' = rehash_attempt + 1
  /\ IF rehash_attempt' < MaxRehashAttempts
       THEN /\ capacity' = capacity * 2 + 1
            /\ table' = EmptyTable(capacity')
            /\ StartInfo(index_infos, 1, capacity')
            /\ UNCHANGED phase
       ELSE /\ phase' = "threw"
            /\ UNCHANGED <<capacity, table, inserted, current_info, current_slot, attempts>>
  /\ UNCHANGED <<hash, entries, index_infos, storage>>

\* The body of the while loop of insert_index_info.
InsertStep == IF GivesUp THEN Rehash ELSE Advance

Next == (\E es \in EntryLists : Build(es)) \/ BuildNothing \/ Place \/ InsertStep

Spec == Init /\ [][Next]_vars

-----------------------------------------------------------------------------
\* The d-th slot a probe looks at, from the key's home on, and whether it stops there:
\* at a free slot or an entry nearer to its home than the key would be.
Looked(k, d) == (find_home(k) + d) % capacity
Stops(slot, d) == ~table[slot].is_valid \/ d > psl(slot, find_home(table[slot].key))

\* How far from its home a key is found, at most once around the table.
Hits(k) ==
  {d \in 0 .. capacity - 1 :
     table[Looked(k, d)].key = k /\ \A e \in 0 .. d : ~Stops(Looked(k, e), e)}

\* probe()
Probe(k) ==
  IF capacity = 0 \/ Hits(k) = {} THEN <<>>
  ELSE Bucket(storage, table[Looked(k, CHOOSE d \in Hits(k) : \A e \in Hits(k) : d <= e)])

TypeOK ==
  /\ phase \in {"empty", "insert", "ready", "threw"}
  /\ table \in [0 .. capacity - 1 -> IndexInfo]
  /\ capacity > 0 => current_slot \in 0 .. capacity - 1
  /\ \A s \in DOMAIN table :
       table[s].is_valid => table[s].start_index + table[s].count <= Len(storage)

\* The order that lets a probe stop early: an entry away from its home follows
\* one that is at most one slot nearer, in the middle of a displacement chain too.
RobinHoodOrder ==
  \A s \in DOMAIN table :
    LET before == (s + capacity - 1) % capacity
        distance(t) == psl(t, find_home(table[t].key))
    IN  table[s].is_valid /\ distance(s) > 0 =>
          table[before].is_valid /\ distance(before) >= distance(s) - 1

\* Displacing entries loses none: each entry begun is in the table or in hand, once.
NothingDropped ==
  phase = "insert" =>
    \A n \in 1 .. inserted + 1 :
      Cardinality({s \in DOMAIN table : table[s] = index_infos[n]})
        + (IF current_info = index_infos[n] THEN 1 ELSE 0) = 1

\* With a quarter of the slots free, an insertion finds one before it has gone
\* around the table: the rehash loop and its exception are never reached.
NeverGivesUp == ~GivesUp
=============================================================================
