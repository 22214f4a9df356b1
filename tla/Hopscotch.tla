----------------------------- MODULE Hopscotch ------------------------------
(* HopscotchBackend (hopscotch.h): an entry is in the neighbourhood of its   *)
(* home slot, whose bitmap says in which slots of it; the free slot found    *)
(* for a newcomer is moved towards its home by moving entries out, and the   *)
(* table is doubled when that fails.  Every build clears the storage first.  *)
EXTENDS KeyIndex, FiniteSets, Functions

CONSTANTS
  Key,               \* keys, integers
  CompositeKeys,     \* the injections of keys that make_ckey may be, Key to Nat
  EntryLists,        \* the lists a table is built from
  NeighborhoodSize,  \* NEIGHBORHOOD_SIZE
  MinCapacity        \* 16, not less than NeighborhoodSize

VARIABLES
  make_ckey,    \* the composite key of a key
  entries,      \* the list the table is built from
  slots,        \* the index entries to insert
  phase,        \* "empty", "seek" a free slot, "move" it closer, "ready"
  capacity,     \* _capacity
  table,        \* _table
  hop_map,      \* _hop_map: the offsets whose bit is set, for each slot
  storage,      \* _storage
  inserted,     \* how many index entries have their place
  empty_slot    \* the free slot for the entry after those

vars == <<make_ckey, entries, slots, phase, capacity, table, hop_map, storage, inserted, empty_slot>>

Offset == 0 .. NeighborhoodSize - 1

\* hash_ckey of the key's composite key
home_of(k) == make_ckey[k] % capacity

distance(i, j) == IF j >= i THEN j - i ELSE j + capacity - i

Init ==
  /\ make_ckey \in CompositeKeys
  /\ entries = <<>> /\ slots = <<>> /\ storage = <<>>
  /\ phase = "empty"
  /\ capacity = 0 /\ table = << >> /\ hop_map = << >>
  /\ inserted = 0 /\ empty_slot = 0

\* An empty table of cap slots, and all the entries still to insert.
Assign(cap) ==
  /\ capacity' = cap
  /\ table' = [s \in 0 .. cap - 1 |-> Free]
  /\ hop_map' = [s \in 0 .. cap - 1 |-> {}]
  /\ inserted' = 0
  /\ empty_slot' = 0
  /\ phase' = "seek"

\* ceil(n / 0.45), and at least MinCapacity
InitialCapacity(n) ==
  LET cap == (20 * n + 8) \div 9
  IN  IF cap < MinCapacity THEN MinCapacity ELSE cap

\* The storage keeps the rows of the builds before, as it does in the other two.
StorageFor_bug(es) == storage \o Storage(es)

\* _storage.clear(), then the rows of the groups.
StorageFor(es) == Storage(es)

Build(es) ==
  /\ phase \in {"empty", "ready"}
  /\ es # <<>>
  /\ entries' = es
  /\ slots' = Infos(es)
  /\ storage' = StorageFor(es)
  /\ Assign(InitialCapacity(Len(slots')))
  /\ UNCHANGED make_ckey

\* No entries: the table and the storage are cleared.
BuildNothing ==
  /\ phase \in {"empty", "ready"}
  /\ phase' = "ready"
  /\ entries' = <<>> /\ slots' = <<>> /\ storage' = <<>>
  /\ capacity' = 0 /\ table' = << >> /\ hop_map' = << >>
  /\ inserted' = 0 /\ empty_slot' = 0
  /\ UNCHANGED make_ckey

\* The entry insert_slot is at.
info == slots[inserted + 1]

\* The first free slot from the entry's home on.
Seek ==
  /\ phase = "seek"
  /\ \E n \in 0 .. capacity - 1 :
       /\ empty_slot' = (home_of(info.key) + n) % capacity
       /\ ~table[empty_slot'].is_valid
       /\ \A m \in 0 .. n - 1 : table[(home_of(info.key) + m) % capacity].is_valid
  /\ phase' = "move"
  /\ UNCHANGED <<make_ckey, entries, slots, capacity, table, hop_map, storage, inserted>>

Near == distance(home_of(info.key), empty_slot) < NeighborhoodSize

Before(offset) == (empty_slot + capacity - offset) % capacity

\* The entry so far before the free slot may move into it: it is where its home's
\* bitmap says, and the free slot is in its neighbourhood.
MayMove(offset) ==
  LET candidate == table[Before(offset)]
      hop_off == distance(home_of(candidate.key), Before(offset))
  IN  /\ candidate.is_valid
      /\ hop_off \in hop_map[home_of(candidate.key)]
      /\ distance(home_of(candidate.key), empty_slot) < NeighborhoodSize

\* The bitmap is left as it was.
MoveSlotCloser_bug ==
  /\ phase = "move" /\ ~Near
  /\ \E offset \in Offset \ {0} :
       /\ MayMove(offset)
       /\ \A nearer \in 1 .. offset - 1 : ~MayMove(nearer)
       /\ table' = [table EXCEPT ![empty_slot] = table[Before(offset)], ![Before(offset)] = Free]
       /\ empty_slot' = Before(offset)
  /\ UNCHANGED <<make_ckey, entries, slots, phase, capacity, hop_map, storage, inserted>>

\* move_slot_closer: the nearest entry before the free slot that may moves into it.
MoveSlotCloser ==
  /\ phase = "move" /\ ~Near
  /\ \E offset \in Offset \ {0} :
       /\ MayMove(offset)
       /\ \A nearer \in 1 .. offset - 1 : ~MayMove(nearer)
       /\ LET candidate == table[Before(offset)]
              home == home_of(candidate.key)
              hop_off == distance(home, Before(offset))
          IN  /\ table' = [table EXCEPT ![empty_slot] = candidate, ![Before(offset)] = Free]
              /\ hop_map' = [hop_map EXCEPT
                               ![home] = (@ \ {hop_off}) \union {distance(home, empty_slot)}]
              /\ empty_slot' = Before(offset)
  /\ UNCHANGED <<make_ckey, entries, slots, phase, capacity, storage, inserted>>

\* The free slot is near enough and takes the entry.
Place ==
  /\ phase = "move" /\ Near
  /\ table' = [table EXCEPT ![empty_slot] = info]
  /\ LET home == home_of(info.key)
     IN  hop_map' = [hop_map EXCEPT ![home] = @ \union {distance(home, empty_slot)}]
  /\ inserted' = inserted + 1
  /\ phase' = IF inserted' = Len(slots) THEN "ready" ELSE "seek"
  /\ UNCHANGED <<make_ckey, entries, slots, capacity, storage, empty_slot>>

\* Tried again in a table of the same size.
Grow_bug ==
  /\ \/ phase = "seek" /\ \A s \in 0 .. capacity - 1 : table[s].is_valid
     \/ phase = "move" /\ ~Near /\ \A offset \in Offset \ {0} : ~MayMove(offset)
  /\ Assign(capacity)
  /\ UNCHANGED <<make_ckey, entries, slots, storage>>

\* No free slot, or none that can be moved near: all over again in a table of
\* twice the size, as often as it takes.
Grow ==
  /\ \/ phase = "seek" /\ \A s \in 0 .. capacity - 1 : table[s].is_valid
     \/ phase = "move" /\ ~Near /\ \A offset \in Offset \ {0} : ~MayMove(offset)
  /\ Assign(capacity * 2)
  /\ UNCHANGED <<make_ckey, entries, slots, storage>>

Next ==
  \/ \E es \in EntryLists : Build(es)
  \/ BuildNothing \/ Seek \/ MoveSlotCloser \/ Place \/ Grow

Spec == Init /\ [][Next]_vars

-----------------------------------------------------------------------------
\* probe(): the slots the bitmap of the key's home names, from the home on.
Probe(k) ==
  LET home == home_of(k)
      at(off) == (home + off) % capacity
      hits == {off \in hop_map[home] : table[at(off)].is_valid /\ table[at(off)].key = k}
  IN  IF capacity = 0 \/ hits = {} THEN <<>>
      ELSE Bucket(storage, table[at(CHOOSE off \in hits : \A other \in hits : off <= other)])

TypeOK ==
  /\ phase \in {"empty", "seek", "move", "ready"}
  /\ table \in [0 .. capacity - 1 -> IndexInfo]
  /\ hop_map \in [0 .. capacity - 1 -> SUBSET Offset]
  /\ capacity > 0 => empty_slot \in 0 .. capacity - 1
  /\ inserted \in 0 .. Len(entries)

\* The bitmap of a home names its entries, all of them and nothing else, and the
\* entry moved last too.
HopMapExact ==
  \A s \in DOMAIN table :
    /\ hop_map[s] = {off \in Offset : LET slot == (s + off) % capacity
                                      IN  table[slot].is_valid /\ home_of(table[slot].key) = s}
    /\ table[s].is_valid => distance(home_of(table[s].key), s) \in Offset

\* Moving entries about loses none and leaves no copy, and the slot made free for
\* the newcomer is free.
NothingDropped ==
  /\ phase \in {"seek", "move"} =>
       {table[s] : s \in DOMAIN table} \ {Free} = {slots[n] : n \in 1 .. inserted}
  /\ Cardinality({s \in DOMAIN table : table[s].is_valid}) = inserted
  /\ phase = "move" => ~table[empty_slot].is_valid
=============================================================================
