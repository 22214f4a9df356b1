-------------------------- MODULE KeyTablesProofs --------------------------
(***************************************************************************)
(* Proofs about the tables behind JoinTable, whichever is compiled in, for  *)
(* any hash functions, any sizes and any sequence of builds and probes.     *)
(*                                                                          *)
(* UnchainedTable: the copy loop stays in its slots, and a probe finds the  *)
(* entries of its key, each once.  RobinHood, Cuckoo and Hopscotch: between *)
(* any two swaps, displacements or moves every entry is where a probe looks *)
(* for it or is the one in hand, and a probe answers the rows of its key in *)
(* their order.  Behind the interface: a build takes what it is given and   *)
(* every probe after it answers from that, but for a Robin Hood or cuckoo   *)
(* table built again before it was cleared: its index is right, and names   *)
(* the rows of an earlier list.                                             *)
(***************************************************************************)
EXTENDS KeyTables, PagesProofs

-----------------------------------------------------------------------------
(* The invariant.                                                          *)

EntrySlot(u) == Slot(entries[u].key)

\* The entries of a slot from number n on, and those before it.
Remaining(s, n) == {u \in n .. Len(entries) : EntrySlot(u) = s}
Counted(s, n) == {u \in 1 .. n - 1 : EntrySlot(u) = s}

TagBits == UNION {TagOf[k] : k \in Key}

Types ==
  /\ dir_size \in DirSizes
  /\ directory_offsets \in [Slots -> Nat]
  /\ bloom_filters \in [Slots -> SUBSET TagBits]
  /\ counts \in [Slots -> Nat]
  /\ write_ptrs \in [Slots -> Nat]
  /\ tuples \in Seq(Entry)
  /\ phase \in {"ready", "count", "prefix", "scatter"}
  /\ entries \in Seq(Entry) /\ IsInjective(entries)
  /\ i \in Nat /\ cumulative \in Nat

\* The Bloom bits of the entries before number n are in their slots.
TagsSet(n) == \A u \in 1 .. n - 1 : TagOf[entries[u].key] \subseteq bloom_filters[EntrySlot(u)]

\* The END pointers never go down, up to slot n.
Ascending(n) ==
  \A s, t \in 0 .. n - 1 : s <= t => directory_offsets[s] <= directory_offsets[t]

Directory == Ascending(dir_size) /\ \A s \in Slots : directory_offsets[s] <= Len(tuples)

\* The tuples of a slot up to its end, in `ends', are the entries of the slot before
\* number n, each once.
Placed(n, ends) ==
  /\ \A s \in Slots : \A p \in SlotBegin(s) + 1 .. ends[s] :
       \E u \in 1 .. n - 1 : EntrySlot(u) = s /\ tuples[p] = entries[u]
  /\ \A u \in 1 .. n - 1 :
       \E p \in SlotBegin(EntrySlot(u)) + 1 .. ends[EntrySlot(u)] : tuples[p] = entries[u]
  /\ \A s \in Slots : \A p, q \in SlotBegin(s) + 1 .. ends[s] : p # q => tuples[p] # tuples[q]

CountInv ==
  phase = "count" =>
    /\ i \in 1 .. Len(entries) + 1
    /\ \A s \in Slots : counts[s] = Cardinality(Counted(s, i))
    /\ TagsSet(i)

PrefixInv ==
  phase = "prefix" =>
    /\ i <= dir_size
    /\ \A s \in Slots : counts[s] = Cardinality(Remaining(s, 1))
    /\ TagsSet(Len(entries) + 1)
    /\ Ascending(i)
    /\ \A s \in 0 .. i - 1 : directory_offsets[s] = SlotBegin(s) + counts[s]
    /\ cumulative = SlotBegin(i)

\* What is left to copy fits exactly between the write pointer and the end.
ScatterInv ==
  phase = "scatter" =>
    /\ i \in 1 .. Len(entries) + 1
    /\ TagsSet(Len(entries) + 1)
    /\ Directory
    /\ \A s \in Slots :
         /\ SlotBegin(s) <= write_ptrs[s]
         /\ write_ptrs[s] + Cardinality(Remaining(s, i)) = directory_offsets[s]
    /\ Placed(i, write_ptrs)

ReadyInv ==
  phase = "ready" =>
    /\ TagsSet(Len(entries) + 1)
    /\ Directory
    /\ Placed(Len(entries) + 1, directory_offsets)

IInv == Types /\ CountInv /\ PrefixInv /\ ScatterInv /\ ReadyInv
-----------------------------------------------------------------------------
(* Slots and their entries.                                                *)

LEMMA Sizes ==
  ASSUME Types
  PROVE  /\ dir_size \in Nat \ {0}
         /\ \A k \in Key : Slot(k) \in Slots
         /\ Len(entries) \in Nat /\ DOMAIN entries = 1 .. Len(entries)
         /\ \A u \in 1 .. Len(entries) :
              entries[u] \in Entry /\ entries[u].key \in Key /\ EntrySlot(u) \in Slots
<1>1. dir_size \in Nat \ {0} /\ SlotOf[dir_size] \in [Key -> 0 .. dir_size - 1]
  BY SlotAssumption DEF Types
<1>2. Len(entries) \in Nat /\ DOMAIN entries = 1 .. Len(entries)
  BY LenProperties DEF Types
<1>3. \A u \in 1 .. Len(entries) : entries[u] \in Entry
  BY ElementOfSeq DEF Types
<1>. QED
  BY <1>1, <1>2, <1>3 DEF Slot, Slots, EntrySlot, Entry

LEMMA FiniteParts ==
  ASSUME Types, NEW s, NEW n \in Nat
  PROVE  /\ IsFiniteSet(Remaining(s, n)) /\ Cardinality(Remaining(s, n)) \in Nat
         /\ IsFiniteSet(Counted(s, n)) /\ Cardinality(Counted(s, n)) \in Nat
<1>. Len(entries) \in Int /\ n - 1 \in Int
  BY Sizes
<1>1. IsFiniteSet(n .. Len(entries)) /\ IsFiniteSet(1 .. n - 1)
  BY FS_Interval
<1>2. Remaining(s, n) \in SUBSET (n .. Len(entries)) /\ Counted(s, n) \in SUBSET (1 .. n - 1)
  BY DEF Remaining, Counted
<1>. QED
  BY <1>1, <1>2, FS_Subset, FS_CardinalityType

\* One more entry is counted.
LEMMA CountedNext ==
  ASSUME Types, NEW n \in 1 .. Len(entries), NEW s \in Slots
  PROVE  Cardinality(Counted(s, n + 1)) =
           Cardinality(Counted(s, n)) + IF EntrySlot(n) = s THEN 1 ELSE 0
<1>. n \in Nat /\ n + 1 \in Nat
  BY Sizes
<1>1. CASE EntrySlot(n) = s
  <2>1. Counted(s, n + 1) = Counted(s, n) \cup {n} /\ n \notin Counted(s, n)
    BY <1>1, Sizes DEF Counted
  <2>. QED
    BY <2>1, <1>1, FiniteParts, FS_AddElement
<1>2. CASE EntrySlot(n) # s
  <2>1. Counted(s, n + 1) = Counted(s, n)
    BY <1>2, Sizes DEF Counted
  <2>. QED
    BY <2>1, <1>2, FiniteParts
<1>. QED
  BY <1>1, <1>2

\* One entry less remains.
LEMMA RemainingNext ==
  ASSUME Types, NEW n \in 1 .. Len(entries), NEW s \in Slots
  PROVE  Cardinality(Remaining(s, n)) =
           Cardinality(Remaining(s, n + 1)) + IF EntrySlot(n) = s THEN 1 ELSE 0
<1>. n \in Nat /\ n + 1 \in Nat
  BY Sizes
<1>1. CASE EntrySlot(n) = s
  <2>1. Remaining(s, n) = Remaining(s, n + 1) \cup {n} /\ n \notin Remaining(s, n + 1)
    BY <1>1, Sizes DEF Remaining
  <2>. QED
    BY <2>1, <1>1, FiniteParts, FS_AddElement
<1>2. CASE EntrySlot(n) # s
  <2>1. Remaining(s, n) = Remaining(s, n + 1)
    BY <1>2, Sizes DEF Remaining
  <2>. QED
    BY <2>1, <1>2, FiniteParts
<1>. QED
  BY <1>1, <1>2

LEMMA NothingRemains ==
  ASSUME Types, NEW s
  PROVE  /\ Cardinality(Remaining(s, Len(entries) + 1)) = 0
         /\ Cardinality(Counted(s, 1)) = 0
         /\ Counted(s, Len(entries) + 1) = Remaining(s, 1)
<1>1. Remaining(s, Len(entries) + 1) = {} /\ Counted(s, 1) = {}
  BY Sizes DEF Remaining, Counted
<1>2. Counted(s, Len(entries) + 1) = Remaining(s, 1)
  BY Sizes DEF Remaining, Counted
<1>. QED
  BY <1>1, <1>2, FS_EmptySet

\* A slot begins where the one before it ends.
LEMMA SlotRanges ==
  ASSUME Types, Directory, NEW s \in Slots
  PROVE  /\ SlotBegin(s) \in Nat /\ directory_offsets[s] \in Nat
         /\ SlotBegin(s) <= directory_offsets[s]
         /\ directory_offsets[s] <= Len(tuples)
         /\ \A t \in Slots : t < s => directory_offsets[t] <= SlotBegin(s)
<1>. USE Sizes DEF Slots
<1>1. directory_offsets \in [0 .. dir_size - 1 -> Nat]
  BY DEF Types
<1>2. CASE s = 0
  BY <1>1, <1>2 DEF SlotBegin, Directory
<1>3. CASE s # 0
  <2>1. s - 1 \in 0 .. dir_size - 1
    BY <1>3
  <2>. QED
    BY <1>1, <1>3, <2>1 DEF SlotBegin, Directory, Ascending
<1>. QED
  BY <1>2, <1>3

-----------------------------------------------------------------------------
(* The invariant is preserved, one lemma per action.                       *)

\* While a build goes on, the slots and the remaining entries stay what they are.
LEMMA SameEntries ==
  ASSUME UNCHANGED <<dir_size, entries>>
  PROVE  /\ Slots' = Slots
         /\ \A u : EntrySlot(u)' = EntrySlot(u)
         /\ \A s, n : Remaining(s, n)' = Remaining(s, n)
         /\ \A s, n : Counted(s, n)' = Counted(s, n)
BY DEF Slots, EntrySlot, Slot, Remaining, Counted

\* A table without entries satisfies what a table that is ready must.
LEMMA EmptyReady ==
  Types /\ phase = "ready" /\ entries = <<>> /\ directory_offsets = ZeroSlots(dir_size) => IInv
<1>. SUFFICES ASSUME Types, phase = "ready", entries = <<>>,
                     directory_offsets = ZeroSlots(dir_size)
              PROVE  IInv
  OBVIOUS
<1>1. Len(entries) = 0 /\ dir_size \in Nat \ {0} /\ Len(tuples) \in Nat
  BY Sizes, LenProperties DEF Types
<1>2. \A s \in Slots : directory_offsets[s] = 0 /\ SlotBegin(s) = 0
  BY <1>1 DEF Slots, ZeroSlots, SlotBegin
<1>3. TagsSet(Len(entries) + 1)
  BY <1>1 DEF TagsSet
<1>4. Directory
  BY <1>1, <1>2 DEF Directory, Ascending, Slots
<1>5. Placed(Len(entries) + 1, directory_offsets)
  BY <1>1, <1>2 DEF Placed
<1>. QED
  BY <1>3, <1>4, <1>5 DEF IInv, CountInv, PrefixInv, ScatterInv, ReadyInv

LEMMA ZeroTypes ==
  ASSUME NEW d \in Nat
  PROVE  /\ ZeroSlots(d) \in [0 .. d - 1 -> Nat]
         /\ NoBits(d) \in [0 .. d - 1 -> SUBSET TagBits]
BY DEF ZeroSlots, NoBits

LEMMA NoEntries == <<>> \in Seq(Entry) /\ IsInjective(<<>>)
BY EmptySeq DEF IsInjective

LEMMA InitIInv == Init => IInv
<1>. SUFFICES ASSUME Init PROVE IInv
  OBVIOUS
<1>1. dir_size \in DirSizes /\ dir_size \in Nat
  BY SlotAssumption DEF Init, DirSizes
<1>2. Types
  BY <1>1, ZeroTypes, NoEntries DEF Init, Types, Slots
<1>. QED
  BY <1>2, EmptyReady DEF Init

LEMMA ReserveIInv ==
  ASSUME IInv, NEW asked \in Capacities, Reserve(asked)
  PROVE  IInv'
<1>1. dir_size' \in DirSizes /\ dir_size' \in Nat
  BY SlotAssumption DEF Reserve, DirSizes
<1>2. Types'
  BY <1>1, ZeroTypes, NoEntries DEF IInv, Types, Reserve, Slots
<1>3. (Types /\ phase = "ready" /\ entries = <<>>
         /\ directory_offsets = ZeroSlots(dir_size) => IInv)'
  BY EmptyReady, PTL
<1>. QED
  BY <1>2, <1>3 DEF Reserve

LEMMA BuildNothingIInv ==
  ASSUME IInv, BuildNothing
  PROVE  IInv'
<1>1. dir_size' \in DirSizes /\ dir_size' \in Nat
  BY SlotAssumption DEF BuildNothing, IInv, Types
<1>2. Types'
  BY <1>1, ZeroTypes, NoEntries DEF IInv, Types, BuildNothing, Slots
<1>3. (Types /\ phase = "ready" /\ entries = <<>>
         /\ directory_offsets = ZeroSlots(dir_size) => IInv)'
  BY EmptyReady, PTL
<1>. QED
  BY <1>2, <1>3 DEF BuildNothing

LEMMA StartBuildIInv ==
  ASSUME IInv, NEW es \in Lists, StartBuild(es)
  PROVE  IInv'
<1>1. dir_size' \in DirSizes /\ dir_size' \in Nat
  BY SlotAssumption DEF StartBuild, IInv, Types
<1>2. Types'
  BY <1>1, ZeroTypes, EntryAssumption DEF IInv, Types, StartBuild, Slots
<1>3. CountInv'
  <2>1. Len(entries)' \in Nat /\ i' = 1
    BY <1>2, Sizes DEF StartBuild
  <2>2. \A s \in Slots' : Cardinality(Counted(s, 1))' = 0
    BY FS_EmptySet DEF Counted
  <2>3. \A s \in Slots' : counts'[s] = 0
    BY DEF StartBuild, ZeroSlots, Slots
  <2>4. TagsSet(1)'
    BY DEF TagsSet
  <2>. QED
    BY <2>1, <2>2, <2>3, <2>4 DEF CountInv
<1>. QED
  BY <1>2, <1>3 DEF IInv, PrefixInv, ScatterInv, ReadyInv, StartBuild

LEMMA CountEntryIInv ==
  ASSUME IInv, CountEntry
  PROVE  IInv'
<1>. DEFINE slot == EntrySlot(i)
<1>1. Types /\ i \in 1 .. Len(entries) /\ Len(entries) \in Nat
  BY Sizes DEF IInv, CountInv, CountEntry
<1>2. slot \in Slots /\ entries[i].key \in Key
  BY <1>1, Sizes
<1>3. /\ counts' = [counts EXCEPT ![slot] = @ + 1]
      /\ bloom_filters' = [bloom_filters EXCEPT ![slot] = @ \union TagOf[entries[i].key]]
  BY DEF CountEntry, EntrySlot
<1>4. UNCHANGED <<dir_size, entries>> /\ i' = i + 1 /\ phase' = "count"
  BY DEF CountEntry
<1>. HIDE DEF slot
<1>5. Types'
  <2>1. counts' \in [Slots -> Nat]
    BY <1>2, <1>3 DEF IInv, Types
  <2>2. TagOf[entries[i].key] \subseteq TagBits
    BY <1>2 DEF TagBits
  <2>3. bloom_filters' \in [Slots -> SUBSET TagBits]
    BY <1>2, <1>3, <2>2 DEF IInv, Types
  <2>. QED
    BY <1>1, <1>4, <2>1, <2>3, SameEntries DEF Types, CountEntry
<1>6. \A s \in Slots' : counts'[s] = Cardinality(Counted(s, i))'
  <2>. SUFFICES ASSUME NEW s \in Slots PROVE counts'[s] = Cardinality(Counted(s, i + 1))
    BY <1>4, SameEntries
  <2>1. Cardinality(Counted(s, i + 1)) = Cardinality(Counted(s, i)) + IF slot = s THEN 1 ELSE 0
    BY <1>1, CountedNext DEF slot
  <2>2. counts[s] = Cardinality(Counted(s, i)) /\ counts[s] \in Nat /\ counts \in [Slots -> Nat]
    BY DEF IInv, CountInv, CountEntry, Types
  <2>. QED
    BY <2>1, <2>2, <1>2, <1>3
<1>7. TagsSet(i)'
  <2>. SUFFICES ASSUME NEW u \in 1 .. i
                PROVE  TagOf[entries[u].key] \subseteq bloom_filters'[EntrySlot(u)]
    BY <1>1, <1>4, SameEntries DEF TagsSet
  <2>1. bloom_filters \in [Slots -> SUBSET TagBits] /\ EntrySlot(u) \in Slots
    BY <1>1, Sizes DEF Types
  <2>2. bloom_filters[EntrySlot(u)] \subseteq bloom_filters'[EntrySlot(u)]
    BY <2>1, <1>2, <1>3
  <2>3. CASE u = i
    BY <2>3, <2>1, <1>2, <1>3 DEF slot
  <2>4. CASE u # i
    BY <2>2, <2>4, <1>1 DEF IInv, CountInv, CountEntry, TagsSet
  <2>. QED
    BY <2>3, <2>4
<1>. QED
  BY <1>1, <1>4, <1>5, <1>6, <1>7 DEF IInv, CountInv, PrefixInv, ScatterInv, ReadyInv

LEMMA StartPrefixIInv ==
  ASSUME IInv, StartPrefix
  PROVE  IInv'
<1>1. Types /\ Len(entries) \in Nat /\ dir_size \in Nat \ {0} /\ i = Len(entries) + 1
  BY Sizes DEF IInv, CountInv, StartPrefix, Types
<1>2. UNCHANGED <<dir_size, entries>>
  BY DEF StartPrefix
<1>3. Types'
  BY <1>1, SameEntries, <1>2 DEF Types, StartPrefix
<1>4. \A s \in Slots : counts[s] = Cardinality(Remaining(s, 1))
  BY <1>1, NothingRemains DEF IInv, CountInv, StartPrefix
<1>5. PrefixInv'
  <2>1. \A s \in Slots' : counts'[s] = Cardinality(Remaining(s, 1))'
    BY <1>2, <1>4, SameEntries DEF StartPrefix
  <2>2. TagsSet(Len(entries) + 1)'
    BY <1>1, <1>2, SameEntries DEF IInv, CountInv, StartPrefix, TagsSet
  <2>3. Ascending(0)'
    BY DEF Ascending
  <2>. QED
    BY <1>1, <1>2, <2>1, <2>2, <2>3 DEF PrefixInv, StartPrefix, SlotBegin
<1>. QED
  BY <1>3, <1>5 DEF IInv, CountInv, ScatterInv, ReadyInv, StartPrefix

LEMMA PrefixSlotIInv ==
  ASSUME IInv, PrefixSlot
  PROVE  IInv'
<1>1. /\ Types /\ dir_size \in Nat \ {0} /\ i \in Slots /\ Len(entries) \in Nat
      /\ i \in Nat /\ i < dir_size
  BY Sizes DEF IInv, PrefixSlot, Types, Slots
<1>2. /\ Ascending(i) /\ cumulative = SlotBegin(i)
      /\ \A s \in 0 .. i - 1 : directory_offsets[s] = SlotBegin(s) + counts[s]
      /\ directory_offsets \in [Slots -> Nat] /\ counts \in [Slots -> Nat]
      /\ cumulative \in Nat
  BY DEF IInv, PrefixInv, PrefixSlot, Types
<1>3. /\ directory_offsets' = [directory_offsets EXCEPT ![i] = cumulative + counts[i]]
      /\ cumulative' = cumulative + counts[i] /\ cumulative' \in Nat
      /\ UNCHANGED <<dir_size, entries, counts, bloom_filters, phase>>
      /\ i' = i + 1
  BY <1>1, <1>2 DEF PrefixSlot
<1>4. Types'
  <2>1. directory_offsets' \in [Slots -> Nat] /\ i' \in Nat
    BY <1>1, <1>2, <1>3
  <2>2. UNCHANGED <<write_ptrs, tuples>> /\ Slots' = Slots
    BY <1>3, SameEntries DEF PrefixSlot
  <2>. QED
    BY <1>1, <1>3, <2>1, <2>2 DEF Types
<1>5. /\ \A s \in 0 .. i - 1 : directory_offsets'[s] = directory_offsets[s]
      /\ directory_offsets'[i] = cumulative + counts[i]
  BY <1>1, <1>2, <1>3 DEF Slots
<1>6. \A s \in 0 .. i : SlotBegin(s)' = SlotBegin(s)
  BY <1>1, <1>5 DEF SlotBegin
<1>7. \A s \in 0 .. i - 1 : directory_offsets[s] <= cumulative
  BY <1>1, <1>2 DEF Ascending, SlotBegin
<1>8. Ascending(i)'
  <2>. SUFFICES ASSUME NEW s \in 0 .. i, NEW t \in 0 .. i, s <= t
                PROVE  directory_offsets'[s] <= directory_offsets'[t]
    BY <1>1, <1>3 DEF Ascending
  <2>. s \in Slots /\ t \in Slots
    BY <1>1 DEF Slots
  <2>1. CASE t < i
    BY <2>1, <1>1, <1>2, <1>5 DEF Ascending
  <2>2. CASE t = i /\ s < i
    BY <2>2, <1>1, <1>2, <1>5, <1>7
  <2>3. CASE t = i /\ s = i
    BY <2>3, <1>1, <1>2, <1>5
  <2>. QED
    BY <1>1, <2>1, <2>2, <2>3
<1>9. \A s \in 0 .. i : directory_offsets'[s] = SlotBegin(s)' + counts'[s]
  BY <1>1, <1>2, <1>3, <1>5, <1>6
<1>10. cumulative' = SlotBegin(i)'
  BY <1>1, <1>3, <1>5 DEF SlotBegin
<1>11. \A s \in Slots' : counts'[s] = Cardinality(Remaining(s, 1))'
  BY <1>3, SameEntries DEF IInv, PrefixInv, PrefixSlot
<1>12. TagsSet(Len(entries) + 1)'
  BY <1>3, SameEntries DEF IInv, PrefixInv, PrefixSlot, TagsSet
<1>13. PrefixInv'
  BY <1>1, <1>3, <1>8, <1>9, <1>10, <1>11, <1>12 DEF PrefixInv
<1>. QED
  BY <1>3, <1>4, <1>13 DEF IInv, CountInv, ScatterInv, ReadyInv, PrefixSlot

LEMMA AllocateTuplesIInv ==
  ASSUME IInv, AllocateTuples
  PROVE  IInv'
<1>1. /\ Types /\ dir_size \in Nat \ {0} /\ Len(entries) \in Nat /\ i = dir_size
      /\ directory_offsets \in [0 .. dir_size - 1 -> Nat] /\ cumulative \in Nat
  BY Sizes DEF IInv, AllocateTuples, Types, Slots
<1>2. /\ UNCHANGED <<dir_size, entries, directory_offsets, counts, bloom_filters>>
      /\ tuples' = [t \in 1 .. cumulative |-> Blank]
      /\ write_ptrs' = [s \in Slots |-> SlotBegin(s)]
      /\ i' = 1 /\ phase' = "scatter" /\ cumulative' = cumulative
  BY DEF AllocateTuples, SlotBegin
<1>3. \A s \in Slots : SlotBegin(s) \in Nat /\ SlotBegin(s)' = SlotBegin(s)
  BY <1>1, <1>2 DEF SlotBegin, Slots
<1>4. tuples' \in Seq(Entry) /\ Len(tuples') = cumulative
  <2>1. Blank \in Entry
    BY EntryAssumption DEF Blank, Entry
  <2>. QED
    BY <2>1, <1>1, <1>2
<1>5. write_ptrs' \in [Slots -> Nat]
  BY <1>2, <1>3
<1>6. Types'
  <2>1. Slots' = Slots
    BY <1>2, SameEntries
  <2>. QED
    BY <1>1, <1>2, <1>4, <1>5, <2>1 DEF Types
<1>7. /\ Ascending(dir_size) /\ cumulative = SlotBegin(dir_size)
      /\ \A s \in Slots : directory_offsets[s] = SlotBegin(s) + counts[s]
      /\ \A s \in Slots : counts[s] = Cardinality(Remaining(s, 1))
      /\ TagsSet(Len(entries) + 1)
  BY <1>1 DEF IInv, PrefixInv, AllocateTuples, Slots
<1>8. \A s \in Slots : directory_offsets[s] <= cumulative
  BY <1>1, <1>7 DEF Ascending, SlotBegin, Slots
<1>9. Directory'
  BY <1>2, <1>4, <1>7, <1>8, SameEntries DEF Directory, Ascending
<1>10. TagsSet(Len(entries) + 1)'
  BY <1>2, <1>7, SameEntries DEF TagsSet
<1>11. \A s \in Slots' : /\ SlotBegin(s)' <= write_ptrs'[s]
                         /\ write_ptrs'[s] + Cardinality(Remaining(s, i))' = directory_offsets'[s]
  <2>. SUFFICES ASSUME NEW s \in Slots
                PROVE  /\ SlotBegin(s) <= write_ptrs'[s]
                       /\ write_ptrs'[s] + Cardinality(Remaining(s, 1)) = directory_offsets[s]
    BY <1>2, <1>3, SameEntries
  <2>. QED
    BY <1>2, <1>3, <1>7
<1>12. Placed(i, write_ptrs)'
  BY <1>2, <1>3, SameEntries DEF Placed
<1>13. ScatterInv'
  BY <1>1, <1>2, <1>9, <1>10, <1>11, <1>12 DEF ScatterInv
<1>. QED
  BY <1>2, <1>6, <1>13 DEF IInv, CountInv, PrefixInv, ReadyInv

\* The next place of a slot is inside it.
LEMMA Room ==
  ASSUME IInv, phase = "scatter", i <= Len(entries)
  PROVE  /\ EntrySlot(i) \in Slots
         /\ SlotBegin(EntrySlot(i)) <= write_ptrs[EntrySlot(i)]
         /\ write_ptrs[EntrySlot(i)] < directory_offsets[EntrySlot(i)]
         /\ directory_offsets[EntrySlot(i)] <= Len(tuples)
<1>1. Types /\ Directory /\ i \in 1 .. Len(entries) /\ Len(entries) \in Nat
  BY Sizes DEF IInv, ScatterInv
<1>2. EntrySlot(i) \in Slots
  BY <1>1, Sizes
<1>. DEFINE s == EntrySlot(i)
<1>3. i \in Remaining(s, i)
  BY <1>1 DEF Remaining
<1>. HIDE DEF s
<1>4. Cardinality(Remaining(s, i)) \in Nat \ {0}
  BY <1>1, <1>3, FiniteParts, FS_EmptySet
<1>5. write_ptrs[s] \in Nat /\ directory_offsets[s] \in Nat
  BY <1>2 DEF s, IInv, Types
<1>6. /\ SlotBegin(s) <= write_ptrs[s]
      /\ write_ptrs[s] + Cardinality(Remaining(s, i)) = directory_offsets[s]
  BY <1>2 DEF s, IInv, ScatterInv
<1>7. write_ptrs[s] < directory_offsets[s]
  BY <1>4, <1>5, <1>6
<1>. QED
  BY <1>1, <1>2, <1>6, <1>7 DEF s, Directory

LEMMA ScatterEntryIInv ==
  ASSUME IInv, ScatterEntry
  PROVE  IInv'
<1>. DEFINE slot == EntrySlot(i)
            place == write_ptrs[slot] + 1
<1>1. /\ Types /\ Directory /\ TagsSet(Len(entries) + 1) /\ Placed(i, write_ptrs)
      /\ i \in 1 .. Len(entries) /\ Len(entries) \in Nat /\ phase = "scatter"
  BY Sizes DEF IInv, ScatterInv, ScatterEntry
<1>2. /\ slot \in Slots /\ SlotBegin(slot) < place /\ place <= directory_offsets[slot]
      /\ place \in 1 .. Len(tuples)
  <2>1. /\ slot \in Slots /\ SlotBegin(slot) <= write_ptrs[slot]
        /\ write_ptrs[slot] < directory_offsets[slot] /\ directory_offsets[slot] <= Len(tuples)
    BY <1>1, Room
  <2>2. write_ptrs[slot] \in Nat /\ SlotBegin(slot) \in Nat /\ directory_offsets[slot] \in Nat
    BY <2>1, <1>1, SlotRanges DEF Types
  <2>3. Len(tuples) \in Nat
    BY <1>1, LenProperties DEF Types
  <2>. HIDE DEF slot
  <2>. QED
    BY <2>1, <2>2, <2>3
<1>3. /\ tuples' = [tuples EXCEPT ![place] = entries[i]]
      /\ write_ptrs' = [write_ptrs EXCEPT ![slot] = place]
      /\ UNCHANGED <<dir_size, directory_offsets, bloom_filters, counts, phase, entries, cumulative>>
      /\ i' = i + 1
  BY DEF ScatterEntry, EntrySlot
<1>4. Slots' = Slots /\ \A s : SlotBegin(s)' = SlotBegin(s) /\ EntrySlot(s)' = EntrySlot(s)
  BY <1>3, SameEntries DEF SlotBegin
<1>. HIDE DEF slot, place
<1>5. /\ tuples' \in Seq(Entry) /\ Len(tuples') = Len(tuples)
      /\ \A p \in 1 .. Len(tuples) : tuples'[p] = IF p = place THEN entries[i] ELSE tuples[p]
  BY <1>1, <1>2, <1>3, Sizes, ExceptSeq DEF Types
<1>6. \A s \in Slots : /\ write_ptrs[s] \in Nat
                      /\ write_ptrs'[s] = IF s = slot THEN place ELSE write_ptrs[s]
  BY <1>1, <1>2, <1>3 DEF Types
<1>7. Types'
  <2>1. place \in Nat /\ i' \in Nat
    BY <1>1, <1>2, <1>3
  <2>2. write_ptrs' \in [Slots -> Nat]
    BY <2>1, <1>1, <1>3 DEF Types
  <2>. QED
    BY <1>1, <1>3, <1>4, <1>5, <2>1, <2>2 DEF Types
<1>8. TagsSet(Len(entries) + 1)'
  BY <1>1, <1>3, <1>4 DEF TagsSet
<1>9. Directory'
  BY <1>1, <1>3, <1>4, <1>5 DEF Directory, Ascending
<1>10. \A s \in Slots : /\ SlotBegin(s) \in Nat /\ directory_offsets[s] \in Nat
                       /\ SlotBegin(s) <= write_ptrs[s] /\ write_ptrs[s] <= directory_offsets[s]
                       /\ write_ptrs[s] + Cardinality(Remaining(s, i)) = directory_offsets[s]
  <2>. SUFFICES ASSUME NEW s \in Slots
                PROVE  /\ SlotBegin(s) \in Nat /\ directory_offsets[s] \in Nat
                       /\ SlotBegin(s) <= write_ptrs[s] /\ write_ptrs[s] <= directory_offsets[s]
                       /\ write_ptrs[s] + Cardinality(Remaining(s, i)) = directory_offsets[s]
    OBVIOUS
  <2>1. SlotBegin(s) \in Nat /\ directory_offsets[s] \in Nat
    BY <1>1, SlotRanges
  <2>2. Cardinality(Remaining(s, i)) \in Nat
    BY <1>1, FiniteParts
  <2>. QED
    BY <1>1, <1>6, <2>1, <2>2 DEF IInv, ScatterInv
<1>11. \A s \in Slots' :
         /\ SlotBegin(s)' <= write_ptrs'[s]
         /\ write_ptrs'[s] + Cardinality(Remaining(s, i))' = directory_offsets'[s]
  <2>. SUFFICES ASSUME NEW s \in Slots
                PROVE  /\ SlotBegin(s) <= write_ptrs'[s]
                       /\ write_ptrs'[s] + Cardinality(Remaining(s, i + 1)) = directory_offsets[s]
    BY <1>3, <1>4, SameEntries
  <2>1. Cardinality(Remaining(s, i)) =
          Cardinality(Remaining(s, i + 1)) + IF slot = s THEN 1 ELSE 0
    BY <1>1, RemainingNext DEF slot
  <2>2. Cardinality(Remaining(s, i + 1)) \in Nat
    BY <1>1, FiniteParts
  <2>3. place = write_ptrs[slot] + 1
    BY DEF place
  <2>. QED
    BY <1>2, <1>6, <1>10, <2>1, <2>2, <2>3
<1>12. \A s \in Slots : \A p \in SlotBegin(s) + 1 .. write_ptrs[s] :
         p # place /\ tuples'[p] = tuples[p]
  <2>. SUFFICES ASSUME NEW s \in Slots, NEW p \in SlotBegin(s) + 1 .. write_ptrs[s]
                PROVE  p # place /\ tuples'[p] = tuples[p]
    OBVIOUS
  <2>1. /\ SlotBegin(s) \in Nat /\ write_ptrs[s] \in Nat /\ p \in Nat
        /\ SlotBegin(s) < p /\ p <= write_ptrs[s]
    BY <1>6, <1>10
  <2>2. directory_offsets[s] <= Len(tuples) /\ Len(tuples) \in Nat
    BY <1>1, SlotRanges, LenProperties DEF Types
  <2>3. p # place
    <3>1. s \in Int /\ slot \in Int
      BY <1>1, <1>2, Sizes DEF Slots
    <3>2. CASE s = slot
      BY <3>2, <2>1 DEF place
    <3>3. CASE s < slot
      <4>1. directory_offsets[s] <= SlotBegin(slot) /\ SlotBegin(slot) \in Nat
        BY <3>3, <1>1, <1>2, SlotRanges
      <4>. QED
        BY <4>1, <2>1, <1>2, <1>10
    <3>4. CASE slot < s
      <4>1. directory_offsets[slot] <= SlotBegin(s)
        BY <3>4, <1>1, <1>2, SlotRanges
      <4>. QED
        BY <4>1, <2>1, <1>2, <1>10
    <3>. QED
      BY <3>1, <3>2, <3>3, <3>4
  <2>4. p \in 1 .. Len(tuples)
    BY <2>1, <2>2, <1>10
  <2>. QED
    BY <2>3, <2>4, <1>5
<1>13. \A s \in Slots : \A p \in SlotBegin(s) + 1 .. write_ptrs'[s] :
         p \in SlotBegin(s) + 1 .. write_ptrs[s] \/ (s = slot /\ p = place)
  BY <1>2, <1>6, <1>10 DEF place
<1>14. \A s \in Slots : \A p \in SlotBegin(s) + 1 .. write_ptrs[s] :
         /\ \E u \in 1 .. i - 1 : EntrySlot(u) = s /\ tuples[p] = entries[u]
         /\ tuples[p] # entries[i]
  <2>. SUFFICES ASSUME NEW s \in Slots, NEW p \in SlotBegin(s) + 1 .. write_ptrs[s]
                PROVE  /\ \E u \in 1 .. i - 1 : EntrySlot(u) = s /\ tuples[p] = entries[u]
                       /\ tuples[p] # entries[i]
    OBVIOUS
  <2>1. PICK u \in 1 .. i - 1 : EntrySlot(u) = s /\ tuples[p] = entries[u]
    BY <1>1 DEF Placed
  <2>2. entries[u] # entries[i]
    BY <1>1, Sizes, SMTT(60) DEF Types, IsInjective
  <2>. QED
    BY <2>1, <2>2
<1>15. tuples'[place] = entries[i]
  BY <1>2, <1>5
<1>16. \A s \in Slots : \A p \in SlotBegin(s) + 1 .. write_ptrs'[s] :
         \E u \in 1 .. i : EntrySlot(u) = s /\ tuples'[p] = entries[u]
  <2>. SUFFICES ASSUME NEW s \in Slots, NEW p \in SlotBegin(s) + 1 .. write_ptrs'[s]
                PROVE  \E u \in 1 .. i : EntrySlot(u) = s /\ tuples'[p] = entries[u]
    OBVIOUS
  <2>1. CASE p \in SlotBegin(s) + 1 .. write_ptrs[s]
    BY <2>1, <1>1, <1>12, <1>14
  <2>2. CASE s = slot /\ p = place
    BY <2>2, <1>1, <1>15 DEF slot
  <2>. QED
    BY <2>1, <2>2, <1>13
<1>17. \A u \in 1 .. i :
         \E p \in SlotBegin(EntrySlot(u)) + 1 .. write_ptrs'[EntrySlot(u)] : tuples'[p] = entries[u]
  <2>. SUFFICES ASSUME NEW u \in 1 .. i
                PROVE  \E p \in SlotBegin(EntrySlot(u)) + 1 .. write_ptrs'[EntrySlot(u)] :
                         tuples'[p] = entries[u]
    OBVIOUS
  <2>1. EntrySlot(u) \in Slots
    BY <1>1, Sizes
  <2>2. CASE u = i
    <3>1. EntrySlot(u) = slot /\ place \in SlotBegin(slot) + 1 .. write_ptrs'[slot]
      BY <2>2, <1>2, <1>6, <1>10 DEF slot
    <3>. QED
      BY <3>1, <2>2, <1>15
  <2>3. CASE u # i
    <3>1. PICK p \in SlotBegin(EntrySlot(u)) + 1 .. write_ptrs[EntrySlot(u)] : tuples[p] = entries[u]
      BY <2>3, <1>1 DEF Placed
    <3>2. write_ptrs[EntrySlot(u)] <= write_ptrs'[EntrySlot(u)] /\ write_ptrs'[EntrySlot(u)] \in Nat
      BY <2>1, <1>2, <1>6 DEF place
    <3>. QED
      BY <3>1, <3>2, <2>1, <1>6, <1>10, <1>12
  <2>. QED
    BY <2>2, <2>3
<1>18. \A s \in Slots : \A p, q \in SlotBegin(s) + 1 .. write_ptrs'[s] :
         p # q => tuples'[p] # tuples'[q]
  <2>. SUFFICES ASSUME NEW s \in Slots, NEW p \in SlotBegin(s) + 1 .. write_ptrs'[s],
                       NEW q \in SlotBegin(s) + 1 .. write_ptrs'[s], p # q
                PROVE  tuples'[p] # tuples'[q]
    OBVIOUS
  <2>1. CASE p = place
    BY <2>1, <1>12, <1>13, <1>14, <1>15
  <2>2. CASE q = place
    BY <2>2, <1>12, <1>13, <1>14, <1>15
  <2>3. CASE p # place /\ q # place
    BY <2>3, <1>1, <1>12, <1>13 DEF Placed
  <2>. QED
    BY <2>1, <2>2, <2>3
<1>19. Placed(i, write_ptrs)'
  BY <1>1, <1>3, <1>4, <1>16, <1>17, <1>18 DEF Placed
<1>20. ScatterInv'
  BY <1>1, <1>3, <1>8, <1>9, <1>11, <1>19 DEF ScatterInv
<1>. QED
  BY <1>1, <1>3, <1>7, <1>20 DEF IInv, CountInv, PrefixInv, ReadyInv

LEMMA FinishBuildIInv ==
  ASSUME IInv, FinishBuild
  PROVE  IInv'
<1>1. /\ Types /\ Directory /\ TagsSet(Len(entries) + 1) /\ Placed(i, write_ptrs)
      /\ i = Len(entries) + 1 /\ Len(entries) \in Nat
  BY Sizes DEF IInv, ScatterInv, FinishBuild
<1>2. \A s \in Slots : write_ptrs[s] = directory_offsets[s]
  <2>. SUFFICES ASSUME NEW s \in Slots PROVE write_ptrs[s] = directory_offsets[s]
    OBVIOUS
  <2>1. write_ptrs[s] + Cardinality(Remaining(s, i)) = directory_offsets[s] /\ write_ptrs[s] \in Nat
    BY DEF IInv, ScatterInv, FinishBuild, Types
  <2>. QED
    BY <2>1, <1>1, NothingRemains
<1>3. Placed(Len(entries) + 1, directory_offsets)
  <2>1. \A u \in 1 .. Len(entries) : EntrySlot(u) \in Slots
    BY <1>1, Sizes
  <2>2. \A s \in Slots : \A p \in SlotBegin(s) + 1 .. directory_offsets[s] :
          \E u \in 1 .. Len(entries) : EntrySlot(u) = s /\ tuples[p] = entries[u]
    BY <1>1, <1>2 DEF Placed
  <2>3. \A u \in 1 .. Len(entries) :
          \E p \in SlotBegin(EntrySlot(u)) + 1 .. directory_offsets[EntrySlot(u)] :
            tuples[p] = entries[u]
    BY <1>1, <1>2, <2>1 DEF Placed
  <2>4. \A s \in Slots : \A p, q \in SlotBegin(s) + 1 .. directory_offsets[s] :
          p # q => tuples[p] # tuples[q]
    BY <1>1, <1>2 DEF Placed
  <2>. QED
    BY <1>1, <2>2, <2>3, <2>4 DEF Placed
<1>4. /\ UNCHANGED <<dir_size, directory_offsets, bloom_filters, counts, write_ptrs, tuples, entries,
                     i, cumulative>>
      /\ phase' = "ready"
  BY DEF FinishBuild
<1>5. Types' /\ TagsSet(Len(entries) + 1)'
  BY <1>1, <1>4, SameEntries DEF Types, TagsSet
<1>6. Directory' /\ Placed(Len(entries) + 1, directory_offsets)'
  BY <1>1, <1>3, <1>4, SameEntries DEF Directory, Ascending, Placed, SlotBegin
<1>. QED
  BY <1>4, <1>5, <1>6 DEF IInv, CountInv, PrefixInv, ScatterInv, ReadyInv

\* A step of Next, or none, keeps the invariant.
LEMMA StepIInv ==
  ASSUME IInv, [Next]_vars
  PROVE  IInv'
<1>1. ASSUME NEW asked \in Capacities, Reserve(asked) PROVE IInv'
  BY <1>1, ReserveIInv
<1>2. CASE BuildNothing
  BY <1>2, BuildNothingIInv
<1>3. ASSUME NEW es \in EntryLists, BuildFromEntries(es) PROVE IInv'
  BY <1>3, StartBuildIInv DEF Lists, BuildFromEntries
<1>4. ASSUME NEW pages \in PageLists, BuildFromPages(pages) PROVE IInv'
  BY <1>4, StartBuildIInv DEF Lists, BuildFromPages
<1>5. CASE CountEntry
  BY <1>5, CountEntryIInv
<1>6. CASE StartPrefix
  BY <1>6, StartPrefixIInv
<1>7. CASE PrefixSlot
  BY <1>7, PrefixSlotIInv
<1>8. CASE AllocateTuples
  BY <1>8, AllocateTuplesIInv
<1>9. CASE ScatterEntry
  BY <1>9, ScatterEntryIInv
<1>10. CASE FinishBuild
  BY <1>10, FinishBuildIInv
<1>11. CASE UNCHANGED vars
  <2>1. Types'
    BY <1>11, SameEntries DEF vars, IInv, Types
  <2>2. CountInv' /\ PrefixInv'
    BY <1>11, SameEntries DEF vars, IInv, CountInv, PrefixInv, TagsSet, Ascending, SlotBegin
  <2>3. ScatterInv' /\ ReadyInv'
    BY <1>11, SameEntries
    DEF vars, IInv, ScatterInv, ReadyInv, TagsSet, Directory, Ascending, Placed, SlotBegin
  <2>. QED
    BY <2>1, <2>2, <2>3 DEF IInv
<1>. QED
  BY <1>1, <1>2, <1>3, <1>4, <1>5, <1>6, <1>7, <1>8, <1>9, <1>10, <1>11 DEF Next

-----------------------------------------------------------------------------
(* What follows from the invariant.                                        *)

\* The tuples a probe returns are those of its key's slot.
LEMMA ProbedTuples ==
  ASSUME IInv, phase = "ready", NEW k \in Key,
         MaybeContains(bloom_filters[Slot(k)], TagOf[k])
  PROVE  /\ DOMAIN Probe(k) = 1 .. directory_offsets[Slot(k)] - SlotBegin(Slot(k))
         /\ \A p \in DOMAIN Probe(k) :
              /\ Probe(k)[p] = tuples[SlotBegin(Slot(k)) + p]
              /\ SlotBegin(Slot(k)) + p \in SlotBegin(Slot(k)) + 1 .. directory_offsets[Slot(k)]
         /\ \A q \in SlotBegin(Slot(k)) + 1 .. directory_offsets[Slot(k)] :
              \E p \in DOMAIN Probe(k) : Probe(k)[p] = tuples[q]
<1>. DEFINE first == SlotBegin(Slot(k))
            last == directory_offsets[Slot(k)]
<1>1. Types /\ Directory /\ Slot(k) \in Slots
  BY Sizes DEF IInv, ReadyInv
<1>2. first \in Nat /\ last \in Nat /\ first <= last /\ last <= Len(tuples)
  BY <1>1, SlotRanges
<1>3. Probe(k) = SubSeq(tuples, first + 1, last)
  BY DEF Probe
<1>. HIDE DEF first, last
<1>4. \A q \in first + 1 .. last : tuples[q] \in Entry
  <2>1. Len(tuples) \in Nat /\ \A q \in 1 .. Len(tuples) : tuples[q] \in Entry
    BY <1>1, LenProperties, ElementOfSeq DEF Types
  <2>. QED
    BY <2>1, <1>2
<1>5. /\ Probe(k) \in Seq(Entry)
      /\ Len(Probe(k)) = last - first
      /\ \A p \in 1 .. last - first : Probe(k)[p] = tuples[first + p]
  <2>1. first + 1 \in Int /\ last \in Int
    BY <1>2
  <2>2. /\ SubSeq(tuples, first + 1, last) \in Seq(Entry)
        /\ Len(SubSeq(tuples, first + 1, last)) =
             IF first + 1 <= last THEN last - (first + 1) + 1 ELSE 0
        /\ \A p \in 1 .. last - (first + 1) + 1 :
             SubSeq(tuples, first + 1, last)[p] = tuples[first + 1 + p - 1]
    BY <1>4, <2>1, SubSeqProperties
  <2>. QED
    BY <2>2, <1>2, <1>3
<1>6. DOMAIN Probe(k) = 1 .. last - first
  BY <1>5, LenProperties
<1>7. \A p \in DOMAIN Probe(k) : Probe(k)[p] = tuples[first + p] /\ first + p \in first + 1 .. last
  BY <1>2, <1>5, <1>6
<1>8. \A q \in first + 1 .. last : \E p \in DOMAIN Probe(k) : Probe(k)[p] = tuples[q]
  <2>. TAKE q \in first + 1 .. last
  <2>1. q - first \in 1 .. last - first /\ first + (q - first) = q
    BY <1>2
  <2>. QED
    BY <2>1, <1>5, <1>6
<1>. QED
  BY <1>6, <1>7, <1>8 DEF first, last

LEMMA ProbesExact == IInv => ProbeExact
<1>. SUFFICES ASSUME IInv, phase = "ready", NEW k \in Key
              PROVE  /\ Matches(Probe(k), k) = Matches(entries, k)
                     /\ \A p, q \in DOMAIN Probe(k) :
                          p # q /\ Probe(k)[p].key = k => Probe(k)[p] # Probe(k)[q]
  BY DEF ProbeExact
<1>1. /\ Types /\ Placed(Len(entries) + 1, directory_offsets) /\ TagsSet(Len(entries) + 1)
      /\ Slot(k) \in Slots /\ Len(entries) \in Nat /\ DOMAIN entries = 1 .. Len(entries)
  BY Sizes DEF IInv, ReadyInv
<1>2. CASE MaybeContains(bloom_filters[Slot(k)], TagOf[k])
  <2>1. Matches(Probe(k), k) \subseteq Matches(entries, k)
    <3>. SUFFICES ASSUME NEW p \in DOMAIN Probe(k), Probe(k)[p].key = k
                  PROVE  Probe(k)[p] \in Matches(entries, k)
      BY DEF Matches, Range
    <3>1. /\ Probe(k)[p] = tuples[SlotBegin(Slot(k)) + p]
          /\ SlotBegin(Slot(k)) + p \in SlotBegin(Slot(k)) + 1 .. directory_offsets[Slot(k)]
      BY <1>2, ProbedTuples
    <3>2. PICK u \in 1 .. Len(entries) : Probe(k)[p] = entries[u]
      BY <1>1, <3>1 DEF Placed
    <3>. QED
      BY <1>1, <3>2 DEF Matches, Range
  <2>2. Matches(entries, k) \subseteq Matches(Probe(k), k)
    <3>. SUFFICES ASSUME NEW u \in 1 .. Len(entries), entries[u].key = k
                  PROVE  entries[u] \in Matches(Probe(k), k)
      BY <1>1 DEF Matches, Range
    <3>1. EntrySlot(u) = Slot(k)
      BY DEF EntrySlot
    <3>2. PICK q \in SlotBegin(Slot(k)) + 1 .. directory_offsets[Slot(k)] : tuples[q] = entries[u]
      BY <1>1, <3>1 DEF Placed
    <3>. QED
      BY <3>2, <1>2, ProbedTuples DEF Matches, Range
  <2>3. \A p, q \in DOMAIN Probe(k) : p # q => Probe(k)[p] # Probe(k)[q]
    <3>. SUFFICES ASSUME NEW p \in DOMAIN Probe(k), NEW q \in DOMAIN Probe(k), p # q
                  PROVE  Probe(k)[p] # Probe(k)[q]
      OBVIOUS
    <3>. DEFINE first == SlotBegin(Slot(k))
    <3>1. /\ Probe(k)[p] = tuples[first + p] /\ Probe(k)[q] = tuples[first + q]
          /\ first + p \in first + 1 .. directory_offsets[Slot(k)]
          /\ first + q \in first + 1 .. directory_offsets[Slot(k)]
      BY <1>2, ProbedTuples
    <3>2. Directory
      BY DEF IInv, ReadyInv
    <3>3. first \in Nat /\ directory_offsets[Slot(k)] \in Nat
      BY <1>1, <3>2, SlotRanges DEF Types
    <3>4. DOMAIN Probe(k) = 1 .. directory_offsets[Slot(k)] - first
      BY <1>2, ProbedTuples
    <3>5. /\ p \in 1 .. directory_offsets[Slot(k)] - first
          /\ q \in 1 .. directory_offsets[Slot(k)] - first
      BY <3>4
    <3>6. p \in Int /\ q \in Int
      BY <3>3, <3>5
    <3>7. first + p # first + q
      BY <3>3, <3>6
    <3>. QED
      BY <1>1, <3>1, <3>7 DEF Placed
  <2>. QED
    BY <2>1, <2>2, <2>3
<1>3. CASE ~MaybeContains(bloom_filters[Slot(k)], TagOf[k])
  <2>1. Probe(k) = <<>>
    BY <1>3 DEF Probe
  <2>2. \A u \in 1 .. Len(entries) : entries[u].key # k
    BY <1>1, <1>3 DEF TagsSet, MaybeContains, EntrySlot
  <2>3. Matches(entries, k) = {}
    BY <1>1, <2>2 DEF Matches, Range
  <2>4. DOMAIN Probe(k) = {}
    BY <2>1
  <2>. QED
    BY <2>3, <2>4 DEF Matches, Range
<1>. QED
  BY <1>2, <1>3

LEMMA ScattersInSlot == IInv => ScatterInSlot
BY Room DEF ScatterInSlot, EntrySlot

-----------------------------------------------------------------------------
\* parallel_unchained_hashtable.h, the copy loop: whatever slots and Bloom bits the
\* hash gives the keys, and whatever was reserved and built before, a tuple is
\* written inside the range the directory gives its slot and inside tuples_.
THEOREM CopiesStayInSlot == Spec => []ScatterInSlot
<1>1. Init => IInv
  BY InitIInv
<1>2. IInv /\ [Next]_vars => IInv'
  BY StepIInv
<1>3. IInv => ScatterInSlot
  BY ScattersInSlot
<1>. QED
  BY <1>1, <1>2, <1>3, PTL DEF Spec

\* parallel_unchained_hashtable.h, probe: a probe returns every entry of its key that
\* was given to the last build, once, and never one of an earlier build; what it
\* returns beside them has other keys.
THEOREM ProbesFindEntries == Spec => []ProbeExact
<1>1. Init => IInv
  BY InitIInv
<1>2. IInv /\ [Next]_vars => IInv'
  BY StepIInv
<1>3. IInv => ProbeExact
  BY ProbesExact
<1>. QED
  BY <1>1, <1>2, <1>3, PTL DEF Spec

-----------------------------------------------------------------------------
\* Compiled in beside the other tables, or not at all, it is the same table.
LEMMA TablesRunUnchained == TablesSpec => Spec
<1>1. TablesInit => Init
  BY DEF TablesInit
<1>2. [TablesNext]_tablesVars => [Next]_vars
  BY DEF TablesNext, UnchainedNext, RobinHoodNext, CuckooNext, HopscotchNext, tablesVars
<1>. QED
  BY <1>1, <1>2, PTL DEF TablesSpec, Spec

\* hashtable_interface.h: whichever table a join is compiled with, where it is the
\* unchained one its copies stay in their slots and its probes find their entries.
THEOREM UnchainedBehindInterface == TablesSpec => [](ScatterInSlot /\ ProbeExact)
BY TablesRunUnchained, CopiesStayInSlot, ProbesFindEntries, PTL

-----------------------------------------------------------------------------
(* Keys in order, and their index entries.                                 *)

Smaller(keys, k) == {j \in keys : j < k}

\* A finite set of integers has one element with n smaller ones, for each n.
LEMMA Ranked ==
  ASSUME NEW keys \in SUBSET Int, IsFiniteSet(keys)
  PROVE  /\ Cardinality(keys) \in Nat
         /\ \A k \in keys : Cardinality(Smaller(keys, k)) + 1 \in 1 .. Cardinality(keys)
         /\ \A n \in 1 .. Cardinality(keys) : \E k \in keys : Cardinality(Smaller(keys, k)) = n - 1
<1>. DEFINE size == Cardinality(keys)
            rank == [k \in keys |-> Cardinality(Smaller(keys, k)) + 1]
<1>1. size \in Nat
  BY FS_CardinalityType
<1>2. \A k \in keys : IsFiniteSet(Smaller(keys, k)) /\ Cardinality(Smaller(keys, k)) \in Nat
  <2>. TAKE k \in keys
  <2>1. Smaller(keys, k) \in SUBSET keys
    BY DEF Smaller
  <2>. QED
    BY <2>1, FS_Subset, FS_CardinalityType
<1>3. ASSUME NEW k \in keys, NEW T \in SUBSET keys, Smaller(keys, k) \cup {k} \subseteq T
      PROVE  Cardinality(Smaller(keys, k)) + 1 <= Cardinality(T)
  <2>1. k \notin Smaller(keys, k)
    BY DEF Smaller
  <2>2. Cardinality(Smaller(keys, k) \cup {k}) = Cardinality(Smaller(keys, k)) + 1
    BY <1>2, <2>1, FS_AddElement
  <2>3. IsFiniteSet(T)
    BY FS_Subset
  <2>4. Cardinality(Smaller(keys, k) \cup {k}) <= Cardinality(T)
    BY <1>3, <2>3, FS_Subset
  <2>. QED
    BY <2>2, <2>4
<1>4. \A k \in keys : Cardinality(Smaller(keys, k)) + 1 \in 1 .. size
  <2>. TAKE k \in keys
  <2>1. Smaller(keys, k) \cup {k} \subseteq keys
    BY DEF Smaller
  <2>2. Cardinality(Smaller(keys, k)) + 1 <= size
    BY <1>3, <2>1
  <2>. QED
    BY <1>1, <1>2, <2>2
<1>5. ASSUME NEW k \in keys, NEW l \in keys, k < l
      PROVE  Cardinality(Smaller(keys, k)) < Cardinality(Smaller(keys, l))
  <2>1. \A j \in keys : j < k => j < l
    BY <1>5
  <2>2. Smaller(keys, k) \cup {k} \subseteq Smaller(keys, l) /\ Smaller(keys, l) \in SUBSET keys
    BY <1>5, <2>1 DEF Smaller
  <2>3. Cardinality(Smaller(keys, k)) + 1 <= Cardinality(Smaller(keys, l))
    BY <1>3, <2>2
  <2>. QED
    BY <1>2, <2>3
<1>6. ASSUME NEW k \in keys, NEW l \in keys, k # l
      PROVE  Cardinality(Smaller(keys, k)) # Cardinality(Smaller(keys, l))
  <2>1. CASE k < l
    BY <1>2, <1>5, <2>1
  <2>2. CASE l < k
    BY <1>2, <1>5, <2>2
  <2>. QED
    BY <1>6, <2>1, <2>2
<1>7. rank \in [keys -> 1 .. size]
  BY <1>4
<1>8. rank \in Injection(keys, 1 .. size)
  <2>1. \A k, l \in keys : k # l => rank[k] # rank[l]
    BY <1>2, <1>6
  <2>. QED
    BY <1>7, <2>1 DEF Injection, IsInjective
<1>9. IsFiniteSet(1 .. size) /\ Cardinality(1 .. size) = size
  BY <1>1, FS_Interval
<1>10. rank \in Surjection(keys, 1 .. size)
  BY <1>8, <1>9, FS_Injection
<1>11. ASSUME NEW n \in 1 .. size PROVE \E k \in keys : Cardinality(Smaller(keys, k)) = n - 1
  <2>1. PICK k \in keys : rank[k] = n
    BY <1>10 DEF Surjection
  <2>. QED
    BY <1>2, <2>1
<1>. QED
  BY <1>1, <1>4, <1>11

LEMMA UpTo ==
  ASSUME NEW n \in Nat
  PROVE  IsFiniteSet(1 .. n) /\ Cardinality(1 .. n) = n
<1>1. 1 \in Int /\ n \in Int
  OBVIOUS
<1>. QED
  BY <1>1, FS_Interval

LEMMA KeysOfRows ==
  ASSUME NEW es \in Seq(IndexRow)
  PROVE  /\ Len(es) \in Nat /\ DOMAIN es = 1 .. Len(es)
         /\ \A e \in 1 .. Len(es) : es[e] \in IndexRow /\ es[e].key \in Keys(es)
         /\ Keys(es) \in SUBSET IndexKey /\ Keys(es) \in SUBSET Int
         /\ IsFiniteSet(Keys(es))
         /\ Cardinality(Keys(es)) \in Nat /\ Cardinality(Keys(es)) <= Len(es)
         /\ es # <<>> => Cardinality(Keys(es)) # 0
<1>1. Len(es) \in Nat /\ DOMAIN es = 1 .. Len(es) /\ \A e \in 1 .. Len(es) : es[e] \in IndexRow
  BY LenProperties, ElementOfSeq
<1>2. Keys(es) \in SUBSET IndexKey /\ Keys(es) \in SUBSET Int
  <2>1. \A e \in 1 .. Len(es) : es[e].key \in IndexKey
    BY <1>1 DEF IndexRow
  <2>. QED
    BY ONLY <1>1, <2>1, IndexAssumption DEF Keys
<1>3. \A e \in 1 .. Len(es) : es[e].key \in Keys(es)
  BY <1>1 DEF Keys
<1>. DEFINE keyOf == [e \in 1 .. Len(es) |-> es[e].key]
<1>4. keyOf \in Surjection(1 .. Len(es), Keys(es))
  BY <1>1 DEF Surjection, Keys
<1>5. IsFiniteSet(1 .. Len(es)) /\ Cardinality(1 .. Len(es)) = Len(es)
  BY <1>1, UpTo
<1>6. IsFiniteSet(Keys(es)) /\ Cardinality(Keys(es)) <= Len(es)
  BY <1>4, <1>5, FS_Surjection
<1>7. Cardinality(Keys(es)) \in Nat
  BY <1>6, FS_CardinalityType
<1>8. ASSUME es # <<>> PROVE Cardinality(Keys(es)) # 0
  <2>1. 1 \in 1 .. Len(es)
    BY <1>1, <1>8, EmptySeq
  <2>2. Keys(es) # {}
    BY <1>3, <2>1
  <2>. QED
    BY <1>6, <2>2, FS_EmptySet
<1>. QED
  BY <1>1, <1>2, <1>3, <1>6, <1>7, <1>8

\* std::map: each key has its place in the order, and no other.
LEMMA KeysOrdered ==
  ASSUME NEW es \in Seq(IndexRow)
  PROVE  /\ KeyOrder(es) \in [1 .. Cardinality(Keys(es)) -> Keys(es)]
         /\ \A m, n \in 1 .. Cardinality(Keys(es)) : m # n => KeyOrder(es)[m] # KeyOrder(es)[n]
         /\ \A k \in Keys(es) : \E n \in 1 .. Cardinality(Keys(es)) : KeyOrder(es)[n] = k
<1>. DEFINE keys == Keys(es)
            size == Cardinality(keys)
            order == KeyOrder(es)
<1>1. keys \in SUBSET Int /\ IsFiniteSet(keys) /\ size \in Nat
  BY KeysOfRows
<1>2. order = [n \in 1 .. size |-> CHOOSE k \in keys : Cardinality(Smaller(keys, k)) = n - 1]
  BY DEF KeyOrder, Smaller
<1>. HIDE DEF keys, order
<1>3. ASSUME NEW n \in 1 .. size
      PROVE  order[n] \in keys /\ Cardinality(Smaller(keys, order[n])) = n - 1
  <2>1. \E k \in keys : Cardinality(Smaller(keys, k)) = n - 1
    BY <1>1, Ranked
  <2>. QED
    BY <1>2, <2>1
<1>4. order \in [1 .. size -> keys]
  BY <1>2, <1>3
<1>5. \A m, n \in 1 .. size : m # n => order[m] # order[n]
  <2>. SUFFICES ASSUME NEW m \in 1 .. size, NEW n \in 1 .. size, order[m] = order[n] PROVE m = n
    OBVIOUS
  <2>1. m - 1 = n - 1
    BY <1>3
  <2>. QED
    BY <1>1, <2>1
<1>6. order \in Injection(1 .. size, keys)
  BY <1>4, <1>5 DEF Injection, IsInjective
<1>7. Cardinality(1 .. size) = size
  BY <1>1, UpTo
<1>8. order \in Surjection(1 .. size, keys)
  BY <1>1, <1>6, <1>7, FS_Injection
<1>9. \A k \in keys : \E n \in 1 .. size : order[n] = k
  BY <1>8 DEF Surjection
<1>. QED
  BY <1>4, <1>5, <1>9 DEF keys, order

\* The rows of a key are those of the list that have it.
LEMMA RowsOfKey ==
  ASSUME NEW es \in Seq(IndexRow), NEW k
  PROVE  /\ RowsOf(es, k) \in Seq(IndexRow)
         /\ Range(RowsOf(es, k)) = {e \in Range(es) : e.key = k}
         /\ k \notin Keys(es) => RowsOf(es, k) = <<>>
<1>. DEFINE wanted == {e \in Range(es) : e.key = k}
            rows == Kept(es, wanted)
<1>1. rows \in Seq(IndexRow) /\ Range(rows) = Range(es) \cap wanted
  BY KeptElements
<1>2. Range(rows) = wanted
  BY <1>1
<1>3. ASSUME k \notin Keys(es) PROVE rows = <<>>
  <2>1. wanted = {}
    BY <1>3 DEF Keys, Range
  <2>. HIDE DEF wanted, rows
  <2>2. Range(rows) = {}
    BY <1>2, <2>1
  <2>3. Len(rows) \in Nat /\ DOMAIN rows = 1 .. Len(rows)
    BY <1>1, LenProperties
  <2>4. Len(rows) = 0
    <3>. SUFFICES ASSUME Len(rows) # 0 PROVE FALSE
      OBVIOUS
    <3>1. 1 \in DOMAIN rows
      BY <2>3
    <3>. QED
      BY <2>2, <3>1 DEF Range
  <2>. QED
    BY <1>1, <2>4, EmptySeq
<1>. QED
  BY <1>1, <1>2, <1>3 DEF RowsOf

LEMMA GroupsOfRows ==
  ASSUME NEW es \in Seq(IndexRow)
  PROVE  /\ Groups(es) \in Seq(Seq(IndexRow))
         /\ Len(Groups(es)) = Cardinality(Keys(es))
         /\ \A n \in 1 .. Cardinality(Keys(es)) : Groups(es)[n] = RowsOf(es, KeyOrder(es)[n])
<1>1. Cardinality(Keys(es)) \in Nat /\ DOMAIN KeyOrder(es) = 1 .. Cardinality(Keys(es))
  BY KeysOfRows, KeysOrdered
<1>2. Groups(es) = [n \in 1 .. Cardinality(Keys(es)) |-> RowsOf(es, KeyOrder(es)[n])]
  BY <1>1 DEF Groups
<1>3. \A n \in 1 .. Cardinality(Keys(es)) : RowsOf(es, KeyOrder(es)[n]) \in Seq(IndexRow)
  BY RowsOfKey
<1>. HIDE DEF Groups
<1>4. Groups(es) \in Seq(Seq(IndexRow))
  BY <1>1, <1>2, <1>3, IsASeq
<1>. QED
  BY <1>1, <1>2, <1>4, LenProperties, SMTT(30)

\* The entries name the rows of their keys in the storage, one entry for each key.
IndexOf(es, infos, rows) ==
  /\ es \in Seq(IndexRow)
  /\ Len(infos) \in Nat /\ DOMAIN infos = 1 .. Len(infos)
  /\ \A n \in 1 .. Len(infos) :
       /\ infos[n] \in IndexInfo /\ infos[n].is_valid /\ infos[n].key \in IndexKey
       /\ infos[n].start_index + infos[n].count <= Len(rows)
       /\ Bucket(rows, infos[n]) = RowsOf(es, infos[n].key)
  /\ \A m, n \in 1 .. Len(infos) : m # n => infos[m].key # infos[n].key
  /\ \A k : k \notin {infos[n].key : n \in 1 .. Len(infos)} => RowsOf(es, k) = <<>>

LEMMA SubSeqIs ==
  ASSUME NEW V, NEW s \in Seq(V), NEW t \in Seq(V), NEW a \in Nat,
         a + Len(t) <= Len(s), \A p \in 1 .. Len(t) : s[a + p] = t[p]
  PROVE  SubSeq(s, a + 1, a + Len(t)) = t
<1>1. Len(s) \in Nat /\ Len(t) \in Nat /\ \A p \in 1 .. Len(s) : s[p] \in V
  BY LenProperties, ElementOfSeq
<1>. DEFINE b == a + Len(t)
            u == SubSeq(s, a + 1, b)
<1>2. b \in Nat /\ b <= Len(s)
  BY <1>1
<1>3. \A p \in a + 1 .. b : s[p] \in V
  BY <1>1, <1>2
<1>4. /\ u \in Seq(V)
      /\ Len(u) = IF a + 1 <= b THEN b - (a + 1) + 1 ELSE 0
      /\ \A p \in 1 .. b - (a + 1) + 1 : u[p] = s[a + 1 + p - 1]
  BY <1>2, <1>3, SubSeqProperties
<1>. HIDE DEF u
<1>5. Len(u) = Len(t)
  BY <1>1, <1>4
<1>6. \A p \in 1 .. Len(t) : u[p] = t[p]
  <2>. TAKE p \in 1 .. Len(t)
  <2>1. p \in 1 .. b - (a + 1) + 1 /\ a + 1 + p - 1 = a + p
    BY <1>1
  <2>. QED
    BY <1>4, <2>1
<1>. QED
  BY <1>4, <1>5, <1>6, SeqEqual DEF u

LEMMA InfosAreIndex ==
  ASSUME NEW es \in Seq(IndexRow)
  PROVE  /\ IndexOf(es, Infos(es), Storage(es))
         /\ Len(Infos(es)) <= Len(es)
         /\ es # <<>> => Len(Infos(es)) > 0
         /\ Storage(es) \in Seq(IndexRow)
<1>. DEFINE groups == Groups(es)
            order == KeyOrder(es)
            infos == Infos(es)
            rows == Storage(es)
            size == Cardinality(Keys(es))
<1>1. /\ size \in Nat /\ size <= Len(es) /\ (es # <<>> => size # 0)
      /\ Keys(es) \in SUBSET IndexKey /\ Keys(es) \in SUBSET Int
  BY KeysOfRows
<1>2. /\ order \in [1 .. size -> Keys(es)]
      /\ \A m, n \in 1 .. size : m # n => order[m] # order[n]
      /\ \A k \in Keys(es) : \E n \in 1 .. size : order[n] = k
  BY KeysOrdered
<1>3. /\ groups \in Seq(Seq(IndexRow)) /\ Len(groups) = size
      /\ \A n \in 1 .. size : groups[n] = RowsOf(es, order[n])
  BY GroupsOfRows
<1>. DEFINE starts == PageOffsets(groups)
<1>4. /\ rows \in Seq(IndexRow) /\ Len(rows) = NumRows(groups) /\ NumRows(groups) \in Nat
      /\ \A n \in 1 .. size : \A p \in 1 .. Len(groups[n]) : rows[starts[n - 1] + p] = groups[n][p]
  BY <1>3, RowsOfPages DEF Storage
<1>5. /\ \A n \in 1 .. size : groups[n] \in Seq(IndexRow) /\ Len(groups[n]) \in Nat
      /\ \A n \in 0 .. size : starts[n] \in Nat
      /\ \A n \in 1 .. size : starts[n] = starts[n - 1] + Len(groups[n])
      /\ \A m, n \in 0 .. size : m <= n => starts[m] <= starts[n]
      /\ NumRows(groups) = starts[size]
  BY <1>3, OffsetsAscend DEF NumRows
<1>6. DOMAIN groups = 1 .. size
  BY <1>3, LenProperties
<1>7. infos = [n \in 1 .. size |-> [key |-> order[n], start_index |-> starts[n - 1],
                                    count |-> Len(groups[n]), is_valid |-> TRUE]]
  BY <1>6 DEF Infos, StartOf
<1>. HIDE DEF groups, order, infos, rows, starts, size
<1>8. Len(infos) = size /\ DOMAIN infos = 1 .. size
  BY <1>1, <1>7
<1>9. ASSUME NEW n \in 1 .. size
      PROVE  /\ infos[n] \in IndexInfo /\ infos[n].is_valid /\ infos[n].key \in IndexKey
             /\ infos[n].key = order[n]
             /\ infos[n].start_index + infos[n].count <= Len(rows)
             /\ Bucket(rows, infos[n]) = RowsOf(es, infos[n].key)
  <2>1. /\ infos[n].key = order[n] /\ infos[n].start_index = starts[n - 1]
        /\ infos[n].count = Len(groups[n]) /\ infos[n].is_valid
        /\ infos[n] = [key |-> order[n], start_index |-> starts[n - 1],
                       count |-> Len(groups[n]), is_valid |-> TRUE]
    BY <1>7
  <2>2. n - 1 \in 0 .. size /\ n \in 0 .. size /\ size \in 0 .. size /\ n <= size
    BY <1>1
  <2>3. starts[n - 1] \in Nat /\ starts[n - 1] + Len(groups[n]) <= Len(rows)
    BY <1>4, <1>5, <2>2
  <2>4. order[n] \in Keys(es) /\ order[n] \in Int /\ order[n] \in IndexKey
    BY <1>1, <1>2
  <2>5. infos[n] \in IndexInfo
    BY <1>5, <2>1, <2>3, <2>4 DEF IndexInfo
  <2>6. SubSeq(rows, starts[n - 1] + 1, starts[n - 1] + Len(groups[n])) = groups[n]
    <3>1. groups[n] \in Seq(IndexRow) /\ \A p \in 1 .. Len(groups[n]) : rows[starts[n - 1] + p] = groups[n][p]
      BY <1>4, <1>5
    <3>. QED
      BY <1>4, <2>3, <3>1, SubSeqIs
  <2>7. Bucket(rows, infos[n]) = groups[n]
    BY <2>1, <2>6 DEF Bucket
  <2>. QED
    BY <1>3, <2>1, <2>3, <2>4, <2>5, <2>7
<1>10. \A k : k \notin {infos[n].key : n \in 1 .. size} => RowsOf(es, k) = <<>>
  <2>. SUFFICES ASSUME NEW k, k \notin {infos[n].key : n \in 1 .. size} PROVE RowsOf(es, k) = <<>>
    OBVIOUS
  <2>1. k \notin Keys(es)
    BY <1>2, <1>9
  <2>. QED
    BY <2>1, RowsOfKey
<1>11. \A m, n \in 1 .. size : m # n => infos[m].key # infos[n].key
  BY <1>2, <1>9
<1>12. IndexOf(es, infos, rows)
  BY <1>1, <1>8, <1>9, <1>10, <1>11 DEF IndexOf
<1>. QED
  BY <1>1, <1>4, <1>8, <1>12 DEF infos, rows

-----------------------------------------------------------------------------
(* Slots in a ring.                                                        *)

Ring(cap) == 0 .. cap - 1
NextSlot(cap, s) == IF s + 1 < cap THEN s + 1 ELSE 0
PrevSlot(cap, s) == IF s = 0 THEN cap - 1 ELSE s - 1
Ahead(cap, home, m) == IF home + m < cap THEN home + m ELSE home + m - cap
Distance(cap, home, s) == IF s >= home THEN s - home ELSE s + cap - home

\* The remainder of a number less than twice the divisor.
LEMMA Wrapped ==
  ASSUME NEW cap \in Nat \ {0}, NEW a \in Nat, a < cap + cap
  PROVE  a % cap = IF a < cap THEN a ELSE a - cap
<1>1. a % cap = a - cap * (a \div cap)
  BY Remainder
<1>2. CASE a < cap
  <2>1. a \div cap = 0
    BY <1>2, Quotient
  <2>. QED
    BY <1>1, <1>2, <2>1
<1>3. CASE ~(a < cap)
  <2>1. a \div cap = 1
    BY <1>3, Quotient
  <2>. QED
    BY <1>1, <1>3, <2>1
<1>. QED
  BY <1>2, <1>3

\* The remainders of the code are steps around the ring.
LEMMA RingRemainders ==
  ASSUME NEW cap \in Nat \ {0}, NEW s \in Ring(cap)
  PROVE  /\ (s + 1) % cap = NextSlot(cap, s)
         /\ (s + cap - 1) % cap = PrevSlot(cap, s)
         /\ \A m \in 0 .. cap : (s + m) % cap = Ahead(cap, s, m)
         /\ \A m \in 0 .. cap - 1 : (s + cap - m) % cap = IF m <= s THEN s - m ELSE s + cap - m
<1>1. s \in Nat /\ s < cap
  BY DEF Ring
<1>2. (s + 1) % cap = NextSlot(cap, s)
  <2>. DEFINE a == s + 1
  <2>1. a \in Nat /\ a < cap + cap
    BY <1>1
  <2>. HIDE DEF a
  <2>2. a % cap = IF a < cap THEN a ELSE a - cap
    BY <2>1, Wrapped
  <2>3. a % cap = NextSlot(cap, s)
    BY ONLY <1>1, <2>2, cap \in Nat, a = s + 1 DEF NextSlot, a
  <2>. QED
    BY <2>3 DEF a
<1>3. (s + cap - 1) % cap = PrevSlot(cap, s)
  <2>. DEFINE a == s + cap - 1
  <2>1. a \in Nat /\ a < cap + cap
    BY <1>1
  <2>. HIDE DEF a
  <2>2. a % cap = IF a < cap THEN a ELSE a - cap
    BY <2>1, Wrapped
  <2>3. a = s + cap - 1
    BY DEF a
  <2>. HIDE DEF a
  <2>4. a % cap = PrevSlot(cap, s)
    BY <1>1, <2>2, <2>3 DEF PrevSlot
  <2>. QED
    BY <2>4 DEF a
<1>4. ASSUME NEW m \in 0 .. cap PROVE (s + m) % cap = Ahead(cap, s, m)
  <2>. DEFINE a == s + m
  <2>1. a \in Nat /\ a < cap + cap /\ a = s + m
    BY <1>1
  <2>. HIDE DEF a
  <2>2. a % cap = IF a < cap THEN a ELSE a - cap
    BY <2>1, Wrapped
  <2>3. Ahead(cap, s, m) = IF a < cap THEN a ELSE a - cap
    BY <1>1, <2>1 DEF Ahead
  <2>4. a % cap = Ahead(cap, s, m)
    BY ONLY <2>2, <2>3
  <2>. QED
    BY <2>4 DEF a
<1>5. ASSUME NEW m \in 0 .. cap - 1
      PROVE  (s + cap - m) % cap = IF m <= s THEN s - m ELSE s + cap - m
  <2>. DEFINE a == s + cap - m
  <2>1. a \in Nat /\ a < cap + cap /\ a = s + cap - m
    BY <1>1
  <2>. HIDE DEF a
  <2>2. a % cap = IF a < cap THEN a ELSE a - cap
    BY <2>1, Wrapped
  <2>3. a % cap = IF m <= s THEN s - m ELSE s + cap - m
    BY <1>1, <2>1, <2>2
  <2>. QED
    BY <2>3 DEF a
<1>. QED
  BY <1>2, <1>3, <1>4, <1>5

LEMMA RingSteps ==
  ASSUME NEW cap \in Nat \ {0}, NEW s \in Ring(cap)
  PROVE  /\ NextSlot(cap, s) \in Ring(cap)
         /\ PrevSlot(cap, s) \in Ring(cap)
         /\ PrevSlot(cap, NextSlot(cap, s)) = s
         /\ PrevSlot(cap, s) = s => cap = 1
BY DEF Ring, NextSlot, PrevSlot

\* The slots from a home on, by their distance from it.
LEMMA RingDistance ==
  ASSUME NEW cap \in Nat \ {0}, NEW home \in Ring(cap)
  PROVE  /\ \A s \in Ring(cap) : /\ Distance(cap, home, s) \in Ring(cap)
                                 /\ Ahead(cap, home, Distance(cap, home, s)) = s
         /\ \A m \in Ring(cap) : /\ Ahead(cap, home, m) \in Ring(cap)
                                 /\ Distance(cap, home, Ahead(cap, home, m)) = m
         /\ \A m \in Ring(cap) : NextSlot(cap, Ahead(cap, home, m)) = Ahead(cap, home, m + 1)
         /\ \A m \in Ring(cap) : m > 0 => PrevSlot(cap, Ahead(cap, home, m)) = Ahead(cap, home, m - 1)
BY DEF Ring, NextSlot, PrevSlot, Ahead, Distance

LEMMA DistanceNext ==
  ASSUME NEW cap \in Nat \ {0}, NEW home \in Ring(cap), NEW s \in Ring(cap)
  PROVE  /\ Distance(cap, home, s) \in Nat
         /\ Distance(cap, home, NextSlot(cap, s)) \in Nat
         /\ Distance(cap, home, NextSlot(cap, s)) <= Distance(cap, home, s) + 1
         /\ cap = 1 => Distance(cap, home, s) = 0
         /\ Distance(cap, home, s) = 0 => s = home
BY DEF Ring, NextSlot, Distance

-----------------------------------------------------------------------------
(* Robin Hood order.                                                       *)

\* How far a slot is from the home of an entry in it.
Away(cap, h, s, info) == Distance(cap, h[info.key] % cap, s)

\* What an entry at distance d in slot s asks of the slot before.
Follows(cap, h, tb, s, d) ==
  d > 0 => /\ tb[PrevSlot(cap, s)].is_valid
           /\ Away(cap, h, PrevSlot(cap, s), tb[PrevSlot(cap, s)]) >= d - 1

Ordered(cap, h, tb) ==
  \A s \in Ring(cap) : tb[s].is_valid => Follows(cap, h, tb, s, Away(cap, h, s, tb[s]))

\* A table of so many slots, filled with entries.
Filled(cap, h, tb) ==
  /\ cap \in Nat \ {0}
  /\ h \in [IndexKey -> Nat]
  /\ tb \in [Ring(cap) -> IndexInfo]
  /\ \A s \in Ring(cap) : tb[s].is_valid => tb[s].key \in IndexKey

LEMMA HomeInRing ==
  ASSUME NEW cap \in Nat \ {0}, NEW h \in [IndexKey -> Nat], NEW k \in IndexKey
  PROVE  h[k] % cap \in Ring(cap)
<1>1. h[k] \in Nat
  OBVIOUS
<1>. DEFINE a == h[k]
<1>. HIDE DEF a
<1>2. a \in Nat
  BY <1>1 DEF a
<1>3. a % cap \in Nat /\ a % cap < cap
  BY <1>2, Remainder
<1>4. a % cap \in Ring(cap)
  BY <1>3 DEF Ring
<1>. QED
  BY <1>4 DEF a

LEMMA AwayNext ==
  ASSUME NEW cap \in Nat \ {0}, NEW h \in [IndexKey -> Nat], NEW info, info.key \in IndexKey,
         NEW s \in Ring(cap)
  PROVE  /\ Away(cap, h, s, info) \in Nat
         /\ Away(cap, h, NextSlot(cap, s), info) \in Nat
         /\ Away(cap, h, NextSlot(cap, s), info) <= Away(cap, h, s, info) + 1
         /\ cap = 1 => Away(cap, h, s, info) = 0
<1>1. h[info.key] % cap \in Ring(cap)
  BY HomeInRing
<1>. QED
  BY <1>1, DistanceNext DEF Away

\* An entry takes a slot that is free, or that of one nearer to its home.
LEMMA OrderKept ==
  ASSUME NEW cap, NEW h, NEW tb, Filled(cap, h, tb), Ordered(cap, h, tb),
         NEW s \in Ring(cap), NEW info \in IndexInfo, info.is_valid, info.key \in IndexKey,
         Follows(cap, h, tb, s, Away(cap, h, s, info)),
         tb[s].is_valid => Away(cap, h, s, info) > Away(cap, h, s, tb[s])
  PROVE  /\ Filled(cap, h, [tb EXCEPT ![s] = info])
         /\ Ordered(cap, h, [tb EXCEPT ![s] = info])
<1>. DEFINE new == [tb EXCEPT ![s] = info]
<1>1. /\ cap \in Nat \ {0} /\ h \in [IndexKey -> Nat] /\ tb \in [Ring(cap) -> IndexInfo]
      /\ \A t \in Ring(cap) : tb[t].is_valid => tb[t].key \in IndexKey
  BY DEF Filled
<1>2. new \in [Ring(cap) -> IndexInfo] /\ new[s] = info /\ \A t \in Ring(cap) : t # s => new[t] = tb[t]
  BY <1>1
<1>. HIDE DEF new
<1>3. Filled(cap, h, new)
  BY <1>1, <1>2 DEF Filled
<1>4. ASSUME NEW t \in Ring(cap), new[t].is_valid
      PROVE  Follows(cap, h, new, t, Away(cap, h, t, new[t]))
  <2>. DEFINE before == PrevSlot(cap, t)
              d == Away(cap, h, t, new[t])
  <2>1. before \in Ring(cap) /\ (before = t => cap = 1)
    BY <1>1, RingSteps
  <2>2. new[t].key \in IndexKey /\ d \in Nat /\ (cap = 1 => d = 0)
    BY <1>1, <1>3, <1>4, AwayNext DEF Filled
  <2>3. Follows(cap, h, tb, t, d)
    BY <1>2, <1>4 DEF Ordered
  <2>. HIDE DEF d, before
  <2>4. CASE before = s
    <3>. SUFFICES ASSUME d > 0 PROVE new[s].is_valid /\ Away(cap, h, s, new[s]) >= d - 1
      BY <2>4 DEF Follows, d, before
    <3>1. tb[s].is_valid /\ Away(cap, h, s, tb[s]) >= d - 1
      BY <2>3, <2>4 DEF Follows, before
    <3>2. Away(cap, h, s, tb[s]) \in Nat /\ Away(cap, h, s, info) \in Nat
      BY <1>1, <3>1, AwayNext
    <3>. QED
      BY <1>2, <2>2, <3>1, <3>2
  <2>5. CASE before # s
    BY <1>2, <2>1, <2>3, <2>5 DEF Follows, before, d
  <2>. QED
    BY <2>4, <2>5
<1>. QED
  BY <1>3, <1>4 DEF Ordered, new

\* The entry in hand goes on to the next slot.
LEMMA HandFollows ==
  ASSUME NEW cap, NEW h, NEW tb, Filled(cap, h, tb), NEW s \in Ring(cap), tb[s].is_valid,
         NEW info, info.key \in IndexKey, Away(cap, h, s, tb[s]) >= Away(cap, h, s, info)
  PROVE  Follows(cap, h, tb, NextSlot(cap, s), Away(cap, h, NextSlot(cap, s), info))
<1>1. cap \in Nat \ {0} /\ h \in [IndexKey -> Nat] /\ tb[s].key \in IndexKey
  BY DEF Filled
<1>2. PrevSlot(cap, NextSlot(cap, s)) = s
  BY <1>1, RingSteps
<1>3. /\ Away(cap, h, s, tb[s]) \in Nat /\ Away(cap, h, s, info) \in Nat
      /\ Away(cap, h, NextSlot(cap, s), info) \in Nat
      /\ Away(cap, h, NextSlot(cap, s), info) <= Away(cap, h, s, info) + 1
  BY <1>1, AwayNext
<1>. QED
  BY <1>2, <1>3 DEF Follows

\* From the home of an entry to its slot no slot is free, and none stops a probe.
LEMMA ProbePath ==
  ASSUME NEW cap, NEW h, NEW tb, Filled(cap, h, tb), Ordered(cap, h, tb),
         NEW s \in Ring(cap), tb[s].is_valid,
         NEW home, home = h[tb[s].key] % cap
  PROVE  \A e \in 0 .. Distance(cap, home, s) :
           /\ tb[Ahead(cap, home, e)].is_valid
           /\ e <= Away(cap, h, Ahead(cap, home, e), tb[Ahead(cap, home, e)])
<1>. DEFINE d == Distance(cap, home, s)
            at(e) == Ahead(cap, home, e)
            Open(e) == tb[at(e)].is_valid /\ e <= Away(cap, h, at(e), tb[at(e)])
            S == {n \in Nat : n <= d => Open(d - n)}
<1>1. cap \in Nat \ {0} /\ h \in [IndexKey -> Nat] /\ home \in Ring(cap)
  BY HomeInRing DEF Filled
<1>2. d \in Nat /\ d < cap /\ d \in Ring(cap) /\ at(d) = s
  BY <1>1, RingDistance DEF Ring
<1>3. Away(cap, h, s, tb[s]) = d
  BY DEF Away
<1>4. \A m \in Ring(cap) : /\ at(m) \in Ring(cap)
                           /\ m > 0 => PrevSlot(cap, at(m)) = at(m - 1)
  BY <1>1, RingDistance
<1>. HIDE DEF d, at
<1>5. Open(d)
  BY <1>2, <1>3
<1>6. 0 \in S
  BY <1>2, <1>5
<1>7. ASSUME NEW n \in Nat, n \in S PROVE n + 1 \in S
  <2>. SUFFICES ASSUME n + 1 <= d PROVE Open(d - (n + 1))
    OBVIOUS
  <2>. DEFINE m == d - n
  <2>1. n <= d /\ m \in Nat /\ m > 0 /\ m - 1 = d - (n + 1) /\ m \in Ring(cap) /\ m - 1 \in Ring(cap)
    BY <1>1, <1>2 DEF Ring
  <2>2. Open(m)
    BY <1>7, <2>1
  <2>. HIDE DEF m
  <2>3. at(m) \in Ring(cap) /\ at(m - 1) \in Ring(cap) /\ PrevSlot(cap, at(m)) = at(m - 1)
    BY <1>4, <2>1
  <2>4. Follows(cap, h, tb, at(m), Away(cap, h, at(m), tb[at(m)]))
    BY <2>2, <2>3 DEF Ordered
  <2>5. tb[at(m)].key \in IndexKey /\ Away(cap, h, at(m), tb[at(m)]) \in Nat
    BY <1>1, <2>2, <2>3, AwayNext DEF Filled
  <2>6. tb[at(m - 1)].is_valid /\ Away(cap, h, at(m - 1), tb[at(m - 1)]) >= Away(cap, h, at(m), tb[at(m)]) - 1
    BY <2>1, <2>2, <2>3, <2>4, <2>5 DEF Follows
  <2>7. Away(cap, h, at(m - 1), tb[at(m - 1)]) \in Nat
    BY <1>1, <2>3, <2>6, AwayNext DEF Filled
  <2>8. Open(m - 1)
    BY <2>1, <2>2, <2>5, <2>6, <2>7
  <2>. QED
    BY <2>1, <2>8
<1>8. \A n \in Nat : n \in S
  <2>. HIDE DEF S
  <2>. QED
    BY <1>6, <1>7, Induction
<1>9. ASSUME NEW e \in 0 .. d PROVE Open(e)
  <2>1. d - e \in Nat /\ d - e <= d /\ d - (d - e) = e
    BY <1>2
  <2>. QED
    BY <1>8, <2>1
<1>. QED
  BY <1>9 DEF d, at

-----------------------------------------------------------------------------
(* Entries in cells: placed, or one of them in hand.                       *)

\* The index entries to insert: all valid, all different.
Entries(infos) ==
  /\ Len(infos) \in Nat
  /\ \A n \in 1 .. Len(infos) :
       infos[n] \in IndexInfo /\ infos[n].is_valid /\ infos[n].key \in IndexKey
  /\ \A m, n \in 1 .. Len(infos) : m # n => infos[m].key # infos[n].key

\* What is in a cell is one of the first n entries, and in no other.
Holds(cells, infos, n) ==
  /\ \A p \in DOMAIN cells : cells[p].is_valid => \E m \in 1 .. n : cells[p] = infos[m]
  /\ \A p, q \in DOMAIN cells : p # q /\ cells[p].is_valid => cells[p] # cells[q]

AllPlaced(cells, infos, n) ==
  /\ Holds(cells, infos, n)
  /\ \A m \in 1 .. n : \E p \in DOMAIN cells : cells[p] = infos[m]

\* Of the first n entries one is in hand and the others are placed.
InHand(cells, infos, n, hand) ==
  /\ Holds(cells, infos, n)
  /\ \E m \in 1 .. n : hand = infos[m]
  /\ \A p \in DOMAIN cells : cells[p] # hand
  /\ \A m \in 1 .. n : infos[m] = hand \/ \E p \in DOMAIN cells : cells[p] = infos[m]

LEMMA EntriesDiffer ==
  ASSUME NEW infos, Entries(infos), NEW m \in 1 .. Len(infos), NEW n \in 1 .. Len(infos), m # n
  PROVE  infos[m] # infos[n]
BY DEF Entries

LEMMA NextInHand ==
  ASSUME NEW infos, Entries(infos), NEW n \in Nat, n < Len(infos),
         NEW cells, AllPlaced(cells, infos, n),
         \A p \in DOMAIN cells : ~cells[p].is_valid => cells[p] = Free
  PROVE  InHand(cells, infos, n + 1, infos[n + 1])
<1>1. n + 1 \in 1 .. Len(infos) /\ \A m \in 1 .. n : m \in 1 .. Len(infos) /\ m \in 1 .. n + 1 /\ m # n + 1
  BY DEF Entries
<1>2. \A m \in 1 .. n : infos[m] # infos[n + 1]
  BY <1>1, EntriesDiffer
<1>3. \A p \in DOMAIN cells : cells[p] # infos[n + 1]
  <2>. SUFFICES ASSUME NEW p \in DOMAIN cells, cells[p] = infos[n + 1] PROVE FALSE
    OBVIOUS
  <2>1. cells[p].is_valid
    BY <1>1 DEF Entries
  <2>. QED
    BY <1>2, <2>1 DEF AllPlaced, Holds
<1>4. Holds(cells, infos, n + 1)
  BY <1>1 DEF AllPlaced, Holds
<1>5. \A m \in 1 .. n + 1 : m = n + 1 \/ m \in 1 .. n
  OBVIOUS
<1>. QED
  BY <1>1, <1>3, <1>4, <1>5 DEF InHand, AllPlaced

LEMMA HandPlaced ==
  ASSUME NEW infos, NEW n, NEW cells, NEW hand, InHand(cells, infos, n, hand), hand.is_valid,
         NEW p \in DOMAIN cells, ~cells[p].is_valid, \A m \in 1 .. n : infos[m].is_valid
  PROVE  AllPlaced([cells EXCEPT ![p] = hand], infos, n)
<1>. DEFINE new == [cells EXCEPT ![p] = hand]
<1>1. DOMAIN new = DOMAIN cells /\ new[p] = hand /\ \A q \in DOMAIN cells : q # p => new[q] = cells[q]
  OBVIOUS
<1>. HIDE DEF new
<1>2. Holds(new, infos, n)
  BY <1>1 DEF InHand, Holds
<1>3. ASSUME NEW m \in 1 .. n PROVE \E q \in DOMAIN new : new[q] = infos[m]
  <2>1. CASE infos[m] = hand
    BY <1>1, <2>1
  <2>2. CASE infos[m] # hand
    <3>1. PICK q \in DOMAIN cells : cells[q] = infos[m]
      BY <2>2 DEF InHand
    <3>. QED
      BY <1>1, <3>1
  <2>. QED
    BY <2>1, <2>2
<1>. QED
  BY <1>2, <1>3 DEF AllPlaced, new

LEMMA HandSwapped ==
  ASSUME NEW infos, NEW n, NEW cells, NEW hand, InHand(cells, infos, n, hand), hand.is_valid,
         NEW p \in DOMAIN cells, cells[p].is_valid
  PROVE  InHand([cells EXCEPT ![p] = hand], infos, n, cells[p])
<1>. DEFINE new == [cells EXCEPT ![p] = hand]
<1>1. DOMAIN new = DOMAIN cells /\ new[p] = hand /\ \A q \in DOMAIN cells : q # p => new[q] = cells[q]
  OBVIOUS
<1>. HIDE DEF new
<1>2. Holds(new, infos, n)
  BY <1>1 DEF InHand, Holds
<1>3. (\E m \in 1 .. n : cells[p] = infos[m]) /\ \A q \in DOMAIN new : new[q] # cells[p]
  BY <1>1 DEF InHand, Holds
<1>4. ASSUME NEW m \in 1 .. n PROVE infos[m] = cells[p] \/ \E q \in DOMAIN new : new[q] = infos[m]
  <2>1. CASE infos[m] = hand
    BY <1>1, <2>1
  <2>2. CASE infos[m] # hand
    <3>1. PICK q \in DOMAIN cells : cells[q] = infos[m]
      BY <2>2 DEF InHand
    <3>. QED
      BY <1>1, <3>1
  <2>. QED
    BY <2>1, <2>2
<1>. QED
  BY <1>2, <1>3, <1>4 DEF InHand, new

LEMMA NoneDropped ==
  ASSUME NEW infos, NEW n, NEW cells, NEW hand, InHand(cells, infos, n, hand),
         NEW m \in 1 .. n, \A l \in 1 .. n : infos[l].is_valid
  PROVE  Cardinality({p \in DOMAIN cells : cells[p] = infos[m]})
           + (IF hand = infos[m] THEN 1 ELSE 0) = 1
<1>. DEFINE places == {p \in DOMAIN cells : cells[p] = infos[m]}
<1>1. CASE hand = infos[m]
  <2>1. places = {}
    BY <1>1 DEF InHand
  <2>. HIDE DEF places
  <2>2. Cardinality(places) = 0
    BY <2>1, FS_EmptySet
  <2>3. Cardinality(places) + (IF hand = infos[m] THEN 1 ELSE 0) = 1
    BY <1>1, <2>2
  <2>. QED
    BY <2>3 DEF places
<1>2. CASE hand # infos[m]
  <2>1. PICK p \in DOMAIN cells : cells[p] = infos[m]
    BY <1>2 DEF InHand
  <2>2. places = {p}
    BY <2>1 DEF InHand, Holds
  <2>. HIDE DEF places
  <2>3. Cardinality(places) = 1
    BY <2>2, FS_Singleton
  <2>4. Cardinality(places) + (IF hand = infos[m] THEN 1 ELSE 0) = 1
    BY <1>2, <2>3
  <2>. QED
    BY <2>4 DEF places
<1>. QED
  BY <1>1, <1>2

\* Fewer entries than slots: one is free.
LEMMA SomeFree ==
  ASSUME NEW cap \in Nat, NEW cells, DOMAIN cells = Ring(cap), NEW infos, NEW n \in Nat, n < cap,
         Holds(cells, infos, n)
  PROVE  \E s \in Ring(cap) : ~cells[s].is_valid
<1>. SUFFICES ASSUME \A s \in Ring(cap) : cells[s].is_valid PROVE FALSE
  OBVIOUS
<1>. DEFINE number == [s \in Ring(cap) |-> CHOOSE m \in 1 .. n : cells[s] = infos[m]]
<1>1. \A s \in Ring(cap) : \E m \in 1 .. n : cells[s] = infos[m]
  BY DEF Holds
<1>2. \A s \in Ring(cap) : number[s] \in 1 .. n /\ cells[s] = infos[number[s]]
  BY <1>1
<1>3. number \in [Ring(cap) -> 1 .. n]
  BY <1>2
<1>. HIDE DEF number
<1>4. IsFiniteSet(1 .. n) /\ Cardinality(1 .. n) = n
  BY UpTo
<1>5. IsFiniteSet(Ring(cap)) /\ Cardinality(Ring(cap)) = cap
  <2>1. 0 \in Int /\ cap - 1 \in Int
    OBVIOUS
  <2>. QED
    BY <2>1, FS_Interval DEF Ring
<1>6. PICK s \in Ring(cap), t \in Ring(cap) : s # t /\ number[s] = number[t]
  BY <1>3, <1>4, <1>5, FS_PigeonHole
<1>. QED
  BY <1>2, <1>6 DEF Holds

-----------------------------------------------------------------------------
(* The invariant of the Robin Hood table.                                  *)

NoRows ==
  /\ index_entries = <<>> /\ index_infos = <<>> /\ storage = <<>>
  /\ capacity = 0
  /\ index_phase \in {"empty", "ready"}

\* Grouped, and given more slots than keys.  The storage may hold older rows, never
\* fewer than the list.
Grouped ==
  /\ index_entries \in IndexLists
  /\ IndexOf(index_entries, index_infos, Storage(index_entries))
  /\ storage \in Seq(IndexRow) /\ Len(Storage(index_entries)) <= Len(storage)
  /\ Len(index_infos) > 0 /\ Len(index_infos) <= Len(index_entries)
  /\ capacity \in Nat /\ Len(index_infos) < capacity

\* The slots the entry has looked at, from the home of the last one begun, are taken.
RobinHoodHand ==
  LET first == hash[index_infos[inserted + 1].key] % capacity
  IN  /\ inserted \in 0 .. Len(index_infos) - 1
      /\ InHand(table, index_infos, inserted + 1, current_info)
      /\ Follows(capacity, hash, table, current_slot, Away(capacity, hash, current_slot, current_info))
      /\ attempts \in 0 .. capacity
      /\ current_slot = Ahead(capacity, first, attempts)
      /\ \A m \in 0 .. attempts - 1 : table[Ahead(capacity, first, m)].is_valid

RobinHoodFilled ==
  /\ Grouped
  /\ index_phase \in {"insert", "ready"}
  /\ Filled(capacity, hash, table)
  /\ Ordered(capacity, hash, table)
  /\ \A s \in Ring(capacity) : ~table[s].is_valid => table[s] = Free
  /\ current_slot \in Ring(capacity)
  /\ index_phase = "insert" => RobinHoodHand
  /\ index_phase = "ready" => AllPlaced(table, index_infos, Len(index_infos))

RobinHoodInv ==
  /\ hash \in RobinHoodHash
  /\ (NoRows /\ table = << >>) \/ RobinHoodFilled

LEMMA InfosAreEntries ==
  ASSUME NEW es, NEW infos, NEW rows, IndexOf(es, infos, rows)
  PROVE  Entries(infos)
BY DEF IndexOf, Entries

LEMMA SameInRobinHood ==
  ASSUME NEW es
  PROVE  /\ RobinHood!Infos(es) = Infos(es)
         /\ RobinHood!Storage(es) = Storage(es)
<1>1. RobinHood!KeyOrder(es) = KeyOrder(es)
  BY DEF RobinHood!KeyOrder, KeyOrder, RobinHood!Keys, Keys, RobinHood!Cardinality, Cardinality
<1>2. \A k : RobinHood!RowsOf(es, k) = RowsOf(es, k)
  BY DEF RobinHood!RowsOf, RowsOf, RobinHood!Kept, Kept, RobinHood!Range, Range
<1>3. RobinHood!Groups(es) = Groups(es)
  BY <1>1, <1>2 DEF RobinHood!Groups, Groups
<1>4. RobinHood!Storage(es) = Storage(es)
  BY <1>3 DEF RobinHood!Storage, Storage, RobinHood!Rows, Rows
<1>5. RobinHood!Infos(es) = Infos(es)
  BY <1>1, <1>3 DEF RobinHood!Infos, Infos, RobinHood!StartOf, StartOf,
                    RobinHood!PageOffsets, PageOffsets
<1>. QED
  BY <1>4, <1>5

\* Whatever list is built from is grouped.
LEMMA GroupedNext ==
  ASSUME NEW es \in IndexLists, es # <<>>
  PROVE  /\ IndexOf(es, Infos(es), Storage(es)) /\ Storage(es) \in Seq(IndexRow)
         /\ Len(Infos(es)) \in Nat /\ Len(Infos(es)) > 0 /\ Len(Infos(es)) <= Len(es)
         /\ Entries(Infos(es))
<1>1. es \in Seq(IndexRow)
  BY IndexAssumption
<1>2. /\ IndexOf(es, Infos(es), Storage(es)) /\ Len(Infos(es)) > 0 /\ Len(Infos(es)) <= Len(es)
      /\ Storage(es) \in Seq(IndexRow)
  BY <1>1, InfosAreIndex
<1>3. Len(Infos(es)) \in Nat
  BY <1>2 DEF IndexOf
<1>. QED
  BY <1>2, <1>3, InfosAreEntries

\* Rows added to the storage, whatever it holds.
LEMMA StorageGrows ==
  ASSUME NEW es \in IndexLists, es # <<>>, NoRows \/ Grouped
  PROVE  storage \o Storage(es) \in Seq(IndexRow) /\ Len(Storage(es)) <= Len(storage \o Storage(es))
<1>1. Storage(es) \in Seq(IndexRow) /\ storage \in Seq(IndexRow)
  <2>1. <<>> \in Seq(IndexRow)
    OBVIOUS
  <2>2. storage \in Seq(IndexRow)
    BY <2>1 DEF NoRows, Grouped
  <2>. QED
    BY <2>2, GroupedNext
<1>. DEFINE rows == Storage(es)
<1>. HIDE DEF rows
<1>2. rows \in Seq(IndexRow)
  BY <1>1 DEF rows
<1>3. /\ storage \o rows \in Seq(IndexRow) /\ Len(storage \o rows) = Len(storage) + Len(rows)
      /\ Len(storage) \in Nat /\ Len(rows) \in Nat
  BY <1>1, <1>2, ConcatProperties, LenProperties
<1>. QED
  BY <1>3 DEF rows

\* The index entries name rows of the storage.
LEMMA InfosNameRows ==
  ASSUME NoRows \/ Grouped
  PROVE  \A n \in DOMAIN index_infos : index_infos[n].start_index + index_infos[n].count <= Len(storage)
<1>1. CASE NoRows
  BY <1>1 DEF NoRows
<1>2. CASE Grouped
  <2>. DEFINE rows == Storage(index_entries)
  <2>1. /\ index_entries \in Seq(IndexRow) /\ storage \in Seq(IndexRow) /\ Len(rows) <= Len(storage)
        /\ DOMAIN index_infos = 1 .. Len(index_infos)
        /\ \A n \in 1 .. Len(index_infos) :
             /\ index_infos[n] \in IndexInfo
             /\ index_infos[n].start_index + index_infos[n].count <= Len(rows)
    BY <1>2 DEF Grouped, IndexOf
  <2>2. rows \in Seq(IndexRow)
    BY <2>1, InfosAreIndex
  <2>. HIDE DEF rows
  <2>3. Len(rows) \in Nat /\ Len(storage) \in Nat
    BY <2>1, <2>2, LenProperties
  <2>4. \A n \in 1 .. Len(index_infos) :
          index_infos[n].start_index \in Nat /\ index_infos[n].count \in Nat
    BY <2>1 DEF IndexInfo
  <2>. QED
    BY <2>1, <2>3, <2>4
<1>. QED
  BY <1>1, <1>2

\* What a probe may answer for a key: as many rows as it has, and its rows unless
\* the storage has older ones.
Answers(found, k) ==
  /\ Len(found) = Len(RowsOf(index_entries, k))
  /\ storage = Storage(index_entries) => found = RowsOf(index_entries, k)

LEMMA BucketAnswers ==
  ASSUME Grouped, NEW m \in 1 .. Len(index_infos)
  PROVE  Answers(Bucket(storage, index_infos[m]), index_infos[m].key)
<1>. DEFINE rows == Storage(index_entries)
            info == index_infos[m]
            own == RowsOf(index_entries, info.key)
<1>1. /\ index_entries \in Seq(IndexRow) /\ storage \in Seq(IndexRow) /\ Len(rows) <= Len(storage)
      /\ info \in IndexInfo /\ info.start_index + info.count <= Len(rows)
      /\ Bucket(rows, info) = own
  BY DEF Grouped, IndexOf
<1>2. rows \in Seq(IndexRow)
  BY <1>1, InfosAreIndex
<1>3. info.start_index \in Nat /\ info.count \in Nat
  BY <1>1 DEF IndexInfo
<1>. HIDE DEF rows, info, own
<1>4. ASSUME NEW t \in Seq(IndexRow), info.start_index + info.count <= Len(t)
      PROVE  Len(Bucket(t, info)) = info.count
  <2>. DEFINE a == info.start_index + 1
              b == info.start_index + info.count
  <2>1. /\ Len(t) \in Nat /\ a \in Nat /\ b \in Nat /\ b <= Len(t) /\ a > 0
        /\ \A p \in a .. b : t[p] \in IndexRow
    BY <1>3, <1>4, LenProperties, ElementOfSeq
  <2>2. Len(SubSeq(t, a, b)) = IF a <= b THEN b - a + 1 ELSE 0
    <3>. HIDE DEF a, b
    <3>. QED
      BY <2>1, SubSeqProperties
  <2>. QED
    BY <1>3, <2>2 DEF Bucket
<1>5. Len(rows) \in Nat /\ Len(storage) \in Nat
  BY <1>1, <1>2, LenProperties
<1>6. info.start_index + info.count <= Len(storage)
  BY <1>1, <1>3, <1>5
<1>7. Len(Bucket(rows, info)) = info.count /\ Len(Bucket(storage, info)) = info.count
  BY <1>1, <1>2, <1>4, <1>6
<1>. QED
  BY <1>1, <1>7 DEF Answers, rows, info, own

LEMMA EmptyHolds ==
  ASSUME NEW S, NEW infos
  PROVE  AllPlaced([p \in S |-> Free], infos, 0)
BY DEF AllPlaced, Holds, Free

LEMMA FreeTyped == Free \in IndexInfo /\ Free.is_valid = FALSE
BY DEF Free, IndexInfo

\* An empty table is in order.
LEMMA EmptyOrdered ==
  ASSUME NEW cap \in Nat \ {0}, NEW h \in [IndexKey -> Nat]
  PROVE  /\ Filled(cap, h, [s \in 0 .. cap - 1 |-> Free])
         /\ Ordered(cap, h, [s \in 0 .. cap - 1 |-> Free])
BY FreeTyped DEF Filled, Ordered, Ring

\* An entry starts at its home, which asks nothing of the slot before.
LEMMA StartsAtHome ==
  ASSUME NEW cap \in Nat \ {0}, NEW h \in [IndexKey -> Nat], NEW tb, NEW info, info.key \in IndexKey
  PROVE  /\ h[info.key] % cap \in Ring(cap)
         /\ Follows(cap, h, tb, h[info.key] % cap, Away(cap, h, h[info.key] % cap, info))
         /\ h[info.key] % cap = Ahead(cap, h[info.key] % cap, 0)
<1>. DEFINE home == h[info.key] % cap
<1>1. home \in Ring(cap)
  BY HomeInRing
<1>2. Away(cap, h, home, info) = Distance(cap, home, home)
  BY DEF Away
<1>. HIDE DEF home
<1>3. Distance(cap, home, home) = 0 /\ home = Ahead(cap, home, 0)
  BY <1>1 DEF Distance, Ring, Ahead
<1>4. Follows(cap, h, tb, home, Away(cap, h, home, info))
  BY <1>2, <1>3 DEF Follows
<1>. QED
  BY <1>1, <1>3, <1>4 DEF home

LEMMA RobinHoodInit == RobinHood!Init => RobinHoodInv
BY DEF RobinHood!Init, RobinHoodInv, NoRows

LEMMA RobinHoodBuild ==
  ASSUME RobinHoodInv, NEW es \in IndexLists, RobinHood!Build(es)
  PROVE  RobinHoodInv'
<1>. DEFINE infos == Infos(es)
            cap == (4 * Len(infos) + 2) \div 3
            home == hash[infos[1].key] % cap
<1>1. /\ es # <<>> /\ index_entries' = es /\ index_infos' = infos
      /\ storage' = storage \o Storage(es) /\ capacity' = cap
      /\ table' = [s \in 0 .. cap - 1 |-> Free]
      /\ current_info' = infos[1] /\ current_slot' = home
      /\ attempts' = 0 /\ inserted' = 0
      /\ index_phase' = "insert" /\ hash' = hash
  <2>1. /\ es # <<>> /\ index_entries' = es
        /\ index_infos' = RobinHood!Infos(es) /\ storage' = storage \o RobinHood!Storage(es)
        /\ capacity' = RobinHood!InitialCapacity(Len(index_infos'))
        /\ table' = RobinHood!EmptyTable(capacity')
        /\ current_info' = index_infos'[1]
        /\ current_slot' = hash[index_infos'[1].key] % capacity'
        /\ attempts' = 0 /\ inserted' = 1 - 1
        /\ index_phase' = "insert" /\ hash' = hash
    BY DEF RobinHood!Build, RobinHood!StartInfo
  <2>2. index_infos' = infos /\ storage' = storage \o Storage(es)
    BY <2>1, SameInRobinHood
  <2>. HIDE DEF infos
  <2>3. capacity' = cap
    BY <2>1, <2>2 DEF RobinHood!InitialCapacity
  <2>4. table' = [s \in 0 .. cap - 1 |-> Free]
    BY ONLY <2>1, <2>3 DEF RobinHood!EmptyTable, RobinHood!Free, Free
  <2>5. 1 - 1 = 0
    OBVIOUS
  <2>. HIDE DEF cap
  <2>. QED
    BY ONLY <2>1, <2>2, <2>3, <2>4, <2>5
<1>2. (NoRows \/ Grouped) /\ hash \in [IndexKey -> Nat] /\ hash \in RobinHoodHash
  BY IndexAssumption DEF RobinHoodInv, RobinHoodFilled
<1>3. /\ IndexOf(es, infos, Storage(es)) /\ Entries(infos)
      /\ Len(infos) \in Nat /\ Len(infos) > 0 /\ Len(infos) <= Len(es)
      /\ storage \o Storage(es) \in Seq(IndexRow)
      /\ Len(Storage(es)) <= Len(storage \o Storage(es))
  BY <1>1, <1>2, GroupedNext, StorageGrows
<1>. HIDE DEF infos
<1>4. cap \in Nat \ {0} /\ Len(infos) < cap
  <2>. DEFINE a == 4 * Len(infos) + 2
  <2>1. a \in Nat /\ a = 4 * Len(infos) + 2
    BY <1>3
  <2>. HIDE DEF a
  <2>2. a \div 3 \in Nat /\ a < 3 * (a \div 3) + 3
    BY <2>1, QuotientBounds
  <2>3. Len(infos) < a \div 3
    BY <1>3, <2>1, <2>2
  <2>. QED
    BY <1>3, <2>2, <2>3 DEF a
<1>. HIDE DEF cap
<1>5. 1 \in 1 .. Len(infos) /\ infos[1].key \in IndexKey
  BY <1>3 DEF Entries
<1>6. Grouped'
  BY <1>1, <1>3, <1>4 DEF Grouped
<1>. DEFINE empty == [s \in 0 .. cap - 1 |-> Free]
<1>7. Filled(cap, hash, empty) /\ Ordered(cap, hash, empty)
  BY <1>2, <1>4, EmptyOrdered
<1>8. \A s \in Ring(cap) : empty[s] = Free
  BY DEF Ring
<1>9. /\ home \in Ring(cap) /\ home = Ahead(cap, home, 0)
      /\ Follows(cap, hash, empty, home, Away(cap, hash, home, infos[1]))
  BY <1>2, <1>4, <1>5, StartsAtHome
<1>10. InHand(empty, infos, 1, infos[1])
  <2>1. AllPlaced(empty, infos, 0)
    BY EmptyHolds
  <2>2. \A p \in DOMAIN empty : empty[p] = Free
    OBVIOUS
  <2>. HIDE DEF empty
  <2>3. InHand(empty, infos, 0 + 1, infos[0 + 1])
    BY <1>3, <2>1, <2>2, NextInHand
  <2>. QED
    BY <2>3
<1>. HIDE DEF empty
<1>11. table' = empty
  BY <1>1 DEF empty
<1>12. RobinHoodHand'
  <2>1. 0 + 1 = 1 /\ 0 \in 0 .. Len(infos) - 1 /\ 0 \in 0 .. cap /\ 0 .. 0 - 1 = {}
    BY <1>3, <1>4
  <2>. QED
    BY <1>1, <1>9, <1>10, <1>11, <2>1 DEF RobinHoodHand
<1>. QED
  BY <1>1, <1>2, <1>6, <1>7, <1>8, <1>9, <1>11, <1>12 DEF RobinHoodInv, RobinHoodFilled

LEMMA RobinHoodBuildNothing ==
  ASSUME RobinHoodInv, RobinHood!BuildNothing
  PROVE  RobinHoodInv'
BY DEF RobinHoodInv, RobinHood!BuildNothing, NoRows

\* What holds while entries are inserted.
LEMMA RobinHoodInserting ==
  ASSUME RobinHoodInv, index_phase = "insert"
  PROVE  /\ RobinHoodFilled /\ RobinHoodHand
         /\ capacity \in Nat \ {0} /\ hash \in [IndexKey -> Nat] /\ hash \in RobinHoodHash
         /\ table \in [Ring(capacity) -> IndexInfo] /\ DOMAIN table = Ring(capacity)
         /\ Entries(index_infos) /\ Len(index_infos) \in Nat
         /\ inserted \in Nat /\ inserted + 1 \in 1 .. Len(index_infos)
         /\ index_infos[inserted + 1].key \in IndexKey
         /\ current_info \in IndexInfo /\ current_info.is_valid /\ current_info.key \in IndexKey
         /\ \A m \in 1 .. inserted + 1 : index_infos[m].is_valid
<1>1. RobinHoodFilled /\ RobinHoodHand /\ hash \in RobinHoodHash
  BY DEF RobinHoodInv, NoRows, RobinHoodFilled
<1>2. Entries(index_infos) /\ Len(index_infos) \in Nat
  BY <1>1, InfosAreEntries DEF RobinHoodFilled, Grouped, Entries
<1>3. inserted \in Nat /\ inserted + 1 \in 1 .. Len(index_infos)
  BY <1>1, <1>2 DEF RobinHoodHand
<1>4. \A m \in 1 .. inserted + 1 : m \in 1 .. Len(index_infos)
  BY <1>2, <1>3
<1>5. \E m \in 1 .. inserted + 1 : current_info = index_infos[m]
  BY <1>1 DEF RobinHoodHand, InHand
<1>6. \A m \in 1 .. Len(index_infos) :
        index_infos[m] \in IndexInfo /\ index_infos[m].is_valid /\ index_infos[m].key \in IndexKey
  BY <1>2 DEF Entries
<1>7. current_info \in IndexInfo /\ current_info.is_valid /\ current_info.key \in IndexKey
  BY <1>4, <1>5, <1>6
<1>. QED
  BY <1>1, <1>2, <1>3, <1>4, <1>6, <1>7 DEF RobinHoodFilled, Filled

\* A free slot is found before the entry has been everywhere.
LEMMA RobinHoodFinds ==
  ASSUME RobinHoodInv, index_phase = "insert", table[current_slot].is_valid
  PROVE  attempts \in 0 .. capacity - 1
<1>1. /\ RobinHoodFilled /\ RobinHoodHand /\ capacity \in Nat \ {0} /\ DOMAIN table = Ring(capacity)
      /\ hash \in [IndexKey -> Nat] /\ inserted \in Nat /\ inserted + 1 \in 1 .. Len(index_infos)
      /\ index_infos[inserted + 1].key \in IndexKey /\ Len(index_infos) \in Nat
  BY RobinHoodInserting
<1>2. attempts \in 0 .. capacity /\ InHand(table, index_infos, inserted + 1, current_info)
  BY ONLY <1>1 DEF RobinHoodHand
<1>3. ASSUME attempts = capacity
      PROVE  FALSE
  <2>. DEFINE home == hash[index_infos[inserted + 1].key] % capacity
  <2>1. home \in Ring(capacity)
    BY <1>1, HomeInRing
  <2>2. \A m \in 0 .. capacity - 1 : table[Ahead(capacity, home, m)].is_valid
    BY <1>1, <1>3 DEF RobinHoodHand
  <2>. HIDE DEF home
  <2>3. \A s \in Ring(capacity) : table[s].is_valid
    <3>. TAKE s \in Ring(capacity)
    <3>1. Distance(capacity, home, s) \in 0 .. capacity - 1 /\ Ahead(capacity, home, Distance(capacity, home, s)) = s
      BY <1>1, <2>1, RingDistance DEF Ring
    <3>. QED
      BY <2>2, <3>1
  <2>4. inserted + 1 < capacity
    BY <1>1 DEF RobinHoodFilled, Grouped
  <2>5. Holds(table, index_infos, inserted + 1)
    BY ONLY <1>2 DEF InHand
  <2>6. \E s \in Ring(capacity) : ~table[s].is_valid
    BY ONLY <1>1, <2>4, <2>5, SomeFree
  <2>. QED
    BY <2>3, <2>6
<1>. QED
  BY ONLY <1>1, <1>2, <1>3

LEMMA RobinHoodNeverGivesUp == RobinHoodInv => RobinHood!NeverGivesUp
<1>. SUFFICES ASSUME RobinHoodInv, RobinHood!GivesUp PROVE FALSE
  BY DEF RobinHood!NeverGivesUp
<1>1. index_phase = "insert" /\ table[current_slot].is_valid /\ attempts >= capacity
  BY DEF RobinHood!GivesUp
<1>2. attempts \in 0 .. capacity - 1 /\ capacity \in Nat \ {0}
  BY <1>1, RobinHoodFinds, RobinHoodInserting
<1>. QED
  BY <1>1, <1>2

LEMMA RobinHoodPlace ==
  ASSUME RobinHoodInv, RobinHood!Place
  PROVE  RobinHoodInv'
<1>. DEFINE new == [table EXCEPT ![current_slot] = current_info]
            n == inserted + 1
<1>1. /\ index_phase = "insert" /\ ~table[current_slot].is_valid /\ table' = new
      /\ UNCHANGED <<hash, index_entries, index_infos, capacity, storage>>
  BY DEF RobinHood!Place
<1>2. /\ RobinHoodFilled /\ RobinHoodHand /\ capacity \in Nat \ {0} /\ DOMAIN table = Ring(capacity)
      /\ table \in [Ring(capacity) -> IndexInfo]
      /\ hash \in [IndexKey -> Nat] /\ hash \in RobinHoodHash
      /\ inserted \in Nat /\ n \in 1 .. Len(index_infos)
      /\ Entries(index_infos) /\ Len(index_infos) \in Nat
      /\ current_info \in IndexInfo /\ current_info.is_valid /\ current_info.key \in IndexKey
      /\ \A m \in 1 .. n : index_infos[m].is_valid
  BY <1>1, RobinHoodInserting
<1>3. /\ Filled(capacity, hash, table) /\ Ordered(capacity, hash, table) /\ current_slot \in Ring(capacity)
      /\ InHand(table, index_infos, n, current_info)
      /\ Follows(capacity, hash, table, current_slot, Away(capacity, hash, current_slot, current_info))
  BY <1>2 DEF RobinHoodFilled, RobinHoodHand
<1>4. Filled(capacity, hash, new) /\ Ordered(capacity, hash, new)
  BY <1>1, <1>2, <1>3, OrderKept
<1>5. AllPlaced(new, index_infos, n)
  BY <1>1, <1>2, <1>3, HandPlaced
<1>6. /\ \A s \in Ring(capacity) : ~new[s].is_valid => new[s] = Free
      /\ DOMAIN new = Ring(capacity)
  BY <1>2 DEF RobinHoodFilled
<1>. HIDE DEF new
<1>7. Grouped' /\ hash' \in RobinHoodHash
  BY <1>1, <1>2 DEF RobinHoodFilled, Grouped
<1>8. CASE n < Len(index_infos)
  <2>. DEFINE info == index_infos[n + 1]
              home == hash[info.key] % capacity
  <2>1. /\ current_info' = info /\ current_slot' = home /\ attempts' = 0 /\ inserted' = n
        /\ index_phase' = "insert"
    <3>1. RobinHood!StartInfo(index_infos, inserted + 2, capacity) /\ UNCHANGED index_phase
      BY <1>8 DEF RobinHood!Place
    <3>2. inserted + 2 = n + 1 /\ (n + 1) - 1 = n
      BY <1>2
    <3>3. RobinHood!StartInfo(index_infos, n + 1, capacity)
      BY ONLY <3>1, <3>2
    <3>4. /\ current_info' = info /\ current_slot' = home /\ attempts' = 0
          /\ inserted' = (n + 1) - 1
      <4>. HIDE DEF n
      <4>. QED
        BY ONLY <3>3 DEF RobinHood!StartInfo
    <3>. QED
      BY ONLY <1>1, <3>1, <3>2, <3>4
  <2>2. n + 1 \in 1 .. Len(index_infos) /\ n \in Nat /\ n \in 0 .. Len(index_infos) - 1
    BY <1>2, <1>8
  <2>3. info.key \in IndexKey
    BY <1>2, <2>2 DEF Entries
  <2>4. /\ home \in Ring(capacity) /\ home = Ahead(capacity, home, 0)
        /\ Follows(capacity, hash, new, home, Away(capacity, hash, home, info))
    BY <1>2, <2>3, StartsAtHome
  <2>5. InHand(new, index_infos, n + 1, info)
    BY <1>2, <1>5, <1>6, <1>8, <2>2, NextInHand
  <2>. HIDE DEF n
  <2>6. RobinHoodHand'
    <3>1. 0 \in 0 .. capacity /\ 0 .. 0 - 1 = {}
      BY <1>2
    <3>. QED
      BY <1>1, <2>1, <2>2, <2>4, <2>5, <3>1 DEF RobinHoodHand
  <2>7. RobinHoodFilled'
    BY <1>1, <1>4, <1>6, <1>7, <2>1, <2>4, <2>6 DEF RobinHoodFilled
  <2>. QED
    BY <1>7, <2>7 DEF RobinHoodInv
<1>9. CASE ~(n < Len(index_infos))
  <2>1. index_phase' = "ready" /\ UNCHANGED current_slot
    BY <1>9 DEF RobinHood!Place
  <2>2. n = Len(index_infos)
    BY <1>2, <1>9
  <2>3. RobinHoodFilled'
    BY <1>1, <1>3, <1>4, <1>5, <1>6, <1>7, <2>1, <2>2 DEF RobinHoodFilled
  <2>. QED
    BY <1>7, <2>3 DEF RobinHoodInv
<1>. QED
  BY <1>8, <1>9

\* psl is the distance from the entry's home.
LEMMA PslIsAway ==
  ASSUME NEW s, NEW info
  PROVE  RobinHood!psl(s, RobinHood!find_home(info.key)) = Away(capacity, hash, s, info)
BY DEF RobinHood!psl, RobinHood!find_home, Away, Distance

LEMMA RobinHoodAdvance ==
  ASSUME RobinHoodInv, RobinHood!Advance
  PROVE  RobinHoodInv'
<1>. DEFINE n == inserted + 1
            home == hash[index_infos[n].key] % capacity
            old == table[current_slot]
            swap == RobinHood!Displaces
            new == IF swap THEN [table EXCEPT ![current_slot] = current_info] ELSE table
            hand == IF swap THEN old ELSE current_info
<1>1. /\ index_phase = "insert" /\ index_phase' = "insert" /\ old.is_valid
      /\ table' = new /\ current_info' = hand
      /\ current_slot' = (current_slot + 1) % capacity /\ attempts' = attempts + 1
      /\ UNCHANGED <<hash, index_entries, index_infos, capacity, storage, inserted>>
  BY DEF RobinHood!Advance
<1>2. /\ RobinHoodFilled /\ RobinHoodHand /\ capacity \in Nat \ {0} /\ DOMAIN table = Ring(capacity)
      /\ table \in [Ring(capacity) -> IndexInfo]
      /\ hash \in [IndexKey -> Nat] /\ hash \in RobinHoodHash
      /\ inserted \in Nat /\ n \in 1 .. Len(index_infos)
      /\ index_infos[n].key \in IndexKey
      /\ Entries(index_infos) /\ Len(index_infos) \in Nat
      /\ current_info \in IndexInfo /\ current_info.is_valid /\ current_info.key \in IndexKey
      /\ \A m \in 1 .. n : index_infos[m].is_valid
  BY <1>1, RobinHoodInserting
<1>3. /\ Filled(capacity, hash, table) /\ Ordered(capacity, hash, table) /\ current_slot \in Ring(capacity)
      /\ InHand(table, index_infos, n, current_info)
      /\ Follows(capacity, hash, table, current_slot, Away(capacity, hash, current_slot, current_info))
  BY <1>2 DEF RobinHoodFilled, RobinHoodHand
<1>4. attempts \in 0 .. capacity - 1
  BY <1>1, RobinHoodFinds
<1>5. /\ current_slot = Ahead(capacity, home, attempts)
      /\ \A m \in 0 .. attempts - 1 : table[Ahead(capacity, home, m)].is_valid
  BY <1>2 DEF RobinHoodHand
<1>6. home \in Ring(capacity)
  BY <1>2, HomeInRing
<1>. HIDE DEF home, n
<1>7. current_slot' = NextSlot(capacity, current_slot) /\ current_slot' \in Ring(capacity)
  BY <1>1, <1>2, <1>3, RingRemainders, RingSteps
<1>8. current_slot' = Ahead(capacity, home, attempts + 1)
  <2>1. attempts \in Ring(capacity)
    BY <1>4 DEF Ring
  <2>. QED
    BY ONLY <1>2, <1>5, <1>6, <1>7, <2>1, RingDistance
<1>9. old \in IndexInfo /\ old.key \in IndexKey
  BY <1>1, <1>2, <1>3 DEF Filled
<1>10. /\ Away(capacity, hash, current_slot, old) \in Nat
       /\ Away(capacity, hash, current_slot, current_info) \in Nat
  BY <1>2, <1>3, <1>9, AwayNext
<1>11. swap <=> Away(capacity, hash, current_slot, current_info) > Away(capacity, hash, current_slot, old)
  BY PslIsAway DEF RobinHood!Displaces
<1>. HIDE DEF swap
<1>12. /\ Filled(capacity, hash, new) /\ Ordered(capacity, hash, new)
       /\ InHand(new, index_infos, n, hand)
       /\ new[current_slot].is_valid /\ hand.key \in IndexKey
       /\ Away(capacity, hash, current_slot, new[current_slot])
            >= Away(capacity, hash, current_slot, hand)
       /\ DOMAIN new = Ring(capacity)
       /\ \A s \in Ring(capacity) : table[s].is_valid => new[s].is_valid
       /\ \A s \in Ring(capacity) : ~new[s].is_valid => new[s] = Free
  <2>1. CASE swap
    <3>. DEFINE swapped == [table EXCEPT ![current_slot] = current_info]
    <3>1. new = swapped /\ hand = old
      BY <2>1
    <3>2. Filled(capacity, hash, swapped) /\ Ordered(capacity, hash, swapped)
      BY <1>2, <1>3, <1>11, <2>1, OrderKept
    <3>3. InHand(swapped, index_infos, n, old)
      BY <1>1, <1>2, <1>3, HandSwapped
    <3>4. /\ swapped[current_slot] = current_info
          /\ \A s \in Ring(capacity) : s # current_slot => swapped[s] = table[s]
          /\ DOMAIN swapped = Ring(capacity)
      BY <1>2, <1>3
    <3>5. \A s \in Ring(capacity) : ~table[s].is_valid => table[s] = Free
      BY <1>2 DEF RobinHoodFilled
    <3>6. Away(capacity, hash, current_slot, current_info) >= Away(capacity, hash, current_slot, old)
      BY <1>10, <1>11, <2>1
    <3>. HIDE DEF swapped, new, hand, old
    <3>. QED
      BY <1>2, <1>9, <3>1, <3>2, <3>3, <3>4, <3>5, <3>6
  <2>2. CASE ~swap
    <3>1. new = table /\ hand = current_info
      BY <2>2
    <3>2. Away(capacity, hash, current_slot, old) >= Away(capacity, hash, current_slot, current_info)
      BY <1>10, <1>11, <2>2
    <3>3. \A s \in Ring(capacity) : ~table[s].is_valid => table[s] = Free
      BY <1>2 DEF RobinHoodFilled
    <3>. HIDE DEF new, hand
    <3>. QED
      BY <1>1, <1>2, <1>3, <3>1, <3>2, <3>3
  <2>. QED
    BY <2>1, <2>2
<1>. HIDE DEF new, hand, old
<1>13. Follows(capacity, hash, new, NextSlot(capacity, current_slot),
               Away(capacity, hash, NextSlot(capacity, current_slot), hand))
  BY <1>3, <1>12, HandFollows
<1>14. \A m \in 0 .. (attempts + 1) - 1 : new[Ahead(capacity, home, m)].is_valid
  <2>. TAKE m \in 0 .. (attempts + 1) - 1
  <2>1. m \in Ring(capacity)
    BY <1>2, <1>4 DEF Ring
  <2>2. Ahead(capacity, home, m) \in Ring(capacity)
    BY <1>2, <1>6, <2>1, RingDistance
  <2>3. CASE m = attempts
    BY <1>5, <1>12, <2>3
  <2>4. CASE m # attempts
    <3>1. m \in 0 .. attempts - 1
      BY <1>4, <2>4
    <3>. QED
      BY <1>5, <1>12, <2>2, <3>1
  <2>. QED
    BY <2>3, <2>4
<1>15. RobinHoodHand'
  <2>1. attempts + 1 \in 0 .. capacity
    BY <1>2, <1>4
  <2>2. inserted \in 0 .. Len(index_infos) - 1
    BY <1>2 DEF RobinHoodHand
  <2>. QED
    BY <1>1, <1>7, <1>8, <1>12, <1>13, <1>14, <2>1, <2>2 DEF RobinHoodHand, home, n
<1>16. Grouped'
  BY <1>1, <1>2 DEF RobinHoodFilled, Grouped
<1>17. RobinHoodFilled'
  BY <1>1, <1>7, <1>12, <1>15, <1>16 DEF RobinHoodFilled
<1>. QED
  BY <1>1, <1>2, <1>17 DEF RobinHoodInv

LEMMA RobinHoodStep ==
  ASSUME RobinHoodInv, RobinHood!Next
  PROVE  RobinHoodInv'
<1>1. ~RobinHood!GivesUp
  BY RobinHoodNeverGivesUp DEF RobinHood!NeverGivesUp
<1>2. ASSUME NEW es \in IndexLists, RobinHood!Build(es) PROVE RobinHoodInv'
  BY <1>2, RobinHoodBuild
<1>. QED
  BY <1>1, <1>2, RobinHoodBuildNothing, RobinHoodPlace, RobinHoodAdvance
  DEF RobinHood!Next, RobinHood!InsertStep

\* What the invariant says of probes, of the order of the slots and of the entries.
LEMMA RobinHoodSlots ==
  ASSUME RobinHoodInv
  PROVE  RobinHood!RobinHoodOrder
<1>1. CASE NoRows /\ table = << >>
  BY <1>1 DEF RobinHood!RobinHoodOrder
<1>2. CASE RobinHoodFilled
  <2>1. /\ capacity \in Nat \ {0} /\ DOMAIN table = Ring(capacity)
        /\ Ordered(capacity, hash, table) /\ Filled(capacity, hash, table)
    BY <1>2 DEF RobinHoodFilled, Filled
  <2>. SUFFICES ASSUME NEW s \in Ring(capacity), table[s].is_valid,
                       Away(capacity, hash, s, table[s]) > 0
                PROVE  /\ table[(s + capacity - 1) % capacity].is_valid
                       /\ Away(capacity, hash, (s + capacity - 1) % capacity,
                               table[(s + capacity - 1) % capacity])
                            >= Away(capacity, hash, s, table[s]) - 1
    BY <2>1, PslIsAway DEF RobinHood!RobinHoodOrder
  <2>2. (s + capacity - 1) % capacity = PrevSlot(capacity, s)
    BY <2>1, RingRemainders
  <2>3. Follows(capacity, hash, table, s, Away(capacity, hash, s, table[s]))
    BY <2>1 DEF Ordered
  <2>. QED
    BY <2>2, <2>3 DEF Follows
<1>. QED
  BY <1>1, <1>2 DEF RobinHoodInv

LEMMA RobinHoodNothingDropped ==
  ASSUME RobinHoodInv
  PROVE  RobinHood!NothingDropped
<1>. SUFFICES ASSUME index_phase = "insert", NEW n \in 1 .. inserted + 1
              PROVE  RobinHood!Cardinality({s \in DOMAIN table : table[s] = index_infos[n]})
                       + (IF current_info = index_infos[n] THEN 1 ELSE 0) = 1
  BY DEF RobinHood!NothingDropped
<1>. DEFINE places == {s \in DOMAIN table : table[s] = index_infos[n]}
<1>1. RobinHood!Cardinality(places) = Cardinality(places)
  BY DEF RobinHood!Cardinality, Cardinality
<1>2. Cardinality(places) + (IF current_info = index_infos[n] THEN 1 ELSE 0) = 1
  <2>1. /\ InHand(table, index_infos, inserted + 1, current_info)
        /\ \A m \in 1 .. inserted + 1 : index_infos[m].is_valid
    BY RobinHoodInserting DEF RobinHoodHand
  <2>. QED
    BY <2>1, NoneDropped
<1>. QED
  BY <1>1, <1>2

LEMMA RobinHoodTypes ==
  ASSUME RobinHoodInv
  PROVE  RobinHood!TypeOK
<1>1. RobinHood!IndexInfo = IndexInfo
  BY DEF RobinHood!IndexInfo, IndexInfo
<1>2. CASE NoRows /\ table = << >>
  BY <1>2 DEF NoRows, RobinHood!TypeOK
<1>3. CASE RobinHoodFilled
  <2>1. /\ capacity \in Nat \ {0} /\ table \in [0 .. capacity - 1 -> IndexInfo]
        /\ current_slot \in 0 .. capacity - 1 /\ index_phase \in {"insert", "ready"}
    BY <1>3 DEF RobinHoodFilled, Filled, Ring
  <2>2. Len(index_infos) \in Nat /\ Entries(index_infos)
    BY <1>3, InfosAreEntries DEF RobinHoodFilled, Grouped, Entries
  <2>3. Holds(table, index_infos, Len(index_infos))
    <3>1. CASE index_phase = "ready"
      BY <1>3, <3>1 DEF RobinHoodFilled, AllPlaced
    <3>2. CASE index_phase = "insert"
      <4>1. Holds(table, index_infos, inserted + 1) /\ inserted \in 0 .. Len(index_infos) - 1
        BY <1>3, <3>2 DEF RobinHoodFilled, RobinHoodHand, InHand
      <4>2. \A m \in 1 .. inserted + 1 : m \in 1 .. Len(index_infos)
        BY <2>2, <4>1
      <4>. QED
        BY <4>1, <4>2 DEF Holds
    <3>. QED
      BY <2>1, <3>1, <3>2
  <2>4. \A m \in 1 .. Len(index_infos) :
          index_infos[m].start_index + index_infos[m].count <= Len(storage)
    BY <1>3, InfosNameRows DEF RobinHoodFilled, Grouped, IndexOf
  <2>5. \A s \in DOMAIN table :
          table[s].is_valid => table[s].start_index + table[s].count <= Len(storage)
    BY <2>3, <2>4 DEF Holds
  <2>. QED
    BY <1>1, <2>1, <2>5 DEF RobinHood!TypeOK
<1>. QED
  BY <1>2, <1>3 DEF RobinHoodInv

LEMMA LeastExists ==
  ASSUME NEW S \in SUBSET Nat, S # {}
  PROVE  \E m \in S : \A n \in S : m <= n
<1>1. PICK m \in S : \A n \in S : ~(<<n, m>> \in OpToRel(<, Nat))
  BY NatLessThanWellFounded, WFMin
<1>2. \A n \in S : ~(n < m)
  BY <1>1 DEF OpToRel
<1>3. \A n \in S : m <= n
  BY <1>2
<1>. QED
  BY <1>3

LEMMA Least ==
  ASSUME NEW S \in SUBSET Nat, S # {}
  PROVE  (CHOOSE m \in S : \A n \in S : m <= n) \in S
BY LeastExists

LEMMA EmptyBucket ==
  ASSUME NoRows, NEW k
  PROVE  RowsOf(index_entries, k) = <<>>
<1>1. <<>> \in Seq(IndexRow) /\ Keys(<<>>) = {}
  BY DEF Keys
<1>. QED
  BY <1>1, RowsOfKey DEF NoRows

LEMMA RobinHoodProbe ==
  ASSUME RobinHoodInv, index_phase = "ready", NEW k \in IndexKey
  PROVE  Answers(RobinHood!Probe(k), k)
<1>1. CASE NoRows /\ table = << >>
  <2>1. RobinHood!Probe(k) = <<>>
    BY <1>1 DEF NoRows, RobinHood!Probe
  <2>. QED
    BY <1>1, <2>1, EmptyBucket DEF Answers
<1>2. CASE RobinHoodFilled
  <2>. DEFINE home == hash[k] % capacity
              at(d) == (home + d) % capacity
              stops(d) == ~table[at(d)].is_valid \/ d > Away(capacity, hash, at(d), table[at(d)])
              hits == {d \in 0 .. capacity - 1 :
                         table[at(d)].key = k /\ \A e \in 0 .. d : ~stops(e)}
              first == CHOOSE d \in hits : \A e \in hits : d <= e
  <2>1. /\ capacity \in Nat \ {0} /\ hash \in [IndexKey -> Nat]
        /\ Filled(capacity, hash, table) /\ Ordered(capacity, hash, table)
        /\ DOMAIN table = Ring(capacity)
        /\ AllPlaced(table, index_infos, Len(index_infos))
        /\ Grouped /\ IndexOf(index_entries, index_infos, Storage(index_entries))
    BY <1>2 DEF RobinHoodFilled, Filled, Grouped
  <2>2. home \in Ring(capacity)
    BY <2>1, HomeInRing
  <2>3. RobinHood!Probe(k) = IF hits = {} THEN <<>> ELSE Bucket(storage, table[at(first)])
    <3>1. \A d : RobinHood!Looked(k, d) = at(d)
      BY DEF RobinHood!Looked, RobinHood!find_home
    <3>2. \A d : RobinHood!Stops(at(d), d) <=> stops(d)
      BY PslIsAway DEF RobinHood!Stops
    <3>. HIDE DEF at, stops
    <3>3. RobinHood!Hits(k) = hits
      BY <3>1, <3>2 DEF RobinHood!Hits
    <3>4. \A info : RobinHood!Bucket(storage, info) = Bucket(storage, info)
      BY DEF RobinHood!Bucket, Bucket
    <3>5. capacity # 0
      BY <2>1
    <3>. HIDE DEF hits
    <3>. QED
      BY <3>1, <3>3, <3>4, <3>5 DEF RobinHood!Probe
  <2>4. \A d \in 0 .. capacity - 1 : at(d) = Ahead(capacity, home, d) /\ at(d) \in Ring(capacity)
    <3>. HIDE DEF home
    <3>. TAKE d \in 0 .. capacity - 1
    <3>1. d \in 0 .. capacity /\ d \in Ring(capacity)
      BY <2>1 DEF Ring
    <3>. QED
      BY <2>1, <2>2, <3>1, RingRemainders, RingDistance
  <2>. HIDE DEF home, at
  <2>5. ASSUME NEW d \in hits PROVE Answers(Bucket(storage, table[at(d)]), k)
    <3>1. d \in 0 .. capacity - 1 /\ d \in 0 .. d /\ table[at(d)].key = k
      BY <2>1
    <3>2. table[at(d)].is_valid
      BY <3>1
    <3>3. PICK m \in 1 .. Len(index_infos) : table[at(d)] = index_infos[m]
      BY <2>1, <2>4, <3>1, <3>2 DEF AllPlaced, Holds
    <3>. QED
      BY <2>1, <3>1, <3>3, BucketAnswers
  <2>6. ASSUME NEW m \in 1 .. Len(index_infos), index_infos[m].key = k PROVE hits # {}
    <3>1. PICK s \in Ring(capacity) : table[s] = index_infos[m]
      BY <2>1 DEF AllPlaced
    <3>2. table[s].is_valid /\ table[s].key = k
      BY <2>1, <2>6, <3>1 DEF IndexOf
    <3>. DEFINE d == Distance(capacity, home, s)
    <3>3. d \in 0 .. capacity - 1 /\ d \in Nat /\ at(d) = s
      <4>1. d \in Ring(capacity) /\ Ahead(capacity, home, d) = s
        BY <2>1, <2>2, RingDistance
      <4>. HIDE DEF d
      <4>2. d \in 0 .. capacity - 1 /\ d \in Nat
        BY <2>1, <4>1 DEF Ring
      <4>. QED
        BY <2>4, <4>1, <4>2
    <3>4. \A e \in 0 .. d : /\ table[Ahead(capacity, home, e)].is_valid
                            /\ e <= Away(capacity, hash, Ahead(capacity, home, e),
                                         table[Ahead(capacity, home, e)])
      BY <2>1, <3>2, ProbePath DEF home
    <3>. HIDE DEF d
    <3>5. \A e \in 0 .. d : ~stops(e)
      <4>. TAKE e \in 0 .. d
      <4>1. e \in 0 .. capacity - 1 /\ e \in Nat
        BY <2>1, <3>3
      <4>2. at(e) = Ahead(capacity, home, e) /\ at(e) \in Ring(capacity)
        BY <2>4, <4>1
      <4>3. table[at(e)].is_valid /\ e <= Away(capacity, hash, at(e), table[at(e)])
        BY <3>4, <4>2
      <4>4. Away(capacity, hash, at(e), table[at(e)]) \in Nat
        BY <2>1, <4>2, <4>3, AwayNext DEF Filled
      <4>. QED
        BY <4>1, <4>3, <4>4
    <3>6. d \in hits
      BY <3>2, <3>3, <3>5
    <3>. QED
      BY <3>6
  <2>7. hits # {} => first \in hits
    <3>1. hits \in SUBSET Nat
      BY <2>1
    <3>. HIDE DEF hits
    <3>. QED
      BY <3>1, Least
  <2>. HIDE DEF hits, first
  <2>8. CASE hits = {}
    BY <2>1, <2>3, <2>6, <2>8 DEF IndexOf, Answers
  <2>9. CASE hits # {}
    BY <2>3, <2>5, <2>7, <2>9
  <2>. QED
    BY <2>8, <2>9
<1>. QED
  BY <1>1, <1>2 DEF RobinHoodInv

-----------------------------------------------------------------------------
(* The invariant of the cuckoo tables.                                     *)

\* The slots of both tables.
Cells(cap, tbs) == [p \in (1 .. 2) \X Ring(cap) |-> tbs[p[1]][p[2]]]

AtHome(cap, h, tbs) ==
  \A t \in 1 .. 2 : \A s \in Ring(cap) :
    tbs[t][s].is_valid => tbs[t][s].key \in IndexKey /\ s = h[t][tbs[t][s].key] % cap

CuckooFilled ==
  /\ Grouped
  /\ index_phase \in {"insert", "ready", "threw"}
  /\ tables \in [1 .. 2 -> [Ring(capacity) -> IndexInfo]]
  /\ AtHome(capacity, hash, tables)
  /\ \A t \in 1 .. 2 : \A s \in Ring(capacity) : ~tables[t][s].is_valid => tables[t][s] = Free
  /\ index_phase = "insert" =>
       /\ inserted \in 0 .. Len(index_infos) - 1
       /\ InHand(Cells(capacity, tables), index_infos, inserted + 1, current_info)
  /\ index_phase = "ready" => AllPlaced(Cells(capacity, tables), index_infos, Len(index_infos))

CuckooInv ==
  /\ hash \in CuckooHash
  /\ turn \in 1 .. 2
  /\ displacements \in 0 .. MaxDisplacements
  /\ rehash_attempt \in 0 .. MaxRehashAttempts
  /\ index_phase # "threw" => rehash_attempt < MaxRehashAttempts
  /\ (NoRows /\ tables = <<<< >>, << >>>>) \/ CuckooFilled

LEMMA SameInCuckoo ==
  ASSUME NEW es
  PROVE  /\ Cuckoo!Infos(es) = Infos(es)
         /\ Cuckoo!Storage(es) = Storage(es)
<1>1. Cuckoo!KeyOrder(es) = KeyOrder(es)
  BY DEF Cuckoo!KeyOrder, KeyOrder, Cuckoo!Keys, Keys, Cuckoo!Cardinality, Cardinality
<1>2. \A k : Cuckoo!RowsOf(es, k) = RowsOf(es, k)
  BY DEF Cuckoo!RowsOf, RowsOf, Cuckoo!Kept, Kept, Cuckoo!Range, Range
<1>3. Cuckoo!Groups(es) = Groups(es)
  BY <1>1, <1>2 DEF Cuckoo!Groups, Groups
<1>4. Cuckoo!Storage(es) = Storage(es)
  BY <1>3 DEF Cuckoo!Storage, Storage, Cuckoo!Rows, Rows
<1>5. Cuckoo!Infos(es) = Infos(es)
  BY <1>1, <1>3 DEF Cuckoo!Infos, Infos, Cuckoo!StartOf, StartOf, Cuckoo!PageOffsets, PageOffsets
<1>. QED
  BY <1>4, <1>5

LEMMA CellAt ==
  ASSUME NEW cap, NEW tbs, NEW t \in 1 .. 2, NEW r \in Ring(cap)
  PROVE  <<t, r>> \in DOMAIN Cells(cap, tbs) /\ Cells(cap, tbs)[<<t, r>>] = tbs[t][r]
BY DEF Cells

LEMMA CellOf ==
  ASSUME NEW cap, NEW tbs, NEW p \in DOMAIN Cells(cap, tbs)
  PROVE  \E t \in 1 .. 2, r \in Ring(cap) : p = <<t, r>> /\ Cells(cap, tbs)[p] = tbs[t][r]
BY DEF Cells

\* An entry put into one of the tables.
Put(cells, p, info) == [cells EXCEPT ![p] = info]
Written(tbs, t, s, info) == [tbs EXCEPT ![t][s] = info]

LEMMA CellWritten ==
  ASSUME NEW cap, NEW tbs \in [1 .. 2 -> [Ring(cap) -> IndexInfo]],
         NEW t \in 1 .. 2, NEW s \in Ring(cap), NEW info \in IndexInfo
  PROVE  /\ Written(tbs, t, s, info) \in [1 .. 2 -> [Ring(cap) -> IndexInfo]]
         /\ Cells(cap, Written(tbs, t, s, info)) = Put(Cells(cap, tbs), <<t, s>>, info)
<1>1. /\ Written(tbs, t, s, info) \in [1 .. 2 -> [Ring(cap) -> IndexInfo]]
      /\ Written(tbs, t, s, info)[t][s] = info
      /\ \A u \in 1 .. 2 : \A r \in Ring(cap) :
           u # t \/ r # s => Written(tbs, t, s, info)[u][r] = tbs[u][r]
  BY DEF Written
<1>. DEFINE one == Cells(cap, Written(tbs, t, s, info))
            other == [Cells(cap, tbs) EXCEPT ![<<t, s>>] = info]
<1>3. one = [p \in (1 .. 2) \X Ring(cap) |-> one[p]] /\ other = [p \in (1 .. 2) \X Ring(cap) |-> other[p]]
  BY DEF Cells
<1>4. ASSUME NEW p \in (1 .. 2) \X Ring(cap) PROVE one[p] = other[p]
  <2>1. PICK u \in 1 .. 2, r \in Ring(cap) : p = <<u, r>>
    OBVIOUS
  <2>2. one[p] = Written(tbs, t, s, info)[u][r] /\ Cells(cap, tbs)[p] = tbs[u][r]
    BY <2>1 DEF Cells
  <2>3. other[p] = IF p = <<t, s>> THEN info ELSE Cells(cap, tbs)[p]
    BY DEF Cells
  <2>4. p = <<t, s>> <=> u = t /\ r = s
    BY <2>1
  <2>. QED
    BY <1>1, <2>2, <2>3, <2>4
<1>. HIDE DEF one, other
<1>5. one = other
  BY <1>3, <1>4
<1>. QED
  BY <1>1, <1>5 DEF one, other, Put

LEMMA CuckooInit == Cuckoo!Init => CuckooInv
<1>. SUFFICES ASSUME Cuckoo!Init PROVE CuckooInv
  OBVIOUS
<1>1. MaxDisplacements \in Nat /\ MaxRehashAttempts \in Nat \ {0}
  BY IndexAssumption
<1>2. 0 \in 0 .. MaxDisplacements /\ 0 \in 0 .. MaxRehashAttempts /\ 0 < MaxRehashAttempts /\ 1 \in 1 .. 2
  BY <1>1
<1>. QED
  BY <1>2 DEF Cuckoo!Init, CuckooInv, NoRows

\* Empty tables and the first entry, as a build starts and starts again.
CuckooStarts(infos, cap) ==
  /\ tables' = [t \in 1 .. 2 |-> [s \in 0 .. cap - 1 |-> Free]]
  /\ current_info' = infos[1] /\ inserted' = 0
  /\ turn' = 1 /\ displacements' = 0

LEMMA CuckooStarted ==
  ASSUME NEW infos, NEW cap \in Nat, Entries(infos), Len(infos) > 0, CuckooStarts(infos, cap),
         hash' \in CuckooHash
  PROVE  /\ tables' \in [1 .. 2 -> [Ring(cap) -> IndexInfo]]
         /\ AtHome(cap, hash', tables')
         /\ \A t \in 1 .. 2 : \A s \in Ring(cap) : tables'[t][s] = Free
         /\ inserted' \in 0 .. Len(infos) - 1
         /\ InHand(Cells(cap, tables'), infos, inserted' + 1, current_info')
         /\ turn' \in 1 .. 2 /\ displacements' \in 0 .. MaxDisplacements
<1>1. tables' = [t \in 1 .. 2 |-> [s \in Ring(cap) |-> Free]]
  BY DEF CuckooStarts, Ring
<1>2. \A t \in 1 .. 2 : \A s \in Ring(cap) : tables'[t][s] = Free
  BY <1>1
<1>3. tables' \in [1 .. 2 -> [Ring(cap) -> IndexInfo]]
  BY <1>1, FreeTyped
<1>4. AtHome(cap, hash', tables')
  BY <1>2, FreeTyped DEF AtHome
<1>. DEFINE cells == Cells(cap, tables')
<1>5. \A p \in DOMAIN cells : cells[p] = Free
  <2>1. \A p \in DOMAIN Cells(cap, tables') :
          \E t \in 1 .. 2, r \in Ring(cap) : p = <<t, r>> /\ Cells(cap, tables')[p] = tables'[t][r]
    BY CellOf
  <2>. QED
    BY <1>2, <2>1
<1>. HIDE DEF cells
<1>6. AllPlaced(cells, infos, 0)
  BY <1>5, FreeTyped DEF AllPlaced, Holds
<1>7. Len(infos) \in Nat
  BY DEF Entries
<1>8. InHand(cells, infos, 0 + 1, infos[0 + 1])
  BY <1>5, <1>6, <1>7, NextInHand
<1>9. 0 + 1 = 1 /\ 0 \in 0 .. Len(infos) - 1 /\ 1 \in 1 .. 2 /\ 0 \in 0 .. MaxDisplacements
  BY <1>7, IndexAssumption
<1>. QED
  BY <1>2, <1>3, <1>4, <1>8, <1>9 DEF CuckooStarts, cells

LEMMA CuckooBuild ==
  ASSUME CuckooInv, NEW es \in IndexLists, Cuckoo!Build(es)
  PROVE  CuckooInv'
<1>. DEFINE infos == Infos(es)
            cap == (20 * Len(infos) + 8) \div 9
<1>1. /\ es # <<>> /\ index_entries' = es
      /\ index_infos' = infos /\ storage' = storage \o Storage(es)
      /\ capacity' = cap /\ CuckooStarts(infos, cap)
      /\ index_phase' = "insert" /\ hash' = hash /\ rehash_attempt' = 0
  <2>1. /\ es # <<>> /\ index_entries' = es
        /\ index_infos' = Cuckoo!Infos(es) /\ storage' = storage \o Cuckoo!Storage(es)
        /\ capacity' = Cuckoo!InitialCapacity(Len(index_infos'))
        /\ tables' = Cuckoo!EmptyTables(capacity')
        /\ current_info' = index_infos'[1]
        /\ turn' = 1 /\ displacements' = 0 /\ inserted' = 1 - 1
        /\ index_phase' = "insert" /\ hash' = hash /\ rehash_attempt' = 0
    BY DEF Cuckoo!Build, Cuckoo!StartInfo
  <2>2. index_infos' = infos /\ storage' = storage \o Storage(es)
    BY <2>1, SameInCuckoo
  <2>. HIDE DEF infos
  <2>3. capacity' = cap
    BY <2>1, <2>2 DEF Cuckoo!InitialCapacity
  <2>4. tables' = [t \in 1 .. 2 |-> [s \in 0 .. cap - 1 |-> Free]]
    BY ONLY <2>1, <2>3 DEF Cuckoo!EmptyTables, Cuckoo!Free, Free
  <2>5. 1 - 1 = 0
    OBVIOUS
  <2>. HIDE DEF cap
  <2>. QED
    BY ONLY <2>1, <2>2, <2>3, <2>4, <2>5 DEF CuckooStarts
<1>2. /\ NoRows \/ Grouped
      /\ hash \in CuckooHash
      /\ 0 \in 0 .. MaxRehashAttempts /\ 0 < MaxRehashAttempts
  BY IndexAssumption DEF CuckooInv, CuckooFilled
<1>3. /\ IndexOf(es, infos, Storage(es)) /\ Entries(infos)
      /\ Len(infos) \in Nat /\ Len(infos) > 0 /\ Len(infos) <= Len(es)
      /\ storage \o Storage(es) \in Seq(IndexRow)
      /\ Len(Storage(es)) <= Len(storage \o Storage(es))
  BY <1>1, <1>2, GroupedNext, StorageGrows
<1>. HIDE DEF infos
<1>4. cap \in Nat /\ Len(infos) < cap
  <2>. DEFINE a == 20 * Len(infos) + 8
  <2>1. a \in Nat /\ a = 20 * Len(infos) + 8
    BY <1>3
  <2>. HIDE DEF a
  <2>2. a \div 9 \in Nat /\ a < 9 * (a \div 9) + 9
    BY <2>1, QuotientBounds
  <2>3. Len(infos) < a \div 9
    BY <1>3, <2>1, <2>2
  <2>. QED
    BY <1>3, <2>2, <2>3 DEF a
<1>. HIDE DEF cap
<1>5. /\ tables' \in [1 .. 2 -> [Ring(cap) -> IndexInfo]]
      /\ AtHome(cap, hash', tables')
      /\ \A t \in 1 .. 2 : \A s \in Ring(cap) : tables'[t][s] = Free
      /\ inserted' \in 0 .. Len(infos) - 1
      /\ InHand(Cells(cap, tables'), infos, inserted' + 1, current_info')
      /\ turn' \in 1 .. 2 /\ displacements' \in 0 .. MaxDisplacements
  BY <1>1, <1>2, <1>3, <1>4, CuckooStarted
<1>6. Grouped'
  BY <1>1, <1>3, <1>4 DEF Grouped
<1>7. CuckooFilled'
  BY <1>1, <1>5, <1>6 DEF CuckooFilled
<1>. QED
  BY <1>1, <1>2, <1>5, <1>7 DEF CuckooInv

LEMMA CuckooBuildNothing ==
  ASSUME CuckooInv, Cuckoo!BuildNothing
  PROVE  CuckooInv'
<1>1. /\ 0 \in 0 .. MaxDisplacements /\ 1 \in 1 .. 2
      /\ 0 \in 0 .. MaxRehashAttempts /\ 0 < MaxRehashAttempts
  BY IndexAssumption
<1>. QED
  BY <1>1 DEF CuckooInv, Cuckoo!BuildNothing, NoRows

\* What holds while entries are inserted.
LEMMA CuckooInserting ==
  ASSUME CuckooInv, index_phase = "insert"
  PROVE  /\ CuckooFilled
         /\ capacity \in Nat \ {0} /\ hash \in CuckooHash
         /\ Entries(index_infos) /\ Len(index_infos) \in Nat
         /\ inserted \in Nat /\ inserted + 1 \in 1 .. Len(index_infos)
         /\ InHand(Cells(capacity, tables), index_infos, inserted + 1, current_info)
         /\ current_info \in IndexInfo /\ current_info.is_valid /\ current_info.key \in IndexKey
         /\ \A m \in 1 .. inserted + 1 : index_infos[m].is_valid
         /\ turn \in 1 .. 2 /\ Cuckoo!Slot \in Ring(capacity)
         /\ Cuckoo!Slot = hash[turn][current_info.key] % capacity
<1>1. CuckooFilled /\ hash \in CuckooHash /\ turn \in 1 .. 2
  BY DEF CuckooInv, NoRows
<1>2. Entries(index_infos) /\ Len(index_infos) \in Nat /\ capacity \in Nat \ {0}
  BY <1>1, InfosAreEntries DEF CuckooFilled, Grouped, Entries
<1>3. inserted \in Nat /\ inserted + 1 \in 1 .. Len(index_infos)
  BY <1>1, <1>2 DEF CuckooFilled
<1>4. \A m \in 1 .. inserted + 1 : m \in 1 .. Len(index_infos)
  BY <1>2, <1>3
<1>5. InHand(Cells(capacity, tables), index_infos, inserted + 1, current_info)
  BY <1>1 DEF CuckooFilled
<1>6. \E m \in 1 .. inserted + 1 : current_info = index_infos[m]
  BY <1>5 DEF InHand
<1>7. \A m \in 1 .. Len(index_infos) :
        index_infos[m] \in IndexInfo /\ index_infos[m].is_valid /\ index_infos[m].key \in IndexKey
  BY <1>2 DEF Entries
<1>8. current_info \in IndexInfo /\ current_info.is_valid /\ current_info.key \in IndexKey
  BY <1>4, <1>6, <1>7
<1>9. hash[turn] \in [IndexKey -> Nat]
  BY <1>1, IndexAssumption
<1>10. Cuckoo!Slot = hash[turn][current_info.key] % capacity
  BY DEF Cuckoo!Slot, Cuckoo!find_home
<1>11. hash[turn][current_info.key] % capacity \in Ring(capacity)
  BY <1>2, <1>8, <1>9, HomeInRing
<1>. QED
  BY <1>1, <1>2, <1>3, <1>4, <1>5, <1>7, <1>8, <1>10, <1>11

LEMMA CuckooPlace ==
  ASSUME CuckooInv, Cuckoo!Place
  PROVE  CuckooInv'
<1>. DEFINE slot == Cuckoo!Slot
            new == Written(tables, turn, slot, current_info)
            n == inserted + 1
            old == Cells(capacity, tables)
            placed == Cells(capacity, new)
<1>1. /\ index_phase = "insert" /\ ~tables[turn][slot].is_valid /\ tables' = new
      /\ UNCHANGED <<hash, index_entries, index_infos, capacity, storage, rehash_attempt>>
  BY DEF Cuckoo!Place, Cuckoo!SlotIsFree, Written
<1>2. /\ CuckooFilled
      /\ capacity \in Nat \ {0} /\ hash \in CuckooHash
      /\ Entries(index_infos) /\ Len(index_infos) \in Nat
      /\ inserted \in Nat /\ n \in 1 .. Len(index_infos)
      /\ InHand(old, index_infos, n, current_info)
      /\ current_info \in IndexInfo /\ current_info.is_valid /\ current_info.key \in IndexKey
      /\ \A m \in 1 .. n : index_infos[m].is_valid
      /\ turn \in 1 .. 2 /\ slot \in Ring(capacity)
      /\ slot = hash[turn][current_info.key] % capacity
  BY <1>1, CuckooInserting
<1>3. /\ tables \in [1 .. 2 -> [Ring(capacity) -> IndexInfo]]
      /\ AtHome(capacity, hash, tables)
      /\ \A t \in 1 .. 2 : \A s \in Ring(capacity) : ~tables[t][s].is_valid => tables[t][s] = Free
      /\ Grouped
  BY <1>2 DEF CuckooFilled
<1>. HIDE DEF slot
<1>4. /\ new \in [1 .. 2 -> [Ring(capacity) -> IndexInfo]]
      /\ new[turn][slot] = current_info
      /\ \A u \in 1 .. 2 : \A r \in Ring(capacity) :
           u # turn \/ r # slot => new[u][r] = tables[u][r]
      /\ placed = Put(old, <<turn, slot>>, current_info)
  <2>1. /\ tables \in [1 .. 2 -> [Ring(capacity) -> IndexInfo]] /\ turn \in 1 .. 2
        /\ slot \in Ring(capacity) /\ current_info \in IndexInfo
    BY <1>2, <1>3
  <2>2. new \in [1 .. 2 -> [Ring(capacity) -> IndexInfo]]
    BY ONLY <2>1, CellWritten
  <2>3. new[turn][slot] = current_info
    BY ONLY <2>1 DEF Written
  <2>4. \A u \in 1 .. 2 : \A r \in Ring(capacity) : u # turn \/ r # slot => new[u][r] = tables[u][r]
    BY ONLY <2>1 DEF Written
  <2>5. Cells(capacity, new) = Put(old, <<turn, slot>>, current_info)
    BY ONLY <2>1, CellWritten
  <2>. QED
    BY ONLY <2>2, <2>3, <2>4, <2>5
<1>. HIDE DEF new
<1>5. AllPlaced(placed, index_infos, n)
  <2>2. turn \in 1 .. 2 /\ slot \in Ring(capacity)
    BY <1>2
  <2>1. <<turn, slot>> \in DOMAIN old /\ old[<<turn, slot>>] = tables[turn][slot]
    BY ONLY <2>2, CellAt
  <2>. HIDE DEF old, placed
  <2>. QED
    BY <1>1, <1>2, <1>4, <2>1, HandPlaced DEF Put
<1>6. /\ AtHome(capacity, hash, new)
      /\ \A t \in 1 .. 2 : \A s \in Ring(capacity) : ~new[t][s].is_valid => new[t][s] = Free
  <2>1. ASSUME NEW t \in 1 .. 2, NEW s \in Ring(capacity)
        PROVE  /\ new[t][s].is_valid =>
                    new[t][s].key \in IndexKey /\ s = hash[t][new[t][s].key] % capacity
               /\ ~new[t][s].is_valid => new[t][s] = Free
    <3>1. CASE t = turn /\ s = slot
      <4>1. new[t][s] = current_info
        BY ONLY <1>4, <3>1
      <4>. QED
        BY ONLY <1>2, <3>1, <4>1
    <3>2. CASE t # turn \/ s # slot
      <4>1. new[t][s] = tables[t][s]
        BY ONLY <1>4, <2>1, <3>2
      <4>. QED
        BY ONLY <1>3, <2>1, <4>1 DEF AtHome
    <3>. QED
      BY ONLY <3>1, <3>2
  <2>. QED
    BY ONLY <2>1 DEF AtHome
<1>7. \A p \in DOMAIN placed : ~placed[p].is_valid => placed[p] = Free
  <2>1. \A p \in DOMAIN placed :
          \E t \in 1 .. 2, r \in Ring(capacity) : p = <<t, r>> /\ placed[p] = new[t][r]
    BY CellOf
  <2>. QED
    BY <1>6, <2>1
<1>8. Grouped' /\ hash' \in CuckooHash
  BY <1>1, <1>2, <1>3 DEF Grouped
<1>9. Cells(capacity', tables') = placed
  BY <1>1
<1>10. 1 \in 1 .. 2 /\ 0 \in 0 .. MaxDisplacements
  BY IndexAssumption
<1>. HIDE DEF placed, old
<1>11. CASE n < Len(index_infos)
  <2>1. /\ current_info' = index_infos[n + 1] /\ turn' = 1 /\ displacements' = 0
        /\ inserted' = n /\ index_phase' = "insert"
    <3>1. Cuckoo!StartInfo(index_infos, inserted + 2) /\ UNCHANGED index_phase
      BY <1>11 DEF Cuckoo!Place
    <3>2. inserted + 2 = n + 1 /\ (n + 1) - 1 = n
      BY <1>2
    <3>3. Cuckoo!StartInfo(index_infos, n + 1)
      BY ONLY <3>1, <3>2
    <3>4. /\ current_info' = index_infos[n + 1] /\ turn' = 1 /\ displacements' = 0
          /\ inserted' = (n + 1) - 1
      <4>. HIDE DEF n
      <4>. QED
        BY ONLY <3>3 DEF Cuckoo!StartInfo
    <3>. QED
      BY ONLY <1>1, <3>1, <3>2, <3>4
  <2>2. InHand(placed, index_infos, n + 1, index_infos[n + 1])
    BY <1>2, <1>5, <1>7, <1>11, NextInHand
  <2>3. n \in 0 .. Len(index_infos) - 1
    BY <1>2, <1>11
  <2>. HIDE DEF n
  <2>4. CuckooFilled'
    BY <1>1, <1>4, <1>6, <1>8, <1>9, <2>1, <2>2, <2>3 DEF CuckooFilled
  <2>. QED
    BY <1>1, <1>8, <1>10, <2>1, <2>4 DEF CuckooInv
<1>12. CASE ~(n < Len(index_infos))
  <2>1. index_phase' = "ready" /\ UNCHANGED <<turn, displacements>>
    BY <1>12 DEF Cuckoo!Place
  <2>2. n = Len(index_infos)
    BY <1>2, <1>12
  <2>. HIDE DEF n
  <2>3. CuckooFilled'
    BY <1>1, <1>4, <1>5, <1>6, <1>8, <1>9, <2>1, <2>2 DEF CuckooFilled
  <2>. QED
    BY <1>1, <1>8, <2>1, <2>3 DEF CuckooInv
<1>. QED
  BY <1>11, <1>12

LEMMA CuckooDisplace ==
  ASSUME CuckooInv, Cuckoo!Displace
  PROVE  CuckooInv'
<1>. DEFINE slot == Cuckoo!Slot
            new == Written(tables, turn, slot, current_info)
            thrown == tables[turn][slot]
            n == inserted + 1
            old == Cells(capacity, tables)
            swapped == Cells(capacity, new)
<1>1. /\ index_phase = "insert" /\ thrown.is_valid /\ tables' = new /\ current_info' = thrown
      /\ turn' = 3 - turn
      /\ displacements < MaxDisplacements
      /\ displacements' = IF turn = 2 THEN displacements + 1 ELSE displacements
      /\ UNCHANGED <<hash, index_entries, index_infos, index_phase, capacity, storage, inserted,
                     rehash_attempt>>
  BY DEF Cuckoo!Displace, Cuckoo!SlotIsFree, Cuckoo!OtherTable, Cuckoo!MayTry, Written
<1>2. /\ CuckooFilled
      /\ capacity \in Nat \ {0} /\ hash \in CuckooHash
      /\ Entries(index_infos) /\ Len(index_infos) \in Nat
      /\ inserted \in Nat /\ n \in 1 .. Len(index_infos)
      /\ InHand(old, index_infos, n, current_info)
      /\ current_info \in IndexInfo /\ current_info.is_valid /\ current_info.key \in IndexKey
      /\ turn \in 1 .. 2 /\ slot \in Ring(capacity)
      /\ slot = hash[turn][current_info.key] % capacity
  BY <1>1, CuckooInserting
<1>3. /\ tables \in [1 .. 2 -> [Ring(capacity) -> IndexInfo]]
      /\ AtHome(capacity, hash, tables)
      /\ \A t \in 1 .. 2 : \A s \in Ring(capacity) : ~tables[t][s].is_valid => tables[t][s] = Free
      /\ Grouped
      /\ inserted \in 0 .. Len(index_infos) - 1
  BY <1>1, <1>2 DEF CuckooFilled
<1>. HIDE DEF slot
<1>4. /\ new \in [1 .. 2 -> [Ring(capacity) -> IndexInfo]]
      /\ new[turn][slot] = current_info
      /\ \A u \in 1 .. 2 : \A r \in Ring(capacity) :
           u # turn \/ r # slot => new[u][r] = tables[u][r]
      /\ swapped = Put(old, <<turn, slot>>, current_info)
  <2>1. /\ tables \in [1 .. 2 -> [Ring(capacity) -> IndexInfo]] /\ turn \in 1 .. 2
        /\ slot \in Ring(capacity) /\ current_info \in IndexInfo
    BY <1>2, <1>3
  <2>2. new \in [1 .. 2 -> [Ring(capacity) -> IndexInfo]]
    BY ONLY <2>1, CellWritten
  <2>3. new[turn][slot] = current_info
    BY ONLY <2>1 DEF Written
  <2>4. \A u \in 1 .. 2 : \A r \in Ring(capacity) : u # turn \/ r # slot => new[u][r] = tables[u][r]
    BY ONLY <2>1 DEF Written
  <2>5. Cells(capacity, new) = Put(old, <<turn, slot>>, current_info)
    BY ONLY <2>1, CellWritten
  <2>. QED
    BY ONLY <2>2, <2>3, <2>4, <2>5
<1>. HIDE DEF new
<1>5. InHand(swapped, index_infos, n, thrown)
  <2>2. turn \in 1 .. 2 /\ slot \in Ring(capacity)
    BY <1>2
  <2>1. <<turn, slot>> \in DOMAIN old /\ old[<<turn, slot>>] = thrown
    BY ONLY <2>2, CellAt
  <2>. HIDE DEF old, swapped, thrown
  <2>. QED
    BY <1>1, <1>2, <1>4, <2>1, HandSwapped DEF Put
<1>6. /\ AtHome(capacity, hash, new)
      /\ \A t \in 1 .. 2 : \A s \in Ring(capacity) : ~new[t][s].is_valid => new[t][s] = Free
  <2>1. ASSUME NEW t \in 1 .. 2, NEW s \in Ring(capacity)
        PROVE  /\ new[t][s].is_valid =>
                    new[t][s].key \in IndexKey /\ s = hash[t][new[t][s].key] % capacity
               /\ ~new[t][s].is_valid => new[t][s] = Free
    <3>1. CASE t = turn /\ s = slot
      <4>1. new[t][s] = current_info
        BY ONLY <1>4, <3>1
      <4>. QED
        BY ONLY <1>2, <3>1, <4>1
    <3>2. CASE t # turn \/ s # slot
      <4>1. new[t][s] = tables[t][s]
        BY ONLY <1>4, <2>1, <3>2
      <4>. QED
        BY ONLY <1>3, <2>1, <4>1 DEF AtHome
    <3>. QED
      BY ONLY <3>1, <3>2
  <2>. QED
    BY ONLY <2>1 DEF AtHome
<1>7. Grouped' /\ hash' \in CuckooHash
  BY <1>1, <1>2, <1>3 DEF Grouped
<1>8. Cells(capacity', tables') = swapped
  BY <1>1
<1>. HIDE DEF swapped, old, thrown
<1>9. CuckooFilled'
  BY <1>1, <1>3, <1>4, <1>5, <1>6, <1>7, <1>8 DEF CuckooFilled
<1>10. turn' \in 1 .. 2 /\ displacements' \in 0 .. MaxDisplacements
  <2>1. displacements \in 0 .. MaxDisplacements /\ MaxDisplacements \in Nat
    BY IndexAssumption DEF CuckooInv
  <2>. QED
    BY <1>1, <1>2, <2>1
<1>. QED
  BY <1>1, <1>7, <1>9, <1>10 DEF CuckooInv

LEMMA CuckooRehash ==
  ASSUME CuckooInv, Cuckoo!Rehash
  PROVE  CuckooInv'
<1>. DEFINE cap == capacity * 2 + 1
<1>1. /\ index_phase = "insert" /\ rehash_attempt' = rehash_attempt + 1
      /\ UNCHANGED <<hash, index_entries, index_infos, storage>>
  BY DEF Cuckoo!Rehash, Cuckoo!GivesUp
<1>2. /\ CuckooFilled
      /\ capacity \in Nat \ {0} /\ hash \in CuckooHash
      /\ Entries(index_infos) /\ Len(index_infos) \in Nat /\ Len(index_infos) > 0
      /\ turn \in 1 .. 2 /\ displacements \in 0 .. MaxDisplacements
      /\ rehash_attempt \in 0 .. MaxRehashAttempts /\ rehash_attempt < MaxRehashAttempts
      /\ MaxRehashAttempts \in Nat
  BY <1>1, CuckooInserting, IndexAssumption DEF CuckooInv
<1>3. rehash_attempt' \in 0 .. MaxRehashAttempts
  BY <1>1, <1>2
<1>4. CASE rehash_attempt' < MaxRehashAttempts
  <2>1. CuckooStarts(index_infos, cap) /\ capacity' = cap /\ index_phase' = index_phase
    <3>1. /\ capacity' = cap /\ tables' = Cuckoo!EmptyTables(cap)
          /\ current_info' = index_infos[1] /\ turn' = 1 /\ displacements' = 0 /\ inserted' = 1 - 1
          /\ index_phase' = index_phase
      BY <1>4 DEF Cuckoo!Rehash, Cuckoo!StartInfo
    <3>. HIDE DEF cap
    <3>2. tables' = [t \in 1 .. 2 |-> [s \in 0 .. cap - 1 |-> Free]]
      BY ONLY <3>1 DEF Cuckoo!EmptyTables, Cuckoo!Free, Free
    <3>3. 1 - 1 = 0
      OBVIOUS
    <3>. QED
      BY ONLY <3>1, <3>2, <3>3 DEF CuckooStarts
  <2>2. cap \in Nat /\ Len(index_infos) < cap
    BY <1>2 DEF CuckooFilled, Grouped
  <2>. HIDE DEF cap
  <2>3. hash' \in CuckooHash /\ hash' = hash
    BY <1>1, <1>2
  <2>4. /\ tables' \in [1 .. 2 -> [Ring(cap) -> IndexInfo]]
        /\ AtHome(cap, hash', tables')
        /\ \A t \in 1 .. 2 : \A s \in Ring(cap) : tables'[t][s] = Free
        /\ inserted' \in 0 .. Len(index_infos) - 1
        /\ InHand(Cells(cap, tables'), index_infos, inserted' + 1, current_info')
        /\ turn' \in 1 .. 2 /\ displacements' \in 0 .. MaxDisplacements
    BY <1>2, <2>1, <2>2, <2>3, CuckooStarted
  <2>5. Grouped'
    BY <1>1, <1>2, <2>1, <2>2 DEF CuckooFilled, Grouped
  <2>6. CuckooFilled'
    BY <1>1, <2>1, <2>4, <2>5 DEF CuckooFilled
  <2>. QED
    BY <1>3, <1>4, <2>3, <2>4, <2>6 DEF CuckooInv
<1>5. CASE ~(rehash_attempt' < MaxRehashAttempts)
  <2>1. /\ index_phase' = "threw"
        /\ UNCHANGED <<capacity, tables, inserted, current_info, turn, displacements>>
    BY <1>5 DEF Cuckoo!Rehash
  <2>2. CuckooFilled'
    BY <1>1, <1>2, <2>1 DEF CuckooFilled, Grouped
  <2>. QED
    BY <1>1, <1>2, <1>3, <2>1, <2>2 DEF CuckooInv
<1>. QED
  BY <1>4, <1>5

LEMMA CuckooStep ==
  ASSUME CuckooInv, Cuckoo!Next
  PROVE  CuckooInv'
<1>1. ASSUME NEW es \in IndexLists, Cuckoo!Build(es) PROVE CuckooInv'
  BY <1>1, CuckooBuild
<1>. QED
  BY <1>1, CuckooBuildNothing, CuckooPlace, CuckooDisplace, CuckooRehash DEF Cuckoo!Next

LEMMA PairOf ==
  ASSUME NEW S, NEW a \in S, NEW b \in S
  PROVE  <<a, b>> \in [1 .. 2 -> S]
<1>1. DOMAIN <<a, b>> = 1 .. 2 /\ <<a, b>>[1] = a /\ <<a, b>>[2] = b
  OBVIOUS
<1>2. <<a, b>> = [t \in 1 .. 2 |-> <<a, b>>[t]]
  OBVIOUS
<1>3. \A t \in 1 .. 2 : <<a, b>>[t] \in S
  BY <1>1
<1>. QED
  BY <1>2, <1>3

LEMMA CuckooTypes ==
  ASSUME CuckooInv
  PROVE  Cuckoo!TypeOK
<1>1. Cuckoo!IndexInfo = IndexInfo
  BY DEF Cuckoo!IndexInfo, IndexInfo
<1>2. CASE NoRows /\ tables = <<<< >>, << >>>>
  <2>1. tables \in [1 .. 2 -> [0 .. capacity - 1 -> IndexInfo]]
    <3>1. 0 .. capacity - 1 = {}
      BY <1>2 DEF NoRows
    <3>2. << >> \in [0 .. capacity - 1 -> IndexInfo]
      BY <3>1
    <3>. DEFINE S == [0 .. capacity - 1 -> IndexInfo]
    <3>. HIDE DEF S
    <3>3. <<<< >>, << >>>> \in [1 .. 2 -> S]
      BY ONLY <3>2, PairOf DEF S
    <3>. QED
      BY ONLY <1>2, <3>3 DEF S
  <2>. QED
    BY <1>1, <1>2, <2>1 DEF CuckooInv, NoRows, Cuckoo!TypeOK
<1>3. CASE CuckooFilled
  BY <1>1, <1>3 DEF CuckooInv, CuckooFilled, Ring, Cuckoo!TypeOK
<1>. QED
  BY <1>2, <1>3 DEF CuckooInv

LEMMA CuckooHomes ==
  ASSUME CuckooInv
  PROVE  Cuckoo!InHome
<1>1. CASE NoRows /\ tables = <<<< >>, << >>>>
  <2>1. \A t \in 1 .. 2 : DOMAIN tables[t] = {}
    BY <1>1
  <2>. QED
    BY <2>1 DEF Cuckoo!InHome
<1>2. CASE CuckooFilled
  <2>1. tables \in [1 .. 2 -> [Ring(capacity) -> IndexInfo]] /\ AtHome(capacity, hash, tables)
    BY <1>2 DEF CuckooFilled
  <2>2. \A t \in 1 .. 2 : DOMAIN tables[t] = Ring(capacity)
    BY <2>1
  <2>. QED
    BY <2>1, <2>2 DEF AtHome, Cuckoo!InHome, Cuckoo!find_home
<1>. QED
  BY <1>1, <1>2 DEF CuckooInv

LEMMA CuckooNothingDropped ==
  ASSUME CuckooInv
  PROVE  Cuckoo!NothingDropped
<1>. SUFFICES ASSUME index_phase = "insert", NEW n \in 1 .. inserted + 1
              PROVE  Cuckoo!Cardinality({p \in (1 .. 2) \X (0 .. capacity - 1) :
                                           tables[p[1]][p[2]] = index_infos[n]})
                       + (IF current_info = index_infos[n] THEN 1 ELSE 0) = 1
  BY DEF Cuckoo!NothingDropped
<1>. DEFINE cells == Cells(capacity, tables)
            places == {p \in DOMAIN cells : cells[p] = index_infos[n]}
<1>1. {p \in (1 .. 2) \X (0 .. capacity - 1) : tables[p[1]][p[2]] = index_infos[n]} = places
  BY DEF Cells, Ring
<1>2. Cuckoo!Cardinality(places) = Cardinality(places)
  BY DEF Cuckoo!Cardinality, Cardinality
<1>. HIDE DEF cells
<1>3. Cardinality(places) + (IF current_info = index_infos[n] THEN 1 ELSE 0) = 1
  <2>1. /\ InHand(cells, index_infos, inserted + 1, current_info)
        /\ \A m \in 1 .. inserted + 1 : index_infos[m].is_valid
    BY CuckooInserting DEF cells
  <2>. QED
    BY <2>1, NoneDropped
<1>. HIDE DEF places
<1>. QED
  BY <1>1, <1>2, <1>3

LEMMA CuckooProbe ==
  ASSUME CuckooInv, index_phase = "ready", NEW k \in IndexKey
  PROVE  Answers(Cuckoo!Probe(k), k)
<1>. DEFINE at(t) == tables[t][hash[t][k] % capacity]
            found == {t \in 1 .. 2 : capacity > 0 /\ at(t).is_valid /\ at(t).key = k}
            first == IF 1 \in found THEN 1 ELSE 2
<1>1. Cuckoo!Probe(k) = IF found = {} THEN <<>> ELSE Bucket(storage, at(first))
  BY DEF Cuckoo!Probe, Cuckoo!find_home, Cuckoo!Bucket, Bucket
<1>2. CASE NoRows /\ tables = <<<< >>, << >>>>
  <2>1. found = {}
    BY <1>2 DEF NoRows
  <2>. QED
    BY <1>1, <1>2, <2>1, EmptyBucket DEF Answers
<1>3. CASE CuckooFilled
  <2>1. /\ capacity \in Nat \ {0} /\ hash \in CuckooHash
        /\ AtHome(capacity, hash, tables)
        /\ AllPlaced(Cells(capacity, tables), index_infos, Len(index_infos))
        /\ Grouped /\ IndexOf(index_entries, index_infos, Storage(index_entries))
    BY <1>3 DEF CuckooInv, CuckooFilled, Grouped, IndexOf
  <2>2. \A t \in 1 .. 2 : hash[t][k] % capacity \in Ring(capacity)
    <3>. TAKE t \in 1 .. 2
    <3>1. hash[t] \in [IndexKey -> Nat]
      BY <2>1, IndexAssumption
    <3>. QED
      BY <2>1, <3>1, HomeInRing
  <2>3. ASSUME NEW t \in found PROVE Answers(Bucket(storage, at(t)), k)
    <3>1. t \in 1 .. 2 /\ at(t).is_valid /\ at(t).key = k
      OBVIOUS
    <3>. DEFINE p == <<t, hash[t][k] % capacity>>
    <3>2. p \in DOMAIN Cells(capacity, tables) /\ Cells(capacity, tables)[p] = at(t)
      BY <2>2, <3>1, CellAt
    <3>. HIDE DEF at, p, found
    <3>3. PICK m \in 1 .. Len(index_infos) : at(t) = index_infos[m]
      BY <2>1, <3>1, <3>2 DEF AllPlaced, Holds
    <3>. QED
      BY <2>1, <3>1, <3>3, BucketAnswers
  <2>4. ASSUME NEW m \in 1 .. Len(index_infos), index_infos[m].key = k PROVE found # {}
    <3>1. PICK p \in DOMAIN Cells(capacity, tables) : Cells(capacity, tables)[p] = index_infos[m]
      BY <2>1 DEF AllPlaced
    <3>2. PICK t \in 1 .. 2, r \in Ring(capacity) : tables[t][r] = index_infos[m]
      BY <3>1, CellOf
    <3>3. tables[t][r].is_valid /\ tables[t][r].key = k
      BY <2>1, <2>4, <3>2 DEF IndexOf
    <3>4. r = hash[t][k] % capacity
      BY <2>1, <3>3 DEF AtHome
    <3>5. capacity > 0
      BY <2>1
    <3>. QED
      BY <3>3, <3>4, <3>5
  <2>5. found # {} => first \in found
    OBVIOUS
  <2>. HIDE DEF found, first, at
  <2>6. CASE found = {}
    BY <1>1, <2>1, <2>4, <2>6 DEF IndexOf, Answers
  <2>7. CASE found # {}
    BY <1>1, <2>3, <2>5, <2>7
  <2>. QED
    BY <2>6, <2>7
<1>. QED
  BY <1>2, <1>3 DEF CuckooInv

-----------------------------------------------------------------------------
(* The invariant of the hopscotch table.                                   *)

\* The bitmaps name the slots of the entries by their distance from the home.
Named(cap, h, tb, hm) ==
  \A s, slot \in Ring(cap) :
    Distance(cap, s, slot) \in hm[s] <=> tb[slot].is_valid /\ h[tb[slot].key] % cap = s

Mapped(cap, h, tb, hm) ==
  /\ tb \in [Ring(cap) -> IndexInfo]
  /\ hm \in [Ring(cap) -> SUBSET (0 .. NeighborhoodSize - 1)]
  /\ \A s \in Ring(cap) : tb[s].is_valid => tb[s].key \in IndexKey
  /\ \A s \in Ring(cap) : ~tb[s].is_valid => tb[s] = Free
  /\ Named(cap, h, tb, hm)

HopscotchFilled ==
  /\ Grouped /\ storage = Storage(index_entries)
  /\ NeighborhoodSize <= capacity
  /\ index_phase \in {"seek", "move", "ready"}
  /\ Mapped(capacity, hash, table, hop_map)
  /\ AllPlaced(table, index_infos, inserted)
  /\ empty_slot \in Ring(capacity)
  /\ inserted \in 0 .. Len(index_infos)
  /\ index_phase \in {"seek", "move"} => inserted < Len(index_infos)
  /\ index_phase = "move" => ~table[empty_slot].is_valid
  /\ index_phase = "ready" => inserted = Len(index_infos)

HopscotchInv ==
  /\ hash \in HopscotchHash
  /\ (NoRows /\ table = << >> /\ hop_map = << >> /\ inserted = 0) \/ HopscotchFilled

LEMMA SameInHopscotch ==
  ASSUME NEW es
  PROVE  /\ Hopscotch!Infos(es) = Infos(es)
         /\ Hopscotch!Storage(es) = Storage(es)
<1>1. Hopscotch!KeyOrder(es) = KeyOrder(es)
  BY DEF Hopscotch!KeyOrder, KeyOrder, Hopscotch!Keys, Keys, Hopscotch!Cardinality, Cardinality
<1>2. \A k : Hopscotch!RowsOf(es, k) = RowsOf(es, k)
  BY DEF Hopscotch!RowsOf, RowsOf, Hopscotch!Kept, Kept, Hopscotch!Range, Range
<1>3. Hopscotch!Groups(es) = Groups(es)
  BY <1>1, <1>2 DEF Hopscotch!Groups, Groups
<1>4. Hopscotch!Storage(es) = Storage(es)
  BY <1>3 DEF Hopscotch!Storage, Storage, Hopscotch!Rows, Rows
<1>5. Hopscotch!Infos(es) = Infos(es)
  BY <1>1, <1>3 DEF Hopscotch!Infos, Infos, Hopscotch!StartOf, StartOf,
                    Hopscotch!PageOffsets, PageOffsets
<1>. QED
  BY <1>4, <1>5

\* Slots at the same distance from a home are the same.
LEMMA DistanceInjective ==
  ASSUME NEW cap \in Nat \ {0}, NEW home \in Ring(cap), NEW s \in Ring(cap), NEW t \in Ring(cap),
         Distance(cap, home, s) = Distance(cap, home, t)
  PROVE  s = t
BY RingDistance

\* An entry enters a free slot in the neighbourhood of its home.
LEMMA EntryEnters ==
  ASSUME NEW cap \in Nat \ {0}, NEW h \in [IndexKey -> Nat], NEW tb, NEW hm, Mapped(cap, h, tb, hm),
         NEW e \in Ring(cap), ~tb[e].is_valid,
         NEW info \in IndexInfo, info.is_valid, info.key \in IndexKey,
         NEW home \in Ring(cap), home = h[info.key] % cap,
         Distance(cap, home, e) \in 0 .. NeighborhoodSize - 1
  PROVE  Mapped(cap, h, [tb EXCEPT ![e] = info],
                        [hm EXCEPT ![home] = @ \union {Distance(cap, home, e)}])
<1>. DEFINE off == Distance(cap, home, e)
            new == [tb EXCEPT ![e] = info]
            map == [hm EXCEPT ![home] = @ \union {off}]
<1>1. /\ tb \in [Ring(cap) -> IndexInfo]
      /\ hm \in [Ring(cap) -> SUBSET (0 .. NeighborhoodSize - 1)]
      /\ \A s \in Ring(cap) : tb[s].is_valid => tb[s].key \in IndexKey
      /\ \A s \in Ring(cap) : ~tb[s].is_valid => tb[s] = Free
      /\ Named(cap, h, tb, hm)
  BY DEF Mapped
<1>2. new \in [Ring(cap) -> IndexInfo] /\ new[e] = info /\ \A s \in Ring(cap) : s # e => new[s] = tb[s]
  BY <1>1
<1>. HIDE DEF off
<1>3. off \in 0 .. NeighborhoodSize - 1
  BY DEF off
<1>4. /\ map \in [Ring(cap) -> SUBSET (0 .. NeighborhoodSize - 1)]
      /\ map[home] = hm[home] \union {off} /\ \A s \in Ring(cap) : s # home => map[s] = hm[s]
  BY <1>1, <1>3
<1>. HIDE DEF new, map
<1>5. ASSUME NEW s \in Ring(cap), NEW slot \in Ring(cap)
      PROVE  Distance(cap, s, slot) \in map[s] <=> new[slot].is_valid /\ h[new[slot].key] % cap = s
  <2>1. Distance(cap, s, slot) \in hm[s] <=> tb[slot].is_valid /\ h[tb[slot].key] % cap = s
    BY <1>1 DEF Named
  <2>2. CASE slot = e
    BY <1>2, <1>4, <2>1, <2>2 DEF off
  <2>3. CASE slot # e /\ s = home
    <3>1. Distance(cap, s, slot) # off
      BY <2>3, DistanceInjective DEF off
    <3>. QED
      BY <1>2, <1>4, <2>1, <2>3, <3>1
  <2>4. CASE slot # e /\ s # home
    BY <1>2, <1>4, <2>1, <2>4
  <2>. QED
    BY <2>2, <2>3, <2>4
<1>. QED
  BY <1>1, <1>2, <1>4, <1>5 DEF Mapped, Named, new, map, off

\* An entry leaves its slot.
LEMMA EntryLeaves ==
  ASSUME NEW cap \in Nat \ {0}, NEW h \in [IndexKey -> Nat], NEW tb, NEW hm, Mapped(cap, h, tb, hm),
         NEW b \in Ring(cap), tb[b].is_valid,
         NEW home \in Ring(cap), home = h[tb[b].key] % cap
  PROVE  Mapped(cap, h, [tb EXCEPT ![b] = Free],
                        [hm EXCEPT ![home] = @ \ {Distance(cap, home, b)}])
<1>. DEFINE off == Distance(cap, home, b)
            new == [tb EXCEPT ![b] = Free]
            map == [hm EXCEPT ![home] = @ \ {off}]
<1>1. /\ tb \in [Ring(cap) -> IndexInfo]
      /\ hm \in [Ring(cap) -> SUBSET (0 .. NeighborhoodSize - 1)]
      /\ \A s \in Ring(cap) : tb[s].is_valid => tb[s].key \in IndexKey
      /\ \A s \in Ring(cap) : ~tb[s].is_valid => tb[s] = Free
      /\ Named(cap, h, tb, hm)
  BY DEF Mapped
<1>2. new \in [Ring(cap) -> IndexInfo] /\ new[b] = Free /\ \A s \in Ring(cap) : s # b => new[s] = tb[s]
  BY <1>1, FreeTyped
<1>. HIDE DEF off
<1>4. /\ map \in [Ring(cap) -> SUBSET (0 .. NeighborhoodSize - 1)]
      /\ map[home] = hm[home] \ {off} /\ \A s \in Ring(cap) : s # home => map[s] = hm[s]
  BY <1>1
<1>. HIDE DEF new, map
<1>5. ASSUME NEW s \in Ring(cap), NEW slot \in Ring(cap)
      PROVE  Distance(cap, s, slot) \in map[s] <=> new[slot].is_valid /\ h[new[slot].key] % cap = s
  <2>1. Distance(cap, s, slot) \in hm[s] <=> tb[slot].is_valid /\ h[tb[slot].key] % cap = s
    BY <1>1 DEF Named
  <2>2. CASE slot = b
    BY <1>2, <1>4, <2>1, <2>2, FreeTyped DEF off
  <2>3. CASE slot # b /\ s = home
    <3>1. Distance(cap, s, slot) # off
      BY <2>3, DistanceInjective DEF off
    <3>. QED
      BY <1>2, <1>4, <2>1, <2>3, <3>1
  <2>4. CASE slot # b /\ s # home
    BY <1>2, <1>4, <2>1, <2>4
  <2>. QED
    BY <2>2, <2>3, <2>4
<1>. QED
  BY <1>1, <1>2, <1>4, <1>5, FreeTyped DEF Mapped, Named, new, map, off

\* An entry moves into a free slot.
LEMMA EntryMoved ==
  ASSUME NEW infos, NEW n, NEW cells, AllPlaced(cells, infos, n),
         \A m \in 1 .. n : infos[m].is_valid,
         NEW e \in DOMAIN cells, ~cells[e].is_valid, NEW b \in DOMAIN cells, cells[b].is_valid
  PROVE  AllPlaced([cells EXCEPT ![e] = cells[b], ![b] = Free], infos, n)
<1>. DEFINE new == [cells EXCEPT ![e] = cells[b], ![b] = Free]
<1>1. /\ DOMAIN new = DOMAIN cells /\ e # b /\ new[e] = cells[b] /\ new[b] = Free
      /\ \A p \in DOMAIN cells : p # e /\ p # b => new[p] = cells[p]
  OBVIOUS
<1>. HIDE DEF new
<1>2. Holds(new, infos, n)
  BY <1>1, FreeTyped DEF AllPlaced, Holds
<1>3. ASSUME NEW m \in 1 .. n PROVE \E p \in DOMAIN new : new[p] = infos[m]
  <2>1. PICK p \in DOMAIN cells : cells[p] = infos[m]
    BY DEF AllPlaced
  <2>2. CASE p = b
    BY <1>1, <2>1, <2>2
  <2>3. p # e
    BY <2>1
  <2>4. CASE p # b
    BY <1>1, <2>1, <2>3, <2>4
  <2>. QED
    BY <2>2, <2>4
<1>. QED
  BY <1>2, <1>3 DEF AllPlaced, new

\* As many slots are taken as there are entries placed.
LEMMA PlacedCount ==
  ASSUME NEW infos, Entries(infos), NEW n \in 0 .. Len(infos), NEW cells, AllPlaced(cells, infos, n)
  PROVE  Cardinality({p \in DOMAIN cells : cells[p].is_valid}) = n
<1>. DEFINE taken == {p \in DOMAIN cells : cells[p].is_valid}
            place == [m \in 1 .. n |-> CHOOSE p \in DOMAIN cells : cells[p] = infos[m]]
<1>1. n \in Nat /\ \A m \in 1 .. n : m \in 1 .. Len(infos)
  BY DEF Entries
<1>2. \A m \in 1 .. n : place[m] \in DOMAIN cells /\ cells[place[m]] = infos[m]
  BY DEF AllPlaced
<1>3. \A m \in 1 .. n : infos[m].is_valid
  BY <1>1 DEF Entries
<1>4. place \in [1 .. n -> taken]
  BY <1>2, <1>3
<1>. HIDE DEF place
<1>5. \A l, m \in 1 .. n : l # m => place[l] # place[m]
  BY <1>1, <1>2, EntriesDiffer
<1>6. \A p \in taken : \E m \in 1 .. n : place[m] = p
  BY <1>2, <1>3 DEF AllPlaced, Holds
<1>. HIDE DEF taken
<1>7. place \in Bijection(1 .. n, taken)
  BY <1>4, <1>5, <1>6 DEF Bijection, Injection, Surjection, IsInjective
<1>8. IsFiniteSet(1 .. n) /\ Cardinality(1 .. n) = n
  BY <1>1, UpTo
<1>9. Cardinality(taken) = n
  BY <1>7, <1>8, FS_Bijection DEF ExistsBijection
<1>. QED
  BY <1>9 DEF taken

LEMMA HopscotchInit == Hopscotch!Init => HopscotchInv
BY DEF Hopscotch!Init, HopscotchInv, NoRows

\* Nothing inserted yet, in an empty table.
HopscotchStarts(cap) ==
  /\ capacity' = cap /\ inserted' = 0 /\ empty_slot' = 0 /\ index_phase' = "seek"
  /\ table' = [s \in 0 .. cap - 1 |-> Free]
  /\ hop_map' = [s \in 0 .. cap - 1 |-> {}]

LEMMA AssignStarts ==
  ASSUME NEW cap, Hopscotch!Assign(cap)
  PROVE  HopscotchStarts(cap)
BY DEF Hopscotch!Assign, HopscotchStarts, Hopscotch!Free, Free

LEMMA HopscotchStarted ==
  ASSUME NEW cap \in Nat \ {0}, HopscotchStarts(cap), NEW infos
  PROVE  /\ Mapped(cap, hash', table', hop_map')
         /\ AllPlaced(table', infos, inserted')
         /\ empty_slot' \in Ring(cap)
<1>1. /\ table' = [s \in Ring(cap) |-> Free] /\ hop_map' = [s \in Ring(cap) |-> {}]
      /\ inserted' = 0 /\ empty_slot' = 0
  BY DEF HopscotchStarts, Ring
<1>2. /\ table' \in [Ring(cap) -> IndexInfo] /\ hop_map' \in [Ring(cap) -> SUBSET (0 .. NeighborhoodSize - 1)]
      /\ \A s \in Ring(cap) : table'[s] = Free /\ hop_map'[s] = {}
  BY <1>1, FreeTyped
<1>3. Mapped(cap, hash', table', hop_map')
  BY <1>2, FreeTyped DEF Mapped, Named
<1>4. AllPlaced(table', infos, 0)
  BY <1>1, <1>2, FreeTyped DEF AllPlaced, Holds
<1>5. 0 \in Ring(cap)
  BY DEF Ring
<1>. QED
  BY <1>1, <1>3, <1>4, <1>5

LEMMA HopscotchBuild ==
  ASSUME HopscotchInv, NEW es \in IndexLists, Hopscotch!Build(es)
  PROVE  HopscotchInv'
<1>. DEFINE infos == Infos(es)
            least == (20 * Len(infos) + 8) \div 9
            cap == IF least < MinCapacity THEN MinCapacity ELSE least
<1>1. /\ es # <<>> /\ index_entries' = es
      /\ index_infos' = infos /\ storage' = Storage(es)
      /\ HopscotchStarts(cap) /\ hash' = hash
  <2>1. /\ es # <<>> /\ index_entries' = es
        /\ index_infos' = Hopscotch!Infos(es) /\ storage' = Hopscotch!Storage(es)
        /\ Hopscotch!Assign(Hopscotch!InitialCapacity(Len(index_infos')))
        /\ hash' = hash
    BY DEF Hopscotch!Build, Hopscotch!StorageFor
  <2>2. index_infos' = infos /\ storage' = Storage(es)
    BY <2>1, SameInHopscotch
  <2>. HIDE DEF infos
  <2>3. Hopscotch!InitialCapacity(Len(index_infos')) = cap
    BY ONLY <2>2 DEF Hopscotch!InitialCapacity
  <2>. HIDE DEF cap
  <2>4. Hopscotch!Assign(cap)
    BY ONLY <2>1, <2>3
  <2>5. HopscotchStarts(cap)
    BY ONLY <2>4, AssignStarts
  <2>. QED
    BY ONLY <2>1, <2>2, <2>5
<1>2. hash \in HopscotchHash
  BY DEF HopscotchInv
<1>3. /\ IndexOf(es, infos, Storage(es)) /\ Entries(infos)
      /\ Storage(es) \in Seq(IndexRow) /\ Len(Storage(es)) <= Len(Storage(es))
      /\ Len(infos) \in Nat /\ Len(infos) > 0 /\ Len(infos) <= Len(es)
  BY <1>1, GroupedNext, LenProperties
<1>. HIDE DEF infos
<1>4. cap \in Nat \ {0} /\ Len(infos) < cap /\ NeighborhoodSize <= cap
  <2>. DEFINE a == 20 * Len(infos) + 8
  <2>1. a \in Nat /\ a = 20 * Len(infos) + 8
    BY <1>3
  <2>. HIDE DEF a
  <2>2. a \div 9 \in Nat /\ a < 9 * (a \div 9) + 9
    BY <2>1, QuotientBounds
  <2>3. Len(infos) < a \div 9
    BY <1>3, <2>1, <2>2
  <2>4. least = a \div 9
    BY DEF a
  <2>. HIDE DEF least
  <2>5. least \in Nat /\ Len(infos) < least
    BY <2>2, <2>3, <2>4
  <2>. QED
    BY <1>3, <2>5, IndexAssumption
<1>. HIDE DEF cap
<1>5. /\ Mapped(cap, hash', table', hop_map')
      /\ AllPlaced(table', infos, inserted')
      /\ empty_slot' \in Ring(cap)
  BY <1>1, <1>4, HopscotchStarted
<1>6. Grouped' /\ storage' = Storage(index_entries')
  BY <1>1, <1>3, <1>4 DEF Grouped, HopscotchStarts
<1>7. HopscotchFilled'
  BY <1>1, <1>3, <1>4, <1>5, <1>6 DEF HopscotchFilled, HopscotchStarts
<1>. QED
  BY <1>1, <1>2, <1>7 DEF HopscotchInv

LEMMA HopscotchBuildNothing ==
  ASSUME HopscotchInv, Hopscotch!BuildNothing
  PROVE  HopscotchInv'
BY DEF HopscotchInv, Hopscotch!BuildNothing, NoRows

\* What holds while entries are inserted.
LEMMA HopscotchInserting ==
  ASSUME HopscotchInv, index_phase \in {"seek", "move"}
  PROVE  /\ HopscotchFilled
         /\ capacity \in Nat \ {0} /\ NeighborhoodSize <= capacity /\ NeighborhoodSize \in Nat
         /\ hash \in HopscotchHash /\ hash \in [IndexKey -> Nat]
         /\ Mapped(capacity, hash, table, hop_map) /\ DOMAIN table = Ring(capacity)
         /\ AllPlaced(table, index_infos, inserted)
         /\ Entries(index_infos) /\ Len(index_infos) \in Nat
         /\ inserted \in Nat /\ inserted < Len(index_infos)
         /\ inserted + 1 \in 1 .. Len(index_infos)
         /\ Hopscotch!info = index_infos[inserted + 1]
         /\ Hopscotch!info \in IndexInfo /\ Hopscotch!info.is_valid /\ Hopscotch!info.key \in IndexKey
         /\ empty_slot \in Ring(capacity)
<1>1. HopscotchFilled /\ hash \in HopscotchHash
  BY DEF HopscotchInv, NoRows
<1>2. Entries(index_infos) /\ Len(index_infos) \in Nat /\ capacity \in Nat \ {0}
  BY <1>1, InfosAreEntries DEF HopscotchFilled, Grouped, Entries
<1>3. inserted \in Nat /\ inserted < Len(index_infos) /\ inserted + 1 \in 1 .. Len(index_infos)
  BY <1>1, <1>2 DEF HopscotchFilled
<1>4. Hopscotch!info = index_infos[inserted + 1]
  BY DEF Hopscotch!info
<1>5. Hopscotch!info \in IndexInfo /\ Hopscotch!info.is_valid /\ Hopscotch!info.key \in IndexKey
  BY <1>2, <1>3, <1>4 DEF Entries
<1>6. hash \in [IndexKey -> Nat] /\ NeighborhoodSize \in Nat
  BY <1>1, IndexAssumption
<1>. QED
  BY <1>1, <1>2, <1>3, <1>4, <1>5, <1>6 DEF HopscotchFilled, Mapped

\* A table of the same entries with another state of its slots.
LEMMA HopscotchKept ==
  ASSUME HopscotchInv, HopscotchFilled,
         UNCHANGED <<hash, index_entries, index_infos, capacity, storage>>
  PROVE  /\ Grouped' /\ storage' = Storage(index_entries')
         /\ NeighborhoodSize <= capacity' /\ hash' \in HopscotchHash
BY DEF HopscotchInv, HopscotchFilled, Grouped

LEMMA HopscotchSeek ==
  ASSUME HopscotchInv, Hopscotch!Seek
  PROVE  HopscotchInv'
<1>1. /\ index_phase = "seek" /\ index_phase' = "move"
      /\ UNCHANGED <<hash, index_entries, index_infos, capacity, table, hop_map, storage, inserted>>
  BY DEF Hopscotch!Seek
<1>2. PICK n \in 0 .. capacity - 1 :
        /\ empty_slot' = ((hash[Hopscotch!info.key] % capacity) + n) % capacity
        /\ ~table[empty_slot'].is_valid
  BY DEF Hopscotch!Seek, Hopscotch!home_of
<1>3. /\ HopscotchFilled /\ capacity \in Nat \ {0} /\ hash \in [IndexKey -> Nat]
      /\ Hopscotch!info.key \in IndexKey
  BY <1>1, HopscotchInserting
<1>. DEFINE home == hash[Hopscotch!info.key] % capacity
<1>4. home \in Ring(capacity)
  BY <1>3, HomeInRing
<1>. HIDE DEF home
<1>5. empty_slot' = Ahead(capacity, home, n) /\ n \in Ring(capacity)
  <2>1. n \in 0 .. capacity
    BY <1>3
  <2>2. (home + n) % capacity = Ahead(capacity, home, n)
    BY <1>3, <1>4, <2>1, RingRemainders
  <2>. QED
    BY <1>2, <2>2 DEF home, Ring
<1>6. empty_slot' \in Ring(capacity)
  BY <1>3, <1>4, <1>5, RingDistance
<1>7. HopscotchFilled'
  BY <1>1, <1>2, <1>3, <1>6, HopscotchKept DEF HopscotchFilled
<1>. QED
  BY <1>1, <1>3, <1>7, HopscotchKept DEF HopscotchInv

LEMMA HopscotchGrow ==
  ASSUME HopscotchInv, Hopscotch!Grow
  PROVE  HopscotchInv'
<1>. DEFINE cap == capacity * 2
<1>1. /\ index_phase \in {"seek", "move"} /\ Hopscotch!Assign(cap)
      /\ UNCHANGED <<hash, index_entries, index_infos, storage>>
  BY DEF Hopscotch!Grow
<1>2. HopscotchStarts(cap)
  BY <1>1, AssignStarts
<1>3. /\ HopscotchFilled /\ capacity \in Nat \ {0} /\ hash \in HopscotchHash
      /\ Len(index_infos) \in Nat /\ NeighborhoodSize \in Nat /\ NeighborhoodSize <= capacity
      /\ Len(index_infos) > 0 /\ Len(index_infos) < capacity
  BY <1>1, HopscotchInserting DEF HopscotchFilled, Grouped
<1>4. cap \in Nat \ {0} /\ NeighborhoodSize <= cap /\ Len(index_infos) < cap
  BY <1>3
<1>. HIDE DEF cap
<1>5. /\ Mapped(cap, hash', table', hop_map')
      /\ AllPlaced(table', index_infos, inserted')
      /\ empty_slot' \in Ring(cap)
  BY <1>2, <1>4, HopscotchStarted
<1>6. Grouped' /\ storage' = Storage(index_entries')
  BY <1>1, <1>2, <1>3, <1>4 DEF HopscotchFilled, Grouped, HopscotchStarts
<1>7. HopscotchFilled'
  BY <1>1, <1>2, <1>3, <1>4, <1>5, <1>6 DEF HopscotchFilled, HopscotchStarts
<1>. QED
  BY <1>1, <1>3, <1>7 DEF HopscotchInv

LEMMA HopscotchPlace ==
  ASSUME HopscotchInv, Hopscotch!Place
  PROVE  HopscotchInv'
<1>. DEFINE info == Hopscotch!info
            home == hash[info.key] % capacity
            new == [table EXCEPT ![empty_slot] = info]
            map == [hop_map EXCEPT ![home] = @ \union {Distance(capacity, home, empty_slot)}]
<1>1. /\ index_phase = "move" /\ Hopscotch!Near
      /\ table' = new /\ hop_map' = map /\ inserted' = inserted + 1
      /\ index_phase' = IF inserted' = Len(index_infos) THEN "ready" ELSE "seek"
      /\ UNCHANGED <<hash, index_entries, index_infos, capacity, storage, empty_slot>>
  BY DEF Hopscotch!Place, Hopscotch!home_of, Hopscotch!distance, Distance
<1>2. /\ HopscotchFilled
      /\ capacity \in Nat \ {0} /\ NeighborhoodSize \in Nat
      /\ hash \in HopscotchHash /\ hash \in [IndexKey -> Nat]
      /\ Mapped(capacity, hash, table, hop_map) /\ DOMAIN table = Ring(capacity)
      /\ AllPlaced(table, index_infos, inserted)
      /\ Entries(index_infos) /\ Len(index_infos) \in Nat
      /\ inserted \in Nat /\ inserted < Len(index_infos)
      /\ inserted + 1 \in 1 .. Len(index_infos)
      /\ info = index_infos[inserted + 1]
      /\ info \in IndexInfo /\ info.is_valid /\ info.key \in IndexKey
      /\ empty_slot \in Ring(capacity)
  BY <1>1, HopscotchInserting
<1>3. ~table[empty_slot].is_valid
  BY <1>1, <1>2 DEF HopscotchFilled
<1>4. Distance(capacity, home, empty_slot) < NeighborhoodSize
  BY <1>1 DEF Hopscotch!Near, Hopscotch!home_of, Hopscotch!distance, Distance
<1>. HIDE DEF info
<1>5. home \in Ring(capacity)
  BY <1>2, HomeInRing
<1>6. home = hash[info.key] % capacity
  OBVIOUS
<1>. HIDE DEF home
<1>7. Distance(capacity, home, empty_slot) \in 0 .. NeighborhoodSize - 1
  BY <1>2, <1>4, <1>5, DistanceNext
<1>8. Mapped(capacity, hash, new, map)
  BY ONLY <1>2, <1>3, <1>5, <1>6, <1>7, EntryEnters
<1>9. AllPlaced(new, index_infos, inserted + 1)
  <2>1. InHand(table, index_infos, inserted + 1, info)
    <3>1. \A p \in DOMAIN table : ~table[p].is_valid => table[p] = Free
      BY <1>2 DEF Mapped
    <3>. QED
      BY <1>2, <3>1, NextInHand
  <2>2. \A m \in 1 .. inserted + 1 : index_infos[m].is_valid
    <3>1. \A m \in 1 .. inserted + 1 : m \in 1 .. Len(index_infos)
      BY <1>2
    <3>. QED
      BY <1>2, <3>1 DEF Entries
  <2>. QED
    BY <1>2, <1>3, <2>1, <2>2, HandPlaced
<1>. HIDE DEF new, map
<1>10. inserted + 1 \in 0 .. Len(index_infos)
  BY <1>2
<1>11. /\ Grouped' /\ storage' = Storage(index_entries')
       /\ NeighborhoodSize <= capacity' /\ hash' \in HopscotchHash
  BY <1>1, <1>2, HopscotchKept
<1>12. index_phase' \in {"seek", "ready"} /\ (index_phase' = "seek" => inserted + 1 # Len(index_infos))
       /\ (index_phase' = "ready" => inserted + 1 = Len(index_infos))
  BY <1>1
<1>13. inserted + 1 # Len(index_infos) => inserted + 1 < Len(index_infos)
  BY <1>2
<1>14. HopscotchFilled'
  BY <1>1, <1>2, <1>8, <1>9, <1>10, <1>11, <1>12, <1>13 DEF HopscotchFilled
<1>. QED
  BY <1>11, <1>14 DEF HopscotchInv

\* The slot so far before the free one.
LEMMA SlotBefore ==
  ASSUME capacity \in Nat \ {0}, NeighborhoodSize \in Nat, NeighborhoodSize <= capacity,
         empty_slot \in Ring(capacity), NEW offset \in 0 .. NeighborhoodSize - 1
  PROVE  Hopscotch!Before(offset) \in Ring(capacity)
<1>1. offset \in 0 .. capacity - 1 /\ offset \in Nat
  OBVIOUS
<1>2. (empty_slot + capacity - offset) % capacity
        = IF offset <= empty_slot THEN empty_slot - offset ELSE empty_slot + capacity - offset
  BY <1>1, RingRemainders
<1>3. (IF offset <= empty_slot THEN empty_slot - offset ELSE empty_slot + capacity - offset)
        \in Ring(capacity)
  BY <1>1 DEF Ring
<1>. QED
  BY ONLY <1>2, <1>3 DEF Hopscotch!Before

LEMMA HopscotchMoveSlotCloser ==
  ASSUME HopscotchInv, Hopscotch!MoveSlotCloser
  PROVE  HopscotchInv'
<1>1. PICK offset \in Hopscotch!Offset \ {0} :
        /\ Hopscotch!MayMove(offset)
        /\ LET candidate == table[Hopscotch!Before(offset)]
               home == Hopscotch!home_of(candidate.key)
               hop_off == Hopscotch!distance(home, Hopscotch!Before(offset))
           IN  /\ table' = [table EXCEPT ![empty_slot] = candidate, ![Hopscotch!Before(offset)] = Hopscotch!Free]
               /\ hop_map' = [hop_map EXCEPT
                                ![home] = (@ \ {hop_off}) \union {Hopscotch!distance(home, empty_slot)}]
               /\ empty_slot' = Hopscotch!Before(offset)
  BY DEF Hopscotch!MoveSlotCloser
<1>. DEFINE b == Hopscotch!Before(offset)
            info == table[b]
            home == hash[info.key] % capacity
            near == Distance(capacity, home, empty_slot)
            far == Distance(capacity, home, b)
            new == [table EXCEPT ![empty_slot] = info, ![b] = Free]
            map == [hop_map EXCEPT ![home] = (@ \ {far}) \union {near}]
<1>2. /\ index_phase = "move" /\ index_phase' = "move"
      /\ UNCHANGED <<hash, index_entries, index_infos, capacity, storage, inserted>>
  BY DEF Hopscotch!MoveSlotCloser
<1>3. /\ table' = new /\ hop_map' = map /\ empty_slot' = b
      /\ info.is_valid /\ near < NeighborhoodSize
  <2>1. Hopscotch!Free = Free
    BY DEF Hopscotch!Free, Free
  <2>2. \A s, t : Hopscotch!distance(s, t) = Distance(capacity, s, t)
    BY DEF Hopscotch!distance, Distance
  <2>3. \A k : Hopscotch!home_of(k) = hash[k] % capacity
    BY DEF Hopscotch!home_of
  <2>4. info.is_valid /\ near < NeighborhoodSize
    BY <1>1, <2>2, <2>3 DEF Hopscotch!MayMove
  <2>. QED
    BY <1>1, <2>1, <2>2, <2>3, <2>4
<1>4. /\ HopscotchFilled
      /\ capacity \in Nat \ {0} /\ NeighborhoodSize \in Nat /\ NeighborhoodSize <= capacity
      /\ hash \in HopscotchHash /\ hash \in [IndexKey -> Nat]
      /\ Mapped(capacity, hash, table, hop_map) /\ DOMAIN table = Ring(capacity)
      /\ AllPlaced(table, index_infos, inserted)
      /\ Entries(index_infos) /\ Len(index_infos) \in Nat
      /\ inserted \in Nat /\ inserted < Len(index_infos)
      /\ empty_slot \in Ring(capacity)
  BY <1>2, HopscotchInserting
<1>5. ~table[empty_slot].is_valid
  BY <1>2, <1>4 DEF HopscotchFilled
<1>6. b \in Ring(capacity)
  <2>1. offset \in 0 .. NeighborhoodSize - 1
    BY DEF Hopscotch!Offset
  <2>. QED
    BY <1>4, <2>1, SlotBefore
<1>. HIDE DEF b
<1>7. info \in IndexInfo /\ info.key \in IndexKey /\ b # empty_slot
  BY <1>3, <1>4, <1>5, <1>6 DEF Mapped
<1>8. home \in Ring(capacity)
  <2>. HIDE DEF info
  <2>. QED
    BY <1>4, <1>7, HomeInRing
<1>9. home = hash[info.key] % capacity /\ near = Distance(capacity, home, empty_slot)
      /\ far = Distance(capacity, home, b)
  OBVIOUS
<1>. HIDE DEF home, near, far
<1>10. near \in 0 .. NeighborhoodSize - 1
  BY ONLY <1>3, <1>4, <1>8, <1>9, DistanceNext
<1>. DEFINE left == [table EXCEPT ![b] = Free]
            leftMap == [hop_map EXCEPT ![home] = @ \ {far}]
<1>11. Mapped(capacity, hash, left, leftMap)
  BY ONLY <1>3, <1>4, <1>6, <1>8, <1>9, EntryLeaves
<1>12. new = [left EXCEPT ![empty_slot] = info] /\ ~left[empty_slot].is_valid
  BY <1>4, <1>5, <1>6, <1>7
<1>13. map = [leftMap EXCEPT ![home] = @ \union {near}]
  BY <1>4, <1>8 DEF Mapped
<1>14. AllPlaced(new, index_infos, inserted) /\ ~new[b].is_valid
  <2>1. \A m \in 1 .. inserted : index_infos[m].is_valid
    <3>1. \A m \in 1 .. inserted : m \in 1 .. Len(index_infos)
      BY <1>4
    <3>. QED
      BY <1>4, <3>1 DEF Entries
  <2>2. AllPlaced(new, index_infos, inserted)
    BY <1>3, <1>4, <1>5, <1>6, <2>1, EntryMoved
  <2>3. ~new[b].is_valid
    BY <1>4, <1>6, FreeTyped
  <2>. QED
    BY <2>2, <2>3
<1>. HIDE DEF left, leftMap, new, map, info
<1>15. Mapped(capacity, hash, [left EXCEPT ![empty_slot] = info],
                              [leftMap EXCEPT ![home] = @ \union {Distance(capacity, home, empty_slot)}])
  BY ONLY <1>3, <1>4, <1>7, <1>8, <1>9, <1>10, <1>11, <1>12, EntryEnters
<1>16. Mapped(capacity, hash, new, map)
  BY ONLY <1>9, <1>12, <1>13, <1>15
<1>17. HopscotchFilled'
  BY <1>2, <1>3, <1>4, <1>6, <1>14, <1>16, HopscotchKept DEF HopscotchFilled
<1>. QED
  BY <1>2, <1>4, <1>17, HopscotchKept DEF HopscotchInv

LEMMA HopscotchStep ==
  ASSUME HopscotchInv, Hopscotch!Next
  PROVE  HopscotchInv'
<1>1. ASSUME NEW es \in IndexLists, Hopscotch!Build(es) PROVE HopscotchInv'
  BY <1>1, HopscotchBuild
<1>. QED
  BY <1>1, HopscotchBuildNothing, HopscotchSeek, HopscotchMoveSlotCloser, HopscotchPlace,
     HopscotchGrow
  DEF Hopscotch!Next

LEMMA HopscotchTypes ==
  ASSUME HopscotchInv
  PROVE  Hopscotch!TypeOK
<1>1. Hopscotch!IndexInfo = IndexInfo
  BY DEF Hopscotch!IndexInfo, IndexInfo
<1>2. CASE NoRows /\ table = << >> /\ hop_map = << >> /\ inserted = 0
  <2>1. 0 .. capacity - 1 = {} /\ ~(capacity > 0)
    BY <1>2 DEF NoRows
  <2>2. table \in [0 .. capacity - 1 -> IndexInfo] /\ hop_map \in [0 .. capacity - 1 -> SUBSET Hopscotch!Offset]
    BY <1>2, <2>1
  <2>3. inserted \in 0 .. Len(index_entries)
    <3>1. Len(index_entries) = 0
      BY <1>2 DEF NoRows
    <3>. QED
      BY <1>2, <3>1
  <2>. QED
    BY <1>1, <1>2, <2>1, <2>2, <2>3 DEF NoRows, Hopscotch!TypeOK
<1>3. CASE HopscotchFilled
  <2>1. /\ table \in [0 .. capacity - 1 -> IndexInfo]
        /\ hop_map \in [0 .. capacity - 1 -> SUBSET Hopscotch!Offset]
        /\ empty_slot \in 0 .. capacity - 1
        /\ index_phase \in {"seek", "move", "ready"}
    BY <1>3 DEF HopscotchFilled, Mapped, Ring, Hopscotch!Offset
  <2>2. inserted \in 0 .. Len(index_entries)
    <3>1. Len(index_infos) \in Nat /\ Len(index_infos) <= Len(index_entries)
          /\ inserted \in 0 .. Len(index_infos) /\ index_entries \in Seq(IndexRow)
      BY <1>3 DEF HopscotchFilled, Grouped, IndexOf
    <3>2. Len(index_entries) \in Nat
      BY <3>1
    <3>. QED
      BY <3>1, <3>2
  <2>. QED
    BY <1>1, <2>1, <2>2 DEF Hopscotch!TypeOK
<1>. QED
  BY <1>2, <1>3 DEF HopscotchInv

\* The slots a bitmap names, as the code computes them.
LEMMA BitmapExact ==
  ASSUME HopscotchFilled, hash \in [IndexKey -> Nat], NEW s \in Ring(capacity), NEW off
  PROVE  /\ off \in hop_map[s] <=> /\ off \in 0 .. NeighborhoodSize - 1
                                   /\ table[(s + off) % capacity].is_valid
                                   /\ hash[table[(s + off) % capacity].key] % capacity = s
         /\ off \in 0 .. NeighborhoodSize - 1 => (s + off) % capacity \in Ring(capacity)
<1>1. /\ Named(capacity, hash, table, hop_map) /\ NeighborhoodSize <= capacity
      /\ hop_map[s] \in SUBSET (0 .. NeighborhoodSize - 1)
      /\ capacity \in Nat \ {0} /\ NeighborhoodSize \in Nat
  BY IndexAssumption DEF HopscotchFilled, Mapped, Grouped
<1>. SUFFICES ASSUME off \in 0 .. NeighborhoodSize - 1
              PROVE  /\ off \in hop_map[s] <=> /\ table[(s + off) % capacity].is_valid
                                               /\ hash[table[(s + off) % capacity].key] % capacity = s
                     /\ (s + off) % capacity \in Ring(capacity)
  BY <1>1
<1>2. off \in 0 .. capacity /\ off \in Ring(capacity)
  BY <1>1 DEF Ring
<1>3. (s + off) % capacity = Ahead(capacity, s, off)
  BY <1>1, <1>2, RingRemainders
<1>4. Ahead(capacity, s, off) \in Ring(capacity) /\ Distance(capacity, s, Ahead(capacity, s, off)) = off
  BY <1>1, <1>2, RingDistance
<1>. DEFINE slot == Ahead(capacity, s, off)
<1>. HIDE DEF slot
<1>5. Distance(capacity, s, slot) \in hop_map[s] <=> table[slot].is_valid /\ hash[table[slot].key] % capacity = s
  BY <1>1, <1>4 DEF Named, slot
<1>. QED
  BY ONLY <1>3, <1>4, <1>5 DEF slot

LEMMA HopscotchMap ==
  ASSUME HopscotchInv
  PROVE  Hopscotch!HopMapExact
<1>1. CASE NoRows /\ table = << >> /\ hop_map = << >> /\ inserted = 0
  BY <1>1 DEF Hopscotch!HopMapExact
<1>2. CASE HopscotchFilled
  <2>1. /\ DOMAIN table = Ring(capacity) /\ Mapped(capacity, hash, table, hop_map)
        /\ hash \in [IndexKey -> Nat] /\ capacity \in Nat \ {0}
    BY <1>2, IndexAssumption DEF HopscotchInv, HopscotchFilled, Mapped, Grouped
  <2>. SUFFICES ASSUME NEW s \in Ring(capacity)
                PROVE  /\ hop_map[s] = {off \in 0 .. NeighborhoodSize - 1 :
                                          /\ table[(s + off) % capacity].is_valid
                                          /\ hash[table[(s + off) % capacity].key] % capacity = s}
                       /\ table[s].is_valid => Distance(capacity, hash[table[s].key] % capacity, s)
                                                 \in 0 .. NeighborhoodSize - 1
    BY <2>1 DEF Hopscotch!HopMapExact, Hopscotch!home_of, Hopscotch!Offset, Hopscotch!distance, Distance
  <2>2. hop_map[s] = {off \in 0 .. NeighborhoodSize - 1 :
                        /\ table[(s + off) % capacity].is_valid
                        /\ hash[table[(s + off) % capacity].key] % capacity = s}
    BY <1>2, <2>1, BitmapExact
  <2>3. ASSUME table[s].is_valid
        PROVE  Distance(capacity, hash[table[s].key] % capacity, s) \in 0 .. NeighborhoodSize - 1
    <3>. DEFINE home == hash[table[s].key] % capacity
    <3>1. home \in Ring(capacity)
      <4>1. table[s].key \in IndexKey
        BY <2>1, <2>3 DEF Mapped
      <4>. QED
        BY <2>1, <4>1, HomeInRing
    <3>2. Distance(capacity, home, s) \in hop_map[home]
      BY <2>1, <2>3, <3>1 DEF Mapped, Named
    <3>. HIDE DEF home
    <3>3. hop_map[home] \in SUBSET (0 .. NeighborhoodSize - 1)
      BY <2>1, <3>1 DEF Mapped
    <3>4. Distance(capacity, home, s) \in 0 .. NeighborhoodSize - 1
      BY <3>2, <3>3
    <3>. QED
      BY <3>4 DEF home
  <2>. QED
    BY <2>2, <2>3
<1>. QED
  BY <1>1, <1>2 DEF HopscotchInv

LEMMA HopscotchNothingDropped ==
  ASSUME HopscotchInv
  PROVE  Hopscotch!NothingDropped
<1>1. \A S : Hopscotch!Cardinality(S) = Cardinality(S)
  BY DEF Hopscotch!Cardinality, Cardinality
<1>2. Hopscotch!Free = Free
  BY DEF Hopscotch!Free, Free
<1>3. CASE NoRows /\ table = << >> /\ hop_map = << >> /\ inserted = 0
  <2>. DEFINE taken == {s \in DOMAIN table : table[s].is_valid}
  <2>1. taken = {}
    BY <1>3
  <2>. HIDE DEF taken
  <2>2. Cardinality(taken) = 0
    BY <2>1, FS_EmptySet
  <2>3. index_phase \notin {"seek", "move"}
    BY <1>3 DEF NoRows
  <2>. QED
    BY <1>1, <1>3, <2>2, <2>3 DEF taken, Hopscotch!NothingDropped
<1>4. CASE HopscotchFilled
  <2>1. /\ AllPlaced(table, index_infos, inserted) /\ inserted \in 0 .. Len(index_infos)
        /\ Entries(index_infos) /\ Len(index_infos) \in Nat
        /\ \A s \in DOMAIN table : ~table[s].is_valid => table[s] = Free
        /\ index_phase = "move" => ~table[empty_slot].is_valid
    BY <1>4, InfosAreEntries DEF HopscotchFilled, Grouped, Mapped, IndexOf
  <2>2. Cardinality({s \in DOMAIN table : table[s].is_valid}) = inserted
    BY <2>1, PlacedCount
  <2>3. \A m \in 1 .. inserted : index_infos[m].is_valid
    <3>1. \A m \in 1 .. inserted : m \in 1 .. Len(index_infos)
      BY <2>1
    <3>. QED
      BY <2>1, <3>1 DEF Entries
  <2>4. {table[s] : s \in DOMAIN table} \ {Free} = {index_infos[n] : n \in 1 .. inserted}
    <3>1. ASSUME NEW x \in {table[s] : s \in DOMAIN table} \ {Free}
          PROVE  x \in {index_infos[n] : n \in 1 .. inserted}
      <4>1. PICK s \in DOMAIN table : x = table[s]
        BY <3>1
      <4>2. table[s].is_valid
        BY <2>1, <3>1, <4>1
      <4>. QED
        BY <2>1, <4>1, <4>2 DEF AllPlaced, Holds
    <3>2. ASSUME NEW x \in {index_infos[n] : n \in 1 .. inserted}
          PROVE  x \in {table[s] : s \in DOMAIN table} \ {Free}
      <4>1. PICK n \in 1 .. inserted : x = index_infos[n]
        BY <3>2
      <4>2. PICK s \in DOMAIN table : table[s] = index_infos[n]
        BY <2>1 DEF AllPlaced
      <4>. QED
        BY <2>3, <4>1, <4>2, FreeTyped
    <3>. QED
      BY <3>1, <3>2
  <2>. QED
    BY <1>1, <1>2, <2>1, <2>2, <2>4 DEF Hopscotch!NothingDropped
<1>. QED
  BY <1>3, <1>4 DEF HopscotchInv

LEMMA HopscotchProbe ==
  ASSUME HopscotchInv, index_phase = "ready", NEW k \in IndexKey
  PROVE  Hopscotch!Probe(k) = RowsOf(index_entries, k)
<1>. DEFINE home == hash[k] % capacity
            at(off) == (home + off) % capacity
            hits == {off \in hop_map[home] : table[at(off)].is_valid /\ table[at(off)].key = k}
            first == CHOOSE off \in hits : \A other \in hits : off <= other
<1>1. Hopscotch!Probe(k) = IF capacity = 0 \/ hits = {} THEN <<>> ELSE Bucket(storage, table[at(first)])
  BY DEF Hopscotch!Probe, Hopscotch!home_of, Hopscotch!Bucket, Bucket
<1>2. CASE NoRows /\ table = << >> /\ hop_map = << >> /\ inserted = 0
  <2>1. capacity = 0
    BY <1>2 DEF NoRows
  <2>. HIDE DEF hits, first, at
  <2>. QED
    BY <1>1, <1>2, <2>1, EmptyBucket
<1>3. CASE HopscotchFilled
  <2>1. /\ DOMAIN table = Ring(capacity) /\ Mapped(capacity, hash, table, hop_map)
        /\ hash \in [IndexKey -> Nat] /\ capacity \in Nat \ {0}
        /\ AllPlaced(table, index_infos, Len(index_infos))
        /\ IndexOf(index_entries, index_infos, storage)
    BY <1>3, IndexAssumption DEF HopscotchInv, HopscotchFilled, Mapped, Grouped
  <2>2. home \in Ring(capacity)
    BY <2>1, HomeInRing
  <2>3. ASSUME NEW off \in hits PROVE Bucket(storage, table[at(off)]) = RowsOf(index_entries, k)
    <3>1. off \in hop_map[home] /\ table[at(off)].is_valid /\ table[at(off)].key = k
      OBVIOUS
    <3>2. off \in 0 .. NeighborhoodSize - 1
      BY <2>1, <2>2, <3>1 DEF Mapped
    <3>3. at(off) \in Ring(capacity)
      <4>. HIDE DEF home
      <4>. QED
        BY <1>3, <2>1, <2>2, <3>2, BitmapExact
    <3>. HIDE DEF at, hits, home
    <3>4. PICK m \in 1 .. Len(index_infos) : table[at(off)] = index_infos[m]
      BY <2>1, <3>1, <3>3 DEF AllPlaced, Holds
    <3>. QED
      BY <2>1, <3>1, <3>4 DEF IndexOf
  <2>4. ASSUME NEW m \in 1 .. Len(index_infos), index_infos[m].key = k PROVE hits # {}
    <3>1. PICK s \in Ring(capacity) : table[s] = index_infos[m]
      BY <2>1 DEF AllPlaced
    <3>2. table[s].is_valid /\ table[s].key = k
      BY <2>1, <2>4, <3>1 DEF IndexOf
    <3>. DEFINE off == Distance(capacity, home, s)
    <3>3. off \in hop_map[home]
      BY <2>1, <2>2, <3>2 DEF Mapped, Named
    <3>4. off \in Ring(capacity) /\ Ahead(capacity, home, off) = s
      <4>. HIDE DEF home
      <4>. QED
        BY <2>1, <2>2, RingDistance
    <3>. HIDE DEF off
    <3>5. at(off) = s
      <4>1. off \in 0 .. capacity
        BY <2>1, <3>4 DEF Ring
      <4>. HIDE DEF home
      <4>. QED
        BY <2>1, <2>2, <3>4, <4>1, RingRemainders
    <3>. HIDE DEF at, home
    <3>6. off \in hits
      BY <3>2, <3>3, <3>5
    <3>. QED
      BY <3>6
  <2>5. hits # {} => first \in hits
    <3>1. hits \in SUBSET Nat
      BY <2>1, <2>2 DEF Mapped
    <3>. HIDE DEF hits
    <3>. QED
      BY <3>1, Least
  <2>. HIDE DEF hits, first, at
  <2>6. capacity # 0
    BY <2>1
  <2>7. CASE hits = {}
    BY <1>1, <2>1, <2>4, <2>7 DEF IndexOf
  <2>8. CASE hits # {}
    BY <1>1, <2>3, <2>5, <2>6, <2>8
  <2>. QED
    BY <2>7, <2>8
<1>. QED
  BY <1>2, <1>3 DEF HopscotchInv

-----------------------------------------------------------------------------
(* The types of the unchained table.                                       *)

\* reserve: the least power of two that is enough, within its bounds.
LEMMA DirSizesBounded ==
  ASSUME NEW d \in DirSizes
  PROVE  d \in PowersOfTwo /\ MinDirSize <= d /\ d <= MaxDirSize
<1>1. /\ PowersOfTwo \in SUBSET Nat /\ MinDirSize \in PowersOfTwo /\ MaxDirSize \in PowersOfTwo
      /\ MinDirSize <= MaxDirSize /\ TargetBucket \in Nat \ {0}
  BY SizeAssumption
<1>2. CASE d = MinDirSize
  BY <1>1, <1>2
<1>3. ASSUME NEW asked \in Capacities, d = DirSizeFor(asked)
      PROVE  d \in PowersOfTwo /\ MinDirSize <= d /\ d <= MaxDirSize
  <2>. DEFINE average == asked \div TargetBucket
              least == IF average < MinDirSize THEN MinDirSize ELSE average
              enough == {p \in PowersOfTwo : p >= least}
              size == next_pow2(least)
  <2>1. asked \in Nat /\ \E p \in PowersOfTwo : average <= p
    BY SizeAssumption
  <2>2. average \in Nat
    BY <1>1, <2>1, QuotientBounds
  <2>3. d = IF size > MaxDirSize THEN MaxDirSize ELSE size
    BY <1>3 DEF DirSizeFor
  <2>. HIDE DEF average
  <2>4. least \in Nat /\ MinDirSize <= least
    BY <1>1, <2>2
  <2>5. enough \in SUBSET Nat /\ enough # {}
    <3>1. PICK p \in PowersOfTwo : average <= p
      BY <2>1
    <3>2. p \in enough \/ MinDirSize \in enough
      BY <1>1, <2>2, <3>1
    <3>. QED
      BY <1>1, <3>2
  <2>. HIDE DEF least
  <2>6. \E p \in enough : \A q \in enough : p <= q
    <3>. HIDE DEF enough
    <3>. QED
      BY <2>5, LeastExists
  <2>7. size \in enough
    BY <2>6 DEF next_pow2
  <2>. HIDE DEF size
  <2>. QED
    BY <1>1, <2>3, <2>4, <2>7
<1>. QED
  BY <1>2, <1>3 DEF DirSizes

LEMMA UnchainedTypes == IInv => TypeOK
<1>. SUFFICES ASSUME IInv PROVE TypeOK
  OBVIOUS
<1>1. Types
  BY DEF IInv
<1>2. dir_size \in PowersOfTwo /\ MinDirSize <= dir_size /\ dir_size <= MaxDirSize
  BY <1>1, DirSizesBounded DEF Types
<1>3. TagBits \subseteq UNION Range(TagOf)
  BY SlotAssumption DEF TagBits, Range
<1>4. bloom_filters \in [Slots -> SUBSET UNION Range(TagOf)]
  BY <1>1, <1>3 DEF Types
<1>. QED
  BY <1>1, <1>2, <1>4 DEF Types, TypeOK

\* hashtable_interface.h, reserve and build: whatever is reserved and built, the
\* directory has one of its legal sizes, and every buffer has that size.
THEOREM UnchainedTypesHold == Spec => []TypeOK
<1>1. Init => IInv
  BY InitIInv
<1>2. IInv /\ [Next]_vars => IInv'
  BY StepIInv
<1>. QED
  BY <1>1, <1>2, UnchainedTypes, PTL DEF Spec

-----------------------------------------------------------------------------
(* The invariant of whichever table is compiled in.                        *)

TablesInv ==
  /\ IInv
  /\ \/ backend = "Unchained" /\ NoIndex
     \/ /\ phase = "ready" /\ entries = <<>>
        /\ \/ backend = "RobinHood" /\ RobinHoodInv
           \/ backend = "Cuckoo" /\ CuckooInv
           \/ backend = "Hopscotch" /\ HopscotchInv

LEMMA TablesInitInv == TablesInit => TablesInv
<1>. SUFFICES ASSUME TablesInit PROVE TablesInv
  OBVIOUS
<1>1. Init /\ IInv
  BY InitIInv DEF TablesInit
<1>2. phase = "ready" /\ entries = <<>>
  BY <1>1 DEF Init
<1>. QED
  BY <1>1, <1>2, RobinHoodInit, CuckooInit, HopscotchInit DEF TablesInit, TablesInv

\* Steps that leave a table alone.
LEMMA SameRobinHood ==
  ASSUME RobinHoodInv, UNCHANGED indexVars
  PROVE  RobinHoodInv'
BY DEF RobinHoodInv, NoRows, RobinHoodFilled, RobinHoodHand, Grouped, indexVars, common, robinHoodOnly

LEMMA SameCuckoo ==
  ASSUME CuckooInv, UNCHANGED indexVars
  PROVE  CuckooInv'
BY DEF CuckooInv, NoRows, CuckooFilled, Grouped, indexVars, common, cuckooOnly

LEMMA SameHopscotch ==
  ASSUME HopscotchInv, UNCHANGED indexVars
  PROVE  HopscotchInv'
BY DEF HopscotchInv, NoRows, HopscotchFilled, Grouped, indexVars, common, hopscotchOnly

LEMMA TablesStep ==
  ASSUME TablesInv, [TablesNext]_tablesVars
  PROVE  TablesInv'
<1>1. IInv'
  <2>1. [Next]_vars
    BY DEF TablesNext, UnchainedNext, RobinHoodNext, CuckooNext, HopscotchNext, tablesVars
  <2>. QED
    BY <2>1, StepIInv DEF TablesInv
<1>2. CASE UnchainedNext
  <2>1. backend = "Unchained" /\ backend' = "Unchained" /\ UNCHANGED indexVars
    BY <1>2 DEF UnchainedNext
  <2>2. NoIndex
    BY <2>1 DEF TablesInv
  <2>3. NoIndex'
    BY <2>1, <2>2 DEF NoIndex, indexVars, common
  <2>. QED
    BY <1>1, <2>1, <2>3 DEF TablesInv
<1>3. CASE RobinHoodNext
  <2>1. /\ backend = "RobinHood" /\ RobinHood!Next
        /\ backend' = "RobinHood" /\ phase' = phase /\ entries' = entries
    BY <1>3 DEF RobinHoodNext, vars
  <2>2. RobinHoodInv'
    BY <2>1, RobinHoodStep DEF TablesInv
  <2>. QED
    BY <1>1, <2>1, <2>2 DEF TablesInv
<1>4. CASE CuckooNext
  <2>1. /\ backend = "Cuckoo" /\ Cuckoo!Next
        /\ backend' = "Cuckoo" /\ phase' = phase /\ entries' = entries
    BY <1>4 DEF CuckooNext, vars
  <2>2. CuckooInv'
    BY <2>1, CuckooStep DEF TablesInv
  <2>. QED
    BY <1>1, <2>1, <2>2 DEF TablesInv
<1>5. CASE HopscotchNext
  <2>1. /\ backend = "Hopscotch" /\ Hopscotch!Next
        /\ backend' = "Hopscotch" /\ phase' = phase /\ entries' = entries
    BY <1>5 DEF HopscotchNext, vars
  <2>2. HopscotchInv'
    BY <2>1, HopscotchStep DEF TablesInv
  <2>. QED
    BY <1>1, <2>1, <2>2 DEF TablesInv
<1>6. CASE UNCHANGED tablesVars
  <2>1. UNCHANGED indexVars /\ backend' = backend /\ phase' = phase /\ entries' = entries
    BY <1>6 DEF tablesVars, vars
  <2>2. NoIndex => NoIndex'
    BY <2>1 DEF NoIndex, indexVars, common
  <2>. QED
    BY <1>1, <2>1, <2>2, SameRobinHood, SameCuckoo, SameHopscotch DEF TablesInv
<1>. QED
  BY <1>2, <1>3, <1>4, <1>5, <1>6 DEF TablesNext

LEMMA TablesInvariant == TablesSpec => []TablesInv
BY TablesInitInv, TablesStep, PTL DEF TablesSpec

LEMMA TablesTypes == TablesInv => TablesTypeOK
<1>. SUFFICES ASSUME TablesInv PROVE TablesTypeOK
  OBVIOUS
<1>1. TypeOK
  BY UnchainedTypes DEF TablesInv
<1>2. CASE backend = "Unchained"
  BY <1>1, <1>2 DEF TablesInv, TablesTypeOK, NoIndex
<1>3. CASE backend = "RobinHood"
  <2>1. RobinHoodInv
    BY <1>3 DEF TablesInv
  <2>2. NoRows \/ Grouped
    BY <2>1 DEF RobinHoodInv, RobinHoodFilled
  <2>. QED
    BY <1>1, <1>3, <2>1, <2>2, InfosNameRows, RobinHoodTypes DEF TablesTypeOK
<1>4. CASE backend = "Cuckoo"
  <2>1. CuckooInv
    BY <1>4 DEF TablesInv
  <2>2. NoRows \/ Grouped
    BY <2>1 DEF CuckooInv, CuckooFilled
  <2>. QED
    BY <1>1, <1>4, <2>1, <2>2, InfosNameRows, CuckooTypes DEF TablesTypeOK
<1>5. CASE backend = "Hopscotch"
  <2>1. HopscotchInv
    BY <1>5 DEF TablesInv
  <2>2. NoRows \/ Grouped
    BY <2>1 DEF HopscotchInv, HopscotchFilled
  <2>. QED
    BY <1>1, <1>5, <2>1, <2>2, InfosNameRows, HopscotchTypes DEF TablesTypeOK
<1>. QED
  BY <1>2, <1>3, <1>4, <1>5 DEF TablesInv

LEMMA TablesReach == TablesInv => EntriesReachable
BY RobinHoodNothingDropped, RobinHoodSlots, CuckooNothingDropped, CuckooHomes,
   HopscotchNothingDropped, HopscotchMap
DEF TablesInv, EntriesReachable

LEMMA TablesProbe ==
  ASSUME TablesInv, index_phase = "ready", NEW k \in IndexKey
  PROVE  /\ Len(IndexProbe(k)) = Len(RowsOf(index_entries, k))
         /\ ~Stale => IndexProbe(k) = RowsOf(index_entries, k)
<1>1. backend # "Unchained"
  BY DEF TablesInv, NoIndex
<1>2. CASE backend = "RobinHood"
  BY <1>2, RobinHoodProbe DEF TablesInv, IndexProbe, Answers, Stale
<1>3. CASE backend = "Cuckoo"
  BY <1>3, CuckooProbe DEF TablesInv, IndexProbe, Answers, Stale
<1>4. CASE backend = "Hopscotch"
  BY <1>4, HopscotchProbe DEF TablesInv, IndexProbe
<1>. QED
  BY <1>1, <1>2, <1>3, <1>4 DEF TablesInv

-----------------------------------------------------------------------------
(* The promise of JoinTable.                                               *)

TableGiven == IF index_phase = "threw" THEN {} ELSE Range(entries) \union Range(index_entries)
TableContent ==
  IF index_phase = "ready" THEN UNION {Range(IndexProbe(k)) : k \in IndexKey}
  ELSE IF phase = "ready" THEN UNION {Matches(Probe(k), k) : k \in Key}
  ELSE {}

TableLists == EntryLists \union {PageEntries(pages) : pages \in PageLists} \union IndexLists

LEMMA EmptyRange == Range(<<>>) = {}
BY DEF Range

\* The rows of all keys are the rows of the list.
LEMMA RowsOfAllKeys ==
  ASSUME NEW es \in Seq(IndexRow)
  PROVE  UNION {Range(RowsOf(es, k)) : k \in IndexKey} = Range(es)
<1>1. \A e \in Range(es) : e.key \in IndexKey
  BY KeysOfRows DEF Range, IndexRow
<1>2. \A k \in IndexKey : Range(RowsOf(es, k)) = {e \in Range(es) : e.key = k}
  BY RowsOfKey
<1>. HIDE DEF Range
<1>. QED
  BY <1>1, <1>2

LEMMA MatchesOfAllKeys ==
  ASSUME NEW es \in Seq(Entry)
  PROVE  UNION {Matches(es, k) : k \in Key} = Range(es)
<1>1. \A e \in Range(es) : e.key \in Key
  <2>. SUFFICES ASSUME NEW e \in Range(es) PROVE e.key \in Key
    OBVIOUS
  <2>1. PICK p \in DOMAIN es : e = es[p]
    BY DEF Range
  <2>2. es[p] \in Entry
    BY SMT
  <2>. QED
    BY ONLY <2>1, <2>2 DEF Entry
<1>. HIDE DEF Range
<1>. QED
  BY ONLY <1>1, SMT DEF Matches

\* Between builds the contents are what was given, during one nothing.
LEMMA ContentIsGiven ==
  TablesInv /\ ~Stale => TableContent = IF Building THEN {} ELSE TableGiven
<1>. SUFFICES ASSUME TablesInv, ~Stale
              PROVE  TableContent = IF Building THEN {} ELSE TableGiven
  OBVIOUS
<1>1. entries \in Seq(Entry) /\ phase \in {"ready", "count", "prefix", "scatter"} /\ ProbeExact
  BY ProbesExact DEF TablesInv, IInv, Types
<1>2. phase = "ready" => UNION {Matches(Probe(k), k) : k \in Key} = Range(entries)
  <2>. SUFFICES ASSUME phase = "ready"
                PROVE  UNION {Matches(Probe(k), k) : k \in Key} = Range(entries)
    OBVIOUS
  <2>1. \A k \in Key : Matches(Probe(k), k) = Matches(entries, k)
    BY <1>1 DEF ProbeExact
  <2>2. {Matches(Probe(k), k) : k \in Key} = {Matches(entries, k) : k \in Key}
    BY <2>1
  <2>. QED
    BY <1>1, <2>2, MatchesOfAllKeys
<1>3. CASE backend = "Unchained"
  <2>1. index_phase = "empty" /\ index_entries = <<>>
    BY <1>3 DEF TablesInv, NoIndex
  <2>2. TableGiven = Range(entries)
    BY <2>1, EmptyRange DEF TableGiven
  <2>. QED
    BY <1>2, <2>1, <2>2 DEF TableContent, Building
<1>4. CASE backend # "Unchained"
  <2>1. /\ phase = "ready" /\ entries = <<>>
        /\ NoRows \/ RobinHoodFilled \/ CuckooFilled \/ HopscotchFilled
    BY <1>4 DEF TablesInv, RobinHoodInv, CuckooInv, HopscotchInv
  <2>2. /\ index_entries \in Seq(IndexRow)
        /\ index_phase = "empty" => index_entries = <<>>
        /\ index_phase \in {"empty", "ready", "insert", "seek", "move", "threw"}
    <3>1. CASE NoRows
      BY <3>1 DEF NoRows
    <3>2. CASE RobinHoodFilled
      BY <3>2 DEF RobinHoodFilled, Grouped, IndexOf
    <3>3. CASE CuckooFilled
      BY <3>3 DEF CuckooFilled, Grouped, IndexOf
    <3>4. CASE HopscotchFilled
      BY <3>4 DEF HopscotchFilled, Grouped, IndexOf
    <3>. QED
      BY <2>1, <3>1, <3>2, <3>3, <3>4
  <2>3. /\ TableGiven = IF index_phase = "threw" THEN {} ELSE Range(index_entries)
        /\ UNION {Matches(Probe(k), k) : k \in Key} = {}
    BY <1>2, <2>1, EmptyRange DEF TableGiven
  <2>4. CASE index_phase = "ready"
    <3>1. \A k \in IndexKey : IndexProbe(k) = RowsOf(index_entries, k)
      BY <2>4, TablesProbe
    <3>2. {Range(IndexProbe(k)) : k \in IndexKey} = {Range(RowsOf(index_entries, k)) : k \in IndexKey}
      BY <3>1
    <3>3. TableContent = Range(index_entries)
      BY <2>2, <2>4, <3>2, RowsOfAllKeys DEF TableContent
    <3>. QED
      BY <2>1, <2>3, <2>4, <3>3 DEF Building
  <2>5. CASE index_phase = "empty"
    BY <2>1, <2>2, <2>3, <2>5, EmptyRange DEF TableContent, Building
  <2>6. CASE index_phase \in {"insert", "seek", "move", "threw"}
    BY <2>1, <2>3, <2>6 DEF TableContent, Building
  <2>. QED
    BY <2>2, <2>4, <2>5, <2>6
<1>. QED
  BY <1>3, <1>4

\* What a step does to the build in progress and what it was given.
Starts == ~Building /\ Building' /\ \E es \in TableLists : TableGiven' = Range(es)
Ends == Building /\ ~Building' /\ TableGiven' = TableGiven
Fails == Building /\ ~Building' /\ TableGiven' = {}
Drops == ~Building /\ ~Building' /\ TableGiven' = {}
Idles == Building' = Building /\ TableGiven' = TableGiven /\ Stale' = Stale

LEMMA UnchainedDoes ==
  ASSUME TablesInv, UnchainedNext
  PROVE  Starts \/ Ends \/ Fails \/ Drops \/ Idles
<1>1. /\ Next /\ index_phase = "empty" /\ index_entries = <<>>
      /\ index_phase' = "empty" /\ index_entries' = <<>>
      /\ Stale = FALSE /\ Stale' = FALSE
  BY DEF Stale, TablesInv, NoIndex, UnchainedNext, indexVars, common
<1>2. /\ TableGiven = Range(entries) /\ TableGiven' = Range(entries')
      /\ Building = (phase # "ready") /\ Building' = (phase' # "ready")
  BY <1>1, EmptyRange DEF TableGiven, Building
<1>3. ASSUME NEW asked \in Capacities, Reserve(asked) PROVE Drops
  BY <1>2, <1>3, EmptyRange DEF Reserve, Drops
<1>4. CASE BuildNothing
  BY <1>2, <1>4, EmptyRange DEF BuildNothing, Drops
<1>5. ASSUME NEW es \in EntryLists, BuildFromEntries(es) PROVE Starts
  <2>1. es \in TableLists
    BY DEF TableLists
  <2>. QED
    BY <1>2, <1>5, <2>1 DEF BuildFromEntries, StartBuild, Starts
<1>6. ASSUME NEW pages \in PageLists, BuildFromPages(pages) PROVE Starts
  <2>1. PageEntries(pages) \in TableLists
    BY DEF TableLists
  <2>. QED
    BY <1>2, <1>6, <2>1 DEF BuildFromPages, StartBuild, Starts
<1>7. CASE CountEntry \/ StartPrefix \/ PrefixSlot \/ AllocateTuples \/ ScatterEntry
  <2>1. phase # "ready" /\ phase' # "ready" /\ entries' = entries
    BY <1>7 DEF CountEntry, StartPrefix, PrefixSlot, AllocateTuples, ScatterEntry
  <2>. QED
    BY <1>1, <1>2, <2>1 DEF Idles
<1>8. CASE FinishBuild
  BY <1>2, <1>8 DEF FinishBuild, Ends
<1>. QED
  BY <1>1, <1>3, <1>4, <1>5, <1>6, <1>7, <1>8 DEF Next

\* The tables of index entries: what a step does to their phase.
Inserting == {"insert", "seek", "move"}

BuildsAgain ==
  index_phase \notin Inserting /\ index_phase' \in Inserting /\ index_entries' \in IndexLists
Clears == index_phase \notin Inserting /\ index_phase' = "ready" /\ index_entries' = <<>>
Inserts ==
  /\ index_phase \in Inserting /\ index_phase' \in Inserting \union {"ready", "threw"}
  /\ UNCHANGED <<backend, index_entries, storage>>

LEMMA IndexDoes ==
  ASSUME phase = "ready", phase' = "ready", entries = <<>>, entries' = <<>>,
         BuildsAgain \/ Clears \/ Inserts
  PROVE  Starts \/ Ends \/ Fails \/ Drops \/ Idles
<1>1. /\ TableGiven = IF index_phase = "threw" THEN {} ELSE Range(index_entries)
      /\ TableGiven' = IF index_phase' = "threw" THEN {} ELSE Range(index_entries')
      /\ Building = (index_phase \in Inserting) /\ Building' = (index_phase' \in Inserting)
  <2>1. Range(<<>>) \union Range(index_entries) = Range(index_entries)
    BY EmptyRange
  <2>2. Range(<<>>) \union Range(index_entries') = Range(index_entries')
    BY EmptyRange
  <2>3. /\ TableGiven = IF index_phase = "threw" THEN {} ELSE Range(index_entries)
        /\ TableGiven' = IF index_phase' = "threw" THEN {} ELSE Range(index_entries')
    BY <2>1, <2>2 DEF TableGiven
  <2>4. Building = (index_phase \in Inserting) /\ Building' = (index_phase' \in Inserting)
    BY DEF Building, Inserting
  <2>. QED
    BY <2>3, <2>4
<1>2. CASE BuildsAgain
  <2>1. index_entries' \in TableLists /\ index_phase' # "threw"
    BY <1>2 DEF TableLists, BuildsAgain, Inserting
  <2>. QED
    BY <1>1, <1>2, <2>1 DEF Starts, BuildsAgain
<1>3. CASE Clears
  BY <1>1, <1>3, EmptyRange DEF Drops, Clears, Inserting
<1>4. CASE Inserts
  <2>1. Stale' = Stale
    BY <1>4 DEF Inserts, Stale
  <2>2. index_phase # "threw" /\ index_phase' \in Inserting \union {"ready", "threw"}
    BY <1>4 DEF Inserts, Inserting
  <2>3. index_phase' \in Inserting => index_phase' # "threw"
    BY DEF Inserting
  <2>. QED
    BY <1>1, <1>4, <2>1, <2>2, <2>3 DEF Ends, Fails, Idles, Inserts
<1>. QED
  BY <1>2, <1>3, <1>4

LEMMA TableDoes ==
  ASSUME TablesInv, [TablesNext]_tablesVars
  PROVE  Starts \/ Ends \/ Fails \/ Drops \/ Idles
<1>1. CASE UnchainedNext
  BY <1>1, UnchainedDoes
<1>2. CASE UNCHANGED tablesVars
  <2>1. UNCHANGED <<backend, phase, entries, index_phase, index_entries, storage>>
    BY <1>2 DEF tablesVars, vars, indexVars, common
  <2>. QED
    BY <2>1 DEF Idles, TableGiven, Building, Stale
<1>3. CASE RobinHoodNext
  <2>1. /\ RobinHood!Next /\ backend = "RobinHood"
        /\ backend' = backend /\ phase' = phase /\ entries' = entries
    BY <1>3 DEF RobinHoodNext, vars
  <2>2. phase = "ready" /\ entries = <<>> /\ index_phase \in {"empty", "insert", "ready"}
    BY <2>1 DEF TablesInv, RobinHoodInv, NoRows, RobinHoodFilled
  <2>3. BuildsAgain \/ Clears \/ Inserts
    BY <2>1, <2>2 DEF RobinHood!Next, RobinHood!Build, RobinHood!BuildNothing, RobinHood!InsertStep,
                RobinHood!Place, RobinHood!Advance, RobinHood!Rehash, RobinHood!GivesUp,
                RobinHood!StartInfo, BuildsAgain, Clears, Inserts, Inserting
  <2>. QED
    BY <2>1, <2>2, <2>3, IndexDoes
<1>4. CASE CuckooNext
  <2>1. /\ Cuckoo!Next /\ backend = "Cuckoo"
        /\ backend' = backend /\ phase' = phase /\ entries' = entries
    BY <1>4 DEF CuckooNext, vars
  <2>2. phase = "ready" /\ entries = <<>> /\ index_phase \in {"empty", "insert", "ready", "threw"}
    BY <2>1 DEF TablesInv, CuckooInv, NoRows, CuckooFilled
  <2>3. BuildsAgain \/ Clears \/ Inserts
    BY <2>1, <2>2 DEF Cuckoo!Next, Cuckoo!Build, Cuckoo!BuildNothing, Cuckoo!Place, Cuckoo!Displace,
                Cuckoo!Rehash, Cuckoo!GivesUp, Cuckoo!StartInfo,
                BuildsAgain, Clears, Inserts, Inserting
  <2>. QED
    BY <2>1, <2>2, <2>3, IndexDoes
<1>5. CASE HopscotchNext
  <2>1. /\ Hopscotch!Next /\ backend = "Hopscotch"
        /\ backend' = backend /\ phase' = phase /\ entries' = entries
    BY <1>5 DEF HopscotchNext, vars
  <2>2. phase = "ready" /\ entries = <<>> /\ index_phase \in {"empty", "seek", "move", "ready"}
    BY <2>1 DEF TablesInv, HopscotchInv, NoRows, HopscotchFilled
  <2>3. BuildsAgain \/ Clears \/ Inserts
    BY <2>1, <2>2 DEF Hopscotch!Next, Hopscotch!Build, Hopscotch!BuildNothing, Hopscotch!Seek,
                Hopscotch!MoveSlotCloser, Hopscotch!Place, Hopscotch!Grow, Hopscotch!Assign,
                BuildsAgain, Clears, Inserts, Inserting
  <2>. QED
    BY <2>1, <2>2, <2>3, IndexDoes
<1>. QED
  BY <1>1, <1>2, <1>3, <1>4, <1>5 DEF TablesNext

\* Each step is one of the promise's, or none of its business, or leaves a stale table.
LEMMA PromiseStep ==
  ASSUME TablesInv, TablesInv', [TablesNext]_tablesVars
  PROVE  [PromisedStep]_(Promise!tableVars)
<1>. SUFFICES ASSUME ~Stale' PROVE [Promise!Next]_Promise!tableVars
  BY DEF PromisedStep
<1>1. /\ ~Stale => TableContent = IF Building THEN {} ELSE TableGiven
      /\ TableContent' = IF Building' THEN {} ELSE TableGiven'
  <2>1. ~Stale => TableContent = IF Building THEN {} ELSE TableGiven
    BY ContentIsGiven
  <2>2. (TablesInv /\ ~Stale => TableContent = IF Building THEN {} ELSE TableGiven)'
    BY ContentIsGiven, PTL
  <2>. QED
    BY <2>1, <2>2
<1>2. CASE Starts
  <2>1. /\ ~Building /\ Building' = TRUE
        /\ TableGiven' \in {Range(es) : es \in TableLists} /\ TableContent' = {}
    BY <1>1, <1>2 DEF Starts, Building
  <2>. QED
    BY <2>1 DEF Promise!Next, Promise!StartBuild, TableGiven, TableContent, TableLists
<1>3. CASE Ends
  <2>1. Building /\ Building' = FALSE /\ TableContent' = TableGiven /\ UNCHANGED TableGiven
    BY <1>1, <1>3 DEF Ends
  <2>. QED
    BY <2>1 DEF Promise!Next, Promise!FinishBuild, TableGiven, TableContent
<1>4. CASE Fails
  <2>1. Building /\ Building' = FALSE /\ TableContent' = {} /\ TableGiven' = {}
    BY <1>1, <1>4 DEF Fails
  <2>. QED
    BY <2>1 DEF Promise!Next, Promise!FailBuild, TableGiven, TableContent
<1>5. CASE Drops
  <2>1. ~Building /\ ~Building' /\ TableGiven' = {}
    BY <1>5 DEF Drops
  <2>2. TableContent' = {}
    BY ONLY <1>1, <2>1
  <2>3. Building' = Building
    BY ONLY <2>1 DEF Building
  <2>. QED
    BY <2>1, <2>2, <2>3 DEF Promise!Next, Promise!Discard, TableGiven, TableContent
<1>6. CASE Idles
  <2>1. Building' = Building /\ TableGiven' = TableGiven /\ TableContent' = TableContent
    BY <1>1, <1>6 DEF Idles
  <2>. QED
    BY <2>1 DEF Promise!tableVars, TableGiven, TableContent
<1>. QED
  BY <1>2, <1>3, <1>4, <1>5, <1>6, TableDoes

LEMMA PromiseInit == TablesInit => Promise!Init
<1>. SUFFICES ASSUME TablesInit PROVE Promise!Init
  OBVIOUS
<1>1. /\ phase = "ready" /\ entries = <<>> /\ index_phase = "empty" /\ index_entries = <<>>
  BY DEF TablesInit, Init, NoIndex, RobinHood!Init, Cuckoo!Init, Hopscotch!Init
<1>2. ~Building /\ TableGiven = {}
  BY <1>1, EmptyRange DEF Building, TableGiven
<1>3. TableContent = {}
  <2>1. entries \in Seq(Entry) /\ ProbeExact
    BY TablesInitInv, ProbesExact DEF TablesInv, IInv, Types
  <2>2. \A k \in Key : Matches(Probe(k), k) = Matches(entries, k)
    BY <1>1, <2>1 DEF ProbeExact
  <2>3. UNION {Matches(Probe(k), k) : k \in Key} = Range(entries)
    BY <2>1, <2>2, MatchesOfAllKeys
  <2>. QED
    BY <1>1, <2>3, EmptyRange DEF TableContent
<1>. QED
  BY <1>2, <1>3 DEF Promise!Init, Building, TableGiven, TableContent

-----------------------------------------------------------------------------
\* hashtable_interface.h and the four tables behind it: at every step of every
\* build, whatever the hash functions are, the state has its types; an index entry
\* names rows of the storage, and a directory has a legal size.
THEOREM TablesTypesHold == TablesSpec => []TablesTypeOK
BY TablesInvariant, TablesTypes, PTL

\* robinhood.h, cuckoo.h, hopscotch.h: swapping, throwing out, moving and growing,
\* an insertion drops no entry and leaves no copy, and every entry stays where a
\* probe looks for it.
THEOREM EntriesStayReachable == TablesSpec => []EntriesReachable
BY TablesInvariant, TablesReach, PTL

\* The probe of each: as many rows as the key has in the list the table was built from
\* last, and they are its rows, all of them, in their order.  A Robin Hood or cuckoo
\* table built again before it was cleared answers with older rows at their places.
THEOREM IndexProbesExact == TablesSpec => []IndexProbeExact
<1>1. TablesInv => IndexProbeExact
  BY TablesProbe DEF IndexProbeExact
<1>. QED
  BY <1>1, TablesInvariant, PTL

\* robinhood.h, insert_key_info: with a quarter of the slots free one is found, so that
\* neither the rehash nor the exception it may end in is ever reached.
THEOREM RobinHoodAlwaysInserts == TablesSpec => [](backend = "RobinHood" => RobinHood!NeverGivesUp)
<1>1. TablesInv => (backend = "RobinHood" => RobinHood!NeverGivesUp)
  BY RobinHoodNeverGivesUp DEF TablesInv
<1>. QED
  BY <1>1, TablesInvariant, PTL

\* hashtable_interface.h: whichever table is compiled in implements what a join asks of
\* its build side; the unchained and hopscotch tables through any sequence of reserves
\* and builds, the other two up to a build that finds rows of another in the storage.
THEOREM TablesKeepPromise == TablesSpec => ImplementsTable
<1>1. TablesInit => Promise!Init
  BY PromiseInit
<1>2. TablesInv /\ TablesInv' /\ [TablesNext]_tablesVars => [PromisedStep]_(Promise!tableVars)
  BY PromiseStep
<1>3. TablesSpec => TablesInit /\ [][TablesNext]_tablesVars
  BY PTL DEF TablesSpec
<1>. QED
  BY <1>1, <1>2, <1>3, TablesInvariant, PTL DEF ImplementsTable
=============================================================================
