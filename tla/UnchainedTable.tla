--------------------------- MODULE UnchainedTable ---------------------------
(***************************************************************************)
(* The default build side of a join: FlatUnchainedHashTable                 *)
(* (parallel_unchained_hashtable.h) behind its wrapper.  Tuples lie in one  *)
(* array, grouped by the slot their hash's top bits select; the directory   *)
(* holds the end of each group, and a 16-bit Bloom tag per slot lets most   *)
(* probes without a match return early.                                     *)
(*                                                                          *)
(* The hash is abstract: SlotOf gives its top bits for each directory size, *)
(* TagOf the Bloom bits it sets.  A build is a sequence of loops and each   *)
(* iteration is a step.                                                     *)
(***************************************************************************)
EXTENDS Pages, FiniteSets, Functions

CONSTANTS
  Key,           \* join keys; 0 is one of them, the key of a blank tuple
  MinDirSize,    \* kMinDirSize, also the size the constructor allocates
  MaxDirSize,    \* kMaxDirSize
  TargetBucket,  \* kTargetBucket
  SlotOf,        \* SlotOf[d][k]: (h >> shift_) & dir_mask_ with a directory of d slots
  TagOf,         \* Bloom::make_tag_from_hash: the bits a key's hash sets
  EntryLists,    \* arguments of build_from_entries
  PageLists,     \* columns given to build_from_zero_copy_int32, as pages of keys
  Capacities     \* arguments of reserve

Entry == [key : Key, row_id : Nat]

\* entry_type{}, what tuples_.assign fills the array with
Blank == [key |-> 0, row_id |-> 0]

PowersOfTwo == {2 ^ n : n \in 0 .. MaxDirSize}

\* The directory size reserve(capacity) settles on.
next_pow2(v) == CHOOSE p \in PowersOfTwo : p >= v /\ \A q \in PowersOfTwo : q >= v => p <= q

DirSizeFor(capacity) ==
  LET average == capacity \div TargetBucket
      desired == next_pow2(IF average < MinDirSize THEN MinDirSize ELSE average)
  IN  IF desired > MaxDirSize THEN MaxDirSize ELSE desired

\* The tuples the page loops visit, in order, with the row ids they are given.
PageEntries(pages) ==
  LET upto[p \in 0 .. Len(pages)] ==
        IF p = 0 THEN <<>>
        ELSE upto[p - 1] \o
             [s \in 1 .. Len(pages[p]) |-> [key |-> pages[p][s],
                                            row_id |-> PageOffsets(pages)[p - 1] + s - 1]]
  IN  upto[Len(pages)]

\* The lists a build may be given, and the sizes a directory may have.
Lists == EntryLists \union {PageEntries(pages) : pages \in PageLists}
DirSizes == {MinDirSize} \union {DirSizeFor(capacity) : capacity \in Capacities}

\* A row has one entry in a list, and the top bits of a hash select a slot.
ASSUME EntryAssumption ==
  /\ 0 \in Key
  /\ \A es \in Lists : es \in Seq(Entry) /\ IsInjective(es)

ASSUME SlotAssumption ==
  /\ \A d \in DirSizes : d \in Nat \ {0} /\ SlotOf[d] \in [Key -> 0 .. d - 1]
  /\ Key \subseteq DOMAIN TagOf

\* The least and the largest size are powers of two (2 ^ 10 and 2 ^ 18), and there
\* are more of them than any capacity needs.
ASSUME SizeAssumption ==
  /\ PowersOfTwo \subseteq Nat
  /\ MinDirSize \in PowersOfTwo /\ MaxDirSize \in PowersOfTwo /\ MinDirSize <= MaxDirSize
  /\ TargetBucket \in Nat \ {0}
  /\ \A capacity \in Capacities :
       capacity \in Nat /\ \E p \in PowersOfTwo : capacity \div TargetBucket <= p

VARIABLES
  dir_size,           \* dir_size_ (dir_mask_ and shift_ follow it)
  directory_offsets,  \* END pointer of each slot's tuples
  bloom_filters,      \* Bloom tag of each slot
  counts, write_ptrs, \* the reusable buffers of the build
  tuples,             \* tuples_
  phase,              \* the loop a build is in; "ready" between builds
  entries,            \* the tuples being built, or built last
  i,                  \* loop variable
  cumulative          \* running total of the prefix-sum loop

vars == <<dir_size, directory_offsets, bloom_filters, counts, write_ptrs, tuples,
          phase, entries, i, cumulative>>

Slots == 0 .. dir_size - 1
ZeroSlots(d) == [s \in 0 .. d - 1 |-> 0]
NoBits(d) == [s \in 0 .. d - 1 |-> {}]
Slot(k) == SlotOf[dir_size][k]

Init ==
  /\ dir_size = MinDirSize
  /\ directory_offsets = ZeroSlots(MinDirSize)
  /\ bloom_filters = NoBits(MinDirSize)
  /\ counts = ZeroSlots(MinDirSize)
  /\ write_ptrs = ZeroSlots(MinDirSize)
  /\ tuples = <<>>
  /\ phase = "ready"
  /\ entries = <<>>
  /\ i = 0
  /\ cumulative = 0

\* reserve(): a change of size reallocates and zeroes every per-slot buffer.
Reserve(capacity) ==
  /\ phase = "ready"
  /\ DirSizeFor(capacity) # dir_size
  /\ dir_size' = DirSizeFor(capacity)
  /\ directory_offsets' = ZeroSlots(dir_size')
  /\ bloom_filters' = NoBits(dir_size')
  /\ counts' = ZeroSlots(dir_size')
  /\ write_ptrs' = ZeroSlots(dir_size')
  /\ entries' = <<>>
  /\ UNCHANGED <<tuples, phase, i, cumulative>>

\* No entries, no rows or no pages: clear the table and return.
BuildNothing ==
  /\ phase = "ready"
  /\ directory_offsets' = ZeroSlots(dir_size)
  /\ bloom_filters' = NoBits(dir_size)
  /\ tuples' = <<>>
  /\ entries' = <<>>
  /\ UNCHANGED <<dir_size, counts, write_ptrs, phase, i, cumulative>>

StartBuild(es) ==
  /\ phase = "ready"
  /\ es # <<>>
  /\ entries' = es
  /\ directory_offsets' = ZeroSlots(dir_size)
  /\ bloom_filters' = NoBits(dir_size)
  /\ counts' = ZeroSlots(dir_size)
  /\ phase' = "count"
  /\ i' = 1
  /\ UNCHANGED <<dir_size, write_ptrs, tuples, cumulative>>

BuildFromEntries(es) == StartBuild(es)

BuildFromPages(pages) == StartBuild(PageEntries(pages))

\* (Definitions whose name ends in _bug are plausible mistakes, used by no
\* specification; each property is shown to reject one.)  A tuple's Bloom bits
\* replace those of the slot's earlier tuples.
CountEntry_bug ==
  /\ phase = "count"
  /\ i <= Len(entries)
  /\ LET k == entries[i].key
     IN  /\ counts' = [counts EXCEPT ![Slot(k)] = @ + 1]
         /\ bloom_filters' = [bloom_filters EXCEPT ![Slot(k)] = TagOf[k]]
  /\ i' = i + 1
  /\ UNCHANGED <<dir_size, directory_offsets, write_ptrs, tuples, phase, entries, cumulative>>

\* Step 1: count the tuples of each slot and set their Bloom bits.
CountEntry ==
  /\ phase = "count"
  /\ i <= Len(entries)
  /\ LET k == entries[i].key
     IN  /\ counts' = [counts EXCEPT ![Slot(k)] = @ + 1]
         /\ bloom_filters' = [bloom_filters EXCEPT ![Slot(k)] = @ \union TagOf[k]]
  /\ i' = i + 1
  /\ UNCHANGED <<dir_size, directory_offsets, write_ptrs, tuples, phase, entries, cumulative>>

StartPrefix ==
  /\ phase = "count"
  /\ i > Len(entries)
  /\ phase' = "prefix"
  /\ i' = 0
  /\ cumulative' = 0
  /\ UNCHANGED <<dir_size, directory_offsets, bloom_filters, counts, write_ptrs, tuples, entries>>

\* Step 2: prefix sums, the END pointer of each slot.
PrefixSlot ==
  /\ phase = "prefix"
  /\ i < dir_size
  /\ cumulative' = cumulative + counts[i]
  /\ directory_offsets' = [directory_offsets EXCEPT ![i] = cumulative']
  /\ i' = i + 1
  /\ UNCHANGED <<dir_size, bloom_filters, counts, write_ptrs, tuples, phase, entries>>

\* Slots are written from their own END pointer.
AllocateTuples_bug ==
  /\ phase = "prefix"
  /\ i = dir_size
  /\ tuples' = [t \in 1 .. cumulative |-> Blank]
  /\ write_ptrs' = directory_offsets
  /\ phase' = "scatter"
  /\ i' = 1
  /\ UNCHANGED <<dir_size, directory_offsets, bloom_filters, counts, entries, cumulative>>

\* Step 3: allocate the tuples; each slot is written from the end of the previous one.
AllocateTuples ==
  /\ phase = "prefix"
  /\ i = dir_size
  /\ tuples' = [t \in 1 .. cumulative |-> Blank]
  /\ write_ptrs' = [s \in Slots |-> IF s = 0 THEN 0 ELSE directory_offsets[s - 1]]
  /\ phase' = "scatter"
  /\ i' = 1
  /\ UNCHANGED <<dir_size, directory_offsets, bloom_filters, counts, entries, cumulative>>

\* Step 4: copy each tuple to the next free place of its slot.
ScatterEntry ==
  /\ phase = "scatter"
  /\ i <= Len(entries)
  /\ LET s == Slot(entries[i].key)
     IN  /\ tuples' = [tuples EXCEPT ![write_ptrs[s] + 1] = entries[i]]
         /\ write_ptrs' = [write_ptrs EXCEPT ![s] = @ + 1]
  /\ i' = i + 1
  /\ UNCHANGED <<dir_size, directory_offsets, bloom_filters, counts, phase, entries, cumulative>>

FinishBuild ==
  /\ phase = "scatter"
  /\ i > Len(entries)
  /\ phase' = "ready"
  /\ UNCHANGED <<dir_size, directory_offsets, bloom_filters, counts, write_ptrs, tuples,
                 entries, i, cumulative>>

Next ==
  \/ \E capacity \in Capacities : Reserve(capacity)
  \/ BuildNothing
  \/ \E es \in EntryLists : BuildFromEntries(es)
  \/ \E pages \in PageLists : BuildFromPages(pages)
  \/ CountEntry \/ StartPrefix \/ PrefixSlot \/ AllocateTuples
  \/ ScatterEntry \/ FinishBuild

Spec == Init /\ [][Next]_vars

-----------------------------------------------------------------------------
\* probe(): the range of tuples of the key's slot, empty when the Bloom bits say no.
SlotBegin(s) == IF s = 0 THEN 0 ELSE directory_offsets[s - 1]

MaybeContains(bloom, tag) == tag \subseteq bloom

Probe(k) ==
  IF MaybeContains(bloom_filters[Slot(k)], TagOf[k])
    THEN SubSeq(tuples, SlotBegin(Slot(k)) + 1, directory_offsets[Slot(k)])
    ELSE <<>>

TypeOK ==
  /\ dir_size \in PowersOfTwo /\ MinDirSize <= dir_size /\ dir_size <= MaxDirSize
  /\ directory_offsets \in [Slots -> Nat]
  /\ bloom_filters \in [Slots -> SUBSET UNION Range(TagOf)]
  /\ counts \in [Slots -> Nat]
  /\ write_ptrs \in [Slots -> Nat]
  /\ tuples \in Seq(Entry)
  /\ phase \in {"ready", "count", "prefix", "scatter"}
  /\ entries \in Seq(Entry)
  /\ i \in Nat /\ cumulative \in Nat

Matches(s, k) == {e \in Range(s) : e.key = k}

\* Between builds a probe finds every entry of its key once: no false negative
\* from the Bloom bits or the directory, no leftover of an earlier build, no
\* blank tuple that looks like key 0, no entry twice.
ProbeExact ==
  phase = "ready" =>
    \A k \in Key :
      /\ Matches(Probe(k), k) = Matches(entries, k)
      /\ \A p, q \in DOMAIN Probe(k) :
           p # q /\ Probe(k)[p].key = k => Probe(k)[p] # Probe(k)[q]

\* The copy loop writes inside the range the directory gives the tuple's slot,
\* hence inside tuples_ and never over a tuple of another slot.
ScatterInSlot ==
  phase = "scatter" /\ i <= Len(entries) =>
    LET s == Slot(entries[i].key)
    IN  SlotBegin(s) <= write_ptrs[s] /\ write_ptrs[s] < directory_offsets[s]
        /\ directory_offsets[s] <= Len(tuples)
=============================================================================
