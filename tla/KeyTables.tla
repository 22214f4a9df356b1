----------------------------- MODULE KeyTables ------------------------------
(* The four tables a join can be compiled with, behind the interface it uses *)
(* (hashtable_interface.h): the unchained table, and the three that hold one *)
(* index entry per key.  One of them is compiled in; whichever it is, it     *)
(* keeps the promise of JoinTable, the Robin Hood and cuckoo tables as long   *)
(* as no build finds rows of an earlier one in their storage.                *)
EXTENDS UnchainedTable, KeyIndex

CONSTANTS
  IndexKey, IndexLists,                      \* keys and lists of the tables of index entries
  RobinHoodHash, CuckooHash, HopscotchHash,  \* the hash functions of each backend
  MaxRehashAttempts, MaxDisplacements, NeighborhoodSize, MinCapacity,
  MaxStorage                                 \* bound of the model

\* A row of a key.
IndexRow == [key : IndexKey, row : Nat]

\* The hash functions are whatever the backend makes of its keys.
ASSUME IndexAssumption ==
  /\ IndexKey \subseteq Int
  /\ \A es \in IndexLists : es \in Seq(IndexRow)
  /\ \A h \in RobinHoodHash : h \in [IndexKey -> Nat]
  /\ \A h \in CuckooHash : \A t \in 1 .. 2 : h[t] \in [IndexKey -> Nat]
  /\ \A h \in HopscotchHash : h \in [IndexKey -> Nat]
  /\ MaxRehashAttempts \in Nat \ {0} /\ MaxDisplacements \in Nat
  /\ NeighborhoodSize \in Nat \ {0} /\ MinCapacity \in Nat /\ NeighborhoodSize <= MinCapacity

VARIABLES
  backend,                                       \* the one compiled in
  hash, index_entries, index_infos, index_phase, capacity, storage, inserted,
  current_info, rehash_attempt,                  \* of Robin Hood and cuckoo
  table,                                         \* of Robin Hood and hopscotch
  current_slot, attempts,                        \* of Robin Hood
  tables, turn, displacements,                   \* of cuckoo
  hop_map, empty_slot                            \* of hopscotch

common == <<hash, index_entries, index_infos, index_phase, capacity, storage, inserted>>
robinHoodOnly == <<current_slot, attempts>>
cuckooOnly == <<tables, turn, displacements>>
hopscotchOnly == <<hop_map, empty_slot>>
indexVars == <<common, current_info, rehash_attempt, table, robinHoodOnly, cuckooOnly,
               hopscotchOnly>>
tablesVars == <<backend, vars, indexVars>>

RobinHood == INSTANCE RobinHood WITH
  Key <- IndexKey, EntryLists <- IndexLists, Hash <- RobinHoodHash,
  entries <- index_entries, phase <- index_phase
Cuckoo == INSTANCE Cuckoo WITH
  Key <- IndexKey, EntryLists <- IndexLists, HashPair <- CuckooHash,
  entries <- index_entries, phase <- index_phase
Hopscotch == INSTANCE Hopscotch WITH
  Key <- IndexKey, EntryLists <- IndexLists, CompositeKeys <- HopscotchHash,
  make_ckey <- hash, slots <- index_infos,
  entries <- index_entries, phase <- index_phase

\* No table of index entries: what the variables are when another backend is compiled in.
NoIndex ==
  /\ hash = << >> /\ index_entries = <<>> /\ index_infos = <<>> /\ storage = <<>>
  /\ index_phase = "empty" /\ capacity = 0 /\ inserted = 0

TablesInit ==
  /\ Init
  /\ table = << >> /\ current_info = Free /\ rehash_attempt = 0
  /\ current_slot = 0 /\ attempts = 0
  /\ tables = <<<< >>, << >>>> /\ turn = 1 /\ displacements = 0
  /\ hop_map = << >> /\ empty_slot = 0
  /\ \/ backend = "Unchained" /\ NoIndex
     \/ backend = "RobinHood" /\ RobinHood!Init
     \/ backend = "Cuckoo" /\ Cuckoo!Init
     \/ backend = "Hopscotch" /\ Hopscotch!Init

UnchainedNext ==
  /\ backend = "Unchained"
  /\ Next
  /\ UNCHANGED <<backend, indexVars>>

RobinHoodNext ==
  /\ backend = "RobinHood"
  /\ RobinHood!Next
  /\ UNCHANGED <<backend, vars, cuckooOnly, hopscotchOnly>>

CuckooNext ==
  /\ backend = "Cuckoo"
  /\ Cuckoo!Next
  /\ UNCHANGED <<backend, vars, table, robinHoodOnly, hopscotchOnly>>

HopscotchNext ==
  /\ backend = "Hopscotch"
  /\ Hopscotch!Next
  /\ UNCHANGED <<backend, vars, current_info, rehash_attempt, robinHoodOnly, cuckooOnly>>

TablesNext == UnchainedNext \/ RobinHoodNext \/ CuckooNext \/ HopscotchNext

Building == phase # "ready" \/ index_phase \in {"insert", "seek", "move"}

\* One thread builds the table, and nothing it does waits for another.
Fairness == WF_tablesVars(Building /\ TablesNext)

TablesSpec == TablesInit /\ [][TablesNext]_tablesVars /\ Fairness

-----------------------------------------------------------------------------
IndexProbe(k) ==
  CASE backend = "RobinHood" -> RobinHood!Probe(k)
    [] backend = "Cuckoo"    -> Cuckoo!Probe(k)
    [] backend = "Hopscotch" -> Hopscotch!Probe(k)

\* The types of the backend's state; in particular every index entry names rows
\* of the storage array, and the directory has one of its legal sizes.
TablesTypeOK ==
  /\ backend \in {"Unchained", "RobinHood", "Cuckoo", "Hopscotch"}
  /\ TypeOK
  /\ \A n \in DOMAIN index_infos :
       index_infos[n].start_index + index_infos[n].count <= Len(storage)
  /\ backend = "RobinHood" => RobinHood!TypeOK
  /\ backend = "Cuckoo" => Cuckoo!TypeOK
  /\ backend = "Hopscotch" => Hopscotch!TypeOK

\* While a table is built every entry inserted so far is in one slot, and a probe
\* will find it there: Robin Hood entries follow one at most one slot nearer to its
\* home, cuckoo entries are in one of their two slots, hopscotch bitmaps name the
\* entries of their homes and nothing else.
EntriesReachable ==
  /\ backend = "RobinHood" => RobinHood!NothingDropped /\ RobinHood!RobinHoodOrder
  /\ backend = "Cuckoo" => Cuckoo!NothingDropped /\ Cuckoo!InHome
  /\ backend = "Hopscotch" => Hopscotch!NothingDropped /\ Hopscotch!HopMapExact

\* An insertion is given up only when it must: never in a Robin Hood table, whose
\* free quarter makes the rehash and its exception unreachable, and in a cuckoo
\* table only when the entries cannot all have slots.
GivesUpJustified ==
  /\ backend = "RobinHood" => RobinHood!NeverGivesUp
  /\ backend = "Cuckoo" => Cuckoo!GivesUpOnlyOnCycles

\* The storage of a Robin Hood or cuckoo table that was built again without being
\* cleared: the rows of the last list follow older ones, and the index entries,
\* which count from 0, are of the old ones.
Stale == backend \in {"RobinHood", "Cuckoo"} /\ storage # Storage(index_entries)

\* A probe of a table of index entries returns as many rows as its key has, and
\* they are the rows of its key, all of them, in their order, unless the table is
\* stale.
IndexProbeExact ==
  index_phase = "ready" =>
    \A k \in IndexKey : /\ Len(IndexProbe(k)) = Len(RowsOf(index_entries, k))
                        /\ ~Stale => IndexProbe(k) = RowsOf(index_entries, k)

\* A build ends: in a table large enough keys have homes of their own, and the
\* backends that may not come to one throw.
BuildTerminates == Building ~> ~Building

Promise == INSTANCE JoinTable WITH
  EntrySet <- {Range(es) : es \in EntryLists \union {PageEntries(pages) : pages \in PageLists}
                                    \union IndexLists},
  building <- Building,
  given    <- IF index_phase = "threw" THEN {} ELSE Range(entries) \union Range(index_entries),
  content  <- IF index_phase = "ready" THEN UNION {Range(IndexProbe(k)) : k \in IndexKey}
              ELSE IF phase = "ready" THEN UNION {Matches(Probe(k), k) : k \in Key}
              ELSE {}

\* A step of the promise, or one to a stale table.
PromisedStep == Promise!Next \/ Stale'

\* Whichever backend is compiled in keeps the promise the join relies on.  The
\* unchained and hopscotch tables do through any sequence of reserves and builds;
\* the Robin Hood and cuckoo tables do while they are not stale: in the first build,
\* which is all a join asks for, and in each one after they have been cleared.
ImplementsTable == Promise!Init /\ [][PromisedStep]_(Promise!tableVars)
=============================================================================
