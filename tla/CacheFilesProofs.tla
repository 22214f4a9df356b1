-------------------------- MODULE CacheFilesProofs --------------------------
(***************************************************************************)
(* Proofs about CacheFiles for any tables, queries and failures: what a     *)
(* file holds is always a prefix of its table's dump, a table mapped from a *)
(* complete file is the table that was dumped, files only ever grow, under  *)
(* the program that creates them, and every mapping and every page of the   *)
(* heap belongs to the columns that refer to it.                            *)
(***************************************************************************)
EXTENDS CacheFiles, PagesProofs, FiniteSetTheorems

-----------------------------------------------------------------------------
(* The heap and the mappings.                                              *)

\* Addresses are positive numbers below some bound.
HeapTyped(heap) ==
  /\ heap = [at \in DOMAIN heap |-> heap[at]]
  /\ \A at \in DOMAIN heap : at \in Nat \ {0}
  /\ \E bound \in Nat : \A at \in DOMAIN heap : at <= bound

Mapping == [file : File, refs : Int, mapped : BOOLEAN]

MemoryTyped(mem) ==
  /\ mem = [maps |-> mem.maps, heap |-> mem.heap]
  /\ mem.maps \in Seq(Mapping)
  /\ HeapTyped(mem.heap)

\* A set of numbers that has 0 and a bound has a greatest number.
LEMMA Greatest ==
  ASSUME NEW S, 0 \in S, \A a \in S : a \in Nat, NEW bound \in Nat, \A a \in S : a <= bound
  PROVE  Max(S) \in Nat /\ \A a \in S : a <= Max(S)
<1>. DEFINE N == {n \in Nat : (\A a \in S : a <= n) => \E x \in S : \A y \in S : x >= y}
<1>1. 0 \in N
  OBVIOUS
<1>2. ASSUME NEW n \in Nat, n \in N PROVE n + 1 \in N
  <2>1. CASE n + 1 \in S
    BY <2>1
  <2>2. CASE n + 1 \notin S
    <3>1. SUFFICES ASSUME \A a \in S : a <= n + 1 PROVE \E x \in S : \A y \in S : x >= y
      OBVIOUS
    <3>2. \A a \in S : a <= n
      <4>. TAKE a \in S
      <4>1. a \in Nat /\ a <= n + 1 /\ a # n + 1
        BY <2>2, <3>1
      <4>. QED
        BY <4>1
    <3>. QED
      BY <1>2, <3>2
  <2>. QED
    BY <2>1, <2>2
<1>3. bound \in N
  <2>. HIDE DEF N
  <2>. QED
    BY <1>1, <1>2, Induction
<1>4. \E x \in S : \A y \in S : x >= y
  BY <1>3
<1>5. Max(S) \in S /\ \A y \in S : Max(S) >= y
  BY <1>4 DEF Max
<1>. QED
  BY <1>5

LEMMA FreeAddress ==
  ASSUME NEW mem, HeapTyped(mem.heap)
  PROVE  FirstFree(mem) \in Nat \ {0} /\ \A at \in DOMAIN mem.heap : at < FirstFree(mem)
<1>. DEFINE S == DOMAIN mem.heap \union {0}
<1>1. PICK bound \in Nat : \A at \in DOMAIN mem.heap : at <= bound
  BY DEF HeapTyped
<1>2. 0 \in S /\ (\A a \in S : a \in Nat) /\ (\A a \in S : a <= bound)
  BY <1>1 DEF HeapTyped
<1>3. Max(S) \in Nat /\ \A a \in S : a <= Max(S)
  <2>. HIDE DEF S
  <2>. QED
    BY <1>2, Greatest
<1>4. FirstFree(mem) = Max(S) + 1
  BY DEF FirstFree
<1>5. \A at \in DOMAIN mem.heap : at \in S /\ at \in Nat
  BY DEF HeapTyped
<1>. HIDE DEF S
<1>. QED
  BY <1>3, <1>4, <1>5

\* A table read from heap pages.
OnHeap(heap, table, contents) ==
  /\ DOMAIN table = DOMAIN contents
  /\ \A c \in DOMAIN contents :
       /\ DOMAIN table[c].pages = DOMAIN contents[c]
       /\ \A p \in DOMAIN contents[c] :
            /\ table[c].pages[p].map = 0
            /\ table[c].pages[p].at \in DOMAIN heap
            /\ heap[table[c].pages[p].at] = contents[c][p]

\* What stays on a heap that gets more pages.
LEMMA OnLargerHeap ==
  ASSUME NEW heap, NEW larger, NEW table, NEW contents, OnHeap(heap, table, contents),
         \A at \in DOMAIN heap : at \in DOMAIN larger /\ larger[at] = heap[at]
  PROVE  OnHeap(larger, table, contents)
BY DEF OnHeap

Address == [map : Nat, at : Nat \ {0}]
ColumnType == {column \in [mapped_memory : Nat, pages : Seq(Address)] : IsColumn(column)}
TableType == Seq(ColumnType) \ {<<>>}

LEMMA NewHeap ==
  ASSUME NEW mem, mem = [maps |-> mem.maps, heap |-> mem.heap], NEW heap
  PROVE  [mem EXCEPT !.heap = heap] = [maps |-> mem.maps, heap |-> heap]
OBVIOUS

\* new_page for every page of a table: the pages hold its contents, those that were
\* there before hold what they held.
LEMMA NewPages ==
  ASSUME NEW V, NEW contents \in Seq(Seq(V)), contents # <<>>, NEW mem, MemoryTyped(mem)
  PROVE  /\ MemoryTyped(Allocated(mem, contents))
         /\ Allocated(mem, contents).maps = mem.maps
         /\ \A at \in DOMAIN mem.heap :
              /\ at \in DOMAIN Allocated(mem, contents).heap
              /\ Allocated(mem, contents).heap[at] = mem.heap[at]
         /\ OnHeap(Allocated(mem, contents).heap, NewColumns(mem, contents), contents)
         /\ NewColumns(mem, contents) \in TableType
<1>. DEFINE rows == Rows(contents)
            off == PageOffsets(contents)
            first == FirstFree(mem)
            heap == Allocated(mem, contents).heap
            table == NewColumns(mem, contents)
            old == DOMAIN mem.heap
            new == first .. first + Len(rows) - 1
<1>1. first \in Nat \ {0} /\ \A at \in old : at < first /\ at \in Nat \ {0}
  BY FreeAddress DEF MemoryTyped, HeapTyped
<1>2. /\ Len(contents) \in Nat /\ DOMAIN contents = 1 .. Len(contents)
      /\ \A c \in 1 .. Len(contents) :
           Len(contents[c]) \in Nat /\ contents[c] \in Seq(V) /\ DOMAIN contents[c] = 1 .. Len(contents[c])
      /\ \A c \in 0 .. Len(contents) : off[c] \in Nat
  BY OffsetsAscend
<1>3. /\ rows \in Seq(V) /\ Len(rows) \in Nat
      /\ \A c \in 1 .. Len(contents) : \A p \in 1 .. Len(contents[c]) :
           off[c - 1] + p \in 1 .. Len(rows) /\ rows[off[c - 1] + p] = contents[c][p]
  BY RowsOfPages
<1>4. heap = [at \in old \union new |-> IF at \in new THEN rows[at - first + 1] ELSE mem.heap[at]]
  <2>. DEFINE fresh == [at \in new |-> rows[at - first + 1]]
  <2>1. Allocated(mem, contents) =
          [mem EXCEPT !.heap = [at \in DOMAIN @ \union DOMAIN fresh |->
                                  IF at \in DOMAIN fresh THEN fresh[at] ELSE @[at]]]
    BY DEF Allocated
  <2>2. DOMAIN fresh = new /\ \A at \in new : fresh[at] = rows[at - first + 1]
    OBVIOUS
  <2>3. heap = [at \in old \union DOMAIN fresh |-> IF at \in DOMAIN fresh THEN fresh[at] ELSE mem.heap[at]]
    <3>. HIDE DEF fresh
    <3>. QED
      BY <2>1 DEF MemoryTyped
  <2>. QED
    BY <2>2, <2>3
<1>5. /\ Allocated(mem, contents) = [maps |-> mem.maps, heap |-> heap]
      /\ Allocated(mem, contents).maps = mem.maps
  <2>. DEFINE heap2 == [at \in DOMAIN mem.heap \union new |->
                          IF at \in new THEN [a \in new |-> rows[a - first + 1]][at] ELSE mem.heap[at]]
  <2>1. Allocated(mem, contents) = [mem EXCEPT !.heap = heap2]
    BY DEF Allocated
  <2>2. mem = [maps |-> mem.maps, heap |-> mem.heap]
    BY DEF MemoryTyped
  <2>. HIDE DEF heap2
  <2>3. Allocated(mem, contents) = [maps |-> mem.maps, heap |-> heap2]
    BY <2>1, <2>2, NewHeap
  <2>. QED
    BY <2>3
<1>6. /\ DOMAIN table = 1 .. Len(contents)
      /\ \A c \in 1 .. Len(contents) :
           table[c] = [mapped_memory |-> 0,
                       pages |-> [p \in DOMAIN contents[c] |->
                                    [map |-> 0, at |-> first + off[c - 1] + p - 1]]]
  BY <1>2 DEF NewColumns
<1>7. \A c \in 1 .. Len(contents) :
        /\ table[c].mapped_memory = 0
        /\ DOMAIN table[c].pages = 1 .. Len(contents[c])
        /\ \A p \in 1 .. Len(contents[c]) :
             table[c].pages[p].map = 0 /\ table[c].pages[p].at = first + off[c - 1] + p - 1
  BY <1>2, <1>6
<1>. HIDE DEF rows, off, first, heap, table
<1>8. \A at \in old : at \notin new /\ at \in DOMAIN heap /\ heap[at] = mem.heap[at]
  BY <1>1, <1>3, <1>4
<1>9. \A i \in 1 .. Len(rows) : first + i - 1 \in DOMAIN heap /\ heap[first + i - 1] = rows[i]
  <2>. TAKE i \in 1 .. Len(rows)
  <2>1. first + i - 1 \in new /\ (first + i - 1) - first + 1 = i
    BY <1>1, <1>3
  <2>. QED
    BY <1>4, <2>1
<1>10. ASSUME NEW c \in 1 .. Len(contents), NEW p \in 1 .. Len(contents[c])
       PROVE  /\ table[c].pages[p].at \in DOMAIN heap
              /\ heap[table[c].pages[p].at] = contents[c][p]
              /\ table[c].pages[p].at \in Nat \ {0}
  <2>1. off[c - 1] \in Nat
    BY <1>2
  <2>2. PICK i \in 1 .. Len(rows) : i = off[c - 1] + p /\ rows[i] = contents[c][p]
    BY <1>3
  <2>3. table[c].pages[p].at = first + off[c - 1] + p - 1
    BY <1>7
  <2>5. Len(rows) \in Nat /\ i \in Nat /\ p \in Int
    BY <1>3
  <2>6. first + off[c - 1] + p - 1 = first + i - 1
    <3>. DEFINE o == off[c - 1]
    <3>1. first \in Int /\ o \in Int /\ i = o + p
      BY <1>1, <2>1, <2>2
    <3>. HIDE DEF o
    <3>2. first + o + p - 1 = first + (o + p) - 1
      BY <2>5, <3>1
    <3>. QED
      BY <3>1, <3>2 DEF o
  <2>4. first + i - 1 \in Nat \ {0}
    BY <1>1, <1>3
  <2>. QED
    BY <1>9, <2>2, <2>3, <2>4, <2>6
<1>11. HeapTyped(heap)
  <2>1. heap = [at \in DOMAIN heap |-> heap[at]]
    BY <1>4
  <2>2. \A at \in DOMAIN heap : at \in Nat \ {0} /\ at <= first + Len(rows)
    BY <1>1, <1>3, <1>4
  <2>3. first + Len(rows) \in Nat
    BY <1>1, <1>3
  <2>. QED
    BY <2>1, <2>2, <2>3 DEF HeapTyped
<1>12. OnHeap(heap, table, contents)
  BY <1>2, <1>6, <1>7, <1>10 DEF OnHeap
<1>13. ASSUME NEW c \in 1 .. Len(contents)
       PROVE  table[c] \in ColumnType
  <2>. DEFINE pages == [p \in 1 .. Len(contents[c]) |-> [map |-> 0, at |-> first + off[c - 1] + p - 1]]
  <2>1. table[c] = [mapped_memory |-> 0, pages |-> pages]
    BY <1>2, <1>6
  <2>2. \A p \in 1 .. Len(contents[c]) :
          table[c].pages[p].map = 0 /\ table[c].pages[p].at \in Nat \ {0}
    BY <1>7, <1>10
  <2>3. \A p \in 1 .. Len(contents[c]) : pages[p] \in Address
    <3>. TAKE p \in 1 .. Len(contents[c])
    <3>. DEFINE at == first + off[c - 1] + p - 1
    <3>1. pages[p] = [map |-> 0, at |-> at]
      OBVIOUS
    <3>2. table[c].pages[p].at = at
      BY <1>7
    <3>. HIDE DEF at
    <3>. QED
      BY <2>2, <3>1, <3>2 DEF Address
  <2>4. DOMAIN pages = 1 .. Len(contents[c]) /\ pages = [p \in 1 .. Len(contents[c]) |-> pages[p]]
    OBVIOUS
  <2>. HIDE DEF pages
  <2>5. pages \in Seq(Address)
    <3>. DEFINE n == Len(contents[c])
    <3>1. n \in Nat
      BY <1>2
    <3>2. \A p \in 1 .. n : pages[p] \in Address
      BY <2>3
    <3>3. pages = [p \in 1 .. n |-> pages[p]]
      BY <2>4
    <3>. HIDE DEF n
    <3>4. pages \in [1 .. n -> Address]
      BY <3>2, <3>3
    <3>. QED
      BY <3>1, <3>4
  <2>6. table[c] \in [mapped_memory : Nat, pages : Seq(Address)]
    BY <2>1, <2>5
  <2>7. table[c].mapped_memory = 0 /\ DOMAIN table[c].pages = 1 .. Len(contents[c])
    BY <1>7
  <2>8. IsColumn(table[c])
    BY <2>2, <2>7 DEF IsColumn
  <2>. QED
    BY <2>6, <2>8 DEF ColumnType
<1>14. table \in Seq(ColumnType) /\ Len(table) = Len(contents)
  <2>1. table = [c \in 1 .. Len(contents) |-> table[c]]
    BY <1>2 DEF table, NewColumns
  <2>. QED
    BY <1>2, <1>13, <2>1
<1>15. table # <<>>
  BY <1>2, <1>14
<1>16. table \in TableType
  BY <1>14, <1>15 DEF TableType
<1>17. MemoryTyped(Allocated(mem, contents))
  BY <1>5, <1>11 DEF MemoryTyped
<1>. QED
  BY <1>5, <1>8, <1>12, <1>16, <1>17 DEF heap, table

\* The mappings that are there keep their files.
SameFiles(mem, other) ==
  /\ Len(mem.maps) <= Len(other.maps)
  /\ \A m \in 1 .. Len(mem.maps) : other.maps[m].file = mem.maps[m].file

LEMMA MapsLength ==
  ASSUME NEW mem, MemoryTyped(mem)
  PROVE  /\ Len(mem.maps) \in Nat /\ DOMAIN mem.maps = 1 .. Len(mem.maps)
         /\ SameFiles(mem, mem)
BY DEF MemoryTyped, SameFiles

LEMMA NewMaps ==
  ASSUME NEW mem, mem = [maps |-> mem.maps, heap |-> mem.heap], NEW maps
  PROVE  [mem EXCEPT !.maps = maps] = [maps |-> maps, heap |-> mem.heap]
OBVIOUS

LEMMA MapAdded ==
  ASSUME NEW mem, MemoryTyped(mem), NEW f \in File
  PROVE  /\ MemoryTyped(Map(mem, f)) /\ SameFiles(mem, Map(mem, f))
         /\ Map(mem, f).heap = mem.heap
         /\ Len(Map(mem, f).maps) = Len(mem.maps) + 1
         /\ Map(mem, f).maps[Len(mem.maps) + 1].file = f
<1>. DEFINE new == [file |-> f, refs |-> 0, mapped |-> TRUE]
            maps == Append(mem.maps, new)
<1>1. Map(mem, f) = [maps |-> maps, heap |-> mem.heap]
  <2>1. Map(mem, f) = [mem EXCEPT !.maps = maps]
    BY DEF Map
  <2>. HIDE DEF maps
  <2>. QED
    BY <2>1, NewMaps DEF MemoryTyped
<1>2. new \in Mapping
  BY DEF Mapping
<1>3. /\ maps \in Seq(Mapping) /\ Len(mem.maps) \in Nat /\ Len(maps) = Len(mem.maps) + 1
      /\ \A m \in 1 .. Len(mem.maps) : maps[m] = mem.maps[m]
      /\ maps[Len(mem.maps) + 1] = new
  <2>. HIDE DEF new
  <2>. QED
    BY <1>2 DEF MemoryTyped
<1>4. maps[Len(mem.maps) + 1].file = f
  BY <1>3
<1>. HIDE DEF maps
<1>. QED
  BY <1>1, <1>3, <1>4 DEF MemoryTyped, SameFiles

\* Another reference, or one less, leaves a mapping its file.
LEMMA MapChanged ==
  ASSUME NEW mem, MemoryTyped(mem), NEW m, NEW new,
         m \in DOMAIN mem.maps => new \in Mapping /\ new.file = mem.maps[m].file
  PROVE  /\ [mem.maps EXCEPT ![m] = new] \in Seq(Mapping)
         /\ Len([mem.maps EXCEPT ![m] = new]) = Len(mem.maps)
         /\ \A k \in 1 .. Len(mem.maps) : [mem.maps EXCEPT ![m] = new][k].file = mem.maps[k].file
<1>. DEFINE maps == [mem.maps EXCEPT ![m] = new]
<1>1. /\ DOMAIN mem.maps = 1 .. Len(mem.maps) /\ Len(mem.maps) \in Nat
      /\ \A i \in 1 .. Len(mem.maps) : mem.maps[i] \in Mapping
  BY DEF MemoryTyped
<1>2. \A i \in 1 .. Len(mem.maps) : maps[i] \in Mapping /\ maps[i].file = mem.maps[i].file
  BY <1>1
<1>3. maps = [i \in 1 .. Len(mem.maps) |-> maps[i]]
  BY <1>1
<1>. HIDE DEF maps
<1>4. maps \in Seq(Mapping) /\ Len(maps) = Len(mem.maps)
  BY <1>1, <1>2, <1>3
<1>. QED
  BY <1>2, <1>4 DEF maps

LEMMA MappingCounted ==
  ASSUME NEW old \in Mapping
  PROVE  /\ [old EXCEPT !.refs = @ + 1] \in Mapping
         /\ [old EXCEPT !.refs = @ + 1].file = old.file
         /\ Released(old) \in Mapping /\ Released(old).file = old.file
<1>1. PICK f \in File, refs \in Int, mapped \in BOOLEAN :
        old = [file |-> f, refs |-> refs, mapped |-> mapped]
  BY DEF Mapping
<1>2. [old EXCEPT !.refs = @ + 1] = [file |-> f, refs |-> refs + 1, mapped |-> mapped]
  BY <1>1
<1>3. Released(old) = [file |-> f, refs |-> refs - 1, mapped |-> mapped /\ refs # 1]
  BY <1>1 DEF Released
<1>4. refs + 1 \in Int /\ refs - 1 \in Int /\ (mapped /\ refs # 1) \in BOOLEAN /\ old.file = f
  BY <1>1
<1>. QED
  BY <1>2, <1>3, <1>4 DEF Mapping

LEMMA ReferenceCounted ==
  ASSUME NEW mem, MemoryTyped(mem), mem.maps # <<>>
  PROVE  /\ MemoryTyped(Assign(mem)) /\ SameFiles(mem, Assign(mem))
         /\ Assign(mem).heap = mem.heap /\ Len(Assign(mem).maps) = Len(mem.maps)
<1>. DEFINE m == Len(mem.maps)
            old == mem.maps[m]
            new == [old EXCEPT !.refs = @ + 1]
            maps == [mem.maps EXCEPT ![m] = new]
<1>1. m \in DOMAIN mem.maps => old \in Mapping
  BY DEF MemoryTyped
<1>2. m \in DOMAIN mem.maps => new \in Mapping /\ new.file = mem.maps[m].file
  BY <1>1, MappingCounted
<1>3. Assign(mem) = [mem EXCEPT !.maps = maps]
  BY DEF Assign
<1>4. /\ maps \in Seq(Mapping) /\ Len(maps) = Len(mem.maps)
      /\ \A k \in 1 .. Len(mem.maps) : maps[k].file = mem.maps[k].file
  <2>. HIDE DEF new, old, m
  <2>1. MemoryTyped(mem) /\ (m \in DOMAIN mem.maps => new \in Mapping /\ new.file = mem.maps[m].file)
    BY <1>2
  <2>2. maps \in Seq(Mapping)
    BY <2>1, MapChanged
  <2>3. Len(maps) = Len(mem.maps)
    BY <2>1, MapChanged
  <2>4. \A k \in 1 .. Len(mem.maps) : maps[k].file = mem.maps[k].file
    BY <2>1, MapChanged
  <2>. QED
    BY <2>2, <2>3, <2>4
<1>. HIDE DEF new, maps
<1>5. Assign(mem) = [maps |-> maps, heap |-> mem.heap]
  BY <1>3, NewMaps DEF MemoryTyped
<1>6. Len(mem.maps) \in Nat
  BY DEF MemoryTyped
<1>. QED
  BY <1>4, <1>5, <1>6 DEF MemoryTyped, SameFiles

LEMMA Destroyed ==
  ASSUME NEW mem, MemoryTyped(mem), NEW column
  PROVE  MemoryTyped(Destroy(mem, column))
<1>. DEFINE m == column.mapped_memory
<1>1. CASE m # 0
  <2>. DEFINE old == mem.maps[m]
              new == Released(old)
              maps == [mem.maps EXCEPT ![m] = new]
  <2>1. m \in DOMAIN mem.maps => old \in Mapping
    BY DEF MemoryTyped
  <2>2. m \in DOMAIN mem.maps => new \in Mapping /\ new.file = mem.maps[m].file
    BY <2>1, MappingCounted
  <2>3. Destroy(mem, column) = [mem EXCEPT !.maps = maps]
    BY <1>1 DEF Destroy
  <2>4. maps \in Seq(Mapping)
    <3>. HIDE DEF new, old
    <3>. QED
      BY <2>2, MapChanged, Zenon
  <2>. HIDE DEF new, maps
  <2>5. Destroy(mem, column) = [maps |-> maps, heap |-> mem.heap]
    BY <2>3, NewMaps DEF MemoryTyped
  <2>. QED
    BY <2>4, <2>5 DEF MemoryTyped
<1>2. CASE m = 0
  <2>. DEFINE rest == DOMAIN mem.heap \ HeapPages(column)
              heap == [at \in rest |-> mem.heap[at]]
  <2>1. Destroy(mem, column) = [mem EXCEPT !.heap = heap]
    BY <1>2 DEF Destroy, Restrict
  <2>2. HeapTyped(heap)
    BY DEF MemoryTyped, HeapTyped
  <2>. HIDE DEF heap
  <2>3. Destroy(mem, column) = [maps |-> mem.maps, heap |-> heap]
    BY <2>1, NewHeap DEF MemoryTyped
  <2>. QED
    BY <2>2, <2>3 DEF MemoryTyped
<1>. QED
  BY <1>1, <1>2

\* What the move constructor leaves has nothing to give back.
LEMMA MovedOut ==
  ASSUME NEW mem, MemoryTyped(mem), NEW column
  PROVE  Destroy(mem, MovedFrom(column)) = mem
<1>1. HeapPages(MovedFrom(column)) = {} /\ MovedFrom(column).mapped_memory = 0
  BY DEF HeapPages, MovedFrom
<1>2. Restrict(mem.heap, DOMAIN mem.heap \ {}) = mem.heap
  BY DEF Restrict, MemoryTyped, HeapTyped
<1>3. Destroy(mem, MovedFrom(column)) = [mem EXCEPT !.heap = mem.heap]
  BY <1>1, <1>2 DEF Destroy
<1>. QED
  BY <1>3 DEF MemoryTyped

LEMMA VectorGrown ==
  ASSUME NEW mem, MemoryTyped(mem), NEW list, Len(list) \in Nat
  PROVE  Grown(mem, list) = mem
<1>. DEFINE Is(after) == after = [n \in 0 .. Len(list) |->
                           IF n = 0 THEN mem ELSE Destroy(after[n - 1], MovedFrom(list[n]))]
            same == [n \in 0 .. Len(list) |-> mem]
            after == CHOOSE f : Is(f)
            S == {n \in Nat : n <= Len(list) => after[n] = mem}
<1>1. Is(same)
  <2>1. \A n \in 0 .. Len(list) : n # 0 => Destroy(same[n - 1], MovedFrom(list[n])) = mem
    BY MovedOut
  <2>. QED
    BY <2>1
<1>2. Is(after)
  <2>. HIDE DEF Is, same
  <2>. QED
    BY <1>1
<1>3. Grown(mem, list) = after[Len(list)]
  BY DEF Grown
<1>. HIDE DEF after
<1>4. 0 \in S
  BY <1>2
<1>5. ASSUME NEW n \in Nat, n \in S PROVE n + 1 \in S
  <2>1. SUFFICES ASSUME n + 1 <= Len(list) PROVE after[n + 1] = mem
    OBVIOUS
  <2>2. n <= Len(list) /\ n + 1 \in 0 .. Len(list) /\ n + 1 # 0 /\ n + 1 - 1 = n
    BY <2>1
  <2>3. after[n + 1] = Destroy(after[n], MovedFrom(list[n + 1]))
    BY <1>2, <2>2
  <2>4. after[n] = mem
    BY <1>5, <2>2
  <2>. QED
    BY <2>3, <2>4, MovedOut
<1>6. Len(list) \in S
  <2>. HIDE DEF S
  <2>. QED
    BY <1>4, <1>5, Induction
<1>. QED
  BY <1>3, <1>6

-----------------------------------------------------------------------------
(* What a dump is, and what from_cache makes of it.                        *)

\* Blocks are in a sequence; which blocks does not matter here.
InSequence(blocks) == \E S : blocks \in Seq(S)

LEMMA TableTyped ==
  ASSUME NEW f \in File
  PROVE  /\ Table[f] \in Seq(Seq(Page)) /\ Table[f] # <<>>
         /\ Len(Table[f]) \in Nat /\ DOMAIN Table[f] = 1 .. Len(Table[f])
         /\ Table[f] = [c \in 1 .. Len(Table[f]) |-> Table[f][c]]
         /\ \A c \in 1 .. Len(Table[f]) :
              /\ Len(Table[f][c]) \in Nat
              /\ Table[f][c] = [p \in 1 .. Len(Table[f][c]) |-> Table[f][c][p]]
              /\ DOMAIN Table[f][c] = 1 .. Len(Table[f][c])
              /\ PageOffsets(Table[f])[c - 1] \in Nat
<1>1. Table[f] \in Seq(Seq(Page)) /\ Table[f] # <<>>
  BY CacheAssumption
<1>. DEFINE table == Table[f]
<1>. HIDE DEF table
<1>2. table \in Seq(Seq(Page)) /\ table # <<>>
  BY <1>1 DEF table
<1>3. \A p \in 0 .. Len(table) : PageOffsets(table)[p] \in Nat
  BY <1>2, OffsetsAscend
<1>4. \A c \in 1 .. Len(table) : table[c] \in Seq(Page)
  BY <1>2
<1>5. /\ Len(table) \in Nat /\ DOMAIN table = 1 .. Len(table)
      /\ table = [c \in 1 .. Len(table) |-> table[c]]
  BY <1>2
<1>6. \A c \in 1 .. Len(table) :
         /\ Len(table[c]) \in Nat
         /\ table[c] = [p \in 1 .. Len(table[c]) |-> table[c][p]]
         /\ DOMAIN table[c] = 1 .. Len(table[c])
  BY <1>4
<1>7. \A c \in 1 .. Len(table) : PageOffsets(table)[c - 1] \in Nat
  BY <1>3, <1>5
<1>. QED
  BY <1>2, <1>5, <1>6, <1>7 DEF table

LEMMA DumpOfTable ==
  ASSUME NEW f \in File
  PROVE  /\ InSequence(Dump(Table[f]))
         /\ Len(Dump(Table[f])) \in Nat /\ Len(Dump(Table[f])) >= 1
         /\ Dump(Table[f])[1] = Header(Table[f])
         /\ \A c \in 1 .. Len(Table[f]) : \A p \in 1 .. Len(Table[f][c]) :
              /\ 1 + PageOffsets(Table[f])[c - 1] + p \in 1 .. Len(Dump(Table[f]))
              /\ Dump(Table[f])[1 + PageOffsets(Table[f])[c - 1] + p] = Table[f][c][p]
<1>. DEFINE table == Table[f]
            rows == Rows(table)
            off == PageOffsets(table)
            head == Header(table)
            V == Page \union {head}
<1>1. /\ table \in Seq(Seq(Page)) /\ Len(table) \in Nat
      /\ \A c \in 1 .. Len(table) : off[c - 1] \in Nat /\ Len(table[c]) \in Nat
  BY TableTyped
<1>. HIDE DEF table
<1>2. /\ rows \in Seq(Page) /\ Len(rows) \in Nat
      /\ \A c \in 1 .. Len(table) : \A p \in 1 .. Len(table[c]) :
           off[c - 1] + p \in 1 .. Len(rows) /\ rows[off[c - 1] + p] = table[c][p]
  BY <1>1, RowsOfPages
<1>3. rows \in Seq(V)
  <2>. HIDE DEF rows
  <2>. QED
    BY <1>2, SeqMonotonic
<1>4. /\ <<head>> \in Seq(V) /\ Len(<<head>>) = 1 /\ <<head>>[1] = head
  OBVIOUS
<1>5. Dump(table) = <<head>> \o rows
  BY DEF Dump
<1>. HIDE DEF head, rows, V, off
<1>6. /\ Dump(table) \in Seq(V) /\ Len(Dump(table)) = 1 + Len(rows)
      /\ Dump(table)[1] = head
      /\ \A i \in 1 .. Len(rows) : Dump(table)[1 + i] = rows[i]
  BY <1>3, <1>4, <1>5, Concatenation
<1>7. ASSUME NEW c \in 1 .. Len(table), NEW p \in 1 .. Len(table[c])
      PROVE  /\ 1 + off[c - 1] + p \in 1 .. Len(Dump(table))
             /\ Dump(table)[1 + off[c - 1] + p] = table[c][p]
  <2>1. PICK i \in 1 .. Len(rows) : i = off[c - 1] + p /\ rows[i] = table[c][p]
    BY <1>2
  <2>2. off[c - 1] \in Nat /\ p \in Nat /\ i \in Nat
    BY <1>1, <1>2
  <2>3. 1 + off[c - 1] + p = 1 + i
    BY <2>1, <2>2
  <2>4. 1 + i \in 1 .. 1 + Len(rows)
    BY <1>2, <2>2
  <2>. QED
    BY <1>6, <2>1, <2>3, <2>4
<1>. QED
  BY <1>2, <1>6, <1>7 DEF InSequence, table, off, head

\* The columns of a table mapped from a file that holds its dump.
Mapped(m, f) ==
  [c \in 1 .. Len(Table[f]) |->
     [mapped_memory |-> m,
      pages |-> [p \in 1 .. Len(Table[f][c]) |->
                   [map |-> m, at |-> 1 + PageOffsets(Table[f])[c - 1] + p]]]]

\* A file holds as much of its table's dump as has been written.
Holds(f) ==
  /\ InSequence(disk[f].blocks)
  /\ disk[f].cut \in BOOLEAN
  /\ Len(disk[f].blocks) <= Len(Dump(Table[f]))
  /\ \A i \in 1 .. Len(disk[f].blocks) : disk[f].blocks[i] = Dump(Table[f])[i]

\* from_cache adds up the page counts it reads in the first block.
LEMMA FirstPages ==
  ASSUME file \in File, Holds(file), disk[file].blocks # <<>>
  PROVE  /\ Len(meta.num_pages) = Len(Table[file])
         /\ \A c \in 1 .. Len(Table[file]) :
              /\ meta.num_pages[c] = Len(Table[file][c])
              /\ FirstPage(c) = 2 + PageOffsets(Table[file])[c - 1]
<1>. DEFINE table == Table[file]
            off == PageOffsets(table)
<1>1. /\ table \in Seq(Seq(Page)) /\ Len(table) \in Nat /\ DOMAIN table = 1 .. Len(table)
      /\ \A c \in 1 .. Len(table) : off[c - 1] \in Nat /\ Len(table[c]) \in Nat
  BY TableTyped
<1>2. meta = Header(table)
  <2>1. 1 \in 1 .. Len(disk[file].blocks)
    BY DEF Holds, InSequence
  <2>. QED
    BY <2>1, DumpOfTable DEF Holds, meta
<1>. HIDE DEF table
<1>3. meta.num_pages = [c \in 1 .. Len(table) |-> Len(table[c])]
  BY <1>1, <1>2 DEF Header
<1>4. /\ Len(meta.num_pages) = Len(table)
      /\ \A c \in 1 .. Len(table) : meta.num_pages[c] = Len(table[c])
  BY <1>1, <1>3
<1>5. /\ off[0] = 0
      /\ \A c \in 1 .. Len(table) : off[c] = off[c - 1] + Len(table[c])
  BY <1>1, OffsetsAscend
<1>. HIDE DEF off
<1>6. ASSUME NEW c \in 1 .. Len(table)
      PROVE  FirstPage(c) = 2 + off[c - 1]
  <2>. DEFINE Is(data) == data = [d \in 1 .. c |->
                            IF d = 1 THEN 2 ELSE data[d - 1] + meta.num_pages[d - 1]]
              sum == [d \in 1 .. c |-> 2 + off[d - 1]]
              data == CHOOSE g : Is(g)
              S == {n \in Nat : n + 1 <= c => data[n + 1] = 2 + off[n]}
  <2>1. Is(sum)
    <3>1. ASSUME NEW d \in 1 .. c
          PROVE  sum[d] = IF d = 1 THEN 2 ELSE sum[d - 1] + meta.num_pages[d - 1]
      <4>1. CASE d = 1
        BY <1>5, <4>1
      <4>2. CASE d # 1
        <5>1. d - 1 \in 1 .. c /\ d - 1 \in 1 .. Len(table)
          BY <1>1, <4>2
        <5>2. meta.num_pages[d - 1] = Len(table[d - 1]) /\ Len(table[d - 1]) \in Nat
          BY <1>1, <1>4, <5>1
        <5>3. off[d - 1] = off[d - 1 - 1] + Len(table[d - 1]) /\ off[d - 1 - 1] \in Nat
          BY <1>1, <1>5, <5>1
        <5>4. sum[d] = 2 + off[d - 1] /\ sum[d - 1] = 2 + off[d - 1 - 1]
          BY <5>1
        <5>. HIDE DEF sum
        <5>. QED
          BY <4>2, <5>2, <5>3, <5>4
      <4>. QED
        BY <4>1, <4>2
    <3>2. sum = [d \in 1 .. c |-> sum[d]]
      OBVIOUS
    <3>. HIDE DEF sum
    <3>. QED
      BY <3>1, <3>2
  <2>2. Is(data)
    <3>. HIDE DEF Is, sum
    <3>. QED
      BY <2>1
  <2>3. FirstPage(c) = data[c]
    BY DEF FirstPage
  <2>. HIDE DEF data
  <2>4. 0 \in S
    BY <1>5, <2>2
  <2>5. ASSUME NEW n \in Nat, n \in S PROVE n + 1 \in S
    <3>. SUFFICES ASSUME n + 1 + 1 <= c PROVE data[n + 1 + 1] = 2 + off[n + 1]
      OBVIOUS
    <3>1. /\ n + 1 + 1 \in 1 .. c /\ n + 1 + 1 # 1 /\ n + 1 + 1 - 1 = n + 1 /\ n + 1 <= c
          /\ n + 1 \in 1 .. Len(table) /\ n + 1 - 1 = n
      BY <1>1
    <3>2. data[n + 1 + 1] = data[n + 1] + meta.num_pages[n + 1]
      BY <2>2, <3>1
    <3>3. data[n + 1] = 2 + off[n]
      BY <2>5, <3>1
    <3>4. meta.num_pages[n + 1] = Len(table[n + 1]) /\ off[n + 1] = off[n] + Len(table[n + 1])
      BY <1>4, <1>5, <3>1
    <3>5. off[n] \in Nat /\ Len(table[n + 1]) \in Nat
      BY <1>1, <3>1
    <3>. QED
      BY <3>2, <3>3, <3>4, <3>5
  <2>6. c - 1 \in S
    <3>1. \A n \in Nat : n \in S
      <4>. HIDE DEF S
      <4>. QED
        BY <2>4, <2>5, Induction
    <3>2. c - 1 \in Nat
      BY <1>1
    <3>. QED
      BY <3>1, <3>2
  <2>7. c - 1 + 1 = c
    BY <1>1
  <2>. QED
    BY <2>3, <2>6, <2>7
<1>. QED
  BY <1>4, <1>6 DEF table, off

\* A table mapped from a complete file reads as what was dumped.
LEMMA ReadsMapped ==
  ASSUME NEW f \in File, Complete(f), NEW m \in 1 .. Len(memory.maps), Len(memory.maps) \in Nat,
         memory.maps[m].file = f, NEW table, table = Mapped(m, f)
  PROVE  Read(table) = Table[f]
<1>. DEFINE want == Table[f]
            off == PageOffsets(want)
            dump == Dump(want)
<1>1. /\ want = [c \in 1 .. Len(want) |-> want[c]]
      /\ \A c \in 1 .. Len(want) :
           Len(want[c]) \in Nat /\ want[c] = [p \in 1 .. Len(want[c]) |-> want[c][p]] /\ off[c - 1] \in Nat
  BY TableTyped
<1>2. /\ Len(dump) \in Nat
      /\ \A c \in 1 .. Len(want) : \A p \in 1 .. Len(want[c]) :
           /\ 1 + off[c - 1] + p \in 1 .. Len(dump)
           /\ dump[1 + off[c - 1] + p] = want[c][p]
  BY DumpOfTable
<1>3. disk[f].blocks = dump /\ disk[f].cut = FALSE
  BY DEF Complete
<1>4. /\ DOMAIN table = 1 .. Len(want)
      /\ \A c \in 1 .. Len(want) :
           /\ DOMAIN table[c].pages = 1 .. Len(want[c])
           /\ \A p \in 1 .. Len(want[c]) :
                table[c].pages[p] = [map |-> m, at |-> 1 + off[c - 1] + p]
  BY DEF Mapped
<1>. HIDE DEF want, off, dump
<1>5. ASSUME NEW c \in 1 .. Len(want), NEW p \in 1 .. Len(want[c])
      PROVE  PageAt(table[c].pages[p]) = want[c][p]
  <2>. DEFINE address == table[c].pages[p]
              at == 1 + off[c - 1] + p
  <2>4. address = [map |-> m, at |-> at]
    BY <1>4
  <2>1. address.map = m /\ address.at = at
    <3>. HIDE DEF address, at
    <3>. QED
      BY <2>4
  <2>2. m # 0 /\ at \in 1 .. Len(dump) /\ dump[at] = want[c][p]
    BY <1>2
  <2>. HIDE DEF address, at
  <2>3. ~Behind(address)
    BY <1>2, <1>3, <2>1, <2>2, SMTT(60) DEF Behind
  <2>. QED
    BY <1>3, <2>1, <2>2, <2>3 DEF PageAt, address
<1>6. \A c \in 1 .. Len(want) : [p \in DOMAIN table[c].pages |-> PageAt(table[c].pages[p])] = want[c]
  BY <1>1, <1>4, <1>5
<1>7. Read(table) = [c \in 1 .. Len(want) |-> [p \in DOMAIN table[c].pages |-> PageAt(table[c].pages[p])]]
  BY <1>4 DEF Read
<1>8. Read(table) = [c \in 1 .. Len(want) |-> want[c]]
  BY <1>6, <1>7
<1>. QED
  BY <1>1, <1>8 DEF want

LEMMA ReadsHeap ==
  ASSUME NEW f \in File, NEW table, OnHeap(memory.heap, table, Table[f])
  PROVE  Read(table) = Table[f]
<1>. DEFINE want == Table[f]
<1>1. /\ want = [c \in DOMAIN want |-> want[c]]
      /\ \A c \in DOMAIN want : want[c] = [p \in DOMAIN want[c] |-> want[c][p]]
  BY TableTyped
<1>2. OnHeap(memory.heap, table, want)
  OBVIOUS
<1>. HIDE DEF want
<1>3. \A c \in DOMAIN want : \A p \in DOMAIN want[c] : PageAt(table[c].pages[p]) = want[c][p]
  BY <1>2 DEF OnHeap, PageAt
<1>4. DOMAIN table = DOMAIN want /\ \A c \in DOMAIN want : DOMAIN table[c].pages = DOMAIN want[c]
  BY <1>2 DEF OnHeap
<1>5. \A c \in DOMAIN want : [p \in DOMAIN table[c].pages |-> PageAt(table[c].pages[p])] = want[c]
  BY <1>1, <1>3, <1>4
<1>6. Read(table) = [c \in DOMAIN want |-> [p \in DOMAIN table[c].pages |-> PageAt(table[c].pages[p])]]
  BY <1>4 DEF Read
<1>7. Read(table) = [c \in DOMAIN want |-> want[c]]
  BY <1>5, <1>6
<1>. QED
  BY <1>1, <1>7 DEF want

\* What build_cache writes is the dump of the table it has loaded.
LEMMA WritesDump ==
  ASSUME NEW f \in File, OnHeap(memory.heap, Last(tables), Table[f])
  PROVE  ToWrite = Dump(Table[f])
<1>. DEFINE want == Table[f]
            table == Last(tables)
<1>1. /\ want = [c \in DOMAIN want |-> want[c]]
      /\ \A c \in DOMAIN want : want[c] = [p \in DOMAIN want[c] |-> want[c][p]]
  BY TableTyped
<1>2. OnHeap(memory.heap, table, want)
  OBVIOUS
<1>. HIDE DEF want
<1>3. Contents = [c \in DOMAIN table |-> [p \in DOMAIN table[c].pages |-> memory.heap[table[c].pages[p].at]]]
  BY DEF Contents
<1>. HIDE DEF table
<1>4. /\ DOMAIN table = DOMAIN want
      /\ \A c \in DOMAIN want :
           /\ DOMAIN table[c].pages = DOMAIN want[c]
           /\ \A p \in DOMAIN want[c] : memory.heap[table[c].pages[p].at] = want[c][p]
  BY <1>2 DEF OnHeap
<1>5. \A c \in DOMAIN want : [p \in DOMAIN table[c].pages |-> memory.heap[table[c].pages[p].at]] = want[c]
  BY <1>1, <1>4
<1>6. Contents = [c \in DOMAIN want |-> want[c]]
  BY <1>3, <1>4, <1>5
<1>7. Contents = want
  BY <1>1, <1>6
<1>. QED
  BY <1>7 DEF ToWrite, want

-----------------------------------------------------------------------------
(* The invariant.                                                          *)

NumScans == Len(Scans[query])

There(f) == disk[f] # Absent \/ (stage = "dump" /\ f = file)

\* A file that is there, or is being dumped, holds a part of its dump.
FilesHold ==
  /\ DOMAIN disk = File
  /\ \A f \in File : There(f) => Holds(f)

ControlOK ==
  /\ program \in {"build_cache", "fast"}
  /\ stage \in {"stopped", "idle", "load", "dump", "map", "unwind"}
  /\ query \in Query /\ visited \in 0 .. NumScans + 1
  /\ thrown \in BOOLEAN /\ verdict \in {"none", "correct", "wrong"}
  /\ stage = "dump" => program = "build_cache" /\ visited <= NumScans
  /\ stage = "map" => program = "fast" /\ visited <= NumScans
  /\ stage \in {"stopped", "idle"} => tables = <<>>

ObjectsTyped ==
  /\ MemoryTyped(memory)
  /\ tables \in Seq(TableType)
  /\ columns \in Seq(ColumnType)

\* A table of fast that has been mapped from its file.
FromFile(mem, table, f) ==
  \E m \in 1 .. Len(mem.maps) : mem.maps[m].file = f /\ table = Mapped(m, f)

Progress ==
  \/ visited <= NumScans /\ Len(tables) = visited
  \/ visited = NumScans /\ Len(tables) = NumScans + 1
  \/ visited = NumScans + 1 /\ Len(tables) = NumScans + 2

Loaded == \A s \in 1 .. NumScans : s <= visited => FromFile(memory, tables[s], Scans[query][s])

\* The plan's result, once it has been executed on complete files.
Executed ==
  Len(tables) > NumScans /\ (\A s \in 1 .. NumScans : Complete(Scans[query][s])) =>
    OnHeap(memory.heap, tables[NumScans + 1], Table[ResultOf[query]])

Expected == visited = NumScans + 1 => FromFile(memory, tables[NumScans + 2], ResultOf[query])

LoadOK ==
  program = "fast" /\ stage \in {"load", "map"} => Progress /\ Loaded /\ Executed /\ Expected

\* The vector under construction has the first columns of the table.
MapOK ==
  stage = "map" =>
    /\ Readable(file)
    /\ memory.maps # <<>> /\ memory.maps[Len(memory.maps)].file = file
    /\ visited = NumScans => Len(tables) = NumScans + 1
    /\ Len(columns) <= Len(Table[file])
    /\ \A c \in 1 .. Len(columns) : columns[c] = Mapped(Len(memory.maps), file)[c]

\* build_cache has the table it dumps on its heap.
DumpOK == stage = "dump" => tables # <<>> /\ OnHeap(memory.heap, Last(tables), Table[file])

VerdictOK ==
  verdict # "none" =>
    /\ stage \in {"unwind", "idle", "stopped"}
    /\ (\A f \in Range(Files) : Complete(f)) => verdict = "correct"

CacheInv ==
  /\ FilesHold /\ ControlOK /\ ObjectsTyped
  /\ LoadOK /\ MapOK /\ DumpOK /\ VerdictOK

GrowsWhileDumped ==
  \A f \in File :
    disk[f] # Absent /\ disk'[f] # disk[f] =>
      stage = "dump" /\ f = file /\ IsPrefix(disk[f].blocks, disk'[f].blocks)

-----------------------------------------------------------------------------

LEMMA FilesOfQuery ==
  ASSUME query \in Query
  PROVE  /\ NumScans \in Nat /\ Len(Files) = NumScans + 1 /\ DOMAIN Scans[query] = 1 .. NumScans
         /\ \A s \in 1 .. NumScans :
              Files[s] = Scans[query][s] /\ Scans[query][s] \in File /\ Scans[query][s] \in Range(Files)
         /\ Files[NumScans + 1] = ResultOf[query] /\ ResultOf[query] \in File
         /\ ResultOf[query] \in Range(Files)
         /\ visited \in Nat /\ visited <= NumScans => file \in File
         /\ visited \in Nat /\ visited < NumScans => file = Scans[query][visited + 1]
         /\ visited = NumScans => file = ResultOf[query]
<1>. DEFINE scans == Scans[query]
            result == ResultOf[query]
            files == Append(scans, result)
            n == Len(scans)
<1>1. scans \in Seq(File) /\ result \in File
  BY CacheAssumption
<1>2. Files = files /\ NumScans = n
  BY DEF Files, NumScans
<1>. HIDE DEF scans, result
<1>3. /\ files \in Seq(File) /\ Len(files) = n + 1 /\ n \in Nat /\ DOMAIN files = 1 .. n + 1
      /\ DOMAIN scans = 1 .. n /\ files[n + 1] = result
      /\ \A s \in 1 .. n : files[s] = scans[s] /\ scans[s] \in File
  BY <1>1
<1>. HIDE DEF files, n
<1>4. \A s \in 1 .. n + 1 : files[s] \in Range(files) /\ files[s] \in File
  BY <1>3 DEF Range
<1>5. file = files[visited + 1]
  BY <1>2 DEF file
<1>6. visited \in Nat /\ visited <= n => visited + 1 \in 1 .. n + 1
  BY <1>3
<1>7. visited \in Nat /\ visited < n => visited + 1 \in 1 .. n
  BY <1>3
<1>8. visited \in Nat /\ visited <= n => file \in File
  BY <1>4, <1>5, <1>6
<1>9. visited \in Nat /\ visited < n => file = scans[visited + 1]
  BY <1>3, <1>5, <1>7
<1>10. visited = n => file = result
  BY <1>3, <1>5
<1>11. \A s \in 1 .. n : s \in 1 .. n + 1
  BY <1>3
<1>12. n + 1 \in 1 .. n + 1
  BY <1>3
<1>. QED
  BY <1>1, <1>2, <1>3, <1>4, <1>8, <1>9, <1>10, <1>11, <1>12 DEF scans, result

\* A block at the end leaves those before it.
LEMMA Appended ==
  ASSUME NEW blocks, InSequence(blocks), NEW block
  PROVE  /\ InSequence(Append(blocks, block)) /\ IsPrefix(blocks, Append(blocks, block))
         /\ Len(Append(blocks, block)) = Len(blocks) + 1 /\ Len(blocks) \in Nat
         /\ \A n \in 1 .. Len(blocks) : Append(blocks, block)[n] = blocks[n]
         /\ Append(blocks, block)[Len(blocks) + 1] = block
<1>1. PICK S : blocks \in Seq(S)
  BY DEF InSequence
<1>. DEFINE longer == Append(blocks, block)
            T == S \union {block}
<1>2. blocks \in Seq(T)
  BY <1>1, SeqMonotonic
<1>3. /\ longer \in Seq(T) /\ Len(longer) = Len(blocks) + 1 /\ Len(blocks) \in Nat
      /\ \A n \in 1 .. Len(blocks) : longer[n] = blocks[n]
      /\ longer[Len(blocks) + 1] = block
  BY <1>2
<1>. HIDE DEF longer, T
<1>4. SubSeq(blocks, 1, Len(blocks)) = SubSeq(longer, 1, Len(blocks))
  <2>1. \A n \in 1 .. Len(blocks) : blocks[1 + n - 1] = longer[1 + n - 1]
    BY <1>3
  <2>. QED
    BY <1>2, <1>3, <2>1, SubSeqProperties, SeqEqual
<1>. QED
  BY <1>3, <1>4 DEF InSequence, IsPrefix, longer

\* A step that leaves the files alone.
LEMMA FilesLeftAlone ==
  ASSUME FilesHold, disk' = disk, stage' # "dump" \/ UNCHANGED <<stage, file>>
  PROVE  FilesHold' /\ GrowsWhileDumped
BY DEF FilesHold, There, GrowsWhileDumped, Holds

\* The file being dumped gets the next block.
LEMMA WriteGrows ==
  ASSUME CacheInv, stage = "dump", NEW cut \in BOOLEAN, Write(cut), Written < Len(ToWrite),
         stage' # "dump" \/ file' = file
  PROVE  FilesHold' /\ GrowsWhileDumped
<1>. DEFINE blocks == disk[file].blocks
            dump == Dump(Table[file])
            block == dump[Written + 1]
            longer == [blocks |-> Append(blocks, block), cut |-> cut]
<1>1. file \in File
  BY FilesOfQuery DEF CacheInv, ControlOK
<1>2. ToWrite = dump
  BY <1>1, WritesDump DEF CacheInv, DumpOK
<1>3. disk' = [disk EXCEPT ![file] = longer]
  BY <1>2 DEF Write
<1>4. /\ DOMAIN disk' = File
      /\ \A f \in File : f # file => disk'[f] = disk[f]
      /\ disk'[file] = longer
  <2>. HIDE DEF longer
  <2>. QED
    BY <1>1, <1>3 DEF CacheInv, FilesHold
<1>5. /\ InSequence(blocks) /\ \A i \in 1 .. Len(blocks) : blocks[i] = dump[i]
  BY <1>1 DEF CacheInv, FilesHold, There, Holds
<1>6. Len(dump) \in Nat /\ Len(blocks) < Len(dump) /\ Written = Len(blocks)
  BY <1>1, <1>2, DumpOfTable DEF Written
<1>7. /\ disk'[file].blocks = Append(blocks, block) /\ disk'[file].cut = cut
  BY <1>4
<1>. HIDE DEF longer, blocks, dump, block
<1>8. /\ InSequence(Append(blocks, block)) /\ IsPrefix(blocks, Append(blocks, block))
      /\ Len(Append(blocks, block)) = Len(blocks) + 1 /\ Len(blocks) \in Nat
      /\ \A n \in 1 .. Len(blocks) : Append(blocks, block)[n] = blocks[n]
      /\ Append(blocks, block)[Len(blocks) + 1] = block
  BY <1>5, Appended
<1>9. \A n \in 1 .. Len(blocks) + 1 : Append(blocks, block)[n] = dump[n]
  <2>. TAKE n \in 1 .. Len(blocks) + 1
  <2>1. n \in 1 .. Len(blocks) \/ n = Len(blocks) + 1
    BY <1>8
  <2>. QED
    BY <1>5, <1>6, <1>8, <2>1 DEF block
<1>10. /\ InSequence(disk'[file].blocks) /\ disk'[file].cut \in BOOLEAN
       /\ Len(disk'[file].blocks) <= Len(dump)
       /\ \A i \in 1 .. Len(disk'[file].blocks) : disk'[file].blocks[i] = dump[i]
  BY <1>6, <1>7, <1>8, <1>9
<1>11. \A f \in File : There(f)' => Holds(f)'
  <2>. SUFFICES ASSUME NEW f \in File, There(f)' PROVE Holds(f)'
    OBVIOUS
  <2>1. CASE f = file
    BY <2>1, <1>10 DEF Holds, dump
  <2>2. CASE f # file
    BY <2>2, <1>4 DEF CacheInv, FilesHold, There, Holds
  <2>. QED
    BY <2>1, <2>2
<1>12. FilesHold'
  BY <1>4, <1>11 DEF FilesHold
<1>. QED
  BY <1>4, <1>7, <1>8, <1>12 DEF GrowsWhileDumped, blocks

\* Nothing of a verdict changes until the next query.
LEMMA VerdictKept ==
  ASSUME VerdictOK, verdict' = verdict, query' = query, verdict # "none" => disk' = disk,
         verdict # "none" => stage' \in {"unwind", "idle", "stopped"}
  PROVE  VerdictOK'
BY DEF VerdictOK, Complete, Files

\* Outside of load, dump and map only the types and the verdict matter.
LEMMA Outside ==
  ASSUME stage' \in {"unwind", "idle", "stopped"} \/ (program' = "build_cache" /\ stage' = "load"),
         FilesHold', ControlOK', ObjectsTyped', VerdictOK'
  PROVE  CacheInv'
BY DEF CacheInv, LoadOK, MapOK, DumpOK

LEMMA NothingThere == MemoryTyped(NoMemory) /\ <<>> \in Seq(TableType) /\ <<>> \in Seq(ColumnType)
<1>1. HeapTyped(<<>>)
  <2>1. DOMAIN <<>> = {} /\ <<>> = [at \in DOMAIN <<>> |-> <<>>[at]] /\ 0 \in Nat
    OBVIOUS
  <2>. QED
    BY <2>1 DEF HeapTyped
<1>2. <<>> \in Seq(Mapping) /\ <<>> \in Seq(TableType) /\ <<>> \in Seq(ColumnType)
  OBVIOUS
<1>. QED
  BY <1>1, <1>2 DEF MemoryTyped, NoMemory

LEMMA InitInv == Init => CacheInv
<1>. SUFFICES ASSUME Init PROVE CacheInv
  OBVIOUS
<1>1. query \in Query /\ stage = "stopped" /\ disk = [f \in File |-> Absent] /\ verdict = "none"
  BY DEF Init
<1>2. FilesHold
  BY <1>1 DEF FilesHold, There
<1>3. 0 \in 0 .. NumScans + 1
  BY <1>1, FilesOfQuery
<1>4. ControlOK
  <2>1. visited = 0 /\ tables = <<>> /\ thrown = FALSE /\ program = "build_cache"
    BY DEF Init
  <2>. QED
    BY <1>1, <1>3, <2>1 DEF ControlOK
<1>5. ObjectsTyped
  BY NothingThere DEF Init, ObjectsTyped
<1>. QED
  BY <1>1, <1>2, <1>4, <1>5 DEF CacheInv, LoadOK, MapOK, DumpOK, VerdictOK

\* The end of a process.
LEMMA StoppedStep ==
  ASSUME CacheInv, Stopped, FilesHold', verdict' = verdict, verdict # "none" => disk' = disk
  PROVE  CacheInv'
<1>1. NumScans' = NumScans /\ NumScans \in Nat
  BY FilesOfQuery DEF Stopped, NumScans, CacheInv, ControlOK
<1>2. ControlOK'
  <2>1. 0 \in 0 .. NumScans + 1
    BY <1>1
  <2>2. visited' \in 0 .. NumScans' + 1
    BY <1>1, <2>1 DEF Stopped
  <2>. QED
    BY <2>2 DEF Stopped, CacheInv, ControlOK
<1>3. ObjectsTyped'
  BY NothingThere DEF Stopped, ObjectsTyped
<1>4. VerdictOK'
  BY VerdictKept DEF Stopped, CacheInv
<1>. QED
  BY <1>2, <1>3, <1>4, Outside DEF Stopped

LEMMA CrashStep ==
  ASSUME CacheInv, Crash \/ Exit \/ Fault
  PROVE  CacheInv' /\ GrowsWhileDumped
<1>1. /\ Stopped /\ verdict' = verdict
      /\ disk' = disk \/ (stage = "dump" /\ Written < Len(ToWrite) /\ Write(TRUE))
  BY DEF Crash, Exit, Fault
<1>2. stage' = "stopped"
  BY <1>1 DEF Stopped
<1>3. FilesHold' /\ GrowsWhileDumped
  <2>1. CASE disk' = disk
    BY <1>2, <2>1, FilesLeftAlone DEF CacheInv
  <2>2. CASE stage = "dump" /\ Written < Len(ToWrite) /\ Write(TRUE)
    BY <1>2, <2>2, WriteGrows
  <2>. QED
    BY <1>1, <2>1, <2>2
<1>4. verdict # "none" => disk' = disk
  BY <1>1 DEF CacheInv, VerdictOK
<1>. QED
  BY <1>1, <1>3, <1>4, StoppedStep

LEMMA StartStep ==
  ASSUME CacheInv, StartProgram
  PROVE  CacheInv' /\ GrowsWhileDumped
<1>1. /\ disk' = disk /\ stage' = "idle" /\ stage = "stopped" /\ query' = query /\ verdict' = verdict
      /\ program' \in {"build_cache", "fast"}
      /\ visited' = visited /\ thrown' = thrown
      /\ memory' = memory /\ columns' = columns /\ tables' = tables
  BY DEF StartProgram, objects
<1>2. FilesHold' /\ GrowsWhileDumped
  BY <1>1, FilesLeftAlone DEF CacheInv
<1>3. NumScans' = NumScans
  BY <1>1 DEF NumScans
<1>4. ControlOK'
  BY <1>1, <1>3 DEF CacheInv, ControlOK
<1>5. ObjectsTyped'
  BY <1>1 DEF CacheInv, ObjectsTyped
<1>6. VerdictOK'
  BY <1>1, VerdictKept DEF CacheInv
<1>. QED
  BY <1>1, <1>2, <1>4, <1>5, <1>6, Outside

LEMMA EndBuildStep ==
  ASSUME CacheInv, EndBuild \/ Throw
  PROVE  CacheInv' /\ GrowsWhileDumped
<1>1. /\ disk' = disk /\ stage' = "unwind" /\ stage = "load" /\ query' = query /\ verdict' = verdict
      /\ program' = program /\ visited' = visited /\ thrown' \in {thrown, TRUE}
      /\ memory' = memory /\ columns' = columns /\ tables' = tables
  BY DEF EndBuild, Throw, NextFile, objects
<1>2. FilesHold' /\ GrowsWhileDumped
  BY <1>1, FilesLeftAlone DEF CacheInv
<1>3. NumScans' = NumScans
  BY <1>1 DEF NumScans
<1>4. ControlOK'
  BY <1>1, <1>3 DEF CacheInv, ControlOK
<1>5. ObjectsTyped'
  BY <1>1 DEF CacheInv, ObjectsTyped
<1>6. VerdictOK'
  BY <1>1, VerdictKept DEF CacheInv
<1>. QED
  BY <1>1, <1>2, <1>4, <1>5, <1>6, Outside

LEMMA DestroyStep ==
  ASSUME CacheInv, DestroyColumn
  PROVE  CacheInv' /\ GrowsWhileDumped
<1>1. /\ disk' = disk /\ stage' = "unwind" /\ stage = "unwind" /\ query' = query /\ verdict' = verdict
      /\ program' = program /\ visited' = visited /\ thrown' = thrown /\ columns' = columns
      /\ memory' = Destroy(memory, Head(Last(tables))) /\ tables # <<>>
      /\ tables' = IF Len(Last(tables)) = 1 THEN Front(tables)
                   ELSE [tables EXCEPT ![Len(tables)] = Tail(@)]
  BY DEF DestroyColumn
<1>2. FilesHold' /\ GrowsWhileDumped
  BY <1>1, FilesLeftAlone DEF CacheInv
<1>3. NumScans' = NumScans
  BY <1>1 DEF NumScans
<1>4. ControlOK'
  BY <1>1, <1>3 DEF CacheInv, ControlOK
<1>5. tables' \in Seq(TableType)
  <2>. DEFINE n == Len(tables)
              last == tables[n]
  <2>1. tables \in Seq(TableType) /\ n \in Nat \ {0} /\ last \in TableType
    BY <1>1 DEF CacheInv, ObjectsTyped
  <2>2. Last(tables) = last
    BY DEF Last
  <2>3. Front(tables) \in Seq(TableType)
    BY <2>1 DEF Front
  <2>4. Len(last) # 1 => Tail(last) \in TableType
    <3>. HIDE DEF last
    <3>1. last \in Seq(ColumnType) /\ last # <<>>
      BY <2>1 DEF TableType
    <3>2. Tail(last) \in Seq(ColumnType) /\ Len(Tail(last)) = Len(last) - 1 /\ Len(last) \in Nat
      BY <3>1
    <3>3. Len(last) # 1 => Tail(last) # <<>>
      <4>1. Len(<<>>) = 0
        OBVIOUS
      <4>2. Len(last) # 1 => Len(Tail(last)) # 0
        BY <3>2
      <4>. QED
        BY <4>1, <4>2
    <3>. QED
      BY <3>2, <3>3 DEF TableType
  <2>5. Len(last) # 1 => [tables EXCEPT ![n] = Tail(last)] \in Seq(TableType)
    <3>. DEFINE rest == Tail(last)
    <3>. HIDE DEF rest
    <3>. QED
      BY <2>1, <2>4 DEF rest
  <2>. QED
    BY <1>1, <2>2, <2>3, <2>5
<1>6. ObjectsTyped'
  BY <1>1, <1>5, Destroyed DEF CacheInv, ObjectsTyped
<1>7. VerdictOK'
  BY <1>1, VerdictKept DEF CacheInv
<1>. QED
  BY <1>1, <1>2, <1>4, <1>6, <1>7, Outside

LEMMA EndQueryStep ==
  ASSUME CacheInv, EndQuery
  PROVE  CacheInv' /\ GrowsWhileDumped
<1>1. disk' = disk /\ verdict' = verdict /\ stage = "unwind"
  BY DEF EndQuery
<1>2. CASE Stopped
  <2>1. stage' = "stopped"
    BY <1>2 DEF Stopped
  <2>2. FilesHold' /\ GrowsWhileDumped
    BY <1>1, <2>1, FilesLeftAlone DEF CacheInv
  <2>. QED
    BY <1>1, <1>2, <2>2, StoppedStep
<1>3. CASE ~Stopped
  <2>1. /\ stage' = "idle" /\ visited' = 0 /\ query' = query /\ program' = program /\ thrown' = thrown
        /\ columns' = columns /\ tables' = tables /\ tables = <<>>
        /\ memory' = [memory EXCEPT !.maps = <<>>]
    BY <1>3 DEF EndQuery
  <2>2. FilesHold' /\ GrowsWhileDumped
    BY <1>1, <2>1, FilesLeftAlone DEF CacheInv
  <2>3. NumScans' = NumScans /\ NumScans \in Nat
    BY <2>1, FilesOfQuery DEF NumScans, CacheInv, ControlOK
  <2>4. ControlOK'
    BY <1>1, <2>1, <2>3 DEF CacheInv, ControlOK
  <2>5. memory' = [maps |-> <<>>, heap |-> memory.heap]
    BY <2>1, NewMaps DEF CacheInv, ObjectsTyped, MemoryTyped
  <2>6. ObjectsTyped'
    BY <2>1, <2>5 DEF CacheInv, ObjectsTyped, MemoryTyped
  <2>7. VerdictOK'
    BY <1>1, <2>1, VerdictKept DEF CacheInv
  <2>. QED
    BY <2>1, <2>2, <2>4, <2>6, <2>7, Outside
<1>. QED
  BY <1>2, <1>3

LEMMA CompareStep ==
  ASSUME CacheInv, Compare
  PROVE  CacheInv' /\ GrowsWhileDumped
<1>1. /\ disk' = disk /\ stage' = "unwind" /\ stage = "load" /\ query' = query /\ program = "fast"
      /\ program' = program /\ visited' = visited /\ thrown' = thrown
      /\ memory' = memory /\ columns' = columns /\ tables' = tables
      /\ visited = Len(Files)
      /\ verdict' = IF Read(tables[visited]) = Read(tables[visited + 1]) THEN "correct" ELSE "wrong"
  BY DEF Compare, objects
<1>2. FilesHold' /\ GrowsWhileDumped
  BY <1>1, FilesLeftAlone DEF CacheInv
<1>3. NumScans' = NumScans
  BY <1>1 DEF NumScans
<1>4. ControlOK'
  BY <1>1, <1>3 DEF CacheInv, ControlOK
<1>5. ObjectsTyped'
  BY <1>1 DEF CacheInv, ObjectsTyped
<1>6. ASSUME \A f \in Range(Files) : Complete(f) PROVE verdict' = "correct"
  <2>1. query \in Query /\ MemoryTyped(memory)
    BY DEF CacheInv, ControlOK, ObjectsTyped
  <2>. DEFINE want == Table[ResultOf[query]]
  <2>2. /\ visited = NumScans + 1 /\ ResultOf[query] \in File /\ Complete(ResultOf[query])
        /\ \A s \in 1 .. NumScans : Complete(Scans[query][s])
        /\ NumScans \in Nat
    BY <1>1, <1>6, <2>1, FilesOfQuery
  <2>3. /\ Len(tables) = NumScans + 2
        /\ FromFile(memory, tables[NumScans + 2], ResultOf[query])
        /\ Executed
    BY <1>1, <2>2 DEF CacheInv, LoadOK, Progress, Expected
  <2>4. OnHeap(memory.heap, tables[NumScans + 1], want)
    BY <2>2, <2>3 DEF Executed
  <2>5. Read(tables[NumScans + 1]) = want
    BY <2>2, <2>4, ReadsHeap
  <2>6. Len(memory.maps) \in Nat
    BY <2>1, MapsLength
  <2>7. PICK m \in 1 .. Len(memory.maps) :
          memory.maps[m].file = ResultOf[query] /\ tables[NumScans + 2] = Mapped(m, ResultOf[query])
    BY <2>3 DEF FromFile
  <2>8. Read(tables[NumScans + 2]) = want
    BY <2>2, <2>6, <2>7, ReadsMapped
  <2>9. visited = NumScans + 1 /\ visited + 1 = NumScans + 2
    BY <2>2
  <2>. QED
    BY <1>1, <2>5, <2>8, <2>9
<1>7. VerdictOK'
  BY <1>1, <1>6 DEF VerdictOK, Complete, Files
<1>. QED
  BY <1>1, <1>2, <1>4, <1>5, <1>7, Outside

LEMMA SkipStep ==
  ASSUME CacheInv, SkipFile
  PROVE  CacheInv' /\ GrowsWhileDumped
<1>1. /\ disk' = disk /\ stage' = "load" /\ stage = "load" /\ query' = query /\ verdict' = verdict
      /\ program = "build_cache" /\ program' = program /\ visited' = visited + 1 /\ thrown' = thrown
      /\ memory' = memory /\ columns' = columns /\ tables' = tables /\ visited < Len(Files)
  BY DEF SkipFile, objects
<1>2. FilesHold' /\ GrowsWhileDumped
  BY <1>1, FilesLeftAlone DEF CacheInv
<1>3. NumScans' = NumScans /\ NumScans \in Nat /\ Len(Files) = NumScans + 1
  BY <1>1, FilesOfQuery DEF NumScans, CacheInv, ControlOK
<1>4. ControlOK'
  <2>1. visited' \in 0 .. NumScans' + 1
    BY <1>1, <1>3 DEF CacheInv, ControlOK
  <2>. QED
    BY <1>1, <2>1 DEF CacheInv, ControlOK
<1>5. ObjectsTyped'
  BY <1>1 DEF CacheInv, ObjectsTyped
<1>6. VerdictOK'
  <2>1. verdict = "none"
    BY <1>1 DEF CacheInv, VerdictOK
  <2>. QED
    BY <1>1, <2>1 DEF VerdictOK
<1>. QED
  BY <1>1, <1>2, <1>4, <1>5, <1>6, Outside

LEMMA EndDumpStep ==
  ASSUME CacheInv, CloseFile \/ DiskFull
  PROVE  CacheInv' /\ GrowsWhileDumped
<1>1. /\ stage' = "load" /\ stage = "dump" /\ query' = query /\ verdict' = verdict
      /\ program' = program /\ visited' = visited + 1 /\ thrown' = thrown
      /\ memory' = memory /\ columns' = columns /\ tables' \in {tables, Front(tables)}
      /\ disk' = disk \/ (Written < Len(ToWrite) /\ Write(TRUE))
  BY DEF CloseFile, DiskFull, EndDump
<1>2. FilesHold' /\ GrowsWhileDumped
  <2>1. CASE disk' = disk
    BY <1>1, <2>1, FilesLeftAlone DEF CacheInv
  <2>2. CASE Written < Len(ToWrite) /\ Write(TRUE)
    BY <1>1, <2>2, WriteGrows
  <2>. QED
    BY <1>1, <2>1, <2>2
<1>3. /\ NumScans' = NumScans /\ NumScans \in Nat /\ program = "build_cache"
      /\ visited <= NumScans /\ visited \in Nat
  BY <1>1, FilesOfQuery DEF NumScans, CacheInv, ControlOK
<1>4. ControlOK'
  <2>1. visited' \in 0 .. NumScans' + 1
    BY <1>1, <1>3
  <2>. QED
    BY <1>1, <2>1 DEF CacheInv, ControlOK
<1>5. ObjectsTyped'
  <2>1. tables \in Seq(TableType) /\ tables # <<>>
    BY <1>1 DEF CacheInv, ObjectsTyped, DumpOK
  <2>2. Front(tables) \in Seq(TableType)
    BY <2>1 DEF Front
  <2>. QED
    BY <1>1, <2>1, <2>2 DEF CacheInv, ObjectsTyped
<1>6. VerdictOK'
  <2>1. verdict = "none"
    BY <1>1 DEF CacheInv, VerdictOK
  <2>. QED
    BY <1>1, <2>1 DEF VerdictOK
<1>. QED
  BY <1>1, <1>2, <1>3, <1>4, <1>5, <1>6, Outside

\* A table's pages have been allocated and filled, its file has been created.
LEMMA StartDumpStep ==
  ASSUME CacheInv, StartDump
  PROVE  CacheInv' /\ GrowsWhileDumped
<1>. DEFINE empty == [blocks |-> <<>>, cut |-> FALSE]
            contents == Table[file]
            new == NewColumns(memory, contents)
            loaded == Allocated(memory, contents)
<1>1. /\ stage' = "dump" /\ stage = "load" /\ query' = query /\ verdict' = verdict
      /\ program' = program /\ program = "build_cache" /\ visited' = visited /\ thrown' = thrown
      /\ memory' \in {loaded, Allocated(loaded, contents)} /\ columns' = columns
      /\ tables' = Append(tables, new)
      /\ disk' = [disk EXCEPT ![file] = empty] /\ disk[file] = Absent
      /\ visited < Len(Files)
  BY DEF StartDump, Exists
<1>2. /\ NumScans' = NumScans /\ NumScans \in Nat /\ visited <= NumScans /\ visited \in Nat
      /\ file \in File /\ file' = file
  <2>1. NumScans \in Nat /\ Len(Files) = NumScans + 1 /\ visited \in 0 .. NumScans + 1
    BY FilesOfQuery DEF CacheInv, ControlOK
  <2>2. visited \in Nat /\ visited <= NumScans
    BY <1>1, <2>1
  <2>3. file \in File
    BY <2>2, FilesOfQuery DEF CacheInv, ControlOK
  <2>4. NumScans' = NumScans /\ file' = file
    BY <1>1 DEF NumScans, file, Files
  <2>. QED
    BY <2>1, <2>2, <2>3, <2>4
<1>. HIDE DEF new, loaded
<1>3. contents \in Seq(Seq(Page)) /\ contents # <<>> /\ MemoryTyped(memory)
  BY <1>2, TableTyped DEF CacheInv, ObjectsTyped
<1>4. MemoryTyped(memory') /\ OnHeap(memory'.heap, new, contents) /\ new \in TableType
  <2>1. MemoryTyped(loaded) /\ OnHeap(loaded.heap, new, contents) /\ new \in TableType
    BY <1>3, NewPages DEF new, loaded
  <2>2. CASE memory' = loaded
    BY <2>1, <2>2
  <2>3. CASE memory' = Allocated(loaded, contents)
    <3>1. /\ MemoryTyped(memory')
          /\ \A at \in DOMAIN loaded.heap :
               at \in DOMAIN memory'.heap /\ memory'.heap[at] = loaded.heap[at]
      BY <1>3, <2>1, <2>3, NewPages
    <3>. QED
      BY <2>1, <3>1, OnLargerHeap
  <2>. QED
    BY <1>1, <2>1, <2>2, <2>3
<1>5. FilesHold' /\ GrowsWhileDumped
  <2>1. /\ DOMAIN disk' = File /\ disk'[file] = empty
        /\ \A f \in File : f # file => disk'[f] = disk[f]
    BY <1>1, <1>2 DEF CacheInv, FilesHold
  <2>3. ASSUME NEW f \in File, There(f)' PROVE Holds(f)'
    <3>1. CASE f = file
      <4>1. InSequence(<<>>) /\ Len(<<>>) = 0
        BY EmptySeq DEF InSequence
      <4>2. disk'[f].blocks = <<>> /\ disk'[f].cut = FALSE
        BY <2>1, <3>1
      <4>3. Len(Dump(Table[f])) \in Nat
        BY DumpOfTable
      <4>4. InSequence(disk'[f].blocks) /\ Len(disk'[f].blocks) = 0 /\ disk'[f].cut \in BOOLEAN
        BY <4>1, <4>2
      <4>5. /\ Len(disk'[f].blocks) <= Len(Dump(Table[f]))
            /\ \A i \in 1 .. Len(disk'[f].blocks) : disk'[f].blocks[i] = Dump(Table[f])[i]
        BY <4>3, <4>4
      <4>. QED
        BY <4>4, <4>5 DEF Holds
    <3>2. CASE f # file
      BY <1>1, <1>2, <2>1, <2>3, <3>2 DEF CacheInv, FilesHold, There, Holds
    <3>. QED
      BY <3>1, <3>2
  <2>4. FilesHold'
    BY <2>1, <2>3 DEF FilesHold
  <2>. QED
    BY <1>1, <2>1, <2>4 DEF GrowsWhileDumped
<1>6. ControlOK'
  <2>1. visited' \in 0 .. NumScans' + 1 /\ visited' <= NumScans'
    BY <1>1, <1>2
  <2>. QED
    BY <1>1, <2>1 DEF CacheInv, ControlOK
<1>7. tables' \in Seq(TableType) /\ tables' # <<>> /\ Last(tables') = new
  <2>1. tables \in Seq(TableType)
    BY DEF CacheInv, ObjectsTyped
  <2>. QED
    BY <1>1, <1>4, <2>1 DEF Last
<1>8. ObjectsTyped'
  BY <1>1, <1>4, <1>7 DEF CacheInv, ObjectsTyped
<1>9. DumpOK'
  BY <1>2, <1>4, <1>7 DEF DumpOK
<1>10. verdict' = "none"
  BY <1>1 DEF CacheInv, VerdictOK
<1>. QED
  BY <1>1, <1>5, <1>6, <1>8, <1>9, <1>10 DEF CacheInv, LoadOK, MapOK, VerdictOK

LEMMA WriteStep ==
  ASSUME CacheInv, WriteBlock
  PROVE  CacheInv' /\ GrowsWhileDumped
<1>1. /\ stage' = "dump" /\ stage = "dump" /\ query' = query /\ verdict' = verdict
      /\ program' = program /\ visited' = visited /\ thrown' = thrown
      /\ memory' = memory /\ columns' = columns /\ tables' = tables
      /\ Written < Len(ToWrite) /\ Write(FALSE)
  BY DEF WriteBlock, objects
<1>2. NumScans' = NumScans /\ file' = file
  BY <1>1 DEF NumScans, file, Files
<1>3. FilesHold' /\ GrowsWhileDumped
  BY <1>1, <1>2, WriteGrows
<1>4. ControlOK'
  BY <1>1, <1>2 DEF CacheInv, ControlOK
<1>5. ObjectsTyped'
  BY <1>1 DEF CacheInv, ObjectsTyped
<1>6. DumpOK'
  BY <1>1, <1>2 DEF CacheInv, DumpOK
<1>7. verdict' = "none" /\ program = "build_cache"
  BY <1>1 DEF CacheInv, VerdictOK, ControlOK
<1>. QED
  BY <1>1, <1>3, <1>4, <1>5, <1>6, <1>7 DEF CacheInv, LoadOK, MapOK, VerdictOK

LEMMA StartQueryStep ==
  ASSUME CacheInv, NEW q \in Query, StartQuery(q)
  PROVE  CacheInv' /\ GrowsWhileDumped
<1>1. /\ disk' = disk /\ stage' = "load" /\ stage = "idle" /\ query' = q /\ verdict' = "none"
      /\ program' = program /\ visited' = 0 /\ thrown' = thrown
      /\ memory' = memory /\ columns' = columns /\ tables' = tables /\ tables = <<>>
  BY DEF StartQuery, objects, CacheInv, ControlOK
<1>2. FilesHold' /\ GrowsWhileDumped
  BY <1>1, FilesLeftAlone DEF CacheInv
<1>. DEFINE n == Len(Scans[q])
<1>3. NumScans' = n /\ n \in Nat
  <2>1. Scans[q] \in Seq(File)
    BY CacheAssumption
  <2>. QED
    BY <1>1, <2>1 DEF NumScans
<1>. HIDE DEF n
<1>4. ControlOK'
  <2>1. visited' \in 0 .. NumScans' + 1
    <3>1. 0 \in 0 .. n + 1
      BY <1>3
    <3>. QED
      BY <1>1, <1>3, <3>1
  <2>. QED
    BY <1>1, <2>1 DEF CacheInv, ControlOK
<1>5. ObjectsTyped'
  BY <1>1 DEF CacheInv, ObjectsTyped
<1>6. Len(tables') = 0
  BY <1>1
<1>7. Progress' /\ Loaded' /\ Executed' /\ Expected'
  <2>1. /\ 0 <= n /\ ~(0 > n) /\ 0 # n + 1
        /\ \A s \in 1 .. n : ~(s <= 0)
    BY <1>3
  <2>. QED
    BY <1>1, <1>3, <1>6, <2>1 DEF Progress, Loaded, Executed, Expected
<1>. QED
  BY <1>1, <1>2, <1>4, <1>5, <1>7 DEF CacheInv, LoadOK, MapOK, DumpOK, VerdictOK

LEMMA MappedKept ==
  ASSUME NEW mem, NEW other, Len(mem.maps) \in Nat, Len(other.maps) \in Nat, SameFiles(mem, other),
         NEW table, NEW f, FromFile(mem, table, f)
  PROVE  FromFile(other, table, f)
<1>1. PICK m \in 1 .. Len(mem.maps) : mem.maps[m].file = f /\ table = Mapped(m, f)
  BY DEF FromFile
<1>2. m \in 1 .. Len(other.maps) /\ other.maps[m].file = f
  BY <1>1 DEF SameFiles
<1>. QED
  BY <1>1, <1>2 DEF FromFile

\* What has been loaded stays where it is.
LEMMA LoadKept ==
  ASSUME Progress, Loaded, Executed, Expected, ObjectsTyped, ObjectsTyped',
         SameFiles(memory, memory'), memory'.heap = memory.heap,
         disk' = disk, query' = query, tables' = tables, visited' = visited
  PROVE  Progress' /\ Loaded' /\ Executed' /\ Expected'
<1>1. Len(memory.maps) \in Nat /\ Len(memory'.maps) \in Nat
  BY MapsLength DEF ObjectsTyped
<1>2. NumScans' = NumScans
  BY DEF NumScans
<1>3. Progress'
  BY <1>2 DEF Progress
<1>4. Loaded'
  BY <1>1, <1>2, MappedKept DEF Loaded
<1>5. Executed'
  <2>1. \A f : Complete(f)' <=> Complete(f)
    BY DEF Complete
  <2>. QED
    BY <1>2, <2>1 DEF Executed
<1>6. Expected'
  BY <1>1, <1>2, MappedKept DEF Expected
<1>. QED
  BY <1>3, <1>4, <1>5, <1>6

LEMMA OpenStep ==
  ASSUME CacheInv, OpenCache
  PROVE  CacheInv' /\ GrowsWhileDumped
<1>1. /\ disk' = disk /\ stage' = "map" /\ stage = "load" /\ query' = query /\ verdict' = verdict
      /\ program = "fast" /\ program' = program /\ visited' = visited /\ thrown' = thrown
      /\ memory' = Map(memory, file) /\ columns' = <<>> /\ tables' = tables
      /\ visited < Len(Files) /\ Readable(file) /\ (visited < NumScans \/ Len(tables) > visited)
  BY DEF OpenCache, NextFile, IsScan, NumScans
<1>2. FilesHold' /\ GrowsWhileDumped
  BY <1>1, FilesLeftAlone DEF CacheInv
<1>3. /\ NumScans' = NumScans /\ NumScans \in Nat /\ visited <= NumScans /\ visited \in Nat
      /\ file \in File /\ file' = file
  <2>1. NumScans \in Nat /\ Len(Files) = NumScans + 1 /\ visited \in 0 .. NumScans + 1
    BY FilesOfQuery DEF CacheInv, ControlOK
  <2>2. visited \in Nat /\ visited <= NumScans
    BY <1>1, <2>1
  <2>3. file \in File
    BY <2>2, FilesOfQuery DEF CacheInv, ControlOK
  <2>4. NumScans' = NumScans /\ file' = file
    BY <1>1 DEF NumScans, file, Files
  <2>. QED
    BY <2>1, <2>2, <2>3, <2>4
<1>4. ControlOK'
  BY <1>1, <1>3 DEF CacheInv, ControlOK
<1>5. MemoryTyped(memory)
  BY DEF CacheInv, ObjectsTyped
<1>6. /\ MemoryTyped(memory') /\ SameFiles(memory, memory') /\ memory'.heap = memory.heap
      /\ Len(memory'.maps) = Len(memory.maps) + 1
      /\ memory'.maps[Len(memory.maps) + 1].file = file
  BY <1>1, <1>3, <1>5, MapAdded
<1>7. ObjectsTyped'
  BY <1>1, <1>6, NothingThere DEF CacheInv, ObjectsTyped
<1>8. Progress /\ Loaded /\ Executed /\ Expected
  BY <1>1 DEF CacheInv, LoadOK
<1>9. LoadOK'
  BY <1>1, <1>6, <1>7, <1>8, LoadKept DEF CacheInv, LoadOK
<1>10. MapOK'
  <2>1. Len(memory.maps) \in Nat
    BY <1>5, MapsLength
  <2>2. memory'.maps # <<>> /\ memory'.maps[Len(memory'.maps)].file = file
    <3>1. Len(<<>>) = 0 /\ Len(memory.maps) + 1 # 0
      BY <2>1
    <3>. QED
      BY <1>6, <3>1
  <2>3. visited = NumScans => Len(tables) = NumScans + 1
    BY <1>1, <1>3, <1>8 DEF Progress
  <2>4. Len(columns') = 0 /\ Len(Table[file]) \in Nat
    BY <1>1, <1>3, TableTyped
  <2>5. Readable(file)'
    BY <1>1, <1>3 DEF Readable, Exists
  <2>6. Len(columns') <= Len(Table[file']) /\ \A c \in 1 .. Len(columns') : FALSE
    BY <1>3, <2>4
  <2>. QED
    BY <1>1, <1>3, <2>2, <2>3, <2>5, <2>6 DEF MapOK
<1>11. verdict' = "none"
  BY <1>1 DEF CacheInv, VerdictOK
<1>. QED
  BY <1>1, <1>2, <1>4, <1>7, <1>9, <1>10, <1>11 DEF CacheInv, DumpOK, VerdictOK

\* A column of a mapped table.
LEMMA MappedColumn ==
  ASSUME NEW f \in File, NEW m \in Nat \ {0}, NEW c \in 1 .. Len(Table[f])
  PROVE  Mapped(m, f)[c] \in ColumnType
<1>. DEFINE off == PageOffsets(Table[f])[c - 1]
            n == Len(Table[f][c])
            pages == [p \in 1 .. n |-> [map |-> m, at |-> 1 + off + p]]
<1>1. off \in Nat /\ n \in Nat
  BY TableTyped
<1>2. Mapped(m, f)[c] = [mapped_memory |-> m, pages |-> pages]
  BY DEF Mapped
<1>. HIDE DEF off, n
<1>3. \A p \in 1 .. n : 1 + off + p \in Nat \ {0}
  BY <1>1
<1>4. \A p \in 1 .. n : pages[p] \in Address
  BY <1>3 DEF Address
<1>5. \A p \in 1 .. n : pages[p].map = m /\ pages[p].at \in Nat \ {0}
  BY <1>3
<1>6. DOMAIN pages = 1 .. n /\ pages = [p \in 1 .. n |-> pages[p]]
  OBVIOUS
<1>. HIDE DEF pages
<1>7. pages \in Seq(Address)
  BY <1>1, <1>4, <1>6
<1>. DEFINE column == [mapped_memory |-> m, pages |-> pages]
<1>8. column \in [mapped_memory : Nat, pages : Seq(Address)]
  BY <1>7
<1>9. column.mapped_memory = m /\ column.pages = pages
  OBVIOUS
<1>. HIDE DEF column
<1>10. IsColumn(column)
  BY <1>5, <1>6, <1>9 DEF IsColumn
<1>. QED
  BY <1>2, <1>8, <1>10 DEF ColumnType, column

LEMMA EmplaceStep ==
  ASSUME CacheInv, EmplaceColumn
  PROVE  CacheInv' /\ GrowsWhileDumped
<1>. DEFINE c == Len(columns) + 1
            m == Len(memory.maps)
            column == [mapped_memory |-> m,
                       pages |-> [p \in 1 .. meta.num_pages[c] |-> [map |-> m, at |-> FirstPage(c) + p - 1]]]
<1>1. /\ disk' = disk /\ stage' = "map" /\ stage = "map" /\ query' = query /\ verdict' = verdict
      /\ program' = program /\ visited' = visited /\ thrown' = thrown /\ tables' = tables
      /\ memory' \in {Assign(memory), Assign(Grown(memory, columns))}
      /\ Len(columns) < Len(meta.num_pages)
      /\ columns' = Append(columns, column)
  BY DEF EmplaceColumn
<1>2. FilesHold' /\ GrowsWhileDumped
  <2>1. file' = file
    BY <1>1 DEF file, Files
  <2>. QED
    BY <1>1, <2>1, FilesLeftAlone DEF CacheInv
<1>3. /\ NumScans' = NumScans /\ file' = file /\ NumScans \in Nat /\ visited \in Nat
      /\ visited <= NumScans /\ program = "fast"
  BY <1>1, FilesOfQuery DEF NumScans, file, Files, CacheInv, ControlOK
<1>4. file \in File
  BY <1>3, FilesOfQuery DEF CacheInv, ControlOK
<1>5. ControlOK'
  BY <1>1, <1>3 DEF CacheInv, ControlOK
<1>6. /\ MemoryTyped(memory) /\ columns \in Seq(ColumnType) /\ Len(columns) \in Nat
      /\ m \in Nat \ {0} /\ memory.maps # <<>> /\ memory.maps[m].file = file
  BY <1>1, MapsLength DEF CacheInv, ObjectsTyped, MapOK
<1>7. memory' = Assign(memory)
  BY <1>1, <1>6, VectorGrown
<1>8. /\ MemoryTyped(memory') /\ SameFiles(memory, memory') /\ memory'.heap = memory.heap
      /\ Len(memory'.maps) = m
  BY <1>6, <1>7, ReferenceCounted
<1>9. Holds(file) /\ disk[file].blocks # <<>> /\ Readable(file)
  BY <1>1, <1>4 DEF CacheInv, MapOK, Readable, Exists, FilesHold, There
<1>10. /\ c \in 1 .. Len(Table[file]) /\ meta.num_pages[c] = Len(Table[file][c])
       /\ FirstPage(c) = 2 + PageOffsets(Table[file])[c - 1]
       /\ PageOffsets(Table[file])[c - 1] \in Nat /\ Len(Table[file]) \in Nat
  <2>1. Len(meta.num_pages) = Len(Table[file]) /\ Len(Table[file]) \in Nat
    BY <1>4, <1>9, FirstPages, TableTyped
  <2>2. c \in 1 .. Len(Table[file])
    BY <1>1, <1>6, <2>1
  <2>. QED
    BY <1>4, <1>9, <2>1, <2>2, FirstPages, TableTyped
<1>11. column = Mapped(m, file)[c]
  <2>. DEFINE n == Len(Table[file][c])
              off == PageOffsets(Table[file])[c - 1]
              first == FirstPage(c)
  <2>1. first = 2 + off /\ off \in Nat /\ meta.num_pages[c] = n
    BY <1>10
  <2>2. Mapped(m, file)[c] =
          [mapped_memory |-> m, pages |-> [p \in 1 .. n |-> [map |-> m, at |-> 1 + off + p]]]
    BY <1>10 DEF Mapped
  <2>3. column = [mapped_memory |-> m, pages |-> [p \in 1 .. n |-> [map |-> m, at |-> first + p - 1]]]
    BY <2>1
  <2>. HIDE DEF column, n, off, first, c, m
  <2>4. \A p \in 1 .. n : first + p - 1 = 1 + off + p
    BY <2>1
  <2>5. [p \in 1 .. n |-> [map |-> m, at |-> first + p - 1]] =
          [p \in 1 .. n |-> [map |-> m, at |-> 1 + off + p]]
    BY <2>4
  <2>. QED
    BY <2>2, <2>3, <2>5
<1>12. column \in ColumnType
  BY <1>4, <1>6, <1>10, <1>11, MappedColumn
<1>. HIDE DEF column
<1>13. /\ columns' \in Seq(ColumnType) /\ Len(columns') = c
       /\ \A i \in 1 .. Len(columns) : columns'[i] = columns[i]
       /\ columns'[c] = column
  BY <1>1, <1>6, <1>12
<1>14. ObjectsTyped'
  BY <1>1, <1>8, <1>13 DEF CacheInv, ObjectsTyped
<1>15. LoadOK'
  <2>1. Progress /\ Loaded /\ Executed /\ Expected
    BY <1>1, <1>3 DEF CacheInv, LoadOK
  <2>. QED
    BY <1>1, <1>8, <1>14, <2>1, LoadKept DEF CacheInv, LoadOK
<1>16. MapOK'
  <2>1. Readable(file)'
    BY <1>1, <1>3, <1>9 DEF Readable, Exists
  <2>2. memory'.maps # <<>> /\ memory'.maps[Len(memory'.maps)].file = file
    <3>1. Len(<<>>) = 0 /\ m \in 1 .. m
      BY <1>6
    <3>. QED
      BY <1>6, <1>8, <3>1 DEF SameFiles
  <2>3. visited = NumScans => Len(tables) = NumScans + 1
    BY <1>1 DEF CacheInv, MapOK
  <2>4. ASSUME NEW i \in 1 .. Len(columns') PROVE columns'[i] = Mapped(Len(memory'.maps), file)[i]
    <3>1. i \in 1 .. Len(columns) \/ i = c
      BY <1>6, <1>13
    <3>2. \A k \in 1 .. Len(columns) : columns[k] = Mapped(m, file)[k]
      BY <1>1 DEF CacheInv, MapOK
    <3>. QED
      BY <1>8, <1>11, <1>13, <3>1, <3>2
  <2>5. Len(columns') <= Len(Table[file])
    BY <1>10, <1>13
  <2>. QED
    BY <1>1, <1>3, <2>1, <2>2, <2>3, <2>4, <2>5 DEF MapOK
<1>17. verdict' = "none"
  BY <1>1 DEF CacheInv, VerdictOK
<1>. QED
  BY <1>1, <1>2, <1>5, <1>14, <1>15, <1>16, <1>17 DEF CacheInv, DumpOK, VerdictOK

LEMMA FinishStep ==
  ASSUME CacheInv, FinishTable
  PROVE  CacheInv' /\ GrowsWhileDumped
<1>. DEFINE m == Len(memory.maps)
            n == Len(tables)
<1>1. /\ disk' = disk /\ stage' = "load" /\ stage = "map" /\ query' = query /\ verdict' = verdict
      /\ program' = program /\ visited' = visited + 1 /\ thrown' = thrown
      /\ memory' = memory /\ tables' = Append(tables, columns) /\ columns' = <<>>
      /\ Len(columns) = Len(meta.num_pages)
  BY DEF FinishTable
<1>2. FilesHold' /\ GrowsWhileDumped
  BY <1>1, FilesLeftAlone DEF CacheInv
<1>3. /\ NumScans' = NumScans /\ NumScans \in Nat /\ visited \in Nat
      /\ visited <= NumScans /\ program = "fast"
  BY <1>1, FilesOfQuery DEF NumScans, CacheInv, ControlOK
<1>4. /\ file \in File
      /\ visited < NumScans => file = Scans[query][visited + 1]
      /\ visited = NumScans => file = ResultOf[query]
  BY <1>3, FilesOfQuery DEF CacheInv, ControlOK
<1>5. ControlOK'
  <2>1. visited' \in 0 .. NumScans' + 1
    BY <1>1, <1>3
  <2>. QED
    BY <1>1, <2>1 DEF CacheInv, ControlOK
<1>6. /\ MemoryTyped(memory) /\ columns \in Seq(ColumnType) /\ tables \in Seq(TableType)
      /\ m \in Nat /\ m \in 1 .. m /\ memory.maps[m].file = file /\ n \in Nat
  <2>1. /\ MemoryTyped(memory) /\ columns \in Seq(ColumnType) /\ tables \in Seq(TableType) /\ m \in Nat
        /\ memory.maps # <<>> /\ memory.maps[m].file = file
    BY <1>1, MapsLength DEF CacheInv, ObjectsTyped, MapOK
  <2>2. m # 0
    BY <2>1 DEF MemoryTyped
  <2>. QED
    BY <2>1, <2>2
<1>7. Len(columns) = Len(Table[file]) /\ Len(Table[file]) \in Nat /\ Len(Table[file]) # 0
  <2>1. Holds(file) /\ disk[file].blocks # <<>>
    BY <1>1, <1>4 DEF CacheInv, MapOK, Readable, Exists, FilesHold, There
  <2>2. Table[file] \in Seq(Seq(Page)) /\ Table[file] # <<>>
    BY <1>4, TableTyped
  <2>. QED
    BY <1>1, <1>4, <2>1, <2>2, FirstPages
<1>8. columns = Mapped(m, file)
  <2>1. \A c \in 1 .. Len(Table[file]) : columns[c] = Mapped(m, file)[c]
    BY <1>1, <1>7 DEF CacheInv, MapOK
  <2>2. columns = [c \in 1 .. Len(Table[file]) |-> columns[c]]
    BY <1>6, <1>7
  <2>3. Mapped(m, file) = [c \in 1 .. Len(Table[file]) |-> Mapped(m, file)[c]]
    BY DEF Mapped
  <2>. QED
    BY <2>1, <2>2, <2>3
<1>9. columns \in TableType
  <2>1. Len(<<>>) = 0
    OBVIOUS
  <2>. QED
    BY <1>6, <1>7, <2>1 DEF TableType
<1>10. /\ tables' \in Seq(TableType) /\ Len(tables') = n + 1 /\ tables'[n + 1] = columns
       /\ \A t \in 1 .. n : tables'[t] = tables[t]
  BY <1>1, <1>6, <1>9
<1>11. ObjectsTyped'
  BY <1>1, <1>6, <1>10, NothingThere DEF ObjectsTyped
<1>12. FromFile(memory, columns, file)
  BY <1>6, <1>8 DEF FromFile
<1>13. Progress /\ Loaded /\ Executed /\ Expected
  BY <1>1, <1>3 DEF CacheInv, LoadOK
<1>14. (visited < NumScans /\ n = visited) \/ (visited = NumScans /\ n = NumScans + 1)
  <2>1. visited = NumScans => n = NumScans + 1
    BY <1>1 DEF CacheInv, MapOK
  <2>. QED
    BY <1>3, <1>13, <2>1 DEF Progress
<1>. HIDE DEF n, m
<1>15. Progress'
  BY <1>1, <1>3, <1>10, <1>14 DEF Progress
<1>16. Loaded'
  <2>1. ASSUME NEW s \in 1 .. NumScans, s <= visited + 1
        PROVE  FromFile(memory, tables'[s], Scans[query][s])
    <3>1. CASE s <= visited
      <4>1. s \in 1 .. n
        BY <1>3, <1>14, <3>1
      <4>. QED
        BY <1>10, <1>13, <3>1, <4>1 DEF Loaded
    <3>2. CASE ~(s <= visited)
      <4>1. s = visited + 1 /\ visited < NumScans
        BY <1>3, <2>1, <3>2
      <4>2. s = n + 1
        BY <1>3, <1>14, <4>1
      <4>. QED
        BY <1>4, <1>10, <1>12, <4>1, <4>2
    <3>. QED
      BY <3>1, <3>2
  <2>. QED
    BY <1>1, <1>3, <2>1 DEF Loaded
<1>17. Executed'
  <2>1. n + 1 > NumScans => n = NumScans + 1
    BY <1>3, <1>14
  <2>2. n = NumScans + 1 => NumScans + 1 \in 1 .. n /\ n > NumScans
    BY <1>3
  <2>4. n + 1 > NumScans => n > NumScans /\ tables'[NumScans + 1] = tables[NumScans + 1]
    BY <1>10, <2>1, <2>2
  <2>5. \A f : Complete(f)' <=> Complete(f)
    BY <1>1 DEF Complete
  <2>6. n = Len(tables)
    BY DEF n
  <2>. QED
    BY <1>1, <1>3, <1>10, <1>13, <2>4, <2>5, <2>6 DEF Executed
<1>18. Expected'
  <2>1. visited + 1 = NumScans + 1 => n + 1 = NumScans + 2 /\ file = ResultOf[query]
    BY <1>3, <1>4, <1>14
  <2>. QED
    BY <1>1, <1>3, <1>10, <1>12, <2>1 DEF Expected
<1>19. verdict' = "none"
  BY <1>1 DEF CacheInv, VerdictOK
<1>. QED
  BY <1>1, <1>2, <1>5, <1>11, <1>15, <1>16, <1>17, <1>18, <1>19
  DEF CacheInv, LoadOK, MapOK, DumpOK, VerdictOK

LEMMA ExecuteStep ==
  ASSUME CacheInv, Execute
  PROVE  CacheInv' /\ GrowsWhileDumped
<1>. DEFINE right == Table[ResultOf[query]]
            wrong == [c \in DOMAIN right |-> <<Garbage>>]
<1>1. /\ disk' = disk /\ stage' = "load" /\ stage = "load" /\ query' = query /\ verdict' = verdict
      /\ program = "fast" /\ program' = program /\ visited' = visited /\ thrown' = thrown
      /\ columns' = columns /\ visited = Len(Scans[query]) /\ Len(tables) = visited
  BY DEF Execute
<1>2. PICK result \in {right, wrong} :
        /\ InputsRight => result = right
        /\ tables' = Append(tables, NewColumns(memory, result))
        /\ memory' = Allocated(memory, result)
  BY DEF Execute
<1>3. FilesHold' /\ GrowsWhileDumped
  BY <1>1, FilesLeftAlone DEF CacheInv
<1>4. /\ NumScans' = NumScans /\ NumScans \in Nat /\ visited = NumScans /\ ResultOf[query] \in File
      /\ DOMAIN Scans[query] = 1 .. NumScans
      /\ \A s \in 1 .. NumScans : Scans[query][s] \in File
  BY <1>1, FilesOfQuery DEF NumScans, CacheInv, ControlOK
<1>5. ControlOK'
  BY <1>1, <1>4 DEF CacheInv, ControlOK
<1>6. /\ right \in Seq(Seq(Page)) /\ right # <<>> /\ Len(right) \in Nat /\ DOMAIN right = 1 .. Len(right)
  BY <1>4, TableTyped
<1>7. wrong \in Seq(Seq({Garbage})) /\ wrong # <<>>
  <2>. DEFINE k == Len(right)
              page == <<Garbage>>
  <2>1. page \in Seq({Garbage}) /\ k # 0 /\ k \in Nat
    BY <1>6
  <2>2. wrong = [c \in 1 .. k |-> page]
    BY <1>6
  <2>. HIDE DEF k, page, wrong
  <2>3. wrong \in Seq(Seq({Garbage})) /\ Len(wrong) = k
    BY <2>1, <2>2
  <2>. QED
    BY <2>1, <2>3
<1>8. MemoryTyped(memory) /\ tables \in Seq(TableType)
  BY DEF CacheInv, ObjectsTyped
<1>. DEFINE new == NewColumns(memory, result)
<1>9. \E V : result \in Seq(Seq(V)) /\ result # <<>>
  BY <1>2, <1>6, <1>7
<1>. HIDE DEF right, wrong, new
<1>10. /\ MemoryTyped(memory') /\ memory'.maps = memory.maps
       /\ OnHeap(memory'.heap, new, result) /\ new \in TableType
  BY <1>2, <1>8, <1>9, NewPages DEF new
<1>11. /\ tables' \in Seq(TableType) /\ Len(tables') = NumScans + 1 /\ tables'[NumScans + 1] = new
       /\ \A t \in 1 .. NumScans : tables'[t] = tables[t]
  BY <1>1, <1>2, <1>4, <1>8, <1>10 DEF new
<1>12. ObjectsTyped'
  BY <1>1, <1>10, <1>11 DEF CacheInv, ObjectsTyped
<1>13. Loaded
  BY <1>1 DEF CacheInv, LoadOK
<1>14. Len(memory.maps) \in Nat /\ SameFiles(memory, memory')
  BY <1>8, <1>10, MapsLength DEF SameFiles
<1>15. (\A s \in 1 .. NumScans : Complete(Scans[query][s])) => result = right
  <2>. SUFFICES ASSUME \A s \in 1 .. NumScans : Complete(Scans[query][s]) PROVE InputsRight
    BY <1>2
  <2>1. ASSUME NEW s \in 1 .. NumScans PROVE Read(tables[s]) = Table[Scans[query][s]]
    <3>1. s <= visited
      BY <1>4
    <3>2. PICK m \in 1 .. Len(memory.maps) :
            memory.maps[m].file = Scans[query][s] /\ tables[s] = Mapped(m, Scans[query][s])
      BY <1>13, <3>1 DEF Loaded, FromFile
    <3>. QED
      BY <1>4, <1>14, <3>2, ReadsMapped
  <2>. QED
    BY <1>4, <2>1 DEF InputsRight
<1>16. Progress'
  BY <1>1, <1>4, <1>11 DEF Progress
<1>17. Loaded'
  <2>1. ASSUME NEW s \in 1 .. NumScans, s <= visited
        PROVE  FromFile(memory', tables'[s], Scans[query][s])
    <3>1. FromFile(memory, tables[s], Scans[query][s])
      BY <1>13, <2>1 DEF Loaded
    <3>2. Len(memory'.maps) \in Nat
      BY <1>10, <1>14
    <3>. QED
      BY <1>11, <1>14, <3>1, <3>2, MappedKept
  <2>. QED
    BY <1>1, <1>4, <2>1 DEF Loaded
<1>18. Executed'
  <2>1. \A f : Complete(f)' <=> Complete(f)
    BY <1>1 DEF Complete
  <2>. QED
    BY <1>1, <1>4, <1>10, <1>11, <1>15, <2>1 DEF Executed, right
<1>19. Expected'
  BY <1>1, <1>4 DEF Expected
<1>20. verdict' = "none"
  BY <1>1 DEF CacheInv, VerdictOK
<1>. QED
  BY <1>1, <1>3, <1>5, <1>12, <1>16, <1>17, <1>18, <1>19, <1>20
  DEF CacheInv, LoadOK, MapOK, DumpOK, VerdictOK

LEMMA Step == CacheInv /\ [Next]_vars => CacheInv' /\ GrowsWhileDumped
<1>. SUFFICES ASSUME CacheInv, [Next]_vars PROVE CacheInv' /\ GrowsWhileDumped
  OBVIOUS
<1>1. CASE UNCHANGED vars
  <2>1. /\ disk' = disk /\ stage' = stage /\ query' = query /\ verdict' = verdict
        /\ program' = program /\ visited' = visited /\ thrown' = thrown
        /\ memory' = memory /\ columns' = columns /\ tables' = tables
    BY <1>1 DEF vars, objects
  <2>2. NumScans' = NumScans /\ file' = file
    BY <2>1 DEF NumScans, file, Files
  <2>3. FilesHold' /\ GrowsWhileDumped
    BY <2>1, <2>2, FilesLeftAlone DEF CacheInv
  <2>4. ControlOK'
    BY <2>1, <2>2 DEF CacheInv, ControlOK
  <2>5. ObjectsTyped'
    BY <2>1 DEF CacheInv, ObjectsTyped
  <2>6. LoadOK'
    <3>1. \A f : Complete(f)' <=> Complete(f)
      BY <2>1 DEF Complete
    <3>. QED
      BY <2>1, <2>2, <3>1 DEF CacheInv, LoadOK, Progress, Loaded, Executed, Expected
  <2>7. MapOK'
    BY <2>1, <2>2 DEF CacheInv, MapOK, Readable, Exists
  <2>8. DumpOK'
    BY <2>1, <2>2 DEF CacheInv, DumpOK
  <2>9. VerdictOK'
    BY <2>1, VerdictKept DEF CacheInv, VerdictOK
  <2>. QED
    BY <2>3, <2>4, <2>5, <2>6, <2>7, <2>8, <2>9 DEF CacheInv
<1>2. CASE Next
  <2>1. CASE StartProgram
    BY <2>1, StartStep
  <2>2. CASE \E q \in Query : StartQuery(q)
    BY <2>2, StartQueryStep
  <2>3. CASE Exit \/ Crash \/ Fault
    BY <2>3, CrashStep
  <2>4. CASE SkipFile
    BY <2>4, SkipStep
  <2>5. CASE StartDump
    BY <2>5, StartDumpStep
  <2>6. CASE WriteBlock
    BY <2>6, WriteStep
  <2>7. CASE CloseFile \/ DiskFull
    BY <2>7, EndDumpStep
  <2>8. CASE EndBuild \/ Throw
    BY <2>8, EndBuildStep
  <2>9. CASE OpenCache
    BY <2>9, OpenStep
  <2>10. CASE EmplaceColumn
    BY <2>10, EmplaceStep
  <2>11. CASE FinishTable
    BY <2>11, FinishStep
  <2>12. CASE Execute
    BY <2>12, ExecuteStep
  <2>13. CASE Compare
    BY <2>13, CompareStep
  <2>14. CASE DestroyColumn
    BY <2>14, DestroyStep
  <2>15. CASE EndQuery
    BY <2>15, EndQueryStep
  <2>. QED
    BY <1>2, <2>1, <2>2, <2>3, <2>4, <2>5, <2>6, <2>7, <2>8, <2>9, <2>10, <2>11, <2>12, <2>13,
       <2>14, <2>15 DEF Next
<1>. QED
  BY <1>1, <1>2

LEMMA InvTypes == CacheInv => TypeOK
<1>. SUFFICES ASSUME CacheInv PROVE TypeOK
  OBVIOUS
<1>1. ASSUME NEW f \in File, disk[f] # Absent
      PROVE  disk[f].cut \in BOOLEAN /\ IsPrefix(disk[f].blocks, Dump(Table[f]))
  <2>. DEFINE blocks == disk[f].blocks
              dump == Dump(Table[f])
  <2>1. /\ InSequence(blocks) /\ Len(blocks) <= Len(dump) /\ disk[f].cut \in BOOLEAN
        /\ \A i \in 1 .. Len(blocks) : blocks[i] = dump[i]
    BY <1>1 DEF CacheInv, FilesHold, There, Holds
  <2>2. InSequence(dump) /\ Len(dump) \in Nat
    BY DumpOfTable
  <2>. HIDE DEF blocks, dump
  <2>3. PICK S : blocks \in Seq(S)
    BY <2>1 DEF InSequence
  <2>4. PICK T : dump \in Seq(T)
    BY <2>2 DEF InSequence
  <2>5. SubSeq(blocks, 1, Len(blocks)) = SubSeq(dump, 1, Len(blocks))
    <3>. DEFINE V == S \union T
    <3>1. blocks \in Seq(V) /\ dump \in Seq(V) /\ Len(blocks) \in Nat
      BY <2>3, <2>4, SeqMonotonic
    <3>2. \A n \in 1 .. Len(blocks) : blocks[1 + n - 1] = dump[1 + n - 1]
      BY <2>1, <3>1
    <3>. HIDE DEF V
    <3>. QED
      BY <2>1, <3>1, <3>2, SubSeqProperties, SeqEqual
  <2>. QED
    BY <2>1, <2>5 DEF IsPrefix, blocks, dump
<1>2. visited \in 0 .. Len(Files)
  BY FilesOfQuery DEF CacheInv, ControlOK
<1>3. \A t \in DOMAIN tables : \A c \in DOMAIN tables[t] : IsColumn(tables[t][c])
  <2>1. \A t \in DOMAIN tables : tables[t] \in Seq(ColumnType)
    BY DEF CacheInv, ObjectsTyped, TableType
  <2>2. \A t \in DOMAIN tables : \A c \in DOMAIN tables[t] : tables[t][c] \in ColumnType
    BY <2>1
  <2>. QED
    BY <2>2 DEF ColumnType
<1>. QED
  BY <1>1, <1>2, <1>3 DEF TypeOK, CacheInv, ControlOK

LEMMA InvServes == CacheInv => ServesTables
<1>. SUFFICES ASSUME CacheInv, program = "fast" PROVE ServesTables
  BY DEF ServesTables
<1>1. ASSUME stage = "load", NEW s \in 1 .. Min({visited, Len(Scans[query])}),
             Complete(Scans[query][s])
      PROVE  Read(tables[s]) = Table[Scans[query][s]]
  <2>1. /\ NumScans \in Nat /\ visited \in Nat
        /\ \A i \in 1 .. NumScans : Scans[query][i] \in File
    BY FilesOfQuery DEF CacheInv, ControlOK
  <2>2. s \in 1 .. NumScans /\ s <= visited
    <3>. DEFINE S == {visited, NumScans}
    <3>1. \E x \in S : \A y \in S : x <= y
      BY <2>1
    <3>2. Min(S) \in S /\ \A y \in S : Min(S) <= y
      BY <3>1 DEF Min
    <3>3. s \in 1 .. Min(S)
      BY DEF NumScans
    <3>. QED
      BY <2>1, <3>2, <3>3
  <2>3. Loaded
    BY <1>1 DEF CacheInv, LoadOK
  <2>4. PICK m \in 1 .. Len(memory.maps) :
          memory.maps[m].file = Scans[query][s] /\ tables[s] = Mapped(m, Scans[query][s])
    BY <2>2, <2>3 DEF Loaded, FromFile
  <2>5. Len(memory.maps) \in Nat
    BY MapsLength DEF CacheInv, ObjectsTyped
  <2>. QED
    BY <1>1, <2>1, <2>2, <2>4, <2>5, ReadsMapped
<1>2. verdict # "none" /\ (\A f \in Range(Files) : Complete(f)) => verdict = "correct"
  BY DEF CacheInv, VerdictOK
<1>. QED
  BY <1>1, <1>2 DEF ServesTables

LEMMA Invariant == Spec => []CacheInv
<1>. QED
  BY InitInv, Step, PTL DEF Spec

-----------------------------------------------------------------------------
\* build_table.cpp, table.h: every file that is there holds a prefix of its table's
\* dump, after any kills and full disks, and the objects are what from_cache needs.
THEOREM CacheTypeCorrect == Spec => []TypeOK
BY Invariant, InvTypes, PTL

\* from_cache and compare_withcache: whatever was killed or cut short before, a table
\* mapped from a complete file reads as the one that was dumped, and a query whose
\* files are complete is found correct.
THEOREM CacheServesTables == Spec => []ServesTables
BY Invariant, InvServes, PTL

\* table.h, DumpTable: a file is written by the program that creates it and never
\* again, so that the pages of a mapping cannot change under its readers, and what a
\* dump that was cut short has left stays as it is.
THEOREM FilesOnlyGrow == Spec => FilesNeverRewritten
<1>1. CacheInv /\ [Next]_vars => [GrowsWhileDumped]_vars
  BY Step
<1>. QED
  BY <1>1, Invariant, PTL DEF Spec, FilesNeverRewritten, GrowsWhileDumped

-----------------------------------------------------------------------------
(* Lists of columns: the references to a mapping, the pages on the heap.   *)

RefersTo(list, m) == {c \in 1 .. Len(list) : list[c].mapped_memory = m}
Refs(list, m) == Cardinality(RefersTo(list, m))

OnHeapOf(list, at) == \E c \in 1 .. Len(list) : list[c].mapped_memory = 0 /\ at \in HeapPages(list[c])

\* No page of the heap is in two columns.
Apart(list) ==
  \A c, d \in 1 .. Len(list) :
    list[c].mapped_memory = 0 /\ list[d].mapped_memory = 0 /\ c # d =>
      HeapPages(list[c]) \cap HeapPages(list[d]) = {}

LEMMA RefsNumber ==
  ASSUME NEW list \in Seq(ColumnType), NEW m
  PROVE  /\ IsFiniteSet(RefersTo(list, m)) /\ Refs(list, m) \in Nat
         /\ Refs(list, m) > 0 <=> RefersTo(list, m) # {}
<1>1. IsFiniteSet(1 .. Len(list))
  BY FS_Interval
<1>2. RefersTo(list, m) \in SUBSET (1 .. Len(list))
  BY DEF RefersTo
<1>3. IsFiniteSet(RefersTo(list, m))
  BY <1>1, <1>2, FS_Subset
<1>4. Refs(list, m) \in Nat /\ (Refs(list, m) = 0 <=> RefersTo(list, m) = {})
  BY <1>3, FS_CardinalityType, FS_EmptySet DEF Refs
<1>. QED
  BY <1>3, <1>4

LEMMA RefsOfBoth ==
  ASSUME NEW a \in Seq(ColumnType), NEW b \in Seq(ColumnType), NEW m
  PROVE  Refs(a \o b, m) = Refs(a, m) + Refs(b, m)
<1>. DEFINE all == a \o b
            n == Len(a)
            A == RefersTo(a, m)
            B == RefersTo(b, m)
            T == {c \in n + 1 .. n + Len(b) : all[c].mapped_memory = m}
            f == [c \in B |-> n + c]
<1>1. /\ all \in Seq(ColumnType) /\ n \in Nat /\ Len(b) \in Nat /\ Len(all) = n + Len(b)
      /\ \A i \in 1 .. n : all[i] = a[i]
      /\ \A i \in 1 .. Len(b) : all[n + i] = b[i]
  BY Concatenation
<1>. HIDE DEF all, n
<1>2. RefersTo(all, m) = A \union T
  <2>1. ASSUME NEW c PROVE c \in RefersTo(all, m) <=> c \in A \union T
    <3>1. c \in 1 .. n + Len(b) <=> c \in 1 .. n \/ c \in n + 1 .. n + Len(b)
      BY <1>1
    <3>2. c \in A <=> c \in 1 .. n /\ all[c].mapped_memory = m
      BY <1>1 DEF RefersTo, n
    <3>3. c \in RefersTo(all, m) <=> c \in 1 .. n + Len(b) /\ all[c].mapped_memory = m
      BY <1>1 DEF RefersTo
    <3>. QED
      BY <3>1, <3>2, <3>3
  <2>. QED
    BY <2>1
<1>3. A \cap T = {}
  <2>1. \A c \in A : c \in 1 .. n
    BY DEF RefersTo, n
  <2>2. \A c \in 1 .. n : c \notin n + 1 .. n + Len(b)
    BY <1>1
  <2>. QED
    BY <2>1, <2>2
<1>4. IsFiniteSet(A) /\ IsFiniteSet(B) /\ Cardinality(A) \in Nat /\ Cardinality(B) \in Nat
  BY RefsNumber DEF Refs
<1>5. f \in Bijection(B, T)
  <2>1. \A c \in B : c \in 1 .. Len(b) /\ b[c].mapped_memory = m
    BY DEF RefersTo
  <2>2. \A c \in B : f[c] \in T
    <3>. TAKE c \in B
    <3>1. n + c \in n + 1 .. n + Len(b) /\ all[n + c] = b[c]
      BY <1>1, <2>1
    <3>. QED
      BY <2>1, <3>1
  <2>3. \A c, d \in B : f[c] = f[d] => c = d
    <3>. TAKE c, d \in B
    <3>1. c \in Int /\ d \in Int
      BY <2>1
    <3>. QED
      BY <1>1, <3>1
  <2>4. \A t \in T : \E c \in B : f[c] = t
    <3>. TAKE t \in T
    <3>1. t - n \in 1 .. Len(b) /\ n + (t - n) = t
      BY <1>1
    <3>2. b[t - n].mapped_memory = m
      BY <1>1, <3>1
    <3>3. t - n \in B
      BY <3>1, <3>2 DEF RefersTo
    <3>. QED
      BY <3>1, <3>3
  <2>5. f \in [B -> T]
    <3>1. f = [c \in B |-> f[c]]
      OBVIOUS
    <3>. HIDE DEF f
    <3>. QED
      BY <2>2, <3>1
  <2>. HIDE DEF f
  <2>. QED
    BY <2>3, <2>4, <2>5 DEF Bijection, Injection, Surjection, IsInjective
<1>6. IsFiniteSet(T) /\ Cardinality(T) = Cardinality(B)
  <2>. HIDE DEF T, B, f
  <2>. QED
    BY <1>4, <1>5, FS_Bijection DEF ExistsBijection
<1>7. Cardinality(A \union T) = Cardinality(A) + Cardinality(T)
  <2>. HIDE DEF T, A
  <2>1. Cardinality(A \union T) = Cardinality(A) + Cardinality(T) - Cardinality(A \cap T)
    BY <1>4, <1>6, FS_Union
  <2>2. Cardinality(A \cap T) = 0
    BY <1>3, FS_EmptySet
  <2>. QED
    BY <1>4, <1>6, <2>1, <2>2
<1>. QED
  BY <1>2, <1>6, <1>7 DEF Refs, all

LEMMA RefsOfOne ==
  ASSUME NEW column \in ColumnType, NEW m
  PROVE  Refs(<<column>>, m) = IF column.mapped_memory = m THEN 1 ELSE 0
<1>1. Len(<<column>>) = 1 /\ <<column>>[1] = column
  OBVIOUS
<1>2. CASE column.mapped_memory = m
  <2>1. \A c : c \in RefersTo(<<column>>, m) <=> c = 1
    BY <1>1, <1>2 DEF RefersTo
  <2>2. RefersTo(<<column>>, m) = {1}
    BY <2>1
  <2>. QED
    BY <1>2, <2>2, FS_Singleton DEF Refs
<1>3. CASE column.mapped_memory # m
  <2>1. \A c : c \notin RefersTo(<<column>>, m)
    BY <1>1, <1>3 DEF RefersTo
  <2>2. RefersTo(<<column>>, m) = {}
    BY <2>1
  <2>. QED
    BY <1>3, <2>2, FS_EmptySet DEF Refs
<1>. QED
  BY <1>2, <1>3

LEMMA HeapOfBoth ==
  ASSUME NEW a \in Seq(ColumnType), NEW b \in Seq(ColumnType), NEW at
  PROVE  OnHeapOf(a \o b, at) <=> OnHeapOf(a, at) \/ OnHeapOf(b, at)
<1>. DEFINE all == a \o b
            n == Len(a)
<1>1. /\ n \in Nat /\ Len(b) \in Nat /\ Len(all) = n + Len(b)
      /\ \A i \in 1 .. n : all[i] = a[i]
      /\ \A i \in 1 .. Len(b) : all[n + i] = b[i]
  BY Concatenation
<1>. HIDE DEF all, n
<1>2. OnHeapOf(a, at) => OnHeapOf(all, at)
  <2>1. \A c \in 1 .. n : c \in 1 .. Len(all)
    BY <1>1
  <2>. QED
    BY <1>1, <2>1 DEF OnHeapOf, n
<1>3. OnHeapOf(b, at) => OnHeapOf(all, at)
  <2>1. \A c \in 1 .. Len(b) : n + c \in 1 .. Len(all)
    BY <1>1
  <2>. QED
    BY <1>1, <2>1 DEF OnHeapOf
<1>4. OnHeapOf(all, at) => OnHeapOf(a, at) \/ OnHeapOf(b, at)
  <2>. SUFFICES ASSUME NEW c \in 1 .. Len(all), all[c].mapped_memory = 0, at \in HeapPages(all[c])
                PROVE  OnHeapOf(a, at) \/ OnHeapOf(b, at)
    BY DEF OnHeapOf
  <2>1. CASE c <= n
    <3>1. c \in 1 .. n
      BY <2>1, <1>1
    <3>. QED
      BY <1>1, <3>1 DEF OnHeapOf, n
  <2>2. CASE ~(c <= n)
    <3>1. c - n \in 1 .. Len(b) /\ n + (c - n) = c
      BY <2>2, <1>1
    <3>2. all[c] = b[c - n]
      BY <1>1, <3>1
    <3>. QED
      BY <3>1, <3>2 DEF OnHeapOf
  <2>. QED
    BY <2>1, <2>2
<1>. QED
  BY <1>2, <1>3, <1>4 DEF all

\* Two lists of which no page is in both.
Separate(a, b) == \A at : ~(OnHeapOf(a, at) /\ OnHeapOf(b, at))

LEMMA BothApart ==
  ASSUME NEW a \in Seq(ColumnType), NEW b \in Seq(ColumnType)
  PROVE  Apart(a \o b) <=> Apart(a) /\ Apart(b) /\ Separate(a, b)
<1>. DEFINE all == a \o b
            n == Len(a)
<1>1. /\ n \in Nat /\ Len(b) \in Nat /\ Len(all) = n + Len(b)
      /\ \A i \in 1 .. n : all[i] = a[i]
      /\ \A i \in 1 .. Len(b) : all[n + i] = b[i]
  BY Concatenation
<1>. HIDE DEF all, n
<1>2. ASSUME Apart(all) PROVE Apart(a)
  <2>1. \A c \in 1 .. n : c \in 1 .. Len(all) /\ all[c] = a[c]
    BY <1>1
  <2>. QED
    BY <1>2, <2>1 DEF Apart, n
<1>3. ASSUME Apart(all) PROVE Apart(b)
  <2>1. \A c \in 1 .. Len(b) : n + c \in 1 .. Len(all) /\ all[n + c] = b[c]
    BY <1>1
  <2>2. \A c, d \in 1 .. Len(b) : c # d => n + c # n + d
    BY <1>1
  <2>. SUFFICES ASSUME NEW c \in 1 .. Len(b), NEW d \in 1 .. Len(b),
                       b[c].mapped_memory = 0, b[d].mapped_memory = 0, c # d
                PROVE  HeapPages(b[c]) \cap HeapPages(b[d]) = {}
    BY DEF Apart
  <2>3. /\ n + c \in 1 .. Len(all) /\ all[n + c] = b[c]
        /\ n + d \in 1 .. Len(all) /\ all[n + d] = b[d] /\ n + c # n + d
    BY <2>1, <2>2
  <2>. QED
    BY <1>3, <2>3 DEF Apart
<1>4. ASSUME Apart(all) PROVE Separate(a, b)
  <2>. SUFFICES ASSUME NEW at, OnHeapOf(a, at), OnHeapOf(b, at) PROVE FALSE
    BY DEF Separate
  <2>1. PICK c \in 1 .. n : a[c].mapped_memory = 0 /\ at \in HeapPages(a[c])
    BY DEF OnHeapOf, n
  <2>2. PICK d \in 1 .. Len(b) : b[d].mapped_memory = 0 /\ at \in HeapPages(b[d])
    BY DEF OnHeapOf
  <2>3. /\ c \in 1 .. Len(all) /\ all[c] = a[c]
        /\ n + d \in 1 .. Len(all) /\ all[n + d] = b[d]
        /\ c # n + d
    BY <1>1
  <2>. QED
    BY <1>4, <2>1, <2>2, <2>3 DEF Apart
<1>5. ASSUME Apart(a), Apart(b), Separate(a, b) PROVE Apart(all)
  <2>. SUFFICES ASSUME NEW c \in 1 .. Len(all), NEW d \in 1 .. Len(all),
                       all[c].mapped_memory = 0, all[d].mapped_memory = 0, c # d,
                       NEW at, at \in HeapPages(all[c]), at \in HeapPages(all[d])
                PROVE  FALSE
    BY DEF Apart
  <2>1. ASSUME NEW i \in 1 .. Len(all)
        PROVE  \/ i \in 1 .. n /\ all[i] = a[i]
               \/ i - n \in 1 .. Len(b) /\ all[i] = b[i - n] /\ i \notin 1 .. n
    <3>1. CASE i <= n
      BY <1>1, <3>1
    <3>2. CASE ~(i <= n)
      <4>1. i - n \in 1 .. Len(b) /\ n + (i - n) = i /\ i \notin 1 .. n
        BY <3>2, <1>1
      <4>. QED
        BY <1>1, <4>1
    <3>. QED
      BY <3>1, <3>2
  <2>2. CASE c \in 1 .. n /\ d \in 1 .. n
    BY <1>1, <1>5, <2>2 DEF Apart, n
  <2>3. CASE c \notin 1 .. n /\ d \notin 1 .. n
    <3>1. c - n \in 1 .. Len(b) /\ all[c] = b[c - n] /\ d - n \in 1 .. Len(b) /\ all[d] = b[d - n]
      BY <2>1, <2>3
    <3>2. c - n # d - n
      BY <1>1
    <3>. QED
      BY <1>5, <3>1, <3>2 DEF Apart
  <2>4. CASE c \in 1 .. n /\ d \notin 1 .. n
    <3>1. all[c] = a[c] /\ d - n \in 1 .. Len(b) /\ all[d] = b[d - n]
      BY <2>1, <2>4, <1>1
    <3>2. OnHeapOf(a, at) /\ OnHeapOf(b, at)
      BY <2>4, <3>1 DEF OnHeapOf, n
    <3>. QED
      BY <1>5, <3>2 DEF Separate
  <2>5. CASE c \notin 1 .. n /\ d \in 1 .. n
    <3>1. all[d] = a[d] /\ c - n \in 1 .. Len(b) /\ all[c] = b[c - n]
      BY <2>1, <2>5, <1>1
    <3>2. OnHeapOf(a, at) /\ OnHeapOf(b, at)
      BY <2>5, <3>1 DEF OnHeapOf, n
    <3>. QED
      BY <1>5, <3>2 DEF Separate
  <2>. QED
    BY <2>2, <2>3, <2>4, <2>5
<1>. QED
  BY <1>2, <1>3, <1>4, <1>5 DEF all

\* new_page gives every page an address of its own, one that was free.
LEMMA NewPagesApart ==
  ASSUME NEW V, NEW contents \in Seq(Seq(V)), contents # <<>>, NEW mem, MemoryTyped(mem)
  PROVE  /\ \A c \in 1 .. Len(NewColumns(mem, contents)) : NewColumns(mem, contents)[c].mapped_memory = 0
         /\ Apart(NewColumns(mem, contents))
         /\ \A at : at \in DOMAIN mem.heap => ~OnHeapOf(NewColumns(mem, contents), at)
         /\ \A at : at \in DOMAIN Allocated(mem, contents).heap <=>
                      at \in DOMAIN mem.heap \/ OnHeapOf(NewColumns(mem, contents), at)
<1>. DEFINE rows == Rows(contents)
            off == PageOffsets(contents)
            first == FirstFree(mem)
            heap == Allocated(mem, contents).heap
            table == NewColumns(mem, contents)
            old == DOMAIN mem.heap
            new == first .. first + Len(rows) - 1
            n == Len(contents)
<1>1. first \in Nat \ {0} /\ \A at \in old : at < first /\ at \in Nat \ {0}
  BY FreeAddress DEF MemoryTyped, HeapTyped
<1>2. /\ n \in Nat /\ DOMAIN contents = 1 .. n
      /\ \A c \in 1 .. n : Len(contents[c]) \in Nat /\ DOMAIN contents[c] = 1 .. Len(contents[c])
      /\ \A c \in 0 .. n : off[c] \in Nat
      /\ \A c \in 1 .. n : off[c] = off[c - 1] + Len(contents[c])
      /\ \A c, d \in 0 .. n : c <= d => off[c] <= off[d]
  BY OffsetsAscend
<1>3. /\ Len(rows) \in Nat /\ Len(rows) = NumRows(contents)
      /\ \A c \in 1 .. n : \A p \in 1 .. Len(contents[c]) : off[c - 1] + p \in 1 .. Len(rows)
  BY RowsOfPages
<1>4. DOMAIN heap = old \union new
  <2>. DEFINE fresh == [at \in new |-> rows[at - first + 1]]
              both == [at \in old \union DOMAIN fresh |-> IF at \in DOMAIN fresh THEN fresh[at] ELSE mem.heap[at]]
  <2>1. Allocated(mem, contents) = [mem EXCEPT !.heap = both]
    BY DEF Allocated
  <2>2. DOMAIN both = old \union new
    OBVIOUS
  <2>. HIDE DEF both
  <2>3. heap = both
    BY <2>1, NewHeap DEF MemoryTyped
  <2>. QED
    BY <2>2, <2>3
<1>5. /\ DOMAIN table = 1 .. n
      /\ \A c \in 1 .. n :
           table[c] = [mapped_memory |-> 0,
                       pages |-> [p \in DOMAIN contents[c] |->
                                    [map |-> 0, at |-> first + off[c - 1] + p - 1]]]
  BY <1>2 DEF NewColumns
<1>6. \A c \in 1 .. n :
        /\ table[c].mapped_memory = 0
        /\ DOMAIN table[c].pages = 1 .. Len(contents[c])
        /\ \A p \in 1 .. Len(contents[c]) : table[c].pages[p].at = first + off[c - 1] + p - 1
  BY <1>2, <1>5
<1>7. Len(table) = n
  <2>1. table \in TableType
    BY NewPages
  <2>. HIDE DEF table
  <2>2. DOMAIN table = 1 .. Len(table) /\ Len(table) \in Nat
    BY <2>1 DEF TableType
  <2>. QED
    BY <1>2, <1>5, <2>2
<1>. HIDE DEF rows, off, first, heap, table, n
<1>8. ASSUME NEW c \in 1 .. n, NEW at
      PROVE  at \in HeapPages(table[c]) <=>
               \E p \in 1 .. Len(contents[c]) : at = first + off[c - 1] + p - 1
  BY <1>6 DEF HeapPages
<1>9. ASSUME NEW c \in 1 .. n, NEW at, at \in HeapPages(table[c])
      PROVE  at \in new /\ first + off[c - 1] <= at /\ at < first + off[c]
  <2>1. PICK p \in 1 .. Len(contents[c]) : at = first + off[c - 1] + p - 1
    BY <1>8, <1>9
  <2>2. off[c - 1] \in Nat /\ off[c] = off[c - 1] + Len(contents[c]) /\ Len(contents[c]) \in Nat
    BY <1>2
  <2>3. off[c - 1] + p \in 1 .. Len(rows)
    BY <1>3
  <2>. DEFINE o == off[c - 1]
              k == Len(contents[c])
  <2>4. /\ first \in Nat /\ o \in Nat /\ k \in Nat /\ p \in 1 .. k /\ off[c] = o + k /\ at = first + o + p - 1
        /\ o + p \in 1 .. Len(rows) /\ Len(rows) \in Nat
    BY <1>1, <1>3, <2>1, <2>2, <2>3
  <2>. HIDE DEF o, k
  <2>5. at \in new /\ first + o <= at /\ at < first + (o + k)
    BY <2>4
  <2>. QED
    BY <2>4, <2>5 DEF o
<1>10. Apart(table)
  <2>1. ASSUME NEW c \in 1 .. n, NEW d \in 1 .. n, c < d, NEW at, at \in HeapPages(table[c])
        PROVE  at \notin HeapPages(table[d])
    <3>1. off[c] <= off[d - 1] /\ off[c] \in Nat /\ off[d - 1] \in Nat
      <4>1. c \in 0 .. n /\ d - 1 \in 0 .. n /\ c <= d - 1
        BY <1>2, <2>1
      <4>. QED
        BY <1>2, <4>1
    <3>2. at < first + off[c] /\ at \in Int
      BY <1>1, <1>9, <2>1
    <3>3. ~(first + off[d - 1] <= at)
      BY <1>1, <3>1, <3>2
    <3>. QED
      BY <1>9, <3>3
  <2>2. ASSUME NEW c \in 1 .. n, NEW d \in 1 .. n, c # d
        PROVE  HeapPages(table[c]) \cap HeapPages(table[d]) = {}
    <3>1. CASE c < d
      BY <2>1, <3>1
    <3>2. CASE d < c
      BY <2>1, <3>2
    <3>. QED
      BY <1>2, <2>2, <3>1, <3>2
  <2>. QED
    BY <1>7, <2>2 DEF Apart
<1>11. ASSUME NEW at PROVE OnHeapOf(table, at) <=> at \in new
  <2>1. OnHeapOf(table, at) => at \in new
    BY <1>7, <1>9 DEF OnHeapOf
  <2>2. ASSUME at \in new PROVE OnHeapOf(table, at)
    <3>. DEFINE row == at - first
    <3>1. row \in Nat /\ row < Len(rows) /\ at = first + row
      BY <1>1, <1>3, <2>2
    <3>2. PICK p \in 0 .. Len(contents) - 1 : OnPage(off, p, row)
      BY <1>3, <3>1, RowOnPage DEF off
    <3>. DEFINE c == p + 1
                i == row - off[p] + 1
    <3>3. c \in 1 .. n /\ c - 1 = p /\ p \in 0 .. n
      BY <1>2 DEF n
    <3>4. off[p] <= row /\ row < off[c] /\ off[p] \in Nat
      BY <1>2, <3>2, <3>3 DEF OnPage
    <3>5. off[c] = off[p] + Len(contents[c]) /\ Len(contents[c]) \in Nat
      BY <1>2, <3>3
    <3>6. i \in 1 .. Len(contents[c])
      BY <3>1, <3>4, <3>5
    <3>7. at = first + off[p] + i - 1
      BY <1>1, <3>1, <3>4
    <3>. HIDE DEF c, i
    <3>8. at \in HeapPages(table[c])
      BY <1>8, <3>3, <3>6, <3>7
    <3>. QED
      BY <1>6, <1>7, <3>3, <3>8 DEF OnHeapOf
  <2>. QED
    BY <2>1, <2>2
<1>12. \A at \in old : at \notin new
  BY <1>1, <1>3
<1>. QED
  BY <1>4, <1>6, <1>7, <1>10, <1>11, <1>12 DEF heap, table

-----------------------------------------------------------------------------
(* Who owns what, for a list of columns.                                   *)

Owning(mem, list, leaks, fresh) ==
  /\ \A m \in 1 .. Len(mem.maps) :
       /\ mem.maps[m].refs = Refs(list, m)
       /\ mem.maps[m].mapped <=> (Refs(list, m) > 0 \/ fresh = m)
  /\ \A c \in 1 .. Len(list) : list[c].mapped_memory <= Len(mem.maps)
  /\ \A at : at \in DOMAIN mem.heap <=> at \in leaks \/ OnHeapOf(list, at)
  /\ \A at \in leaks : ~OnHeapOf(list, at)
  /\ Apart(list)

LEMMA NoneOwned == Owning(NoMemory, <<>>, {}, 0)
<1>1. Len(<<>>) = 0 /\ DOMAIN <<>> = {} /\ (\A i : i \notin 1 .. 0)
  OBVIOUS
<1>. QED
  BY <1>1 DEF Owning, NoMemory, OnHeapOf, Apart

LEMMA NoRefs ==
  ASSUME NEW list \in Seq(ColumnType), NEW m, \A c \in 1 .. Len(list) : list[c].mapped_memory # m
  PROVE  Refs(list, m) = 0
<1>1. RefersTo(list, m) = {}
  BY DEF RefersTo
<1>. QED
  BY <1>1, FS_EmptySet DEF Refs

\* A new mapping has no reference yet.
LEMMA MapOwned ==
  ASSUME NEW mem, MemoryTyped(mem), NEW list \in Seq(ColumnType), NEW leaks,
         Owning(mem, list, leaks, 0), NEW f
  PROVE  Owning(Map(mem, f), list, leaks, Len(mem.maps) + 1)
<1>. DEFINE new == [file |-> f, refs |-> 0, mapped |-> TRUE]
            maps == Append(mem.maps, new)
            k == Len(mem.maps)
            M == Map(mem, f)
<1>1. M = [maps |-> maps, heap |-> mem.heap]
  <2>1. M = [mem EXCEPT !.maps = maps]
    BY DEF Map
  <2>. HIDE DEF maps
  <2>. QED
    BY <2>1, NewMaps DEF MemoryTyped
<1>2. /\ k \in Nat /\ Len(maps) = k + 1
      /\ \A m \in 1 .. k : maps[m] = mem.maps[m]
      /\ maps[k + 1] = new
  <2>. HIDE DEF new
  <2>. QED
    BY DEF MemoryTyped
<1>3. maps[k + 1].refs = 0 /\ maps[k + 1].mapped = TRUE
  BY <1>2
<1>4. M.maps = maps /\ M.heap = mem.heap
  BY <1>1
<1>5. Refs(list, k + 1) = 0
  <2>1. \A c \in 1 .. Len(list) : list[c].mapped_memory <= k
    BY DEF Owning
  <2>2. \A c \in 1 .. Len(list) : list[c].mapped_memory # k + 1
    BY <1>2, <2>1
  <2>. QED
    BY <2>2, NoRefs
<1>. HIDE DEF new, maps, M, k
<1>6. ASSUME NEW m \in 1 .. Len(maps)
      PROVE  /\ maps[m].refs = Refs(list, m)
             /\ maps[m].mapped <=> (Refs(list, m) > 0 \/ k + 1 = m)
  <2>1. CASE m = k + 1
    BY <1>3, <1>5, <2>1
  <2>2. CASE m # k + 1
    <3>1. m \in 1 .. k /\ m # 0
      BY <1>2, <2>2
    <3>2. mem.maps[m].refs = Refs(list, m) /\ (mem.maps[m].mapped <=> (Refs(list, m) > 0 \/ 0 = m))
      BY <3>1 DEF Owning, k
    <3>. QED
      BY <1>2, <2>2, <3>1, <3>2
  <2>. QED
    BY <2>1, <2>2
<1>7. \A c \in 1 .. Len(list) : list[c].mapped_memory <= Len(maps)
  <2>1. \A c \in 1 .. Len(list) : list[c].mapped_memory \in Nat /\ list[c].mapped_memory <= k
    BY DEF Owning, ColumnType, k
  <2>. QED
    BY <1>2, <2>1
<1>. QED
  BY <1>4, <1>6, <1>7 DEF Owning, M, k

\* Another column refers to the newest mapping.
LEMMA AssignOwned ==
  ASSUME NEW mem, MemoryTyped(mem), mem.maps # <<>>, NEW list \in Seq(ColumnType), NEW leaks,
         Owning(mem, list, leaks, Len(mem.maps)),
         NEW column \in ColumnType, column.mapped_memory = Len(mem.maps)
  PROVE  Owning(Assign(mem), list \o <<column>>, leaks, Len(mem.maps))
<1>. DEFINE k == Len(mem.maps)
            old == mem.maps[k]
            new == [old EXCEPT !.refs = @ + 1]
            maps == [mem.maps EXCEPT ![k] = new]
            longer == list \o <<column>>
<1>1. k \in Nat /\ k # 0 /\ k \in 1 .. k /\ old \in Mapping /\ DOMAIN mem.maps = 1 .. k
  <2>1. k \in Nat /\ k # 0 /\ DOMAIN mem.maps = 1 .. k
    BY DEF MemoryTyped
  <2>2. k \in 1 .. k
    BY <2>1
  <2>3. old \in Mapping
    BY <2>1, <2>2 DEF MemoryTyped
  <2>. QED
    BY <2>1, <2>2, <2>3
<1>2. new.refs = old.refs + 1 /\ new.mapped = old.mapped
  <2>. HIDE DEF old
  <2>1. old \in Mapping
    BY <1>1
  <2>. QED
    BY <2>1 DEF Mapping
<1>3. Assign(mem) = [mem EXCEPT !.maps = maps]
  BY DEF Assign
<1>4. /\ Len(maps) = k /\ maps[k] = new
      /\ \A m \in 1 .. k : m # k => maps[m] = mem.maps[m]
  <2>. HIDE DEF new
  <2>1. maps = [m \in 1 .. k |-> IF m = k THEN new ELSE mem.maps[m]]
    BY <1>1
  <2>. QED
    BY <1>1, <2>1
<1>. HIDE DEF new, maps
<1>5. Assign(mem) = [maps |-> maps, heap |-> mem.heap]
  BY <1>3, NewMaps DEF MemoryTyped
<1>6. Assign(mem).maps = maps /\ Assign(mem).heap = mem.heap
  BY <1>5
<1>7. /\ <<column>> \in Seq(ColumnType) /\ Len(<<column>>) = 1 /\ <<column>>[1] = column
      /\ longer \in Seq(ColumnType)
  BY Concatenation
<1>8. \A m : Refs(longer, m) = Refs(list, m) + (IF k = m THEN 1 ELSE 0) /\ Refs(list, m) \in Nat
  <2>. TAKE m
  <2>1. Refs(longer, m) = Refs(list, m) + Refs(<<column>>, m) /\ Refs(list, m) \in Nat
    BY <1>7, RefsOfBoth, RefsNumber
  <2>2. Refs(<<column>>, m) = IF k = m THEN 1 ELSE 0
    BY RefsOfOne
  <2>. QED
    BY <2>1, <2>2
<1>9. \A at : ~OnHeapOf(<<column>>, at)
  BY <1>1, <1>7 DEF OnHeapOf
<1>10. \A at : OnHeapOf(longer, at) <=> OnHeapOf(list, at)
  BY <1>7, <1>9, HeapOfBoth
<1>11. Apart(longer)
  <2>1. Apart(<<column>>) /\ Separate(list, <<column>>)
    BY <1>1, <1>7, <1>9 DEF Apart, Separate
  <2>. QED
    BY <1>7, <2>1, BothApart DEF Owning
<1>12. \A c \in 1 .. Len(longer) : longer[c].mapped_memory <= k
  <2>1. /\ Len(list) \in Nat /\ Len(longer) = Len(list) + 1
        /\ \A i \in 1 .. Len(list) : longer[i] = list[i]
        /\ longer[Len(list) + 1] = column
    <3>1. /\ Len(longer) = Len(list) + 1 /\ Len(list) \in Nat
          /\ \A i \in 1 .. Len(list) : longer[i] = list[i]
          /\ \A i \in 1 .. 1 : longer[Len(list) + i] = <<column>>[i]
      BY <1>7, Concatenation
    <3>2. 1 \in 1 .. 1
      OBVIOUS
    <3>. QED
      BY <1>7, <3>1, <3>2
  <2>2. \A i \in 1 .. Len(list) : list[i].mapped_memory <= k
    BY DEF Owning
  <2>. HIDE DEF longer
  <2>3. \A c \in 1 .. Len(longer) : c \in 1 .. Len(list) \/ c = Len(list) + 1
    BY <2>1
  <2>. QED
    BY <1>1, <2>1, <2>2, <2>3
<1>. HIDE DEF longer
<1>13. ASSUME NEW m \in 1 .. k
       PROVE  /\ maps[m].refs = Refs(longer, m)
              /\ maps[m].mapped <=> (Refs(longer, m) > 0 \/ k = m)
  <2>1. mem.maps[m].refs = Refs(list, m) /\ (mem.maps[m].mapped <=> (Refs(list, m) > 0 \/ k = m))
    BY DEF Owning
  <2>2. CASE m = k
    <3>1. maps[m].refs = old.refs + 1 /\ maps[m].mapped = old.mapped
      BY <1>2, <1>4, <2>2
    <3>2. Refs(longer, m) = Refs(list, m) + 1
      BY <1>8, <2>2
    <3>. QED
      BY <2>1, <2>2, <3>1, <3>2
  <2>3. CASE m # k
    <3>1. Refs(longer, m) = Refs(list, m)
      BY <1>8, <2>3
    <3>. QED
      BY <1>4, <2>1, <2>3, <3>1
  <2>. QED
    BY <2>2, <2>3
<1>. QED
  BY <1>4, <1>6, <1>10, <1>11, <1>12, <1>13 DEF Owning, longer, k

\* No column refers to a mapping behind the k-th.
Within(list, k) == \A c \in 1 .. Len(list) : list[c].mapped_memory <= k

LEMMA BothWithin ==
  ASSUME NEW a \in Seq(ColumnType), NEW b \in Seq(ColumnType), NEW k
  PROVE  Within(a \o b, k) <=> Within(a, k) /\ Within(b, k)
<1>. DEFINE all == a \o b
            n == Len(a)
<1>1. /\ n \in Nat /\ Len(b) \in Nat /\ Len(all) = n + Len(b)
      /\ \A i \in 1 .. n : all[i] = a[i]
      /\ \A i \in 1 .. Len(b) : all[n + i] = b[i]
  BY Concatenation
<1>. HIDE DEF all, n
<1>2. \A i \in 1 .. n : i \in 1 .. Len(all)
  BY <1>1
<1>3. \A i \in 1 .. Len(b) : n + i \in 1 .. Len(all)
  BY <1>1
<1>4. \A i \in 1 .. Len(all) : i \in 1 .. n \/ (i - n \in 1 .. Len(b) /\ n + (i - n) = i)
  BY <1>1
<1>5. ASSUME Within(all, k) PROVE Within(a, k) /\ Within(b, k)
  BY <1>1, <1>2, <1>3, <1>5 DEF Within, n
<1>6. ASSUME Within(a, k), Within(b, k) PROVE Within(all, k)
  <2>. SUFFICES ASSUME NEW i \in 1 .. Len(all) PROVE all[i].mapped_memory <= k
    BY DEF Within
  <2>1. CASE i \in 1 .. n
    BY <1>1, <1>6, <2>1 DEF Within, n
  <2>2. CASE i \notin 1 .. n
    <3>1. i - n \in 1 .. Len(b) /\ n + (i - n) = i
      BY <1>4, <2>2
    <3>2. all[i] = b[i - n]
      BY <1>1, <3>1
    <3>. QED
      BY <1>6, <3>1, <3>2 DEF Within
  <2>. QED
    BY <2>1, <2>2
<1>. QED
  BY <1>5, <1>6 DEF all

LEMMA OfOne ==
  ASSUME NEW column \in ColumnType
  PROVE  /\ <<column>> \in Seq(ColumnType)
         /\ \A k : Within(<<column>>, k) <=> column.mapped_memory <= k
         /\ \A at : OnHeapOf(<<column>>, at) <=> column.mapped_memory = 0 /\ at \in HeapPages(column)
<1>1. <<column>> \in Seq(ColumnType) /\ Len(<<column>>) = 1 /\ <<column>>[1] = column
  OBVIOUS
<1>2. \A i : i \in 1 .. 1 <=> i = 1
  OBVIOUS
<1>. QED
  BY <1>1, <1>2 DEF Within, OnHeapOf

\* A mapping a column refers to needs nobody else to keep it.
LEMMA NotFresh ==
  ASSUME NEW mem, NEW list, NEW leaks, NEW k, Owning(mem, list, leaks, k), Refs(list, k) > 0
  PROVE  Owning(mem, list, leaks, 0)
<1>1. \A m \in 1 .. Len(mem.maps) : m # 0
  OBVIOUS
<1>2. \A m \in 1 .. Len(mem.maps) : mem.maps[m].mapped <=> (Refs(list, m) > 0 \/ 0 = m)
  BY <1>1 DEF Owning
<1>. QED
  BY <1>2 DEF Owning

\* New pages are those of the new columns.
LEMMA AllocatedOwned ==
  ASSUME NEW V, NEW contents \in Seq(Seq(V)), contents # <<>>, NEW mem, MemoryTyped(mem),
         NEW list \in Seq(ColumnType), NEW leaks, Owning(mem, list, leaks, 0)
  PROVE  Owning(Allocated(mem, contents), list \o NewColumns(mem, contents), leaks, 0)
<1>. DEFINE new == NewColumns(mem, contents)
            M == Allocated(mem, contents)
            both == list \o new
<1>1. M.maps = mem.maps /\ new \in Seq(ColumnType)
  BY NewPages DEF TableType
<1>2. /\ \A c \in 1 .. Len(new) : new[c].mapped_memory = 0
      /\ Apart(new)
      /\ \A at : at \in DOMAIN mem.heap => ~OnHeapOf(new, at)
      /\ \A at : at \in DOMAIN M.heap <=> at \in DOMAIN mem.heap \/ OnHeapOf(new, at)
  BY NewPagesApart
<1>. HIDE DEF new, M
<1>3. \A at : OnHeapOf(both, at) <=> OnHeapOf(list, at) \/ OnHeapOf(new, at)
  BY <1>1, HeapOfBoth
<1>4. Apart(both)
  <2>1. Separate(list, new)
    BY <1>2 DEF Separate, Owning
  <2>. QED
    BY <1>1, <1>2, <2>1, BothApart DEF Owning
<1>5. ASSUME NEW m \in 1 .. Len(mem.maps) PROVE Refs(both, m) = Refs(list, m)
  <2>1. Refs(both, m) = Refs(list, m) + Refs(new, m) /\ Refs(list, m) \in Nat
    BY <1>1, RefsOfBoth, RefsNumber
  <2>2. \A c \in 1 .. Len(new) : new[c].mapped_memory # m
    BY <1>2
  <2>3. Refs(new, m) = 0
    BY <1>1, <2>2, NoRefs
  <2>. QED
    BY <2>1, <2>3
<1>6. Within(both, Len(mem.maps))
  <2>1. Within(list, Len(mem.maps))
    BY DEF Owning, Within
  <2>2. Within(new, Len(mem.maps))
    BY <1>2, MapsLength DEF Within
  <2>. QED
    BY <1>1, <2>1, <2>2, BothWithin
<1>. HIDE DEF both
<1>7. \A at : at \in DOMAIN M.heap <=> at \in leaks \/ OnHeapOf(both, at)
  BY <1>2, <1>3 DEF Owning
<1>8. \A at \in leaks : ~OnHeapOf(both, at)
  BY <1>2, <1>3 DEF Owning
<1>9. \A m \in 1 .. Len(M.maps) :
        /\ M.maps[m].refs = Refs(both, m)
        /\ M.maps[m].mapped <=> (Refs(both, m) > 0 \/ 0 = m)
  BY <1>1, <1>5 DEF Owning
<1>10. Within(both, Len(M.maps))
  BY <1>1, <1>6
<1>. QED
  BY <1>4, <1>7, <1>8, <1>9, <1>10 DEF Owning, Within, M, new, both

\* ~Column gives back one reference, or the column's own pages.
LEMMA DestroyedOwned ==
  ASSUME NEW front \in Seq(ColumnType), NEW column \in ColumnType, NEW rest \in Seq(ColumnType),
         NEW mem, MemoryTyped(mem), NEW leaks,
         Owning(mem, front \o (<<column>> \o rest), leaks, 0)
  PROVE  Owning(Destroy(mem, column), front \o rest, leaks, 0)
<1>. DEFINE one == <<column>>
            tail == one \o rest
            all == front \o tail
            left == front \o rest
            m == column.mapped_memory
            M == Destroy(mem, column)
            k == Len(mem.maps)
<1>0. Owning(mem, all, leaks, 0)
  OBVIOUS
<1>1. one \in Seq(ColumnType) /\ tail \in Seq(ColumnType) /\ all \in Seq(ColumnType) /\ left \in Seq(ColumnType)
  <2>1. one \in Seq(ColumnType)
    OBVIOUS
  <2>. HIDE DEF one
  <2>2. tail \in Seq(ColumnType)
    BY <2>1
  <2>. HIDE DEF tail
  <2>. QED
    BY <2>1, <2>2
<1>2. /\ \A i : Within(one, i) <=> m <= i
      /\ \A at : OnHeapOf(one, at) <=> m = 0 /\ at \in HeapPages(column)
  BY OfOne
<1>3. \A i : Refs(one, i) = IF m = i THEN 1 ELSE 0
  BY RefsOfOne
<1>. HIDE DEF one
<1>4. \A i : Refs(all, i) = Refs(left, i) + Refs(one, i) /\ Refs(left, i) \in Nat
  <2>. TAKE i
  <2>1. Refs(all, i) = Refs(front, i) + Refs(tail, i)
    <3>1. front \in Seq(ColumnType) /\ tail \in Seq(ColumnType)
      BY <1>1
    <3>. HIDE DEF tail
    <3>. QED
      BY ONLY <3>1, RefsOfBoth
  <2>2. Refs(tail, i) = Refs(one, i) + Refs(rest, i)
    BY <1>1, RefsOfBoth
  <2>3. Refs(left, i) = Refs(front, i) + Refs(rest, i)
    BY RefsOfBoth
  <2>4. Refs(front, i) \in Nat /\ Refs(rest, i) \in Nat /\ Refs(one, i) \in Nat
    BY <1>1, RefsNumber
  <2>. QED
    BY <2>1, <2>2, <2>3, <2>4
<1>5. \A at : /\ OnHeapOf(all, at) <=> OnHeapOf(left, at) \/ OnHeapOf(one, at)
              /\ OnHeapOf(left, at) <=> OnHeapOf(front, at) \/ OnHeapOf(rest, at)
              /\ OnHeapOf(tail, at) <=> OnHeapOf(one, at) \/ OnHeapOf(rest, at)
  BY <1>1, HeapOfBoth
<1>6. Within(left, k) /\ Within(one, k)
  <2>1. Within(all, k)
    BY <1>0 DEF Owning, Within
  <2>2. Within(front, k) /\ Within(tail, k)
    BY <1>1, <2>1, BothWithin
  <2>3. Within(one, k) /\ Within(rest, k)
    BY <1>1, <2>2, BothWithin
  <2>. QED
    BY <2>2, <2>3, BothWithin
<1>7. Apart(all)
  BY <1>0 DEF Owning
<1>8. Apart(left) /\ \A at : ~(OnHeapOf(one, at) /\ OnHeapOf(left, at))
  <2>1. Apart(front) /\ Apart(tail) /\ Separate(front, tail)
    BY <1>1, <1>7, BothApart
  <2>2. Apart(rest) /\ Separate(one, rest)
    BY <1>1, <2>1, BothApart
  <2>3. Separate(front, rest)
    BY <1>5, <2>1 DEF Separate
  <2>. QED
    BY <1>5, <2>1, <2>2, <2>3, BothApart DEF Separate
<1>9. Owning(mem, all, leaks, 0) /\ k \in Nat /\ DOMAIN mem.maps = 1 .. k
  BY <1>0, MapsLength
<1>. HIDE DEF tail, all, left
<1>10. CASE m # 0
  <2>. DEFINE old == mem.maps[m]
              maps == [mem.maps EXCEPT ![m] = Released(old)]
  <2>1. m \in 1 .. k
    <3>1. m \in Nat /\ m <= k
      BY <1>2, <1>6 DEF ColumnType
    <3>. QED
      BY <1>9, <1>10, <3>1
  <2>2. old.refs = Refs(all, m) /\ (old.mapped <=> Refs(all, m) > 0) /\ old \in Mapping
    <3>1. old \in Mapping
      BY <1>9, <2>1 DEF MemoryTyped
    <3>2. old.refs = Refs(all, m) /\ (old.mapped <=> (Refs(all, m) > 0 \/ 0 = m))
      BY <1>9, <2>1 DEF Owning
    <3>. QED
      BY <1>10, <3>1, <3>2
  <2>3. /\ Released(old).refs = old.refs - 1
        /\ Released(old).mapped = (old.mapped /\ old.refs # 1)
    BY DEF Released
  <2>4. M = [mem EXCEPT !.maps = maps]
    BY <1>10 DEF Destroy
  <2>5. /\ Len(maps) = k /\ maps[m] = Released(old)
        /\ \A i \in 1 .. k : i # m => maps[i] = mem.maps[i]
    <3>. DEFINE new == Released(old)
    <3>. HIDE DEF new
    <3>1. [mem.maps EXCEPT ![m] = new] = [i \in 1 .. k |-> IF i = m THEN new ELSE mem.maps[i]]
      BY <1>9
    <3>2. /\ Len([mem.maps EXCEPT ![m] = new]) = k /\ [mem.maps EXCEPT ![m] = new][m] = new
          /\ \A i \in 1 .. k : i # m => [mem.maps EXCEPT ![m] = new][i] = mem.maps[i]
      BY <1>9, <2>1, <3>1
    <3>. QED
      BY <3>2 DEF new
  <2>. HIDE DEF maps, old
  <2>6. M = [maps |-> maps, heap |-> mem.heap]
    BY <2>4, NewMaps DEF MemoryTyped
  <2>7. M.maps = maps /\ M.heap = mem.heap
    BY <2>6
  <2>8. ASSUME NEW i \in 1 .. k
        PROVE  /\ maps[i].refs = Refs(left, i)
               /\ maps[i].mapped <=> (Refs(left, i) > 0 \/ 0 = i)
    <3>1. CASE i = m
      <4>1. Refs(all, m) = Refs(left, m) + 1 /\ Refs(left, m) \in Nat
        BY <1>3, <1>4
      <4>2. maps[i].refs = old.refs - 1
        BY <2>3, <2>5, <3>1
      <4>3. maps[i].mapped <=> (old.mapped /\ old.refs # 1)
        BY <2>3, <2>5, <3>1
      <4>4. old.refs = Refs(left, m) + 1 /\ (old.refs # 1 <=> Refs(left, m) > 0) /\ Refs(all, m) > 0
        BY <2>2, <4>1
      <4>5. maps[i].refs = Refs(left, m)
        BY <4>1, <4>2, <4>4
      <4>6. maps[i].mapped <=> Refs(left, m) > 0
        BY <2>2, <4>3, <4>4
      <4>. QED
        BY <1>10, <3>1, <4>5, <4>6
    <3>2. CASE i # m
      <4>1. Refs(all, i) = Refs(left, i)
        BY <1>3, <1>4, <3>2
      <4>2. mem.maps[i].refs = Refs(all, i) /\ (mem.maps[i].mapped <=> (Refs(all, i) > 0 \/ 0 = i))
        BY <1>9 DEF Owning
      <4>. QED
        BY <2>5, <3>2, <4>1, <4>2
    <3>. QED
      BY <3>1, <3>2
  <2>9. \A at : ~OnHeapOf(one, at)
    BY <1>2, <1>10
  <2>10. /\ \A at : at \in DOMAIN M.heap <=> at \in leaks \/ OnHeapOf(left, at)
         /\ \A at \in leaks : ~OnHeapOf(left, at)
    BY <1>5, <1>9, <2>7, <2>9 DEF Owning
  <2>11. Within(left, Len(M.maps))
    BY <1>6, <2>5, <2>7
  <2>. QED
    BY <1>8, <2>5, <2>7, <2>8, <2>10, <2>11 DEF Owning, Within, left, M
<1>11. CASE m = 0
  <2>. DEFINE others == DOMAIN mem.heap \ HeapPages(column)
              heap == [at \in others |-> mem.heap[at]]
  <2>1. M = [mem EXCEPT !.heap = heap]
    BY <1>11 DEF Destroy, Restrict
  <2>2. DOMAIN heap = others
    OBVIOUS
  <2>. HIDE DEF heap
  <2>3. M = [maps |-> mem.maps, heap |-> heap]
    BY <2>1, NewHeap DEF MemoryTyped
  <2>4. M.maps = mem.maps /\ DOMAIN M.heap = others
    BY <2>2, <2>3
  <2>5. \A at : at \in DOMAIN M.heap <=> at \in DOMAIN mem.heap /\ ~OnHeapOf(one, at)
    BY <1>2, <1>11, <2>4
  <2>6. \A at : at \in DOMAIN M.heap <=> at \in leaks \/ OnHeapOf(left, at)
    <3>. TAKE at
    <3>1. at \in DOMAIN mem.heap <=> at \in leaks \/ OnHeapOf(all, at)
      BY <1>9 DEF Owning
    <3>2. at \in leaks => ~OnHeapOf(all, at)
      BY <1>9 DEF Owning
    <3>. QED
      BY <1>5, <1>8, <2>5, <3>1, <3>2
  <2>7. \A at \in leaks : ~OnHeapOf(left, at)
    BY <1>5, <1>9 DEF Owning
  <2>8. ASSUME NEW i \in 1 .. k
        PROVE  /\ mem.maps[i].refs = Refs(left, i)
               /\ mem.maps[i].mapped <=> (Refs(left, i) > 0 \/ 0 = i)
    <3>1. Refs(all, i) = Refs(left, i)
      BY <1>3, <1>4, <1>11
    <3>. QED
      BY <1>9, <3>1 DEF Owning
  <2>. QED
    BY <1>6, <1>8, <2>4, <2>6, <2>7, <2>8 DEF Owning, Within, left, M, k
<1>. QED
  BY <1>10, <1>11

\* Columns nobody will destroy: their pages are lost.
LEMMA LostOwned ==
  ASSUME NEW front \in Seq(ColumnType), NEW last \in Seq(ColumnType), NEW mem, NEW leaks,
         MemoryTyped(mem), Owning(mem, front \o last, leaks, 0),
         \A c \in 1 .. Len(last) : last[c].mapped_memory = 0
  PROVE  Owning(mem, front, leaks \union UNION {HeapPages(last[c]) : c \in 1 .. Len(last)}, 0)
<1>. DEFINE lost == UNION {HeapPages(last[c]) : c \in 1 .. Len(last)}
            all == front \o last
<1>1. \A at : at \in lost <=> OnHeapOf(last, at)
  BY DEF OnHeapOf
<1>. HIDE DEF lost
<1>2. \A at : OnHeapOf(all, at) <=> OnHeapOf(front, at) \/ OnHeapOf(last, at)
  BY HeapOfBoth
<1>3. Apart(front) /\ Separate(front, last)
  BY BothApart DEF Owning
<1>4. ASSUME NEW m \in 1 .. Len(mem.maps) PROVE Refs(all, m) = Refs(front, m)
  <2>1. Refs(all, m) = Refs(front, m) + Refs(last, m) /\ Refs(front, m) \in Nat
    BY RefsOfBoth, RefsNumber
  <2>2. \A c \in 1 .. Len(last) : last[c].mapped_memory # m
    OBVIOUS
  <2>3. Refs(last, m) = 0
    BY <2>2, NoRefs
  <2>. QED
    BY <2>1, <2>3
<1>5. Within(front, Len(mem.maps))
  <2>1. Within(all, Len(mem.maps))
    BY DEF Owning, Within
  <2>. QED
    BY <2>1, BothWithin
<1>6. Owning(mem, all, leaks, 0)
  OBVIOUS
<1>. HIDE DEF all
<1>7. \A at : at \in DOMAIN mem.heap <=> at \in leaks \union lost \/ OnHeapOf(front, at)
  BY <1>1, <1>2, <1>6 DEF Owning
<1>8. \A at \in leaks \union lost : ~OnHeapOf(front, at)
  BY <1>1, <1>2, <1>3, <1>6 DEF Owning, Separate
<1>9. \A m \in 1 .. Len(mem.maps) :
        /\ mem.maps[m].refs = Refs(front, m)
        /\ mem.maps[m].mapped <=> (Refs(front, m) > 0 \/ 0 = m)
  BY <1>4, <1>6 DEF Owning
<1>. QED
  BY <1>3, <1>5, <1>7, <1>8, <1>9 DEF Owning, Within, lost

-----------------------------------------------------------------------------
(* The tables as one list of columns.                                      *)

LEMMA ColumnsOfTables ==
  ASSUME NEW list \in Seq(TableType)
  PROVE  list \in Seq(Seq(ColumnType)) /\ Rows(list) \in Seq(ColumnType)
<1>1. list \in Seq(Seq(ColumnType))
  BY SeqMonotonic DEF TableType
<1>. QED
  BY <1>1, RowsOfPages

LEMMA OneMoreTable ==
  ASSUME NEW list \in Seq(TableType), NEW table \in Seq(ColumnType)
  PROVE  Rows(Append(list, table)) = Rows(list) \o table
BY ColumnsOfTables, RowsAppended

LEMMA NoTables == Rows(<<>>) = <<>>
<1>1. <<>> \in Seq(TableType) /\ <<>> \in Seq(Seq(ColumnType)) /\ Len(<<>>) = 0
  OBVIOUS
<1>2. PageOffsets(<<>>)[0] = 0
  BY <1>1, OffsetsAscend
<1>3. Rows(<<>>) \in Seq(ColumnType) /\ Len(Rows(<<>>)) = 0
  BY <1>1, <1>2, RowsOfPages DEF NumRows
<1>. QED
  BY <1>3, EmptySeq

\* The last table apart.
LEMMA LastTable ==
  ASSUME NEW list \in Seq(TableType), list # <<>>
  PROVE  /\ Front(list) \in Seq(TableType) /\ Last(list) \in TableType
         /\ list = Append(Front(list), Last(list))
         /\ \A table \in TableType : [list EXCEPT ![Len(list)] = table] = Append(Front(list), table)
<1>. DEFINE n == Len(list)
            last == list[n]
            front == Front(list)
<1>1. n \in Nat /\ n # 0 /\ n \in 1 .. n /\ last \in TableType /\ DOMAIN list = 1 .. n
  <2>1. n \in Nat /\ n # 0 /\ DOMAIN list = 1 .. n
    BY EmptySeq
  <2>2. n \in 1 .. n
    BY <2>1
  <2>. QED
    BY <2>1, <2>2
<1>2. Last(list) = last
  BY DEF Last
<1>3. /\ front \in Seq(TableType) /\ Len(front) = n - 1
      /\ \A i \in 1 .. n - 1 : front[i] = list[i]
  <2>1. front = SubSeq(list, 1, n - 1)
    BY DEF Front
  <2>2. \A i \in 1 .. n - 1 : list[1 + i - 1] = list[i]
    BY <1>1
  <2>3. 1 \in Int /\ n - 1 \in Int /\ \A i \in 1 .. n - 1 : list[i] \in TableType
    <3>1. \A i \in 1 .. n - 1 : i \in 1 .. n
      BY <1>1
    <3>. QED
      BY <1>1, <3>1
  <2>. QED
    BY <1>1, <2>1, <2>2, <2>3
<1>. HIDE DEF front, last, n
<1>4. ASSUME NEW table \in TableType
      PROVE  [list EXCEPT ![n] = table] = Append(front, table)
  <2>. DEFINE a == [list EXCEPT ![n] = table]
              b == Append(front, table)
  <2>1. /\ a \in Seq(TableType) /\ Len(a) = n
        /\ \A j \in 1 .. n : a[j] = IF j = n THEN table ELSE list[j]
    BY <1>1, ExceptSeq DEF n
  <2>2. /\ b \in Seq(TableType) /\ Len(b) = n - 1 + 1
        /\ \A j \in 1 .. n - 1 : b[j] = front[j]
        /\ b[n - 1 + 1] = table
    BY <1>3, AppendProperties
  <2>. HIDE DEF a, b
  <2>3. ASSUME NEW j \in 1 .. n PROVE a[j] = b[j]
    <3>1. CASE j = n
      BY <1>1, <2>1, <2>2, <3>1
    <3>2. CASE j # n
      <4>1. j \in 1 .. n - 1
        BY <1>1, <3>2
      <4>. QED
        BY <1>3, <2>1, <2>2, <3>2, <4>1
    <3>. QED
      BY <3>1, <3>2
  <2>4. Len(b) = n
    BY <1>1, <2>2
  <2>5. a = b
    BY <2>1, <2>2, <2>3, <2>4, SeqEqual
  <2>. QED
    BY <2>5 DEF a, b
<1>5. list = Append(front, last)
  <2>1. [list EXCEPT ![n] = last] = list
    BY <1>1 DEF last
  <2>. QED
    BY <1>1, <1>4, <2>1
<1>. QED
  BY <1>1, <1>2, <1>3, <1>4, <1>5 DEF front, n

\* The first column apart.
LEMMA FirstColumn ==
  ASSUME NEW table \in TableType
  PROVE  /\ Head(table) \in ColumnType /\ Tail(table) \in Seq(ColumnType)
         /\ table = <<Head(table)>> \o Tail(table)
         /\ Len(table) = 1 => Tail(table) = <<>>
         /\ Len(table) # 1 => Tail(table) \in TableType
<1>. DEFINE head == Head(table)
            tail == Tail(table)
            one == <<head>>
<1>1. table \in Seq(ColumnType) /\ table # <<>>
  BY DEF TableType
<1>2. /\ head \in ColumnType /\ tail \in Seq(ColumnType) /\ Len(tail) = Len(table) - 1
      /\ \A i \in 1 .. Len(tail) : tail[i] = table[i + 1]
      /\ Len(table) \in Nat
  BY <1>1, HeadTailProperties
<1>3. head = table[1] /\ Len(table) # 0
  BY <1>1, EmptySeq
<1>4. Len(table) = 1 <=> tail = <<>>
  <2>. HIDE DEF tail
  <2>1. Len(tail) = 0 <=> tail = <<>>
    BY <1>2, EmptySeq
  <2>2. Len(table) = 1 <=> Len(tail) = 0
    BY <1>2
  <2>. QED
    BY <2>1, <2>2
<1>. HIDE DEF head, tail
<1>5. one \in Seq(ColumnType) /\ Len(one) = 1 /\ one[1] = head
  BY <1>2
<1>. HIDE DEF one
<1>6. /\ one \o tail \in Seq(ColumnType) /\ Len(one \o tail) = 1 + Len(tail)
      /\ \A i \in 1 .. 1 : (one \o tail)[i] = one[i]
      /\ \A i \in 1 .. Len(tail) : (one \o tail)[1 + i] = tail[i]
  <2>1. /\ one \o tail \in Seq(ColumnType) /\ Len(one \o tail) = Len(one) + Len(tail)
        /\ \A i \in 1 .. Len(one) : (one \o tail)[i] = one[i]
        /\ \A i \in 1 .. Len(tail) : (one \o tail)[Len(one) + i] = tail[i]
    <3>1. one \in Seq(ColumnType) /\ tail \in Seq(ColumnType)
      BY <1>2, <1>5
    <3>. QED
      BY <3>1, Concatenation
  <2>. QED
    BY <1>5, <2>1
<1>7. ASSUME NEW i \in 1 .. Len(table) PROVE table[i] = (one \o tail)[i]
  <2>1. CASE i = 1
    BY <1>3, <1>5, <1>6, <2>1
  <2>2. CASE i # 1
    <3>1. i - 1 \in 1 .. Len(tail) /\ 1 + (i - 1) = i /\ i - 1 + 1 = i
      BY <1>2, <2>2
    <3>2. (one \o tail)[1 + (i - 1)] = tail[i - 1] /\ tail[i - 1] = table[i - 1 + 1]
      BY <1>2, <1>6, <3>1
    <3>. QED
      BY <3>1, <3>2
  <2>. QED
    BY <2>1, <2>2
<1>8. Len(table) = Len(one \o tail)
  BY <1>2, <1>6
<1>9. table = one \o tail
  BY <1>1, <1>6, <1>7, <1>8, SeqEqual
<1>10. Len(table) # 1 => tail \in TableType
  BY <1>2, <1>4 DEF TableType
<1>. QED
  BY <1>2, <1>4, <1>9, <1>10 DEF one, head, tail

-----------------------------------------------------------------------------
(* Every step of the programs.                                             *)

\* The mapping from_cache has made and no column refers to yet.
Fresh == IF stage = "map" THEN Len(memory.maps) ELSE 0

OwnedInv ==
  /\ stage # "map" => columns = <<>>
  /\ program = "build_cache" => Within(AllColumns, 0)
  /\ program = "fast" \/ stage = "stopped" => Outliving = {}
  /\ Owning(memory, AllColumns, Outliving, Fresh)

LEMMA AllTyped ==
  ASSUME ObjectsTyped
  PROVE  /\ AllColumns \in Seq(ColumnType) /\ Rows(tables) \in Seq(ColumnType)
         /\ columns = <<>> => AllColumns = Rows(tables)
<1>1. Rows(tables) \in Seq(ColumnType) /\ columns \in Seq(ColumnType)
  BY ColumnsOfTables DEF ObjectsTyped
<1>2. Rows(tables) \o columns \in Seq(ColumnType)
  BY <1>1, Concatenation
<1>3. columns = <<>> => Rows(tables) \o columns = Rows(tables)
  BY <1>1, ConcatEmptySeq
<1>. QED
  BY <1>1, <1>2, <1>3 DEF AllColumns

LEMMA NothingOwned == ASSUME tables = <<>>, columns = <<>> PROVE AllColumns = <<>>
<1>1. <<>> \o <<>> = <<>>
  <2>1. <<>> \in Seq(ColumnType)
    OBVIOUS
  <2>. QED
    BY <2>1, ConcatEmptySeq
<1>. QED
  BY <1>1, NoTables DEF AllColumns

LEMMA InitOwned == Init => OwnedInv
<1>. SUFFICES ASSUME Init PROVE OwnedInv
  OBVIOUS
<1>1. /\ tables = <<>> /\ columns = <<>> /\ Outliving = {} /\ memory = NoMemory
      /\ stage = "stopped"
  BY DEF Init, Outliving
<1>2. AllColumns = <<>>
  BY <1>1, NothingOwned
<1>3. Within(<<>>, 0)
  <2>1. Len(<<>>) = 0 /\ \A i : i \notin 1 .. 0
    OBVIOUS
  <2>. QED
    BY <2>1 DEF Within
<1>. QED
  BY <1>1, <1>2, <1>3, NoneOwned DEF OwnedInv, Fresh

LEMMA StoppedOwned == ASSUME Stopped PROVE OwnedInv'
<1>1. /\ tables' = <<>> /\ columns' = <<>> /\ Outliving' = {} /\ memory' = NoMemory
      /\ stage' = "stopped"
  BY DEF Stopped, Outliving
<1>2. AllColumns' = <<>>
  <2>1. <<>> \o <<>> = <<>>
    BY EmptySeq, ConcatEmptySeq
  <2>2. AllColumns' = Rows(tables') \o columns'
    BY DEF AllColumns
  <2>. QED
    BY <1>1, <2>1, <2>2, NoTables
<1>3. Within(<<>>, 0)
  <2>1. Len(<<>>) = 0 /\ \A i : i \notin 1 .. 0
    OBVIOUS
  <2>. QED
    BY <2>1 DEF Within
<1>. QED
  BY <1>1, <1>2, <1>3, NoneOwned DEF OwnedInv, Fresh

\* Steps that touch no column.
LEMMA NothingTouched ==
  ASSUME CacheInv, OwnedInv, UNCHANGED objects,
         stage' = stage \/ (stage # "map" /\ stage' \notin {"map", "stopped"}),
         program' = program \/ stage = "stopped"
  PROVE  OwnedInv'
<1>1. memory' = memory /\ columns' = columns /\ tables' = tables /\ Outliving' = Outliving
  BY DEF objects, Outliving
<1>2. AllColumns' = AllColumns
  BY <1>1 DEF AllColumns
<1>3. Fresh' = Fresh
  BY <1>1 DEF Fresh
<1>4. stage = "stopped" => Within(AllColumns, 0)
  <2>1. stage = "stopped" => tables = <<>> /\ columns = <<>>
    BY DEF OwnedInv, CacheInv, ControlOK
  <2>2. Within(<<>>, 0)
    <3>1. Len(<<>>) = 0 /\ \A i : i \notin 1 .. 0
      OBVIOUS
    <3>. QED
      BY <3>1 DEF Within
  <2>. QED
    BY <2>1, <2>2, NothingOwned
<1>. QED
  BY <1>1, <1>2, <1>3, <1>4 DEF OwnedInv

\* A table on new pages: the one to be dumped, perhaps with a copy that is kept, and
\* the result of the plan.
LEMMA NewTableOwned ==
  ASSUME CacheInv, OwnedInv, NEW V, NEW contents \in Seq(Seq(V)), contents # <<>>,
         \/ memory' = Allocated(memory, contents) /\ Outliving' = Outliving
         \/ /\ memory' = Allocated(Allocated(memory, contents), contents)
            /\ Outliving' = Outliving
                 \union TablePages(NewColumns(Allocated(memory, contents), contents))
            /\ program = "build_cache",
         tables' = Append(tables, NewColumns(memory, contents)),
         columns' = columns, program' = program,
         stage = "load", stage' \in {"load", "dump"}
  PROVE  OwnedInv'
<1>. DEFINE new == NewColumns(memory, contents)
<1>1. ObjectsTyped /\ MemoryTyped(memory) /\ columns = <<>> /\ Fresh = 0 /\ Fresh' = 0
  BY DEF CacheInv, ObjectsTyped, OwnedInv, Fresh
<1>2. new \in Seq(ColumnType) /\ \A c \in 1 .. Len(new) : new[c].mapped_memory = 0
  BY <1>1, NewPages, NewPagesApart DEF TableType
<1>3. AllColumns = Rows(tables) /\ AllColumns \in Seq(ColumnType)
  BY <1>1, AllTyped
<1>. DEFINE loaded == Allocated(memory, contents)
            copy == NewColumns(loaded, contents)
            all == AllColumns \o new
<1>4. Owning(memory', all, Outliving', 0)
  <2>1. Owning(loaded, all, Outliving, 0)
    <3>1. Owning(memory, AllColumns, Outliving, 0)
      BY <1>1 DEF OwnedInv
    <3>. QED
      BY <1>1, <1>3, <3>1, AllocatedOwned
  <2>2. MemoryTyped(loaded) /\ all \in Seq(ColumnType)
    BY <1>1, <1>2, <1>3, NewPages, Concatenation
  <2>3. /\ copy \in Seq(ColumnType) /\ MemoryTyped(Allocated(loaded, contents))
        /\ \A c \in 1 .. Len(copy) : copy[c].mapped_memory = 0
    <3>. HIDE DEF loaded
    <3>. QED
      BY <2>2, NewPages, NewPagesApart DEF TableType
  <2>4. CASE memory' = loaded /\ Outliving' = Outliving
    BY <2>1, <2>4
  <2>5. CASE /\ memory' = Allocated(loaded, contents)
             /\ Outliving' = Outliving \union TablePages(copy)
    <3>1. Owning(memory', all \o copy, Outliving, 0)
      <4>. HIDE DEF loaded, all
      <4>. QED
        BY <2>1, <2>2, <2>5, AllocatedOwned
    <3>2. TablePages(copy) = UNION {HeapPages(copy[c]) : c \in 1 .. Len(copy)}
      <4>. HIDE DEF copy
      <4>1. DOMAIN copy = 1 .. Len(copy)
        BY <2>3
      <4>. QED
        BY <4>1 DEF TablePages
    <3>. HIDE DEF loaded, all, copy
    <3>. QED
      BY <2>2, <2>3, <2>5, <3>1, <3>2, LostOwned
  <2>. QED
    BY <2>4, <2>5
<1>. HIDE DEF new, loaded, copy
<1>5. AllColumns' = AllColumns \o new
  <2>1. Rows(Append(tables, new)) = Rows(tables) \o new
    BY <1>1, <1>2, OneMoreTable DEF ObjectsTyped
  <2>2. (Rows(tables) \o new) \o <<>> = Rows(tables) \o new
    <3>1. Rows(tables) \o new \in Seq(ColumnType)
      BY <1>2, <1>3, Concatenation
    <3>. QED
      BY <3>1, ConcatEmptySeq
  <2>3. AllColumns' = Rows(tables') \o columns'
    BY DEF AllColumns
  <2>. QED
    BY <1>1, <1>3, <2>1, <2>2, <2>3 DEF new
<1>6. program = "build_cache" => Within(AllColumns', 0)
  <2>1. Within(new, 0)
    BY <1>2 DEF Within
  <2>. QED
    BY <1>2, <1>3, <1>5, <2>1, BothWithin DEF OwnedInv
<1>7. program = "fast" \/ stage = "stopped" => Outliving = {}
  BY DEF OwnedInv
<1>. QED
  BY <1>1, <1>4, <1>5, <1>6, <1>7 DEF OwnedInv

LEMMA StartDumpOwned ==
  ASSUME CacheInv, OwnedInv, StartDump
  PROVE  OwnedInv'
<1>1. /\ stage' = "dump" /\ stage = "load" /\ columns' = columns
      /\ program = "build_cache" /\ program' = program /\ visited < Len(Files)
      /\ \/ memory' = Allocated(memory, Table[file]) /\ Outliving' = Outliving
         \/ /\ memory' = Allocated(Allocated(memory, Table[file]), Table[file])
            /\ Outliving' = Outliving
                 \union TablePages(NewColumns(Allocated(memory, Table[file]), Table[file]))
      /\ tables' = Append(tables, NewColumns(memory, Table[file]))
  BY DEF StartDump, Outliving
<1>2. file \in File
  <2>1. NumScans \in Nat /\ Len(Files) = NumScans + 1 /\ visited \in 0 .. NumScans + 1
    BY FilesOfQuery DEF CacheInv, ControlOK
  <2>2. visited \in Nat /\ visited <= NumScans
    BY <1>1, <2>1
  <2>. QED
    BY <2>2, FilesOfQuery DEF CacheInv, ControlOK
<1>3. Table[file] \in Seq(Seq(Page)) /\ Table[file] # <<>>
  BY <1>2, TableTyped
<1>. QED
  BY <1>1, <1>3, NewTableOwned

LEMMA ExecuteOwned ==
  ASSUME CacheInv, OwnedInv, Execute
  PROVE  OwnedInv'
<1>. DEFINE right == Table[ResultOf[query]]
            wrong == [c \in DOMAIN right |-> <<Garbage>>]
<1>1. /\ stage' = stage /\ stage = "load" /\ columns' = columns /\ Outliving' = Outliving
      /\ program' = program
  BY DEF Execute, Outliving
<1>2. PICK result \in {right, wrong} :
        /\ tables' = Append(tables, NewColumns(memory, result))
        /\ memory' = Allocated(memory, result)
  BY DEF Execute
<1>3. right \in Seq(Seq(Page)) /\ right # <<>> /\ Len(right) \in Nat /\ DOMAIN right = 1 .. Len(right)
  <2>1. ResultOf[query] \in File
    BY FilesOfQuery DEF CacheInv, ControlOK
  <2>. QED
    BY <2>1, TableTyped
<1>4. wrong \in Seq(Seq({Garbage})) /\ wrong # <<>>
  <2>. DEFINE k == Len(right)
              page == <<Garbage>>
  <2>1. page \in Seq({Garbage}) /\ k # 0 /\ k \in Nat
    BY <1>3, EmptySeq
  <2>2. wrong = [c \in 1 .. k |-> page]
    BY <1>3
  <2>. HIDE DEF k, page, wrong
  <2>3. wrong \in Seq(Seq({Garbage})) /\ Len(wrong) = k
    BY <2>1, <2>2
  <2>. QED
    BY <2>1, <2>3
<1>. HIDE DEF right, wrong
<1>5. CASE result = right
  BY <1>1, <1>2, <1>3, <1>5, NewTableOwned
<1>6. CASE result = wrong
  BY <1>1, <1>2, <1>4, <1>6, NewTableOwned
<1>. QED
  BY <1>2, <1>5, <1>6

\* The plan keeps the table that has been dumped, a result is lost.
LEMMA EndDumpOwned ==
  ASSUME CacheInv, OwnedInv, CloseFile \/ DiskFull
  PROVE  OwnedInv'
<1>. DEFINE last == Last(tables)
            front == Front(tables)
<1>1. /\ stage' = "load" /\ stage = "dump" /\ program' = program
      /\ memory' = memory /\ columns' = columns
      /\ \/ tables' = tables /\ Outliving' = Outliving
         \/ /\ Outliving' = Outliving \union TablePages(last)
            /\ tables' = front
  BY DEF CloseFile, DiskFull, EndDump, Outliving
<1>2. /\ program = "build_cache" /\ tables # <<>> /\ tables \in Seq(TableType) /\ MemoryTyped(memory)
      /\ ObjectsTyped /\ columns = <<>> /\ Fresh = 0 /\ Fresh' = 0
  BY <1>1 DEF CacheInv, ControlOK, DumpOK, ObjectsTyped, OwnedInv, Fresh
<1>3. CASE tables' = tables /\ Outliving' = Outliving
  <2>1. AllColumns' = AllColumns
    BY <1>1, <1>3 DEF AllColumns
  <2>. QED
    BY <1>1, <1>2, <1>3, <2>1 DEF OwnedInv
<1>4. CASE /\ Outliving' = Outliving \union TablePages(last)
           /\ tables' = front
  <2>1. front \in Seq(TableType) /\ last \in TableType /\ tables = Append(front, last)
    BY <1>2, LastTable
  <2>. HIDE DEF front, last
  <2>2. last \in Seq(ColumnType) /\ DOMAIN last = 1 .. Len(last)
    BY <2>1 DEF TableType
  <2>3. Rows(front) \in Seq(ColumnType) /\ AllColumns = Rows(front) \o last
    BY <1>2, <2>1, <2>2, ColumnsOfTables, OneMoreTable, AllTyped
  <2>4. AllColumns' = Rows(front)
    <3>1. Rows(front) \o <<>> = Rows(front)
      BY <2>3, ConcatEmptySeq
    <3>2. AllColumns' = Rows(tables') \o columns'
      BY DEF AllColumns
    <3>. QED
      BY <1>1, <1>2, <1>4, <3>1, <3>2
  <2>5. Within(Rows(front), 0) /\ Within(last, 0)
    BY <1>2, <2>2, <2>3, BothWithin DEF OwnedInv
  <2>6. \A c \in 1 .. Len(last) : last[c].mapped_memory = 0
    <3>1. \A c \in 1 .. Len(last) : last[c].mapped_memory \in Nat /\ last[c].mapped_memory <= 0
      BY <2>2, <2>5 DEF Within, ColumnType
    <3>. QED
      BY <3>1
  <2>7. Owning(memory, Rows(front) \o last, Outliving, 0)
    BY <1>2, <2>3 DEF OwnedInv
  <2>8. Owning(memory, Rows(front), Outliving \union UNION {HeapPages(last[c]) : c \in 1 .. Len(last)}, 0)
    BY <1>2, <2>2, <2>3, <2>6, <2>7, LostOwned
  <2>9. Owning(memory, Rows(front), Outliving', 0)
    BY <1>4, <2>2, <2>8 DEF TablePages
  <2>. QED
    BY <1>1, <1>2, <2>4, <2>5, <2>9 DEF OwnedInv
<1>. QED
  BY <1>1, <1>3, <1>4

LEMMA OpenOwned ==
  ASSUME CacheInv, OwnedInv, OpenCache
  PROVE  OwnedInv'
<1>1. /\ stage' = "map" /\ stage = "load" /\ program = "fast" /\ program' = program
      /\ memory' = Map(memory, file) /\ columns' = <<>> /\ tables' = tables /\ Outliving' = Outliving
      /\ visited < Len(Files)
  BY DEF OpenCache, NextFile, Outliving
<1>2. ObjectsTyped /\ MemoryTyped(memory) /\ columns = <<>> /\ Fresh = 0
  BY <1>1 DEF CacheInv, ObjectsTyped, OwnedInv, Fresh
<1>3. AllColumns' = AllColumns
  BY <1>1, <1>2 DEF AllColumns
<1>4. file \in File
  <2>1. NumScans \in Nat /\ Len(Files) = NumScans + 1 /\ visited \in 0 .. NumScans + 1
    BY FilesOfQuery DEF CacheInv, ControlOK
  <2>2. visited \in Nat /\ visited <= NumScans
    BY <1>1, <2>1
  <2>. QED
    BY <2>2, FilesOfQuery DEF CacheInv, ControlOK
<1>5. Len(memory'.maps) = Len(memory.maps) + 1
  BY <1>1, <1>2, <1>4, MapAdded
<1>6. Owning(Map(memory, file), AllColumns, Outliving, Len(memory.maps) + 1)
  BY <1>2, AllTyped, MapOwned DEF OwnedInv
<1>7. Fresh' = Len(memory.maps) + 1
  BY <1>1, <1>5 DEF Fresh
<1>. QED
  BY <1>1, <1>3, <1>6, <1>7 DEF OwnedInv

\* emplace_back and assign_mapped_memory: whether or not the vector moves its columns
\* into new storage, one reference more is held and counted.
LEMMA EmplaceOwned ==
  ASSUME CacheInv, OwnedInv, EmplaceColumn
  PROVE  OwnedInv'
<1>. DEFINE m == Len(memory.maps)
            c == Len(columns) + 1
            column == columns'[c]
            build == [mapped_memory |-> m,
                      pages |-> [p \in 1 .. meta.num_pages[c] |-> [map |-> m, at |-> FirstPage(c) + p - 1]]]
<1>1. /\ stage' = "map" /\ stage = "map" /\ program' = program
      /\ tables' = tables /\ Outliving' = Outliving
      /\ memory' \in {Assign(memory), Assign(Grown(memory, columns))}
      /\ columns' = Append(columns, build)
  BY DEF EmplaceColumn, Outliving
<1>2. /\ ObjectsTyped /\ ObjectsTyped' /\ MemoryTyped(memory) /\ columns \in Seq(ColumnType)
      /\ memory.maps # <<>> /\ program = "fast" /\ Len(columns) \in Nat
  BY <1>1, EmplaceStep DEF CacheInv, ObjectsTyped, ControlOK, MapOK
<1>3. memory' = Assign(memory)
  BY <1>1, <1>2, VectorGrown
<1>4. build.mapped_memory = m
  OBVIOUS
<1>. HIDE DEF build
<1>5. columns' = Append(columns, build) /\ columns'[c] = build /\ Len(columns') = c
  BY <1>1, <1>2
<1>6. build \in ColumnType
  <2>1. columns' \in Seq(ColumnType)
    BY <1>2 DEF ObjectsTyped
  <2>2. c \in 1 .. Len(columns')
    BY <1>2, <1>5
  <2>3. columns'[c] \in ColumnType
    BY <2>1, <2>2, ElementOfSeq
  <2>. QED
    BY <1>5, <2>3
<1>7. AllColumns \in Seq(ColumnType) /\ Rows(tables) \in Seq(ColumnType) /\ <<build>> \in Seq(ColumnType)
  BY <1>2, <1>6, AllTyped, OfOne
<1>8. AllColumns' = AllColumns \o <<build>>
  <2>1. Append(columns, build) = columns \o <<build>>
    BY <1>2, <1>6, AppendIsConcat
  <2>2. (Rows(tables) \o columns) \o <<build>> = Rows(tables) \o (columns \o <<build>>)
    BY <1>2, <1>7, ConcatAssociative
  <2>3. AllColumns' = Rows(tables') \o columns'
    BY DEF AllColumns
  <2>. QED
    BY <1>1, <2>1, <2>2, <2>3 DEF AllColumns
<1>9. Owning(memory, AllColumns, Outliving, m)
  BY <1>1 DEF OwnedInv, Fresh
<1>10. Owning(Assign(memory), AllColumns \o <<build>>, Outliving, m)
  BY <1>2, <1>4, <1>6, <1>7, <1>9, AssignOwned
<1>11. Fresh' = m
  <2>1. Len(memory'.maps) = m
    BY <1>2, <1>3, ReferenceCounted
  <2>. QED
    BY <1>1, <2>1 DEF Fresh
<1>. QED
  BY <1>1, <1>2, <1>3, <1>8, <1>10, <1>11 DEF OwnedInv

\* The table's columns keep its mapping.
LEMMA FinishOwned ==
  ASSUME CacheInv, OwnedInv, FinishTable
  PROVE  OwnedInv'
<1>. DEFINE m == Len(memory.maps)
<1>1. /\ stage' = "load" /\ stage = "map" /\ program' = program /\ Outliving' = Outliving
      /\ memory' = memory /\ tables' = Append(tables, columns) /\ columns' = <<>>
      /\ Len(columns) = Len(meta.num_pages)
  BY DEF FinishTable, Outliving
<1>2. /\ ObjectsTyped /\ columns \in Seq(ColumnType) /\ tables \in Seq(TableType)
      /\ program = "fast" /\ visited <= NumScans /\ query \in Query /\ visited \in Nat
  BY <1>1, FilesOfQuery DEF CacheInv, ObjectsTyped, ControlOK
<1>3. file \in File
  BY <1>2, FilesOfQuery
<1>4. Len(columns) = Len(Table[file]) /\ Len(Table[file]) \in Nat /\ Len(Table[file]) # 0
  <2>1. Holds(file) /\ disk[file].blocks # <<>>
    BY <1>1, <1>3 DEF CacheInv, MapOK, Readable, Exists, FilesHold, There
  <2>2. Table[file] \in Seq(Seq(Page)) /\ Table[file] # <<>>
    BY <1>3, TableTyped
  <2>. QED
    BY <1>1, <1>3, <2>1, <2>2, FirstPages, EmptySeq
<1>5. columns[1].mapped_memory = m /\ 1 \in 1 .. Len(columns)
  <2>1. 1 \in 1 .. Len(columns) /\ 1 \in 1 .. Len(Table[file])
    BY <1>4
  <2>2. columns[1] = Mapped(m, file)[1]
    BY <1>1, <2>1 DEF CacheInv, MapOK
  <2>3. Mapped(m, file)[1].mapped_memory = m
    BY <2>1 DEF Mapped
  <2>. QED
    BY <2>1, <2>2, <2>3
<1>. HIDE DEF m
<1>6. Refs(columns, m) > 0 /\ Refs(columns, m) \in Nat
  <2>1. RefersTo(columns, m) # {}
    BY <1>5 DEF RefersTo
  <2>. QED
    BY <1>2, <2>1, RefsNumber
<1>7. Rows(tables) \in Seq(ColumnType) /\ AllColumns \in Seq(ColumnType)
  BY <1>2, AllTyped
<1>8. Refs(AllColumns, m) > 0
  <2>1. Refs(Rows(tables) \o columns, m) = Refs(Rows(tables), m) + Refs(columns, m)
    BY <1>2, <1>7, RefsOfBoth
  <2>2. Refs(Rows(tables), m) \in Nat
    BY <1>7, RefsNumber
  <2>3. Refs(Rows(tables) \o columns, m) > 0
    BY <1>6, <2>1, <2>2
  <2>. QED
    BY <2>3 DEF AllColumns
<1>9. Owning(memory, AllColumns, Outliving, 0)
  BY <1>1, <1>8, NotFresh DEF OwnedInv, Fresh, m
<1>10. AllColumns' = AllColumns
  <2>1. Rows(Append(tables, columns)) = Rows(tables) \o columns
    BY <1>2, OneMoreTable
  <2>2. AllColumns \o <<>> = AllColumns
    BY <1>7, ConcatEmptySeq
  <2>3. AllColumns' = Rows(tables') \o columns'
    BY DEF AllColumns
  <2>. QED
    BY <1>1, <2>1, <2>2, <2>3 DEF AllColumns
<1>. QED
  BY <1>1, <1>2, <1>9, <1>10 DEF OwnedInv, Fresh

LEMMA DestroyOwned ==
  ASSUME CacheInv, OwnedInv, DestroyColumn
  PROVE  OwnedInv'
<1>. DEFINE front == Front(tables)
            last == Last(tables)
            head == Head(last)
            tail == Tail(last)
<1>1. /\ stage' = "unwind" /\ stage = "unwind" /\ program' = program /\ columns' = columns
      /\ Outliving' = Outliving /\ memory' = Destroy(memory, head) /\ tables # <<>>
      /\ tables' = IF Len(last) = 1 THEN front ELSE [tables EXCEPT ![Len(tables)] = Tail(@)]
  BY DEF DestroyColumn, Outliving
<1>2. /\ ObjectsTyped /\ tables \in Seq(TableType) /\ MemoryTyped(memory)
      /\ columns = <<>> /\ Fresh = 0 /\ Fresh' = 0
  BY <1>1 DEF CacheInv, ObjectsTyped, OwnedInv, Fresh
<1>3. /\ front \in Seq(TableType) /\ last \in TableType /\ tables = Append(front, last)
      /\ \A table \in TableType : [tables EXCEPT ![Len(tables)] = table] = Append(front, table)
  BY <1>1, <1>2, LastTable
<1>4. tables[Len(tables)] = last
  BY DEF Last
<1>5. /\ tables' = IF Len(last) = 1 THEN front ELSE [tables EXCEPT ![Len(tables)] = tail]
  BY <1>1, <1>4
<1>. HIDE DEF front, last
<1>6. /\ head \in ColumnType /\ tail \in Seq(ColumnType) /\ last = <<head>> \o tail
      /\ Len(last) = 1 => tail = <<>>
      /\ Len(last) # 1 => tail \in TableType
  BY <1>3, FirstColumn
<1>. HIDE DEF head, tail
<1>7. /\ Rows(front) \in Seq(ColumnType) /\ <<head>> \in Seq(ColumnType) /\ last \in Seq(ColumnType)
      /\ AllColumns = Rows(front) \o (<<head>> \o tail)
  <2>1. Rows(front) \in Seq(ColumnType) /\ last \in Seq(ColumnType)
    BY <1>3, ColumnsOfTables DEF TableType
  <2>2. AllColumns = Rows(front) \o last
    BY <1>2, <1>3, <2>1, OneMoreTable, AllTyped
  <2>. QED
    BY <1>6, <2>1, <2>2, OfOne
<1>8. Rows(tables') = Rows(front) \o tail
  <2>1. CASE Len(last) = 1
    BY <1>5, <1>6, <1>7, <2>1, ConcatEmptySeq
  <2>2. CASE Len(last) # 1
    BY <1>3, <1>5, <1>6, <2>2, OneMoreTable
  <2>. QED
    BY <2>1, <2>2
<1>9. AllColumns' = Rows(front) \o tail
  <2>1. Rows(front) \o tail \in Seq(ColumnType)
    BY <1>6, <1>7, Concatenation
  <2>2. AllColumns' = Rows(tables') \o columns'
    BY DEF AllColumns
  <2>. QED
    BY <1>1, <1>2, <1>8, <2>1, <2>2, ConcatEmptySeq
<1>10. Owning(memory, Rows(front) \o (<<head>> \o tail), Outliving, 0)
  BY <1>2, <1>7 DEF OwnedInv
<1>11. Owning(memory', AllColumns', Outliving', 0)
  BY <1>1, <1>2, <1>6, <1>7, <1>9, <1>10, DestroyedOwned
<1>12. program = "build_cache" => Within(AllColumns', 0)
  <2>. SUFFICES ASSUME Within(Rows(front) \o (<<head>> \o tail), 0) PROVE Within(Rows(front) \o tail, 0)
    BY <1>7, <1>9 DEF OwnedInv
  <2>1. <<head>> \o tail \in Seq(ColumnType)
    BY <1>6, <1>7, Concatenation
  <2>2. Within(Rows(front), 0) /\ Within(<<head>> \o tail, 0)
    BY <1>7, <2>1, BothWithin
  <2>3. Within(tail, 0)
    BY <1>6, <1>7, <2>2, BothWithin
  <2>. QED
    BY <1>6, <1>7, <2>2, <2>3, BothWithin
<1>. QED
  BY <1>1, <1>2, <1>11, <1>12 DEF OwnedInv

\* When the query is over nothing refers to its mappings.
LEMMA EndQueryOwned ==
  ASSUME CacheInv, OwnedInv, EndQuery
  PROVE  OwnedInv'
<1>1. CASE Stopped
  BY <1>1, StoppedOwned
<1>2. CASE ~Stopped
  <2>1. /\ stage' = "idle" /\ stage = "unwind" /\ program' = program /\ columns' = columns
        /\ tables' = tables /\ tables = <<>> /\ Outliving' = Outliving
        /\ memory' = [memory EXCEPT !.maps = <<>>]
    BY <1>2 DEF EndQuery, Outliving
  <2>2. columns = <<>> /\ AllColumns = <<>>
    BY <2>1, NothingOwned DEF OwnedInv
  <2>3. AllColumns' = AllColumns
    BY <2>1 DEF AllColumns
  <2>4. memory' = [maps |-> <<>>, heap |-> memory.heap]
    BY <2>1, NewMaps DEF CacheInv, ObjectsTyped, MemoryTyped
  <2>5. Owning(memory, <<>>, Outliving, 0)
    BY <2>1, <2>2 DEF OwnedInv, Fresh
  <2>6. Owning(memory', <<>>, Outliving, 0)
    <3>1. memory'.maps = <<>> /\ memory'.heap = memory.heap
      BY <2>4
    <3>2. Len(<<>>) = 0 /\ \A i : i \notin 1 .. 0
      OBVIOUS
    <3>. QED
      BY <2>5, <3>1, <3>2 DEF Owning
  <2>. QED
    BY <2>1, <2>2, <2>3, <2>6 DEF OwnedInv, Fresh
<1>. QED
  BY <1>1, <1>2

LEMMA OwnedStep == CacheInv /\ OwnedInv /\ [Next]_vars => OwnedInv'
<1>. SUFFICES ASSUME CacheInv, OwnedInv, [Next]_vars PROVE OwnedInv'
  OBVIOUS
<1>1. CASE UNCHANGED vars
  BY <1>1, NothingTouched DEF vars
<1>2. CASE Next
  <2>1. CASE StartProgram
    BY <2>1, NothingTouched DEF StartProgram
  <2>2. CASE \E q \in Query : StartQuery(q)
    BY <2>2, NothingTouched DEF StartQuery
  <2>3. CASE Exit \/ Crash \/ Fault
    BY <2>3, StoppedOwned DEF Exit, Crash, Fault
  <2>4. CASE SkipFile
    BY <2>4, NothingTouched DEF SkipFile
  <2>5. CASE StartDump
    BY <2>5, StartDumpOwned
  <2>6. CASE WriteBlock
    BY <2>6, NothingTouched DEF WriteBlock
  <2>7. CASE CloseFile \/ DiskFull
    BY <2>7, EndDumpOwned
  <2>8. CASE EndBuild
    BY <2>8, NothingTouched DEF EndBuild
  <2>9. CASE Throw
    BY <2>9, NothingTouched DEF Throw, NextFile, objects
  <2>10. CASE OpenCache
    BY <2>10, OpenOwned
  <2>11. CASE EmplaceColumn
    BY <2>11, EmplaceOwned
  <2>12. CASE FinishTable
    BY <2>12, FinishOwned
  <2>13. CASE Execute
    BY <2>13, ExecuteOwned
  <2>14. CASE Compare
    BY <2>14, NothingTouched DEF Compare
  <2>15. CASE DestroyColumn
    BY <2>15, DestroyOwned
  <2>16. CASE EndQuery
    BY <2>16, EndQueryOwned
  <2>. QED
    BY <1>2, <2>1, <2>2, <2>3, <2>4, <2>5, <2>6, <2>7, <2>8, <2>9, <2>10, <2>11, <2>12, <2>13,
       <2>14, <2>15, <2>16 DEF Next
<1>. QED
  BY <1>1, <1>2

LEMMA InvOwned == CacheInv /\ OwnedInv => MappingsOwned
<1>. SUFFICES ASSUME CacheInv, OwnedInv PROVE MappingsOwned
  OBVIOUS
<1>. DEFINE all == AllColumns
            of(m) == {c \in DOMAIN all : all[c].mapped_memory = m}
<1>1. /\ all \in Seq(ColumnType) /\ DOMAIN memory.maps = 1 .. Len(memory.maps)
      /\ Owning(memory, all, Outliving, Fresh)
  BY AllTyped, MapsLength DEF CacheInv, ObjectsTyped, OwnedInv
<1>. HIDE DEF all
<1>2. DOMAIN all = 1 .. Len(all)
  BY <1>1
<1>3. \A m : of(m) = RefersTo(all, m)
  BY <1>2 DEF RefersTo
<1>4. \A m : Cardinality(of(m)) = Refs(all, m) /\ (Refs(all, m) > 0 <=> of(m) # {})
  BY <1>1, <1>3, RefsNumber DEF Refs
<1>5. \A m \in DOMAIN memory.maps :
        /\ memory.maps[m].refs = Cardinality(of(m))
        /\ memory.maps[m].mapped <=> (of(m) # {} \/ Fresh = m)
  <2>. HIDE DEF of
  <2>. QED
    BY <1>1, <1>4 DEF Owning
<1>6. \A at : OnHeapOf(all, at) <=> at \in UNION {HeapPages(all[c]) : c \in of(0)}
  BY <1>2 DEF OnHeapOf
<1>7. DOMAIN memory.heap = Outliving \union UNION {HeapPages(all[c]) : c \in of(0)}
  <2>. DEFINE on == UNION {HeapPages(all[c]) : c \in of(0)}
  <2>1. \A at : OnHeapOf(all, at) <=> at \in on
    BY <1>6
  <2>. HIDE DEF on
  <2>2. \A at : at \in DOMAIN memory.heap <=> at \in Outliving \union on
    BY <1>1, <2>1 DEF Owning
  <2>3. DOMAIN memory.heap = Outliving \union on
    BY <2>2
  <2>. QED
    BY <2>3 DEF on
<1>8. \A c, d \in of(0) : c # d => HeapPages(all[c]) \cap HeapPages(all[d]) = {}
  BY <1>1, <1>2 DEF Owning, Apart
<1>9. Owned(memory, all, Outliving, Fresh)
  BY <1>5, <1>7, <1>8 DEF Owned
<1>. QED
  BY <1>9 DEF MappingsOwned, OwnedInv, Fresh, all

LEMMA OwnedInvariant == Spec => []OwnedInv
BY InitOwned, OwnedStep, Invariant, PTL DEF Spec

\* MappedMemory and Column in plan.h: whatever is loaded, moved, executed, thrown and
\* cleaned up, a mapping lasts exactly as long as a column refers to it, and a page of
\* the heap belongs to one column, or is one of a converted result nobody deletes or of
\* the copy of an unfiltered table that from_csv keeps.
THEOREM CacheMappingsOwned == Spec => []MappingsOwned
BY Invariant, OwnedInvariant, InvOwned, PTL
=============================================================================
