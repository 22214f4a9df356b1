--------------------------- MODULE HashJoinProofs ---------------------------
(***************************************************************************)
(* Proofs about WorkStealing, for any number of threads and rows, any block *)
(* size, and any word size the overshoot of the counter fits in; and about  *)
(* the join that runs on it, for which what is proved of the coordinator    *)
(* holds too.                                                               *)
(***************************************************************************)
EXTENDS HashJoin, PagesProofs, FiniteSetTheorems

-----------------------------------------------------------------------------
(* Arithmetic.                                                             *)

LEMMA BlockSizeNat == BlockSize \in Nat
BY ConfigAssumption DEF BlockSize

LEMMA CardWorker == Cardinality(Worker) \in Nat \ {0}
BY ConfigAssumption, FS_CardinalityType, FS_EmptySet

LEMMA OverrunFinite == IsFiniteSet(Overrun) /\ Cardinality(Overrun) \in Nat
<1>1. Overrun \subseteq Worker
  BY DEF Overrun
<1>. QED
  BY <1>1, ConfigAssumption, FS_Subset, FS_CardinalityType

\* A worker outside Overrun leaves room in Worker for it.
LEMMA OverrunSmaller ==
  ASSUME NEW w \in Worker, w \notin Overrun
  PROVE  Cardinality(Overrun) + 1 <= Cardinality(Worker)
<1>1. Overrun \union {w} \subseteq Worker
  BY DEF Overrun
<1>2. Cardinality(Overrun \union {w}) = Cardinality(Overrun) + 1
  BY OverrunFinite, FS_AddElement
<1>. QED
  BY <1>1, <1>2, ConfigAssumption, FS_Subset

\* Products with the block size are monotone in the other factor.
LEMMA ScaleMonotone ==
  ASSUME NEW b \in Nat, NEW m \in Nat, NEW n \in Nat, m <= n
  PROVE  b * m <= b * n
OBVIOUS

LEMMA ScaleSuccessor ==
  ASSUME NEW b \in Nat, NEW m \in Nat
  PROVE  b * (m + 1) = b * m + b /\ b * m \in Nat
OBVIOUS

LEMMA ModSmall ==
  ASSUME NEW m \in Nat, NEW x \in Nat, x < m
  PROVE  x % m = x
OBVIOUS

\* Before a fetch_add the counter is at least one block away from wrapping.
LEMMA FetchAddFits ==
  ASSUME TypeOK, OvershootBounded, NEW w \in Worker, w \notin Overrun
  PROVE  /\ work_counter + BlockSize < Word
         /\ (work_counter + BlockSize) % Word = work_counter + BlockSize
<1>. DEFINE o == Cardinality(Overrun)
            c == Cardinality(Worker)
<1>1. o \in Nat /\ c \in Nat /\ o + 1 <= c
  BY OverrunFinite, CardWorker, OverrunSmaller
<1>2. BlockSize * (o + 1) <= BlockSize * c
  BY <1>1, BlockSizeNat, ScaleMonotone
<1>3. BlockSize * (c + 1) = BlockSize * c + BlockSize /\ BlockSize * c \in Nat
  BY <1>1, BlockSizeNat, ScaleSuccessor
<1>4. work_counter \in Nat /\ Word \in Nat /\ TotalWork \in Nat /\ BlockSize * (o + 1) \in Nat
  BY <1>1, BlockSizeNat, ConfigAssumption DEF TypeOK
<1>5. work_counter <= TotalWork + BlockSize * (o + 1)
  BY DEF OvershootBounded
<1>6. TotalWork + BlockSize * (c + 1) < Word
  BY NoWrapAssumption
<1>. HIDE DEF o, c
<1>7. work_counter + BlockSize < Word
  BY <1>2, <1>3, <1>4, <1>5, <1>6, BlockSizeNat
<1>. QED
  BY <1>7, <1>4, BlockSizeNat, ModSmall

\* The end of a block that starts before the last row does not wrap either.
LEMMA BlockEndValue ==
  ASSUME NEW b \in Nat, b < TotalWork
  PROVE  /\ BlockEnd(b) = IF b + BlockSize < TotalWork THEN b + BlockSize ELSE TotalWork
         /\ BlockEnd(b) \in Nat
<1>. DEFINE c == Cardinality(Worker)
<1>1. c \in Nat
  BY CardWorker
<1>2. BlockSize * (c + 1) = BlockSize * c + BlockSize /\ BlockSize * c \in Nat
  BY <1>1, BlockSizeNat, ScaleSuccessor
<1>3. TotalWork + BlockSize * (c + 1) < Word
  BY NoWrapAssumption
<1>. HIDE DEF c
<1>4. b + BlockSize < Word
  BY <1>2, <1>3, BlockSizeNat, ConfigAssumption
<1>5. (b + BlockSize) % Word = b + BlockSize
  BY <1>4, BlockSizeNat, ConfigAssumption, ModSmall
<1>. QED
  BY <1>5, BlockSizeNat, ConfigAssumption DEF BlockEnd

-----------------------------------------------------------------------------
(* The inductive invariant is preserved, one lemma per action.             *)

\* What the five parts of the invariant and a worker's claim unfold to.
LEMMA HeldType == ASSUME TypeOK, NEW w \in Worker PROVE Held(w) \subseteq Item
BY ConfigAssumption, BlockSizeNat DEF Held, TypeOK, Item

LEMMA InitIInv == Init => IInv
<1>. SUFFICES ASSUME Init PROVE IInv
  OBVIOUS
<1>. USE ConfigAssumption, BlockSizeNat
<1>1. Word > 0
  <2>1. BlockSize * (Cardinality(Worker) + 1) \in Nat
    BY CardWorker, ScaleSuccessor
  <2>. QED
    BY <2>1, NoWrapAssumption
<1>2. TypeOK
  BY <1>1 DEF Init, TypeOK
<1>3. \A w \in Worker : Held(w) = {}
  BY DEF Init, Held
<1>4. ClaimsDisjoint /\ LocalsCurrent
  BY <1>3 DEF Init, ClaimsDisjoint, LocalsCurrent
<1>5. Accounted
  BY DEF Init, Accounted, Item
<1>6. OvershootBounded
  <2>1. BlockSize * (Cardinality(Overrun) + 1) \in Nat
    BY OverrunFinite, ScaleSuccessor
  <2>. QED
    BY <2>1 DEF Init, OvershootBounded
<1>. QED
  BY <1>2, <1>4, <1>5, <1>6 DEF IInv

LEMMA FetchAddIInv ==
  ASSUME IInv, NEW w \in Worker, FetchAdd(w)
  PROVE  IInv'
<1>. USE ConfigAssumption, BlockSizeNat
<1>1. w \notin Overrun
  BY DEF FetchAdd, Overrun
<1>2. /\ work_counter' = work_counter + BlockSize
      /\ work_counter' < Word
      /\ work_counter \in Nat
  BY <1>1, FetchAddFits DEF IInv, FetchAdd, TypeOK
<1>3. TypeOK'
  BY <1>2 DEF IInv, TypeOK, FetchAdd
<1>4. Held(w)' = {i \in Item : work_counter <= i /\ i < work_counter + BlockSize}
  BY DEF FetchAdd, Held, IInv, TypeOK
<1>5. \A v \in Worker : v # w => Held(v)' = Held(v)
  BY DEF FetchAdd, Held, IInv, TypeOK
<1>6. Held(w) = {}
  BY DEF FetchAdd, Held
<1>7. ClaimsDisjoint'
  BY <1>2, <1>4, <1>5, HeldType DEF IInv, ClaimsDisjoint, FetchAdd, Accounted, Item
<1>8. Accounted'
  BY <1>2, <1>4, <1>5, <1>6 DEF IInv, Accounted, FetchAdd, Item
<1>9. LocalsCurrent'
  BY <1>2 DEF IInv, LocalsCurrent, FetchAdd, TypeOK
<1>10. OvershootBounded'
  <2>1. CASE work_counter < TotalWork
    <3>1. Overrun' = Overrun
      BY <2>1 DEF Overrun, FetchAdd, IInv, TypeOK
    <3>2. BlockSize * (Cardinality(Overrun) + 1) = BlockSize * Cardinality(Overrun) + BlockSize
          /\ BlockSize * Cardinality(Overrun) \in Nat
      BY OverrunFinite, ScaleSuccessor
    <3>3. work_counter' <= TotalWork + BlockSize * (Cardinality(Overrun) + 1)
      BY <2>1, <3>2, <1>2
    <3>. QED
      BY <3>1, <3>3 DEF OvershootBounded
  <2>2. CASE work_counter >= TotalWork
    <3>1. Overrun' = Overrun \union {w}
      BY <2>2 DEF Overrun, FetchAdd, IInv, TypeOK
    <3>2. Cardinality(Overrun)' = Cardinality(Overrun) + 1
      BY <3>1, <1>1, OverrunFinite, FS_AddElement
    <3>. DEFINE o == Cardinality(Overrun)
    <3>3. o \in Nat
      BY OverrunFinite
    <3>4. work_counter <= TotalWork + BlockSize * (o + 1)
      BY DEF IInv, OvershootBounded
    <3>. HIDE DEF o
    <3>5. BlockSize * ((o + 1) + 1) = BlockSize * (o + 1) + BlockSize /\ BlockSize * (o + 1) \in Nat
      BY <3>3, ScaleSuccessor
    <3>6. work_counter' <= TotalWork + BlockSize * ((o + 1) + 1)
      BY <3>4, <3>5, <1>2
    <3>. QED
      BY <3>2, <3>6 DEF OvershootBounded, o
  <2>. QED
    BY <2>1, <2>2, <1>2
<1>. QED
  BY <1>3, <1>7, <1>8, <1>9, <1>10 DEF IInv

LEMMA NoWorkLeftIInv ==
  ASSUME IInv, NEW w \in Worker, NoWorkLeft(w)
  PROVE  IInv'
<1>. USE ConfigAssumption, BlockSizeNat
<1>1. TypeOK'
  BY DEF IInv, TypeOK, NoWorkLeft
<1>2. \A v \in Worker : Held(v)' = Held(v)
  <2>1. Held(w) = {}
    BY DEF NoWorkLeft, Held, IInv, TypeOK, Item
  <2>2. Held(w)' = {}
    BY DEF NoWorkLeft, Held, IInv, TypeOK
  <2>3. \A v \in Worker : v # w => Held(v)' = Held(v)
    BY DEF NoWorkLeft, Held, IInv, TypeOK
  <2>. QED
    BY <2>1, <2>2, <2>3
<1>3. ClaimsDisjoint' /\ Accounted'
  BY <1>2 DEF IInv, ClaimsDisjoint, Accounted, NoWorkLeft
<1>4. LocalsCurrent'
  BY DEF IInv, LocalsCurrent, NoWorkLeft, TypeOK
<1>5. Overrun' = Overrun
  BY DEF Overrun, NoWorkLeft, IInv, TypeOK
<1>6. OvershootBounded'
  BY <1>5 DEF OvershootBounded, NoWorkLeft, IInv
<1>. QED
  BY <1>1, <1>3, <1>4, <1>6 DEF IInv

LEMMA BlockGivenIInv ==
  ASSUME IInv, NEW w \in Worker, BlockGiven(w)
  PROVE  IInv'
<1>. USE ConfigAssumption, BlockSizeNat
<1>1. /\ begin[w] \in Nat /\ begin[w] < TotalWork
      /\ end'[w] = IF begin[w] + BlockSize < TotalWork THEN begin[w] + BlockSize ELSE TotalWork
  BY BlockEndValue DEF BlockGiven, IInv, TypeOK
<1>2. TypeOK'
  BY <1>1, BlockEndValue DEF IInv, TypeOK, BlockGiven
<1>3. Held(w)' = Held(w)
  BY <1>1, SMTT(60) DEF BlockGiven, Held, IInv, TypeOK, Item
<1>4. \A v \in Worker : v # w => Held(v)' = Held(v)
  BY DEF BlockGiven, Held, IInv, TypeOK
<1>5. ClaimsDisjoint' /\ Accounted'
  BY <1>3, <1>4 DEF IInv, ClaimsDisjoint, Accounted, BlockGiven
<1>6. LocalsCurrent'
  BY <1>1 DEF IInv, LocalsCurrent, BlockGiven, TypeOK
<1>7. Overrun' = Overrun
  BY <1>1 DEF Overrun, BlockGiven, IInv, TypeOK
<1>8. OvershootBounded'
  BY <1>7 DEF OvershootBounded, BlockGiven, IInv
<1>. QED
  BY <1>2, <1>5, <1>6, <1>8 DEF IInv

LEMMA ScanRowIInv ==
  ASSUME IInv, NEW w \in Worker, ScanRow(w)
  PROVE  IInv'
<1>. USE ConfigAssumption, BlockSizeNat
<1>. DEFINE j == begin[w]
<1>1. /\ j \in Item /\ j \in Held(w)
      /\ j + 1 <= TotalWork
  BY DEF ScanRow, Held, IInv, TypeOK, Item
<1>2. TotalWork < Word
  <2>1. BlockSize * (Cardinality(Worker) + 1) \in Nat
    BY CardWorker, ScaleSuccessor
  <2>. QED
    BY <2>1, NoWrapAssumption
<1>3. TypeOK'
  BY <1>1, <1>2, SMTT(60) DEF IInv, TypeOK, ScanRow, Item
<1>4. Held(w)' = Held(w) \ {j}
  BY <1>1 DEF ScanRow, Held, IInv, TypeOK
<1>5. \A v \in Worker : v # w => Held(v)' = Held(v) /\ j \notin Held(v)
  BY <1>1 DEF ScanRow, Held, IInv, TypeOK, ClaimsDisjoint
<1>6. processed'[j] = 1 /\ \A i \in Item : i # j => processed'[i] = processed[i]
  <2>1. processed[j] = 0
    BY <1>1 DEF IInv, ClaimsDisjoint
  <2>2. processed' = [processed EXCEPT ![j] = processed[j] + 1]
    BY DEF ScanRow
  <2>. QED
    BY <1>1, <2>1, <2>2 DEF IInv, TypeOK
<1>7. ClaimsDisjoint'
  BY <1>4, <1>5, <1>6, HeldType DEF IInv, ClaimsDisjoint, ScanRow, TypeOK
<1>8. Accounted'
  <2>1. work_counter' = work_counter /\ j < work_counter
    BY <1>1 DEF ScanRow, IInv, ClaimsDisjoint
  <2>2. ASSUME NEW i \in Item, i # j
        PROVE  (\A v \in Worker : i \notin Held(v)') => \A v \in Worker : i \notin Held(v)
    BY <1>4, <1>5, <2>2
  <2>3. ASSUME NEW i \in Item
        PROVE  /\ i >= work_counter => processed'[i] = 0
               /\ (i < work_counter /\ \A v \in Worker : i \notin Held(v)') => processed'[i] = 1
    <3>1. CASE i = j
      BY <3>1, <1>6, <2>1, ConfigAssumption DEF Item, IInv, TypeOK
    <3>2. CASE i # j
      BY <3>2, <1>6, <2>2 DEF IInv, Accounted
    <3>. QED
      BY <3>1, <3>2
  <2>. QED
    BY <2>1, <2>3 DEF Accounted
<1>9. LocalsCurrent'
  BY DEF IInv, LocalsCurrent, ScanRow, TypeOK
<1>10. Overrun' = Overrun
  BY DEF Overrun, ScanRow, IInv, TypeOK
<1>11. OvershootBounded'
  BY <1>10 DEF OvershootBounded, ScanRow, IInv
<1>. QED
  BY <1>3, <1>7, <1>8, <1>9, <1>11 DEF IInv

LEMMA BlockFinishedIInv ==
  ASSUME IInv, NEW w \in Worker, BlockFinished(w)
  PROVE  IInv'
<1>. USE ConfigAssumption, BlockSizeNat
<1>1. TypeOK'
  BY DEF IInv, TypeOK, BlockFinished
<1>2. \A v \in Worker : Held(v)' = Held(v)
  BY DEF BlockFinished, Held, IInv, TypeOK
<1>3. ClaimsDisjoint' /\ Accounted'
  BY <1>2 DEF IInv, ClaimsDisjoint, Accounted, BlockFinished
<1>4. LocalsCurrent'
  BY DEF IInv, LocalsCurrent, BlockFinished, TypeOK
<1>5. Overrun' = Overrun
  BY DEF Overrun, BlockFinished, IInv, TypeOK
<1>6. OvershootBounded'
  BY <1>5 DEF OvershootBounded, BlockFinished, IInv
<1>. QED
  BY <1>1, <1>3, <1>4, <1>6 DEF IInv

LEMMA StutterIInv == IInv /\ UNCHANGED vars => IInv'
BY DEF IInv, TypeOK, ClaimsDisjoint, Accounted, LocalsCurrent, OvershootBounded,
       Overrun, Held, vars

LEMMA NextIInv == IInv /\ [Next]_vars => IInv'
BY FetchAddIInv, NoWorkLeftIInv, BlockGivenIInv, ScanRowIInv, BlockFinishedIInv,
   StutterIInv DEF Next, Step

-----------------------------------------------------------------------------
(* The theorems.                                                           *)

\* The inductive invariant holds in every reachable state: claims are disjoint,
\* every row behind the counter is held or processed, the counter never wraps.
THEOREM Inductive == Spec => []IInv
BY InitIInv, NextIInv, PTL DEF Spec

\* Type correctness: the counter and the bounds handed out stay in range.
THEOREM TypeCorrect == Spec => []TypeOK
<1>1. IInv => TypeOK
  BY DEF IInv
<1>. QED
  BY <1>1, Inductive, PTL

LEMMA InvariantImpliesExactlyOnce == IInv => ExactlyOnce
<1>. SUFFICES ASSUME IInv, NEW i \in Item
              PROVE  /\ processed[i] <= 1
                     /\ AllDone => processed[i] = 1
  BY DEF ExactlyOnce
<1>1. processed[i] <= 1
  <2>1. CASE i >= work_counter
    BY <2>1 DEF IInv, Accounted
  <2>2. CASE \E w \in Worker : i \in Held(w)
    BY <2>2 DEF IInv, ClaimsDisjoint
  <2>3. CASE i < work_counter /\ \A w \in Worker : i \notin Held(w)
    BY <2>3 DEF IInv, Accounted
  <2>. QED
    BY <2>1, <2>2, <2>3, ConfigAssumption DEF IInv, TypeOK, Item
<1>2. ASSUME AllDone PROVE processed[i] = 1
  <2>1. \A w \in Worker : Held(w) = {}
    BY <1>2 DEF AllDone, Held
  <2>2. i < work_counter
    BY <1>2, ConfigAssumption DEF AllDone, IInv, LocalsCurrent, Item, TypeOK
  <2>. QED
    BY <2>1, <2>2 DEF IInv, Accounted
<1>. QED
  BY <1>1, <1>2

\* No row is probed twice, and none is skipped once every thread has returned.
THEOREM ExactlyOnceHolds == Spec => []ExactlyOnce
BY Inductive, InvariantImpliesExactlyOnce, PTL

-----------------------------------------------------------------------------
(* Every step is a step of the abstract pool or leaves it as it is.        *)

LEMMA InitImplements == Init => Pool!Init
<1>. SUFFICES ASSUME Init PROVE Pool!Init
  OBVIOUS
<1>1. {i \in Item : i >= work_counter} = Item
  BY ConfigAssumption DEF Init, Item
<1>2. [w \in Worker |-> Held(w)] = [w \in Worker |-> {}]
  BY DEF Init, Held
<1>3. {i \in Item : processed[i] > 0} = {}
  BY DEF Init, Item
<1>4. {w \in Worker : pc[w] = "done"} = {}
  BY DEF Init
<1>. QED
  BY <1>1, <1>2, <1>3, <1>4 DEF Pool!Init

\* A claim that finds rows is a Take; a claim that finds none changes nothing.
LEMMA FetchAddImplements ==
  ASSUME IInv, NEW w \in Worker, FetchAdd(w)
  PROVE  Pool!Take(w) \/ UNCHANGED Pool!poolVars
<1>. USE ConfigAssumption, BlockSizeNat
<1>. DEFINE block == {i \in Item : work_counter <= i /\ i < work_counter + BlockSize}
            todo == {i \in Item : i >= work_counter}
            held == [v \in Worker |-> Held(v)]
            finished == {i \in Item : processed[i] > 0}
            retired == {v \in Worker : pc[v] = "done"}
<1>1. work_counter' = work_counter + BlockSize /\ work_counter \in Nat
  <2>1. w \notin Overrun
    BY DEF FetchAdd, Overrun
  <2>. QED
    BY <2>1, FetchAddFits DEF IInv, FetchAdd, TypeOK
<1>2. Held(w) = {} /\ w \notin retired
  BY DEF FetchAdd, Held
<1>3. Held(w)' = block
  BY DEF FetchAdd, Held, IInv, TypeOK
<1>4. \A v \in Worker : v # w => Held(v)' = Held(v)
  BY DEF FetchAdd, Held, IInv, TypeOK
<1>5. held' = [held EXCEPT ![w] = block]
  BY <1>3, <1>4
<1>6. todo' = todo \ block /\ block \subseteq todo
  BY <1>1 DEF Item
<1>7. finished' = finished /\ retired' = retired
  BY DEF FetchAdd, IInv, TypeOK
<1>8. CASE block = {}
  <2>1. held' = held
    BY <1>2, <1>5, <1>8
  <2>2. todo' = todo
    BY <1>6, <1>8
  <2>. QED
    BY <2>1, <2>2, <1>7 DEF Pool!poolVars
<1>9. CASE block # {}
  BY <1>2, <1>5, <1>6, <1>7, <1>9 DEF Pool!Take
<1>. QED
  BY <1>8, <1>9

\* steal_block returns false only when nothing is waiting: a Retire.
LEMMA NoWorkLeftImplements ==
  ASSUME IInv, NEW w \in Worker, NoWorkLeft(w)
  PROVE  Pool!Retire(w)
<1>. USE ConfigAssumption, BlockSizeNat
<1>. DEFINE held == [v \in Worker |-> Held(v)]
            retired == {v \in Worker : pc[v] = "done"}
<1>1. {i \in Item : i >= work_counter} = {}
  BY DEF NoWorkLeft, IInv, LocalsCurrent, TypeOK, Item
<1>2. Held(w) = {}
  BY DEF NoWorkLeft, Held, IInv, TypeOK, Item
<1>3. Held(w)' = {}
  BY DEF NoWorkLeft, Held, IInv, TypeOK
<1>4. \A v \in Worker : v # w => Held(v)' = Held(v)
  BY DEF NoWorkLeft, Held, IInv, TypeOK
<1>5. held' = held
  BY <1>2, <1>3, <1>4
<1>6. w \notin retired /\ retired' = retired \union {w}
  BY DEF NoWorkLeft, IInv, TypeOK
<1>7. work_counter' = work_counter /\ processed' = processed
  BY DEF NoWorkLeft
<1>. QED
  BY <1>1, <1>2, <1>5, <1>6, <1>7 DEF Pool!Retire

\* Computing the end of a block, and leaving it, are invisible to the pool.
LEMMA BlockStepsImplement ==
  ASSUME IInv, NEW w \in Worker, BlockGiven(w) \/ BlockFinished(w)
  PROVE  UNCHANGED Pool!poolVars
<1>. USE ConfigAssumption, BlockSizeNat
<1>1. work_counter' = work_counter /\ processed' = processed
  BY DEF BlockGiven, BlockFinished
<1>2. \A v \in Worker : Held(v)' = Held(v)
  <2>1. \A v \in Worker : v # w => Held(v)' = Held(v)
    BY DEF BlockGiven, BlockFinished, Held, IInv, TypeOK
  <2>2. CASE BlockGiven(w)
    <3>1. /\ begin[w] \in Nat /\ begin[w] < TotalWork
          /\ end'[w] = IF begin[w] + BlockSize < TotalWork THEN begin[w] + BlockSize ELSE TotalWork
      BY <2>2, BlockEndValue DEF BlockGiven, IInv, TypeOK
    <3>2. Held(w)' = Held(w)
      BY <2>2, <3>1, SMTT(60) DEF BlockGiven, Held, IInv, TypeOK, Item
    <3>. QED
      BY <2>1, <3>2
  <2>3. CASE BlockFinished(w)
    BY <2>1, <2>3 DEF BlockFinished, Held, IInv, TypeOK
  <2>. QED
    BY <2>2, <2>3
<1>3. [v \in Worker |-> Held(v)]' = [v \in Worker |-> Held(v)]
  BY <1>2
<1>4. {v \in Worker : pc[v] = "done"}' = {v \in Worker : pc[v] = "done"}
  BY DEF BlockGiven, BlockFinished, IInv, TypeOK
<1>. QED
  BY <1>1, <1>3, <1>4 DEF Pool!poolVars

\* One iteration of the scan finishes one held row for the first time.
LEMMA ScanRowImplements ==
  ASSUME IInv, NEW w \in Worker, ScanRow(w)
  PROVE  Pool!Finish(w)
<1>. USE ConfigAssumption, BlockSizeNat
<1>. DEFINE j == begin[w]
            held == [v \in Worker |-> Held(v)]
            finished == {i \in Item : processed[i] > 0}
            retired == {v \in Worker : pc[v] = "done"}
<1>1. j \in Item /\ j \in Held(w)
  BY DEF ScanRow, Held, IInv, TypeOK, Item
<1>2. processed[j] = 0
  BY <1>1 DEF IInv, ClaimsDisjoint
<1>3. Held(w)' = Held(w) \ {j}
  BY <1>1 DEF ScanRow, Held, IInv, TypeOK
<1>4. \A v \in Worker : v # w => Held(v)' = Held(v)
  BY DEF ScanRow, Held, IInv, TypeOK
<1>5. held' = [held EXCEPT ![w] = @ \ {j}]
  BY <1>3, <1>4
<1>6. processed' = [processed EXCEPT ![j] = processed[j] + 1]
  BY DEF ScanRow
<1>7. finished' = finished \union {j} /\ j \notin finished
  BY <1>1, <1>2, <1>6 DEF IInv, TypeOK
<1>8. work_counter' = work_counter /\ retired' = retired
  BY DEF ScanRow
<1>. QED
  BY <1>1, <1>5, <1>7, <1>8 DEF Pool!Finish

LEMMA StepImplements == IInv /\ [Next]_vars => [Pool!Next]_(Pool!poolVars)
<1>. SUFFICES ASSUME IInv, [Next]_vars PROVE [Pool!Next]_(Pool!poolVars)
  OBVIOUS
<1>1. CASE UNCHANGED vars
  BY <1>1 DEF vars, Held, Pool!poolVars
<1>2. ASSUME NEW w \in Worker, Step(w)
      PROVE  [Pool!Next]_(Pool!poolVars)
  BY <1>2, FetchAddImplements, NoWorkLeftImplements, BlockStepsImplement,
     ScanRowImplements DEF Step, Pool!Next
<1>. QED
  BY <1>1, <1>2 DEF Next

\* The coordinator and the threads' loop implement the abstract work pool.
THEOREM PoolRefinement == Spec => ImplementsPool
BY Inductive, InitImplements, StepImplements, PTL DEF Spec, ImplementsPool, Pool!Spec

-----------------------------------------------------------------------------
(* The join runs the coordinator.                                          *)

\* A step of the join is a step of one of its threads in the coordinator's loop, or
\* none of the coordinator's business.
LEMMA JoinStepIsPoolStep == [JoinNext]_joinVars => [Next]_vars
<1>. SUFFICES ASSUME [JoinNext]_joinVars PROVE [Next]_vars
  OBVIOUS
<1>1. CASE UNCHANGED joinVars
  BY <1>1 DEF joinVars
<1>2. CASE MainStep
  BY <1>2 DEF MainStep, BuildFromPages, BuildFromCopy, JoinThreads, CopyRow, ReturnRows
<1>3. ASSUME NEW w \in Worker, ThreadStep(w)
      PROVE  Step(w)
  BY <1>3 DEF ThreadStep, Steal, OpenBlock, ProbeRow, CloseBlock, Step
<1>. QED
  BY <1>1, <1>2, <1>3 DEF JoinNext, Next

\* execute_default.cpp, run_int32: a join runs the coordinator.
THEOREM JoinRunsCoordinator == JoinSpec => Spec
<1>1. JoinInit => Init
  BY DEF JoinInit
<1>. QED
  BY <1>1, JoinStepIsPoolStep, PTL DEF JoinSpec, Spec

\* However its threads interleave, a join probes no row twice, and skips none once
\* all of them have returned.
THEOREM JoinProbesOnce == JoinSpec => []ExactlyOnce
BY JoinRunsCoordinator, ExactlyOnceHolds, PTL

-----------------------------------------------------------------------------
\* The output is made when the threads have returned: th.join() on each of them.
OutputAfterJoin == stage = "output" => AllDone

LEMMA OutputAfterJoinStep == OutputAfterJoin /\ [JoinNext]_joinVars => OutputAfterJoin'
<1>. SUFFICES ASSUME OutputAfterJoin, [JoinNext]_joinVars PROVE OutputAfterJoin'
  OBVIOUS
<1>1. CASE UNCHANGED joinVars
  BY <1>1 DEF joinVars, vars, OutputAfterJoin, AllDone
<1>2. CASE BuildFromPages \/ BuildFromCopy \/ ReturnRows
  BY <1>2 DEF BuildFromPages, BuildFromCopy, ReturnRows, OutputAfterJoin
<1>3. CASE JoinThreads \/ CopyRow
  BY <1>3 DEF JoinThreads, CopyRow, vars, OutputAfterJoin, AllDone
<1>4. CASE \E w \in Worker : ThreadStep(w)
  BY <1>4 DEF ThreadStep, Steal, OpenBlock, ProbeRow, CloseBlock, mainVars, OutputAfterJoin
<1>. QED
  BY <1>1, <1>2, <1>3, <1>4 DEF JoinNext, MainStep

RowsProbed == stage = "output" => \A row \in Item : processed[row] = 1

\* When the first row of the output is copied, every probe row has been looked up in
\* the table, once: no row of the result can still be missing.
THEOREM OutputIsComplete == JoinSpec => []RowsProbed
<1>1. JoinInit => OutputAfterJoin
  BY DEF JoinInit, OutputAfterJoin
<1>2. ExactlyOnce /\ OutputAfterJoin => RowsProbed
  BY DEF ExactlyOnce, OutputAfterJoin, RowsProbed
<1>. QED
  BY <1>1, <1>2, OutputAfterJoinStep, JoinProbesOnce, PTL DEF JoinSpec

-----------------------------------------------------------------------------
(* Reading a column.                                                       *)

LEMMA ColumnFacts ==
  ASSUME NEW col, IsColumn(col)
  PROVE  /\ col.pages \in Seq(Seq(Cell))
         /\ Rows(col.pages) \in Seq(Cell)
         /\ Len(Rows(col.pages)) = NumRows(col.pages)
         /\ NumRows(col.pages) \in Nat
         /\ \A row \in 0 .. NumRows(col.pages) - 1 : Rows(col.pages)[row + 1] \in Cell
<1>1. col.pages \in Seq(Seq(Cell))
  BY DEF IsColumn
<1>2. /\ Rows(col.pages) \in Seq(Cell)
      /\ Len(Rows(col.pages)) = NumRows(col.pages)
      /\ NumRows(col.pages) \in Nat
  BY <1>1, RowsOfPages
<1>3. ASSUME NEW row \in 0 .. NumRows(col.pages) - 1
      PROVE  Rows(col.pages)[row + 1] \in Cell
  <2>1. row + 1 \in 1 .. Len(Rows(col.pages))
    BY <1>2
  <2>. QED
    BY <1>2, <2>1
<1>. QED
  BY <1>1, <1>2, <1>3

\* A value is read where it is, on the page of its row or at the quotient and the
\* remainder of its row.
LEMMA ValueRead ==
  ASSUME NEW col, IsColumn(col), NEW row \in Nat, row < NumRows(col.pages), NEW p,
         ReadsPages(col) => /\ p \in 0 .. Len(col.pages) - 1
                            /\ OnPage(PageOffsets(col.pages), p, row)
  PROVE  ValueAt(col, p, row) = Rows(col.pages)[row + 1]
<1>1. col.pages \in Seq(Seq(Cell))
  BY DEF IsColumn
<1>2. CASE ReadsPages(col)
  <2>. DEFINE pages == col.pages
  <2>0. pages \in Seq(Seq(Cell)) /\ p \in 0 .. Len(pages) - 1
        /\ OnPage(PageOffsets(pages), p, row)
    BY <1>1, <1>2
  <2>. HIDE DEF pages
  <2>1. RowFound(pages, p, row)
    BY <2>0, RowReadFromPage
  <2>. QED
    BY <1>2, <2>0, <2>1 DEF ValueAt, RowFound, pages
<1>3. CASE ~ReadsPages(col)
  <2>1. ~col.zero_copy
    <3>. SUFFICES ASSUME col.zero_copy PROVE FALSE
      BY DEF IsColumn
    <3>1. Len(col.pages) = 0 /\ PageOffsets(col.pages)[0] = 0
      BY <1>1, <1>3, OffsetsAscend DEF ReadsPages
    <3>. QED
      BY <3>1 DEF NumRows
  <2>2. /\ \A q \in 1 .. Len(col.pages) : Len(col.pages[q]) <= ValuesPerPage
        /\ \A q \in 1 .. Len(col.pages) - 1 : Len(col.pages[q]) = ValuesPerPage
    BY <2>1 DEF IsColumn
  <2>3. ValuesPerPage \in Nat \ {0}
    BY ColumnAssumption
  <2>4. col.pages[row \div ValuesPerPage + 1][(row % ValuesPerPage) + 1] = Rows(col.pages)[row + 1]
    <3>. DEFINE pages == col.pages
    <3>1. /\ pages \in Seq(Seq(Cell)) /\ row \in Nat /\ row < NumRows(pages)
          /\ \A q \in 1 .. Len(pages) : Len(pages[q]) <= ValuesPerPage
          /\ \A q \in 1 .. Len(pages) - 1 : Len(pages[q]) = ValuesPerPage
      BY <1>1, <2>2
    <3>. HIDE DEF pages
    <3>2. pages[row \div ValuesPerPage + 1][(row % ValuesPerPage) + 1] = Rows(pages)[row + 1]
      BY ONLY <2>3, <3>1, FullPages
    <3>. QED
      BY <3>2 DEF pages
  <2>. QED
    BY <1>3, <2>4 DEF ValueAt
<1>. QED
  BY <1>2, <1>3

\* The page get() remembers is the page of the row it reads.
LEMMA PageReadOnPage ==
  ASSUME NEW col, IsColumn(col), NEW row \in Nat, row < NumRows(col.pages), NEW p \in Nat
  PROVE  /\ PageRead(col, p, row) \in Nat
         /\ ValueAt(col, PageRead(col, p, row), row) = Rows(col.pages)[row + 1]
<1>. DEFINE q == PageRead(col, p, row)
<1>1. col.pages \in Seq(Seq(Cell))
  BY DEF IsColumn
<1>2. ReadsPages(col) => q \in 0 .. Len(col.pages) - 1 /\ OnPage(PageOffsets(col.pages), q, row)
  BY <1>1, PageFromCorrect DEF PageRead
<1>3. q \in Nat
  BY <1>2 DEF PageRead
<1>. HIDE DEF q
<1>. QED
  BY <1>2, <1>3, ValueRead DEF q

\* A new block starts on the page of its first row.
LEMMA StartPageBehind ==
  ASSUME IsColumn(probe), ReadsPages(probe), NEW row \in Nat, row < NumRows(probe.pages)
  PROVE  StartPage(row) \in 0 .. Len(probe.pages) - 1 /\ Offsets[StartPage(row)] <= row
<1>1. probe.pages \in Seq(Seq(Cell))
  BY DEF IsColumn
<1>2. CASE row >= Offsets[1]
  BY <1>1, <1>2, FindPageCorrect DEF StartPage, Offsets, OnPage
<1>3. CASE ~(row >= Offsets[1])
  <2>1. Len(probe.pages) \in Nat /\ Len(probe.pages) >= 1 /\ Offsets[0] = 0
    BY <1>1, OffsetsAscend DEF ReadsPages, Offsets
  <2>. QED
    BY <1>3, <2>1 DEF StartPage
<1>. QED
  BY <1>2, <1>3

\* The loop that advances the cursor stops on the page of the row.
LEMMA AdvancePageOnPage ==
  ASSUME IsColumn(probe), ReadsPages(probe), NEW row \in Nat, row < NumRows(probe.pages),
         NEW p \in 0 .. Len(probe.pages) - 1, Offsets[p] <= row
  PROVE  AdvancePage(p, row) \in p .. Len(probe.pages) - 1 /\ OnPage(Offsets, AdvancePage(p, row), row)
<1>1. probe.pages \in Seq(Seq(Cell))
  BY DEF IsColumn
<1>2. /\ Len(probe.pages) \in Nat
      /\ \A q \in 0 .. Len(probe.pages) : Offsets[q] \in Nat
      /\ \A q, r \in 0 .. Len(probe.pages) : q <= r => Offsets[q] <= Offsets[r]
  BY <1>1, OffsetsAscend DEF Offsets
<1>. DEFINE Stops(q) == /\ row < Offsets[q + 1]
                        /\ \A m \in p .. q - 1 : row >= Offsets[m + 1]
<1>3. PICK r \in 0 .. Len(probe.pages) - 1 : OnPage(Offsets, r, row)
  BY <1>1, RowOnPage DEF Offsets
<1>4. r \in p .. Len(probe.pages) - 1 /\ Stops(r)
  <2>0. r + 1 \in 0 .. Len(probe.pages) /\ r \in 0 .. Len(probe.pages) /\ p \in 0 .. Len(probe.pages)
    BY <1>2
  <2>1. Offsets[r] <= row /\ row < Offsets[r + 1]
    BY <1>3 DEF OnPage
  <2>2. p <= r
    <3>1. r + 1 <= p => Offsets[r + 1] <= Offsets[p]
      BY <1>2, <2>0
    <3>2. Offsets[r + 1] \in Nat /\ Offsets[p] \in Nat
      BY <1>2, <2>0
    <3>. QED
      BY <2>0, <2>1, <3>1, <3>2
  <2>3. ASSUME NEW m \in p .. r - 1 PROVE row >= Offsets[m + 1]
    <3>1. m + 1 \in 0 .. Len(probe.pages) /\ m + 1 <= r
      BY <1>2, <2>0
    <3>2. Offsets[m + 1] <= Offsets[r] /\ Offsets[m + 1] \in Nat /\ Offsets[r] \in Nat
      BY <1>2, <2>0, <3>1
    <3>. QED
      BY <2>1, <3>2
  <2>. QED
    BY <2>0, <2>1, <2>2, <2>3
<1>. DEFINE q == AdvancePage(p, row)
<1>5. q \in p .. Len(probe.pages) - 1 /\ Stops(q)
  BY <1>4 DEF AdvancePage
<1>6. Offsets[q] <= row
  <2>. HIDE DEF q
  <2>1. CASE q = p
    BY <2>1
  <2>2. CASE q # p
    <3>1. q - 1 \in p .. q - 1 /\ (q - 1) + 1 = q /\ q \in 0 .. Len(probe.pages)
      BY <1>2, <1>5, <2>2
    <3>2. row >= Offsets[(q - 1) + 1] /\ Offsets[q] \in Nat
      BY <1>2, <1>5, <3>1
    <3>. QED
      BY <3>1, <3>2
  <2>. QED
    BY <2>1, <2>2
<1>. QED
  BY <1>5, <1>6 DEF OnPage

-----------------------------------------------------------------------------
(* The matches of a probe row.                                             *)

BuildKeys == Rows(build.pages)
ProbeKeys == Rows(probe.pages)
BuildRow == 0 .. NumRows(build.pages) - 1

\* The pair of a build row and a probe row, in the orientation of the inputs.
PairOf(b, row) == IF build_left THEN [lidx |-> b, ridx |-> row] ELSE [lidx |-> row, ridx |-> b]

\* The pairs a probe row belongs in.
MatchesOf(row) ==
  {PairOf(b, row) : b \in {b \in BuildRow : BuildKeys[b + 1] # Null /\ BuildKeys[b + 1] = ProbeKeys[row + 1]}}

InputsOK == build_left \in BOOLEAN /\ build \in BuildColumns /\ probe \in ProbeColumns

LEMMA InputFacts ==
  ASSUME InputsOK
  PROVE  /\ IsColumn(build) /\ IsColumn(probe)
         /\ BuildKeys \in Seq(Cell) /\ Len(BuildKeys) = NumRows(build.pages)
         /\ NumRows(build.pages) \in Nat
         /\ ProbeKeys \in Seq(Cell) /\ Len(ProbeKeys) = TotalWork
         /\ NumRows(probe.pages) = TotalWork
         /\ \A row \in Item : ProbeKeys[row + 1] \in Cell
         /\ \A b \in BuildRow : BuildKeys[b + 1] \in Cell
<1>1. IsColumn(build) /\ IsColumn(probe) /\ NumRows(probe.pages) = TotalWork
  BY ColumnAssumption DEF InputsOK
<1>. QED
  BY <1>1, ColumnFacts DEF BuildKeys, ProbeKeys, BuildRow, Item

\* The rows' pairs are those the abstract join calls matching.
LEMMA MatchingPairs ==
  ASSUME InputsOK
  PROVE  EquiJoinPromise!Matching = UNION {MatchesOf(row) : row \in Item}
<1>1. /\ BuildKeys \in Seq(Cell) /\ Len(BuildKeys) = NumRows(build.pages)
      /\ ProbeKeys \in Seq(Cell) /\ Len(ProbeKeys) = TotalWork
      /\ NumRows(build.pages) \in Nat /\ TotalWork \in Nat
  BY InputFacts, ConfigAssumption
<1>2. CASE build_left
  <2>1. Rows(LeftColumn.pages) = BuildKeys /\ Rows(RightColumn.pages) = ProbeKeys
    BY <1>2 DEF LeftColumn, RightColumn, BuildKeys, ProbeKeys
  <2>2. EquiJoinPromise!Pair = [lidx : BuildRow, ridx : Item]
    BY <1>1, <2>1 DEF EquiJoinPromise!Pair, BuildRow, Item
  <2>3. ASSUME NEW pair
        PROVE  pair \in EquiJoinPromise!Matching <=> \E row \in Item : pair \in MatchesOf(row)
    <3>1. ASSUME pair \in EquiJoinPromise!Matching PROVE \E row \in Item : pair \in MatchesOf(row)
      <4>1. pair \in [lidx : BuildRow, ridx : Item]
            /\ BuildKeys[pair.lidx + 1] # Null /\ BuildKeys[pair.lidx + 1] = ProbeKeys[pair.ridx + 1]
        BY <2>1, <2>2, <3>1 DEF EquiJoinPromise!Matching
      <4>2. pair = PairOf(pair.lidx, pair.ridx) /\ pair.lidx \in BuildRow /\ pair.ridx \in Item
        BY <1>2, <4>1 DEF PairOf
      <4>. QED
        BY <4>1, <4>2 DEF MatchesOf
    <3>2. ASSUME NEW row \in Item, pair \in MatchesOf(row) PROVE pair \in EquiJoinPromise!Matching
      <4>1. PICK b \in BuildRow : /\ pair = [lidx |-> b, ridx |-> row]
                                  /\ BuildKeys[b + 1] # Null /\ BuildKeys[b + 1] = ProbeKeys[row + 1]
        BY <1>2, <3>2 DEF MatchesOf, PairOf
      <4>. QED
        BY <2>1, <2>2, <4>1 DEF EquiJoinPromise!Matching
    <3>. QED
      BY <3>1, <3>2
  <2>. QED
    BY <2>3
<1>3. CASE ~build_left
  <2>1. Rows(LeftColumn.pages) = ProbeKeys /\ Rows(RightColumn.pages) = BuildKeys
    BY <1>3 DEF LeftColumn, RightColumn, BuildKeys, ProbeKeys
  <2>2. EquiJoinPromise!Pair = [lidx : Item, ridx : BuildRow]
    BY <1>1, <2>1 DEF EquiJoinPromise!Pair, BuildRow, Item
  <2>3. ASSUME NEW pair
        PROVE  pair \in EquiJoinPromise!Matching <=> \E row \in Item : pair \in MatchesOf(row)
    <3>1. ASSUME pair \in EquiJoinPromise!Matching PROVE \E row \in Item : pair \in MatchesOf(row)
      <4>1. pair \in [lidx : Item, ridx : BuildRow]
            /\ BuildKeys[pair.ridx + 1] # Null /\ BuildKeys[pair.ridx + 1] = ProbeKeys[pair.lidx + 1]
        BY <2>1, <2>2, <3>1 DEF EquiJoinPromise!Matching
      <4>2. pair = PairOf(pair.ridx, pair.lidx) /\ pair.lidx \in Item /\ pair.ridx \in BuildRow
        BY <1>3, <4>1 DEF PairOf
      <4>. QED
        BY <4>1, <4>2 DEF MatchesOf
    <3>2. ASSUME NEW row \in Item, pair \in MatchesOf(row) PROVE pair \in EquiJoinPromise!Matching
      <4>1. PICK b \in BuildRow : /\ pair = [lidx |-> row, ridx |-> b]
                                  /\ BuildKeys[b + 1] # Null /\ BuildKeys[b + 1] = ProbeKeys[row + 1]
        BY <1>3, <3>2 DEF MatchesOf, PairOf
      <4>. QED
        BY <2>1, <2>2, <4>1 DEF EquiJoinPromise!Matching
    <3>. QED
      BY <3>1, <3>2
  <2>. QED
    BY <2>3
<1>. QED
  BY <1>2, <1>3

\* The table holds the rows of the build side that are not NULL, each once.
Entry == [key : Key, row_id : Nat]
NonNullEntries ==
  {[key |-> BuildKeys[b + 1], row_id |-> b] : b \in {b \in BuildRow : BuildKeys[b + 1] # Null}}

TableBuilt ==
  /\ table \in Seq(Entry)
  /\ IsInjective(table)
  /\ stage # "build" => Range(table) = NonNullEntries

\* What a probe appends: every match of the row, once.
LEMMA PairsForRow ==
  ASSUME InputsOK, TableBuilt, stage # "build", NEW row \in Item
  PROVE  LET pairs == PairsFor(ProbeKeys[row + 1], row)
         IN  /\ pairs \in Seq([lidx : Nat, ridx : Nat])
             /\ IsInjective(pairs)
             /\ Range(pairs) = MatchesOf(row)
<1>. DEFINE k == ProbeKeys[row + 1]
            slot == {entry \in Range(table) : SlotOf[entry.key] = SlotOf[k]}
            same == {entry \in Range(table) : entry.key = k}
            hits == IF k = Null THEN <<>> ELSE Kept(Bucket(k), same)
            pairs == PairsFor(k, row)
<1>1. /\ table \in Seq(Entry) /\ IsInjective(table) /\ Range(table) = NonNullEntries
      /\ row \in Nat
  BY DEF TableBuilt, Item
<1>2. /\ Bucket(k) \in Seq(Entry) /\ IsInjective(Bucket(k))
      /\ Range(Bucket(k)) = Range(table) \cap slot
  BY <1>1, KeptElements DEF Bucket
<1>3. hits \in Seq(Entry) /\ IsInjective(hits)
  <2>1. <<>> \in Seq(Entry) /\ IsInjective(<<>>)
    BY DEF IsInjective
  <2>2. Kept(Bucket(k), same) \in Seq(Entry) /\ IsInjective(Kept(Bucket(k), same))
    <3>. HIDE DEF same, k
    <3>. QED
      BY <1>2, KeptElements
  <2>. QED
    BY <2>1, <2>2
<1>4. Range(hits) = {entry \in NonNullEntries : entry.key = k}
  <2>1. CASE k = Null
    <3>1. Range(hits) = {}
      BY <2>1 DEF Range
    <3>2. \A entry \in NonNullEntries : entry.key # Null
      BY DEF NonNullEntries
    <3>. QED
      BY <2>1, <3>1, <3>2
  <2>2. CASE k # Null
    <3>1. Range(hits) = (Range(table) \cap slot) \cap same
      <4>. HIDE DEF same, slot, k
      <4>. QED
        BY <1>2, <2>2, KeptElements
    <3>. QED
      BY <1>1, <3>1
  <2>. QED
    BY <2>1, <2>2
<1>5. pairs = [h \in DOMAIN hits |-> PairOf(hits[h].row_id, row)]
  BY DEF PairsFor, PairOf
<1>. HIDE DEF hits, pairs, k
<1>6. DOMAIN hits = 1 .. Len(hits) /\ Len(hits) \in Nat /\ \A h \in DOMAIN hits : hits[h] \in Entry
  BY <1>3
<1>7. \A h \in DOMAIN hits : /\ hits[h] \in NonNullEntries /\ hits[h].key = k
                             /\ hits[h].row_id \in Nat
                             /\ PairOf(hits[h].row_id, row) \in [lidx : Nat, ridx : Nat]
  BY <1>1, <1>4, <1>6 DEF Range, Entry, PairOf
<1>8. pairs \in Seq([lidx : Nat, ridx : Nat])
  BY <1>5, <1>6, <1>7
<1>9. \A a, b \in Nat : PairOf(a, row) = PairOf(b, row) => a = b
  BY DEF PairOf
<1>10. IsInjective(pairs)
  <2>. SUFFICES ASSUME NEW h \in DOMAIN hits, NEW i \in DOMAIN hits,
                       PairOf(hits[h].row_id, row) = PairOf(hits[i].row_id, row)
                PROVE  h = i
    BY <1>5 DEF IsInjective
  <2>1. hits[h].row_id = hits[i].row_id /\ hits[h].key = hits[i].key
    BY <1>7, <1>9
  <2>2. hits[h] = hits[i]
    BY <1>6, <2>1 DEF Entry
  <2>. QED
    BY <1>3, <2>2 DEF IsInjective
<1>11. Range(pairs) = MatchesOf(row)
  <2>1. ASSUME NEW h \in DOMAIN pairs PROVE pairs[h] \in MatchesOf(row)
    <3>1. h \in DOMAIN hits /\ pairs[h] = PairOf(hits[h].row_id, row)
      BY <1>5
    <3>2. PICK b \in BuildRow : BuildKeys[b + 1] # Null /\ hits[h] = [key |-> BuildKeys[b + 1], row_id |-> b]
      BY <1>7, <3>1 DEF NonNullEntries
    <3>3. BuildKeys[b + 1] = k /\ pairs[h] = PairOf(b, row)
      BY <1>7, <3>1, <3>2
    <3>. QED
      BY <3>2, <3>3 DEF MatchesOf, k
  <2>2. ASSUME NEW pair \in MatchesOf(row) PROVE pair \in Range(pairs)
    <3>1. PICK b \in BuildRow : /\ BuildKeys[b + 1] # Null /\ BuildKeys[b + 1] = k
                                /\ pair = PairOf(b, row)
      BY DEF MatchesOf, k
    <3>. DEFINE entry == [key |-> BuildKeys[b + 1], row_id |-> b]
    <3>2. entry \in NonNullEntries /\ entry.key = k /\ entry.row_id = b
      BY <3>1 DEF NonNullEntries
    <3>3. PICK h \in DOMAIN hits : hits[h] = entry
      <4>. HIDE DEF entry
      <4>. QED
        BY <1>4, <3>2 DEF Range
    <3>4. pairs[h] = pair /\ h \in DOMAIN pairs
      <4>. HIDE DEF entry
      <4>. QED
        BY <1>5, <3>1, <3>2, <3>3
    <3>. QED
      BY <3>4 DEF Range
  <2>. QED
    BY <2>1, <2>2 DEF Range
<1>. QED
  BY <1>8, <1>10, <1>11 DEF pairs, k

-----------------------------------------------------------------------------
(***************************************************************************)
(* The inductive invariant, beside the coordinator's IInv.  JoinTypeOK,     *)
(* CursorBehindRow and RowsCopied do not survive a step by themselves: they *)
(* say nothing of which entries the table holds, of which pairs the lists   *)
(* hold while rows are unprocessed, or of the rows copied so far.           *)
(***************************************************************************)

\* Inside a block the cursor is on the row's page or before it.
CursorsBehind ==
  /\ page_idx \in [Worker -> Nat]
  /\ \A w \in Worker : stage = "probe" /\ ReadsPages(probe) /\ pc[w] = "scan" =>
       page_idx[w] < Len(probe.pages) /\ Offsets[page_idx[w]] <= begin[w]

PairType == [lidx : Nat, ridx : Nat]
ProcessedRows == {row \in Item : processed[row] > 0}

\* The lists hold the matches of the processed rows, and no pair twice.
PairsFound ==
  /\ out \in [Worker -> Seq(PairType)]
  /\ \A w \in Worker : IsInjective(out[w])
  /\ \A v, w \in Worker : v # w => Range(out[v]) \cap Range(out[w]) = {}
  /\ UNION {Range(out[w]) : w \in Worker} = UNION {MatchesOf(row) : row \in ProcessedRows}

\* A row of the output, and the type of a page's rows, written or not.
OutputRow(row) ==
  [pair  |-> Gathered[row + 1],
   left  |-> Rows(LeftColumn.pages)[Gathered[row + 1].lidx + 1],
   right |-> Rows(RightColumn.pages)[Gathered[row + 1].ridx + 1]]
RowType == [pair : PairType \union {Null}, left : Cell, right : Cell]

\* The output has pages for every row, and the rows copied are on them.
Written ==
  /\ results \in Seq(Seq(RowType))
  /\ Len(results) = (Len(Gathered) + ValuesPerPage - 1) \div ValuesPerPage
  /\ \A p \in 1 .. Len(results) :
       Len(results[p]) = IF Len(Gathered) - (p - 1) * ValuesPerPage < ValuesPerPage
                           THEN Len(Gathered) - (p - 1) * ValuesPerPage
                           ELSE ValuesPerPage
  /\ \A row \in 0 .. out_idx - 1 :
       results[row \div ValuesPerPage + 1][(row % ValuesPerPage) + 1] = OutputRow(row)

OutputInv ==
  /\ cached \in [left : Nat, right : Nat]
  /\ out_idx \in 0 .. Len(Gathered)
  /\ stage \in {"build", "probe"} => results = <<>> /\ out_idx = 0
  /\ stage = "output" => Written
  /\ stage = "returned" => results = <<>> \/ (Written /\ out_idx = Len(Gathered))

Stages ==
  /\ stage \in {"build", "probe", "output", "returned"}
  /\ stage = "build" => ProcessedRows = {} /\ \A w \in Worker : pc[w] = "steal"

JoinInv ==
  /\ InputsOK
  /\ Stages
  /\ TableBuilt
  /\ CursorsBehind
  /\ PairsFound
  /\ OutputAfterJoin
  /\ OutputInv

-----------------------------------------------------------------------------
(* What the parts say.                                                     *)

LEMMA ListsInOrder ==
  ASSUME PairsFound
  PROVE  /\ Gathered \in Seq(PairType)
         /\ IsInjective(Gathered)
         /\ Range(Gathered) = UNION {Range(out[w]) : w \in Worker}
<1>. DEFINE lists == [t \in 1 .. NumThreads |-> out[t - 1]]
<1>1. \A t \in 1 .. NumThreads : t - 1 \in Worker
  BY ThreadAssumption, ConfigAssumption
<1>2. \A w \in Worker : w + 1 \in 1 .. NumThreads /\ (w + 1) - 1 = w
  BY ThreadAssumption, ConfigAssumption
<1>3. out \in [Worker -> Seq(PairType)]
  BY DEF PairsFound
<1>4. lists \in Seq(Seq(PairType)) /\ Len(lists) = NumThreads
  BY <1>1, <1>3, ConfigAssumption
<1>5. \A t \in 1 .. NumThreads : lists[t] = out[t - 1]
  OBVIOUS
<1>6. Gathered = Rows(lists)
  BY DEF Gathered
<1>. HIDE DEF lists
<1>7. \A t \in 1 .. Len(lists) : IsInjective(lists[t])
  BY <1>1, <1>4, <1>5 DEF PairsFound
<1>8. \A t, u \in 1 .. Len(lists) : t # u => Range(lists[t]) \cap Range(lists[u]) = {}
  <2>. SUFFICES ASSUME NEW t \in 1 .. NumThreads, NEW u \in 1 .. NumThreads, t # u
                PROVE  Range(lists[t]) \cap Range(lists[u]) = {}
    BY <1>4
  <2>1. t - 1 # u - 1
    OBVIOUS
  <2>. QED
    BY <1>1, <1>5, <2>1 DEF PairsFound
<1>9. UNION {Range(lists[t]) : t \in 1 .. Len(lists)} = UNION {Range(out[w]) : w \in Worker}
  <2>1. \A t \in 1 .. Len(lists) : \E w \in Worker : Range(lists[t]) = Range(out[w])
    BY <1>1, <1>4, <1>5
  <2>2. \A w \in Worker : \E t \in 1 .. Len(lists) : Range(lists[t]) = Range(out[w])
    BY <1>2, <1>4, <1>5
  <2>3. ASSUME NEW pair
        PROVE  (\E t \in 1 .. Len(lists) : pair \in Range(lists[t])) <=> (\E w \in Worker : pair \in Range(out[w]))
    BY <2>1, <2>2
  <2>. QED
    BY <2>3
<1>10. IsInjective(Gathered) /\ Gathered \in Seq(PairType)
  BY <1>4, <1>6, <1>7, <1>8, InjectiveRows, RowsOfPages
<1>11. Range(Gathered) = UNION {Range(out[w]) : w \in Worker}
  BY <1>4, <1>6, <1>9, RangeOfRows
<1>. QED
  BY <1>10, <1>11

LEMMA GatheredLength == PairsFound => Len(Gathered) \in Nat
BY ListsInOrder

\* A gathered pair names rows of the inputs.
LEMMA GatheredPair ==
  ASSUME InputsOK, PairsFound, NEW i \in DOMAIN Gathered
  PROVE  /\ Gathered[i] \in PairType
         /\ Gathered[i].lidx < NumRows(LeftColumn.pages)
         /\ Gathered[i].ridx < NumRows(RightColumn.pages)
<1>1. Gathered[i] \in UNION {MatchesOf(row) : row \in ProcessedRows}
  BY ListsInOrder DEF PairsFound, Range
<1>2. PICK row \in Item : Gathered[i] \in MatchesOf(row)
  BY <1>1 DEF ProcessedRows
<1>3. PICK b \in BuildRow : Gathered[i] = PairOf(b, row)
  BY <1>2 DEF MatchesOf
<1>4. b \in Nat /\ b < NumRows(build.pages) /\ row \in Nat /\ row < NumRows(probe.pages)
  BY InputFacts, ConfigAssumption DEF BuildRow, Item
<1>. QED
  BY <1>3, <1>4 DEF PairOf, PairType, LeftColumn, RightColumn

\* The key the scan reads is the row's.
LEMMA KeyOfRow ==
  ASSUME IInv, InputsOK, CursorsBehind, stage = "probe", NEW w \in Worker,
         pc[w] = "scan", begin[w] < end[w]
  PROVE  LET p == IF ReadsPages(probe) THEN AdvancePage(page_idx[w], begin[w]) ELSE page_idx[w]
         IN  /\ p \in Nat
             /\ ReadsPages(probe) => p < Len(probe.pages) /\ Offsets[p] <= begin[w]
             /\ KeyRead(p, begin[w]) = ProbeKeys[begin[w] + 1]
             /\ begin[w] \in Item
<1>. DEFINE row == begin[w]
            p == IF ReadsPages(probe) THEN AdvancePage(page_idx[w], row) ELSE page_idx[w]
<1>1. row \in Item /\ row \in Nat /\ row < TotalWork
  BY ConfigAssumption DEF IInv, TypeOK, Item
<1>2. IsColumn(probe) /\ NumRows(probe.pages) = TotalWork
  BY InputFacts
<1>. HIDE DEF row
<1>3. CASE ReadsPages(probe)
  <2>1. probe.pages \in Seq(Seq(Cell))
    BY <1>2 DEF IsColumn
  <2>2. Len(probe.pages) \in Nat
    BY <2>1
  <2>3. page_idx[w] \in 0 .. Len(probe.pages) - 1 /\ Offsets[page_idx[w]] <= row
    BY <1>3, <2>2 DEF CursorsBehind, row
  <2>4. p \in page_idx[w] .. Len(probe.pages) - 1 /\ OnPage(Offsets, p, row)
    BY <1>1, <1>2, <1>3, <2>3, AdvancePageOnPage
  <2>. HIDE DEF p
  <2>5. p \in 0 .. Len(probe.pages) - 1 /\ Offsets[p] <= row
    BY <2>2, <2>3, <2>4 DEF OnPage
  <2>6. ValueAt(probe, p, row) = Rows(probe.pages)[row + 1]
    BY <1>1, <1>2, <2>4, <2>5, ValueRead DEF Offsets
  <2>. QED
    BY <1>1, <2>2, <2>5, <2>6 DEF KeyRead, ProbeKeys, p, row
<1>4. CASE ~ReadsPages(probe)
  <2>1. p \in Nat
    BY <1>4 DEF CursorsBehind
  <2>. HIDE DEF p
  <2>2. ValueAt(probe, p, row) = Rows(probe.pages)[row + 1]
    BY <1>1, <1>2, <1>4, ValueRead
  <2>. QED
    BY <1>1, <1>4, <2>1, <2>2 DEF KeyRead, ProbeKeys, p, row
<1>. QED
  BY <1>3, <1>4

\* Rows written where they belong are the column's rows.
LEMMA WrittenRows ==
  ASSUME InputsOK, PairsFound, Written, out_idx = Len(Gathered)
  PROVE  /\ Len(Rows(results)) = Len(Gathered)
         /\ Rows(results) \in Seq(RowType)
         /\ \A r \in 1 .. Len(Gathered) : Rows(results)[r] = OutputRow(r - 1)
<1>1. Len(Gathered) \in Nat
  BY ListsInOrder
<1>2. ValuesPerPage \in Nat \ {0}
  BY ColumnAssumption
<1>3. /\ results \in Seq(Seq(RowType))
      /\ NumRows(results) = Len(Gathered)
      /\ \A p \in 1 .. Len(results) : Len(results[p]) <= ValuesPerPage
      /\ \A p \in 1 .. Len(results) - 1 : Len(results[p]) = ValuesPerPage
  BY <1>1, <1>2, PagesForRows DEF Written
<1>4. Rows(results) \in Seq(RowType) /\ Len(Rows(results)) = Len(Gathered)
  BY <1>3, RowsOfPages
<1>5. ASSUME NEW r \in 1 .. Len(Gathered) PROVE Rows(results)[r] = OutputRow(r - 1)
  <2>1. r - 1 \in Nat /\ r - 1 < NumRows(results) /\ (r - 1) + 1 = r /\ r - 1 \in 0 .. out_idx - 1
    BY <1>1, <1>3
  <2>2. results[(r - 1) \div ValuesPerPage + 1][((r - 1) % ValuesPerPage) + 1] = Rows(results)[(r - 1) + 1]
    BY <1>2, <1>3, <2>1, FullPages
  <2>. QED
    BY <2>1, <2>2 DEF Written
<1>. QED
  BY <1>4, <1>5

-----------------------------------------------------------------------------
(* The invariant is preserved, one lemma per kind of step.                 *)

\* Steps that leave the inputs leave what depends on them.
LEMMA InputsStay ==
  ASSUME UNCHANGED inputVars
  PROVE  /\ InputsOK => InputsOK'
         /\ BuildKeys' = BuildKeys /\ ProbeKeys' = ProbeKeys /\ BuildRow' = BuildRow
         /\ LeftColumn' = LeftColumn /\ RightColumn' = RightColumn
         /\ NonNullEntries' = NonNullEntries /\ Offsets' = Offsets
         /\ ReadsPages(probe)' = ReadsPages(probe)
         /\ \A row : MatchesOf(row)' = MatchesOf(row)
<1>1. build_left' = build_left /\ build' = build /\ probe' = probe
  BY DEF inputVars
<1>2. BuildKeys' = BuildKeys /\ ProbeKeys' = ProbeKeys /\ BuildRow' = BuildRow
  BY <1>1 DEF BuildKeys, ProbeKeys, BuildRow
<1>3. NonNullEntries' = NonNullEntries
  BY <1>2 DEF NonNullEntries
<1>4. \A row : MatchesOf(row)' = MatchesOf(row)
  BY <1>1, <1>2 DEF MatchesOf, PairOf
<1>. QED
  BY <1>1, <1>2, <1>3, <1>4 DEF InputsOK, LeftColumn, RightColumn, Offsets, ReadsPages

LEMMA GatheredStays == UNCHANGED out => Gathered' = Gathered
BY DEF Gathered

\* The lists are right as long as no row is processed and nothing appended.
LEMMA PairsStay ==
  ASSUME PairsFound, UNCHANGED <<inputVars, out, processed>>
  PROVE  PairsFound'
<1>1. \A row : MatchesOf(row)' = MatchesOf(row)
  BY InputsStay
<1>2. ProcessedRows' = ProcessedRows
  BY DEF ProcessedRows
<1>3. UNION {MatchesOf(row) : row \in ProcessedRows}' = UNION {MatchesOf(row) : row \in ProcessedRows}
  BY <1>1, <1>2
<1>. QED
  BY <1>3 DEF PairsFound

\* The pages are right as long as no row is copied.
LEMMA WrittenStays ==
  ASSUME Written, UNCHANGED <<inputVars, out, results, out_idx>>
  PROVE  Written'
<1>1. Gathered' = Gathered /\ LeftColumn' = LeftColumn /\ RightColumn' = RightColumn
  BY InputsStay, GatheredStays
<1>2. \A row : OutputRow(row)' = OutputRow(row)
  BY <1>1 DEF OutputRow
<1>. QED
  BY <1>1, <1>2 DEF Written

LEMMA JoinInitInv == JoinInit => JoinInv
<1>. SUFFICES ASSUME JoinInit PROVE JoinInv
  OBVIOUS
<1>1. InputsOK /\ stage = "build" /\ table = <<>> /\ results = <<>> /\ out_idx = 0
  BY DEF JoinInit, InputsOK
<1>2. ProcessedRows = {} /\ \A w \in Worker : pc[w] = "steal"
  BY DEF JoinInit, Init, ProcessedRows
<1>3. TableBuilt
  BY <1>1 DEF TableBuilt, IsInjective
<1>4. CursorsBehind
  BY <1>1 DEF JoinInit, CursorsBehind
<1>5. PairsFound
  <2>1. \A w \in Worker : out[w] = <<>> /\ Range(out[w]) = {} /\ IsInjective(out[w])
    BY DEF JoinInit, Range, IsInjective
  <2>2. out \in [Worker -> Seq(PairType)]
    BY DEF JoinInit
  <2>. QED
    BY <1>2, <2>1, <2>2 DEF PairsFound
<1>6. OutputInv
  <2>1. Len(Gathered) \in Nat
    BY <1>5, ListsInOrder
  <2>. QED
    BY <1>1, <2>1 DEF OutputInv, JoinInit
<1>. QED
  BY <1>1, <1>2, <1>3, <1>4, <1>5, <1>6 DEF JoinInv, Stages, OutputAfterJoin

\* The rows of the build side as entries.
RowEntry == [key : Cell, row_id : Nat]

LEMMA NumberedRowsList ==
  ASSUME InputsOK
  PROVE  /\ NumberedRows(build) \in Seq(RowEntry)
         /\ IsInjective(NumberedRows(build))
         /\ Range(NumberedRows(build)) = {[key |-> BuildKeys[b + 1], row_id |-> b] : b \in BuildRow}
<1>. DEFINE n == NumRows(build.pages)
            rows == NumberedRows(build)
<1>1. n \in Nat /\ \A b \in 0 .. n - 1 : BuildKeys[b + 1] \in Cell
  BY InputFacts DEF BuildRow
<1>2. rows = [r \in 1 .. n |-> [key |-> BuildKeys[r], row_id |-> r - 1]]
  BY DEF NumberedRows, BuildKeys
<1>. HIDE DEF n, rows
<1>3. \A r \in 1 .. n : r - 1 \in 0 .. n - 1 /\ (r - 1) + 1 = r /\ r - 1 \in Nat
  BY <1>1
<1>4. \A r \in 1 .. n : rows[r] \in RowEntry
  <2>. TAKE r \in 1 .. n
  <2>1. BuildKeys[(r - 1) + 1] \in Cell
    BY <1>1, <1>3
  <2>. QED
    BY <1>2, <1>3, <2>1 DEF RowEntry
<1>5. rows \in Seq(RowEntry)
  BY <1>1, <1>2, <1>4
<1>6. IsInjective(rows)
  <2>. SUFFICES ASSUME NEW r \in 1 .. n, NEW s \in 1 .. n, rows[r] = rows[s] PROVE r = s
    BY <1>2 DEF IsInjective
  <2>1. r - 1 = s - 1
    BY <1>2
  <2>. QED
    BY <2>1
<1>7. Range(rows) = {[key |-> BuildKeys[b + 1], row_id |-> b] : b \in 0 .. n - 1}
  <2>1. ASSUME NEW r \in 1 .. n
        PROVE  \E b \in 0 .. n - 1 : rows[r] = [key |-> BuildKeys[b + 1], row_id |-> b]
    BY <1>2, <1>3
  <2>2. ASSUME NEW b \in 0 .. n - 1
        PROVE  \E r \in 1 .. n : rows[r] = [key |-> BuildKeys[b + 1], row_id |-> b]
    <3>1. b + 1 \in 1 .. n /\ (b + 1) - 1 = b
      BY <1>1
    <3>. QED
      BY <1>2, <3>1
  <2>3. DOMAIN rows = 1 .. n
    BY <1>2
  <2>. QED
    BY <2>1, <2>2, <2>3, SMTT(60) DEF Range
<1>. QED
  BY <1>5, <1>6, <1>7 DEF n, rows, BuildRow

LEMMA BuildInv ==
  ASSUME JoinInv, BuildFromPages \/ BuildFromCopy
  PROVE  JoinInv'
<1>. DEFINE rows == NumberedRows(build)
            wanted == {entry \in Range(rows) : NonNull(entry)}
            kept == Kept(rows, wanted)
<1>1. /\ stage = "build" /\ UNCHANGED <<inputVars, page_idx, out, cached, results, out_idx, processed>>
      /\ stage' \in {"probe", "returned"} /\ pc' = pc /\ begin' = begin
  BY DEF BuildFromPages, BuildFromCopy, outputVars, vars
<1>2. InputsOK /\ InputsOK'
  BY <1>1, InputsStay DEF JoinInv
<1>3. /\ rows \in Seq(RowEntry) /\ IsInjective(rows)
      /\ Range(rows) = {[key |-> BuildKeys[b + 1], row_id |-> b] : b \in BuildRow}
  BY <1>2, NumberedRowsList
<1>4. /\ table' \in Seq(RowEntry) /\ IsInjective(table')
      /\ Range(table') = NonNullEntries
  <2>1. CASE BuildFromPages
    <3>1. table' = rows
      BY <2>1 DEF BuildFromPages
    <3>2. ASSUME NEW b \in BuildRow PROVE BuildKeys[b + 1] # Null
      <4>1. b + 1 \in 1 .. NumRows(build.pages)
        BY <1>2, InputFacts DEF BuildRow
      <4>2. IsColumn(build) /\ build.zero_copy
        BY <1>2, <2>1, InputFacts DEF BuildFromPages, ReadsPages
      <4>. QED
        BY <4>1, <4>2 DEF IsColumn, BuildKeys
    <3>3. NonNullEntries = Range(rows)
      BY <1>3, <3>2 DEF NonNullEntries
    <3>. QED
      BY <1>3, <3>1, <3>3
  <2>2. CASE BuildFromCopy
    <3>1. table' = kept
      BY <2>2 DEF BuildFromCopy
    <3>2. kept \in Seq(RowEntry) /\ IsInjective(kept) /\ Range(kept) = Range(rows) \cap wanted
      <4>. HIDE DEF rows, wanted
      <4>. QED
        BY <1>3, KeptElements
    <3>3. Range(rows) \cap wanted = NonNullEntries
      BY <1>3 DEF NonNullEntries, NonNull
    <3>. QED
      BY <3>1, <3>2, <3>3
  <2>. QED
    BY <2>1, <2>2
<1>5. table' \in Seq(Entry)
  <2>1. /\ Len(table') \in Nat /\ DOMAIN table' = 1 .. Len(table')
        /\ \A i \in 1 .. Len(table') : table'[i] \in RowEntry
    BY <1>4
  <2>2. \A i \in 1 .. Len(table') : table'[i] \in NonNullEntries
    BY <1>4, <2>1 DEF Range
  <2>3. \A entry \in RowEntry : entry \in NonNullEntries => entry \in Entry
    BY DEF NonNullEntries, Entry, RowEntry, Cell
  <2>4. \A i \in 1 .. Len(table') : table'[i] \in Entry
    BY <2>1, <2>2, <2>3
  <2>. QED
    BY <1>4, <2>1, <2>4
<1>6. TableBuilt'
  BY <1>1, <1>4, <1>5, InputsStay DEF TableBuilt
<1>7. ProcessedRows' = {} /\ Stages'
  BY <1>1 DEF JoinInv, Stages, ProcessedRows
<1>8. CursorsBehind'
  <2>1. \A w \in Worker : pc[w] # "scan"
    BY <1>1 DEF JoinInv, Stages
  <2>. QED
    BY <1>1, <2>1 DEF JoinInv, CursorsBehind
<1>9. PairsFound'
  BY <1>1, PairsStay DEF JoinInv
<1>10. OutputAfterJoin'
  BY <1>1 DEF OutputAfterJoin
<1>11. OutputInv'
  BY <1>1, GatheredStays DEF JoinInv, OutputInv
<1>. QED
  BY <1>2, <1>6, <1>7, <1>8, <1>9, <1>10, <1>11 DEF JoinInv

\* A steal, and leaving a block, change nothing of the join's.
LEMMA StealInv ==
  ASSUME IInv, JoinInv, NEW w \in Worker, Steal(w) \/ CloseBlock(w)
  PROVE  JoinInv'
<1>1. /\ stage = "probe"
      /\ UNCHANGED <<stage, inputVars, table, page_idx, out, cached, results, out_idx, processed>>
      /\ \A v \in Worker : pc'[v] = "scan" => pc[v] = "scan" /\ begin'[v] = begin[v]
  <2>1. CASE Steal(w)
    BY <2>1 DEF Steal, FetchAdd, NoWorkLeft, mainVars, outputVars, IInv, TypeOK
  <2>2. CASE CloseBlock(w)
    BY <2>2 DEF CloseBlock, BlockFinished, mainVars, outputVars, IInv, TypeOK
  <2>. QED
    BY <2>1, <2>2
<1>2. CursorsBehind'
  BY <1>1, InputsStay DEF JoinInv, CursorsBehind, inputVars
<1>3. InputsOK' /\ PairsFound'
  BY <1>1, InputsStay, PairsStay DEF JoinInv
<1>4. TableBuilt'
  BY <1>1, InputsStay DEF JoinInv, TableBuilt
<1>5. OutputInv'
  BY <1>1, GatheredStays DEF JoinInv, OutputInv
<1>. QED
  BY <1>1, <1>2, <1>3, <1>4, <1>5 DEF JoinInv, Stages, OutputAfterJoin

\* Lists that share no element and repeat none are joined to one that repeats none.
LEMMA InjectiveConcatenation ==
  ASSUME NEW V, NEW s \in Seq(V), NEW t \in Seq(V)
  PROVE  /\ s \o t \in Seq(V)
         /\ Range(s \o t) = Range(s) \union Range(t)
         /\ IsInjective(s) /\ IsInjective(t) /\ Range(s) \cap Range(t) = {} => IsInjective(s \o t)
<1>. DEFINE st == s \o t
<1>1. /\ st \in Seq(V)
      /\ Len(s) \in Nat /\ Len(t) \in Nat
      /\ Len(st) = Len(s) + Len(t)
      /\ \A i \in 1 .. Len(s) : st[i] = s[i]
      /\ \A i \in 1 .. Len(t) : st[Len(s) + i] = t[i]
  BY Concatenation
<1>2. DOMAIN s = 1 .. Len(s) /\ DOMAIN t = 1 .. Len(t)
  OBVIOUS
<1>. HIDE DEF st
<1>3. DOMAIN st = 1 .. Len(s) + Len(t)
  BY <1>1
<1>4. \A i \in DOMAIN st : i \in DOMAIN s \/ (i - Len(s) \in DOMAIN t /\ Len(s) + (i - Len(s)) = i)
  BY <1>1, <1>2, <1>3
<1>5. \A i \in DOMAIN st :
        \/ i \in DOMAIN s /\ st[i] = s[i]
        \/ i - Len(s) \in DOMAIN t /\ st[i] = t[i - Len(s)] /\ i \in Int
  <2>. TAKE i \in DOMAIN st
  <2>1. CASE i \in DOMAIN s
    BY <1>1, <1>2, <2>1
  <2>2. CASE i - Len(s) \in DOMAIN t /\ Len(s) + (i - Len(s)) = i
    <3>. DEFINE j == i - Len(s)
    <3>0. j \in 1 .. Len(t)
      BY <1>2, <2>2
    <3>1. st[Len(s) + j] = t[j]
      <4>. HIDE DEF j
      <4>. QED
        BY <1>1, <3>0
    <3>2. i \in Int
      BY <1>3
    <3>. QED
      BY <2>2, <3>1, <3>2
  <2>. QED
    BY <1>4, <2>1, <2>2
<1>6. /\ \A i \in DOMAIN s : i \in DOMAIN st /\ st[i] = s[i]
      /\ \A i \in DOMAIN t : Len(s) + i \in DOMAIN st /\ st[Len(s) + i] = t[i]
  BY <1>1, <1>2, <1>3
<1>7. Range(st) = Range(s) \union Range(t)
  BY <1>5, <1>6 DEF Range
<1>8. ASSUME IsInjective(s), IsInjective(t), Range(s) \cap Range(t) = {} PROVE IsInjective(st)
  <2>. SUFFICES ASSUME NEW i \in DOMAIN st, NEW j \in DOMAIN st, st[i] = st[j] PROVE i = j
    BY DEF IsInjective
  <2>1. CASE i \in DOMAIN s /\ st[i] = s[i] /\ j \in DOMAIN s /\ st[j] = s[j]
    BY <1>8, <2>1 DEF IsInjective
  <2>2. CASE /\ i - Len(s) \in DOMAIN t /\ st[i] = t[i - Len(s)] /\ i \in Int
             /\ j - Len(s) \in DOMAIN t /\ st[j] = t[j - Len(s)] /\ j \in Int
    <3>1. i - Len(s) = j - Len(s)
      BY <1>8, <2>2 DEF IsInjective
    <3>. QED
      BY <1>1, <2>2, <3>1
  <2>3. ~(i \in DOMAIN s /\ st[i] = s[i] /\ j - Len(s) \in DOMAIN t /\ st[j] = t[j - Len(s)])
    BY <1>8 DEF Range
  <2>4. ~(j \in DOMAIN s /\ st[j] = s[j] /\ i - Len(s) \in DOMAIN t /\ st[i] = t[i - Len(s)])
    BY <1>8 DEF Range
  <2>. QED
    BY <1>5, <2>1, <2>2, <2>3, <2>4
<1>. QED
  BY <1>1, <1>7, <1>8 DEF st

\* A block opens on the page of its first row, or before it.
LEMMA OpenBlockInv ==
  ASSUME IInv, JoinInv, NEW w \in Worker, OpenBlock(w)
  PROVE  JoinInv'
<1>1. /\ stage = "probe" /\ pc[w] = "compare" /\ begin[w] < TotalWork /\ begin[w] \in Nat
      /\ UNCHANGED <<stage, inputVars, table, out, cached, results, out_idx, processed, begin>>
      /\ \A v \in Worker : v # w => pc'[v] = pc[v]
      /\ pc' \in [Worker -> {"steal", "compare", "scan", "done"}]
  BY DEF OpenBlock, BlockGiven, mainVars, outputVars, IInv, TypeOK
<1>2. probe' = probe /\ stage' = stage
  BY <1>1 DEF inputVars
<1>3. CursorsBehind'
  <2>1. page_idx \in [Worker -> Nat]
    BY DEF JoinInv, CursorsBehind
  <2>2. CASE ReadsPages(probe)
    <3>1. /\ StartPage(begin[w]) \in 0 .. Len(probe.pages) - 1 /\ Offsets[StartPage(begin[w])] <= begin[w]
          /\ probe.pages \in Seq(Seq(Cell))
      BY <1>1, <2>2, StartPageBehind, InputFacts DEF JoinInv, IsColumn
    <3>2. Len(probe.pages) \in Nat
      BY <3>1
    <3>. DEFINE q == StartPage(begin[w])
    <3>3. q \in Nat /\ q < Len(probe.pages) /\ Offsets[q] <= begin[w]
      BY <3>1, <3>2
    <3>4. page_idx' = [page_idx EXCEPT ![w] = q]
      BY <2>2 DEF OpenBlock
    <3>. HIDE DEF q
    <3>5. page_idx' \in [Worker -> Nat] /\ page_idx'[w] = q
      BY <2>1, <3>3, <3>4
    <3>6. \A v \in Worker : v # w => page_idx'[v] = page_idx[v]
      BY <2>1, <3>4
    <3>. QED
      BY <1>1, <1>2, <3>3, <3>5, <3>6, InputsStay DEF JoinInv, CursorsBehind
  <2>3. CASE ~ReadsPages(probe)
    BY <1>2, <2>1, <2>3 DEF OpenBlock, CursorsBehind
  <2>. QED
    BY <2>2, <2>3
<1>4. InputsOK' /\ PairsFound'
  BY <1>1, InputsStay, PairsStay DEF JoinInv
<1>5. TableBuilt'
  BY <1>1, InputsStay DEF JoinInv, TableBuilt
<1>6. OutputInv'
  BY <1>1, GatheredStays DEF JoinInv, OutputInv
<1>. QED
  BY <1>1, <1>3, <1>4, <1>5, <1>6 DEF JoinInv, Stages, OutputAfterJoin

\* What a probe of a row changes: the row is processed, its matches are appended.
LEMMA ProbeRowEffect ==
  ASSUME IInv, JoinInv, NEW w \in Worker, ProbeRow(w)
  PROVE  /\ stage = "probe" /\ stage' = "probe"
         /\ UNCHANGED <<inputVars, table, cached, results, out_idx, pc>>
         /\ begin[w] \in Item /\ begin[w] \notin ProcessedRows
         /\ begin'[w] = begin[w] + 1 /\ \A v \in Worker : v # w => begin'[v] = begin[v]
         /\ ProcessedRows' = ProcessedRows \union {begin[w]}
         /\ page_idx' \in [Worker -> Nat] /\ \A v \in Worker : v # w => page_idx'[v] = page_idx[v]
         /\ ReadsPages(probe) => page_idx'[w] < Len(probe.pages) /\ Offsets[page_idx'[w]] <= begin[w]
         /\ out' = [out EXCEPT ![w] = out[w] \o PairsFor(ProbeKeys[begin[w] + 1], begin[w])]
<1>. DEFINE row == begin[w]
            p == IF ReadsPages(probe) THEN AdvancePage(page_idx[w], row) ELSE page_idx[w]
<1>1. /\ stage = "probe" /\ pc[w] = "scan" /\ begin[w] < end[w]
      /\ processed' = [processed EXCEPT ![row] = @ + 1]
      /\ begin' = [begin EXCEPT ![w] = @ + 1]
      /\ UNCHANGED <<stage, inputVars, table, cached, results, out_idx, pc>>
  BY DEF ProbeRow, ScanRow, mainVars, outputVars
<1>2. /\ p \in Nat
      /\ ReadsPages(probe) => p < Len(probe.pages) /\ Offsets[p] <= row
      /\ KeyRead(p, row) = ProbeKeys[row + 1]
      /\ row \in Item
  BY <1>1, KeyOfRow DEF JoinInv
<1>3. /\ page_idx' = [page_idx EXCEPT ![w] = p]
      /\ out' = [out EXCEPT ![w] = @ \o PairsFor(KeyRead(p, row), row)]
  BY DEF ProbeRow
<1>4. processed[row] = 0
  <2>1. row \in Held(w)
    BY <1>1, ConfigAssumption DEF Held, IInv, TypeOK
  <2>. QED
    BY <2>1 DEF IInv, ClaimsDisjoint
<1>. HIDE DEF p
<1>5. ProcessedRows' = ProcessedRows \union {row} /\ row \notin ProcessedRows
  BY <1>1, <1>2, <1>4 DEF ProcessedRows, IInv, TypeOK
<1>6. /\ begin'[w] = begin[w] + 1 /\ \A v \in Worker : v # w => begin'[v] = begin[v]
  BY <1>1 DEF IInv, TypeOK
<1>7. page_idx' \in [Worker -> Nat] /\ page_idx'[w] = p /\ \A v \in Worker : v # w => page_idx'[v] = page_idx[v]
  BY <1>2, <1>3 DEF JoinInv, CursorsBehind
<1>8. out' = [out EXCEPT ![w] = out[w] \o PairsFor(ProbeKeys[row + 1], row)]
  BY <1>2, <1>3
<1>. QED
  BY <1>1, <1>2, <1>5, <1>6, <1>7, <1>8

LEMMA ProbeRowInv ==
  ASSUME IInv, JoinInv, NEW w \in Worker, ProbeRow(w)
  PROVE  JoinInv'
<1>. DEFINE row == begin[w]
            new == PairsFor(ProbeKeys[row + 1], row)
<1>1. /\ stage = "probe" /\ stage' = "probe"
      /\ UNCHANGED <<inputVars, table, cached, results, out_idx, pc>>
      /\ row \in Item /\ row \notin ProcessedRows
      /\ begin'[w] = row + 1 /\ \A v \in Worker : v # w => begin'[v] = begin[v]
      /\ ProcessedRows' = ProcessedRows \union {row}
      /\ page_idx' \in [Worker -> Nat] /\ \A v \in Worker : v # w => page_idx'[v] = page_idx[v]
      /\ ReadsPages(probe) => page_idx'[w] < Len(probe.pages) /\ Offsets[page_idx'[w]] <= row
      /\ out' = [out EXCEPT ![w] = out[w] \o new]
  BY ProbeRowEffect
<1>2. new \in Seq(PairType) /\ IsInjective(new) /\ Range(new) = MatchesOf(row)
  BY <1>1, PairsForRow DEF JoinInv, PairType
<1>3. CursorsBehind'
  <2>1. probe' = probe /\ Offsets' = Offsets /\ ReadsPages(probe)' = ReadsPages(probe) /\ row \in Nat
    BY <1>1, InputsStay DEF inputVars, Item
  <2>2. ReadsPages(probe) /\ pc[w] = "scan" => Offsets[page_idx'[w]] <= row + 1
    <3>. SUFFICES ASSUME ReadsPages(probe) PROVE Offsets[page_idx'[w]] <= row + 1
      OBVIOUS
    <3>1. probe.pages \in Seq(Seq(Cell))
      BY InputFacts DEF JoinInv, IsColumn
    <3>2. page_idx'[w] \in 0 .. Len(probe.pages)
      BY <1>1, <3>1
    <3>3. Offsets[page_idx'[w]] \in Nat
      BY <3>1, <3>2, OffsetsAscend DEF Offsets
    <3>. QED
      BY <1>1, <2>1, <3>3
  <2>. HIDE DEF row
  <2>3. \A v \in Worker : ReadsPages(probe) /\ pc[v] = "scan" =>
          page_idx'[v] < Len(probe.pages) /\ Offsets[page_idx'[v]] <= begin'[v]
    <3>1. \A v \in Worker : v # w /\ ReadsPages(probe) /\ pc[v] = "scan" =>
            page_idx[v] < Len(probe.pages) /\ Offsets[page_idx[v]] <= begin[v]
      BY <1>1 DEF JoinInv, CursorsBehind
    <3>. QED
      BY <1>1, <2>2, <3>1
  <2>. QED
    BY <1>1, <2>1, <2>3 DEF CursorsBehind
<1>4. PairsFound'
  <2>0. PairsFound /\ out[w] \in Seq(PairType) /\ out \in [Worker -> Seq(PairType)]
    BY DEF JoinInv, PairsFound
  <2>1. out'[w] = out[w] \o new /\ \A v \in Worker : v # w => out'[v] = out[v]
    BY <1>1, <2>0
  <2>. HIDE DEF row, new
  <2>2. /\ out'[w] \in Seq(PairType) /\ Range(out'[w]) = Range(out[w]) \union Range(new)
        /\ (Range(out[w]) \cap Range(new) = {} => IsInjective(out'[w]))
    BY <1>2, <2>0, <2>1, InjectiveConcatenation DEF PairsFound
  <2>3. out' \in [Worker -> Seq(PairType)]
    BY <1>1, <2>0, <2>1, <2>2
  <2>4. \A v \in Worker : Range(out[v]) \cap MatchesOf(row) = {}
    <3>. SUFFICES ASSUME NEW v \in Worker, NEW pair \in Range(out[v]), pair \in MatchesOf(row)
                  PROVE  FALSE
      OBVIOUS
    <3>1. PICK other \in ProcessedRows : pair \in MatchesOf(other)
      BY <2>0 DEF PairsFound
    <3>2. \A r, s \in Item : pair \in MatchesOf(r) /\ pair \in MatchesOf(s) => r = s
      BY DEF MatchesOf, PairOf
    <3>. QED
      BY <1>1, <3>1, <3>2 DEF ProcessedRows
  <2>5. IsInjective(out'[w])
    BY <1>2, <2>2, <2>4
  <2>6. \A u, v \in Worker : u # v => Range(out'[u]) \cap Range(out'[v]) = {}
    <3>1. \A u, v \in Worker : u # v => Range(out[u]) \cap Range(out[v]) = {}
      BY <2>0 DEF PairsFound
    <3>2. \A v \in Worker : v # w => Range(out'[v]) = Range(out[v])
      BY <2>1
    <3>3. Range(out'[w]) = Range(out[w]) \union MatchesOf(row)
      BY <1>2, <2>2
    <3>. HIDE DEF PairsFound
    <3>. QED
      BY <2>4, <3>1, <3>2, <3>3
  <2>7. UNION {Range(out'[v]) : v \in Worker} = (UNION {Range(out[v]) : v \in Worker}) \union MatchesOf(row)
    <3>1. \A v \in Worker : v # w => Range(out'[v]) = Range(out[v])
      BY <2>1
    <3>2. Range(out'[w]) = Range(out[w]) \union MatchesOf(row)
      BY <1>2, <2>2
    <3>3. ASSUME NEW pair
          PROVE  (\E v \in Worker : pair \in Range(out'[v])) <=>
                   ((\E v \in Worker : pair \in Range(out[v])) \/ pair \in MatchesOf(row))
      BY <3>1, <3>2
    <3>. QED
      BY <3>3
  <2>8. (UNION {MatchesOf(r) : r \in ProcessedRows})' = (UNION {MatchesOf(r) : r \in ProcessedRows}) \union MatchesOf(row)
    <3>1. \A r : MatchesOf(r)' = MatchesOf(r)
      BY <1>1, InputsStay
    <3>2. (UNION {MatchesOf(r) : r \in ProcessedRows})' = UNION {MatchesOf(r) : r \in ProcessedRows'}
      BY <3>1
    <3>3. UNION {MatchesOf(r) : r \in ProcessedRows \union {row}} =
            (UNION {MatchesOf(r) : r \in ProcessedRows}) \union MatchesOf(row)
      OBVIOUS
    <3>4. ProcessedRows' = ProcessedRows \union {row}
      BY <1>1 DEF row
    <3>. QED
      BY <3>2, <3>3, <3>4
  <2>. QED
    BY <2>0, <2>3, <2>1, <2>5, <2>6, <2>7, <2>8 DEF PairsFound
<1>5. InputsOK'
  BY <1>1, InputsStay DEF JoinInv
<1>6. TableBuilt'
  BY <1>1, InputsStay DEF JoinInv, TableBuilt
<1>7. OutputInv'
  <2>1. (Len(Gathered) \in Nat)'
    BY <1>4, GatheredLength, PTL
  <2>. QED
    BY <1>1, <2>1 DEF JoinInv, OutputInv
<1>. QED
  BY <1>1, <1>3, <1>4, <1>5, <1>6, <1>7 DEF JoinInv, Stages, OutputAfterJoin

\* New pages for all rows.
LEMMA NewPages ==
  ASSUME NEW n \in Nat
  PROVE  /\ OutputPages(n) \in Seq(Seq(RowType))
         /\ Len(OutputPages(n)) = (n + ValuesPerPage - 1) \div ValuesPerPage
         /\ \A p \in 1 .. Len(OutputPages(n)) :
              Len(OutputPages(n)[p]) = IF n - (p - 1) * ValuesPerPage < ValuesPerPage
                                         THEN n - (p - 1) * ValuesPerPage
                                         ELSE ValuesPerPage
         /\ n = 0 => OutputPages(n) = <<>>
<1>. DEFINE size == ValuesPerPage
            k == (n + size - 1) \div size
            Room(p) == IF n - (p - 1) * size < size THEN n - (p - 1) * size ELSE size
<1>1. size \in Nat \ {0}
  BY ColumnAssumption
<1>. HIDE DEF size
<1>2. k \in Nat /\ size * k < n + size
  BY <1>1, RoundUp
<1>. HIDE DEF k
<1>3. ASSUME NEW p \in 1 .. k PROVE Room(p) \in Nat /\ Min({size, n - (p - 1) * size}) = Room(p)
  <2>1. p - 1 \in Nat /\ (p - 1) + 1 <= k /\ (p - 1) * size = size * (p - 1)
    BY <1>1, <1>2
  <2>. DEFINE q == p - 1
              before == q * size
  <2>2. size * (q + 1) <= size * k
    BY <1>1, <1>2, <2>1, TimesMonotonic
  <2>3. size * (q + 1) = before + size /\ before \in Nat /\ size * k \in Nat
    BY <1>1, <1>2, <2>1
  <2>. HIDE DEF before
  <2>4. before < n
    BY <1>1, <1>2, <2>2, <2>3
  <2>5. (p - 1) * size = before
    BY DEF before
  <2>6. n - before \in Nat
    BY <2>3, <2>4
  <2>7. Room(p) = IF n - before < size THEN n - before ELSE size
    BY <2>5
  <2>8. Min({size, n - before}) = IF n - before < size THEN n - before ELSE size
    <3>. DEFINE rest == n - before
    <3>. HIDE DEF rest
    <3>1. rest \in Nat
      BY <2>6 DEF rest
    <3>2. Min({size, rest}) = IF rest < size THEN rest ELSE size
      BY <1>1, <3>1 DEF Min
    <3>. QED
      BY <3>2 DEF rest
  <2>. QED
    BY <1>1, <2>5, <2>6, <2>7, <2>8
<1>. DEFINE pages == OutputPages(n)
<1>4. pages = [p \in 1 .. k |-> [i \in 1 .. Min({size, n - (p - 1) * size}) |-> Unwritten]]
  BY DEF OutputPages, k, size
<1>. HIDE DEF pages
<1>5. Unwritten \in RowType
  BY DEF Unwritten, RowType, Cell
<1>. HIDE DEF Room
<1>6. ASSUME NEW p \in 1 .. k PROVE pages[p] \in Seq(RowType) /\ Len(pages[p]) = Room(p)
  <2>1. pages[p] = [i \in 1 .. Room(p) |-> Unwritten] /\ Room(p) \in Nat
    BY <1>3, <1>4
  <2>. QED
    BY <1>5, <2>1
<1>7. pages \in Seq(Seq(RowType)) /\ Len(pages) = k
  <2>. DEFINE Page(p) == [i \in 1 .. Min({size, n - (p - 1) * size}) |-> Unwritten]
  <2>1. pages = [p \in 1 .. k |-> Page(p)]
    BY <1>4
  <2>. HIDE DEF Page
  <2>2. \A p \in 1 .. k : Page(p) \in Seq(RowType)
    BY <1>6, <2>1
  <2>. QED
    BY <1>2, <2>1, <2>2
<1>8. n = 0 => pages = <<>>
  <2>. SUFFICES ASSUME n = 0 PROVE pages = <<>>
    OBVIOUS
  <2>1. k = 0
    BY <1>1, RoundUpSmall DEF k
  <2>. QED
    BY <1>7, <2>1
<1>9. \A p \in 1 .. Len(pages) : Len(pages[p]) = Room(p)
  BY <1>2, <1>6, <1>7
<1>. QED
  BY <1>7, <1>8, <1>9 DEF k, size, pages, Room

LEMMA JoinThreadsInv ==
  ASSUME JoinInv, JoinThreads
  PROVE  JoinInv'
<1>1. /\ stage = "probe" /\ AllDone
      /\ UNCHANGED <<inputVars, table, page_idx, out, cached, out_idx, vars>>
      /\ results' = OutputPages(Len(Gathered))
      /\ stage' = IF Gathered = <<>> THEN "returned" ELSE "output"
  BY DEF JoinThreads
<1>2. out_idx = 0 /\ Len(Gathered) \in Nat /\ Gathered' = Gathered
  BY <1>1, ListsInOrder, GatheredStays DEF JoinInv, OutputInv
<1>3. InputsOK' /\ PairsFound'
  BY <1>1, InputsStay, PairsStay DEF JoinInv, vars
<1>4. TableBuilt'
  BY <1>1, InputsStay DEF JoinInv, TableBuilt
<1>5. CursorsBehind'
  BY <1>1 DEF JoinInv, CursorsBehind
<1>6. Written'
  <2>1. \A row \in 0 .. out_idx' - 1 : FALSE
    BY <1>1, <1>2
  <2>. QED
    BY <1>1, <1>2, <2>1, NewPages DEF Written
<1>7. OutputInv'
  <2>1. CASE Gathered = <<>>
    <3>1. results' = <<>>
      BY <1>1, <2>1, NewPages
    <3>. QED
      BY <1>1, <1>2, <2>1, <3>1 DEF JoinInv, OutputInv
  <2>2. CASE Gathered # <<>>
    BY <1>1, <1>2, <1>6, <2>2 DEF JoinInv, OutputInv
  <2>. QED
    BY <2>1, <2>2
<1>8. OutputAfterJoin' /\ Stages'
  BY <1>1 DEF OutputAfterJoin, AllDone, JoinInv, Stages, vars
<1>. QED
  BY <1>3, <1>4, <1>5, <1>7, <1>8 DEF JoinInv

LEMMA ReturnRowsInv ==
  ASSUME JoinInv, ReturnRows
  PROVE  JoinInv'
<1>1. /\ stage = "output" /\ stage' = "returned" /\ out_idx = Len(Gathered)
      /\ UNCHANGED <<inputVars, table, page_idx, out, cached, results, out_idx, vars>>
  BY DEF ReturnRows, outputVars
<1>2. InputsOK' /\ PairsFound' /\ Gathered' = Gathered
  BY <1>1, InputsStay, PairsStay, GatheredStays DEF JoinInv, vars
<1>3. TableBuilt'
  BY <1>1, InputsStay DEF JoinInv, TableBuilt
<1>4. Written'
  BY <1>1, WrittenStays DEF JoinInv, OutputInv
<1>. QED
  BY <1>1, <1>2, <1>3, <1>4 DEF JoinInv, CursorsBehind, OutputInv, OutputAfterJoin, Stages

LEMMA JoinStutterInv ==
  ASSUME JoinInv, UNCHANGED joinVars
  PROVE  JoinInv'
<1>1. UNCHANGED <<stage, inputVars, table, page_idx, out, cached, results, out_idx, vars>>
  BY DEF joinVars, inputVars, outputVars
<1>2. InputsOK' /\ PairsFound' /\ Gathered' = Gathered
  BY <1>1, InputsStay, PairsStay, GatheredStays DEF JoinInv, vars
<1>3. TableBuilt'
  BY <1>1, InputsStay DEF JoinInv, TableBuilt
<1>4. Written => Written'
  BY <1>1, WrittenStays
<1>5. OutputInv'
  BY <1>1, <1>2, <1>4 DEF JoinInv, OutputInv
<1>6. CursorsBehind'
  BY <1>1, InputsStay DEF JoinInv, CursorsBehind, inputVars, vars
<1>7. OutputAfterJoin' /\ Stages'
  BY <1>1 DEF JoinInv, OutputAfterJoin, AllDone, Stages, ProcessedRows, vars
<1>. QED
  BY <1>2, <1>3, <1>5, <1>6, <1>7 DEF JoinInv

\* One more row of the output is written, from the pages of the inputs' columns that
\* hold its two rows.
LEMMA CopyRowInv ==
  ASSUME JoinInv, CopyRow
  PROVE  JoinInv'
<1>. DEFINE i == out_idx
            n == Len(Gathered)
            size == ValuesPerPage
            pair == Gathered[i + 1]
<1>1. /\ stage = "output" /\ stage' = "output" /\ i < n /\ out_idx' = i + 1
      /\ UNCHANGED <<inputVars, table, page_idx, out, vars>>
  BY DEF CopyRow
<1>2. InputsOK' /\ PairsFound' /\ Gathered' = Gathered
  BY <1>1, InputsStay, PairsStay, GatheredStays DEF JoinInv, vars
<1>3. TableBuilt'
  BY <1>1, InputsStay DEF JoinInv, TableBuilt
<1>4. CursorsBehind' /\ OutputAfterJoin' /\ Stages'
  BY <1>1 DEF JoinInv, CursorsBehind, OutputAfterJoin, AllDone, Stages, ProcessedRows, vars
<1>5. /\ n \in Nat /\ i \in Nat /\ i + 1 \in DOMAIN Gathered
      /\ cached.left \in Nat /\ cached.right \in Nat
  BY <1>1, ListsInOrder DEF JoinInv, OutputInv
<1>6. /\ pair \in PairType
      /\ pair.lidx < NumRows(LeftColumn.pages) /\ pair.ridx < NumRows(RightColumn.pages)
  BY <1>5, GatheredPair DEF JoinInv
<1>7. IsColumn(LeftColumn) /\ IsColumn(RightColumn)
  BY InputFacts DEF JoinInv, LeftColumn, RightColumn
<1>8. LeftColumn' = LeftColumn /\ RightColumn' = RightColumn
  BY <1>1, InputsStay
<1>9. /\ cached' \in [left : Nat, right : Nat]
      /\ ValueAt(LeftColumn, cached'.left, pair.lidx) = Rows(LeftColumn.pages)[pair.lidx + 1]
      /\ ValueAt(RightColumn, cached'.right, pair.ridx) = Rows(RightColumn.pages)[pair.ridx + 1]
  <2>1. cached' = [left |-> PageRead(LeftColumn, cached.left, pair.lidx),
                   right |-> PageRead(RightColumn, cached.right, pair.ridx)]
    BY DEF CopyRow
  <2>2. /\ PageRead(LeftColumn, cached.left, pair.lidx) \in Nat
        /\ ValueAt(LeftColumn, PageRead(LeftColumn, cached.left, pair.lidx), pair.lidx) =
             Rows(LeftColumn.pages)[pair.lidx + 1]
    BY <1>5, <1>6, <1>7, PageReadOnPage DEF PairType
  <2>3. /\ PageRead(RightColumn, cached.right, pair.ridx) \in Nat
        /\ ValueAt(RightColumn, PageRead(RightColumn, cached.right, pair.ridx), pair.ridx) =
             Rows(RightColumn.pages)[pair.ridx + 1]
    BY <1>5, <1>6, <1>7, PageReadOnPage DEF PairType
  <2>. QED
    BY <2>1, <2>2, <2>3
<1>10. OutputRow(i) \in RowType
  <2>1. /\ Rows(LeftColumn.pages)[pair.lidx + 1] \in Cell
        /\ Rows(RightColumn.pages)[pair.ridx + 1] \in Cell
    <3>1. /\ pair.lidx \in 0 .. NumRows(LeftColumn.pages) - 1
          /\ pair.ridx \in 0 .. NumRows(RightColumn.pages) - 1
      BY <1>6, <1>7, ColumnFacts DEF PairType
    <3>. QED
      BY <1>7, <3>1, ColumnFacts
  <2>. QED
    BY <1>6, <2>1 DEF OutputRow, RowType
<1>11. results' = [results EXCEPT ![(i \div size) + 1][(i % size) + 1] = OutputRow(i)]
  BY <1>9 DEF CopyRow, OutputRow
<1>12. Written
  BY <1>1 DEF JoinInv, OutputInv
<1>13. size \in Nat \ {0}
  BY ColumnAssumption
<1>14. /\ results \in Seq(Seq(RowType))
       /\ NumRows(results) = n
       /\ \A row \in Nat : row < n => /\ (row \div size) + 1 \in 1 .. Len(results)
                                      /\ (row % size) + 1 \in 1 .. Len(results[(row \div size) + 1])
                                      /\ row \div size \in Nat /\ row % size \in Nat
  <2>1. /\ results \in Seq(Seq(RowType)) /\ NumRows(results) = n
        /\ \A p \in 1 .. Len(results) : Len(results[p]) <= size
        /\ \A p \in 1 .. Len(results) - 1 : Len(results[p]) = size
    BY <1>5, <1>12, <1>13, PagesForRows DEF Written
  <2>. HIDE DEF n, size
  <2>2. ASSUME NEW row \in Nat, row < n
        PROVE  /\ (row \div size) + 1 \in 1 .. Len(results)
               /\ (row % size) + 1 \in 1 .. Len(results[(row \div size) + 1])
               /\ row \div size \in Nat /\ row % size \in Nat
    <3>1. row \div size \in 0 .. Len(results) - 1 /\ (row % size) + 1 \in DOMAIN results[row \div size + 1]
      BY <1>13, <2>1, <2>2, FullPages
    <3>2. (row \div size) + 1 \in 1 .. Len(results)
      BY <2>1, <3>1
    <3>3. results[(row \div size) + 1] \in Seq(RowType)
      BY <2>1, <3>2
    <3>4. row \div size \in Nat /\ row % size \in Nat
      BY <1>13, QuotientBounds, Remainder
    <3>5. DOMAIN results[(row \div size) + 1] = 1 .. Len(results[(row \div size) + 1])
      BY <3>3
    <3>. QED
      BY <3>1, <3>2, <3>4, <3>5
  <2>. QED
    BY <2>1, <2>2
<1>. DEFINE p == (i \div size) + 1
            j == (i % size) + 1
<1>15. p \in 1 .. Len(results) /\ j \in 1 .. Len(results[p])
  BY <1>1, <1>5, <1>14
<1>16. /\ results' \in Seq(Seq(RowType)) /\ Len(results') = Len(results)
       /\ \A q \in 1 .. Len(results) : Len(results'[q]) = Len(results[q])
       /\ results'[p][j] = OutputRow(i)
       /\ \A q \in 1 .. Len(results) : \A k \in 1 .. Len(results[q]) :
            q # p \/ k # j => results'[q][k] = results[q][k]
  <2>1. results' = [results EXCEPT ![p][j] = OutputRow(i)]
    BY <1>11
  <2>. HIDE DEF p, j, i
  <2>. QED
    BY <1>10, <1>14, <1>15, <2>1, ValueWritten
<1>17. \A row : OutputRow(row)' = OutputRow(row)
  BY <1>2, <1>8 DEF OutputRow
<1>18. ASSUME NEW row \in 0 .. i
       PROVE  results'[(row \div size) + 1][(row % size) + 1] = OutputRow(row)
  <2>1. CASE row = i
    BY <1>16, <2>1
  <2>2. CASE row # i
    <3>1. row \in Nat /\ row < n /\ row \in 0 .. i - 1
      BY <1>1, <1>5, <2>2
    <3>2. results[(row \div size) + 1][(row % size) + 1] = OutputRow(row)
      BY <1>12, <3>1 DEF Written
    <3>3. /\ (row \div size) + 1 \in 1 .. Len(results)
          /\ (row % size) + 1 \in 1 .. Len(results[(row \div size) + 1])
          /\ row \div size \in Nat /\ row % size \in Nat
          /\ i \div size \in Nat /\ i % size \in Nat
      BY <1>1, <1>5, <1>14, <3>1
    <3>4. row \div size # i \div size \/ row % size # i % size
      BY <1>5, <1>13, <2>2, <3>1, RowNamed
    <3>5. (row \div size) + 1 # p \/ (row % size) + 1 # j
      <4>. DEFINE a == row \div size
                  b == i \div size
                  c == row % size
                  d == i % size
      <4>1. a \in Nat /\ b \in Nat /\ c \in Nat /\ d \in Nat /\ (a # b \/ c # d)
        BY <3>3, <3>4
      <4>. HIDE DEF a, b, c, d
      <4>2. a + 1 # b + 1 \/ c + 1 # d + 1
        BY <4>1
      <4>. QED
        BY <4>2 DEF a, b, c, d
    <3>. HIDE DEF p, j, n, i, size
    <3>. QED
      BY <1>16, <3>2, <3>3, <3>5
  <2>. QED
    BY <2>1, <2>2
<1>19. Written'
  <2>1. \A row \in 0 .. out_idx' - 1 : row \in 0 .. i
    BY <1>1, <1>5
  <2>. HIDE DEF i, p, j
  <2>. QED
    BY <1>2, <1>12, <1>16, <1>17, <1>18, <2>1 DEF Written
<1>20. OutputInv'
  BY <1>1, <1>2, <1>5, <1>9, <1>19 DEF OutputInv
<1>. QED
  BY <1>2, <1>3, <1>4, <1>20 DEF JoinInv

-----------------------------------------------------------------------------
(* The theorems.                                                           *)

LEMMA JoinNextInv == IInv /\ JoinInv /\ [JoinNext]_joinVars => JoinInv'
<1>. SUFFICES ASSUME IInv, JoinInv, [JoinNext]_joinVars PROVE JoinInv'
  OBVIOUS
<1>1. CASE UNCHANGED joinVars
  BY <1>1, JoinStutterInv
<1>2. CASE MainStep
  BY <1>2, BuildInv, JoinThreadsInv, CopyRowInv, ReturnRowsInv DEF MainStep
<1>3. ASSUME NEW w \in Worker, ThreadStep(w)
      PROVE  JoinInv'
  BY <1>3, StealInv, OpenBlockInv, ProbeRowInv DEF ThreadStep
<1>. QED
  BY <1>1, <1>2, <1>3 DEF JoinNext

\* The invariant of the join: what the table, the threads' lists, their cursors and
\* the pages of the output hold at every stage of run_int32.
THEOREM JoinInvariant == JoinSpec => [](IInv /\ JoinInv)
<1>1. JoinSpec => []IInv
  BY JoinRunsCoordinator, Inductive, PTL
<1>. QED
  BY <1>1, JoinInitInv, JoinNextInv, PTL DEF JoinSpec

\* Type correctness: among the rest, no entry of the table has the key NULL.
THEOREM JoinTypeCorrect == JoinSpec => []JoinTypeOK
<1>1. JoinInv => JoinTypeOK
  <2>. SUFFICES ASSUME JoinInv PROVE JoinTypeOK
    OBVIOUS
  <2>1. \A t \in DOMAIN table : table[t].key # Null
    <3>1. table \in Seq(Entry)
      BY DEF JoinInv, TableBuilt
    <3>2. \A t \in DOMAIN table : table[t] \in Entry
      BY <3>1
    <3>3. Null \notin Key
      BY ColumnAssumption
    <3>. HIDE DEF Key
    <3>. QED
      BY <3>2, <3>3 DEF Entry
  <2>2. ASSUME NEW w \in Worker PROVE IsFiniteSet(DOMAIN out[w])
    <3>1. out[w] \in Seq(PairType)
      BY DEF JoinInv, PairsFound
    <3>2. DOMAIN out[w] = 1 .. Len(out[w]) /\ Len(out[w]) \in Nat
      BY <3>1
    <3>3. IsFiniteSet(1 .. Len(out[w]))
      BY <3>2, FS_Interval
    <3>. QED
      BY <3>2, <3>3
  <2>. QED
    BY <2>1, <2>2 DEF JoinInv, JoinTypeOK, InputsOK, Stages, CursorsBehind
<1>. QED
  BY <1>1, JoinInvariant, PTL

\* The probe loop's page cursor: it is never past the row about to be read, and the
\* key read there is the row's, whatever the sizes of the pages and of the blocks.
THEOREM CursorStaysBehind == JoinSpec => []CursorBehindRow
<1>1. IInv /\ JoinInv => CursorBehindRow
  <2>. SUFFICES ASSUME IInv, JoinInv, NEW w \in Worker,
                       stage = "probe", ReadsPages(probe), pc[w] = "scan", begin[w] < end[w]
                PROVE  /\ page_idx[w] < Len(probe.pages)
                       /\ Offsets[page_idx[w]] <= begin[w]
                       /\ KeyRead(AdvancePage(page_idx[w], begin[w]), begin[w]) =
                            Rows(probe.pages)[begin[w] + 1]
    BY DEF CursorBehindRow
  <2>1. page_idx[w] < Len(probe.pages) /\ Offsets[page_idx[w]] <= begin[w]
    BY DEF JoinInv, CursorsBehind
  <2>2. KeyRead(AdvancePage(page_idx[w], begin[w]), begin[w]) = Rows(probe.pages)[begin[w] + 1]
    BY KeyOfRow DEF JoinInv, ProbeKeys
  <2>. QED
    BY <2>1, <2>2
<1>. QED
  BY <1>1, JoinInvariant, PTL

\* The rows of the result: each holds the values of the two rows its pair names, and
\* there is one for every pair of the lists, for pages of any size.
THEOREM RowsCopiedHolds == JoinSpec => []RowsCopied
<1>1. JoinInv => RowsCopied
  <2>. SUFFICES ASSUME JoinInv, stage = "returned", results # <<>>
                PROVE  LET rows == Rows(results)
                       IN  /\ Len(rows) = Len(Gathered)
                           /\ \A r \in DOMAIN rows :
                                /\ rows[r].pair = Gathered[r]
                                /\ rows[r].left = Rows(LeftColumn.pages)[Gathered[r].lidx + 1]
                                /\ rows[r].right = Rows(RightColumn.pages)[Gathered[r].ridx + 1]
    BY DEF RowsCopied
  <2>1. Written /\ out_idx = Len(Gathered)
    BY DEF JoinInv, OutputInv
  <2>. DEFINE rows == Rows(results)
  <2>2. /\ Len(rows) = Len(Gathered) /\ rows \in Seq(RowType)
        /\ \A r \in 1 .. Len(Gathered) : rows[r] = OutputRow(r - 1)
    BY <2>1, WrittenRows DEF JoinInv
  <2>3. DOMAIN rows = 1 .. Len(Gathered)
    BY <2>2
  <2>. HIDE DEF rows
  <2>4. ASSUME NEW r \in DOMAIN rows
        PROVE  /\ rows[r].pair = Gathered[r]
               /\ rows[r].left = Rows(LeftColumn.pages)[Gathered[r].lidx + 1]
               /\ rows[r].right = Rows(RightColumn.pages)[Gathered[r].ridx + 1]
    <3>1. (r - 1) + 1 = r /\ rows[r] = OutputRow(r - 1)
      BY <2>2, <2>3
    <3>. QED
      BY <3>1 DEF OutputRow
  <2>. QED
    BY <2>2, <2>4 DEF rows
<1>. QED
  BY <1>1, JoinInvariant, PTL

-----------------------------------------------------------------------------
(***************************************************************************)
(* The join implements the abstract one: the probe of a row finds its       *)
(* matches or stutters, the steps that leave the function return, all other *)
(* steps stutter.                                                           *)
(***************************************************************************)

Found == UNION {Range(out[w]) : w \in Worker}

\* A list without repetitions is as long as the set of its elements is large.
LEMMA LengthOfList ==
  ASSUME NEW V, NEW s \in Seq(V), IsInjective(s)
  PROVE  Cardinality(Range(s)) = Len(s)
<1>. DEFINE n == Len(s)
<1>1. n \in Nat /\ DOMAIN s = 1 .. n /\ s \in [1 .. n -> Range(s)]
  BY DEF Range
<1>. HIDE DEF n
<1>2. s \in Bijection(1 .. n, Range(s))
  BY <1>1 DEF Bijection, Injection, Surjection, Range
<1>3. ExistsBijection(1 .. n, Range(s))
  BY <1>2 DEF ExistsBijection
<1>4. IsFiniteSet(1 .. n) /\ Cardinality(1 .. n) = n
  BY <1>1, FS_Interval
<1>5. Cardinality(Range(s)) = Cardinality(1 .. n)
  BY <1>3, <1>4, FS_Bijection
<1>. QED
  BY <1>4, <1>5 DEF n

LEMMA NoPagesNoRows == Rows(<<>>) = <<>>
<1>. DEFINE none == <<>>
<1>1. none \in Seq(Seq(RowType)) /\ Len(none) = 0
  OBVIOUS
<1>. HIDE DEF none
<1>2. Rows(none) \in Seq(RowType) /\ Len(Rows(none)) = NumRows(none)
  BY <1>1, RowsOfPages
<1>3. NumRows(none) = 0
  BY <1>1, OffsetsAscend DEF NumRows
<1>4. Rows(none) = <<>>
  BY <1>2, <1>3
<1>. QED
  BY <1>4 DEF none

\* Without pages the result has no rows.
LEMMA NothingWritten == results = <<>> => PairsWritten = <<>>
BY NoPagesNoRows DEF PairsWritten

\* When every row has been looked up the pairs found are all there are.
LEMMA AllFound ==
  ASSUME JoinInv, ExactlyOnce, AllDone
  PROVE  Found = EquiJoinPromise!Matching
<1>1. ProcessedRows = Item
  BY DEF ExactlyOnce, ProcessedRows
<1>2. Found = UNION {MatchesOf(row) : row \in ProcessedRows}
  BY DEF JoinInv, PairsFound, Found
<1>. QED
  BY <1>1, <1>2, MatchingPairs DEF JoinInv

\* Before a row has been looked up nothing is found.
LEMMA FoundNothing == JoinInv /\ stage = "build" => Found = {}
BY DEF JoinInv, Stages, PairsFound, Found

\* What the abstract state depends on.
LEMMA AbstractState ==
  ASSUME UNCHANGED <<inputVars, out>>, stage # "returned", stage' # "returned"
  PROVE  UNCHANGED EquiJoinPromise!joinVars
BY InputsStay DEF EquiJoinPromise!joinVars

LEMMA AbstractReturn ==
  ASSUME UNCHANGED <<inputVars, out>>, stage # "returned", stage' = "returned",
         Found = EquiJoinPromise!Matching,
         Range(PairsWritten') = Found, Len(PairsWritten') = Cardinality(Found)
  PROVE  EquiJoinPromise!Return
<1>1. \A f : EquiJoinPromise!Range(f) = Range(f)
  BY DEF EquiJoinPromise!Range, Range
<1>2. EquiJoinPromise!Cardinality(Found) = Cardinality(Found)
  BY DEF EquiJoinPromise!Cardinality, Cardinality
<1>. QED
  BY <1>1, <1>2, InputsStay DEF EquiJoinPromise!Return, Found

LEMMA InitImplementsEquiJoin == JoinInit => EquiJoinPromise!Init
<1>. SUFFICES ASSUME JoinInit PROVE EquiJoinPromise!Init
  OBVIOUS
<1>1. \A w \in Worker : Range(out[w]) = {}
  BY DEF JoinInit, Range
<1>2. stage = "build"
  BY DEF JoinInit
<1>. QED
  BY <1>1, <1>2 DEF EquiJoinPromise!Init

LEMMA BuildImplementsEquiJoin ==
  ASSUME JoinInv, BuildFromPages \/ BuildFromCopy
  PROVE  [EquiJoinPromise!Next]_(EquiJoinPromise!joinVars)
<1>1. /\ stage = "build" /\ UNCHANGED <<inputVars, out, results>>
      /\ stage' = "probe" \/ (stage' = "returned" /\ table' = <<>>)
  BY DEF BuildFromPages, BuildFromCopy, outputVars
<1>2. CASE stage' = "probe"
  BY <1>1, <1>2, AbstractState
<1>3. CASE stage' = "returned" /\ table' = <<>>
  <2>1. NonNullEntries = {}
    <3>1. TableBuilt' /\ NonNullEntries' = NonNullEntries
      BY <1>1, BuildInv, InputsStay DEF JoinInv
    <3>2. Range(table') = {}
      BY <1>3 DEF Range
    <3>. QED
      BY <1>3, <3>1, <3>2 DEF TableBuilt
  <2>2. \A row \in Item : MatchesOf(row) = {}
    BY <2>1 DEF NonNullEntries, MatchesOf
  <2>3. EquiJoinPromise!Matching = {}
    BY <2>2, MatchingPairs DEF JoinInv
  <2>4. Found = {}
    BY <1>1, FoundNothing
  <2>5. (results = <<>>)'
    BY <1>1 DEF JoinInv, OutputInv
  <2>6. (PairsWritten = <<>>)'
    BY <2>5, NothingWritten, PTL
  <2>7. Range(PairsWritten') = {} /\ Len(PairsWritten') = 0
    BY <2>6 DEF Range
  <2>8. Cardinality({}) = 0
    BY FS_EmptySet
  <2>. QED
    BY <1>1, <1>3, <2>3, <2>4, <2>7, <2>8, AbstractReturn DEF EquiJoinPromise!Next
<1>. QED
  BY <1>1, <1>2, <1>3

LEMMA ProbeRowImplementsEquiJoin ==
  ASSUME IInv, JoinInv, NEW w \in Worker, ProbeRow(w)
  PROVE  [EquiJoinPromise!Next]_(EquiJoinPromise!joinVars)
<1>1. stage = "probe" /\ stage' = "probe" /\ UNCHANGED inputVars
  BY ProbeRowEffect
<1>2. JoinInv'
  BY ProbeRowInv
<1>3. Found = UNION {MatchesOf(row) : row \in ProcessedRows}
      /\ Found' = (UNION {MatchesOf(row) : row \in ProcessedRows})'
  BY <1>2 DEF JoinInv, PairsFound, Found
<1>4. (UNION {MatchesOf(row) : row \in ProcessedRows})' = UNION {MatchesOf(row) : row \in ProcessedRows'}
  BY <1>1, InputsStay
<1>5. ProcessedRows \subseteq ProcessedRows' /\ ProcessedRows' \subseteq Item
  BY ProbeRowEffect DEF ProcessedRows
<1>6. Found \subseteq Found' /\ Found' \subseteq UNION {MatchesOf(row) : row \in Item}
  BY <1>3, <1>4, <1>5
<1>7. Found' \subseteq EquiJoinPromise!Matching
  BY <1>6, MatchingPairs DEF JoinInv
<1>8. CASE Found' = Found
  <2>1. UNCHANGED EquiJoinPromise!joinVars
    BY <1>1, <1>8, InputsStay DEF EquiJoinPromise!joinVars, Found
  <2>. QED
    BY <2>1
<1>9. CASE Found' # Found
  <2>1. EquiJoinPromise!Find
    BY <1>1, <1>6, <1>7, <1>9, InputsStay DEF EquiJoinPromise!Find, Found
  <2>. QED
    BY <2>1 DEF EquiJoinPromise!Next
<1>. QED
  BY <1>8, <1>9

\* With nothing found the empty result is returned, and that is right: all the
\* threads have returned, so every row has been looked up.
LEMMA JoinThreadsImplementsEquiJoin ==
  ASSUME JoinInv, ExactlyOnce, JoinThreads
  PROVE  [EquiJoinPromise!Next]_(EquiJoinPromise!joinVars)
<1>1. /\ stage = "probe" /\ AllDone /\ UNCHANGED <<inputVars, out>>
      /\ results' = OutputPages(Len(Gathered))
      /\ stage' = IF Gathered = <<>> THEN "returned" ELSE "output"
  BY DEF JoinThreads
<1>2. CASE Gathered # <<>>
  BY <1>1, <1>2, AbstractState
<1>3. CASE Gathered = <<>>
  <2>1. Found = EquiJoinPromise!Matching
    BY <1>1, AllFound
  <2>2. Found = {}
    <3>1. Found = Range(Gathered)
      BY ListsInOrder DEF JoinInv, Found
    <3>2. Range(Gathered) = {}
      BY <1>3 DEF Range
    <3>. QED
      BY <3>1, <3>2
  <2>3. (results = <<>>)'
    <3>1. Len(Gathered) = 0
      BY <1>3
    <3>. QED
      BY <1>1, <3>1, NewPages
  <2>4. (PairsWritten = <<>>)'
    BY <2>3, NothingWritten, PTL
  <2>5. Range(PairsWritten') = {} /\ Len(PairsWritten') = 0
    BY <2>4 DEF Range
  <2>6. Cardinality({}) = 0
    BY FS_EmptySet
  <2>. QED
    BY <1>1, <1>3, <2>1, <2>2, <2>5, <2>6, AbstractReturn DEF EquiJoinPromise!Next
<1>. QED
  BY <1>2, <1>3

LEMMA ReturnRowsImplementsEquiJoin ==
  ASSUME JoinInv, ExactlyOnce, ReturnRows
  PROVE  EquiJoinPromise!Return
<1>1. /\ stage = "output" /\ stage' = "returned" /\ out_idx = Len(Gathered)
      /\ UNCHANGED <<inputVars, out, results>>
  BY DEF ReturnRows, outputVars
<1>2. Found = EquiJoinPromise!Matching
  BY <1>1, AllFound DEF JoinInv, OutputAfterJoin
<1>3. /\ Gathered \in Seq(PairType) /\ IsInjective(Gathered) /\ Range(Gathered) = Found
  BY ListsInOrder DEF JoinInv, Found
<1>. DEFINE rows == Rows(results)
<1>4. /\ Len(rows) = Len(Gathered) /\ rows \in Seq(RowType)
      /\ \A r \in 1 .. Len(Gathered) : rows[r] = OutputRow(r - 1)
  BY <1>1, WrittenRows DEF JoinInv, OutputInv
<1>5. PairsWritten = [r \in DOMAIN rows |-> rows[r].pair]
  BY DEF PairsWritten
<1>6. PairsWritten' = PairsWritten
  BY <1>1 DEF PairsWritten
<1>. HIDE DEF rows
<1>7. DOMAIN rows = 1 .. Len(Gathered)
  BY <1>4
<1>8. \A r \in 1 .. Len(Gathered) : rows[r].pair = Gathered[r]
  <2>. TAKE r \in 1 .. Len(Gathered)
  <2>1. rows[r] = OutputRow(r - 1) /\ (r - 1) + 1 = r
    BY <1>4
  <2>. QED
    BY <2>1 DEF OutputRow
<1>9. PairsWritten = Gathered
  <2>1. PairsWritten = [r \in 1 .. Len(Gathered) |-> Gathered[r]]
    BY <1>5, <1>7, <1>8
  <2>. QED
    BY <1>3, <2>1
<1>10. Len(Gathered) = Cardinality(Found)
  BY <1>3, LengthOfList
<1>. QED
  BY <1>1, <1>2, <1>3, <1>6, <1>9, <1>10, AbstractReturn

LEMMA StepImplementsEquiJoin ==
  IInv /\ JoinInv /\ ExactlyOnce /\ [JoinNext]_joinVars
    => [EquiJoinPromise!Next]_(EquiJoinPromise!joinVars)
<1>. SUFFICES ASSUME IInv, JoinInv, ExactlyOnce, [JoinNext]_joinVars
              PROVE  [EquiJoinPromise!Next]_(EquiJoinPromise!joinVars)
  OBVIOUS
<1>1. CASE UNCHANGED joinVars
  <2>1. UNCHANGED <<inputVars, out, results, stage>>
    BY <1>1 DEF joinVars, inputVars, outputVars
  <2>2. UNCHANGED EquiJoinPromise!joinVars
    BY <2>1, InputsStay DEF EquiJoinPromise!joinVars, PairsWritten
  <2>. QED
    BY <2>2
<1>2. CASE BuildFromPages \/ BuildFromCopy
  BY <1>2, BuildImplementsEquiJoin
<1>3. CASE JoinThreads
  BY <1>3, JoinThreadsImplementsEquiJoin
<1>4. CASE CopyRow
  BY <1>4, AbstractState DEF CopyRow
<1>5. CASE ReturnRows
  BY <1>5, ReturnRowsImplementsEquiJoin DEF EquiJoinPromise!Next
<1>6. ASSUME NEW w \in Worker, ThreadStep(w)
      PROVE  [EquiJoinPromise!Next]_(EquiJoinPromise!joinVars)
  <2>1. CASE ProbeRow(w)
    BY <2>1, ProbeRowImplementsEquiJoin
  <2>2. CASE Steal(w) \/ OpenBlock(w) \/ CloseBlock(w)
    BY <2>2, AbstractState DEF Steal, OpenBlock, CloseBlock, mainVars
  <2>. QED
    BY <1>6, <2>1, <2>2 DEF ThreadStep
<1>. QED
  BY <1>1, <1>2, <1>3, <1>4, <1>5, <1>6 DEF JoinNext, MainStep

\* The hash join implements the equi-join: for any inputs, any number of threads and
\* any block size the result holds every matching pair once and no other.
THEOREM EquiJoinRefinement == JoinSpec => ImplementsEquiJoin
BY JoinInvariant, JoinProbesOnce, InitImplementsEquiJoin, StepImplementsEquiJoin, PTL
   DEF JoinSpec, ImplementsEquiJoin, EquiJoinPromise!Spec
=============================================================================
