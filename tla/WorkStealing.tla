---------------------------- MODULE WorkStealing ----------------------------
(***************************************************************************)
(* The work-stealing coordinator of the probe phase (work_stealing.cpp) and *)
(* the loop of the threads that use it (execute_default.cpp):               *)
(*                                                                          *)
(*     while (steal_block(begin, end)) for (j = begin; j < end; ++j) ...    *)
(*                                                                          *)
(* steal_block is one atomic fetch_add on the shared counter followed by    *)
(* thread-local arithmetic, so it is two steps here.  size_t arithmetic is  *)
(* modulo Word.                                                             *)
(***************************************************************************)
EXTENDS Integers, FiniteSets

CONSTANTS
  Worker,           \* threads calling steal_block
  TotalWork,        \* WorkStealingConfig::total_work
  NumThreads,       \* WorkStealingConfig::num_threads
  MinBlockSize,     \* WorkStealingConfig::min_block_size
  BlocksPerThread,  \* WorkStealingConfig::blocks_per_thread
  Word              \* 2^64 in the program: the modulus of size_t

(***************************************************************************)
(* Definitions whose name ends in _bug are plausible mistakes in the        *)
(* definition they precede; no specification uses them.  Each property is   *)
(* shown to reject one of them.                                             *)
(***************************************************************************)

\* The minimum block size is ignored: a block may be empty.
BlockSize_bug == TotalWork \div (NumThreads * BlocksPerThread)

(***************************************************************************)
(* WorkStealingConfig::get_block_size.                                      *)
(***************************************************************************)
BlockSize ==
  IF TotalWork = 0 \/ NumThreads = 0
    THEN 0
    ELSE LET calculated == TotalWork \div (NumThreads * BlocksPerThread)
         IN  IF MinBlockSize >= calculated THEN MinBlockSize ELSE calculated

ASSUME ConfigAssumption ==
  /\ Worker # {} /\ IsFiniteSet(Worker)
  /\ TotalWork \in Nat
  /\ NumThreads \in Nat
  /\ MinBlockSize \in Nat
  /\ BlocksPerThread \in Nat \ {0}
  /\ Word \in Nat

\* The counter passes the end of the work by at most one block per worker;
\* size_t must be wide enough for that overshoot.
ASSUME NoWrapAssumption ==
  TotalWork + BlockSize * (Cardinality(Worker) + 1) < Word

Item == 0 .. TotalWork - 1

VARIABLES
  work_counter,  \* std::atomic<size_t> work_counter_
  pc,            \* where each worker is in its loop
  begin,         \* the worker's begin_j; advances as the loop variable j
  end,           \* the worker's end_j
  processed      \* history: how often the loop body ran for each item

vars == <<work_counter, pc, begin, end, processed>>

Init ==
  /\ work_counter = 0
  /\ pc = [w \in Worker |-> "steal"]
  /\ begin = [w \in Worker |-> 0]
  /\ end = [w \in Worker |-> 0]
  /\ processed = [i \in Item |-> 0]

\* Blocks overlap by one row.
FetchAdd_bug(w) ==
  /\ pc[w] = "steal"
  /\ begin' = [begin EXCEPT ![w] = work_counter]
  /\ work_counter' = (work_counter + BlockSize - 1) % Word
  /\ pc' = [pc EXCEPT ![w] = "compare"]
  /\ UNCHANGED <<end, processed>>

\* begin = work_counter_.fetch_add(block_size_)
FetchAdd(w) ==
  /\ pc[w] = "steal"
  /\ begin' = [begin EXCEPT ![w] = work_counter]
  /\ work_counter' = (work_counter + BlockSize) % Word
  /\ pc' = [pc EXCEPT ![w] = "compare"]
  /\ UNCHANGED <<end, processed>>

\* A worker goes home on seeing the last block instead of the end of the work.
NoWorkLeft_bug(w) ==
  /\ pc[w] = "compare"
  /\ begin[w] + BlockSize >= TotalWork
  /\ pc' = [pc EXCEPT ![w] = "done"]
  /\ UNCHANGED <<work_counter, begin, end, processed>>

\* begin >= total_work_: steal_block returns false and the thread function ends.
NoWorkLeft(w) ==
  /\ pc[w] = "compare"
  /\ begin[w] >= TotalWork
  /\ pc' = [pc EXCEPT ![w] = "done"]
  /\ UNCHANGED <<work_counter, begin, end, processed>>

\* The end of the block that starts at b: std::min(total_work_, b + block_size_).
BlockEnd(b) ==
  LET e == (b + BlockSize) % Word
  IN  IF e < TotalWork THEN e ELSE TotalWork

\* steal_block returns true with a block.
BlockGiven(w) ==
  /\ pc[w] = "compare"
  /\ begin[w] < TotalWork
  /\ end' = [end EXCEPT ![w] = BlockEnd(begin[w])]
  /\ pc' = [pc EXCEPT ![w] = "scan"]
  /\ UNCHANGED <<work_counter, begin, processed>>

\* One iteration of the loop over the block.
ScanRow(w) ==
  /\ pc[w] = "scan"
  /\ begin[w] < end[w]
  /\ processed' = [processed EXCEPT ![begin[w]] = @ + 1]
  /\ begin' = [begin EXCEPT ![w] = @ + 1]
  /\ UNCHANGED <<work_counter, pc, end>>

\* The scan stops one row short.
BlockFinished_bug(w) ==
  /\ pc[w] = "scan"
  /\ begin[w] + 1 >= end[w]
  /\ pc' = [pc EXCEPT ![w] = "steal"]
  /\ UNCHANGED <<work_counter, begin, end, processed>>

\* j reaches end_j: back to the while condition.
BlockFinished(w) ==
  /\ pc[w] = "scan"
  /\ begin[w] >= end[w]
  /\ pc' = [pc EXCEPT ![w] = "steal"]
  /\ UNCHANGED <<work_counter, begin, end, processed>>

Step(w) ==
  FetchAdd(w) \/ NoWorkLeft(w) \/ BlockGiven(w) \/ ScanRow(w) \/ BlockFinished(w)

Next == \E w \in Worker : Step(w)

Spec == Init /\ [][Next]_vars

\* Every thread is scheduled by the operating system until it returns.
FairSpec == Spec /\ \A w \in Worker : WF_vars(Step(w))

-----------------------------------------------------------------------------
TypeOK ==
  /\ work_counter \in 0 .. Word - 1
  /\ pc \in [Worker -> {"steal", "compare", "scan", "done"}]
  /\ begin \in [Worker -> 0 .. Word - 1]
  /\ end \in [Worker -> 0 .. TotalWork]
  /\ processed \in [Item -> Nat]

AllDone == \A w \in Worker : pc[w] = "done"

\* No row is probed twice, and once every thread has returned no row was
\* skipped (the promise of the test "no work skipped or duplicated").
ExactlyOnce ==
  /\ \A i \in Item : processed[i] <= 1
  /\ AllDone => \A i \in Item : processed[i] = 1

\* The items worker w has claimed and not processed yet.  A claim takes effect
\* at the fetch_add, before the end of the block is computed.
Held(w) ==
  CASE pc[w] = "compare" -> {i \in Item : begin[w] <= i /\ i < begin[w] + BlockSize}
    [] pc[w] = "scan"    -> begin[w] .. end[w] - 1
    [] OTHER             -> {}

\* The refinement mapping to the abstract pool.
Pool == INSTANCE WorkPool WITH
  todo     <- {i \in Item : i >= work_counter},
  held     <- [w \in Worker |-> Held(w)],
  finished <- {i \in Item : processed[i] > 0},
  retired  <- {w \in Worker : pc[w] = "done"}

\* The coordinator hands every item to one worker only, every item given is
\* finished once, and a worker is sent home only when nothing is waiting.
ImplementsPool == Pool!Spec

-----------------------------------------------------------------------------
(***************************************************************************)
(* The inductive invariant.  ExactlyOnce alone does not survive a step: it  *)
(* says nothing of the items a worker has claimed and not yet processed, or *)
(* of the counter that later claims start from.                             *)
(***************************************************************************)

\* Claims never overlap, lie behind the counter and are still unprocessed.
ClaimsDisjoint ==
  /\ \A w \in Worker : \A i \in Held(w) : i < work_counter /\ processed[i] = 0
  /\ \A v, w \in Worker : v # w => Held(v) \cap Held(w) = {}

\* Behind the counter an item is held or processed once; ahead it is untouched.
Accounted ==
  \A i \in Item :
    /\ i >= work_counter => processed[i] = 0
    /\ (i < work_counter /\ \A w \in Worker : i \notin Held(w)) => processed[i] = 1

\* What a worker's locals say about the shared counter it read earlier.
LocalsCurrent ==
  \A w \in Worker :
    /\ pc[w] = "compare" => begin[w] + BlockSize <= work_counter
    /\ pc[w] = "scan" => begin[w] <= end[w]
    /\ pc[w] = "done" => begin[w] >= TotalWork /\ work_counter >= TotalWork

\* Workers whose fetch_add came after the last item was claimed.
Overrun == {w \in Worker : pc[w] \in {"compare", "done"} /\ begin[w] >= TotalWork}

\* Each of them moved the counter by one block, once: it cannot wrap around.
OvershootBounded ==
  work_counter <= TotalWork + BlockSize * (Cardinality(Overrun) + 1)

IInv ==
  /\ TypeOK
  /\ ClaimsDisjoint
  /\ Accounted
  /\ LocalsCurrent
  /\ OvershootBounded

-----------------------------------------------------------------------------
\* Every thread returns, so the join in the caller does not block forever.
Termination == <>AllDone
=============================================================================
