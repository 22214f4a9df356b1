----------------------------- MODULE FilterPool -----------------------------
(* FilterThreadPool (inner_column.h): run() cuts its tasks into as many      *)
(* shards as there are threads, starts a thread for every shard but the      *)
(* last, works through the last itself and waits for the others.             *)
EXTENDS Integers

CONSTANT NumThreads
ASSUME NumThreadsAssumption == NumThreads \in Nat \ {0}

VARIABLES
  running,   \* whether a run is in progress
  tasks,     \* how many tasks it has
  spawned    \* how many threads it has started

pool == <<running, tasks, spawned>>

Threads == 0 .. NumThreads - 1
Caller == NumThreads - 1

PoolInit == running = FALSE /\ tasks = 0 /\ spawned = 0

\* The first task of a shard, and the end of the one before it.
begin_idx(thread_id, n) ==
  LET base == n \div NumThreads
      rem == n % NumThreads
  IN  thread_id * base + IF thread_id < rem THEN thread_id ELSE rem

\* The threads that have begun with their shard; the caller does when it has
\* started the others.
HasStarted(t) == running /\ IF t = Caller THEN spawned = Caller ELSE t < spawned

Run(n) ==
  /\ ~running
  /\ running' = TRUE
  /\ tasks' = n
  /\ spawned' = 0

\* A thread for the last shard as well.
Spawn_bug ==
  /\ running
  /\ spawned < NumThreads
  /\ spawned' = spawned + 1
  /\ UNCHANGED <<running, tasks>>

Spawn ==
  /\ running
  /\ spawned + 1 < NumThreads
  /\ spawned' = spawned + 1
  /\ UNCHANGED <<running, tasks>>

\* The caller has joined every thread; the client says that they have ended.
JoinThreads ==
  /\ \A t \in Threads : HasStarted(t)
  /\ running' = FALSE
  /\ UNCHANGED <<tasks, spawned>>

PoolTypeOK == running \in BOOLEAN /\ tasks \in Nat /\ spawned \in 0 .. Caller
=============================================================================
