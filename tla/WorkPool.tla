------------------------------ MODULE WorkPool ------------------------------
(***************************************************************************)
(* What a work distributor promises the threads of a parallel probe: every *)
(* item is handed to exactly one worker, an item handed out is finished    *)
(* once, and no worker goes home while an item is still waiting.  How the  *)
(* items are cut into blocks is left open.                                 *)
(***************************************************************************)
CONSTANTS
  Worker,   \* the threads that share the work
  Item      \* the rows to process

VARIABLES
  todo,      \* items no worker has been given yet
  held,      \* items each worker has been given and not finished
  finished,  \* items some worker has finished
  retired    \* workers that were told there is no work left

poolVars == <<todo, held, finished, retired>>

Init ==
  /\ todo = Item
  /\ held = [w \in Worker |-> {}]
  /\ finished = {}
  /\ retired = {}

\* A worker with nothing in hand is given some of the waiting items.
Take(w) ==
  /\ w \notin retired
  /\ held[w] = {}
  /\ \E block \in SUBSET todo :
       /\ block # {}
       /\ held' = [held EXCEPT ![w] = block]
       /\ todo' = todo \ block
  /\ UNCHANGED <<finished, retired>>

\* A worker finishes one of the items it holds, for the first time.
Finish(w) ==
  /\ \E i \in held[w] :
       /\ i \notin finished
       /\ held' = [held EXCEPT ![w] = @ \ {i}]
       /\ finished' = finished \union {i}
  /\ UNCHANGED <<todo, retired>>

\* A worker retires only when nothing is waiting and its hands are empty.
Retire(w) ==
  /\ w \notin retired
  /\ todo = {}
  /\ held[w] = {}
  /\ retired' = retired \union {w}
  /\ UNCHANGED <<todo, held, finished>>

Next == \E w \in Worker : Take(w) \/ Finish(w) \/ Retire(w)

Spec == Init /\ [][Next]_poolVars
=============================================================================
