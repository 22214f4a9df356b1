------------------------------ MODULE EquiJoin ------------------------------
(***************************************************************************)
(* What a join node promises: the pairs of rows whose join attributes are   *)
(* equal (and not NULL) are found in some order, and the result holds each  *)
(* of them exactly once.                                                    *)
(***************************************************************************)
EXTENDS Integers, Sequences, FiniteSets, Functions

CONSTANT Null

VARIABLES
  left, right,  \* join attribute of each row of the two inputs
  found,        \* the matching pairs found so far
  returned,     \* the result has been returned
  result        \* the rows of the result, each named by the pair it comes from

joinVars == <<left, right, found, returned, result>>

\* Rows are numbered from 0.
Pair == [lidx : 0 .. Len(left) - 1, ridx : 0 .. Len(right) - 1]

Matching == {p \in Pair : left[p.lidx + 1] # Null /\ left[p.lidx + 1] = right[p.ridx + 1]}

Init ==
  /\ found = {}
  /\ returned = FALSE
  /\ result = <<>>

Find ==
  /\ ~returned
  /\ found \subseteq found' /\ found' # found /\ found' \subseteq Matching
  /\ UNCHANGED <<left, right, returned, result>>

Return ==
  /\ ~returned
  /\ found = Matching
  /\ returned' = TRUE
  /\ Range(result') = Matching /\ Len(result') = Cardinality(Matching)
  /\ UNCHANGED <<left, right, found>>

Next == Find \/ Return

Spec == Init /\ [][Next]_joinVars
=============================================================================
