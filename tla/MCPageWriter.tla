---------------------------- MODULE MCPageWriter ----------------------------
(* Pages of a few bytes, with fewer rows per bitmap byte, so that pages fill  *)
(* after two or three rows and every mixture of values and NULLs is reached. *)
(* A column is written by the inserter or by to_columnar, from start to end. *)
EXTENDS TableWriter

VARIABLE writer

MCInit == Init /\ writer \in {"ColumnInserter", "to_columnar"}

MCNext ==
  /\ UNCHANGED writer
  /\ \/ writer = "ColumnInserter" /\ Next
     \/ writer = "to_columnar" /\ TableNext

MCSpec == MCInit /\ [][MCNext]_<<vars, writer>>
=============================================================================
