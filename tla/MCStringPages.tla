--------------------------- MODULE MCStringPages ----------------------------
(* Strings for StringPages: with pages of 12 bytes the empty string and one of *)
(* a single char share a page, the largest short string fills one, and the     *)
(* long strings take one and two pages.  A column is written by the inserter   *)
(* or by to_columnar, from start to end.                                       *)
EXTENDS TableStrings

VARIABLE writer

MCString == {[id |-> "e", size |-> 0], [id |-> "a", size |-> 1], [id |-> "s", size |-> 5],
             [id |-> "l", size |-> 6], [id |-> "m", size |-> 11]}

MCInit == Init /\ writer \in {"ColumnInserter", "to_columnar"}

MCNext ==
  /\ UNCHANGED writer
  /\ \/ writer = "ColumnInserter" /\ Next
     \/ writer = "to_columnar" /\ TableNext

MCSpec == MCInit /\ [][MCNext]_<<vars, writer>>
=============================================================================
