---------------------------- MODULE MCKeyTables -----------------------------
EXTENDS KeyTables

(* The unchained table: three keys, two of which share a slot of the small    *)
(* directory and none of the large one, with Bloom tags that overlap.         *)

MCKey == 0 .. 2

MCSlotOf == [d \in {2, 4} |-> [k \in MCKey |-> CASE k = 0 -> d - 1
                                                 [] k = 1 -> 0
                                                 [] k = 2 -> IF d = 2 THEN 0 ELSE 1]]

MCTagOf == [k \in MCKey |-> {k, (k + 1) % 3}]

\* Columns of up to three rows; the last ones skip row 1, as a NULL there does.
KeyLists == UNION {[1 .. n -> MCKey] : n \in 0 .. 3}
MCEntryLists ==
  {[t \in DOMAIN ks |-> [key |-> ks[t], row_id |-> IF t = 1 THEN 0 ELSE t]] : ks \in KeyLists}

MCPageLists == {<<<<1, 2>>, <<0>>>>, <<<<0>>, <<0, 1>>>>, <<<<2>>, <<1>>, <<2, 0>>>>}

-----------------------------------------------------------------------------
(* The tables of index entries.                                              *)

\* One entry per row; the row is the place in the list.
Numbered(keys) == [e \in DOMAIN keys |-> [key |-> keys[e], row |-> e]]

MCIndexLists ==
  {Numbered(keys) : keys \in {<<>>, <<3, 1, 3, 2>>, <<4, 3, 2, 1>>, <<1, 2, 3, 4, 5>>}}

\* Every way for four keys to share the six slots they start with, up to turning
\* the table.
MCRobinHoodHash == {h \in [IndexKey -> 0 .. 5] : h[1] = 0 /\ h[5] = 0}

\* 0 and 9 share a slot of the nine that four keys start with, and part in the
\* nineteen of the rehash; keys that agree in both functions stay together.  Key 1
\* is given one of the two slots of the first table, which are alike.
MCCuckooHash ==
  {h \in [IndexKey -> {0, 9}] : h[1] = 0 /\ h[5] = 0}
    \X {h \in [IndexKey -> {0, 1, 9}] : h[5] = 1}

\* Of the twelve slots five keys start with, up to five share the first, and
\* others are next to it on both sides of the end of the table; 0, 12, 24, 36
\* and 48 part when it is doubled, 0, 24 and 48 only the second time.
MCHopscotchHash ==
  {h \in [IndexKey -> {0, 12, 24, 36, 48, 1, 11}] : IsInjective(h)}
=============================================================================
