---------------------------- MODULE MCCacheFiles ----------------------------
(* Two tables, one of three columns, one of them empty, the other read        *)
(* without a filter, and two queries: one that reads both and one that reads  *)
(* a table twice.                                                            *)
EXTENDS CacheFiles, TLC

MCTable ==
  "a" :> <<<<"a1">>, <<>>, <<"a2", "a3">>>>
  @@ "b" :> <<<<"b1">>, <<"b2">>>>
  @@ "r" :> <<<<"r1">>>>
  @@ "s" :> <<<<"s1">>>>

MCScans == "q" :> <<"a", "b">> @@ "p" :> <<"b", "b">>
MCResultOf == "q" :> "r" @@ "p" :> "s"
=============================================================================
