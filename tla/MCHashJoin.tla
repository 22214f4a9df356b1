----------------------------- MODULE MCHashJoin -----------------------------
(* Small columns for HashJoin: two keys in one slot and one in another, page *)
(* splits that blocks of two rows straddle, NULLs on both sides.            *)
EXTENDS HashJoin, TLC

MCKey == 1 .. 3
MCSlotOf == (1 :> 0) @@ (2 :> 0) @@ (3 :> 1)

ZeroCopy(pages) == [zero_copy |-> TRUE, pages |-> pages]
Materialised(pages) == [zero_copy |-> FALSE, pages |-> pages]

MCBuildColumns ==
  {ZeroCopy(<<<<a>>, <<b, c>>>>) : a \in {1, 2}, b \in {1, 2}, c \in {1, 3}}
    \union {Materialised(<<<<a, b>>, <<1>>>>) : a \in {1, 2, Null}, b \in {2, Null}}
    \union {Materialised(<<<<Null>>>>), ZeroCopy(<<>>), Materialised(<<>>)}

MCProbeColumns ==
  {ZeroCopy(<<<<1, a>>, <<b>>, <<2, 1>>>>) : a \in {1, 2}, b \in {2, 3}}
    \union {ZeroCopy(<<<<a>>, <<2, 1, 3, b>>>>) : a \in {1, 3}, b \in {1, 2}}
    \union {Materialised(<<<<a, 1>>, <<Null, b>>, <<2>>>>) : a \in {2, Null}, b \in {1, 3}}
=============================================================================
