---------------------------- MODULE MCCacheAudit -----------------------------
(***************************************************************************)
(* A small tree of blocks.  Branch A is a trunk of three blocks and three  *)
(* more; branch B leaves it at height 2 and outgrows a window of three;    *)
(* branch C leaves it at height 4.                                         *)
(***************************************************************************)
EXTENDS CacheAudit

CONSTANTS g0, g1, g2, a3, a4, a5, b2, b3, b4, b5, b6, c4, c5, none

MCBlock == {g0, g1, g2, a3, a4, a5, b2, b3, b4, b5, b6, c4, c5}
A == <<g0, g1, g2, a3, a4, a5>>
B == <<g0, g1, b2, b3, b4, b5, b6>>
C == <<g0, g1, g2, a3, c4, c5>>

\* The parent of b is the block before it in the branches that hold b.
MCPrev == [b \in MCBlock |->
  IF b = g0 THEN none
  ELSE CHOOSE p \in MCBlock : \E br \in {A, B, C} : \E i \in 1 .. Len(br) - 1 :
         br[i] = p /\ br[i + 1] = b]

MCTxsOf == [b \in MCBlock |-> {}]

MCChains ==
  {SubSeq(A, 1, n) : n \in 3 .. 6} \cup {SubSeq(B, 1, n) : n \in 3 .. 7} \cup
  {SubSeq(C, 1, n) : n \in 5 .. 6}
==============================================================================
