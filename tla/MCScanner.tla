------------------------------ MODULE MCScanner ------------------------------
(***************************************************************************)
(* One invoice at a time, two payments.  Branch B leaves A at height 3 and *)
(* holds them in the other order; a window of three reaches the fork.      *)
(***************************************************************************)
EXTENDS ScannerAudit

CONSTANTS g0, g1, g2, a3, a4, b3, b4, none, t1, t2, s1

MCBlock == {g0, g1, g2, a3, a4, b3, b4}
A == <<g0, g1, g2, a3, a4>>
B == <<g0, g1, g2, b3, b4>>

MCPrev == [b \in MCBlock |->
  IF b = g0 THEN none
  ELSE CHOOSE p \in MCBlock : \E br \in {A, B} : \E i \in 1 .. Len(br) - 1 :
         br[i] = p /\ br[i + 1] = b]

MCChains == {SubSeq(A, 1, n) : n \in 3 .. 5} \cup {B}
MCTxsOf == [b \in MCBlock |->
  CASE b \in {a3, b4} -> {t1} [] b \in {a4, b3} -> {t2} [] OTHER -> {}]
MCOuts == [t \in {t1, t2} |->
  <<[sub |-> s1, amount |-> IF t = t1 THEN 1 ELSE 2]>>]
==============================================================================
