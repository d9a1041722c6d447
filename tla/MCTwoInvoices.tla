--------------------------- MODULE MCTwoInvoices ---------------------------
(***************************************************************************)
(* Two invoices that one transaction pays, and a window of one block, which*)
(* repairs nothing.  Branch B replaces all but the genesis block, and has  *)
(* the payment one block lower.                                            *)
(***************************************************************************)
EXTENDS ScannerAudit

CONSTANTS g0, a1, a2, b1, b2, none, t1, s1, s2

MCBlock == {g0, a1, a2, b1, b2}
A == <<g0, a1, a2>>
B == <<g0, b1, b2>>

MCPrev == [b \in MCBlock |->
  IF b = g0 THEN none
  ELSE CHOOSE p \in MCBlock : \E br \in {A, B} : \E i \in 1 .. Len(br) - 1 :
         br[i] = p /\ br[i + 1] = b]

MCChains == {SubSeq(br, 1, n) : br \in {A, B}, n \in 1 .. 3}
MCTxsOf == [b \in MCBlock |-> IF b \in {a2, b1} THEN {t1} ELSE {}]
MCOuts == [t \in {t1} |-> <<[sub |-> s1, amount |-> 1], [sub |-> s2, amount |-> 1]>>]
==============================================================================
