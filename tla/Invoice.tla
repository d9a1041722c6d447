------------------------------ MODULE Invoice --------------------------------
(***************************************************************************)
(* Invoice and Transfer (src/invoice.rs), and the part of Scanner::scan    *)
(* that computes an invoice anew from the transfers a scan found.          *)
(***************************************************************************)
EXTENDS Integers, Sequences, SequencesExt

CONSTANTS
  NoHeight,    \* Option::None where a height may be
  MaxU64       \* what 0 - 1 wraps to; no block is so high

ASSUME InvoiceAssumption == MaxU64 \in Nat /\ NoHeight \notin Int

\* u64 subtraction of one in a release build.
Dec(n) == IF n = 0 THEN MaxU64 ELSE n - 1

Transfer(amount, h) == [amount |-> amount, height |-> h]

Height == Nat \cup {NoHeight}
TransferType == [amount : Nat, height : Height]
InvoiceType(Index) ==
  [index : Index, creation_height : Nat, amount_requested : Nat, amount_paid : Nat,
   paid_height : Height, confirmations_required : Nat, current_height : Nat,
   expiration_height : Nat, transfers : Seq(TransferType)]
\* What a scan finds: a transfer with the subaddress it is to.
FoundType(Index) == [sub : Index, amount : Nat, height : Height]

\* Transfer::cmp_by_height: in the txpool is later than any height.
Before(h, bound) == h # NoHeight /\ h < bound
After(h, bound) == h = NoHeight \/ h > bound

NewInvoiceRecord(s, creation, amount, confirmations, expiration_in) ==
  [index |-> s, creation_height |-> creation, amount_requested |-> amount,
   amount_paid |-> 0, paid_height |-> NoHeight,
   confirmations_required |-> confirmations, current_height |-> 0,
   expiration_height |-> creation + expiration_in, transfers |-> <<>>]

SumOf(transfers) ==
  LET sum[n \in 0 .. Len(transfers)] == IF n = 0 THEN 0 ELSE sum[n - 1] + transfers[n].amount
  IN  sum[Len(transfers)]

\* The elements of a sequence that are in S, in their order.
Only(seq, S) == FlattenSeq([n \in DOMAIN seq |-> IF seq[n] \in S THEN <<seq[n]>> ELSE <<>>])

\* Mutant: the height of the first transfer, once the amount is covered.
PaidAtFirst(inv) ==
  IF SumOf(inv.transfers) >= inv.amount_requested /\ inv.transfers # <<>>
  THEN inv.transfers[1].height ELSE NoHeight

\* Mutant: more than the amount is wanted.
PaidAbove(inv) ==
  LET covered == {n \in DOMAIN inv.transfers :
                    /\ SumOf(SubSeq(inv.transfers, 1, n)) > inv.amount_requested
                    /\ inv.transfers[n].height # NoHeight}
  IN  IF covered = {} THEN NoHeight
      ELSE inv.transfers[CHOOSE n \in covered : \A m \in covered : n <= m].height

\* The first transfers that cover the amount give the height of payment; it is
\* looked for again after each transfer as long as it is None.
PaidHeight(inv) ==
  LET covered == {n \in DOMAIN inv.transfers :
                    /\ SumOf(SubSeq(inv.transfers, 1, n)) >= inv.amount_requested
                    /\ inv.transfers[n].height # NoHeight}
  IN  IF covered = {} THEN NoHeight
      ELSE inv.transfers[CHOOSE n \in covered : \A m \in covered : n <= m].height

Recomputed(inv) ==
  [inv EXCEPT !.amount_paid = SumOf(inv.transfers), !.paid_height = PaidHeight(inv)]

\* PartialEq ignores the order of transfers.
SameTransfers(a, b) ==
  LET count(s, t) == Cardinality({n \in DOMAIN s : s[n] = t})
  IN  \A t \in ToSet(a) \cup ToSet(b) : count(a, t) = count(b, t)

SameInvoice(a, b) ==
  /\ SameTransfers(a.transfers, b.transfers)
  /\ [a EXCEPT !.transfers = <<>>] = [b EXCEPT !.transfers = <<>>]

Confirmed(inv) ==
  /\ inv.amount_paid >= inv.amount_requested
  /\ LET confirmations == IF inv.paid_height = NoHeight
                            \/ inv.current_height < inv.paid_height THEN 0
                          ELSE inv.current_height - inv.paid_height
     IN  confirmations >= inv.confirmations_required

\* is_expired(): as long as payments are in the pool, there is no paid height.
Expired(inv) ==
  inv.current_height >= inv.expiration_height /\ inv.paid_height = NoHeight

\* A transfer that was found, if it is to this invoice and not before its creation.
MineByHeight(inv, f) == After(f.height, Dec(inv.creation_height))  \* mutant
Mine(inv, f) == f.sub = inv.index /\ After(f.height, Dec(inv.creation_height))

(***************************************************************************)
(* One round of the loop over the stored invoices.  found is the sequence  *)
(* of transfers of this scan; those at or above deepest_update that the    *)
(* invoice holds, and those of the txpool, are dropped and counted afresh. *)
(***************************************************************************)
Updated(inv, found, deepest_update, top) ==
  LET kept == {t \in ToSet(inv.transfers) : Before(t.height, deepest_update)}
      mine == Only(found, {f \in ToSet(found) : Mine(inv, f)})
      new == [inv EXCEPT
                !.transfers = Only(inv.transfers, kept) \o
                                [n \in DOMAIN mine |-> Transfer(mine[n].amount, mine[n].height)],
                !.current_height = top + 1]
  IN  IF SameInvoice(new, inv) THEN inv ELSE Recomputed(new)
==============================================================================
