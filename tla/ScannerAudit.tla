----------------------------- MODULE ScannerAudit ----------------------------
(***************************************************************************)
(* What an invoice must show for the payments on the daemon's chain.       *)
(***************************************************************************)
EXTENDS Scanner

CONSTANT MaxTransfers   \* bound of the runs on the transfers of an invoice

VARIABLES
  earlier,  \* earlier[s]: the transactions older than the invoice of s
  ever,     \* every transaction that has been in the pool or in a block
  split,    \* the last scan failed, or read the pool on another chain than the
            \* newest cached block's
  lost,     \* why blocks may have gone unscanned: a failed "rpc" or "store"
            \* after the caches had moved, a "reorg" deeper than the window or in
            \* the middle of an update, a "skip" while an invoice was created
  missed,   \* transactions that the txpool cache has taken, and that no scan has
            \* looked at: it began with them, or the store failed in that scan
  resumed   \* the scanner was started with invoices in the store

ghosts == <<earlier, ever, split, lost, missed, resumed>>

Pays(t, s) == t \notin TimeLocked /\ \E o \in Range(Outs[t]) : o.sub = s
AmountTo(t, s) == SumOf(Only(Outs[t], {o \in ToSet(Outs[t]) : o.sub = s}))
TotalTo(txs, s) == MapThenSumSet(LAMBDA t : AmountTo(t, s), txs)

Count(s, amount, h) ==
  Cardinality({n \in DOMAIN store[s].transfers :
                 store[s].transfers[n] = Transfer(amount, h)})

\* The block b at height h has a payment to the invoice of s, made after its
\* creation, that the invoice does not show.
Misses(s, b, h) ==
  /\ h >= store[s].creation_height
  /\ \E t \in TxsOf[b] \ earlier[s] : Pays(t, s) /\ Count(s, AmountTo(t, s), h) = 0

Init ==
  /\ ScannerInit
  /\ earlier = [s \in Sub |-> {}]
  /\ ever = ChainTxs(chain)
  /\ split = FALSE /\ lost = {} /\ missed = {} /\ resumed = FALSE
------------------------------------------------------------------------------
\* The chain c has another block than the daemon's at the height n or below.
Replaced(c, n) == \E h \in 0 .. n : h >= Len(c) \/ ~On(chain, c[h + 1], h)

\* A reorganisation that reaches the lowest block of the window, which no repair
\* fetches again, or of the window that a scanner started later would resume with.
TooDeep(c) ==
  \/ phase \notin {"down", "init"} /\ Replaced(c, height - CacheSize + 1)
  \/ \E s \in Tracked : Replaced(c, store[s].current_height - CacheSize)

\* Steps that ask the daemon nothing commute with its moves: a move before one
\* of them is left for the next moment that the scanner asks, or rests.
DaemonIsObserved ==
  \/ step \in {"down", "open", "idle", "pool"}
  \/ step = "blocks" /\ phase \in Asking \cup {"skip"}
  \/ step = "blocks" /\ phase = "fix" /\ next < CacheSize - 1 /\ ~Linked(next)

MoveDaemon ==
  /\ DaemonIsObserved
  /\ Daemon
  /\ ever' = ever \cup pool' \cup ChainTxs(chain')
  /\ lost' = IF /\ ~Extends(chain', chain)
                /\ phase \in {"init", "skip", "fix"} \/ TooDeep(chain')
             THEN lost \cup {"reorg"} ELSE lost
  /\ UNCHANGED <<earlier, split, missed, resumed>>

CallApi ==
  /\ Api
  /\ earlier' = [s \in Sub |-> IF s \in Tracked' \ Tracked THEN ever
                               ELSE IF s \in Tracked' THEN earlier[s] ELSE {}]
  /\ UNCHANGED <<ever, split, lost, missed, resumed>>

OpenScanner ==
  /\ Opening
  /\ resumed' = IF step = "down" THEN Tracked # {} ELSE resumed
  /\ lost' = IF step = "down" /\ Tracked = {} THEN {} ELSE lost
  /\ missed' = IF tphase' # tphase THEN pool ELSE missed
  /\ UNCHANGED <<earlier, ever, split>>

Scan ==
  /\ ScanStep
  /\ split' = IF tphase = "hashes" THEN ~On(chain, blocks[0], height) ELSE split
  /\ lost' = IF phase = "skip_ahead" /\ phase' = "skip" /\ Tracked # {}
             THEN lost \cup {"skip"} ELSE lost
  /\ missed' = missed \cap transactions'
  /\ UNCHANGED <<earlier, ever, resumed>>

\* The next push drops a block with a payment that an invoice does not show.
WindowPassed ==
  \E s \in Tracked : Misses(s, blocks[CacheSize - 1], height - CacheSize + 1)

\* The count of updated blocks is lost with the scan; only the first scan, which
\* covers the whole window, is repeated until it has been completed.
FailScan ==
  /\ Failure
  /\ lost' = IF \/ step \in {"prepare", "save"}
                \/ updated + fixed > 0 /\ (step = "blocks" \/ ~first_scan \/ WindowPassed)
             THEN lost \cup {IF step \in {"blocks", "pool"} THEN "rpc" ELSE "store"}
             ELSE lost
  /\ missed' = transactions' \cap
                 (missed \cup IF step \in {"scan_txpool", "only_txpool"} THEN tlocal ELSE {})
  /\ split' = TRUE
  /\ UNCHANGED <<earlier, ever, resumed>>

EndScanner ==
  /\ Stop \/ Crash
  /\ split' = FALSE /\ missed' = {}
  /\ UNCHANGED <<earlier, ever, lost, resumed>>

Next == MoveDaemon \/ CallApi \/ OpenScanner \/ Scan \/ FailScan \/ EndScanner

Spec == Init /\ [][Next]_<<vars, ghosts>>

\* Bounds of the runs.  Restarts can add the same transfers without end, and
\* nothing is claimed of what follows a loss until the store is empty again.
FewTransfers == \A s \in Tracked : Len(store[s].transfers) <= MaxTransfers
Bounded == lost = {} /\ FewTransfers
BoundedRpc == lost \subseteq {"rpc"} /\ FewTransfers
------------------------------------------------------------------------------
TypeOK ==
  /\ MonerodTypeOK /\ CacheTypeOK
  /\ transactions \subseteq Tx /\ tlocal \subseteq Tx /\ DOMAIN discovered \subseteq Tx
  /\ tphase \in {"down", "idle", "hashes", "txs", "done"}
  /\ Tracked \subseteq Sub
  /\ \A s \in Tracked : store[s] \in InvoiceType(Sub) /\ store[s].index = s
  /\ creating \subseteq InvoiceType(Sub) /\ queue \subseteq InvoiceType(Sub)
  /\ first_scan \in BOOLEAN
  /\ step \in {"down", "open", "idle", "blocks", "pool", "scan_blocks",
               "scan_txpool", "only_txpool", "prepare", "save"}
  /\ found \in Seq(FoundType(Sub))

\* Between two scans, with the newest cached block on the daemon's chain.
Settled == step = "idle" /\ ~first_scan /\ On(chain, blocks[0], height)

\* The invoices that the last scan has brought up to date.
Current == {s \in Tracked : store[s].current_height = height + 1
                            /\ store[s].creation_height > 0}

(***************************************************************************)
(* Every payment made to an invoice after its creation and mined at or     *)
(* above its creation height is among its transfers at the height it was   *)
(* mined, however far down the chain: no block is passed over by the       *)
(* scanner, across reorganisations, crashes, restarts and skips.           *)
(***************************************************************************)
NoPaymentLost ==
  Settled /\ lost = {} =>
    \A s \in Current :
      \A h \in store[s].creation_height .. height : ~Misses(s, BlockAt(h), h)

(***************************************************************************)
(* Unless the store was resumed, no transfer of an invoice is at a height  *)
(* where no such payment was mined, and none is there twice: transfers of  *)
(* abandoned blocks go, and blocks scanned again are not counted again.    *)
(***************************************************************************)
NoPhantomPayment ==
  Settled /\ lost = {} /\ ~resumed =>
    \A s \in Current : \A n \in DOMAIN store[s].transfers :
      LET tr == store[s].transfers[n]
      IN  tr.height # NoHeight =>
            /\ Count(s, tr.amount, tr.height) = 1
            /\ \E t \in TxsOf[BlockAt(tr.height)] :
                 Pays(t, s) /\ AmountTo(t, s) = tr.amount

(***************************************************************************)
(* A payment on its way from the pool into a block, or back, is not        *)
(* counted in both, if the newest cached block was on the daemon's chain   *)
(* when the pool was read.                                                 *)
(***************************************************************************)
CountedOnce ==
  Settled /\ lost = {} /\ ~resumed /\ ~split =>
    \A s \in Current : \A t \in Tx : Pays(t, s) =>
      Cardinality({n \in DOMAIN store[s].transfers :
                     store[s].transfers[n].amount = AmountTo(t, s)}) <= 1

(***************************************************************************)
(* A payment in the pool is shown by its invoice when a scan without an    *)
(* error has ended, though its transaction is looked at in one scan only   *)
(* (txpool_cache.rs:40), which may have failed or been before a            *)
(* reorganisation, and has to be remembered for the others (scanner.rs:336).*)
(***************************************************************************)
PoolPaymentShown ==
  step = "idle" /\ ~first_scan /\ lost = {} /\ ~split =>
    \A s \in Tracked : \A t \in transactions \ (earlier[s] \cup missed) :
      Pays(t, s) => Count(s, AmountTo(t, s), NoHeight) >= 1

(***************************************************************************)
(* An invoice that is shown as confirmed is covered by payments that the   *)
(* daemon's chain holds under as many blocks as it requires.               *)
(***************************************************************************)
MinedFor(s, top) ==
  TotalTo({t \in UNION {TxsOf[BlockAt(h)] : h \in 0 .. top} : Pays(t, s)}, s)

ConfirmedIsBacked ==
  Settled /\ lost = {} /\ ~resumed =>
    \A s \in Current :
      Confirmed(store[s]) /\ store[s].confirmations_required > 0 =>
        MinedFor(s, store[s].current_height - store[s].confirmations_required)
          >= store[s].amount_requested

(***************************************************************************)
(* An invoice that is shown as expired (invoice.rs:112) has not been paid  *)
(* in full by blocks between its creation and the newest cached one; in    *)
(* the pool it may have been.                                              *)
(***************************************************************************)
MinedSince(s) ==
  LET mined == UNION {TxsOf[BlockAt(h)] : h \in store[s].creation_height .. height}
  IN  TotalTo({t \in mined \ earlier[s] : Pays(t, s)}, s)

ExpiredIsUnpaid ==
  Settled /\ lost = {} =>
    \A s \in Current : Expired(store[s]) => MinedSince(s) < store[s].amount_requested
------------------------------------------------------------------------------
(***************************************************************************)
(* Statements of the documentation that the code does not keep.            *)
(*                                                                         *)
(* README.md: "Pending invoices can be stored persistently, enabling       *)
(* recovery from power loss."  amount_paid() of a recovered invoice is     *)
(* "the amount of monero paid": no more than was ever sent to it.          *)
(***************************************************************************)
PaidAsSent ==
  Settled /\ lost = {} /\ ~split =>
    \A s \in Current :
      store[s].amount_paid <= TotalTo(ever, s)

(***************************************************************************)
(* README.md: "RPC calls in the scanning thread are logged on failure and  *)
(* repeated next scan": where only requests have failed, the next scan     *)
(* that is completed has all payments.                                     *)
(***************************************************************************)
RpcFailuresRepeated ==
  Settled /\ lost \subseteq {"rpc"} =>
    \A s \in Current :
      \A h \in store[s].creation_height .. height : ~Misses(s, BlockAt(h), h)
==============================================================================
