------------------------------- MODULE Scanner -------------------------------
(***************************************************************************)
(* Scanner (src/scanner.rs) with its two caches, the invoice store and the *)
(* calls of the payment gateway that change the store from other threads.  *)
(* A scan is cut where another thread or the daemon can come between:      *)
(* every request, every lock of the store, every save.                     *)
(***************************************************************************)
EXTENDS BlockCache, TxpoolCache, Invoice

CONSTANTS
  Sub,           \* subaddress indices
  Outs,          \* Outs[t]: the wallet's outputs of t, records [sub, amount]
  TimeLocked,    \* the transactions with an unlock time
  Requested,     \* amount, confirmations and lifetime every invoice asks for
  ConfirmationsRequired,
  ExpirationIn

ASSUME ScannerAssumption ==
  /\ IsFiniteSet(Tx)                       \* their hashes have 32 bytes
  /\ \A c \in Chains : Len(c) <= MaxU64    \* heights have 64 bits
  /\ Outs \in [Tx -> Seq([sub : Sub, amount : Nat])]
  /\ TimeLocked \subseteq Tx
  /\ {Requested, ConfirmationsRequired, ExpirationIn} \subseteq Nat

VARIABLES
  store,         \* the invoice store: from subaddress indices to invoices
  creating,      \* new_invoice() between its load of the height and its insert
  first_scan,
  step,          \* where the scanning thread is
  found,         \* `transfers` of the running scan, records [sub, amount, height]
  queue          \* `updated_invoices` still to be saved

scanner == <<first_scan, step, found, queue>>
vars == <<monerod, cache, txpool, store, creating, scanner>>

EmptyStore == [s \in {} |-> <<>>]
NoOne == {}
Tracked == DOMAIN store

ScannerInit ==
  /\ MonerodInit /\ CacheInit /\ TxpoolInit
  /\ store = EmptyStore /\ creating = NoOne
  /\ first_scan = FALSE /\ step = "down" /\ found = <<>> /\ queue = {}
------------------------------------------------------------------------------
(***************************************************************************)
(* scan_transactions(): every output to a tracked subaddress is credited   *)
(* with the amount of the first output that the wallet owns.               *)
(***************************************************************************)
Credits(t, h) ==
  LET wanted == {o \in ToSet(Outs[t]) : t \notin TimeLocked /\ o.sub \in Tracked}
      outs == Only(Outs[t], wanted)
  IN  [n \in DOMAIN outs |->
         [sub |-> outs[n].sub, amount |-> Outs[t][1].amount, height |-> h]]

\* What a hash map holds, joined in the order of its keys, which is arbitrary.
Joined(f) == LET keys == SetToSeq(DOMAIN f) IN FlattenSeq([n \in DOMAIN keys |-> f[keys[n]]])

CreditsOf(txs, h) == Joined([t \in txs |-> Credits(t, h)])

\* scan_blocks(): n cells from the oldest to the newest.
BlockCredits(n) ==
  FlattenSeq([k \in 1 .. n |-> CreditsOf(TxsOf[blocks[n - k]], height - (n - k))])
------------------------------------------------------------------------------
(***************************************************************************)
(* PaymentGateway::new_invoice: the creation height is loaded first, the   *)
(* invoice inserted later.  The subaddress cache hands out a subaddress    *)
(* that no stored invoice uses.                                            *)
(***************************************************************************)
NewInvoice(s) ==
  /\ creating = NoOne /\ s \notin Tracked
  /\ creating' = {NewInvoiceRecord(s, daemon_height, Requested,
                                   ConfirmationsRequired, ExpirationIn)}
  /\ UNCHANGED <<monerod, cache, txpool, store, scanner>>

InsertInvoice ==
  \E inv \in creating :
    /\ store' = [s \in Tracked \cup {inv.index} |->
                   IF s = inv.index THEN inv ELSE store[s]]
    /\ creating' = NoOne
    /\ UNCHANGED <<monerod, cache, txpool, scanner>>

RemoveInvoice(s) ==
  /\ s \in Tracked
  /\ store' = RestrictTo(store, Sub \ {s})
  /\ UNCHANGED <<monerod, cache, txpool, creating, scanner>>
------------------------------------------------------------------------------
\* Mutant: the furthest invoice instead of the one that lags.
HighestHeight ==
  LET heights == {store[s].current_height : s \in Tracked}
  IN  CHOOSE h \in heights : \A k \in heights : h >= k

LowestHeight ==
  LET heights == {store[s].current_height : s \in Tracked}
  IN  CHOOSE h \in heights : \A k \in heights : h <= k

\* Scanner::new, up to the two caches' init(): resume where the store was left,
\* or begin at the daemon's tip.
Start ==
  /\ step = "down"
  /\ Open(IF Tracked = {} THEN Len(chain) - 1 ELSE Dec(LowestHeight), Len(chain))
  /\ step' = "open" /\ first_scan' = TRUE
  /\ UNCHANGED <<monerod, txpool, store, creating, found, queue>>

OpenPool ==
  /\ step = "open" /\ PoolOpen
  /\ UNCHANGED <<monerod, cache, store, creating, scanner>>

FillCache ==
  /\ step = "open" /\ InitFetch
  /\ UNCHANGED <<monerod, txpool, store, creating, scanner>>

Opened ==
  /\ step = "open" /\ phase = "idle" /\ tphase = "idle"
  /\ step' = "idle"
  /\ UNCHANGED <<monerod, cache, txpool, store, creating, first_scan, found, queue>>

\* Nothing of the scanner survives but what the gateway and the store hold.
Discard ==
  /\ phase' = "down" /\ blocks' = [i \in Cells |-> NoBlock]
  /\ tip' = 0 /\ next' = 0 /\ updated' = 0 /\ fixed' = 0
  /\ transactions' = {} /\ discovered' = EmptyMap /\ tphase' = "down" /\ tlocal' = {}
  /\ first_scan' = FALSE /\ step' = "down" /\ found' = <<>> /\ queue' = {}
  /\ UNCHANGED <<monerod, store>>

\* A request of one of the two init() fails: run() returns the error.
OpenFail ==
  /\ step = "open"
  /\ phase = "init" \/ tphase = "down"
  /\ Discard
  /\ UNCHANGED <<height, daemon_height, creating>>
------------------------------------------------------------------------------
\* update_caches(): the block cache first ...
BeginScan ==
  /\ step = "idle"
  /\ Call(IF Tracked = {} THEN "skip_ahead" ELSE "update")
  /\ step' = "blocks"
  /\ UNCHANGED <<monerod, txpool, store, creating, first_scan, found, queue>>

RunCache ==
  /\ step = "blocks" /\ CacheStep
  /\ UNCHANGED <<monerod, txpool, store, creating, scanner>>

\* ... then the txpool cache.
BeginPool ==
  /\ step = "blocks" /\ phase = "done"
  /\ PoolCall
  /\ step' = "pool"
  /\ UNCHANGED <<monerod, cache, store, creating, first_scan, found, queue>>

RunPool ==
  /\ step = "pool" /\ PoolStep
  /\ step' = IF tphase' = "done" THEN "scan_blocks" ELSE "pool"
  /\ UNCHANGED <<monerod, cache, store, creating, first_scan, found, queue>>

\* An error of either cache ends the scan; the other cache keeps its changes.
CachesFail ==
  /\ \/ step = "blocks" /\ RpcFail /\ UNCHANGED txpool
     \/ step = "pool" /\ PoolFail /\ Dispose
  /\ step' = "idle"
  /\ UNCHANGED <<monerod, store, creating, first_scan, found, queue>>

ScanBlocks ==
  /\ step = "scan_blocks"
  /\ found' = BlockCredits(IF first_scan THEN CacheSize ELSE updated)
  /\ step' = "scan_txpool"
  /\ UNCHANGED <<monerod, cache, txpool, store, creating, first_scan, queue>>

\* The store fails under scan_blocks(); scan_txpool() is joined with it and runs
\* all the same.
ScanBlocksFail ==
  /\ step = "scan_blocks"
  /\ step' = "only_txpool"
  /\ UNCHANGED <<monerod, cache, txpool, store, creating, first_scan, found, queue>>

\* What was found before is not looked for again; new finds are kept.
ScanTxpool ==
  /\ step \in {"scan_txpool", "only_txpool"}
  /\ LET paying == {t \in tlocal : Credits(t, NoHeight) # <<>>}
         new == [t \in paying |-> Credits(t, NoHeight)]
         all == Joined(ExtendedBy(new, discovered))
     IN  /\ InsertTransfers(new)
         /\ IF step = "scan_txpool"
            THEN /\ step' = "prepare" /\ first_scan' = FALSE /\ found' = found \o all
                 /\ UNCHANGED cache
            ELSE step' = "idle" /\ Dispose /\ UNCHANGED <<first_scan, found>>
  /\ tlocal' = {} /\ tphase' = "idle"
  /\ UNCHANGED <<monerod, transactions, store, creating, queue>>

DeepestUpdateOffByOne == height - updated        \* mutant
DeepestUpdate == height - updated + 1

\* All invoices are read, and their updates computed, under one read lock.
Prepare ==
  /\ step = "prepare"
  /\ LET new == [s \in Tracked |-> Updated(store[s], found, DeepestUpdate, height)]
     IN  queue' = {new[s] : s \in {r \in Tracked : new[r] # store[r]}}
  /\ step' = "save" /\ found' = <<>>
  /\ Dispose
  /\ UNCHANGED <<monerod, txpool, store, creating, first_scan>>

\* One update is saved, in the order of the store's iterator; an invoice removed
\* in the meantime stays removed.
Save ==
  /\ step = "save"
  /\ \E inv \in queue :
       /\ LET s == inv.index
              known == s \in Tracked /\ store[s].creation_height = inv.creation_height
          IN  store' = IF known THEN [store EXCEPT ![s] = inv] ELSE store
       /\ queue' = queue \ {inv}
  /\ UNCHANGED <<monerod, cache, txpool, creating, first_scan, step, found>>

Flush ==
  /\ step = "save" /\ queue = {}
  /\ step' = "idle"
  /\ UNCHANGED <<monerod, cache, txpool, store, creating, first_scan, found, queue>>

\* The store fails: under scan_txpool() (first_scan is kept) or when the invoices
\* are to be read, and the scan ends.
StoreFail ==
  /\ step \in {"scan_txpool", "only_txpool", "prepare"}
  /\ step' = "idle" /\ found' = <<>> /\ tlocal' = {} /\ tphase' = "idle"
  /\ Dispose
  /\ UNCHANGED <<monerod, transactions, discovered, store, creating,
                 first_scan, queue>>

\* One save fails; the others go on.  An invoice that the iterator could not
\* decode is left out of the queue, which comes to the same.
SaveFail ==
  /\ step = "save"
  /\ \E inv \in queue : queue' = queue \ {inv}
  /\ UNCHANGED <<monerod, cache, txpool, store, creating, first_scan, step, found>>

\* stop(): the scanning thread ends between two scans.
Stop ==
  /\ step = "idle"
  /\ Discard
  /\ UNCHANGED <<height, daemon_height, creating>>

\* The process dies, and with it a new_invoice() that has not inserted yet.
Crash ==
  /\ Discard
  /\ height' = 0 /\ daemon_height' = 0 /\ creating' = NoOne
------------------------------------------------------------------------------
Daemon ==
  /\ MonerodNext
  /\ UNCHANGED <<cache, txpool, store, creating, scanner>>

ScanStep ==
  \/ BeginScan \/ RunCache \/ BeginPool \/ RunPool
  \/ ScanBlocks \/ ScanTxpool \/ Prepare \/ Save \/ Flush

Failure == CachesFail \/ ScanBlocksFail \/ StoreFail \/ SaveFail \/ OpenFail

Api == InsertInvoice \/ \E s \in Sub : NewInvoice(s) \/ RemoveInvoice(s)

Opening == Start \/ OpenPool \/ FillCache \/ Opened
==============================================================================
