# TLA+ models of AcceptXMR

AcceptXMR (`src/src/`, crate version in `src/Cargo.toml`) watches the Monero
chain with a view key and tells an application which of its invoices were paid.
This directory holds TLA+ models of that program, TLC configurations that check
them on small instances, and TLAPS proofs.

- [The system](#the-system)
- [The modules](#the-modules)
- [The runs](#the-runs)
- [What the code does that its documentation does not say](#findings)
- [The proofs](#the-proofs)
- [What is not modelled](#what-is-not-modelled)
- [The plan](#the-plan)

Run things from this directory:

    tlc -workers 2 -config MCCacheAudit.cfg  MCCacheAudit
    tlc -workers 2 -config MCScanner.cfg     MCScanner
    tlc -workers 2 -config MCTwoInvoices.cfg MCTwoInvoices
    tlc -workers 2 -config MCPublisher.cfg   PublisherAudit
    tlc -workers 2 -config MCGatewayPublisher.cfg MCGatewayPublisher
    tlc -workers 2 -config MCTracking.cfg    MCTracking
    tlc -workers 2 -config MCRpc.cfg         RpcAudit
    tlapm CacheAuditProofs.tla        tlapm InvoiceProofs.tla
    tlapm GatewayProofs.tla           tlapm ScannerProofs.tla
    tlapm PublisherProofs.tla         tlapm PaymentProofs.tla
    tlapm RpcProofs.tla               tlapm TrackingProofs.tla

`PROJECT.json` lists the runs, the source lines every definition stands for
(`map`), the hazards of the code and the properties aimed at them, and a mutant
for each property: a changed definition, named after the mistake, that makes
the property fail. The mutants stand in the modules beside the definition they
change and are marked `mutant`.

## The system

| component | source | state | operations | correct when |
|---|---|---|---|---|
| daemon (external) and RPC client | `rpc/mod.rs` | none but the connection and the login nonce | `get_block_count`, `get_block`, `get_transactions`, txpool hashes and contents; every exchange timed up to the head of the response | an answer is what the daemon held at that moment, or an error |
| digest login | `rpc/authentication.rs` | last challenge, counter, one mutex for both | answer a challenge, number the requests | the counter never repeats for a nonce; a call answers its own challenge |
| `BlockCache` | `caching/block_cache.rs` | window of the newest blocks; its height and the daemon's, both shared with the gateway | `init`, `update` (one block a call), `skip_ahead` (to the tip), `check_and_fix_reorg` | the window is a piece of the chain; the count it returns covers all that changed; it catches up |
| `TxpoolCache` | `caching/txpool_cache.rs` | pool transactions already fetched; transfers found in them | `init`, `update`, `insert_transfers`, `discovered_transfers` | no transfer of a transaction that has left the pool |
| `Invoice`, `Transfer` | `invoice.rs` | amounts, heights, transfers | the recomputation at the end of a scan; `is_confirmed`, `is_expired`, equality | paid and confirmed follow from the transfers |
| `Scanner` | `scanner.rs` | the two caches, `first_scan` | `new` (where to resume), `scan`: `update_caches`, `scan_blocks` joined with `scan_txpool`, the update of every invoice, the saves | every payment on the chain is credited once, at its height |
| `PaymentGateway` | `payment_gateway.rs` | handle and command channel of the scanning thread, shared heights, subaddresses | `run`, `status`, `stop`, `new_invoice`, `remove_invoice`, `subscribe`, `subscribe_all`, reads | one scanner at a time; a call returns; no invoice is created behind the scanner |
| `Publisher`, `Subscriber` | `pubsub.rs` | senders per invoice and global ones; a bounded buffer each | `subscribe`, `insert_invoice`, `remove_invoice`, `send_updates` | every open subscriber gets every update, in order |
| `InvoiceStorage` | `storage/` | the invoices, in memory, in sled or in sqlite | `insert`, `remove`, `update`, `get`, `contains_sub_index`, `try_iter`, `lowest_height`, `flush` | the three stores do the same |
| `SubaddressCache` | `caching/subaddress_cache.rs` | subaddresses that are free, highest index generated | `init` from the store, `remove_random`, `insert`, `extend_by` | no subaddress is in two open invoices |
| errors, examples | `lib.rs`, `src/examples/` | none | | |

How they interact. The gateway is called from the application's threads. `run()`
builds a `Scanner` and moves it into a scanning thread, which scans once per
`scan_interval` until it finds a stop message. A scan asks the daemon, block
cache first, txpool cache next; looks for outputs to the subaddresses that the
store tracks, in as many cells of the window as `update()` reports and in the
new pool transactions; computes all invoices anew under one read of the store;
and saves the changed ones one by one, sending each to its subscribers. Threads
share the store (behind a lock, taken call by call), the two heights (relaxed
atomics), the publisher, and the subaddress cache.

What is hard here, by kind (each at its line under `hazards` in `PROJECT.json`):

- *the daemon moves between any two requests*: a chain switched in the middle of
  a repair of the window, a transaction that is mined between the block request
  and the pool request, or that a reorganisation returns to the pool;
- *a count that has to be right*: `updated` decides which cells are scanned and
  which old transfers are dropped; it passes through two procedures, a maximum
  and an off-by-one (`height - updated + 1`);
- *a step that fails after another has taken effect*: the window has moved but
  the pool request, the store or the scan failed;
- *crash and restart*: between two saves, or between the load of a height and
  the insert of an invoice that uses it; where to resume;
- *the calls of other threads*: an invoice is removed, and its subaddress is
  used again, between the computation of an update and its save;
- *queues and handles*: a full subscriber buffer, a stop message nobody reads,
  two calls of `run()`, a caller that holds a subscriber and waits for the thread
  that waits for it;
- *state that calls share outside a lock*: the counter of the digest login, which
  another call's challenge resets; the highest subaddress index, which decides
  the size of the key checker; the transaction of the sqlite connection.

## The modules

    Monerod  <--- BlockCache  <--- CacheAudit <--- CacheAuditProofs
       ^              ^                 ^--------- MCCacheAudit
       |              |
       +- TxpoolCache |      Invoice <--------------- InvoiceProofs
              ^-------+---------^                           ^
                   Scanner <--- ScannerAudit <--- ScannerProofs <--- PaymentProofs
                                     ^----------- MCScanner, MCTwoInvoices

    Tables <--+-- Stores -----------+
              +-- SubaddressCache --+-- Tracking <--- TrackingAudit <--- TrackingProofs
              +-- InvoiceStorage <~~~~~~~~~~~~~~~~~~~~~~~~~~+  ^-------- MCTracking

    RpcClient <--- RpcAudit <--- RpcProofs

    Gateway                           Publisher <--- PublisherAudit <--- PublisherProofs
       ^                                  ~
       +----- GatewayPublisher ~~~~~~~~~~~+
                 ^    +--- GatewayProofs
                 +-------- MCGatewayPublisher

A line is an EXTENDS, a wavy one an INSTANCE. The modules on the left hold the code only; the *Audit*
modules add the ghost variables, the composed next-state relation and the
properties.

**Monerod** is the daemon: the chain it follows and the wallet's transactions
in its pool. It is external code, modelled by what `rpc/mod.rs` asks of it. The
chains are a constant set; `Adopt` switches to any of them at any time, which is
growth, a reorganisation of any depth, or a shrinking chain; popped transactions
go back to the pool. `Broadcast` and `Drop` move the pool. The constants are
constrained by `MonerodAssumption`: blocks are linked by their parents and a
block has one height.

**BlockCache** is `block_cache.rs`. The variable `phase` says which procedure
runs and where it waits. Every request is an action (`InitFetch`, `UpdateTip`,
`UpdateFetch`, `SkipTip`, `SkipFetch`, `Repair`), so the daemon can move before
it. `Check` is a cell that fits, `Return` the maximum of both counts, `RpcFail`
the `?` on any request: what was written stays, the count is lost. A block
determines its header and its transactions, so a cell holds just the block.

**TxpoolCache** is `txpool_cache.rs`. The two requests of `update()` are
`PoolHashes` and `PoolTxs`; the retain of both maps runs while the second is
out, hence belongs to the first action and takes effect even when the second
fails.

**Invoice** has no state: `Updated` is the body of the loop over the stored
invoices (`scanner.rs:120-198`) and the functions of `invoice.rs` that it calls,
with the comparison of transfers that puts the pool after every height and
u64 subtraction that wraps (`Dec`, to the constant `MaxU64`).

**Scanner** joins the two caches with the scan, the store (a function from
subaddress to invoice), and the calls of the gateway. `step` is where the
scanning thread is. It is cut at each request, at each lock of the store and at
each save. Crediting is by output, as the code does it (`Credits`): every output
that is wanted takes the amount of the first output of its transaction.
`Crash` is the end of the process, `Stop` the end of the scanning thread alone;
the store survives both. The store is the abstract one here, and no crash
undoes a write; Tracking has the three real ones, and crashes that do.

**Publisher** is `pubsub.rs`: the two maps of senders (one function, with the key
`Global`), the walk of `send_updates` by index, cut at `get_sender_by_index`, at
the send and at `remove_sender`, and what the application's threads do meanwhile.
A sender and its receiver are one value; of the channel there is its fill, 0 to
`BufferLen`. `IndexMap::remove` moves the last sender into the gap (indexmap 1).

**Gateway** is the life of the scanning thread in `payment_gateway.rs`: `run`, `status`
and `stop` called from several threads, the mutex around the handle, the command
channel, and the loop of the scanning thread with the scan as one step of
unknown length. The guard that a `match` on `lock()` creates lives to the end of
the match, so `stop` holds the mutex while it joins the thread, and `status`
holds it when it locks it again; `run` holds it only to look at the handle, and
again to store the new one. A scanning thread may end by itself at any time
(`Panic`: a panic, or `Runtime::new` fails) and is then `"died"`, told apart from one
that has read a message.

**GatewayPublisher** puts the two together: the scan of the scanning thread,
one step in Gateway, is here a request to the daemon (one for all of a scan's), with
the timed head of its response and the untimed body, then a set of updates and one walk of
`send_updates` for each, so it ends only when its walks do. Its variables are those of one
scan: it is meant for instances in which one scanner lives at most. A subscriber may be held by a thread that
calls the gateway (`Reader`), and is then not emptied while that thread waits in
`stop`, `run` or `status`. `P` is an instance of Publisher with the same
variables; every action is one of Gateway's, one of Publisher's, or both.

**Tables** has the identifiers of invoices and their order, and the two changes
of a table. **InvoiceStorage** is abstract: what the trait in `storage/mod.rs`
promises. Operations are whole; a loss of power leaves some table that was there
since the last flush; after a write, a flush is no stutter; an operation that returns
an error was done whole, or not at all.

**Stores** is the three stores. `table` is what a call sees, `disk` the set of
tables that the process may find when it is started again. `InMemory` keeps
nothing. `Sled` adds every write to `disk` and `flush` leaves only the newest.
`Sqlite` commits every statement, except that `update` may return between `BEGIN`
and `COMMIT`: `in_txn` is the transaction that this leaves open on the
connection. A call may fail before it has changed anything or after (`RemoveFails`,
`UpdateFails`). Calls are atomic, since `Store` has a lock around each.

**SubaddressCache** is `subaddress_cache.rs`: `init` from a table, `remove_random`
with `extend_by`, `insert`. `MaxMinor` is `u32::MAX`, at which `extend_by`
stops.

**Tracking** is `new_invoice` and `remove_invoice`, called from several threads
and cut at every lock they take (the subaddress cache, the height, the store, the
publisher), over Stores and SubaddressCache; and the side of the scanning thread
that meets them: the key checker, which is made anew when the highest index has
outgrown it, the reading of all invoices, the saves one by one, the flush. A
crash comes anywhere and is followed by `build()` on what the disk holds. What a
scan finds is left to Scanner; here an invoice has just its terms, and whether
it was scanned. **TrackingAudit** remembers what was lost with failed inserts and
removals, what a restart recovered, whether the store was written to since the last
flush, and which invoices took an identifier whose removal was not finished, and instantiates InvoiceStorage with `table` and `disk`
(`Promise`).

**RpcClient** is `rpc/mod.rs` and `rpc/authentication.rs`: calls that run side by
side (`Scanner::new` joins the two caches' requests), each a loop over batches of hashes, each batch one
or two timed exchanges and a body; and what they share, the last challenge and
the counter. `Challenge` is a response 401: the daemon makes a new nonce and
offers any set of algorithms. **RpcAudit** counts the headers made under each nonce and the
hashes that were asked for.

**PublisherAudit** numbers the updates and keeps what was published to each list
(`log`) and what each subscriber was given (`given`).

**CacheAudit** adds what a caller would have scanned (`seen`) if it did exactly
what the cache tells it, and two flags that say when the daemon left its chain
in the middle of a call (`forked`), and when a change may have gone unreported
(`torn`).

**ScannerAudit** adds what is needed to say what an invoice *should* show:
transactions older than an invoice (`earlier`), all that were ever sent
(`ever`), pool transactions that the cache has taken but no scan has looked at
(`missed`: those that `init` found, and those of a scan in which the store
failed), whether the last scan failed or read the pool on another chain than
the block cache's top (`split`), whether the store was resumed (`resumed`), and
the reasons for which blocks may have gone unscanned (`lost`):

- `"reorg"`: the daemon left its chain in the middle of `init`, `skip_ahead` or
  `check_and_fix_reorg`, or by more blocks than the window can repair (`TooDeep`). A
  window of n blocks repairs a reorganisation of n - 1, since its lowest block has no
  neighbour below to compare with (`block_cache.rs:142`). That is the scanner's window,
  or the one that a scanner resumes with after a crash, which lies where the invoice
  that was saved last had been brought to;
- `"rpc"`, `"store"`: a request or a store call failed after the window had
  moved, and the count of the blocks was lost with the error. A request that fails in
  the first scan does no harm, since the first scan is of the whole window and is made
  again; unless the window has slid on, and the next block pushes out one with a payment
  that was not looked at (`WindowPassed`). A store that fails after `first_scan` was
  cleared always counts;
- `"skip"`: an invoice was inserted between the test that there is none and
  the answer to `skip_ahead`.

These are not assumptions that such things do not happen: they all happen in the
runs. They delimit what the code can promise; two of the findings below are
about states behind them. `lost` is emptied when a scanner starts on an empty
store.

## The runs

| run | module | checks | states |
|---|---|---|---|
| `cache` | MCCacheAudit | `TypeOK`, `WindowOnChain`, `ReportExact`, `HeightMonotone`, `CatchesUp` | 0.36 million |
| `scanner` | MCScanner | `TypeOK`, `NoPaymentLost`, `NoPhantomPayment`, `CountedOnce`, `ConfirmedIsBacked`, `ExpiredIsUnpaid`, `PoolPaymentShown` | 4.4 million |
| `two_invoices` | MCTwoInvoices | `NoPaymentLost`, `NoPhantomPayment` | 2.5 million |
| `publisher` | PublisherAudit | `TypeOK`, `EveryUpdate`, `WalkEnds` | 1.6 million |
| `gateway` | MCGatewayPublisher | `TypeOK`, `AtMostOneScanner`, `NoStrayStops`, `StopWaits` | 0.57 million |
| `calls` | MCTracking | `TypeOK`, `OneInvoicePerSubaddress`, `NoIndexLeaks`, `NeverRunsDry`, `Subscribable`, `CheckerCovers`, `StorePromise`, `FlushKeeps` | 1.5 million |
| `rpc_client` | RpcAudit | `TypeOK`, `AnswersOwnChallenge`, `EveryHashAskedOnce`, `CountsAreNew`, `CallsEnd` | 0.39 million |
| `restart`, `rpc_failure`, `closed_flag`, `status`, `sqlite` | | one statement of the documentation each, violated; see [below](#findings) | |

**cache.** Three branches over thirteen blocks, a window of three. Branch B forks
at height 2 and outgrows the window, so a reorganisation deeper than the window
occurs; branch C forks at height 4, so a shallow one does too, and one can follow
the other in the middle of a repair. The chain may shrink to three blocks, below
the cache's height. The cache may open anywhere from genesis to one above the
tip, alternates freely between `update` and `skip_ahead`, fails at any request
and crashes at any time. The run shows that a repaired window is on the daemon's
chain when its top is (`WindowOnChain`); that scanning the reported number of
cells is enough, over any number of calls (`ReportExact`); that the published
height never moves back (`HeightMonotone`); that the cache catches up
(`CatchesUp`).

**scanner.** One subaddress, two payments of 1 and 2 to an invoice for 2, a
window of three. The branches A and B fork at height 3, which is the deepest
fork that a window of three repairs when its top is at height 4, and hold the
payments in opposite order, so a reorganisation moves each to another height;
on the short chains they return to the pool. The invoice may be made, removed
and made again at any moment. Requests, saves and the store may fail, the
scanner may stop and the process crash anywhere. The run shows that no payment
is passed over (`NoPaymentLost`), none is invented or kept from an abandoned
block (`NoPhantomPayment`), none is counted in the pool and in a block
(`CountedOnce`), and a confirmed invoice has its confirmations on the daemon's
chain (`ConfirmedIsBacked`). An expired invoice is one that was not paid in a
block in time (`ExpiredIsUnpaid`), and a payment that waits in the pool is shown
after every scan, although its transaction is looked at once only
(`PoolPaymentShown`).

**two_invoices.** Two invoices paid by one transaction, so a crash between the
two saves leaves the store half updated, and a window of one block, so that the
height to resume from must be exact: with a wider window the first scan would
cover a mistake. The chain may be replaced down to the genesis block, while the
scanner runs, while it is down, and between the two saves. The same first two properties.

**publisher.** One invoice and the global list, three subscribers that join either
and are dropped at any moment, a list that is removed and replaced under the walk,
two updates, buffers of one. The run shows that a sender that is still listed
has been given every update since it subscribed, in order and once
(`EveryUpdate`), although removals move senders to other places in the middle of
a walk by index; and that a walk ends if full buffers are emptied or dropped at
some time (`WalkEnds`).

**gateway.** Two callers, of which one calls `run`, and two scanning threads whose
scans ask the daemon and send one invoice's updates to two subscribers; one subscriber
is in the hands of the caller that does not run, the other has a thread of its own. The
run shows that there is never more than one scanner (`AtMostOneScanner`); that the Stop
messages which `stop` sends to a thread that has finished meanwhile do not pile up
(`NoStrayStops`): whatever is in the channel beyond the message that a `stop` waits to
see read is no more than one for each thread that died, although such a message ends
the next `run` at once; and that a `stop` returns (`StopWaits`), with two exceptions,
of which each really happens, that is, the property fails without it:

- the scanning thread waits for good for a subscriber whose holder is itself inside a
  call of the gateway. It may be the caller of that `stop`, or another caller that
  waits for the mutex which `stop` holds over the join;
- the scanning thread waits for good for the body of a response, which the timeout of
  the request does not cover (`rpc/mod.rs:277`).

Otherwise the message of `stop` is read by the scanner it waits for, or that scanner has
ended by itself. With two threads that call `run` `AtMostOneScanner` fails: both
find no handle (the hazard at `payment_gateway.rs:144`). No document says from how many
threads `run` may be called; `Runner` is a constant of its own for that reason, and
`NoStrayStops` is proved for any number of them.

**calls.** Two callers, three subaddresses of which two exist at first, each of the
three stores, disk errors at any write, one crash with a restart, the daemon at one
of two heights. In every overlap of the calls, the scans and the crash: no two
stored invoices share a subaddress (`OneInvoicePerSubaddress`); every index is
accounted for (`NoIndexLeaks`), and subaddresses run out only when the indices do
(`NeverRunsDry`); a new invoice can be subscribed to although its
predecessor's subscriptions may be killed late (`Subscribable`); what is stored
is in the range of the scan's key checker (`CheckerCovers`, for the account 1 which the
first checker is made for); the stores implement InvoiceStorage (`StorePromise`), which
binds their flush as well, and a scan that ended well is on the disk (`FlushKeeps`).
Both except a scan that ends behind sqlite's stray transaction, which the scanning
thread's `update` of a removed invoice opens: its flush flushes nothing, and a crash
undoes more than the last scan (finding 5). `NoIndexLeaks` excepts the indices that go
with an insert that failed, or with a removal that returned an error after the invoice
was gone; they come back with the next start.

**rpc_client.** Two calls of up to five hashes in batches of two, with and without a
login, two challenges. A challenge to one call resets the counter while headers of
the other are under way. The counts under a nonce are 1, 2, 3, ... (`CountsAreNew`); the
second exchange answers the call's own challenge (`AnswersOwnChallenge`); each
hash is asked for once, whatever the length is to the batch (`EveryHashAskedOnce`);
a call ends, or waits for ever for a body whose head has arrived (`CallsEnd`). The
exception is real; see the first of the smaller things below the findings.

**Bounds.** All are constants of the .cfg files or named constraints:

- the tree of chains bounds heights and reorganisations. The code compares
  heights only with each other, with the window and with the creation height;
  a chain that is two or three blocks longer than the window passes through
  every such case: below, at the edge of and beyond the window, repair of
  none, one and two cells, `skip_ahead` by less and by more than the window;
- `CacheSize` 3 (the code: 10) is the least with a cell that has neighbours on
  both sides; 1 is the degenerate window in which nothing is repaired;
- `MaxTransfers`: restarts add the same transfers again and again (a
  finding), so the number of transfers is cut by the constraint `FewTransfers`;
  two are all there can be without that;
- `Bounded` also stops at states in which `lost` is not empty: the properties
  claim nothing there. `BoundedRpc` lets failed requests through;
- `MaxUpdates`, the number of subscribers and `BufferLen` (the code: 2048): a walk by
  index needs three senders for a removal before, at and behind a place; a buffer
  of one is full after one update;
- `Thread` bounds the successful calls of `run`; the second finds what the first
  left behind: a finished handle, a message that nobody has read. Two callers
  are one that stops and one that runs, or reads. Safety is proved for all
  numbers;
- `MaxInvoices` 2, `MaxMinor` 2, `MinAvailable` 2 (the code: 2^32 - 1 and 100): one
  extension, which is cut off by the last index, and two invoices on one
  subaddress, one after the other. `Heights` {1, 2}: identifiers that agree
  and that do not. `MaxLives` 1: a life before the crash and one behind it; a
  second crash meets nothing but the table the first may leave. The constraint
  `Small` cuts off more than two unflushed writes, or one and a lost index; the second
  height before the first `new_invoice` or beside a lost index; a stop of the scanning thread after the second `new_invoice`, until the restart,
  behind which the thread is down beside two invoices; and, after the restart, the second height, a
  second unflushed write and a lost index. The theorems are not so bounded;
- `Lengths` 0 to 5 with `MaxRequested` 2 (the code: 100): none, one short of a batch, a batch,
  one more, two batches, one more. `MaxNonces` 2 is one challenge while an older
  one is in use, `MaxCount` 2 lets a count follow a reset and a reset a count;
- `MaxU64 = 99` stands for 2^64 - 1: no height of the instance comes near it, and the proofs
  assume of a chain only that it is no longer (`ScannerAssumption`);
- `DaemonIsObserved` in ScannerAudit lets the daemon move only where the
  scanning thread is about to ask, or rests. The other steps of the thread
  neither read nor write the daemon's state, so a move before one of them can
  as well come after it. CacheAudit has no such restriction.

Symmetry is used in `calls` and `sqlite` only, of their two callers, none of whose properties is a liveness
property. Elsewhere blocks, payments and threads are told apart by their place.

`CHECK_DEADLOCK FALSE` is set everywhere because the scanner may be stopped, or
the daemon unreachable, for good.

**Fairness.** Only weak fairness of threads that can take a step. For `CatchesUp`: the
loop in `payment_gateway.rs:156-186` calls the scan again whatever the last one
returned. That every request ends is a hypothesis about the daemon: up to the
head of a response the client's timeout sees to it (`rpc/mod.rs:252`), the body behind it is not
timed (`rpc/mod.rs:277`). Nothing else is assumed of the daemon, and nothing of starts or of
crashes. `CatchesUp` has the rest of its hypothesis in the formula: the chain is settled and
requests have stopped failing. For `WalkEnds` the walk goes on whenever it can, and that
subscribers receive is the hypothesis `Attentive` of the property. For
`StopWaits` the calls and the steps of a scan go on and the timer goes off; no answer and no
body is assumed to come (`Asked` has no fairness), and the hypothesis
`Attentive` there says that a subscriber is emptied whose holder is free to do it. No
mutex is assumed to be fair. For `CallsEnd` the executor runs what is ready and the
timer goes off; neither heads nor bodies are assumed to arrive.

## Findings

Five statements of the documentation that the code does not keep; each has a run
in which TLC finds the counterexample.

1. **A restart credits payments twice** (`restart`, `scanner.rs:257`). The first
   scan covers the whole window, but old transfers are dropped only from the
   height given by `blocks_updated` (`scanner.rs:130`). After a restart, transfers
   of a stored invoice below that height are added again, and the
   invoice may be confirmed on half the money. README.md:19 promises "recovery
   from power loss".
2. **A failed txpool request loses a block** (`rpc_failure`, `scanner.rs:242`).
   The block cache has moved on, its count is dropped with the error, and the
   next scan does not look at that block. README.md:41 says RPC calls are
   "repeated next scan".
3. **One dropped subscriber takes the next ones with it** (`closed_flag`,
   `pubsub.rs:156`). `closed` is not reset after a sender was removed, so every
   sender behind it in the list gets this one update and is removed as well.
4. **`status()` does not return when the scanner has died** (`status`,
   `payment_gateway.rs:205`). It locks the handle's mutex while it holds it. (std
   leaves open whether that deadlocks or panics; the model deadlocks, as the mutex
   of Linux does.)
5. **A removed invoice leaves sqlite in a transaction** (`sqlite`,
   `sqlite.rs:132`). `update` begins a transaction and returns before `COMMIT` and
   `ROLLBACK` when the invoice is not there, which is what a scan meets when
   `remove_invoice` comes between its reading and its save. From then on `BEGIN`
   fails, so no update is saved, and what is inserted is not on the disk, even
   after `flush`. storage/mod.rs:44 says that such an update "does nothing".

Smaller things met while modelling, most of them under `hazards`. The first three go
against a document or a comment, but have no run of their own:

- the body of a response is not timed (`rpc/mod.rs:277`). `payment_gateway.rs:520`
  says of `rpc_timeout` that if it "elapses without receiving a full response from the RPC
  daemon, the current scan will be aborted and restarted", and line 32 calls the default a
  "Timeout for total call completion". A daemon that falls silent after the head of a
  response holds the scanning thread, and every `stop`, for good (`CallsEnd` and `StopWaits`
  except exactly this);
- `contains_sub_index` in memory (`in_memory.rs:58`) looks at a range without an upper end, so it
  says yes for a subaddress that has no invoice when a later one has. storage/mod.rs:58
  has it return "whether an invoice for the given subaddress exists in storage". It never
  misses one, and what passes wrongly finds no invoice later in the scan;
- an invoice paid in full from the pool has no `paid_height` and expires (`invoice.rs:110`);
  the comment above it says "AND not paid in full";
- a removal that fails after the row was deleted (a value that cannot be decoded,
  `sled.rs:63`, `sqlite.rs:107`) returns before the subaddress is put back
  (`payment_gateway.rs:340`): the index is lost until a restart;
- two threads that call `run` at once may both start a scanner (`payment_gateway.rs:144`);
- all outputs of a transaction take the amount of the first one that is the
  wallet's (`scanner.rs:372`): `Credits` has it so. The outputs of the transactions
  in the instances are equal, since `NoPaymentLost`, which counts what was really
  paid, fails with outputs that differ;
- a store with an invoice that was never scanned cannot be resumed: its
  `current_height` is 0, and `lowest_height() - 1` wraps, or panics in a debug build
  (`scanner.rs:52`); Tracking's `Create` waits for such an invoice;
- the first key checker is made for account 1 whatever the gateway's is
  (`payment_gateway.rs:153`), so another account sees nothing until the highest
  index has grown;
- pool transactions present when `TxpoolCache::init` runs, or looked at in a scan in
  which the store fails, are never scanned in the pool (`missed`);
- an identifier is the creation height and the subaddress (`invoice.rs:365`), so an
  invoice may get the one of an invoice that is being removed, and lose its
  registration to that removal (`crossed`);
- an insert that fails keeps its subaddress (`payment_gateway.rs:303`); if the stored
  invoices use every subaddress that `init` makes, the first `new_invoice`
  panics (`dry_start`);
- `skip_ahead` under-reports when it pushes several blocks
  and repairs others below them; a window torn by a failed repair is not repaired
  by a `skip_ahead` that finds nothing new; a store failure after `first_scan` was
  cleared loses the whole first scan.

## The proofs

`CacheAuditProofs` proves, for every tree of blocks that satisfies
`MonerodAssumption` and every window size with `CacheAssumption` (at least one
block and no longer than the shortest chain, as `init` demands):

| theorem | property |
|---|---|
| `TypeCorrect` | `Spec => []TypeOK` |
| `WindowIsOnChain` | `Spec => []WindowOnChain` |
| `ReportIsExact` | `Spec => []ReportExact` |
| `HeightIsMonotone` | `Spec => HeightMonotone` |

None of the invariants is inductive. `IInv` has three parts:

- `TypeInv`: the types, and what each phase fixes about the locals: how far
  the loop counter can be, that `skip` has fetched `updated` blocks and has the
  rest of `tip - (height + 1)` before it, that `init` works at a height from
  which it can go down. `HeightMonotone` needs it for `SkipFetch`, which
  assigns `tip - next` to the height;
- `Walked`: while `check_and_fix_reorg` runs, and after it until the daemon
  leaves its chain, the cells it has passed (down to `next`) are on every chain
  that extends the daemon's and holds the top block. A step over a linked cell
  keeps this because the parent of a chain's block is the block below it, a
  repair because the daemon has just answered. At the end of the walk it is
  `WindowOnChain`. It speaks of every extension because the top block may be
  ahead of a chain that has shrunk and grows again;
- `Reported`: unless `torn`, the cells at or below the count that the running call
  has reached hold what the caller has last scanned in them, and the window is
  linked wherever nothing is being changed. `Known` says so between calls,
  `Filling`, `Skipping` and `Fixing` for each procedure; `Fixing` has to tell a
  call that has pushed one block from one that has pushed several, since only in
  the first is the new link the only one that can be broken. At `Return` the
  maximum of the two counts covers all that changed, which is `ReportExact`.

The step lemmas go through the next-state relation action by action. All proofs
are checked from nothing by `tlapm`; TLC checks `IInv` as an invariant on the
`cache` instance as well.

`GatewayProofs` proves, for any number of callers and scanning threads:

| theorem | property |
|---|---|
| `GatewayTypes` | `Spec => []TypeOK` |
| `OneRunnerOneScanner` | `Spec => []AtMostOneScanner`, if a single thread calls `run` |
| `StraysAreDeaths` | `Spec => []NoStrayStops`, if `Thread` is finite |

Its `IInv` says who owns the living scanner: the handle (`HandleOwns`), the `stop`
that has taken it out and holds the mutex (`Locked`, `StopOwns`), or the `run` that
has not stored it yet, during which the handle is dead and no `stop` waits
(`StartOwns`, `StoreOwns`). Without the mutex held over the join, `run` could
start between the second and the first; this is the mutant of the property.

`StraysAreDeaths` holds for any number of threads that call `run`. Its invariant `SInv` has
two parts of its own. `Born`: a handle, and what a call has taken, is a thread that was
started. `Room`: if the thread of a `stop` that is about to send has
finished, there is room for one more message under the number of deaths. The thread was
alive when it was looked at, so since then it has died, which makes room, or it has read a
message, which makes room as well; and the mutex, held from the look to the join, keeps
any other `stop` from taking it (`Locked`). `Thread` is finite only so that the deaths can
be counted.

It carries this over to the composition, where a scan sends its updates to subscribers
and may wait for them:

| theorem | property |
|---|---|
| `GatewayInside` | `GatewayPublisherSpec => GatewayInit /\ [][Next]_gateway`: the composition implements Gateway |
| `ComposedTypes` | `GatewayPublisherSpec => []TypeOK` |
| `ComposedOneScanner` | `GatewayPublisherSpec => []AtMostOneScanner`, if a single thread calls `run` |
| `ComposedStrays` | `GatewayPublisherSpec => []NoStrayStops`, if `Thread` is finite |

A step of the composition changes the gateway's variables as one of its own steps does,
so both invariants hold in it.

`PublisherProofs` proves, for any number of subscribers and lists (`Subscriber` is not
empty):

| theorem | property |
|---|---|
| `PublisherTypes` | `Spec => []TypeOK` |
| `EveryUpdateGiven` | `Spec => []EveryUpdate` |

Its `IInv` has four parts. `Shape` is the types, and that no sender is listed twice, that
those not yet handed out are in no list, and that the sender which the walk has cloned is
where it was cloned or has gone with its list. `Walking` says that the walk sends
the newest update of its list. `Behind` says what a listed sender has been given: all
updates of its list since it subscribed, but for the newest from the place of the walk on,
whatever `subscribe` has appended and `remove_sender` moved meanwhile. `Newcomer` is the
case that the others do not see: the list is removed and made again under the walk, and
another sender comes to stand at the place whose sender is being sent to; it has
subscribed after the update, and misses nothing when the walk goes on behind it.

`RpcProofs` proves, for any number of calls, hashes, challenges and any size of a
batch:

| theorem | property |
|---|---|
| `RpcTypes` | `Spec => []TypeOK` |
| `CountsAreAlwaysNew` | `Spec => CountsAreNew` |
| `OwnChallenge` | `Spec => []AnswersOwnChallenge` |
| `EveryHashIsAsked` | `Spec => []EveryHashAskedOnce` |

Its `IInv` relates the shared counter to the headers made under the nonce in use
(`CounterIsNext`; nonces to come have none, `FutureUnused`), and says for every
place of a call how much of its list it has asked for (`AskedSoFar`), by the lemma
`Batches` on the loop's bounds.

`TrackingProofs` proves, for any number of threads, any indices, heights and
restarts, and each of the stores:

| theorem | property |
|---|---|
| `TrackingTypes` | `Spec => []TypeOK` |
| `OneInvoice` | `Spec => []OneInvoicePerSubaddress` |
| `IndicesAccounted` | `Spec => []NoIndexLeaks` |
| `AlwaysRefilled` | `Spec => []NeverRunsDry` |
| `CanSubscribe` | `Spec => []Subscribable` |
| `CheckerIsLargeEnough` | `Spec => []CheckerCovers` |
| `ScanIsKept` | `Spec => FlushKeeps` |
| `StoresKeepPromise` | `Spec => StorePromise` |

The inductive invariant is `Core`. `Owned` says that a subaddress is free, used by a
stored invoice, or in the hands of exactly one call, the one that has taken it
and not stored it or has removed it and not given it back: without that, two
calls could end up with one. `Sound` says the same of every table that a crash may
leave, not just of the newest, since any of them may be the next one, and what the disk
is for each store (`StoreInv`). The lemmas `InsertEffect`, `RemoveEffect`, ... say of
the three stores at once what a call does, so that the steps above them do not
look into the stores. `StoresKeepPromise` is the refinement: each step of calls,
scans and crashes is a step of InvoiceStorage or leaves `table`, `disk` and `unflushed`
alone. InvoiceStorage's `unflushed` is what binds a flush: it is set by every write and
cleared by a flush, so a scan that ends after a write has to be a `Flush`, which in a
store with a disk leaves only the newest table to fall back to. The one exception in the formula is a
scan that ends behind sqlite's stray transaction.

`InvoiceProofs` is about the functions of Invoice, for any transfers and heights:

| theorem | what it states |
|---|---|
| `UpdatedHolds` | after a scan an invoice has the transfers below `deepest_update` that it had, those the scan found for it after its creation, and no others; its index and terms are unchanged, its `current_height` is the window's top plus one, its fields have their types |

The comparison of old and new invoice, which spares the recomputation, does not show in
this result: equal invoices hold the same transfers (`SameElements`).
The lemmas below it say what the sequence operators return: `Flatten`, `OnlyThose`
(a filter keeps exactly the elements of its set), `SumIsNat`. `FlattenOnce`, `OnlyOnce`
and `UpdatedOnce` say the same of how often a value occurs. FlattenSeq and `SumOf`
are recursive functions, so these need an induction; it is made from the least
element of a set of numbers (`Least`, `Induction`), a set being a value where the
library's induction theorems take an operator. The prover knows nothing of `SelectSeq`
and of `@@`, hence `Only` and `ExtendedBy`.

Two more groups of lemmas are about what is reckoned from an invoice:

- *Sums.* `SumOf` adds up a sequence, `TotalTo` a set of transactions with the fold of the
  community modules, which takes the elements in an order that `CHOOSE` picks.
  `SetSumExists` shows that the recursion of the fold has a solution, `SetSumAdds` that it
  has the property `Adds`, for which the order does not matter (`AnyOrder`). With that,
  `SumWithin` and `SumBeyond` compare the two: if the first n transfers can be mapped
  to different payments of the same amounts, their sum is at most that of the payments, and the
  other way round.
- *Order.* `Ordered(transfers, R)` says that the heights of any two transfers, in their order,
  are related by R; `FlattenOrdered`, `ConcatOrdered` and `UpdatedOrdered` carry it through
  the building of `found` and the rounds of the scan. `PaidHeightFacts` says what `PaidHeight` is: the
  height of the first mined transfer up to which the sum covers the amount, or none.
  `Reckoned` (`amount_paid` and `paid_height` are those of the transfers) is kept by
  every round (`UpdatedReckoned`), though the recomputation is skipped for equal invoices.

`ScannerProofs` proves, for every daemon, window, pool, set of invoices, and with
requests, saves and the store failing, stops and crashes anywhere:

| theorem | property |
|---|---|
| `ScannerTypes` | `Spec => []TypeOK` |
| `PoolPaymentsAreShown` | `Spec => []PoolPaymentShown`, if `OneAmount`: a payment's outputs have the amount of the wallet's first output |

`OneAmount` is what `scan_transactions` takes for granted (`scanner.rs:372`); the
instances satisfy it, and without it the property fails. `ScannerAssumption` has the transactions finite in number, since the
crediting joins a hash map in an order that `SetToSeq` picks. `IInv` is

- `TypeInv`: types, with the relations that they need. `Control` says which phases of the
  two caches go with each step of the scan; `Window` which cells are filled, and
  that `updated` never exceeds the window, for the sum of pushed and repaired cells
  indexes the cells to be scanned (`scanner.rs:254`) and is taken from a height
  (`scanner.rs:130`); `PoolSets` that transfers are kept only of transactions
  that are in the pool's copy, and that new ones have none yet;
- `Known`: nothing is in the pool or in a block that `ever` has not seen, so an invoice that
  is created while a scan runs is owed none of the payments under way;
- `Remembered`: for every stored invoice, a payment in the pool's copy is either about
  to be looked at in this scan, or its transfer is kept;
- `Carried`: how the scan takes those transfers into the store: they are in `found` when the
  invoices are computed, and in the queue or the store while they are saved, and in the
  store when a scan without an error has ended. A save that comes after the
  invoice was removed, and removed and made again, is covered by `Queued`.

`PaymentProofs` builds on it:

| theorem | property |
|---|---|
| `NoPaymentIsLost` | `Spec => []NoPaymentLost`, if `OneAmount` |
| `NoPaymentIsMadeUp` | `Spec => []NoPhantomPayment`, if `OneAmount` and `Apart` of every block |
| `ConfirmedInvoicesAreBacked` | `Spec => []ConfirmedIsBacked`, if `OneAmount` and `Apart` of every block |
| `ExpiredInvoicesAreUnpaid` | `Spec => []ExpiredIsUnpaid`, if `OneAmount`, `Apart` of every block, and `Requested > 0` |
| `PaymentsAreCountedOnce` | `Spec => []CountedOnce`, if `OneAmount` and `Apart(Tx)` |

`NoPaymentLost` speaks of one moment, between two scans. What makes it true is spread over
all moments and over everything that survives a crash, so its invariant `PayInv`
has more to say (all but `CellsKnown`, `Counters` and `Queue` only as long as nothing is lost):

- `Counters` says what the counts of the running procedure can be in each phase, and
  `CellsKnown` that `ever` has the transactions of cells that the daemon has abandoned;
- `Anchored` says how the window lies on the daemon's chain: at rest its lowest block is on it
  and all cells are linked, so a cell that is on the chain has everything below it on
  the chain as well (`WindowOn`), and an abandoned cell is found by its link. During
  `init` the cells from the lowest fetched on, during `skip_ahead` the pushed ones, during a
  repair those above `next`; `Walking` says that the cells repaired so far are the topmost;
- `Safe` is what a restart relies on: every stored invoice shows what the chain holds
  below any window that a scanner may resume with, which is the window under the
  invoice's own `current_height`. It does not mention the scanner, hence no crash
  touches it, and the scanner that opens takes the lowest height of all;
- `Paid` says what the invoices show while a scanner is up: the blocks up to the lowest cell, and
  the cells below those that `update()` will report. It fails in the middle of the saves and
  is not needed there. For an invoice that was made while `skip_ahead` runs, what it
  skips is older than the invoice (`Fresh`), so nothing has to be shown;
- `Scanned` says what has become of the reported cells, step by step: their payments are in
  `found`; when the invoices are computed each has them found, or shows them from before and
  the new count leaves them alone (`DeepestUpdate`); each invoice in the queue shows
  everything (`Full`), and each stored one does or has its successor in the queue. A save
  whose invoice was removed meanwhile, or removed and made again, changes nothing that counts.

A scan of the invoices is the step where the lemma `UpdatedHolds` meets the window: what an invoice drops
(transfers at or above the deepest update) is what the scan has found again. The proof does
not use `DaemonIsObserved`, so the theorem holds as well for a daemon that moves between any two
steps.

The invariant had its use before it was proved: written down, it could not be shown to hold
over a reorganisation while the scanner is down, or while a first scan is repeated, and TLC gave
counterexamples to the property itself on instances built for these cases (a window of two;
two invoices of which one lags behind). The ghost `lost` had not counted them
as losses. They are losses of the code, of the kinds already listed, and `TooDeep` and `WindowPassed`
name them now; `two_invoices` has reorganisations since.

`NoPaymentIsMadeUp` is the converse: what is shown was paid, once. A transfer is an amount
and a height (`invoice.rs:475`), so two payments of one amount to one subaddress in one block
are equal in an invoice; `Apart` excludes them, and two outputs of one transaction
to one subaddress; every block of the instances satisfies it.
The proof has two invariants beside `PayInv`:

- `OnceInv`: a mined transfer stands at most once in each stored, computed or queued invoice,
  and at most once in `found`, where it lies at or above `DeepestUpdate`, so what an invoice
  keeps and what it is given do not overlap. In the first scan of a store that was not resumed
  there is nothing to keep: its invoices are blank. The pool's copy holds no mined transfer.
- `GenuineInv` (as long as nothing is lost and the store was not resumed) turns `Paid` and
  `Scanned` round: a mined transfer below the window was made in the chain's block of its
  height, one in a cell that `update()` does not report was made in that cell, and what is in
  `found` was made in the reported cell it comes from. The queue and the store follow as
  they do for `Scanned`; a walk that removes cells moves them into the reported part.

That a resumed store is exempt is no convenience of the proof: its first scan finds the
whole window again and drops nothing below it (see the runs that expect a violation).

`ConfirmedInvoicesAreBacked` and `ExpiredInvoicesAreUnpaid` are about money instead of
single transfers. Their invariant `Booked` says that every invoice, stored, queued or under
creation, is `Reckoned`, and that its transfers are in order: those of the pool last
(`MinedFirst`), and, unless the store was resumed, the others by their heights (`Rising`). The
order comes from `scan_blocks`, which goes from the oldest cell to the newest, from
`scan_txpool`, whose finds come last, and from what `Updated` keeps being below what it
adds (`FoundAbove`).

- If an invoice is shown as confirmed, the first transfers that cover the amount end with the one
  at `paid_height`. By the order all of them are mined and at or below that height; by
  `MinedIsPaid` each was made in its block, and by `OnceInv` no two stand for one payment, so
  `SumWithin` gives a total of payments under enough blocks that covers the amount.
- If it is shown as expired, it has no `paid_height`, so the transfers up to the last mined
  one do not cover the amount. By `MinedIsShown` (the heart of `NoPaymentIsLost`) every
  payment since the creation has a transfer among them, different ones by `Apart`,
  and `SumBeyond` bounds their total. An invoice for an amount of 0 expires
  when no transfer of it was mined, with nothing wanting: hence `Requested > 0`.

`PaymentsAreCountedOnce` is about the pool and the chain together, which the scanner reads at
different moments. It needs the transactions of different blocks, and of the pool, told apart as well,
hence `Apart(Tx)`; the instances satisfy it. Its invariants (`PoolInvs`) are

- `PoolApart`: no transaction is in the pool and in the chain at once;
- `PoolAbove`: once a scan has read the pool, and the newest cached block was on the daemon's
  chain then, nothing in the pool's copy is in that block or below it. This is said of every
  chain that holds the newest cached block, not of the daemon's, since the daemon may leave
  the chain and return to it; two chains that share a block share what is below (`SameBelow`);
- `PoolFinds`: what is kept of a transaction, or found in the pool by the scan, is of a
  transaction in the pool's copy, and there once, though the copy is joined from a hash map;
- `PoolOnce` and `AllBacked`: the same of every invoice, stored or queued: no transfer of the pool
  stands twice, and each is of a transaction in the pool's copy, while the invoices are saved
  and after a scan without an error. `AllBacked` follows the queue as `Scanned` and `Genuine` do.

Two transfers of a payment's amount are then both of that transaction; two in blocks are in
one (`OneBlock`), two of the pool are one, and one of each contradicts `PoolAbove`.

The candidate invariants were checked by TLC on the instance of `scanner` before they were
proved, those of `NoPaymentIsMadeUp` on that of `two_invoices` as well.

With this, every invariant that a passing run checks is proved for all constants that satisfy
the stated assumptions, and so is every property of steps. Only model-checked are the liveness properties
(`CatchesUp`, `WalkEnds`, `StopWaits`, `CallsEnd`): fairness and ENABLED are out of the
prover's reach.

## What is not modelled

- *Wording, logging, serialisation, cryptography.* A transaction's outputs to the
  wallet are data of the instance; finding them (`monero::Transaction::check_outputs`)
  is taken as given.
- *The window's own block contents.* `get_block` with `get_transactions` is one
  request here; both answer for one block.
- *u64 sums of amounts* do not overflow: the supply of piconero fits.
- *Display, serialisation, URIs* of invoices, JSON, hexadecimal, MD5 and the quoting
  of the login's headers: pure conversions whose result no property tells apart.
  The builder's setters and the getters of the gateway change nothing or one field.
- *Scans inside the scanner's own model send no updates*: `send_updates` is in
  GatewayPublisher; a scan that waits for a subscriber is, to
  the scanner's properties, a scan that takes long. Likewise Scanner has the abstract
  store, and Tracking the real ones without the blocks.
- *A disk error that makes sqlite roll back* a stray transaction by itself, and other
  programs on the same database or tree.
- *Invoices of several accounts in one store.* All invoices of Tracking are of the
  gateway's `major_index`; MCTracking gives it the value 1.
- *The intermediate values of the highest index* while `extend_by` runs are one step:
  the scanning thread reads it only to compare it with its table, and any value
  up to the last makes the table grow again in the next round.
- *`contains_sub_index`* changes no state; that the store in memory answers yes too
  often (see [above](#findings)) reaches no variable of the models.
- *Some interleavings that no property tells apart.* Scanner has one `new_invoice` in
  flight, where the gateway has as many as there are callers (Tracking has several); its
  `ScanBlocks` is one step, though the store is locked for each output
  (`scanner.rs:365`).
- *A response with fewer transactions than were asked for*, which the client accepts with
  a warning (`rpc/mod.rs:195`): RpcClient counts what is asked for, not what a body holds.
- *The gateway with two scanners at once*: GatewayPublisher has the variables of one scan.
- *Errors and examples* keep no state.

## The plan

What is left, in the order of what matters:

1. **Abstract window**: a specification of the block cache that follows the chain
   in one step, implemented by `CacheAudit` when no call is torn.
2. **A second account** in one store, for the order of subaddresses across
   accounts in `init` and in the in-memory range.
3. **Larger compositions**: Scanner over Stores, with a crash that undoes saves.
