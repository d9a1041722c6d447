---------------------------- MODULE TxpoolCache ------------------------------
(***************************************************************************)
(* TxpoolCache (src/caching/txpool_cache.rs): which transactions of the    *)
(* daemon's pool have been fetched, and the transfers found in them.       *)
(***************************************************************************)
EXTENDS Monerod

VARIABLES
  transactions,  \* the pool transactions already fetched
  discovered,    \* discovered_transfers: from some transactions to transfers
  tphase,        \* where the running procedure is
  tlocal         \* its local set: the hashes it wants, then what it received

txpool == <<transactions, discovered, tphase, tlocal>>

EmptyMap == [t \in {} |-> <<>>]
RestrictTo(f, S) == [t \in DOMAIN f \cap S |-> f[t]]

\* HashMap::extend: g replaces what f holds for the same key.
ExtendedBy(f, g) ==
  [t \in DOMAIN f \cup DOMAIN g |-> IF t \in DOMAIN g THEN g[t] ELSE f[t]]

TxpoolInit ==
  /\ transactions = {} /\ discovered = EmptyMap
  /\ tphase = "down" /\ tlocal = {}
------------------------------------------------------------------------------
\* init() takes the pool as it is; these transactions will never be scanned.
PoolOpen ==
  /\ tphase = "down"
  /\ transactions' = pool
  /\ discovered' = EmptyMap
  /\ tphase' = "idle"
  /\ UNCHANGED tlocal

PoolCall ==
  /\ tphase \in {"idle", "done"}
  /\ tphase' = "hashes" /\ tlocal' = {}
  /\ UNCHANGED <<transactions, discovered>>

\* Mutant: what has left the pool is not forgotten.
PoolHashesKept ==
  /\ tphase = "hashes"
  /\ tlocal' = pool \ transactions
  /\ tphase' = IF tlocal' = {} THEN "done" ELSE "txs"
  /\ UNCHANGED <<transactions, discovered>>

(***************************************************************************)
(* The pool's hashes arrive.  Everything that has left the pool is         *)
(* forgotten while the request for the new transactions is already out, so *)
(* it is forgotten even if that request fails.  No request is made for an  *)
(* empty list.                                                             *)
(***************************************************************************)
PoolHashes ==
  /\ tphase = "hashes"
  /\ tlocal' = pool \ transactions
  /\ transactions' = transactions \cap pool
  /\ discovered' = RestrictTo(discovered, pool)
  /\ tphase' = IF tlocal' = {} THEN "done" ELSE "txs"

\* The daemon answers for the hashes it still knows, in the pool or in a block.
PoolTxs ==
  /\ tphase = "txs"
  /\ tlocal' = tlocal \cap (pool \cup ChainTxs(chain))
  /\ transactions' = transactions \cup tlocal'
  /\ tphase' = "done"
  /\ UNCHANGED discovered

\* The caller discards the scan.
PoolFail ==
  /\ tphase \in {"hashes", "txs"}
  /\ tphase' = "idle" /\ tlocal' = {}
  /\ UNCHANGED <<transactions, discovered>>

\* Mutant: the transfers of earlier scans are replaced.
InsertTransfersAnew(found) == discovered' = found

\* insert_transfers()
InsertTransfers(found) == discovered' = ExtendedBy(discovered, found)

PoolStep == PoolHashes \/ PoolTxs
==============================================================================
