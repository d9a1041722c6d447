------------------------------- MODULE Monerod -------------------------------
(***************************************************************************)
(* The Monero daemon as AcceptXMR sees it through rpc/mod.rs: a block      *)
(* chain that grows and is reorganised, and a transaction pool.  The       *)
(* daemon is not part of the repository; everything here is taken from how *)
(* the RPC client uses it.                                                 *)
(*                                                                         *)
(* A chain is the sequence of its blocks, genesis first, so the block at   *)
(* height h is chain[h + 1] and the block count that get_block_count       *)
(* returns is Len(chain).                                                  *)
(***************************************************************************)
EXTENDS Integers, Sequences, FiniteSets

CONSTANTS
  Block,        \* every block that any chain may hold
  NoBlock,      \* the parent of a genesis block
  Prev,         \* Prev[b] is the prev_id in the header of b
  Tx,           \* every transaction with an output for this wallet
  TxsOf,        \* TxsOf[b] is the set of those transactions mined in b
  Chains,       \* the chains the daemon may follow
  MinLength     \* no chain is shorter

BlockAssumption ==
  /\ NoBlock \notin Block
  /\ Prev \in [Block -> Block \cup {NoBlock}]
  /\ TxsOf \in [Block -> SUBSET Tx]

(***************************************************************************)
(* Chains are linked by prev_id, a block has one height, and a transaction *)
(* is mined at most once in a chain.                                       *)
(***************************************************************************)
ChainAssumption ==
  /\ MinLength \in Nat \ {0}
  /\ \A c \in Chains :
       /\ c \in Seq(Block)
       /\ Len(c) >= MinLength
       /\ \A i \in 1 .. Len(c) - 1 : Prev[c[i + 1]] = c[i]
       /\ \A i, j \in 1 .. Len(c) : i # j => TxsOf[c[i]] \cap TxsOf[c[j]] = {}
  /\ \A c, d \in Chains : \A i \in 1 .. Len(c), j \in 1 .. Len(d) :
       c[i] = d[j] => i = j

ASSUME MonerodAssumption == BlockAssumption /\ ChainAssumption

VARIABLES
  chain,        \* the daemon's main chain
  pool          \* the wallet's transactions in the daemon's txpool

monerod == <<chain, pool>>
------------------------------------------------------------------------------
ChainTxs(c) == UNION {TxsOf[c[i]] : i \in 1 .. Len(c)}

HasBlock(h) == h \in 0 .. Len(chain) - 1      \* get_block has an answer
BlockAt(h) == chain[h + 1]                    \* the answer

On(c, b, h) == h \in 0 .. Len(c) - 1 /\ c[h + 1] = b
Extends(d, c) == Len(d) >= Len(c) /\ \A i \in 1 .. Len(c) : d[i] = c[i]

MonerodTypeOK == chain \in Chains /\ pool \subseteq Tx

MonerodInit ==
  /\ chain \in Chains
  /\ pool = {}

(***************************************************************************)
(* The daemon switches to another chain: new blocks on top of the old one, *)
(* or a reorganisation of any depth.  Transactions of popped blocks return *)
(* to the pool, mined ones leave it.                                       *)
(***************************************************************************)
Adopt(c) ==
  /\ c # chain
  /\ chain' = c
  /\ pool' = (pool \cup ChainTxs(chain)) \ ChainTxs(c)

Broadcast(t) ==
  /\ t \notin pool \cup ChainTxs(chain)
  /\ pool' = pool \cup {t}
  /\ UNCHANGED chain

\* The pool drops a transaction: it expired or was double spent.
Drop(t) ==
  /\ t \in pool
  /\ pool' = pool \ {t}
  /\ UNCHANGED chain

MonerodNext ==
  \/ \E c \in Chains : Adopt(c)
  \/ \E t \in Tx : Broadcast(t) \/ Drop(t)
==============================================================================
