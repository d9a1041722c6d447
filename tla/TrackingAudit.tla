---------------------------- MODULE TrackingAudit ----------------------------
(***************************************************************************)
(* What the calls of Tracking should keep true, with what has to be        *)
(* remembered to say so.                                                   *)
(***************************************************************************)
EXTENDS Tracking

VARIABLES
  lost,        \* subaddresses of inserts and removals that returned an error
  dry_start,   \* all subaddresses were in use when the process was started
  recovered,   \* the stored invoices that were there when it was
  crossed,     \* those inserted while one of the same id was being removed
  due,         \* the invoices stored when the key checker was last looked at
  unflushed    \* the store was written to since a scan last ended without an error

ghosts == <<lost, dry_start, recovered, crossed, due, unflushed>>
vars == <<tracking, ghosts>>

Init ==
  /\ TrackingInit
  /\ lost = {} /\ dry_start = FALSE /\ recovered = {} /\ crossed = {} /\ due = {}
  /\ unflushed = FALSE

Crashed == lives' # lives
Flushed == step = "saving" /\ step' = "loop"

\* By an insert that failed, or a removal that did not come to PutBack.
JustLost ==
  {sub_index[c] : c \in {d \in Caller : pc[d] = "insert" /\ pc'[d] = "ready"}}
    \cup {i.sub_index : i \in {j \in DOMAIN table \ DOMAIN table' :
                               \A c \in Caller : pc'[c] = "give" => id'[c] # j}}
JustCrossed ==
  {i \in DOMAIN table' \ DOMAIN table : \E c \in Caller : pc[c] = "unregister" /\ id[c] = i}

Remember ==
  /\ lost' = IF Crashed THEN {} ELSE lost \cup JustLost
  /\ dry_start' = (available' = {} /\ (Crashed \/ dry_start))
  /\ recovered' = IF Crashed THEN DOMAIN table' ELSE recovered \cap DOMAIN table'
  /\ crossed' = IF Crashed THEN {} ELSE (crossed \cup JustCrossed) \cap DOMAIN table'
  /\ due' = IF step' # "scanning" THEN {} ELSE IF step # "scanning" THEN DOMAIN table ELSE due
  /\ unflushed' = (~Crashed /\ ~Flushed /\ (unflushed \/ <<table, disk>>' # <<table, disk>>))

Next == TrackingNext /\ Remember

Spec == Init /\ [][Next]_vars
------------------------------------------------------------------------------
TypeOK ==
  /\ backend \in Backends /\ in_txn \in BOOLEAN
  /\ DOMAIN table \subseteq InvoiceIdSet /\ \A i \in DOMAIN table : table[i] \in InvoiceSet
  /\ \A t \in disk : DOMAIN t \subseteq InvoiceIdSet /\ \A i \in DOMAIN t : t[i] \in InvoiceSet
  /\ highest \in Minor /\ available \subseteq UpTo(highest)
  /\ daemon_height \in Heights \cup {0}
  /\ registered \subseteq InvoiceIdSet
  /\ pc \in [Caller -> {"ready", "load", "insert", "register", "give", "unregister"}]
  /\ sub_index \in [Caller -> SubIndexSet] /\ id \in [Caller -> InvoiceIdSet]
  /\ terms \in [Caller -> 0 .. MaxInvoices] /\ created \in 0 .. MaxInvoices
  /\ step \in {"down", "created", "loop", "failed", "scanning", "saving"}
  /\ watched \in [major : {1, major_index}, last : Minor]
  /\ DOMAIN queue \subseteq InvoiceIdSet /\ \A i \in DOMAIN queue : queue[i] \in InvoiceSet
  /\ lives \in 0 .. MaxLives /\ unflushed \in BOOLEAN

(***************************************************************************)
(* No two stored invoices have the same subaddress, whatever calls and     *)
(* saves overlap, fail, or are undone by a crash: a payment could be for   *)
(* either.  A subaddress is free again (payment_gateway.rs:340) only after *)
(* its invoice is gone, and a save (scanner.rs:204) never brings one back. *)
(***************************************************************************)
OneInvoicePerSubaddress ==
  \A i, j \in DOMAIN table : i.sub_index = j.sub_index => i = j

(***************************************************************************)
(* Every index up to the highest is free, in use, in the hands of a call,  *)
(* or lost until a restart with an insert or a removal that returned an    *)
(* error (payment_gateway.rs:303, 329): extend_by and init                 *)
(* (subaddress_cache.rs) pass over none.                                   *)
(***************************************************************************)
Holding(c) == pc[c] \in {"load", "insert", "give"}

NoIndexLeaks ==
  UpTo(highest) \subseteq
    available \cup SubIndices(table) \cup lost \cup {sub_index[c] : c \in {d \in Caller : Holding(d)}}

(***************************************************************************)
(* new_invoice() panics (gen_range, subaddress_cache.rs:93) only when all  *)
(* indices are used up, or when the stored invoices used all that init()   *)
(* made.                                                                   *)
(***************************************************************************)
NeverRunsDry == available = {} => highest = MaxMinor \/ dry_start

(***************************************************************************)
(* An invoice that new_invoice() has returned can be subscribed to, though *)
(* remove_invoice() frees its subaddress before it kills the subscriptions *)
(* (payment_gateway.rs:340, 345), unless it took the same id meanwhile or  *)
(* is one that a restart found in the store.                               *)
(***************************************************************************)
Subscribable ==
  \A i \in DOMAIN table :
    \/ i \in registered \cup recovered \cup crossed
    \/ \E c \in Caller : pc[c] = "register" /\ id[c] = i

(***************************************************************************)
(* A scan recognises payments to all invoices that were stored when it     *)
(* looked at its key checker (payment_gateway.rs:174), if the account is   *)
(* the one of the first checker: the index that other threads raise is     *)
(* never ahead of the table.                                               *)
(***************************************************************************)
CheckerCovers ==
  major_index = 1 => \A i \in due : i.sub_index.major = watched.major /\ i.sub_index.minor <= watched.last

(***************************************************************************)
(* The three stores keep the promise of the trait InvoiceStorage: whole    *)
(* operations, of which a crash undoes at most those since the flush that  *)
(* a scan ends with (scanner.rs:218).  The flush behind the transaction    *)
(* that sqlite's update() leaves open (sqlite.rs:132) is excepted: it      *)
(* flushes nothing.                                                        *)
(***************************************************************************)
Promise ==
  INSTANCE InvoiceStorage WITH
    Id <- InvoiceIdSet, Invoice <- InvoiceSet,
    stored <- table, fallback <- disk, persistent <- (backend # "memory")

StorePromise == Promise!Init /\ [][Promise!Next \/ (Flushed /\ in_txn)]_(Promise!storage)

(***************************************************************************)
(* After a scan that ends without an error (scanner.rs:218) a crash undoes *)
(* nothing, except in memory and behind sqlite's stray transaction.        *)
(***************************************************************************)
FlushKeeps == [][Flushed => disk' = {table} \/ backend = "memory" \/ in_txn]_vars

(***************************************************************************)
(* storage/mod.rs:106: flush "should be manually implemented for any        *)
(* storage layer that does not automatically flush on write"; sqlite has   *)
(* none, so its writes are to be on the disk by then.                      *)
(***************************************************************************)
FlushPersists == [][Flushed => disk' = {table} \/ backend = "memory"]_vars
==============================================================================
