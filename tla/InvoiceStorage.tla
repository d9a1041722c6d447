--------------------------- MODULE InvoiceStorage ----------------------------
(***************************************************************************)
(* What the trait InvoiceStorage (src/storage/mod.rs) promises: a table    *)
(* that changes by whole operations, of which a loss of power may undo     *)
(* the last ones, but none that came before a flush.  A flush that comes   *)
(* after a write cannot stutter, as there is unflushed to be cleared.  An  *)
(* operation that returns an error may have been done, or is a stuttering  *)
(* step.                                                                   *)
(***************************************************************************)
EXTENDS Tables

CONSTANTS
  Id,          \* identifiers of invoices
  Invoice      \* what may be stored under them

VARIABLES
  stored,      \* the table
  fallback,    \* the tables that a loss of power may leave
  unflushed,   \* there was a write since the last flush
  persistent   \* FALSE: a store without a disk, which keeps nothing

storage == <<stored, fallback, unflushed, persistent>>

Init ==
  /\ stored = EmptyTable /\ fallback = {EmptyTable} /\ ~unflushed
  /\ persistent \in BOOLEAN

\* A write is undone by a loss of power, or has reached the disk.
Become(t) ==
  /\ stored' = t
  /\ fallback' # {} /\ fallback' \subseteq fallback \cup {t}
  /\ unflushed'
  /\ UNCHANGED persistent

Insert(i) ==
  /\ i \notin DOMAIN stored /\ i \in DOMAIN stored'
  /\ \E v \in Invoice : Become(Put(stored, i, v))

Update(i) == i \in DOMAIN stored /\ \E v \in Invoice : Become(Put(stored, i, v))
Remove(i) == i \in DOMAIN stored /\ Become(Without(stored, i))

Flush ==
  /\ persistent => fallback' = {stored}
  /\ ~persistent => UNCHANGED fallback
  /\ ~unflushed'
  /\ UNCHANGED <<stored, persistent>>

PowerLoss ==
  /\ stored' \in IF persistent THEN fallback ELSE {EmptyTable}
  /\ fallback' = {stored'}
  /\ ~unflushed'
  /\ UNCHANGED persistent

Next ==
  \/ \E i \in Id : Insert(i) \/ Update(i) \/ Remove(i)
  \/ Flush \/ PowerLoss

Spec == Init /\ [][Next]_storage
==============================================================================
