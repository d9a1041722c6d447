------------------------------- MODULE Stores --------------------------------
(***************************************************************************)
(* The three stores of src/storage/stores/.  table is what a call sees,    *)
(* disk what may be found there after the process has died.  Calls are     *)
(* atomic: Store (src/storage/mod.rs) locks the store for each of them.    *)
(***************************************************************************)
EXTENDS Tables

CONSTANTS
  Backends,    \* the stores to look at
  DiskFails    \* whether a call may fail with an error of the disk, or with a
               \* value on it that cannot be decoded

ASSUME BackendsAssumption ==
  Backends \subseteq {"memory", "sled", "sqlite"} /\ DiskFails \in BOOLEAN

VARIABLES
  backend,   \* the store in use
  table,
  disk,      \* the tables that the process may find when it is started again
  in_txn     \* sqlite: a transaction was begun and neither committed nor rolled back

stores == <<backend, table, disk, in_txn>>

StoresInit ==
  /\ backend \in Backends
  /\ table = EmptyTable /\ disk = {EmptyTable} /\ in_txn = FALSE
------------------------------------------------------------------------------
\* InMemory: a BTreeMap.
MemoryInsert(i, v) ==
  /\ i \notin DOMAIN table
  /\ table' = Put(table, i, v) /\ UNCHANGED <<disk, in_txn>>

MemoryRemove(i) ==
  /\ i \in DOMAIN table
  /\ table' = Without(table, i) /\ UNCHANGED <<disk, in_txn>>

\* Mutant: update() inserts.
MemoryUpsert(i, v) ==
  table' = Put(table, i, v) /\ UNCHANGED <<disk, in_txn>>

MemoryUpdate(i, v) ==
  /\ table' = IF i \in DOMAIN table THEN Put(table, i, v) ELSE table
  /\ UNCHANGED <<disk, in_txn>>
------------------------------------------------------------------------------
\* Sled: no write is flushed by itself, and all are recovered in their order.
Buffered(t) == table' = t /\ disk' = disk \cup {t} /\ UNCHANGED in_txn

SledInsert(i, v) == i \notin DOMAIN table /\ Buffered(Put(table, i, v))
SledRemove(i) == i \in DOMAIN table /\ Buffered(Without(table, i))
SledUpdate(i, v) ==
  IF i \in DOMAIN table THEN Buffered(Put(table, i, v)) ELSE UNCHANGED <<table, disk, in_txn>>

SledFlush == disk' = {table} /\ UNCHANGED <<table, in_txn>>
------------------------------------------------------------------------------
\* Sqlite: outside a transaction, each statement is one.
Executed(t) ==
  /\ table' = t
  /\ disk' = IF in_txn THEN disk ELSE {t}
  /\ UNCHANGED in_txn

\* The primary key is the identifier; a row that is there counts no change.
SqliteInsert(i, v) == i \notin DOMAIN table /\ Executed(Put(table, i, v))
SqliteRemove(i) == i \in DOMAIN table /\ Executed(Without(table, i))

\* Mutant: a row is replaced without a transaction.
SqliteUpdateInTwo(i, v) ==
  /\ IF i \in DOMAIN table
     THEN table' = Put(table, i, v) /\ disk' = {table', Without(table, i)}
     ELSE UNCHANGED <<table, disk>>
  /\ UNCHANGED in_txn

\* BEGIN fails in a transaction; an invoice that is gone returns before COMMIT
\* and ROLLBACK.
SqliteUpdate(i, v) ==
  IF in_txn THEN UNCHANGED <<table, disk, in_txn>>
  ELSE IF i \in DOMAIN table
       THEN Executed(Put(table, i, v))
       ELSE in_txn' = TRUE /\ UNCHANGED <<table, disk>>

\* BEGIN fails, or an error behind it returns there too, before the UPDATE or
\* after it.
SqliteUpdateFails(i, v) ==
  /\ ~in_txn /\ in_txn' \in BOOLEAN
  /\ \/ UNCHANGED table
     \/ in_txn' /\ i \in DOMAIN table /\ table' = Put(table, i, v)
  /\ UNCHANGED disk
------------------------------------------------------------------------------
\* The calls of the store that is in use.
Insert(i, v) ==
  /\ \/ backend = "memory" /\ MemoryInsert(i, v)
     \/ backend = "sled" /\ SledInsert(i, v)
     \/ backend = "sqlite" /\ SqliteInsert(i, v)
  /\ UNCHANGED backend

\* Nothing has changed.
InsertFails(i) ==
  /\ i \in DOMAIN table \/ (DiskFails /\ backend # "memory")
  /\ UNCHANGED stores

Remove(i) ==
  /\ \/ backend = "memory" /\ MemoryRemove(i)
     \/ backend = "sled" /\ SledRemove(i)
     \/ backend = "sqlite" /\ SqliteRemove(i)
  /\ UNCHANGED backend

\* The row is gone when the invoice that was in it cannot be read or decoded.
\* An error before that changes nothing.
RemoveFails(i) == DiskFails /\ backend # "memory" /\ Remove(i)

Update(i, v) ==
  /\ \/ backend = "memory" /\ MemoryUpdate(i, v)
     \/ backend = "sled" /\ SledUpdate(i, v)
     \/ backend = "sqlite" /\ SqliteUpdate(i, v)
  /\ UNCHANGED backend

\* Sled's value has been replaced when the one before cannot be decoded.
UpdateFails(i, v) ==
  /\ DiskFails
  /\ \/ backend = "sled" /\ (SledUpdate(i, v) \/ UNCHANGED <<table, disk, in_txn>>)
     \/ backend = "sqlite" /\ SqliteUpdateFails(i, v)
  /\ UNCHANGED backend

\* Mutant: sled is believed to flush by itself.
FlushNothing == UNCHANGED stores

\* The default does nothing.
Flush ==
  /\ \/ backend = "sled" /\ SledFlush
     \/ backend # "sled" /\ UNCHANGED <<table, disk, in_txn>>
  /\ UNCHANGED backend

\* The process has died and the store is opened again.
Reopen ==
  /\ table' \in disk
  /\ disk' = {table'} /\ in_txn' = FALSE
  /\ UNCHANGED backend
==============================================================================
