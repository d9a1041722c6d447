---------------------------- MODULE TrackingProofs ---------------------------
(***************************************************************************)
(* Proofs about the gateway's calls: for any number of threads and of      *)
(* invoices, each of the stores, and any number of restarts.               *)
(***************************************************************************)
EXTENDS TrackingAudit, FiniteSetTheorems, WellFoundedInduction, TLAPS

LEMMA SmallestElement ==
  ASSUME NEW T \in SUBSET Nat, T # {}
  PROVE  \E n \in T : \A k \in T : n <= k
  <1>1. PICK n \in T : \A k \in T : <<k, n>> \notin OpToRel(<, Nat)
    BY NatLessThanWellFounded, WFMin
  <1>2. \A k \in Nat : k < n => <<k, n>> \in OpToRel(<, Nat)
    BY DEF OpToRel
  <1>3. ASSUME NEW k \in T PROVE n <= k
    <2>1. ~(k < n)
      BY <1>1, <1>2
    <2>2. k \in Nat /\ n \in Nat
      OBVIOUS
    <2> QED
      BY <2>1, <2>2
  <1> QED
    BY <1>3

\* The indices of an account up to one of them.
LEMMA Indices ==
  /\ \A n \in Minor : SubIndex(major_index, n) \in SubIndexSet
  /\ \A s \in SubIndexSet :
       s.minor \in Minor /\ s = SubIndex(major_index, s.minor) /\ s.major = major_index
  /\ \A n \in Minor : UpTo(n) \subseteq SubIndexSet
  /\ \A n \in Minor, s \in SubIndexSet : s \in UpTo(n) <=> s.minor <= n
  <1>1. MaxMinor \in Nat
    BY SubaddressAssumption DEF SubaddressAssumption
  <1> QED
    BY <1>1 DEF SubIndexSet, SubIndex, Minor, UpTo

LEMMA Ids ==
  /\ NoSub \in SubIndexSet /\ NoId \in InvoiceIdSet
  /\ \A s \in SubIndexSet, h \in Heights \cup {0} :
       IdOf(s, h) \in InvoiceIdSet /\ IdOf(s, h).sub_index = s
  /\ \A i \in InvoiceIdSet : i.sub_index \in SubIndexSet
  <1>1. 0 \in Minor
    BY SubaddressAssumption DEF Minor, SubaddressAssumption
  <1>2. NoSub \in SubIndexSet
    BY <1>1, Indices DEF NoSub
  <1>3. \A s \in SubIndexSet, h \in Heights \cup {0} :
          IdOf(s, h) \in InvoiceIdSet /\ IdOf(s, h).sub_index = s
    BY DEF InvoiceIdSet, IdOf
  <1>4. \A i \in InvoiceIdSet : i.sub_index \in SubIndexSet
    BY DEF InvoiceIdSet, IdOf
  <1> QED
    BY <1>2, <1>3, <1>4 DEF NoId

\* No used index is later than the one that init() finds.
LEMMA MaxUsedIsLast ==
  ASSUME NEW used \in SUBSET SubIndexSet
  PROVE  MaxUsed(used) \in Minor /\ \A s \in used : s.minor <= MaxUsed(used)
  <1>0. MaxMinor \in Nat
    BY SubaddressAssumption DEF SubaddressAssumption
  <1>1. CASE used = {}
    BY <1>0, <1>1 DEF MaxUsed, Minor
  <1>2. CASE used # {}
    <2> DEFINE T == {MaxMinor - s.minor : s \in used}
               last(s) == s \in used /\ \A r \in used : ~Less(s, r)
    <2>1. \A s \in used : s.minor \in Nat /\ s.minor <= MaxMinor /\ s.major = major_index
      BY <1>0, Indices DEF Minor
    <2>2. T \in SUBSET Nat /\ T # {}
      BY <1>0, <1>2, <2>1
    <2>3. PICK n \in T : \A k \in T : n <= k
      BY <2>2, SmallestElement
    <2>4. PICK s \in used : n = MaxMinor - s.minor
      OBVIOUS
    <2>5. \A r \in used : MaxMinor - s.minor <= MaxMinor - r.minor
      BY <2>3, <2>4
    <2>6. \A r \in used : r.minor <= s.minor
      BY <1>0, <2>1, <2>5
    <2>7. major_index \in Nat
      BY SubaddressAssumption DEF SubaddressAssumption
    <2>8. \A q, r \in used : ~Less(q, r) <=> r.minor <= q.minor
      BY <2>1, <2>7 DEF Less
    <2>9. last(s)
      BY <2>6, <2>8
    <2>10. last(CHOOSE q \in used : \A r \in used : ~Less(q, r))
      BY <2>9
    <2> QED
      BY <1>0, <1>2, <2>1, <2>8, <2>10 DEF MaxUsed, Minor
  <1> QED
    BY <1>1, <1>2
------------------------------------------------------------------------------
\* Tables: their types, and at most one invoice for a subaddress.
Table(t) == DOMAIN t \subseteq InvoiceIdSet /\ \A i \in DOMAIN t : t[i] \in InvoiceSet
Injective(t) == \A i, j \in DOMAIN t : i.sub_index = j.sub_index => i = j

LEMMA EmptyIsTable == Table(EmptyTable) /\ Injective(EmptyTable) /\ SubIndices(EmptyTable) = {}
  BY DEF Table, Injective, EmptyTable, SubIndices

LEMMA PutTable ==
  ASSUME NEW t, Table(t), NEW i \in InvoiceIdSet, NEW v \in InvoiceSet
  PROVE  /\ Table(Put(t, i, v))
         /\ DOMAIN Put(t, i, v) = DOMAIN t \cup {i}
         /\ SubIndices(Put(t, i, v)) = SubIndices(t) \cup {i.sub_index}
  BY DEF Table, Put, SubIndices

LEMMA WithoutTable ==
  ASSUME NEW t, Table(t), NEW i
  PROVE  /\ Table(Without(t, i))
         /\ DOMAIN Without(t, i) = DOMAIN t \ {i}
         /\ SubIndices(Without(t, i)) \subseteq SubIndices(t)
         /\ i \in DOMAIN t => SubIndices(t) \subseteq SubIndices(Without(t, i)) \cup {i.sub_index}
         /\ Injective(t) => Injective(Without(t, i))
         /\ Injective(t) /\ i \in DOMAIN t => i.sub_index \notin SubIndices(Without(t, i))
  BY DEF Table, Without, SubIndices, Injective
------------------------------------------------------------------------------
\* What the three stores have in common: memory keeps nothing, sqlite everything
\* outside a transaction.
StoreInv ==
  /\ backend \in {"memory", "sled", "sqlite"} /\ in_txn \in BOOLEAN
  /\ disk # {}
  /\ backend = "memory" => disk = {EmptyTable}
  /\ backend = "sqlite" /\ ~in_txn => disk = {table}

\* A write has reached the disk, or may be undone.
Kept == StoreInv' /\ backend' = backend /\ disk' \subseteq disk \cup {table'}

LEMMA InsertEffect ==
  ASSUME StoreInv, NEW i, NEW v, Insert(i, v)
  PROVE  i \notin DOMAIN table /\ table' = Put(table, i, v) /\ Kept
  BY DEF StoreInv, Insert, MemoryInsert, SledInsert, SqliteInsert, Buffered, Executed, Kept

LEMMA RemoveEffect ==
  ASSUME StoreInv, NEW i, Remove(i)
  PROVE  i \in DOMAIN table /\ table' = Without(table, i) /\ Kept
  BY DEF StoreInv, Remove, MemoryRemove, SledRemove, SqliteRemove, Buffered, Executed, Kept

LEMMA UpdateEffect ==
  ASSUME StoreInv, NEW i, NEW v, Update(i, v) \/ UpdateFails(i, v)
  PROVE  /\ Kept
         /\ \/ UNCHANGED <<table, disk>>
            \/ i \in DOMAIN table /\ table' = Put(table, i, v)
  <1>1. CASE Update(i, v) /\ backend = "memory"
    BY <1>1 DEF StoreInv, Update, MemoryUpdate, Kept
  <1>2. CASE Update(i, v) /\ backend = "sled"
    BY <1>2 DEF StoreInv, Update, SledUpdate, Buffered, Kept
  <1>3. CASE Update(i, v) /\ backend = "sqlite"
    BY <1>3 DEF StoreInv, Update, SqliteUpdate, Executed, Kept
  <1>4. CASE UpdateFails(i, v)
    BY <1>4 DEF StoreInv, UpdateFails, SledUpdate, Buffered, SqliteUpdateFails, Kept
  <1> QED
    BY <1>1, <1>2, <1>3, <1>4 DEF StoreInv

LEMMA FlushEffect ==
  ASSUME StoreInv, Flush
  PROVE  /\ Kept /\ table' = table /\ in_txn' = in_txn
         /\ IF backend = "sled" THEN disk' = {table} ELSE disk' = disk
  BY DEF StoreInv, Flush, SledFlush, Kept

LEMMA ReopenEffect ==
  ASSUME StoreInv, Reopen
  PROVE  StoreInv' /\ backend' = backend /\ table' \in disk /\ disk' = {table'}
  BY DEF StoreInv, Reopen
------------------------------------------------------------------------------
\* The free subaddresses.
LEMMA RemoveRandomEffect ==
  ASSUME highest \in Minor, available \subseteq UpTo(highest), NEW s, RemoveRandom(s)
  PROVE  /\ s \in available
         /\ highest' \in Minor /\ highest <= highest'
         /\ available' = (available \ {s}) \cup (UpTo(highest') \ UpTo(highest))
         /\ available' = {} => highest' = MaxMinor
  <1> DEFINE rest == available \ {s}
  <1>1. MaxMinor \in Nat /\ MinAvailable \in Nat \ {0} /\ highest \in Nat /\ highest <= MaxMinor
    BY SubaddressAssumption DEF SubaddressAssumption, Minor
  <1>2. /\ s \in available /\ highest' = Extended(rest)
        /\ available' = rest \cup {SubIndex(major_index, k) : k \in highest + 1 .. highest'}
    BY DEF RemoveRandom
  <1>3. /\ highest' = highest \/ highest' = highest + MinAvailable \/ highest' = MaxMinor
        /\ highest' \in Nat /\ highest <= highest' /\ highest' <= MaxMinor
    BY <1>1, <1>2 DEF Extended
  <1>4. {SubIndex(major_index, k) : k \in highest + 1 .. highest'} = UpTo(highest') \ UpTo(highest)
    BY <1>1, <1>3 DEF UpTo, SubIndex
  <1>5. ASSUME rest = {}, highest' # MaxMinor PROVE available' # {}
    <2>1. Cardinality(rest) = 0
      BY <1>5, FS_EmptySet
    <2>2. highest' = highest + MinAvailable
      BY <1>1, <1>2, <1>5, <2>1 DEF Extended
    <2>3. highest' \in highest + 1 .. highest'
      BY <1>1, <1>3, <2>2
    <2> QED
      BY <1>2, <2>3
  <1> QED
    BY <1>1, <1>2, <1>3, <1>4, <1>5 DEF Minor

LEMMA FirstHighestCovers ==
  ASSUME NEW used \in SUBSET SubIndexSet
  PROVE  FirstHighest(used) \in Minor /\ used \subseteq UpTo(FirstHighest(used))
  <1>1. MaxMinor \in Nat /\ MinAvailable \in Nat \ {0} /\ MinAvailable - 1 <= MaxMinor
    BY SubaddressAssumption DEF SubaddressAssumption
  <1>2. /\ FirstHighest(used) \in Minor
        /\ \A s \in used : s.minor \in Minor => s.minor <= FirstHighest(used)
    BY <1>1, MaxUsedIsLast DEF FirstHighest, Minor
  <1> QED
    BY <1>2, Indices

LEMMA ResetEffect ==
  ASSUME NEW used \in SUBSET SubIndexSet, SubaddressesReset(used)
  PROVE  highest' \in Minor /\ used \subseteq UpTo(highest') /\ available' = UpTo(highest') \ used
  BY FirstHighestCovers DEF SubaddressesReset
------------------------------------------------------------------------------
\* The inductive invariant of the calls, in four parts.  A call that inserts has
\* terms and an identifier of its subaddress.
CallTypes ==
  /\ daemon_height \in Heights \cup {0} /\ registered \subseteq InvoiceIdSet
  /\ pc \in [Caller -> {"ready", "load", "insert", "register", "give", "unregister"}]
  /\ sub_index \in [Caller -> SubIndexSet] /\ id \in [Caller -> InvoiceIdSet]
  /\ terms \in [Caller -> 0 .. MaxInvoices] /\ created \in 0 .. MaxInvoices
  /\ \A c \in Caller : pc[c] \in {"load", "insert"} => terms[c] # 0
  /\ \A c \in Caller : pc[c] \in {"insert", "give"} => id[c].sub_index = sub_index[c]

ScanTypes ==
  /\ step \in {"down", "created", "loop", "failed", "scanning", "saving"}
  /\ watched \in [major : {1, major_index}, last : Minor]
  /\ Table(queue)
  /\ lives \in 0 .. MaxLives

\* Whatever a crash may leave has one invoice for a subaddress.
Sound ==
  /\ StoreInv /\ backend \in Backends
  /\ Table(table) /\ Injective(table)
  /\ \A t \in disk : Table(t) /\ Injective(t)

\* A subaddress is free, in use, or in the hands of one call.
Owned ==
  /\ highest \in Minor /\ available \subseteq UpTo(highest)
  /\ SubIndices(table) \subseteq UpTo(highest)
  /\ available \cap SubIndices(table) = {}
  /\ \A c \in Caller : Holding(c) =>
       sub_index[c] \in UpTo(highest) /\ sub_index[c] \notin available \cup SubIndices(table)
  /\ \A c, d \in Caller : Holding(c) /\ Holding(d) /\ c # d => sub_index[c] # sub_index[d]

Core == CallTypes /\ ScanTypes /\ Sound /\ Owned

LEMMA CoreTypes == Core /\ unflushed \in BOOLEAN => TypeOK
  BY DEF Core, CallTypes, ScanTypes, Sound, Owned, StoreInv, Table, TypeOK

LEMMA TableIndices ==
  ASSUME NEW t, Table(t)
  PROVE  SubIndices(t) \in SUBSET SubIndexSet /\ \A i \in DOMAIN t : i.sub_index \in SubIndices(t)
  BY Ids DEF Table, SubIndices

LEMMA InitCore == Init => Core
  <1> SUFFICES ASSUME Init PROVE Core
    OBVIOUS
  <1> USE TrackingAssumption DEF TrackingAssumption
  <1>1. CallTypes
    BY Ids DEF Init, TrackingInit, CallTypes, AllReady, NoSubs, NoIds, NoTerms
  <1>2. ScanTypes
    <2>1. watched \in [major : {1, major_index}, last : Minor]
      BY SubaddressAssumption DEF SubaddressAssumption, Init, TrackingInit, Unwatched, Minor
    <2> QED
      BY <2>1, EmptyIsTable DEF Init, TrackingInit, ScanTypes
  <1>3. Sound
    BY EmptyIsTable, BackendsAssumption DEF Init, TrackingInit, StoresInit, Sound, StoreInv, BackendsAssumption
  <1>4. Owned
    <2>1. highest \in Minor /\ available = UpTo(highest)
      BY FirstHighestCovers DEF Init, TrackingInit, SubaddressesInit
    <2>2. \A c \in Caller : ~Holding(c)
      BY DEF Init, TrackingInit, AllReady, Holding
    <2> QED
      BY <2>1, <2>2, EmptyIsTable DEF Init, TrackingInit, StoresInit, Owned
  <1> QED
    BY <1>1, <1>2, <1>3, <1>4 DEF Core
------------------------------------------------------------------------------
LEMMA CallTypesStep ==
  ASSUME Core, TrackingNext
  PROVE  CallTypes'
  <1> USE DEF calls
  <1>0. CallTypes /\ available \subseteq SubIndexSet /\ Table(table)
    BY Indices DEF Core, Owned, Sound
  <1>1. ASSUME NEW c \in Caller, Call(c) PROVE CallTypes'
    <2>1. CASE Take(c)
      <3>1. PICK s \in available : sub_index' = [sub_index EXCEPT ![c] = s]
        BY <2>1 DEF Take
      <3>2. created + 1 \in 1 .. MaxInvoices
        BY <1>0, <2>1, TrackingAssumption DEF Take, CallTypes, TrackingAssumption
      <3> QED
        BY <1>0, <2>1, <3>1, <3>2 DEF Take, CallTypes
    <2>2. CASE Load(c)
      <3>1. IdOf(sub_index[c], daemon_height) \in InvoiceIdSet
            /\ IdOf(sub_index[c], daemon_height).sub_index = sub_index[c]
        BY <1>0, Ids DEF CallTypes
      <3> QED
        BY <1>0, <2>2, <3>1 DEF Load, CallTypes
    <2>3. CASE InsertInvoice(c)
      BY <1>0, <2>3 DEF InsertInvoice, CallTypes
    <2>4. CASE InsertInvoiceFails(c) \/ Register(c) \/ Unregister(c)
      <3>1. Return(c) /\ UNCHANGED <<daemon_height, created>> /\ registered' \subseteq registered \cup {id[c]}
        BY <2>4 DEF InsertInvoiceFails, Register, Unregister
      <3>2. 0 \in 0 .. MaxInvoices
        BY TrackingAssumption DEF TrackingAssumption
      <3> QED
        BY <1>0, <3>1, <3>2, Ids DEF Return, CallTypes
    <2>5. CASE RemoveInvoice(c)
      <3>1. PICK i \in DOMAIN table :
              id' = [id EXCEPT ![c] = i] /\ sub_index' = [sub_index EXCEPT ![c] = i.sub_index]
        BY <2>5 DEF RemoveInvoice
      <3>2. i \in InvoiceIdSet /\ i.sub_index \in SubIndexSet
        BY <1>0, Ids DEF Table
      <3> QED
        BY <1>0, <2>5, <3>1, <3>2 DEF RemoveInvoice, CallTypes
    <2>6. CASE PutBack(c)
      BY <1>0, <2>6 DEF PutBack, CallTypes
    <2>7. CASE RemoveInvoiceFails(c)
      BY <1>0, <2>7 DEF RemoveInvoiceFails, CallTypes
    <2> QED
      BY <1>1, <2>1, <2>2, <2>3, <2>4, <2>5, <2>6, <2>7 DEF Call
  <1>2. CASE ScannerStep
    <2>1. UNCHANGED <<registered, calls>> /\ (daemon_height' = daemon_height \/ daemon_height' \in Heights)
      BY <1>2 DEF ScannerStep, Create, Spawn, Refresh, Height, ScanFails, ReadInvoices, Save, ScanEnds,
         FlushFails, Stop
    <2> QED
      BY <1>0, <2>1 DEF CallTypes
  <1>3. CASE Crash
    <2>1. 0 \in 0 .. MaxInvoices
      BY TrackingAssumption DEF TrackingAssumption
    <2> QED
      BY <1>0, <1>3, <2>1, Ids DEF Crash, CallTypes, AllReady, NoSubs, NoIds, NoTerms
  <1> QED
    BY <1>1, <1>2, <1>3 DEF TrackingNext

LEMMA ScanTypesStep ==
  ASSUME Core, TrackingNext
  PROVE  ScanTypes'
  <1> USE DEF scanning
  <1>0. ScanTypes /\ Table(table) /\ highest \in Minor /\ Unwatched \in [major : {1, major_index}, last : Minor]
    BY SubaddressAssumption DEF SubaddressAssumption, Core, Owned, Sound, Unwatched, Minor
  <1>1. ASSUME NEW c \in Caller, Call(c) PROVE ScanTypes'
    <2>1. UNCHANGED <<scanning, lives>>
      BY <1>1 DEF Call, Take, Load, InsertInvoice, InsertInvoiceFails, Register, RemoveInvoice,
         RemoveInvoiceFails, PutBack, Unregister
    <2> QED
      BY <1>0, <2>1 DEF ScanTypes
  <1>2. CASE Create \/ Spawn \/ Height \/ ScanFails \/ ScanEnds \/ FlushFails \/ Stop
    <2>1. step' \in {"down", "created", "loop", "failed", "scanning"} /\ UNCHANGED <<queue, lives>>
      BY <1>0, <1>2 DEF Create, Spawn, Height, ScanFails, ScanEnds, FlushFails, Stop, ScanTypes
    <2>2. watched' \in {watched, Unwatched, [major |-> 1, last |-> highest]}
      BY <1>2 DEF Create, Spawn, Height, ScanFails, ScanEnds, FlushFails, Stop
    <2>3. watched' \in [major : {1, major_index}, last : Minor]
      BY <1>0, <2>2 DEF ScanTypes
    <2> QED
      BY <1>0, <2>1, <2>3 DEF ScanTypes
  <1>3. CASE Refresh
    <2>1. Refreshed \in [major : {1, major_index}, last : Minor]
      BY <1>0 DEF Refreshed, ScanTypes
    <2> QED
      BY <1>0, <1>3, <2>1 DEF Refresh, ScanTypes
  <1>4. CASE ReadInvoices
    <2>1. PICK changed \in SUBSET DOMAIN table : queue' = [i \in changed |-> Scanned(table[i])]
      BY <1>4 DEF ReadInvoices
    <2>2. \A i \in changed : i \in InvoiceIdSet /\ Scanned(table[i]) \in InvoiceSet
      BY <1>0 DEF Table, InvoiceSet, Scanned
    <2>3. Table(queue')
      BY <2>1, <2>2 DEF Table
    <2> QED
      BY <1>0, <1>4, <2>3 DEF ReadInvoices, ScanTypes, Table
  <1>5. CASE Save
    <2>1. \E i \in DOMAIN queue : queue' = Without(queue, i)
      BY <1>5 DEF Save
    <2>2. Table(queue')
      BY <1>0, <2>1, WithoutTable DEF ScanTypes
    <2> QED
      BY <1>0, <1>5, <2>2 DEF Save, ScanTypes, Table
  <1>6. CASE Crash
    BY <1>0, <1>6, EmptyIsTable, TrackingAssumption DEF TrackingAssumption, Crash, ScanTypes, Table
  <1> QED
    BY <1>1, <1>2, <1>3, <1>4, <1>5, <1>6 DEF TrackingNext, ScannerStep

\* The steps that leave the store and the subaddresses alone.
LEMMA Quiet ==
  ASSUME Create \/ Spawn \/ Refresh \/ Height \/ ScanFails \/ ReadInvoices \/ FlushFails \/ Stop
  PROVE  UNCHANGED <<stores, subaddresses, registered, calls, lives>>
  BY DEF Create, Spawn, Refresh, Height, ScanFails, ReadInvoices, FlushFails, Stop

LEMMA SaveEffect ==
  ASSUME Core, Save
  PROVE  /\ Kept /\ UNCHANGED <<subaddresses, registered, calls, lives, step, watched>>
         /\ DOMAIN table' = DOMAIN table
         /\ \/ UNCHANGED <<table, disk>>
            \/ \E i \in DOMAIN table, v \in InvoiceSet : table' = Put(table, i, v)
  <1>1. PICK i \in DOMAIN queue : Update(i, queue[i]) \/ UpdateFails(i, queue[i])
    BY DEF Save
  <1>2. StoreInv /\ queue[i] \in InvoiceSet /\ Table(table)
    BY DEF Core, Sound, ScanTypes, Table
  <1>3. /\ Kept
        /\ \/ UNCHANGED <<table, disk>>
           \/ i \in DOMAIN table /\ table' = Put(table, i, queue[i])
    BY <1>1, <1>2, UpdateEffect
  <1>4. UNCHANGED <<subaddresses, registered, calls, lives, step, watched>>
    BY DEF Save
  <1>5. ASSUME i \in DOMAIN table, table' = Put(table, i, queue[i]) PROVE DOMAIN table' = DOMAIN table
    BY <1>5 DEF Put
  <1> QED
    BY <1>2, <1>3, <1>4, <1>5

\* A call inserts an invoice whose subaddress is in its hands.
LEMMA InsertInvoiceEffect ==
  ASSUME Core, NEW c \in Caller, InsertInvoice(c)
  PROVE  /\ Kept
         /\ id[c] \in InvoiceIdSet \ DOMAIN table /\ id[c].sub_index = sub_index[c] /\ Holding(c)
         /\ \E v \in InvoiceSet : table' = Put(table, id[c], v)
         /\ Table(table') /\ DOMAIN table' = DOMAIN table \cup {id[c]}
         /\ SubIndices(table') = SubIndices(table) \cup {sub_index[c]}
  <1> DEFINE v == [terms |-> terms[c], scanned |-> FALSE]
  <1>1. pc[c] = "insert" /\ Insert(id[c], v)
    BY DEF InsertInvoice
  <1>2. id[c] \in InvoiceIdSet /\ id[c].sub_index = sub_index[c] /\ v \in InvoiceSet
    <2>1. terms[c] \in 1 .. MaxInvoices
      BY <1>1, TrackingAssumption DEF TrackingAssumption, Core, CallTypes
    <2> QED
      BY <1>1, <2>1 DEF Core, CallTypes, InvoiceSet
  <1>3. id[c] \notin DOMAIN table /\ table' = Put(table, id[c], v) /\ Kept
    BY <1>1, InsertEffect DEF Core, Sound
  <1> HIDE DEF v
  <1>4. Table(table) /\ Holding(c)
    BY <1>1 DEF Core, Sound, Holding
  <1>5. /\ Table(table') /\ DOMAIN table' = DOMAIN table \cup {id[c]}
        /\ SubIndices(table') = SubIndices(table) \cup {sub_index[c]}
    BY <1>2, <1>3, <1>4, PutTable
  <1> QED
    BY <1>2, <1>3, <1>4, <1>5

LEMMA RemovalEffect ==
  ASSUME Core, NEW i, Remove(i)
  PROVE  /\ i \in DOMAIN table /\ table' = Without(table, i) /\ Kept
         /\ i.sub_index \in SubIndices(table)
         /\ SubIndices(table') \subseteq SubIndices(table)
         /\ SubIndices(table) \subseteq SubIndices(table') \cup {i.sub_index}
         /\ i.sub_index \notin SubIndices(table')
         /\ Table(table') /\ Injective(table') /\ DOMAIN table' = DOMAIN table \ {i}
  <1>1. i \in DOMAIN table /\ table' = Without(table, i) /\ Kept
    BY RemoveEffect DEF Core, Sound
  <1>2. Table(table) /\ Injective(table) /\ i.sub_index \in SubIndices(table)
    BY <1>1 DEF Core, Sound, SubIndices
  <1> QED
    BY <1>1, <1>2, WithoutTable

LEMMA RemoveInvoiceEffect ==
  ASSUME Core, NEW c \in Caller, RemoveInvoice(c)
  PROVE  \E i \in DOMAIN table :
           /\ Remove(i)
           /\ id' = [id EXCEPT ![c] = i] /\ sub_index' = [sub_index EXCEPT ![c] = i.sub_index]
  BY DEF RemoveInvoice

LEMMA RemoveInvoiceFailsEffect ==
  ASSUME Core, NEW c \in Caller, RemoveInvoiceFails(c)
  PROVE  /\ \E i \in DOMAIN table : Remove(i)
         /\ UNCHANGED <<highest, available, daemon_height, registered, calls, scanning, lives>>
  BY DEF RemoveInvoiceFails, RemoveFails, subaddresses

LEMMA SoundStep ==
  ASSUME Core, TrackingNext
  PROVE  Sound'
  <1>0. Sound
    BY DEF Core
  <1>1. SUFFICES ASSUME Kept, Table(table'), Injective(table') PROVE Sound'
    <2>1. ASSUME UNCHANGED stores PROVE Sound'
      BY <1>0, <2>1 DEF Sound, StoreInv, stores
    <2>2. ASSUME NEW c \in Caller, InsertInvoice(c) PROVE Kept /\ Table(table') /\ Injective(table')
      <3>1. sub_index[c] \notin SubIndices(table)
        BY <2>2, InsertInvoiceEffect DEF Core, Owned
      <3>2. DOMAIN table' = DOMAIN table \cup {id[c]} /\ id[c].sub_index = sub_index[c]
        BY <2>2, InsertInvoiceEffect
      <3>3. Injective(table')
        BY <1>0, <3>1, <3>2 DEF Injective, SubIndices, Sound
      <3> QED
        BY <2>2, <3>3, InsertInvoiceEffect
    <2>3. ASSUME NEW c \in Caller, RemoveInvoice(c) \/ RemoveInvoiceFails(c)
          PROVE  Kept /\ Table(table') /\ Injective(table')
      BY <2>3, RemoveInvoiceEffect, RemoveInvoiceFailsEffect, RemovalEffect
    <2>4. ASSUME NEW c \in Caller, Call(c), ~InsertInvoice(c), ~RemoveInvoice(c), ~RemoveInvoiceFails(c)
          PROVE  UNCHANGED stores
      BY <2>4 DEF Call, Take, Load, InsertInvoiceFails, InsertFails, Register, PutBack, Unregister
    <2>5. CASE Save
      <3>1. Table(table')
        BY <1>0, <2>5, SaveEffect, PutTable DEF Sound, Table
      <3> QED
        BY <1>0, <2>5, <3>1, SaveEffect DEF Sound, Injective
    <2>6. CASE ScanEnds
      BY <1>0, <2>6, FlushEffect DEF ScanEnds, Sound
    <2>7. CASE Crash
      BY <1>0, <2>7, ReopenEffect DEF Crash, Sound
    <2> QED
      BY <1>1, <2>1, <2>2, <2>3, <2>4, <2>5, <2>6, <2>7, Quiet DEF TrackingNext, ScannerStep
  <1> QED
    BY <1>0, <1>1 DEF Sound, Kept, StoreInv

LEMMA TakeEffect ==
  ASSUME Core, NEW c \in Caller, Take(c)
  PROVE  \E s \in available :
           /\ sub_index' = [sub_index EXCEPT ![c] = s] /\ pc' = [pc EXCEPT ![c] = "load"]
           /\ highest' \in Minor /\ UpTo(highest) \subseteq UpTo(highest')
           /\ available' = (available \ {s}) \cup (UpTo(highest') \ UpTo(highest))
           /\ available' = {} => highest' = MaxMinor
           /\ UNCHANGED <<stores, registered, id, lives>> /\ ~Holding(c)
  <1>1. PICK s \in available : RemoveRandom(s) /\ sub_index' = [sub_index EXCEPT ![c] = s]
    BY DEF Take
  <1>2. /\ highest \in Minor /\ highest' \in Minor /\ highest <= highest'
        /\ available' = (available \ {s}) \cup (UpTo(highest') \ UpTo(highest))
        /\ available' = {} => highest' = MaxMinor
    BY <1>1, RemoveRandomEffect DEF Core, Owned
  <1>3. UpTo(highest) \subseteq UpTo(highest')
    BY <1>2 DEF UpTo, Minor
  <1> QED
    BY <1>1, <1>2, <1>3 DEF Take, Holding

LEMMA OwnedStep ==
  ASSUME Core, TrackingNext
  PROVE  Owned'
  <1>0. Owned /\ CallTypes
    BY DEF Core
  <1>1. ASSUME NEW c \in Caller, Call(c) PROVE Owned'
    <2> SUFFICES /\ highest' \in Minor /\ available' \subseteq UpTo(highest')
                 /\ SubIndices(table') \subseteq UpTo(highest')
                 /\ available' \cap SubIndices(table') = {}
                 /\ \A d \in Caller : Holding(d)' =>
                      sub_index'[d] \in UpTo(highest') /\ sub_index'[d] \notin available' \cup SubIndices(table')
                 /\ \A d, e \in Caller : Holding(d)' /\ Holding(e)' /\ d # e => sub_index'[d] # sub_index'[e]
      BY DEF Owned
    <2>1. CASE Take(c)
      <3>1. PICK s \in available :
              /\ sub_index' = [sub_index EXCEPT ![c] = s] /\ pc' = [pc EXCEPT ![c] = "load"]
              /\ highest' \in Minor /\ UpTo(highest) \subseteq UpTo(highest')
              /\ available' = (available \ {s}) \cup (UpTo(highest') \ UpTo(highest))
              /\ UNCHANGED stores
        BY <2>1, TakeEffect
      <3>2. \A d \in Caller : d # c => Holding(d)' = Holding(d) /\ sub_index'[d] = sub_index[d]
        BY <1>0, <3>1 DEF Holding, CallTypes
      <3>3. sub_index'[c] = s /\ table' = table
        BY <1>0, <3>1 DEF CallTypes, stores
      <3> QED
        BY <1>0, <3>1, <3>2, <3>3 DEF Owned
    <2>2. CASE Load(c)
      <3>1. /\ UNCHANGED <<highest, available, table, sub_index>>
            /\ \A d \in Caller : Holding(d)' = Holding(d)
        BY <1>0, <2>2 DEF Load, CallTypes, Holding, stores, subaddresses
      <3> QED
        BY <1>0, <3>1 DEF Owned
    <2>3. CASE InsertInvoice(c)
      <3>1. UNCHANGED <<highest, available, sub_index>> /\ pc' = [pc EXCEPT ![c] = "register"]
        BY <2>3 DEF InsertInvoice, subaddresses
      <3>2. Holding(c) /\ SubIndices(table') = SubIndices(table) \cup {sub_index[c]}
        BY <2>3, InsertInvoiceEffect
      <3>3. ~Holding(c)' /\ \A d \in Caller : d # c => Holding(d)' = Holding(d)
        BY <1>0, <3>1 DEF Holding, CallTypes
      <3> QED
        BY <1>0, <3>1, <3>2, <3>3 DEF Owned
    <2>4. CASE InsertInvoiceFails(c) \/ Register(c) \/ Unregister(c)
      <3>1. UNCHANGED <<highest, available, table>> /\ Return(c)
        BY <2>4 DEF InsertInvoiceFails, InsertFails, Register, Unregister, stores, subaddresses
      <3>2. /\ ~Holding(c)'
            /\ \A d \in Caller : d # c => Holding(d)' = Holding(d) /\ sub_index'[d] = sub_index[d]
        BY <1>0, <3>1 DEF Return, Holding, CallTypes
      <3> QED
        BY <1>0, <3>1, <3>2 DEF Owned
    <2>5. CASE RemoveInvoice(c)
      <3>1. PICK i \in DOMAIN table :
              /\ sub_index' = [sub_index EXCEPT ![c] = i.sub_index]
              /\ i.sub_index \in SubIndices(table) /\ i.sub_index \notin SubIndices(table')
              /\ SubIndices(table') \subseteq SubIndices(table)
        BY <2>5, RemoveInvoiceEffect, RemovalEffect
      <3>2. UNCHANGED <<highest, available>> /\ pc' = [pc EXCEPT ![c] = "give"]
        BY <2>5 DEF RemoveInvoice, subaddresses
      <3>3. /\ sub_index'[c] = i.sub_index
            /\ \A d \in Caller : d # c => Holding(d)' = Holding(d) /\ sub_index'[d] = sub_index[d]
        BY <1>0, <3>1, <3>2 DEF Holding, CallTypes
      <3> QED
        BY <1>0, <3>1, <3>2, <3>3 DEF Owned
    <2>6. CASE PutBack(c)
      <3>1. /\ UNCHANGED <<highest, table, sub_index>> /\ available' = available \cup {sub_index[c]}
            /\ pc' = [pc EXCEPT ![c] = "unregister"] /\ Holding(c)
        BY <2>6 DEF PutBack, GiveBack, stores, Holding
      <3>2. ~Holding(c)' /\ \A d \in Caller : d # c => Holding(d)' = Holding(d)
        BY <1>0, <3>1 DEF Holding, CallTypes
      <3> QED
        BY <1>0, <3>1, <3>2 DEF Owned
    <2>7. CASE RemoveInvoiceFails(c)
      <3>1. UNCHANGED <<highest, available, pc, sub_index>> /\ SubIndices(table') \subseteq SubIndices(table)
        BY <2>7, RemoveInvoiceFailsEffect, RemovalEffect DEF calls
      <3> QED
        BY <1>0, <3>1 DEF Owned, Holding
    <2> QED
      BY <1>1, <2>1, <2>2, <2>3, <2>4, <2>5, <2>6, <2>7 DEF Call
  <1>2. ASSUME UNCHANGED <<subaddresses, calls>>, SubIndices(table') = SubIndices(table) PROVE Owned'
    BY <1>0, <1>2 DEF Owned, Holding, subaddresses, calls
  <1>3. CASE Save
    BY <1>2, <1>3, SaveEffect DEF SubIndices
  <1>4. CASE ScanEnds
    BY <1>2, <1>4, FlushEffect DEF ScanEnds, Core, Sound, SubIndices
  <1>5. CASE Crash
    <2>1. Table(table')
      BY <1>5, ReopenEffect DEF Crash, Core, Sound
    <2>2. SubIndices(table') \in SUBSET SubIndexSet
      BY <2>1, TableIndices
    <2>3. /\ highest' \in Minor /\ SubIndices(table') \subseteq UpTo(highest')
          /\ available' = UpTo(highest') \ SubIndices(table')
      BY <1>5, <2>2, ResetEffect DEF Crash
    <2>4. \A d \in Caller : ~Holding(d)'
      BY <1>5 DEF Crash, AllReady, Holding
    <2> QED
      BY <2>3, <2>4 DEF Owned
  <1> QED
    BY <1>1, <1>2, <1>3, <1>4, <1>5, Quiet DEF TrackingNext, ScannerStep, stores

LEMMA CoreStep ==
  ASSUME Core, TrackingNext
  PROVE  Core'
  BY CallTypesStep, ScanTypesStep, SoundStep, OwnedStep DEF Core

LEMMA CoreStutter ==
  ASSUME Core, UNCHANGED vars
  PROVE  Core'
  <1>1. UNCHANGED <<stores, subaddresses, daemon_height, registered, calls, scanning, lives>>
    BY DEF vars, tracking
  <1>2. CallTypes'
    BY <1>1 DEF Core, CallTypes, calls
  <1>3. ScanTypes'
    BY <1>1 DEF Core, ScanTypes, scanning, Table
  <1>4. Sound'
    BY <1>1 DEF Core, Sound, StoreInv, stores
  <1>5. Owned'
    BY <1>1 DEF Core, Owned, Holding, calls, stores, subaddresses
  <1> QED
    BY <1>2, <1>3, <1>4, <1>5 DEF Core

LEMMA CoreAlways == Spec => []Core
  <1>1. Core /\ [Next]_vars => Core'
    BY CoreStep, CoreStutter DEF Next
  <1> QED
    BY <1>1, InitCore, PTL DEF Spec

UnflushedType == unflushed \in BOOLEAN

LEMMA UnflushedAlways == Spec => []UnflushedType
  <1>1. Init => UnflushedType
    BY DEF Init, UnflushedType
  <1>2. UnflushedType /\ [Next]_vars => UnflushedType'
    BY DEF Next, Remember, vars, ghosts, UnflushedType
  <1> QED
    BY <1>1, <1>2, PTL DEF Spec

(***************************************************************************)
(* The types of the store, the free subaddresses, the calls and the loop.  *)
(***************************************************************************)
THEOREM TrackingTypes == Spec => []TypeOK
  <1>1. Core /\ UnflushedType => TypeOK
    BY CoreTypes DEF UnflushedType
  <1> QED
    BY <1>1, CoreAlways, UnflushedAlways, PTL

(***************************************************************************)
(* No two stored invoices have the same subaddress, for any number of      *)
(* threads, in each of the stores, over any number of crashes              *)
(* (payment_gateway.rs:303, 340; scanner.rs:204).                          *)
(***************************************************************************)
THEOREM OneInvoice == Spec => []OneInvoicePerSubaddress
  <1>1. Core => OneInvoicePerSubaddress
    BY DEF Core, Sound, Injective, OneInvoicePerSubaddress
  <1> QED
    BY <1>1, CoreAlways, PTL
------------------------------------------------------------------------------
(***************************************************************************)
(* A scan recognises payments to all invoices that were stored when it     *)
(* looked at its key checker (payment_gateway.rs:174): its table reaches   *)
(* the index that the other threads had raised by then, and no stored      *)
(* invoice lies behind that.                                               *)
(***************************************************************************)
THEOREM CheckerIsLargeEnough == Spec => []CheckerCovers
  <1> DEFINE Inv == CheckerCovers /\ (step # "scanning" => due = {})
  <1>1. Init => Inv
    BY DEF Init, CheckerCovers
  <1>2. ASSUME Core, Inv, Next PROVE Inv'
    <2>1. due' = IF step' # "scanning" THEN {} ELSE IF step # "scanning" THEN DOMAIN table ELSE due
      BY <1>2 DEF Next, Remember
    <2>2. CASE step' # "scanning"
      BY <2>1, <2>2 DEF CheckerCovers
    <2>3. CASE step = "scanning" /\ step' = "scanning"
      <3>1. watched' = watched
        BY <1>2, <2>3 DEF Next, TrackingNext, ScannerStep, Create, Spawn, Refresh, Height, ScanFails,
           ReadInvoices, Save, ScanEnds, FlushFails, Stop, Crash, Call, Take, Load, InsertInvoice,
           InsertInvoiceFails, Register, RemoveInvoice, RemoveInvoiceFails, PutBack, Unregister, scanning
      <3> QED
        BY <1>2, <2>1, <2>3, <3>1 DEF CheckerCovers
    <2>4. CASE step # "scanning" /\ step' = "scanning"
      <3>1. Refresh
        BY <1>2, <2>4 DEF Next, TrackingNext, ScannerStep, Create, Spawn, Refresh, Height, ScanFails,
           ReadInvoices, Save, ScanEnds, FlushFails, Stop, Crash, Call, Take, Load, InsertInvoice,
           InsertInvoiceFails, Register, RemoveInvoice, RemoveInvoiceFails, PutBack, Unregister, scanning
      <3>2. watched' = Refreshed /\ due' = DOMAIN table
        BY <2>1, <2>4, <3>1 DEF Refresh
      <3>3. ASSUME major_index = 1, NEW i \in DOMAIN table
            PROVE  i.sub_index.major = watched'.major /\ i.sub_index.minor <= watched'.last
        <4>1. i.sub_index \in SubIndexSet /\ i.sub_index \in UpTo(highest) /\ highest \in Minor
          BY <1>2, TableIndices DEF Core, Sound, Owned
        <4>2. /\ i.sub_index.major = major_index /\ i.sub_index.minor \in Nat
              /\ i.sub_index.minor <= highest /\ highest \in Nat
          BY <4>1, Indices, SubaddressAssumption DEF SubaddressAssumption, Minor
        <4>3. watched.major = 1 /\ watched.last \in Nat
          BY <1>2, <3>3, SubaddressAssumption DEF SubaddressAssumption, Core, ScanTypes, Minor
        <4> QED
          BY <3>2, <3>3, <4>2, <4>3 DEF Refreshed
      <3> QED
        BY <2>4, <3>2, <3>3 DEF CheckerCovers
    <2> QED
      BY <2>2, <2>3, <2>4
  <1>3. Inv /\ UNCHANGED vars => Inv'
    BY DEF vars, tracking, scanning, ghosts, CheckerCovers
  <1> QED
    BY <1>1, <1>2, <1>3, CoreAlways, PTL DEF Spec
------------------------------------------------------------------------------
\* Each step of a call, and how it leaves the calls of the others.
LEMMA CallsMove ==
  ASSUME Core, NEW c \in Caller, Call(c)
  PROVE  /\ \A d \in Caller : d # c => pc'[d] = pc[d] /\ id'[d] = id[d] /\ sub_index'[d] = sub_index[d]
         /\ Load(c) => sub_index' = sub_index
         /\ UNCHANGED <<lives, scanning>>
  <1>1. /\ pc \in [Caller -> {"ready", "load", "insert", "register", "give", "unregister"}]
        /\ sub_index \in [Caller -> SubIndexSet] /\ id \in [Caller -> InvoiceIdSet]
    BY DEF Core, CallTypes
  <1>2. CASE Take(c) \/ Load(c) \/ InsertInvoice(c) \/ PutBack(c) \/ RemoveInvoice(c)
    BY <1>1, <1>2 DEF Take, Load, InsertInvoice, PutBack, RemoveInvoice
  <1>3. CASE InsertInvoiceFails(c) \/ Register(c) \/ Unregister(c)
    BY <1>1, <1>3 DEF InsertInvoiceFails, Register, Unregister, Return, Load
  <1>4. CASE RemoveInvoiceFails(c)
    BY <1>4 DEF RemoveInvoiceFails, calls
  <1> QED
    BY <1>2, <1>3, <1>4 DEF Call

\* The scanning thread leaves the calls, the subaddresses and the registered
\* invoices alone, and removes no invoice.
LEMMA ScannerMoves ==
  ASSUME Core, ScannerStep
  PROVE  UNCHANGED <<subaddresses, registered, calls, lives>> /\ DOMAIN table' = DOMAIN table
  <1>1. CASE Save
    BY <1>1, SaveEffect
  <1>2. CASE ScanEnds
    BY <1>2, FlushEffect DEF ScanEnds, Core, Sound
  <1> QED
    BY <1>1, <1>2, Quiet DEF ScannerStep, stores

LEMMA CrashMoves ==
  ASSUME Core, Crash
  PROVE  /\ Crashed /\ pc' = AllReady
         /\ Table(table') /\ available' = UpTo(highest') \ SubIndices(table')
  <1>1. Crashed
    BY DEF Crash, Crashed, Core, ScanTypes
  <1>2. Table(table')
    BY ReopenEffect DEF Crash, Core, Sound
  <1> QED
    BY <1>1, <1>2, TableIndices, ResetEffect DEF Crash

(***************************************************************************)
(* new_invoice() finds no free subaddress (subaddress_cache.rs:93) only    *)
(* when all indices are used up, or the process was started that way.      *)
(***************************************************************************)
THEOREM AlwaysRefilled == Spec => []NeverRunsDry
  <1>1. Init => NeverRunsDry
    <2> SUFFICES ASSUME Init PROVE available # {}
      BY DEF NeverRunsDry
    <2>1. highest \in Minor /\ available = UpTo(highest)
      BY FirstHighestCovers DEF Init, TrackingInit, SubaddressesInit
    <2> QED
      BY <2>1 DEF Minor, UpTo
  <1>2. ASSUME Core, NeverRunsDry, Next PROVE NeverRunsDry'
    <2> SUFFICES ASSUME available' = {} PROVE highest' = MaxMinor \/ dry_start'
      BY DEF NeverRunsDry
    <2>1. dry_start' = (Crashed \/ dry_start)
      BY <1>2 DEF Next, Remember
    <2>2. CASE Crash
      BY <1>2, <2>1, <2>2, CrashMoves
    <2>3. CASE UNCHANGED subaddresses
      BY <1>2, <2>1, <2>3 DEF NeverRunsDry, subaddresses
    <2>4. ASSUME NEW c \in Caller, Call(c), ~UNCHANGED subaddresses PROVE highest' = MaxMinor
      <3>1. CASE Take(c)
        BY <1>2, <3>1, TakeEffect
      <3>2. CASE PutBack(c)
        BY <3>2 DEF PutBack, GiveBack
      <3> QED
        BY <2>4, <3>1, <3>2 DEF Call, Load, InsertInvoice, InsertInvoiceFails, Register, RemoveInvoice,
           RemoveInvoiceFails, Unregister
    <2> QED
      BY <1>2, <2>2, <2>3, <2>4, ScannerMoves DEF Next, TrackingNext
  <1>3. NeverRunsDry /\ UNCHANGED vars => NeverRunsDry'
    BY DEF vars, tracking, subaddresses, ghosts, NeverRunsDry
  <1> QED
    BY <1>1, <1>2, <1>3, CoreAlways, PTL DEF Spec

(***************************************************************************)
(* No index is passed over: each is free, in use, in the hands of a call,  *)
(* or lost until a restart with an insert or a removal that returned an    *)
(* error (payment_gateway.rs:303, 329).                                    *)
(***************************************************************************)
THEOREM IndicesAccounted == Spec => []NoIndexLeaks
  <1> DEFINE Held == {sub_index[c] : c \in {d \in Caller : Holding(d)}}
             Accounted == available \cup SubIndices(table) \cup lost \cup Held
  <1>0. NoIndexLeaks <=> UpTo(highest) \subseteq Accounted
    BY DEF NoIndexLeaks
  <1>1. Init => NoIndexLeaks
    BY FirstHighestCovers, EmptyIsTable DEF Init, TrackingInit, StoresInit, SubaddressesInit, NoIndexLeaks
  <1>2. ASSUME Core, NoIndexLeaks, Next PROVE NoIndexLeaks'
    <2>0. lost' = IF Crashed THEN {} ELSE lost \cup JustLost
      BY <1>2 DEF Next, Remember
    <2>1. CASE Crash
      BY <1>2, <2>1, CrashMoves DEF NoIndexLeaks
    <2>2. CASE ScannerStep
      <3>1. /\ UNCHANGED <<highest, available, pc, sub_index>>
            /\ SubIndices(table') = SubIndices(table) /\ ~Crashed
        BY <1>2, <2>2, ScannerMoves DEF subaddresses, calls, SubIndices, Crashed
      <3> QED
        BY <1>2, <2>0, <3>1 DEF NoIndexLeaks, Holding
    <2>3. ASSUME NEW c \in Caller, Call(c) PROVE NoIndexLeaks'
      <3>0. ~Crashed
        BY <1>2, <2>3, CallsMove DEF Crashed
      <3>1. \A d \in Caller : d # c => Holding(d)' = Holding(d) /\ sub_index'[d] = sub_index[d]
        BY <1>2, <2>3, CallsMove DEF Holding
      <3>2. SUFFICES /\ UpTo(highest') \ UpTo(highest) \subseteq available'
                     /\ available \cup SubIndices(table) \cup (IF Holding(c) THEN {sub_index[c]} ELSE {})
                        \subseteq Accounted'
        BY <1>2, <2>0, <3>0, <3>1 DEF NoIndexLeaks
      <3>3. lost \cup JustLost \cup available' \cup SubIndices(table')
            \cup (IF Holding(c)' THEN {sub_index'[c]} ELSE {}) \subseteq Accounted'
        BY <2>0, <3>0
      <3> HIDE DEF Accounted
      <3>4. CASE Take(c)
        <4>1. PICK s \in available :
                /\ sub_index' = [sub_index EXCEPT ![c] = s] /\ pc' = [pc EXCEPT ![c] = "load"]
                /\ available' = (available \ {s}) \cup (UpTo(highest') \ UpTo(highest))
                /\ table' = table /\ ~Holding(c)
          BY <1>2, <3>4, TakeEffect DEF stores
        <4>2. Holding(c)' /\ sub_index'[c] = s
          BY <1>2, <4>1 DEF Core, CallTypes, Holding
        <4> QED
          BY <3>3, <4>1, <4>2
      <3>5. CASE Load(c)
        <4>1. UNCHANGED <<highest, available, table, sub_index>> /\ Holding(c)'
          BY <1>2, <3>5 DEF Load, stores, subaddresses, Core, CallTypes, Holding
        <4> QED
          BY <3>3, <4>1
      <3>6. CASE InsertInvoice(c)
        <4>1. UNCHANGED <<highest, available>> /\ SubIndices(table') = SubIndices(table) \cup {sub_index[c]}
          BY <1>2, <3>6, InsertInvoiceEffect DEF InsertInvoice, subaddresses
        <4> QED
          BY <3>3, <4>1
      <3>7. CASE InsertInvoiceFails(c)
        <4>1. UNCHANGED <<highest, available, table>> /\ pc[c] = "insert" /\ pc'[c] = "ready"
          BY <1>2, <3>7 DEF InsertInvoiceFails, InsertFails, Return, stores, subaddresses, Core, CallTypes
        <4>2. sub_index[c] \in JustLost
          BY <4>1 DEF JustLost
        <4> QED
          BY <3>3, <4>1, <4>2
      <3>8. CASE Register(c) \/ Unregister(c)
        <4>1. UNCHANGED <<highest, available, table>> /\ ~Holding(c)
          BY <3>8 DEF Register, Unregister, stores, subaddresses, Holding
        <4> QED
          BY <3>3, <4>1
      <3>9. CASE RemoveInvoice(c)
        <4>1. PICK i \in DOMAIN table :
                /\ sub_index' = [sub_index EXCEPT ![c] = i.sub_index]
                /\ SubIndices(table) \subseteq SubIndices(table') \cup {i.sub_index}
          BY <1>2, <3>9, RemoveInvoiceEffect, RemovalEffect
        <4>2. UNCHANGED <<highest, available>> /\ ~Holding(c) /\ Holding(c)' /\ sub_index'[c] = i.sub_index
          BY <1>2, <3>9, <4>1 DEF RemoveInvoice, subaddresses, Core, CallTypes, Holding
        <4> QED
          BY <3>3, <4>1, <4>2
      <3>10. CASE PutBack(c)
        <4>1. UNCHANGED <<highest, table>> /\ available' = available \cup {sub_index[c]}
          BY <3>10 DEF PutBack, GiveBack, stores
        <4> QED
          BY <3>3, <4>1
      <3>11. CASE RemoveInvoiceFails(c)
        <4>1. /\ UNCHANGED <<highest, available, pc, id, sub_index>>
              /\ \E i \in DOMAIN table : /\ i \notin DOMAIN table'
                                       /\ SubIndices(table) \subseteq SubIndices(table') \cup {i.sub_index}
          BY <1>2, <3>11, RemoveInvoiceFailsEffect, RemovalEffect DEF calls
        <4>2. PICK i \in DOMAIN table \ DOMAIN table' :
                SubIndices(table) \subseteq SubIndices(table') \cup {i.sub_index}
          BY <4>1
        <4>3. \A d \in Caller : pc'[d] = "give" => id'[d] # i
          <5>1. ASSUME NEW d \in Caller, pc[d] = "give" PROVE id[d].sub_index \notin SubIndices(table)
            BY <1>2, <5>1 DEF Core, CallTypes, Owned, Holding
          <5> QED
            BY <4>1, <4>2, <5>1 DEF SubIndices
        <4>4. i.sub_index \in JustLost /\ ~Holding(c)
          BY <3>11, <4>2, <4>3 DEF JustLost, RemoveInvoiceFails, Holding
        <4> QED
          BY <3>3, <4>1, <4>2, <4>4
      <3> QED
        BY <2>3, <3>4, <3>5, <3>6, <3>7, <3>8, <3>9, <3>10, <3>11 DEF Call
    <2> QED
      BY <1>2, <2>1, <2>2, <2>3 DEF Next, TrackingNext
  <1>3. NoIndexLeaks /\ UNCHANGED vars => NoIndexLeaks'
    BY DEF vars, tracking, subaddresses, calls, stores, ghosts, NoIndexLeaks, Holding
  <1> QED
    BY <1>1, <1>2, <1>3, CoreAlways, PTL DEF Spec
------------------------------------------------------------------------------
(***************************************************************************)
(* A stored invoice can be subscribed to, unless a restart found it in the *)
(* store or it took the id of one whose removal had not ended              *)
(* (payment_gateway.rs:310, 340, 345).                                     *)
(***************************************************************************)
THEOREM CanSubscribe == Spec => []Subscribable
  <1> DEFINE Removed == \A c \in Caller : pc[c] = "unregister" /\ id[c] \in DOMAIN table => id[c] \in crossed
             Inv == Subscribable /\ Removed
  <1>1. Init => Inv
    BY DEF Init, TrackingInit, StoresInit, EmptyTable, AllReady, Subscribable
  <1>2. ASSUME Core, Inv, Next PROVE Inv'
    <2>0. /\ recovered' = IF Crashed THEN DOMAIN table' ELSE recovered \cap DOMAIN table'
          /\ crossed' = IF Crashed THEN {} ELSE (crossed \cup JustCrossed) \cap DOMAIN table'
      BY <1>2 DEF Next, Remember
    <2>1. CASE Crash
      BY <1>2, <2>0, <2>1, CrashMoves DEF AllReady, Subscribable
    <2>2. CASE ScannerStep
      <3>1. UNCHANGED <<registered, pc, id>> /\ DOMAIN table' = DOMAIN table /\ ~Crashed
        BY <1>2, <2>2, ScannerMoves DEF calls, Crashed
      <3> QED
        BY <1>2, <2>0, <3>1 DEF Subscribable
    <2>3. ASSUME NEW c \in Caller, Call(c) PROVE Inv'
      <3>0. /\ pc \in [Caller -> {"ready", "load", "insert", "register", "give", "unregister"}]
            /\ id \in [Caller -> InvoiceIdSet]
        BY <1>2 DEF Core, CallTypes
      <3>1. /\ ~Crashed
            /\ \A d \in Caller : d # c => pc'[d] = pc[d] /\ id'[d] = id[d]
        BY <1>2, <2>3, CallsMove DEF Crashed
      <3>2. recovered' = recovered \cap DOMAIN table' /\ crossed' = (crossed \cup JustCrossed) \cap DOMAIN table'
        BY <2>0, <3>1
      <3>3. pc'[c] = "unregister" => PutBack(c)
        <4>1. ~RemoveInvoiceFails(c) => (pc'[c] = "unregister" => PutBack(c))
          BY <2>3, <3>0 DEF Call, Take, Load, InsertInvoice, InsertInvoiceFails, Register, RemoveInvoice,
             Unregister, Return
        <4>2. RemoveInvoiceFails(c) => pc'[c] = "ready"
          BY DEF RemoveInvoiceFails, calls
        <4> QED
          BY <4>1, <4>2
      <3>4. PutBack(c) => id'[c] \notin DOMAIN table'
        <4> SUFFICES ASSUME PutBack(c) PROVE id[c] \notin DOMAIN table /\ UNCHANGED <<id, table>>
          OBVIOUS
        <4>1. id[c].sub_index \notin SubIndices(table)
          BY <1>2 DEF PutBack, Core, Owned, CallTypes, Holding
        <4> QED
          BY <4>1 DEF SubIndices, PutBack, stores
      <3>5. Removed'
        BY <1>2, <3>1, <3>2, <3>3, <3>4 DEF JustCrossed
      <3>6. ASSUME NEW i \in DOMAIN table' \ DOMAIN table PROVE pc'[c] = "register" /\ id'[c] = i
        <4>1. CASE InsertInvoice(c)
          <5>1. DOMAIN table' = DOMAIN table \cup {id[c]} /\ UNCHANGED id /\ pc'[c] = "register"
            BY <1>2, <3>0, <4>1, InsertInvoiceEffect DEF InsertInvoice
          <5> QED
            BY <3>6, <5>1
        <4>2. CASE RemoveInvoice(c) \/ RemoveInvoiceFails(c)
          BY <1>2, <3>6, <4>2, RemoveInvoiceEffect, RemoveInvoiceFailsEffect, RemovalEffect
        <4>3. CASE UNCHANGED table
          BY <3>6, <4>3
        <4> QED
          BY <2>3, <4>1, <4>2, <4>3 DEF Call, Take, Load, InsertInvoiceFails, InsertFails, Register, PutBack,
             Unregister, stores
      <3>7. ASSUME NEW i \in DOMAIN table, i \in registered, i \notin registered' PROVE i \in crossed
        <4>1. Unregister(c)
          BY <2>3, <3>7 DEF Call, Take, Load, InsertInvoice, InsertInvoiceFails, Register, RemoveInvoice,
             RemoveInvoiceFails, PutBack
        <4>2. id[c] = i /\ pc[c] = "unregister"
          BY <3>7, <4>1 DEF Unregister
        <4> QED
          BY <1>2, <3>7, <4>2
      <3>8. pc[c] = "register" => id[c] \in registered'
        BY <2>3 DEF Call, Take, Load, InsertInvoice, InsertInvoiceFails, Register, RemoveInvoice,
           RemoveInvoiceFails, PutBack, Unregister
      <3>9. Subscribable'
        <4> SUFFICES ASSUME NEW i \in DOMAIN table'
                     PROVE  \/ i \in registered' \cup recovered' \cup crossed'
                            \/ \E d \in Caller : pc'[d] = "register" /\ id'[d] = i
          BY DEF Subscribable
        <4>1. CASE i \notin DOMAIN table
          BY <3>6, <4>1
        <4>2. CASE i \in DOMAIN table /\ i \in registered \cup recovered \cup crossed
          BY <3>2, <3>7, <4>2
        <4>3. ASSUME NEW d \in Caller, pc[d] = "register", id[d] = i
              PROVE  i \in registered' \/ (pc'[d] = "register" /\ id'[d] = i)
          BY <3>1, <3>8, <4>3
        <4> QED
          BY <1>2, <4>1, <4>2, <4>3 DEF Subscribable
      <3> QED
        BY <3>5, <3>9
    <2> QED
      BY <1>2, <2>1, <2>2, <2>3 DEF Next, TrackingNext
  <1>3. Inv /\ UNCHANGED vars => Inv'
    BY DEF vars, tracking, calls, stores, ghosts, Subscribable
  <1> QED
    BY <1>1, <1>2, <1>3, CoreAlways, PTL DEF Spec
------------------------------------------------------------------------------
(***************************************************************************)
(* What a scan has saved without an error is on the disk (scanner.rs:218), *)
(* except in memory and behind sqlite's stray transaction.                 *)
(***************************************************************************)
THEOREM ScanIsKept == Spec => FlushKeeps
  <1> DEFINE Good == Flushed => disk' = {table} \/ backend = "memory" \/ in_txn
  <1>1. ASSUME Core, Next PROVE Good
    <2> SUFFICES ASSUME step = "saving", step' = "loop"
                 PROVE  disk' = {table} \/ backend = "memory" \/ in_txn
      BY DEF Flushed
    <2>1. ASSUME NEW c \in Caller PROVE ~Call(c)
      BY <1>1, CallsMove DEF scanning
    <2>2. Flush
      BY <1>1, <2>1 DEF Next, TrackingNext, ScannerStep, Create, Spawn, Refresh, Height, ScanFails,
         ReadInvoices, Save, ScanEnds, FlushFails, Stop, Crash
    <2> QED
      BY <1>1, <2>2, FlushEffect DEF Core, Sound, StoreInv
  <1>2. Core /\ [Next]_vars => [Good]_vars
    BY <1>1
  <1> QED
    BY <1>2, CoreAlways, PTL DEF Spec, FlushKeeps

(***************************************************************************)
(* The three stores, driven by the gateway's calls and the scans, keep the *)
(* promise of the trait InvoiceStorage (src/storage/mod.rs), but for what  *)
(* a scan flushes behind sqlite's stray transaction.                       *)
(***************************************************************************)
THEOREM StoresKeepPromise == Spec => StorePromise
  <1> DEFINE Promised == Promise!Next \/ (Flushed /\ in_txn)
  <1>0. /\ Promise!EmptyTable = EmptyTable
        /\ \A t, i : Promise!Without(t, i) = Without(t, i)
        /\ \A t, i, v : Promise!Put(t, i, v) = Put(t, i, v)
    BY DEF Promise!EmptyTable, Promise!Without, Promise!Put, EmptyTable, Without, Put
  <1>1. Init => Promise!Init
    BY <1>0 DEF Init, TrackingInit, StoresInit, Promise!Init
  <1>2. ASSUME Core, UnflushedType, Next PROVE [Promised]_(Promise!storage)
    <2>0. /\ StoreInv /\ DOMAIN table \subseteq InvoiceIdSet
          /\ unflushed' = (~Crashed /\ ~Flushed /\ (unflushed \/ <<table, disk>>' # <<table, disk>>))
      BY <1>2 DEF Core, Sound, Table, Next, Remember
    <2>1. ASSUME Kept, ~Crashed, ~Flushed, <<table, disk>>' # <<table, disk>>, NEW t, table' = t
          PROVE  Promise!Become(t)
      BY <2>0, <2>1 DEF Kept, StoreInv, Promise!Become
    <2>2. ASSUME UNCHANGED <<backend, table, disk>>, ~Crashed, ~Flushed
          PROVE  UNCHANGED (Promise!storage)
      <3>1. unflushed' = (unflushed \/ FALSE)
        BY <2>0, <2>2
      <3>2. unflushed' = unflushed
        BY <1>2, <3>1 DEF UnflushedType
      <3> QED
        BY <2>2, <3>2 DEF Promise!storage
    <2>3. ASSUME NEW c \in Caller, Call(c) PROVE ~Crashed /\ ~Flushed
      BY <1>2, <2>3, CallsMove DEF Crashed, Flushed, scanning
    <2>4. ASSUME NEW c \in Caller, InsertInvoice(c) PROVE Promise!Next
      <3>1. /\ Kept /\ id[c] \in InvoiceIdSet \ DOMAIN table /\ DOMAIN table' = DOMAIN table \cup {id[c]}
            /\ \E v \in InvoiceSet : table' = Put(table, id[c], v)
        BY <1>2, <2>4, InsertInvoiceEffect
      <3>2. Promise!Insert(id[c])
        BY <1>0, <2>1, <2>3, <2>4, <3>1 DEF Promise!Insert, Call
      <3> QED
        BY <3>1, <3>2 DEF Promise!Next
    <2>5. ASSUME NEW c \in Caller, RemoveInvoice(c) \/ RemoveInvoiceFails(c) PROVE Promise!Next
      <3>1. PICK i \in DOMAIN table : table' = Without(table, i) /\ Kept /\ DOMAIN table' = DOMAIN table \ {i}
        BY <1>2, <2>5, RemoveInvoiceEffect, RemoveInvoiceFailsEffect, RemovalEffect
      <3>2. Promise!Remove(i)
        BY <1>0, <2>1, <2>3, <2>5, <3>1 DEF Promise!Remove, Call
      <3> QED
        BY <2>0, <3>2 DEF Promise!Next
    <2>6. ASSUME NEW c \in Caller, Call(c), ~InsertInvoice(c), ~RemoveInvoice(c), ~RemoveInvoiceFails(c)
          PROVE  UNCHANGED stores
      BY <2>6 DEF Call, Take, Load, InsertInvoiceFails, InsertFails, Register, PutBack, Unregister
    <2>7. ASSUME NEW c \in Caller, Call(c) PROVE [Promised]_(Promise!storage)
      BY <2>2, <2>3, <2>4, <2>5, <2>6, <2>7 DEF stores
    <2>8. CASE Save
      <3>1. /\ Kept /\ UNCHANGED <<lives, step>>
            /\ \/ UNCHANGED <<table, disk>>
               \/ \E i \in DOMAIN table, v \in InvoiceSet : table' = Put(table, i, v)
        BY <1>2, <2>8, SaveEffect
      <3>2. ~Crashed /\ ~Flushed /\ UNCHANGED backend
        BY <3>1 DEF Crashed, Flushed, Kept
      <3>3. ASSUME NEW i \in DOMAIN table, NEW v \in InvoiceSet, table' = Put(table, i, v),
                   <<table, disk>>' # <<table, disk>>
            PROVE  Promise!Next
        <4>1. Promise!Update(i)
          BY <1>0, <2>1, <3>1, <3>2, <3>3 DEF Promise!Update
        <4> QED
          BY <2>0, <4>1 DEF Promise!Next
      <3> QED
        BY <2>2, <3>1, <3>2, <3>3
    <2>9. CASE ScanEnds
      <3>1. /\ backend' = backend /\ table' = table /\ Flushed
            /\ IF backend = "sled" THEN disk' = {table} ELSE disk' = disk
        BY <2>0, <2>9, FlushEffect DEF ScanEnds, Kept, Flushed
      <3>2. ~in_txn => Promise!Flush
        BY <2>0, <3>1 DEF StoreInv, Promise!Flush
      <3> QED
        BY <3>1, <3>2 DEF Promise!Next
    <2>10. CASE Crash
      <3>1. backend' = backend /\ table' \in disk /\ disk' = {table'} /\ Crashed
        BY <1>2, <2>0, <2>10, ReopenEffect, CrashMoves DEF Crash
      <3>2. Promise!PowerLoss
        BY <1>0, <2>0, <3>1 DEF StoreInv, Promise!PowerLoss
      <3> QED
        BY <3>2 DEF Promise!Next
    <2>11. ASSUME Create \/ Spawn \/ Refresh \/ Height \/ ScanFails \/ ReadInvoices \/ FlushFails \/ Stop
           PROVE  UNCHANGED (Promise!storage)
      <3>1. ~Crashed
        BY <2>11, Quiet DEF Crashed
      <3>2. ~Flushed
        BY <2>11 DEF Create, Spawn, Refresh, Height, ScanFails, ReadInvoices, FlushFails, Stop, Flushed
      <3> QED
        BY <2>2, <2>11, <3>1, <3>2, Quiet DEF stores
    <2> QED
      BY <1>2, <2>7, <2>8, <2>9, <2>10, <2>11 DEF Next, TrackingNext, ScannerStep
  <1>3. UNCHANGED vars => UNCHANGED (Promise!storage)
    BY DEF vars, tracking, stores, ghosts, Promise!storage
  <1>4. Core /\ UnflushedType /\ [Next]_vars => [Promised]_(Promise!storage)
    BY <1>2, <1>3
  <1> QED
    BY <1>1, <1>4, CoreAlways, UnflushedAlways, PTL DEF Spec, StorePromise
==============================================================================
