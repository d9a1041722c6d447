------------------------------ MODULE Tracking -------------------------------
(***************************************************************************)
(* new_invoice() and remove_invoice() (src/payment_gateway.rs), called     *)
(* from several threads, over the store, the free subaddresses and the     *)
(* publisher's list of invoices, and what the scanning thread does with    *)
(* them: the key checker, the reading of all invoices, the saves, the      *)
(* flush.  What a scan finds is left to Scanner.                           *)
(***************************************************************************)
EXTENDS Stores, SubaddressCache

CONSTANTS
  Caller,       \* the application's threads
  Heights,      \* of the daemon
  MaxInvoices,  \* bound on the calls of new_invoice()
  MaxLives      \* bound on the restarts of the process

ASSUME TrackingAssumption ==
  Heights \subseteq Nat \ {0} /\ MaxInvoices \in Nat /\ MaxLives \in Nat

VARIABLES
  daemon_height,  \* cached_daemon_height, 0 until the first scanner is made
  registered,     \* the invoices that the publisher knows
  pc,             \* pc[c]: where the call of c is
  sub_index,      \* sub_index[c], id[c], terms[c]: its locals
  id,
  terms,
  step,           \* where the scanning thread is
  watched,        \* its key checker: an account and the last minor index
  queue,          \* updated_invoices
  created,        \* calls of new_invoice()
  lives           \* restarts

calls == <<pc, sub_index, id, terms, created>>
scanning == <<step, watched, queue>>
tracking == <<stores, subaddresses, daemon_height, registered, calls, scanning, lives>>

Minor == 0 .. MaxMinor
SubIndexSet == {SubIndex(major_index, n) : n \in Minor}
InvoiceIdSet == {IdOf(s, h) : s \in SubIndexSet, h \in Heights \cup {0}}

\* Of an invoice: its terms, which new_invoice() is given, and whether a scan
\* has set current_height.
InvoiceSet == [terms : 1 .. MaxInvoices, scanned : BOOLEAN]
Scanned(inv) == [inv EXCEPT !.scanned = TRUE]

NoSub == SubIndex(major_index, 0)
NoId == IdOf(NoSub, 0)
Unwatched == [major |-> 1, last |-> 0]

AllReady == [c \in Caller |-> "ready"]
NoSubs == [c \in Caller |-> NoSub]
NoIds == [c \in Caller |-> NoId]
NoTerms == [c \in Caller |-> 0]

TrackingInit ==
  /\ StoresInit /\ SubaddressesInit({})
  /\ daemon_height = 0 /\ registered = {}
  /\ pc = AllReady /\ sub_index = NoSubs /\ id = NoIds /\ terms = NoTerms /\ created = 0
  /\ step = "down" /\ watched = Unwatched /\ queue = EmptyTable
  /\ lives = 0

\* A local that is not used any more has no value.
Return(c) ==
  /\ pc' = [pc EXCEPT ![c] = "ready"]
  /\ sub_index' = [sub_index EXCEPT ![c] = NoSub] /\ id' = [id EXCEPT ![c] = NoId]
  /\ terms' = [terms EXCEPT ![c] = 0]
------------------------------------------------------------------------------
\* new_invoice().  With no subaddress left the choice panics, and the call ends.
Take(c) ==
  /\ pc[c] = "ready" /\ created < MaxInvoices
  /\ \E s \in available : RemoveRandom(s) /\ sub_index' = [sub_index EXCEPT ![c] = s]
  /\ pc' = [pc EXCEPT ![c] = "load"]
  /\ created' = created + 1 /\ terms' = [terms EXCEPT ![c] = created + 1]
  /\ UNCHANGED <<stores, daemon_height, registered, id, scanning, lives>>

Load(c) ==
  /\ pc[c] = "load"
  /\ id' = [id EXCEPT ![c] = IdOf(sub_index[c], daemon_height)]
  /\ pc' = [pc EXCEPT ![c] = "insert"]
  /\ UNCHANGED <<stores, subaddresses, daemon_height, registered, sub_index, terms,
                 created, scanning, lives>>

InsertInvoice(c) ==
  /\ pc[c] = "insert"
  /\ Insert(id[c], [terms |-> terms[c], scanned |-> FALSE])
  /\ pc' = [pc EXCEPT ![c] = "register"]
  /\ UNCHANGED <<subaddresses, daemon_height, registered, sub_index, id, terms,
                 created, scanning, lives>>

\* The subaddress is not put back.
InsertInvoiceFails(c) ==
  /\ pc[c] = "insert"
  /\ InsertFails(id[c])
  /\ Return(c)
  /\ UNCHANGED <<subaddresses, daemon_height, registered, created, scanning, lives>>

Register(c) ==
  /\ pc[c] = "register"
  /\ registered' = registered \cup {id[c]}
  /\ Return(c)
  /\ UNCHANGED <<stores, subaddresses, daemon_height, created, scanning, lives>>
------------------------------------------------------------------------------
\* remove_invoice(); of an invoice that is not stored, it does nothing.
RemoveInvoice(c) ==
  /\ pc[c] = "ready"
  /\ \E i \in DOMAIN table :
       /\ Remove(i)
       /\ id' = [id EXCEPT ![c] = i] /\ sub_index' = [sub_index EXCEPT ![c] = i.sub_index]
  /\ pc' = [pc EXCEPT ![c] = "give"]
  /\ UNCHANGED <<subaddresses, daemon_height, registered, terms, created, scanning, lives>>

\* With an error the call ends here, though the invoice may be gone: its
\* subaddress is not put back, nor is it unregistered.
RemoveInvoiceFails(c) ==
  /\ pc[c] = "ready"
  /\ \E i \in DOMAIN table : RemoveFails(i)
  /\ UNCHANGED <<subaddresses, daemon_height, registered, calls, scanning, lives>>

PutBack(c) ==
  /\ pc[c] = "give"
  /\ GiveBack(sub_index[c])
  /\ pc' = [pc EXCEPT ![c] = "unregister"]
  /\ UNCHANGED <<stores, daemon_height, registered, sub_index, id, terms, created,
                 scanning, lives>>

\* Mutant: the publisher goes by subaddress.
UnregisterSub(c) ==
  /\ pc[c] = "unregister"
  /\ registered' = {i \in registered : i.sub_index # sub_index[c]}
  /\ Return(c)
  /\ UNCHANGED <<stores, subaddresses, daemon_height, created, scanning, lives>>

Unregister(c) ==
  /\ pc[c] = "unregister"
  /\ registered' = registered \ {id[c]}
  /\ Return(c)
  /\ UNCHANGED <<stores, subaddresses, daemon_height, created, scanning, lives>>
------------------------------------------------------------------------------
\* Scanner::new.  It resumes below the lowest current height, which an invoice
\* that was never scanned has at 0: that is no height, and run() fails.
Create ==
  /\ step = "down"
  /\ \A i \in DOMAIN table : table[i].scanned
  /\ daemon_height' \in Heights
  /\ step' = "created"
  /\ UNCHANGED <<stores, subaddresses, registered, calls, watched, queue, lives>>

\* The thread and its first checker.
Spawn ==
  /\ step = "created"
  /\ watched' = [major |-> 1, last |-> highest] /\ step' = "loop"
  /\ UNCHANGED <<stores, subaddresses, daemon_height, registered, calls, queue, lives>>

\* Mutant: one subaddress too late.
RefreshedLate ==
  IF watched.last + 1 < highest THEN [major |-> major_index, last |-> highest] ELSE watched

Refreshed ==
  IF watched.last + 1 <= highest THEN [major |-> major_index, last |-> highest] ELSE watched

\* The top of the loop: no stop message; the checker is made anew if its table
\* is too small.
Refresh ==
  /\ step \in {"loop", "failed"}
  /\ watched' = Refreshed /\ step' = "scanning"
  /\ UNCHANGED <<stores, subaddresses, daemon_height, registered, calls, queue, lives>>

\* The block cache has stored the daemon's height.
Height ==
  /\ step = "scanning"
  /\ daemon_height' \in Heights \ {daemon_height}
  /\ UNCHANGED <<stores, subaddresses, registered, calls, scanning, lives>>

\* An error of the scan is logged, and the loop goes on.
ScanFails ==
  /\ step = "scanning"
  /\ step' = "failed"
  /\ UNCHANGED <<stores, subaddresses, daemon_height, registered, calls, watched, queue, lives>>

\* All invoices are read under one lock, and those that have changed kept.  One
\* that was never scanned has, unless it cannot be read.
ReadInvoices ==
  /\ step = "scanning"
  /\ \E changed \in SUBSET DOMAIN table :
       /\ \A i \in DOMAIN table \ changed :
            table[i].scanned \/ (DiskFails /\ backend # "memory")
       /\ queue' = [i \in changed |-> Scanned(table[i])]
  /\ step' = "saving"
  /\ UNCHANGED <<stores, subaddresses, daemon_height, registered, calls, watched, lives>>

\* One save.  An error is logged, and the update not sent.
Save ==
  /\ step = "saving"
  /\ \E i \in DOMAIN queue :
       /\ Update(i, queue[i]) \/ UpdateFails(i, queue[i])
       /\ queue' = Without(queue, i)
  /\ UNCHANGED <<subaddresses, daemon_height, registered, calls, step, watched, lives>>

ScanEnds ==
  /\ step = "saving" /\ queue = EmptyTable
  /\ Flush
  /\ step' = "loop"
  /\ UNCHANGED <<subaddresses, daemon_height, registered, calls, watched, queue, lives>>

FlushFails ==
  /\ step = "saving" /\ queue = EmptyTable
  /\ DiskFails /\ backend = "sled"
  /\ step' = "failed"
  /\ UNCHANGED <<stores, subaddresses, daemon_height, registered, calls, watched, queue, lives>>

\* A stop message, or no thread could be made.
Stop ==
  /\ step \in {"created", "loop", "failed"}
  /\ step' = "down" /\ watched' = Unwatched
  /\ UNCHANGED <<stores, subaddresses, daemon_height, registered, calls, queue, lives>>

\* The process dies anywhere, and is started again: build() of the gateway.
Crash ==
  /\ lives < MaxLives /\ lives' = lives + 1
  /\ Reopen
  /\ SubaddressesReset(SubIndices(table'))
  /\ daemon_height' = 0 /\ registered' = {}
  /\ pc' = AllReady /\ sub_index' = NoSubs /\ id' = NoIds /\ terms' = NoTerms
  /\ UNCHANGED created
  /\ step' = "down" /\ watched' = Unwatched /\ queue' = EmptyTable
------------------------------------------------------------------------------
Call(c) ==
  \/ Take(c) \/ Load(c) \/ InsertInvoice(c) \/ InsertInvoiceFails(c) \/ Register(c)
  \/ RemoveInvoice(c) \/ RemoveInvoiceFails(c) \/ PutBack(c) \/ Unregister(c)

ScannerStep ==
  \/ Create \/ Spawn \/ Refresh \/ Height \/ ScanFails \/ ReadInvoices \/ Save
  \/ ScanEnds \/ FlushFails \/ Stop

TrackingNext == ScannerStep \/ Crash \/ \E c \in Caller : Call(c)
==============================================================================
