------------------------------ MODULE Publisher ------------------------------
(***************************************************************************)
(* Publisher and Subscriber (src/pubsub.rs).  The scanning thread walks    *)
(* over the senders of an invoice, then over the global ones; the locks    *)
(* are taken anew for every sender, so other threads may change the lists  *)
(* under the walk.  A sender and its receiver are one value here.          *)
(***************************************************************************)
EXTENDS Integers, Sequences, FiniteSets

CONSTANTS
  InvoiceId,
  Global,        \* the key of global_subs
  Subscriber,
  BufferLen      \* SUBSCRIPTION_BUFFER_LEN

ASSUME PublisherAssumption ==
  Global \notin InvoiceId /\ Subscriber # {} /\ BufferLen \in Nat \ {0}

VARIABLES
  subs,       \* from Global and the tracked invoices to their senders in order
  receiver,   \* receiver[s]: "unused", "open", or "dropped" by the application
  backlog,    \* backlog[s]: how many updates s has not received yet
  phase,      \* where send_updates is
  list,       \* the list it walks over
  index,      \* and its locals; the first sender has index 1
  closed,
  sender

walk == <<phase, list, index, closed, sender>>
publisher == <<subs, receiver, backlog, walk>>

Members(l) == IF l \in DOMAIN subs THEN subs[l] ELSE <<>>

PublisherInit ==
  /\ subs = [l \in {Global} |-> <<>>]
  /\ receiver = [s \in Subscriber |-> "unused"]
  /\ backlog = [s \in Subscriber |-> 0]
  /\ phase = "rest" /\ list = Global /\ index = 1 /\ closed = FALSE
  /\ sender = CHOOSE s \in Subscriber : TRUE
------------------------------------------------------------------------------
\* subscribe() and, for Global, subscribe_all(): None if the key is not there.
Subscribe(s, l) ==
  /\ receiver[s] = "unused" /\ l \in DOMAIN subs
  /\ subs' = [subs EXCEPT ![l] = Append(@, s)]
  /\ receiver' = [receiver EXCEPT ![s] = "open"]
  /\ UNCHANGED <<backlog, walk>>

\* insert_invoice() overwrites the subscribers of an invoice that is tracked.
InsertInvoice(i) ==
  /\ subs' = [l \in DOMAIN subs \cup {i} |-> IF l = i THEN <<>> ELSE subs[l]]
  /\ UNCHANGED <<receiver, backlog, walk>>

RemoveInvoice(i) ==
  /\ i \in DOMAIN subs
  /\ subs' = [l \in DOMAIN subs \ {i} |-> subs[l]]
  /\ UNCHANGED <<receiver, backlog, walk>>

\* recv(), try_recv(), poll() and their kin.
Receive(s) ==
  /\ backlog[s] > 0
  /\ backlog' = [backlog EXCEPT ![s] = @ - 1]
  /\ UNCHANGED <<subs, receiver, walk>>

\* The application drops its Subscriber, and what is in the buffer with it.
Drop(s) ==
  /\ receiver[s] = "open"
  /\ receiver' = [receiver EXCEPT ![s] = "dropped"]
  /\ backlog' = [backlog EXCEPT ![s] = 0]
  /\ UNCHANGED <<subs, walk>>
------------------------------------------------------------------------------
SendUpdates(i) ==
  /\ phase = "rest"
  /\ phase' = "look" /\ list' = i /\ index' = 1 /\ closed' = FALSE
  /\ UNCHANGED <<subs, receiver, backlog, sender>>

\* get_sender_by_index(), which clones the sender.
Look ==
  /\ phase = "look" /\ index <= Len(Members(list))
  /\ phase' = "send" /\ sender' = Members(list)[index]
  /\ UNCHANGED <<subs, receiver, backlog, list, index, closed>>

EndOfList ==
  /\ phase = "look" /\ index > Len(Members(list))
  /\ phase' = IF list = Global THEN "rest" ELSE "look"
  /\ list' = Global /\ index' = 1 /\ closed' = FALSE
  /\ UNCHANGED <<subs, receiver, backlog, sender>>

\* After one send: a closed sender is removed, otherwise it is the next one's turn.
Advance ==
  IF closed' THEN phase' = "remove" /\ UNCHANGED index
             ELSE phase' = "look" /\ index' = index + 1

\* Mutant: the channel is unbounded.
SendUnbounded ==
  /\ phase = "send" /\ receiver[sender] = "open"
  /\ backlog' = [backlog EXCEPT ![sender] = @ + 1]
  /\ UNCHANGED closed /\ Advance
  /\ UNCHANGED <<subs, receiver, list, sender>>

\* send() waits as long as the buffer is full.
Send ==
  /\ phase = "send" /\ receiver[sender] = "open" /\ backlog[sender] < BufferLen
  /\ backlog' = [backlog EXCEPT ![sender] = @ + 1]
  /\ UNCHANGED closed /\ Advance
  /\ UNCHANGED <<subs, receiver, list, sender>>

\* The receiver is gone.  closed stays TRUE for the rest of the list.
SendErr ==
  /\ phase = "send" /\ receiver[sender] = "dropped"
  /\ closed' = TRUE /\ Advance
  /\ UNCHANGED <<subs, receiver, backlog, list, sender>>

\* IndexMap::remove: the last sender takes the place of the removed one.
SwapRemove(q, s) ==
  LET Last == q[Len(q)]
  IN  [k \in 1 .. Len(q) - 1 |-> IF q[k] = s THEN Last ELSE q[k]]

\* Mutant: the walk goes on behind the sender that took the place.
RemoveAndAdvance ==
  /\ phase = "remove"
  /\ subs' = [l \in DOMAIN subs |->
                IF l = list /\ \E k \in DOMAIN subs[l] : subs[l][k] = sender
                THEN SwapRemove(subs[l], sender) ELSE subs[l]]
  /\ phase' = "look" /\ index' = index + 1
  /\ UNCHANGED <<receiver, backlog, list, closed, sender>>

\* Mutant: the sender is always looked for among the global ones.
RemoveGlobal ==
  /\ phase = "remove"
  /\ subs' = [l \in DOMAIN subs |->
                IF l = Global /\ \E k \in DOMAIN subs[l] : subs[l][k] = sender
                THEN SwapRemove(subs[l], sender) ELSE subs[l]]
  /\ phase' = "look"
  /\ UNCHANGED <<receiver, backlog, list, index, closed, sender>>

\* remove_sender(); the list may have been replaced since the sender was cloned.
RemoveSender ==
  /\ phase = "remove"
  /\ subs' = [l \in DOMAIN subs |->
                IF l = list /\ \E k \in DOMAIN subs[l] : subs[l][k] = sender
                THEN SwapRemove(subs[l], sender) ELSE subs[l]]
  /\ phase' = "look"
  /\ UNCHANGED <<receiver, backlog, list, index, closed, sender>>

WalkStep == Look \/ EndOfList \/ Send \/ SendErr \/ RemoveSender
==============================================================================
