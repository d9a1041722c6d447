-------------------------- MODULE GatewayPublisher ---------------------------
(***************************************************************************)
(* Gateway and Publisher together: a scan asks the daemon and sends the    *)
(* updates that it has found, and a subscriber may be in the hands of a    *)
(* thread that calls the gateway.  The scan has one set of variables, for  *)
(* instances with one Runner, where one scanner lives at most              *)
(* (AtMostOneScanner).                                                     *)
(***************************************************************************)
EXTENDS Gateway

CONSTANTS
  InvoiceId, Global, Subscriber, BufferLen,
  Reader        \* Reader[s]: the caller that holds s, None if no caller does

ASSUME ReaderAssumption == Reader \in [Subscriber -> Caller \cup {None}]

VARIABLES
  subs, receiver, backlog, phase, list, index, closed, sender,
  request,           \* what the scan waits for: the "head" of a response, its
                     \* "body", or "none", with the requests behind it
  updated_invoices   \* of the scan: those whose update is not sent yet

P == INSTANCE Publisher

publisher == <<subs, receiver, backlog, phase, list, index, closed, sender>>
scan == <<request, updated_invoices>>
vars == <<gateway, publisher, scan>>

GatewayPublisherInit ==
  /\ GatewayInit
  /\ P!PublisherInit
  /\ request = "none" /\ updated_invoices = {}

\* Between two scans nothing is left of a walk.
Rested == request = "none" /\ phase = "rest" /\ updated_invoices = {}
Rest ==
  /\ request' = "none" /\ phase' = "rest" /\ updated_invoices' = {}
  /\ list' = Global /\ index' = 1 /\ closed' = FALSE
  /\ sender' = CHOOSE s \in Subscriber : TRUE
------------------------------------------------------------------------------
\* The application: a call of the gateway, one of the publisher, or its receiver.
CallerStep(c) ==
  /\ Enter(c) \/ Call(c)
  /\ UNCHANGED <<publisher, scan>>

\* Whoever holds s, if it is a caller, is not in a call.
Free(s) == Reader[s] # None => pc[Reader[s]] = "ready"

Listen ==
  /\ \E s \in Subscriber :
       /\ Free(s)
       /\ P!Receive(s) \/ P!Drop(s) \/ \E l \in InvoiceId \cup {Global} : P!Subscribe(s, l)
  /\ UNCHANGED <<gateway, scan>>

Track ==
  /\ \E i \in InvoiceId : P!InsertInvoice(i) \/ P!RemoveInvoice(i)
  /\ UNCHANGED <<gateway, scan>>
------------------------------------------------------------------------------
\* The scanning thread.  One request stands for all those of a scan.
Begin(t) ==
  /\ Read(t)
  /\ request' = IF thread'[t] = "scanning" THEN "head" ELSE request
  /\ UNCHANGED <<publisher, updated_invoices>>

Answer(t) ==
  /\ thread[t] = "scanning" /\ request = "head"
  /\ request' = "body"
  /\ UNCHANGED <<gateway, publisher, updated_invoices>>

\* The scan ends with the error.
TimeOut(t) ==
  /\ thread[t] = "scanning" /\ request = "head"
  /\ request' = "none"
  /\ UNCHANGED <<gateway, publisher, updated_invoices>>

\* The scan has an update for any of the invoices.
Body(t) ==
  /\ thread[t] = "scanning" /\ request = "body"
  /\ request' = "none" /\ updated_invoices' \in SUBSET InvoiceId
  /\ UNCHANGED <<gateway, publisher>>

Update(t) ==
  /\ thread[t] = "scanning"
  /\ \E i \in updated_invoices :
       P!SendUpdates(i) /\ updated_invoices' = updated_invoices \ {i}
  /\ UNCHANGED <<gateway, request>>

Walk(t) ==
  /\ thread[t] = "scanning"
  /\ P!WalkStep
  /\ UNCHANGED <<gateway, scan>>

End(t) ==
  /\ ScanEnds(t)
  /\ Rested /\ Rest
  /\ UNCHANGED <<subs, receiver, backlog>>

Die(t) ==
  /\ Panic(t)
  /\ Rest
  /\ UNCHANGED <<subs, receiver, backlog>>

Asked(t) == Answer(t) \/ Body(t)
Scan(t) == Begin(t) \/ TimeOut(t) \/ Update(t) \/ Walk(t) \/ End(t)

GatewayPublisherNext ==
  \/ \E c \in Caller : CallerStep(c)
  \/ Listen \/ Track
  \/ \E t \in Thread : Scan(t) \/ Asked(t) \/ Die(t)

(***************************************************************************)
(* Threads that can go on do, and the timer of a request goes off          *)
(* (rpc/mod.rs:252).  Nothing is assumed of the daemon, whose body need    *)
(* not arrive (rpc/mod.rs:277), nor of those that hold subscribers.        *)
(***************************************************************************)
GatewayPublisherSpec ==
  /\ GatewayPublisherInit /\ [][GatewayPublisherNext]_vars
  /\ \A c \in Caller : WF_vars(Call(c) /\ UNCHANGED <<publisher, scan>>)
  /\ \A t \in Thread : WF_vars(Scan(t))
------------------------------------------------------------------------------
(***************************************************************************)
(* stop() waits for the scanning thread, which may wait for a subscriber   *)
(* (pubsub.rs:150) or for a response.  If those that are free to receive   *)
(* do, stop() returns, except that                                         *)
(*  - the scanning thread waits for ever for a subscriber whose thread is  *)
(*    itself in a call of the gateway: the stop(), or one that waits for   *)
(*    the mutex which stop() holds over join() (payment_gateway.rs:255);   *)
(*  - it waits for ever for the body of a response, which the timeout of   *)
(*    the request does not cover (rpc/mod.rs:277).                         *)
(***************************************************************************)
Full(s) == backlog[s] = BufferLen
Waiting == phase = "send" /\ receiver[sender] = "open" /\ Full(sender)
Attentive == \A s \in Subscriber : []<>(~Full(s) \/ ~Free(s))

StopWaits ==
  Attentive =>
    \A c \in Caller :
      pc[c] = "join" ~> pc[c] = "ready" \/ [](Waiting /\ ~Free(sender)) \/ [](request = "body")
==============================================================================
