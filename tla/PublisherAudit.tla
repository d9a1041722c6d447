---------------------------- MODULE PublisherAudit ---------------------------
(***************************************************************************)
(* What a subscriber has been given, beside what was published.  The n-th  *)
(* call of send_updates publishes the update n.                            *)
(***************************************************************************)
EXTENDS Publisher, SequencesExt

CONSTANT MaxUpdates   \* bound of the runs on the calls of send_updates

VARIABLES
  published,  \* how many updates there have been
  log,        \* log[l]: the updates published to list l, in order
  topic,      \* topic[s]: the list s has subscribed to, Nowhere if it was replaced
  since,      \* since[s]: the length of that log at that moment
  given       \* given[s]: the updates sent to s, in order

ghosts == <<published, log, topic, since, given>>
vars == <<publisher, ghosts>>

Nowhere == 0
Lists == InvoiceId \cup {Global}

Init ==
  /\ PublisherInit
  /\ published = 0
  /\ log = [l \in Lists |-> <<>>]
  /\ topic = [s \in Subscriber |-> Nowhere]
  /\ since = [s \in Subscriber |-> 0]
  /\ given = [s \in Subscriber |-> <<>>]

TypeOK ==
  /\ {Global} \subseteq DOMAIN subs /\ DOMAIN subs \subseteq Lists
  /\ subs \in [DOMAIN subs -> Seq(Subscriber)] /\ \A l \in DOMAIN subs : IsInjective(subs[l])
  /\ receiver \in [Subscriber -> {"unused", "open", "dropped"}]
  /\ backlog \in [Subscriber -> 0 .. BufferLen]
  /\ phase \in {"rest", "look", "send", "remove"}
  /\ list \in Lists /\ index \in Nat \ {0} /\ closed \in BOOLEAN
  /\ sender \in Subscriber
------------------------------------------------------------------------------
\* The application's threads.
DoSubscribe ==
  /\ \E s \in Subscriber, l \in Lists :
       /\ Subscribe(s, l)
       /\ topic' = [topic EXCEPT ![s] = l]
       /\ since' = [since EXCEPT ![s] = Len(log[l])]
  /\ UNCHANGED <<published, log, given>>

Replace ==
  /\ \E i \in InvoiceId :
       /\ InsertInvoice(i) \/ RemoveInvoice(i)
       /\ topic' = [s \in Subscriber |-> IF topic[s] = i THEN Nowhere ELSE topic[s]]
  /\ UNCHANGED <<published, log, since, given>>

Listen ==
  /\ \E s \in Subscriber : Receive(s) \/ Drop(s)
  /\ UNCHANGED ghosts

\* The scanning thread.
Publish ==
  /\ published < MaxUpdates
  /\ \E i \in InvoiceId :
       SendUpdates(i) /\ log' = [log EXCEPT ![i] = Append(@, published + 1)]
  /\ published' = published + 1
  /\ UNCHANGED <<topic, since, given>>

Walk ==
  /\ WalkStep
  /\ log' = IF list' = list THEN log
            ELSE [log EXCEPT ![Global] = Append(@, published)]
  /\ given' = IF backlog' = backlog THEN given
              ELSE [given EXCEPT ![sender] = Append(@, published)]
  /\ UNCHANGED <<published, topic, since>>

Next == DoSubscribe \/ Replace \/ Listen \/ Publish \/ Walk

\* send_updates runs on whenever it can; nothing is assumed of subscribers.
Spec == Init /\ [][Next]_vars /\ WF_vars(Walk)
------------------------------------------------------------------------------
(***************************************************************************)
(* Every sender that is still in a list has been given every update that   *)
(* was published to this list since it subscribed, in order and once,      *)
(* apart from those of a walk that is under way: neither the removal of    *)
(* other senders, which moves the last one forward, nor what other threads *)
(* do to the lists makes the walk pass one over or visit it twice.  Hence  *)
(* no sender outlives the first update that its receiver is too late for.  *)
(***************************************************************************)
EveryUpdate ==
  \A l \in DOMAIN subs : phase = "rest" \/ list # l =>
    \A s \in Range(subs[l]) :
      /\ IsSuffix(given[s], log[l])
      /\ Len(given[s]) >= Len(log[l]) - since[s]

(***************************************************************************)
(* A walk ends, if every subscriber with a full buffer receives or is      *)
(* dropped at some time: however the lists change, the walk makes progress *)
(* and no closed sender holds it up.                                       *)
(***************************************************************************)
Attentive == \A s \in Subscriber : []<>(backlog[s] < BufferLen)

WalkEnds == Attentive => []<>(phase = "rest")

(***************************************************************************)
(* payment_gateway.rs, subscribe(): "If a tracked invoice exists for that  *)
(* ID, the subscriber can be used to receive updates to for that invoice": *)
(* a subscriber that is not dropped stays in the list, until the list      *)
(* itself is removed or overwritten with the invoice.                      *)
(***************************************************************************)
OpenAreKept ==
  \A s \in Subscriber :
    receiver[s] = "open" /\ topic[s] # Nowhere => s \in Range(subs[topic[s]])
==============================================================================
