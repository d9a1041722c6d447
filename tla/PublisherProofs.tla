--------------------------- MODULE PublisherProofs ---------------------------
(***************************************************************************)
(* Proofs about the publisher: for any number of subscribers, invoices and *)
(* updates, and buffers of any length.                                     *)
(***************************************************************************)
EXTENDS PublisherAudit, SequenceTheorems, TLAPS

GhostTypes ==
  /\ published \in Nat /\ log \in [Lists -> Seq(Nat)]
  /\ since \in [Subscriber -> Nat] /\ given \in [Subscriber -> Seq(Nat)]

Places(l) == 1 .. Len(subs[l])

\* A subscriber is in one list at most, and new ones are in none.
InOneList ==
  \A l, m \in DOMAIN subs : \A j \in Places(l), k \in Places(m) : subs[l][j] = subs[m][k] => l = m

UnusedAreNew ==
  \A s \in Subscriber : receiver[s] = "unused" =>
    given[s] = <<>> /\ \A l \in DOMAIN subs : \A j \in Places(l) : subs[l][j] # s

\* The walk sends the newest update of its list.
Walking ==
  phase # "rest" => Len(log[list]) > 0 /\ log[list][Len(log[list])] = published

\* The sender that was cloned has not moved; it may have gone with its list.
Cloned ==
  phase \in {"send", "remove"} =>
    /\ receiver[sender] # "unused"
    /\ \A l \in DOMAIN subs : \A j \in Places(l) : subs[l][j] = sender => l = list /\ j = index

\* One has got the newest of the first n updates, as far back as start or further.
UpTo(got, start, updates, n) ==
  /\ Len(got) <= n /\ n - start <= Len(got)
  /\ \A k \in 1 .. Len(got) : got[k] = updates[n - Len(got) + k]

\* The walk has yet to come to the place j of l.
Ahead(l, j) == phase # "rest" /\ list = l /\ j >= index

Given(l, j, n) == UpTo(given[subs[l][j]], since[subs[l][j]], log[l], n)

Behind ==
  \A l \in DOMAIN subs : \A j \in Places(l) :
    \/ phase = "remove" /\ subs[l][j] = sender
    \/ Given(l, j, IF Ahead(l, j) THEN Len(log[l]) - 1 ELSE Len(log[l]))

\* Who has come to the place of the sender meanwhile has subscribed after the update.
Newcomer ==
  phase = "send" =>
    \A l \in DOMAIN subs : \A j \in Places(l) :
      l = list /\ j = index /\ subs[l][j] # sender => Given(l, j, Len(log[l]))

Shape == TypeOK /\ GhostTypes /\ InOneList /\ UnusedAreNew /\ Cloned
IInv == Shape /\ Walking /\ Behind /\ Newcomer
------------------------------------------------------------------------------
LEMMA Suffix ==
  ASSUME NEW S, NEW s \in Seq(S), NEW t \in Seq(S)
  PROVE  IsSuffix(s, t) <=>
           Len(s) <= Len(t) /\ \A k \in 1 .. Len(s) : s[k] = t[Len(t) - Len(s) + k]
  <1> DEFINE m == Len(s)
             n == Len(t)
             r == Reverse(s)
             q == Reverse(t)
  <1>1. m \in Nat /\ n \in Nat
    OBVIOUS
  <1>2. r \in Seq(S) /\ Len(r) = m /\ \A k \in 1 .. m : r[k] = s[m - k + 1]
    BY <1>1 DEF Reverse
  <1>3. q \in Seq(S) /\ Len(q) = n /\ \A k \in 1 .. n : q[k] = t[n - k + 1]
    BY <1>1 DEF Reverse
  <1>4. IsSuffix(s, t) <=> Len(r) <= Len(q) /\ SubSeq(r, 1, Len(r)) = SubSeq(q, 1, Len(r))
    BY DEF IsSuffix, IsPrefix
  <1> HIDE DEF r, q
  <1>5. ASSUME m <= n
        PROVE  SubSeq(r, 1, m) = SubSeq(q, 1, m) <=> \A k \in 1 .. m : r[k] = q[k]
    <2>1. SubSeq(r, 1, m) \in Seq(S) /\ Len(SubSeq(r, 1, m)) = m
          /\ \A k \in 1 .. m : SubSeq(r, 1, m)[k] = r[k]
      BY <1>1, <1>2
    <2>2. SubSeq(q, 1, m) \in Seq(S) /\ Len(SubSeq(q, 1, m)) = m
          /\ \A k \in 1 .. m : SubSeq(q, 1, m)[k] = q[k]
      BY <1>1, <1>3, <1>5
    <2>3. ASSUME \A k \in 1 .. m : r[k] = q[k] PROVE SubSeq(r, 1, m) = SubSeq(q, 1, m)
      BY <2>1, <2>2, <2>3, SeqEqual
    <2> QED
      BY <2>1, <2>2, <2>3
  <1>6. ASSUME m <= n
        PROVE  (\A k \in 1 .. m : r[k] = q[k]) <=> (\A k \in 1 .. m : s[k] = t[n - m + k])
    <2>1. ASSUME \A k \in 1 .. m : r[k] = q[k], NEW k \in 1 .. m PROVE s[k] = t[n - m + k]
      <3>1. r[m - k + 1] = q[m - k + 1] /\ m - k + 1 \in 1 .. m /\ m - k + 1 \in 1 .. n
        BY <1>1, <1>6, <2>1
      <3>2. m - (m - k + 1) + 1 = k /\ n - (m - k + 1) + 1 = n - m + k
        BY <1>1, <2>1
      <3>3. r[m - k + 1] = s[m - (m - k + 1) + 1] /\ q[m - k + 1] = t[n - (m - k + 1) + 1]
        BY <1>2, <1>3, <3>1
      <3> QED
        BY <3>1, <3>2, <3>3
    <2>2. ASSUME \A k \in 1 .. m : s[k] = t[n - m + k], NEW k \in 1 .. m PROVE r[k] = q[k]
      <3>1. m - k + 1 \in 1 .. m /\ k \in 1 .. n /\ n - m + (m - k + 1) = n - k + 1
        BY <1>1, <1>6, <2>2
      <3> QED
        BY <1>2, <1>3, <2>2, <3>1
    <2> QED
      BY <2>1, <2>2
  <1> QED
    BY <1>1, <1>2, <1>3, <1>4, <1>5, <1>6

\* The removal of one sender leaves the others, the last one in its place.
LEMMA Swapped ==
  ASSUME NEW q \in Seq(Subscriber), IsInjective(q), NEW i \in 1 .. Len(q)
  PROVE  LET r == SwapRemove(q, q[i])
         IN  /\ r \in Seq(Subscriber) /\ IsInjective(r) /\ Len(r) = Len(q) - 1
             /\ \A k \in 1 .. Len(r) : r[k] = IF k = i THEN q[Len(q)] ELSE q[k]
             /\ \A k \in 1 .. Len(r) : r[k] # q[i]
  <1> DEFINE r == SwapRemove(q, q[i])
  <1>1. Len(q) \in Nat \ {0} /\ DOMAIN q = 1 .. Len(q) /\ \A k \in 1 .. Len(q) : q[k] \in Subscriber
    OBVIOUS
  <1>2. \A j, k \in 1 .. Len(q) : q[j] = q[k] => j = k
    BY <1>1 DEF IsInjective
  <1>3. r = [k \in 1 .. Len(q) - 1 |-> IF q[k] = q[i] THEN q[Len(q)] ELSE q[k]]
    BY DEF SwapRemove
  <1>4. r \in Seq(Subscriber) /\ Len(r) = Len(q) - 1 /\ DOMAIN r = 1 .. Len(q) - 1
    BY <1>1, <1>3
  <1>5. \A k \in 1 .. Len(r) : r[k] = IF k = i THEN q[Len(q)] ELSE q[k]
    BY <1>1, <1>2, <1>3, <1>4
  <1> HIDE DEF r
  <1>6. \A k \in 1 .. Len(r) : r[k] # q[i]
    BY <1>1, <1>2, <1>4, <1>5
  <1>7. IsInjective(r)
    BY <1>1, <1>2, <1>4, <1>5 DEF IsInjective
  <1> QED
    BY <1>4, <1>5, <1>6, <1>7 DEF r

\* What the removal does to the lists, if the sender is in one at all.
LEMMA Removed ==
  ASSUME IInv, RemoveSender
  PROVE  \/ /\ subs' = subs
            /\ \A l \in DOMAIN subs : \A j \in Places(l) : subs[l][j] # sender
         \/ /\ list \in DOMAIN subs /\ index \in Places(list) /\ subs[list][index] = sender
            /\ subs' = [subs EXCEPT ![list] = SwapRemove(subs[list], sender)]
  <1>1. \A l \in DOMAIN subs : DOMAIN subs[l] = Places(l)
    BY DEF IInv, Shape, TypeOK, Places
  <1>2. CASE \E l \in DOMAIN subs : \E j \in Places(l) : subs[l][j] = sender
    <2>1. list \in DOMAIN subs /\ index \in Places(list) /\ subs[list][index] = sender
      BY <1>2 DEF IInv, Shape, Cloned, RemoveSender
    <2>2. subs' = [l \in DOMAIN subs |-> IF l = list THEN SwapRemove(subs[l], sender) ELSE subs[l]]
      BY <1>1, <2>1 DEF RemoveSender
    <2> QED
      BY <2>1, <2>2 DEF IInv, Shape, TypeOK
  <1>3. CASE ~\E l \in DOMAIN subs : \E j \in Places(l) : subs[l][j] = sender
    <2>1. subs' = [l \in DOMAIN subs |-> subs[l]]
      BY <1>1, <1>3 DEF RemoveSender
    <2>2. subs = [l \in DOMAIN subs |-> subs[l]]
      BY DEF IInv, Shape, TypeOK
    <2> QED
      BY <1>3, <2>1, <2>2
  <1> QED
    BY <1>2, <1>3
------------------------------------------------------------------------------
(***************************************************************************)
(* Types, and where senders are.                                           *)
(***************************************************************************)
LEMMA SubscribeShape ==
  ASSUME IInv, NEW s \in Subscriber, NEW l \in Lists, Subscribe(s, l),
         since' = [since EXCEPT ![s] = Len(log[l])], UNCHANGED <<published, log, given>>
  PROVE  /\ Shape'
         /\ \A m \in DOMAIN subs' : \A j \in Places(m)' :
              \/ m \in DOMAIN subs /\ j \in Places(m) /\ subs'[m][j] = subs[m][j] /\ subs[m][j] # s
              \/ m = l /\ subs'[m][j] = s
  <1>1. l \in DOMAIN subs /\ subs' = [subs EXCEPT ![l] = Append(subs[l], s)]
        /\ receiver[s] = "unused" /\ receiver' = [receiver EXCEPT ![s] = "open"]
        /\ UNCHANGED <<backlog, phase, list, index, closed, sender>>
    BY DEF Subscribe, walk
  <1>2. DOMAIN subs' = DOMAIN subs /\ \A m \in DOMAIN subs : subs[m] \in Seq(Subscriber)
    BY <1>1 DEF IInv, Shape, TypeOK
  <1>3. /\ subs'[l] \in Seq(Subscriber) /\ Len(subs'[l]) = Len(subs[l]) + 1
        /\ \A j \in 1 .. Len(subs[l]) : subs'[l][j] = subs[l][j]
        /\ subs'[l][Len(subs[l]) + 1] = s
        /\ Len(subs[l]) \in Nat
    BY <1>1, <1>2 DEF IInv, Shape, TypeOK
  <1>4. \A m \in DOMAIN subs : m # l => subs'[m] = subs[m]
    BY <1>1, <1>2 DEF IInv, Shape, TypeOK
  <1>5. \A m \in DOMAIN subs : \A j \in Places(m) : subs[m][j] # s
    BY <1>1 DEF IInv, Shape, UnusedAreNew
  <1>6. \A m \in DOMAIN subs : \A j \in Places(m)' :
          \/ j \in Places(m) /\ subs'[m][j] = subs[m][j]
          \/ m = l /\ j = Len(subs[l]) + 1 /\ subs'[m][j] = s
    BY <1>2, <1>3, <1>4 DEF Places
  <1>7. \A m \in DOMAIN subs : IsInjective(subs'[m])
    <2>1. \A m \in DOMAIN subs : DOMAIN subs'[m] = Places(m)' /\ DOMAIN subs[m] = Places(m)
      BY <1>2, <1>3, <1>4 DEF Places
    <2>2. \A m \in DOMAIN subs : \A j, k \in Places(m) : subs[m][j] = subs[m][k] => j = k
      BY <2>1 DEF IInv, Shape, TypeOK, IsInjective
    <2> QED
      BY <1>5, <1>6, <2>1, <2>2 DEF IsInjective
  <1>8. TypeOK'
    <2>1. subs' \in [DOMAIN subs' -> Seq(Subscriber)]
      BY <1>1, <1>2, <1>3, <1>4 DEF IInv, Shape, TypeOK
    <2> QED
      BY <1>1, <1>2, <1>7, <2>1 DEF IInv, Shape, TypeOK
  <1>9. GhostTypes'
    <2>1. Len(log[l]) \in Nat
      BY DEF IInv, Shape, GhostTypes
    <2> QED
      BY <2>1 DEF IInv, Shape, GhostTypes
  <1>10. InOneList'
    BY <1>2, <1>5, <1>6 DEF IInv, Shape, InOneList
  <1>11. UnusedAreNew'
    BY <1>1, <1>2, <1>6 DEF IInv, Shape, TypeOK, UnusedAreNew
  <1>12. Cloned'
    <2>1. phase \in {"send", "remove"} => sender # s
      BY <1>1 DEF IInv, Shape, Cloned
    <2>2. ASSUME phase \in {"send", "remove"} PROVE receiver'[sender] # "unused"
      BY <1>1, <2>1, <2>2 DEF IInv, Shape, TypeOK, Cloned
    <2>3. ASSUME phase \in {"send", "remove"}, NEW m \in DOMAIN subs, NEW j \in Places(m)',
                 subs'[m][j] = sender
          PROVE  m = list /\ j = index
      BY <1>6, <2>1, <2>3 DEF IInv, Shape, Cloned
    <2> QED
      BY <1>1, <1>2, <2>2, <2>3 DEF Cloned
  <1> QED
    BY <1>2, <1>5, <1>6, <1>8, <1>9, <1>10, <1>11, <1>12 DEF Shape

LEMMA ReplaceShape ==
  ASSUME IInv, NEW i \in InvoiceId, InsertInvoice(i) \/ RemoveInvoice(i),
         UNCHANGED <<published, log, since, given>>
  PROVE  /\ Shape'
         /\ \A l \in DOMAIN subs' : \A j \in Places(l)' : l \in DOMAIN subs /\ subs'[l] = subs[l]
  <1>1. /\ DOMAIN subs' \in {DOMAIN subs \cup {i}, DOMAIN subs \ {i}}
        /\ subs' = [l \in DOMAIN subs' |-> subs'[l]]
        /\ \A l \in DOMAIN subs' : IF l = i THEN subs'[l] = <<>> ELSE l \in DOMAIN subs /\ subs'[l] = subs[l]
        /\ UNCHANGED <<receiver, backlog, phase, list, index, closed, sender>>
    BY DEF InsertInvoice, RemoveInvoice, walk
  <1>2. \A l \in DOMAIN subs' : \A j \in Places(l)' : l \in DOMAIN subs /\ subs'[l] = subs[l]
    BY <1>1 DEF Places
  <1>3. TypeOK'
    <2>1. \A l \in DOMAIN subs : subs[l] \in Seq(Subscriber) /\ IsInjective(subs[l])
      BY DEF IInv, Shape, TypeOK
    <2>2. <<>> \in Seq(Subscriber) /\ IsInjective(<<>>)
      BY DEF IsInjective
    <2>4. \A l \in DOMAIN subs' : subs'[l] \in Seq(Subscriber) /\ IsInjective(subs'[l])
      BY <1>1, <2>1, <2>2
    <2>5. subs' \in [DOMAIN subs' -> Seq(Subscriber)]
      BY <1>1, <2>4
    <2>3. Global \in DOMAIN subs' /\ DOMAIN subs' \subseteq Lists
      BY <1>1, PublisherAssumption DEF IInv, Shape, TypeOK, Lists
    <2> QED
      BY <1>1, <2>3, <2>4, <2>5 DEF IInv, Shape, TypeOK
  <1>4. InOneList' /\ UnusedAreNew' /\ Cloned' /\ GhostTypes'
    BY <1>1, <1>2 DEF IInv, Shape, InOneList, UnusedAreNew, Cloned, GhostTypes, Places
  <1> QED
    BY <1>2, <1>3, <1>4 DEF Shape

LEMMA RemoveShape ==
  ASSUME IInv, RemoveSender, UNCHANGED ghosts
  PROVE  Shape'
  <1>1. phase = "remove" /\ phase' = "look" /\ UNCHANGED <<receiver, backlog, list, index, closed, sender>>
        /\ UNCHANGED <<published, log, since, given>>
    BY DEF RemoveSender, ghosts
  <1>2. CASE subs' = subs
    BY <1>1, <1>2 DEF IInv, Shape, TypeOK, GhostTypes, InOneList, UnusedAreNew, Cloned, Places
  <1>3. CASE /\ list \in DOMAIN subs /\ index \in Places(list) /\ subs[list][index] = sender
             /\ subs' = [subs EXCEPT ![list] = SwapRemove(subs[list], sender)]
    <2>1. subs[list] \in Seq(Subscriber) /\ IsInjective(subs[list]) /\ Len(subs[list]) \in Nat
      BY <1>3 DEF IInv, Shape, TypeOK
    <2>2. DOMAIN subs' = DOMAIN subs /\ subs'[list] = SwapRemove(subs[list], subs[list][index])
          /\ \A l \in DOMAIN subs : l # list => subs'[l] = subs[l]
      BY <1>3 DEF IInv, Shape, TypeOK
    <2>3. /\ subs'[list] \in Seq(Subscriber) /\ IsInjective(subs'[list])
          /\ Len(subs'[list]) = Len(subs[list]) - 1
          /\ \A k \in 1 .. Len(subs'[list]) :
               subs'[list][k] = IF k = index THEN subs[list][Len(subs[list])] ELSE subs[list][k]
      BY <1>3, <2>1, <2>2, Swapped DEF Places
    <2>4. \A l \in DOMAIN subs : \A j \in Places(l)' : \E k \in Places(l) : subs'[l][j] = subs[l][k]
      BY <1>3, <2>1, <2>2, <2>3 DEF Places
    <2>5. TypeOK'
      <3>1. subs' \in [DOMAIN subs' -> Seq(Subscriber)]
        BY <1>3, <2>2, <2>3 DEF IInv, Shape, TypeOK
      <3>2. \A l \in DOMAIN subs' : IsInjective(subs'[l])
        BY <2>2, <2>3 DEF IInv, Shape, TypeOK
      <3> QED
        BY <1>1, <2>2, <3>1, <3>2 DEF IInv, Shape, TypeOK
    <2>6. InOneList'
      <3> SUFFICES ASSUME NEW l \in DOMAIN subs', NEW m \in DOMAIN subs',
                          NEW j \in Places(l)', NEW k \in Places(m)', subs'[l][j] = subs'[m][k]
                   PROVE  l = m
        BY DEF InOneList
      <3>1. PICK a \in Places(l) : subs'[l][j] = subs[l][a]
        BY <2>2, <2>4
      <3>2. PICK b \in Places(m) : subs'[m][k] = subs[m][b]
        BY <2>2, <2>4
      <3> QED
        BY <2>2, <3>1, <3>2 DEF IInv, Shape, InOneList
    <2>7. UnusedAreNew'
      BY <1>1, <2>2, <2>4 DEF IInv, Shape, UnusedAreNew
    <2> QED
      BY <1>1, <2>5, <2>6, <2>7 DEF IInv, Shape, GhostTypes, Cloned
  <1> QED
    BY <1>2, <1>3, Removed

LEMMA WalkOnShape ==
  ASSUME IInv, Look \/ EndOfList \/ Send \/ SendErr,
         log' = IF list' = list THEN log ELSE [log EXCEPT ![Global] = Append(@, published)],
         given' = IF backlog' = backlog THEN given
                  ELSE [given EXCEPT ![sender] = Append(@, published)],
         UNCHANGED <<published, topic, since>>
  PROVE  Shape'
  <1>1. TypeOK /\ GhostTypes /\ Cloned /\ InOneList /\ UnusedAreNew
    BY DEF IInv, Shape
  <1>2. Global \in Lists /\ Global \in DOMAIN subs
    BY <1>1 DEF TypeOK, Lists
  <1>3. CASE Look
    <2>1. subs' = subs /\ receiver' = receiver /\ backlog' = backlog /\ list' = list
          /\ index' = index /\ closed' = closed /\ phase' = "send"
          /\ log' = log /\ given' = given /\ since' = since /\ published' = published
      BY <1>3 DEF Look
    <2>2. list \in DOMAIN subs /\ sender' = subs[list][index] /\ index \in Places(list)
      BY <1>1, <1>3 DEF Look, Members, Places, TypeOK
    <2>3. sender' \in Subscriber
      BY <1>1, <2>2 DEF TypeOK, Places
    <2>4. receiver[sender'] # "unused"
      BY <1>1, <2>2, <2>3 DEF UnusedAreNew
    <2>5. \A l \in DOMAIN subs : \A j \in Places(l) : subs[l][j] = sender' => l = list /\ j = index
      BY <1>1, <2>2 DEF InOneList, TypeOK, IsInjective, Places
    <2>6. Cloned'
      BY <2>1, <2>4, <2>5 DEF Cloned, Places
    <2>7. TypeOK' /\ GhostTypes'
      BY <1>1, <2>1, <2>3 DEF TypeOK, GhostTypes
    <2>8. InOneList' /\ UnusedAreNew'
      BY <1>1, <2>1 DEF InOneList, UnusedAreNew, Places
    <2> QED
      BY <2>6, <2>7, <2>8 DEF Shape
  <1>4. CASE EndOfList
    <2>1. /\ subs' = subs /\ receiver' = receiver /\ backlog' = backlog /\ list' = Global
          /\ index' = 1 /\ closed' \in BOOLEAN /\ phase' \in {"rest", "look"} /\ sender' = sender
          /\ given' = given /\ since' = since /\ published' = published
          /\ log' \in {log, [log EXCEPT ![Global] = Append(@, published)]}
      BY <1>4 DEF EndOfList
    <2>2. TypeOK'
      BY <1>1, <1>2, <2>1 DEF TypeOK
    <2>6. log \in [Lists -> Seq(Nat)] /\ Append(log[Global], published) \in Seq(Nat)
      BY <1>1, <1>2 DEF GhostTypes
    <2>4. log' \in [Lists -> Seq(Nat)]
      BY <1>2, <2>1, <2>6
    <2>5. GhostTypes'
      BY <1>1, <2>1, <2>4 DEF GhostTypes
    <2>3. InOneList' /\ UnusedAreNew' /\ Cloned'
      BY <1>1, <2>1 DEF InOneList, UnusedAreNew, Cloned, Places
    <2> QED
      BY <2>2, <2>3, <2>5 DEF Shape
  <1>5. CASE Send \/ SendErr
    <2>1. /\ subs' = subs /\ receiver' = receiver /\ list' = list /\ sender' = sender
          /\ phase = "send" /\ phase' \in {"look", "remove"} /\ index' \in {index, index + 1}
          /\ closed' \in BOOLEAN /\ (phase' = "remove" => index' = index)
          /\ log' = log /\ since' = since /\ published' = published
          /\ given' \in {given, [given EXCEPT ![sender] = Append(@, published)]}
          /\ receiver[sender] # "unused"
      BY <1>1, <1>5 DEF Send, SendErr, Advance, TypeOK
    <2>2. backlog' \in [Subscriber -> 0 .. BufferLen]
      BY <1>1, <1>5, PublisherAssumption DEF Send, SendErr, TypeOK
    <2>3. TypeOK'
      BY <1>1, <2>1, <2>2 DEF TypeOK
    <2>4. GhostTypes'
      BY <1>1, <2>1 DEF GhostTypes, TypeOK
    <2>5. InOneList' /\ Cloned'
      BY <1>1, <2>1 DEF InOneList, Cloned, Places
    <2>6. \A s \in Subscriber : s # sender => given'[s] = given[s]
      BY <1>1, <2>1 DEF GhostTypes
    <2>7. UnusedAreNew'
      BY <1>1, <2>1, <2>6 DEF UnusedAreNew, Places
    <2> QED
      BY <2>3, <2>4, <2>5, <2>7 DEF Shape
  <1> QED
    BY <1>3, <1>4, <1>5

LEMMA PublishShape ==
  ASSUME IInv, Publish
  PROVE  Shape'
  <1>1. PICK i \in InvoiceId : SendUpdates(i) /\ log' = [log EXCEPT ![i] = Append(@, published + 1)]
    BY DEF Publish
  <1>2. /\ subs' = subs /\ receiver' = receiver /\ backlog' = backlog /\ sender' = sender
        /\ phase' = "look" /\ list' = i /\ index' = 1 /\ closed' \in BOOLEAN
        /\ published' = published + 1 /\ given' = given /\ since' = since
    BY <1>1 DEF SendUpdates, Publish
  <1>3. TypeOK'
    BY <1>2 DEF IInv, Shape, TypeOK, Lists
  <1>5. published + 1 \in Nat /\ i \in Lists /\ log \in [Lists -> Seq(Nat)]
    BY DEF IInv, Shape, GhostTypes, Lists
  <1>8. Append(log[i], published + 1) \in Seq(Nat)
    BY <1>5
  <1>6. log' \in [Lists -> Seq(Nat)]
    BY <1>1, <1>5, <1>8
  <1>7. GhostTypes'
    BY <1>2, <1>5, <1>6 DEF IInv, Shape, GhostTypes
  <1>4. InOneList' /\ UnusedAreNew' /\ Cloned'
    BY <1>2 DEF IInv, Shape, InOneList, UnusedAreNew, Cloned, Places
  <1> QED
    BY <1>3, <1>4, <1>7 DEF Shape

LEMMA ListenShape ==
  ASSUME IInv, Listen
  PROVE  Shape'
  <1>1. PICK s \in Subscriber : Receive(s) \/ Drop(s)
    BY DEF Listen
  <1>2. /\ UNCHANGED <<subs, phase, list, index, closed, sender, published, log, since, given>>
        /\ receiver' \in {receiver, [receiver EXCEPT ![s] = "dropped"]}
        /\ receiver' = receiver \/ receiver[s] = "open"
        /\ \/ backlog' = [backlog EXCEPT ![s] = 0]
           \/ backlog[s] > 0 /\ backlog' = [backlog EXCEPT ![s] = backlog[s] - 1]
    BY <1>1 DEF Listen, Receive, Drop, walk, ghosts
  <1>3. backlog' \in [Subscriber -> 0 .. BufferLen]
    BY <1>2, PublisherAssumption DEF IInv, Shape, TypeOK
  <1>4. \A q \in Subscriber : receiver'[q] = "unused" <=> receiver[q] = "unused"
    BY <1>2 DEF IInv, Shape, TypeOK
  <1>5. TypeOK' /\ GhostTypes'
    BY <1>2, <1>3 DEF IInv, Shape, TypeOK, GhostTypes
  <1>6. InOneList' /\ UnusedAreNew' /\ Cloned'
    BY <1>2, <1>4 DEF IInv, Shape, TypeOK, InOneList, UnusedAreNew, Cloned, Places
  <1> QED
    BY <1>5, <1>6 DEF Shape
------------------------------------------------------------------------------
(***************************************************************************)
(* What the senders have been given.                                       *)
(***************************************************************************)
LEMMA OneMore ==
  ASSUME NEW got \in Seq(Nat), NEW start \in Nat, NEW updates \in Seq(Nat), Len(updates) > 0,
         UpTo(got, start, updates, Len(updates) - 1)
  PROVE  UpTo(Append(got, updates[Len(updates)]), start, updates, Len(updates))
  <1> DEFINE n == Len(updates)
             new == Append(got, updates[n])
  <1>1. n \in Nat /\ Len(got) \in Nat /\ Len(got) <= n - 1 /\ n - 1 - start <= Len(got)
        /\ \A k \in 1 .. Len(got) : got[k] = updates[n - 1 - Len(got) + k]
    BY DEF UpTo
  <1>2. Len(new) = Len(got) + 1 /\ \A k \in 1 .. Len(got) : new[k] = got[k]
        /\ new[Len(got) + 1] = updates[n]
    BY <1>1
  <1>3. ASSUME NEW k \in 1 .. Len(new) PROVE new[k] = updates[n - Len(new) + k]
    <2>1. CASE k \in 1 .. Len(got)
      <3>1. n - 1 - Len(got) + k = n - Len(new) + k
        BY <1>1, <1>2, <2>1
      <3> QED
        BY <1>1, <1>2, <2>1, <3>1
    <2>2. CASE k = Len(got) + 1
      <3>1. n - Len(new) + k = n
        BY <1>1, <1>2, <2>2
      <3> QED
        BY <1>2, <2>2, <3>1
    <2> QED
      BY <1>1, <1>2, <2>1, <2>2
  <1>4. Len(new) <= n /\ n - start <= Len(new)
    BY <1>1, <1>2
  <1> QED
    BY <1>3, <1>4 DEF UpTo

LEMMA Published ==
  ASSUME NEW got \in Seq(Nat), NEW start \in Nat, NEW updates \in Seq(Nat), NEW u \in Nat,
         UpTo(got, start, updates, Len(updates))
  PROVE  /\ Append(updates, u) \in Seq(Nat) /\ Len(Append(updates, u)) = Len(updates) + 1
         /\ Append(updates, u)[Len(updates) + 1] = u
         /\ UpTo(got, start, Append(updates, u), Len(updates))
  <1>1. Len(got) \in Nat /\ Len(updates) \in Nat /\ Len(got) <= Len(updates)
    BY DEF UpTo
  <1>2. \A k \in 1 .. Len(got) : Len(updates) - Len(got) + k \in 1 .. Len(updates)
    BY <1>1
  <1>3. \A k \in 1 .. Len(updates) : Append(updates, u)[k] = updates[k]
    BY <1>1
  <1> QED
    BY <1>2, <1>3 DEF UpTo

\* Who subscribes after the n-th update has been given all since.
LEMMA Fresh ==
  ASSUME NEW updates \in Seq(Nat), NEW n \in {Len(updates), Len(updates) - 1}, n >= 0
  PROVE  UpTo(<<>>, Len(updates), updates, n)
  BY DEF UpTo

LEMMA Where ==
  ASSUME Shape
  PROVE  /\ \A l \in DOMAIN subs : l \in Lists /\ log[l] \in Seq(Nat) /\ Len(log[l]) \in Nat
                                  /\ Len(subs[l]) \in Nat
         /\ \A l \in DOMAIN subs : \A j \in Places(l) :
              /\ subs[l][j] \in Subscriber /\ j \in Nat \ {0}
              /\ given[subs[l][j]] \in Seq(Nat) /\ since[subs[l][j]] \in Nat
         /\ index \in Nat \ {0} /\ list \in Lists /\ log[list] \in Seq(Nat)
  <1>1. \A l \in DOMAIN subs : subs[l] \in Seq(Subscriber) /\ l \in Lists
    BY DEF Shape, TypeOK
  <1>2. \A l \in DOMAIN subs : \A j \in Places(l) : subs[l][j] \in Subscriber /\ j \in Nat \ {0}
    BY <1>1 DEF Places
  <1> QED
    BY <1>1, <1>2 DEF Shape, GhostTypes, TypeOK

LEMMA SubscribeStep ==
  ASSUME IInv, NEW s \in Subscriber, NEW l \in Lists, Subscribe(s, l),
         since' = [since EXCEPT ![s] = Len(log[l])], UNCHANGED <<published, log, given>>
  PROVE  IInv'
  <1>1. /\ Shape'
        /\ \A m \in DOMAIN subs' : \A j \in Places(m)' :
             \/ m \in DOMAIN subs /\ j \in Places(m) /\ subs'[m][j] = subs[m][j] /\ subs[m][j] # s
             \/ m = l /\ subs'[m][j] = s
    BY SubscribeShape
  <1>2. /\ UNCHANGED <<phase, list, index, sender, published, log, given>>
        /\ receiver[s] = "unused" /\ l \in DOMAIN subs
    BY DEF Subscribe, walk
  <1>3. Walking'
    BY <1>2 DEF IInv, Walking
  <1>4. given[s] = <<>> /\ log[l] \in Seq(Nat) /\ Len(log[l]) \in Nat /\ since'[s] = Len(log[l])
        /\ \A q \in Subscriber : q # s => since'[q] = since[q]
    BY <1>2 DEF IInv, Shape, UnusedAreNew, GhostTypes
  <1>5. ASSUME NEW m \in DOMAIN subs', NEW j \in Places(m)'
        PROVE  \/ /\ m \in DOMAIN subs /\ j \in Places(m) /\ subs'[m][j] = subs[m][j]
                  /\ \A n : Given(m, j, n)' <=> Given(m, j, n)
               \/ /\ m = l /\ subs'[m][j] = s
                  /\ \A n \in {Len(log[l]), Len(log[l]) - 1} : n >= 0 => Given(m, j, n)'
    <2>1. CASE m \in DOMAIN subs /\ j \in Places(m) /\ subs'[m][j] = subs[m][j] /\ subs[m][j] # s
      <3>1. subs[m][j] \in Subscriber
        BY <2>1, Where DEF IInv
      <3> QED
        BY <1>2, <1>4, <2>1, <3>1 DEF Given
    <2>2. CASE m = l /\ subs'[m][j] = s
      <3>1. \A n \in {Len(log[l]), Len(log[l]) - 1} : n >= 0 => UpTo(<<>>, Len(log[l]), log[l], n)
        BY <1>4, Fresh
      <3> QED
        BY <1>2, <1>4, <2>2, <3>1 DEF Given
    <2> QED
      BY <1>1, <2>1, <2>2
  <1>6. Behind'
    <2> SUFFICES ASSUME NEW m \in DOMAIN subs', NEW j \in Places(m)'
                 PROVE  \/ phase' = "remove" /\ subs'[m][j] = sender'
                        \/ Given(m, j, IF Ahead(m, j) THEN Len(log[m]) - 1 ELSE Len(log[m]))'
      BY DEF Behind
    <2>1. Ahead(m, j)' <=> Ahead(m, j)
      BY <1>2 DEF Ahead
    <2>2. CASE /\ m \in DOMAIN subs /\ j \in Places(m) /\ subs'[m][j] = subs[m][j]
               /\ \A n : Given(m, j, n)' <=> Given(m, j, n)
      BY <1>2, <2>1, <2>2 DEF IInv, Behind
    <2>3. CASE /\ m = l /\ subs'[m][j] = s
               /\ \A n \in {Len(log[l]), Len(log[l]) - 1} : n >= 0 => Given(m, j, n)'
      <3>1. Ahead(m, j) => Len(log[l]) > 0
        BY <2>3 DEF IInv, Walking, Ahead
      <3> QED
        BY <1>2, <1>4, <2>1, <2>3, <3>1
    <2> QED
      BY <1>5, <2>2, <2>3
  <1>7. Newcomer'
    <2> SUFFICES ASSUME phase' = "send", NEW m \in DOMAIN subs', NEW j \in Places(m)',
                        m = list', j = index', subs'[m][j] # sender'
                 PROVE  Given(m, j, Len(log[m]))'
      BY DEF Newcomer
    <2>2. CASE /\ m \in DOMAIN subs /\ j \in Places(m) /\ subs'[m][j] = subs[m][j]
               /\ \A n : Given(m, j, n)' <=> Given(m, j, n)
      BY <1>2, <2>2 DEF IInv, Newcomer
    <2>3. CASE /\ m = l /\ subs'[m][j] = s
               /\ \A n \in {Len(log[l]), Len(log[l]) - 1} : n >= 0 => Given(m, j, n)'
      BY <1>2, <1>4, <2>3
    <2> QED
      BY <1>5, <2>2, <2>3
  <1> QED
    BY <1>1, <1>3, <1>6, <1>7 DEF IInv

LEMMA ReplaceStep ==
  ASSUME IInv, Replace
  PROVE  IInv'
  <1>1. PICK i \in InvoiceId : InsertInvoice(i) \/ RemoveInvoice(i)
    BY DEF Replace
  <1>2. UNCHANGED <<phase, list, index, sender, published, log, since, given>>
    BY <1>1 DEF Replace, InsertInvoice, RemoveInvoice, walk
  <1>3. Shape' /\ \A l \in DOMAIN subs' : \A j \in Places(l)' : l \in DOMAIN subs /\ subs'[l] = subs[l]
    BY <1>1, <1>2, ReplaceShape
  <1>4. \A l \in DOMAIN subs' : \A j \in Places(l)' :
          /\ l \in DOMAIN subs /\ j \in Places(l) /\ subs'[l] = subs[l]
          /\ Ahead(l, j)' <=> Ahead(l, j)
          /\ \A n : Given(l, j, n)' <=> Given(l, j, n)
    BY <1>2, <1>3 DEF Places, Ahead, Given
  <1>5. Walking' /\ Behind' /\ Newcomer'
    BY <1>2, <1>4 DEF IInv, Walking, Behind, Newcomer
  <1> QED
    BY <1>3, <1>5 DEF IInv

LEMMA ListenStep ==
  ASSUME IInv, Listen
  PROVE  IInv'
  <1>1. UNCHANGED <<subs, phase, list, index, sender, published, log, since, given>>
    BY DEF Listen, Receive, Drop, walk, ghosts
  <1>2. Walking' /\ Behind' /\ Newcomer'
    BY <1>1 DEF IInv, Walking, Behind, Newcomer, Places, Ahead, Given
  <1> QED
    BY <1>2, ListenShape DEF IInv

LEMMA PublishStep ==
  ASSUME IInv, Publish
  PROVE  IInv'
  <1>1. PICK i \in InvoiceId : SendUpdates(i) /\ log' = [log EXCEPT ![i] = Append(@, published + 1)]
    BY DEF Publish
  <1>2. /\ subs' = subs /\ phase = "rest" /\ phase' = "look" /\ list' = i /\ index' = 1
        /\ published' = published + 1 /\ given' = given /\ since' = since
    BY <1>1 DEF SendUpdates, Publish
  <1>3. i \in Lists /\ log \in [Lists -> Seq(Nat)] /\ published + 1 \in Nat
    BY DEF IInv, Shape, GhostTypes, Lists
  <1>4. log'[i] = Append(log[i], published + 1) /\ \A l \in Lists : l # i => log'[l] = log[l]
    BY <1>1, <1>3
  <1>5. Len(log[i]) \in Nat /\ Len(log'[i]) = Len(log[i]) + 1 /\ log'[i][Len(log[i]) + 1] = published + 1
    BY <1>3, <1>4
  <1>6. Walking'
    BY <1>2, <1>5 DEF Walking
  <1>7. Behind'
    <2> SUFFICES ASSUME NEW l \in DOMAIN subs', NEW j \in Places(l)'
                 PROVE  Given(l, j, IF Ahead(l, j) THEN Len(log[l]) - 1 ELSE Len(log[l]))'
      BY DEF Behind
    <2> DEFINE s == subs[l][j]
    <2>1. /\ l \in DOMAIN subs /\ j \in Places(l) /\ subs'[l][j] = s
          /\ l \in Lists /\ log[l] \in Seq(Nat) /\ Len(log[l]) \in Nat
          /\ given[s] \in Seq(Nat) /\ since[s] \in Nat /\ j >= 1
      BY <1>2, Where DEF IInv, Places
    <2>2. UpTo(given[s], since[s], log[l], Len(log[l]))
      BY <1>2, <2>1 DEF IInv, Behind, Ahead, Given
    <2> HIDE DEF s
    <2>3. Ahead(l, j)' <=> l = i
      BY <1>2, <2>1 DEF Ahead
    <2>4. CASE l = i
      <3>1. UpTo(given[s], since[s], log'[l], Len(log[l]))
        <4>1. \A u \in Nat : UpTo(given[s], since[s], Append(log[l], u), Len(log[l]))
          BY <2>1, <2>2, Published
        <4> QED
          BY <1>3, <1>4, <2>4, <4>1
      <3>2. Len(log'[l]) - 1 = Len(log[l])
        BY <1>5, <2>4
      <3> QED
        BY <1>2, <2>1, <2>3, <2>4, <3>1, <3>2 DEF Given
    <2>5. CASE l # i
      BY <1>2, <1>4, <2>1, <2>2, <2>3, <2>5 DEF Given
    <2> QED
      BY <2>4, <2>5
  <1>8. Newcomer'
    BY <1>2 DEF Newcomer
  <1> QED
    BY <1>6, <1>7, <1>8, PublishShape DEF IInv

LEMMA LookStep ==
  ASSUME IInv, Shape', Look, UNCHANGED <<published, log, since, given>>
  PROVE  IInv'
  <1>1. /\ UNCHANGED <<subs, list, index>> /\ phase = "look" /\ phase' = "send"
        /\ sender' = Members(list)[index]
    BY DEF Look
  <1>2. list \in DOMAIN subs => sender' = subs[list][index]
    BY <1>1 DEF Members
  <1>3. Walking' /\ Behind' /\ Newcomer'
    BY <1>1, <1>2 DEF IInv, Walking, Behind, Newcomer, Places, Ahead, Given
  <1> QED
    BY <1>3 DEF IInv

LEMMA EndOfListStep ==
  ASSUME IInv, Shape', EndOfList, UNCHANGED <<published, since, given>>,
         log' = IF list' = list THEN log ELSE [log EXCEPT ![Global] = Append(@, published)]
  PROVE  IInv'
  <1>1. /\ subs' = subs /\ list' = Global /\ index' = 1 /\ phase = "look"
        /\ phase' = IF list = Global THEN "rest" ELSE "look"
        /\ \A l \in DOMAIN subs : \A j \in Places(l) : ~Ahead(l, j)
    <2>1. \A l \in DOMAIN subs : Len(subs[l]) \in Nat
      BY Where DEF IInv
    <2>2. index \in Nat
      BY DEF IInv, Shape, TypeOK
    <2> QED
      BY <2>1, <2>2 DEF EndOfList, Members, Places, Ahead
  <1>2. \A l \in DOMAIN subs : \A j \in Places(l) : Given(l, j, Len(log[l]))
    BY <1>1 DEF IInv, Behind
  <1>3. CASE list = Global
    <2>1. phase' = "rest" /\ UNCHANGED <<subs, log, since, given>>
      BY <1>1, <1>3
    <2>2. Walking' /\ Newcomer'
      BY <2>1 DEF Walking, Newcomer
    <2>3. Behind'
      BY <1>2, <2>1 DEF Behind, Places, Ahead, Given
    <2> QED
      BY <2>2, <2>3 DEF IInv
  <1>4. CASE list # Global
    <2>1. /\ log' = [log EXCEPT ![Global] = Append(log[Global], published)] /\ phase' = "look"
          /\ Global \in Lists /\ log \in [Lists -> Seq(Nat)] /\ published \in Nat
      BY <1>1, <1>4 DEF IInv, Shape, GhostTypes, Lists
    <2>2. log'[Global] = Append(log[Global], published) /\ \A l \in Lists : l # Global => log'[l] = log[l]
      BY <2>1
    <2>3. Len(log[Global]) \in Nat /\ Len(log'[Global]) = Len(log[Global]) + 1
          /\ log'[Global][Len(log[Global]) + 1] = published
      BY <2>1, <2>2
    <2>4. Walking'
      BY <1>1, <2>1, <2>3 DEF Walking
    <2>5. Behind'
      <3> SUFFICES ASSUME NEW l \in DOMAIN subs', NEW j \in Places(l)'
                   PROVE  Given(l, j, IF Ahead(l, j) THEN Len(log[l]) - 1 ELSE Len(log[l]))'
        BY DEF Behind
      <3> DEFINE s == subs[l][j]
      <3>1. /\ l \in DOMAIN subs /\ j \in Places(l) /\ subs'[l][j] = s
            /\ l \in Lists /\ log[l] \in Seq(Nat) /\ Len(log[l]) \in Nat
            /\ given[s] \in Seq(Nat) /\ since[s] \in Nat /\ j >= 1
        BY <1>1, Where DEF IInv, Places
      <3>2. UpTo(given[s], since[s], log[l], Len(log[l]))
        BY <1>2, <3>1 DEF Given
      <3> HIDE DEF s
      <3>3. Ahead(l, j)' <=> l = Global
        BY <1>1, <2>1, <3>1 DEF Ahead
      <3>4. CASE l = Global
        <4>1. UpTo(given[s], since[s], log'[l], Len(log[l]))
          BY <2>1, <2>2, <3>1, <3>2, <3>4, Published
        <4>2. Len(log'[l]) - 1 = Len(log[l])
          BY <2>3, <3>4
        <4> QED
          BY <3>1, <3>3, <3>4, <4>1, <4>2 DEF Given
      <3>5. CASE l # Global
        BY <2>2, <3>1, <3>2, <3>3, <3>5 DEF Given
      <3> QED
        BY <3>4, <3>5
    <2>6. Newcomer'
      BY <2>1 DEF Newcomer
    <2> QED
      BY <2>4, <2>5, <2>6 DEF IInv
  <1> QED
    BY <1>3, <1>4

LEMMA SendStep ==
  ASSUME IInv, Shape', Send, UNCHANGED <<published, log, since>>,
         given' = IF backlog' = backlog THEN given
                  ELSE [given EXCEPT ![sender] = Append(@, published)]
  PROVE  IInv'
  <1>1. /\ UNCHANGED <<subs, list, sender, closed>> /\ phase = "send" /\ sender \in Subscriber
        /\ IF closed THEN phase' = "remove" /\ index' = index ELSE phase' = "look" /\ index' = index + 1
        /\ list \in Lists /\ index \in Nat
    BY DEF Send, Advance, IInv, Shape, TypeOK
  <1>2. given' = [given EXCEPT ![sender] = Append(given[sender], published)]
    <2>1. backlog'[sender] = backlog[sender] + 1 /\ backlog[sender] \in Nat
      BY DEF Send, IInv, Shape, TypeOK
    <2> QED
      BY <2>1
  <1>3. given'[sender] = Append(given[sender], published) /\ given[sender] \in Seq(Nat)
        /\ \A s \in Subscriber : s # sender => given'[s] = given[s]
    BY <1>1, <1>2 DEF IInv, Shape, GhostTypes
  <1>4. log[list] \in Seq(Nat) /\ Len(log[list]) > 0 /\ log[list][Len(log[list])] = published
    BY <1>1, Where DEF IInv, Walking
  <1>5. Walking'
    BY <1>1, <1>4 DEF Walking
  <1>6. Behind'
    <2> SUFFICES ASSUME NEW l \in DOMAIN subs', NEW j \in Places(l)',
                        ~(phase' = "remove" /\ subs'[l][j] = sender')
                 PROVE  Given(l, j, IF Ahead(l, j) THEN Len(log[l]) - 1 ELSE Len(log[l]))'
      BY DEF Behind
    <2> DEFINE s == subs[l][j]
    <2>1. /\ l \in DOMAIN subs /\ j \in Places(l) /\ subs'[l][j] = s /\ s \in Subscriber
          /\ log[l] \in Seq(Nat) /\ given[s] \in Seq(Nat) /\ since[s] \in Nat /\ j \in Nat
      BY <1>1, Where DEF IInv, Places
    <2>2. Given(l, j, IF Ahead(l, j) THEN Len(log[l]) - 1 ELSE Len(log[l]))
      BY <1>1, <2>1 DEF IInv, Behind
    <2>3. CASE s = sender
      <3>1. l = list /\ j = index
        BY <1>1, <2>1, <2>3 DEF IInv, Shape, Cloned
      <3>2. UpTo(given[s], since[s], log[l], Len(log[l]) - 1)
        BY <1>1, <2>1, <2>2, <3>1 DEF Ahead, Given
      <3>3. UpTo(Append(given[s], published), since[s], log[l], Len(log[l]))
        BY <1>4, <2>1, <3>1, <3>2, OneMore
      <3>4. ~Ahead(l, j)'
        BY <1>1, <2>1, <2>3, <3>1 DEF Ahead
      <3> QED
        BY <1>3, <2>1, <2>3, <3>3, <3>4 DEF Given
    <2>4. CASE s # sender
      <3>1. \A n : Given(l, j, n)' <=> Given(l, j, n)
        BY <1>1, <1>3, <2>1, <2>4 DEF Given
      <3>2. CASE Ahead(l, j)' <=> Ahead(l, j)
        BY <2>2, <3>1, <3>2
      <3>3. CASE ~(Ahead(l, j)' <=> Ahead(l, j))
        <4>1. l = list /\ j = index /\ ~Ahead(l, j)'
          BY <1>1, <2>1, <3>3 DEF Ahead
        <4>2. Given(l, j, Len(log[l]))
          BY <1>1, <2>1, <2>4, <4>1 DEF IInv, Newcomer
        <4> QED
          BY <3>1, <4>1, <4>2
      <3> QED
        BY <3>2, <3>3
    <2> QED
      BY <2>3, <2>4
  <1>7. Newcomer'
    BY <1>1 DEF Newcomer
  <1> QED
    BY <1>5, <1>6, <1>7 DEF IInv

LEMMA SendErrStep ==
  ASSUME IInv, Shape', SendErr, UNCHANGED <<published, log, since, given>>
  PROVE  IInv'
  <1>1. UNCHANGED <<subs, list, sender, index>> /\ phase = "send" /\ phase' = "remove"
    BY DEF SendErr, Advance
  <1>2. Walking' /\ Newcomer'
    BY <1>1 DEF IInv, Walking, Newcomer
  <1>3. Behind'
    BY <1>1 DEF IInv, Behind, Places, Ahead, Given
  <1> QED
    BY <1>2, <1>3 DEF IInv

LEMMA RemoveStep ==
  ASSUME IInv, RemoveSender, UNCHANGED ghosts
  PROVE  IInv'
  <1>1. /\ phase = "remove" /\ phase' = "look"
        /\ UNCHANGED <<list, index, sender, published, log, since, given>>
    BY DEF RemoveSender, ghosts
  <1>2. Walking' /\ Newcomer'
    BY <1>1 DEF IInv, Walking, Newcomer
  <1>3. CASE subs' = subs /\ \A l \in DOMAIN subs : \A j \in Places(l) : subs[l][j] # sender
    <2>1. Behind'
      BY <1>1, <1>3 DEF IInv, Behind, Places, Ahead, Given
    <2> QED
      BY <1>2, <2>1, RemoveShape DEF IInv
  <1>4. CASE /\ list \in DOMAIN subs /\ index \in Places(list) /\ subs[list][index] = sender
             /\ subs' = [subs EXCEPT ![list] = SwapRemove(subs[list], sender)]
    <2>1. subs[list] \in Seq(Subscriber) /\ IsInjective(subs[list]) /\ Len(subs[list]) \in Nat
      BY <1>4 DEF IInv, Shape, TypeOK
    <2>2. DOMAIN subs' = DOMAIN subs /\ subs'[list] = SwapRemove(subs[list], subs[list][index])
          /\ \A l \in DOMAIN subs : l # list => subs'[l] = subs[l]
      BY <1>4 DEF IInv, Shape, TypeOK
    <2>3. /\ Len(subs'[list]) = Len(subs[list]) - 1
          /\ \A k \in 1 .. Len(subs'[list]) :
               subs'[list][k] = IF k = index THEN subs[list][Len(subs[list])] ELSE subs[list][k]
      BY <1>4, <2>1, <2>2, Swapped DEF Places
    <2>4. ASSUME NEW l \in DOMAIN subs', NEW j \in Places(l)'
          PROVE  \E k \in Places(l) : /\ subs'[l][j] = subs[l][k] /\ (l = list => k # index)
                                      /\ Ahead(l, j)' <=> Ahead(l, k)
      <3>1. CASE l = list /\ j = index
        <4>1. Len(subs[list]) \in Places(list) /\ Len(subs[list]) > index /\ index \in Nat
          BY <1>4, <2>1, <2>3, <2>4, <3>1 DEF Places
        <4> QED
          BY <1>1, <2>3, <2>4, <3>1, <4>1 DEF Ahead, Places
      <3>2. CASE l = list /\ j # index
        BY <1>1, <2>1, <2>3, <2>4, <3>2 DEF Ahead, Places
      <3>3. CASE l # list
        BY <1>1, <2>2, <2>4, <3>3 DEF Ahead, Places
      <3> QED
        BY <3>1, <3>2, <3>3
    <2>5. Behind'
      <3> SUFFICES ASSUME NEW l \in DOMAIN subs', NEW j \in Places(l)'
                   PROVE  Given(l, j, IF Ahead(l, j) THEN Len(log[l]) - 1 ELSE Len(log[l]))'
        BY DEF Behind
      <3>1. PICK k \in Places(l) : /\ subs'[l][j] = subs[l][k] /\ (l = list => k # index)
                                   /\ Ahead(l, j)' <=> Ahead(l, k)
        BY <2>4
      <3>2. subs[l][k] # sender
        BY <1>1, <2>2, <3>1 DEF IInv, Shape, Cloned
      <3>3. Given(l, k, IF Ahead(l, k) THEN Len(log[l]) - 1 ELSE Len(log[l]))
        BY <2>2, <3>2 DEF IInv, Behind
      <3> QED
        BY <1>1, <3>1, <3>3 DEF Given
    <2> QED
      BY <1>1, <1>2, <2>5, RemoveShape DEF IInv
  <1> QED
    BY <1>3, <1>4, Removed
------------------------------------------------------------------------------
LEMMA InitIInv == Init => IInv
  <1> SUFFICES ASSUME Init PROVE IInv
    OBVIOUS
  <1>1. subs = [l \in {Global} |-> <<>>] /\ phase = "rest"
    BY DEF Init, PublisherInit
  <1>2. \A l \in DOMAIN subs : Places(l) = {}
    BY <1>1 DEF Places
  <1>3. TypeOK
    <2>1. <<>> \in Seq(Subscriber) /\ IsInjective(<<>>)
      BY DEF IsInjective
    <2>2. sender \in Subscriber
      BY PublisherAssumption DEF Init, PublisherInit
    <2>3. closed \in BOOLEAN
      BY DEF Init, PublisherInit
    <2> QED
      BY <1>1, <2>1, <2>2, <2>3, PublisherAssumption DEF Init, PublisherInit, TypeOK, Lists
  <1>4. GhostTypes /\ UnusedAreNew
    BY <1>2 DEF Init, GhostTypes, UnusedAreNew
  <1>5. InOneList /\ Cloned /\ Walking /\ Behind /\ Newcomer
    BY <1>1, <1>2 DEF InOneList, Cloned, Walking, Behind, Newcomer
  <1> QED
    BY <1>3, <1>4, <1>5 DEF IInv, Shape

LEMMA Invariance == IInv /\ [Next]_vars => IInv'
  <1> SUFFICES ASSUME IInv, [Next]_vars PROVE IInv'
    OBVIOUS
  <1>1. CASE DoSubscribe
    <2>1. PICK s \in Subscriber, l \in Lists :
            Subscribe(s, l) /\ since' = [since EXCEPT ![s] = Len(log[l])]
      BY <1>1 DEF DoSubscribe
    <2> QED
      BY <1>1, <2>1, SubscribeStep DEF DoSubscribe
  <1>2. CASE Replace
    BY <1>2, ReplaceStep
  <1>3. CASE Listen
    BY <1>3, ListenStep
  <1>4. CASE Publish
    BY <1>4, PublishStep
  <1>5. CASE Walk
    <2>1. UNCHANGED <<published, topic, since>>
      BY <1>5 DEF Walk
    <2>2. log' = IF list' = list THEN log ELSE [log EXCEPT ![Global] = Append(@, published)]
      BY <1>5 DEF Walk
    <2>3. given' = IF backlog' = backlog THEN given
                   ELSE [given EXCEPT ![sender] = Append(@, published)]
      BY <1>5 DEF Walk
    <2>4. CASE Look
      <3>1. list' = list /\ backlog' = backlog
        BY <2>4 DEF Look
      <3> QED
        BY <2>1, <2>2, <2>3, <2>4, <3>1, WalkOnShape, LookStep
    <2>5. CASE EndOfList
      <3>1. backlog' = backlog
        BY <2>5 DEF EndOfList
      <3> QED
        BY <2>1, <2>2, <2>3, <2>5, <3>1, WalkOnShape, EndOfListStep
    <2>6. CASE Send
      <3>1. list' = list
        BY <2>6 DEF Send
      <3> QED
        BY <2>1, <2>2, <2>3, <2>6, <3>1, WalkOnShape, SendStep
    <2>7. CASE SendErr
      <3>1. list' = list /\ backlog' = backlog
        BY <2>7 DEF SendErr
      <3> QED
        BY <2>1, <2>2, <2>3, <2>7, <3>1, WalkOnShape, SendErrStep
    <2>8. CASE RemoveSender
      <3>1. list' = list /\ backlog' = backlog
        BY <2>8 DEF RemoveSender
      <3> QED
        BY <2>1, <2>2, <2>3, <2>8, <3>1, RemoveStep DEF ghosts
    <2> QED
      BY <1>5, <2>4, <2>5, <2>6, <2>7, <2>8 DEF Walk, WalkStep
  <1>6. CASE UNCHANGED vars
    <2>1. UNCHANGED <<subs, receiver, backlog, phase, list, index, closed, sender,
                      published, log, since, given>>
      BY <1>6 DEF vars, publisher, walk, ghosts
    <2>2. Shape'
      BY <2>1 DEF IInv, Shape, TypeOK, GhostTypes, InOneList, UnusedAreNew, Cloned, Places
    <2>3. Walking' /\ Behind' /\ Newcomer'
      BY <2>1 DEF IInv, Walking, Behind, Newcomer, Places, Ahead, Given
    <2> QED
      BY <2>2, <2>3 DEF IInv
  <1> QED
    BY <1>1, <1>2, <1>3, <1>4, <1>5, <1>6 DEF Next

\* The variables keep their types; no sender is twice in a list.
THEOREM PublisherTypes == Spec => []TypeOK
  <1>1. IInv => TypeOK
    BY DEF IInv, Shape
  <1> QED
    BY <1>1, InitIInv, Invariance, PTL DEF Spec

(***************************************************************************)
(* Every sender in a list has been given every update since it subscribed, *)
(* in order and once, whatever the application's threads did to the lists  *)
(* under the walk of send_updates.                                         *)
(***************************************************************************)
THEOREM EveryUpdateGiven == Spec => []EveryUpdate
  <1>1. IInv => EveryUpdate
    <2> SUFFICES ASSUME IInv, NEW l \in DOMAIN subs, phase = "rest" \/ list # l, NEW s \in Range(subs[l])
                 PROVE  IsSuffix(given[s], log[l]) /\ Len(given[s]) >= Len(log[l]) - since[s]
      BY DEF EveryUpdate
    <2>1. DOMAIN subs[l] = Places(l)
      BY DEF IInv, Shape, TypeOK, Places
    <2>2. PICK j \in Places(l) : s = subs[l][j]
      BY <2>1 DEF Range
    <2>3. given[s] \in Seq(Nat) /\ log[l] \in Seq(Nat) /\ since[s] \in Nat
      BY <2>2, Where DEF IInv
    <2>4. CASE phase = "remove" /\ subs[l][j] = sender
      BY <2>2, <2>4 DEF IInv, Shape, Cloned
    <2>5. CASE UpTo(given[s], since[s], log[l], Len(log[l]))
      <3>1. IsSuffix(given[s], log[l])
        BY <2>3, <2>5, Suffix DEF UpTo
      <3>2. Len(given[s]) \in Nat /\ Len(log[l]) \in Nat
        BY <2>3
      <3> QED
        BY <2>3, <2>5, <3>1, <3>2 DEF UpTo
    <2> QED
      BY <2>2, <2>4, <2>5 DEF IInv, Behind, Ahead, Given
  <1> QED
    BY <1>1, InitIInv, Invariance, PTL DEF Spec
==============================================================================
