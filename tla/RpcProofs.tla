------------------------------ MODULE RpcProofs ------------------------------
(***************************************************************************)
(* Proofs about the client's calls: for any number of them side by side,   *)
(* any size of batches and any lists of hashes.                            *)
(***************************************************************************)
EXTENDS RpcAudit, SequenceTheorems, TLAPS

\* The counter is the next one of the challenge that is kept, and a nonce that
\* the daemon has not given out was not used.
CounterIsNext == last_auth_params # NoParams => counter = made[last_auth_params.nonce] + 1
FutureUnused == \A n \in Nonce : n > nonces => made[n] = 0

\* Between two exchanges a call has no header.
HeadersDropped ==
  \A r \in Request : pc[r] \in {"ready", "loop", "done", "failed"} => header[r] = NoHeader

Counted == TypeOK /\ CounterIsNext /\ FutureUnused /\ HeadersDropped

\* The hashes before a batch, and those up to its end, have been asked for.
UpToHash(n) == [k \in 1 .. n |-> k]
Before(r) == IF First(r) < hashes[r] THEN First(r) ELSE hashes[r]

AskedSoFar ==
  \A r \in Request :
    /\ pc[r] = "loop" => asked[r] = UpToHash(Before(r))
    /\ pc[r] \in {"sent", "resent", "body"} => asked[r] = UpToHash(Behind(r))
    /\ pc[r] = "done" => asked[r] = UpToHash(hashes[r])

IInv == Counted /\ AnswersOwnChallenge /\ AskedSoFar
------------------------------------------------------------------------------
\* A list is cut into batches without a gap, of which the last may be short.
LEMMA Batches ==
  ASSUME NEW n \in Nat, NEW b \in Nat, NEW m \in Nat \ {0}
  PROVE  /\ b * m \in Nat /\ (b + 1) * m \in Nat /\ b * m < (b + 1) * m
         /\ b <= n \div m => b * m <= n
         /\ b > n \div m => b * m > n
  <1> DEFINE q == n \div m
  <1>1. q \in Nat /\ q * m <= n /\ n < (q + 1) * m
    BY SMT
  <1>2. b * m \in Nat /\ (b + 1) * m \in Nat /\ b * m < (b + 1) * m
    BY SMT
  <1>3. ASSUME b <= q PROVE b * m <= q * m
    BY <1>1, <1>3, SMT
  <1>4. ASSUME b >= q + 1 PROVE b * m >= (q + 1) * m
    BY <1>1, <1>4, SMT
  <1> QED
    BY <1>1, <1>2, <1>3, <1>4

LEMMA Concatenated ==
  ASSUME NEW a \in Nat, NEW b \in Nat, a <= b
  PROVE  /\ [k \in 1 .. b - a |-> a + k] \in Seq(Nat)
         /\ UpToHash(a) \in Seq(Nat)
         /\ UpToHash(a) \o [k \in 1 .. b - a |-> a + k] = UpToHash(b)
  <1> DEFINE s == UpToHash(a)
             t == [k \in 1 .. b - a |-> a + k]
  <1>1. s \in Seq(Nat) /\ Len(s) = a
    BY DEF UpToHash
  <1>2. t \in Seq(Nat) /\ Len(t) = b - a
    OBVIOUS
  <1>3. s \o t \in Seq(Nat) /\ Len(s \o t) = b
    BY <1>1, <1>2
  <1>4. UpToHash(b) \in Seq(Nat) /\ Len(UpToHash(b)) = b
    BY DEF UpToHash
  <1>5. ASSUME NEW k \in 1 .. b PROVE (s \o t)[k] = UpToHash(b)[k]
    BY <1>1, <1>2, <1>5 DEF UpToHash
  <1> QED
    BY <1>1, <1>2, <1>3, <1>4, <1>5, SeqEqual

\* The steps that make no header.
Silent(r) == Call(r) \/ Return(r) \/ Answer(r) \/ TimeOut(r) \/ Body(r) \/ BodyFails(r)

LEMMA LengthsAreNat == \A n \in Lengths \cup {0} : n \in Nat
  <1>1. Lengths \subseteq Nat
    BY RpcAssumption, Zenon DEF RpcAssumption
  <1>2. ASSUME NEW n \in Lengths PROVE n \in Nat
    BY <1>1, <1>2, Zenon
  <1> QED
    BY <1>2

LEMMA BatchOf ==
  ASSUME TypeOK, NEW r \in Request
  PROVE  /\ hashes[r] \in Nat /\ batch[r] \in Nat
         /\ First(r) \in Nat /\ Behind(r) \in Nat /\ Before(r) \in Nat
         /\ First(r) < (batch[r] + 1) * MaxRequested
         /\ batch[r] <= LastBatch(hashes[r]) => First(r) <= hashes[r]
         /\ batch[r] > LastBatch(hashes[r]) => First(r) > hashes[r]
  <1>1. hashes[r] \in Nat /\ batch[r] \in Nat /\ MaxRequested \in Nat \ {0}
    <2>1. hashes[r] \in Lengths \cup {0} /\ batch[r] \in Nat
      BY DEF TypeOK
    <2>2. hashes[r] \in Nat
      BY <2>1, LengthsAreNat
    <2> QED
      BY <2>1, <2>2, RpcAssumption DEF RpcAssumption
  <1>2. /\ batch[r] * MaxRequested \in Nat /\ (batch[r] + 1) * MaxRequested \in Nat
        /\ batch[r] * MaxRequested < (batch[r] + 1) * MaxRequested
        /\ batch[r] <= hashes[r] \div MaxRequested => batch[r] * MaxRequested <= hashes[r]
        /\ batch[r] > hashes[r] \div MaxRequested => batch[r] * MaxRequested > hashes[r]
    BY <1>1, Batches
  <1>3. First(r) \in Nat /\ Behind(r) \in Nat /\ Before(r) \in Nat
    BY <1>1, <1>2 DEF First, Behind, Before
  <1> QED
    BY <1>1, <1>2, <1>3 DEF First, LastBatch

\* What a call asks for is a sequence.
LEMMA AskedType ==
  ASSUME TypeOK, NEW r \in Request, Step(r), Remember(r)
  PROVE  asked' \in [Request -> Seq(Nat)]
  <1>1. asked[r] \in Seq(Nat) /\ <<>> \in Seq(Nat)
    BY DEF TypeOK
  <1>2. CASE Send(r)
    <2>1. First(r) <= Behind(r) /\ First(r) \in Nat /\ Behind(r) \in Nat
      BY <1>2, BatchOf DEF Send, Behind
    <2>2. asked[r] \o Batch(r) \in Seq(Nat)
      BY <1>1, <2>1, Concatenated, ConcatProperties DEF Batch
    <2>3. pc[r] = "loop" /\ pc'[r] = "sent"
      BY <1>2 DEF Send, Goto, TypeOK
    <2> QED
      BY <1>1, <2>2, <2>3 DEF Remember, TypeOK
  <1>3. CASE ~(pc[r] = "loop" /\ pc'[r] = "sent")
    BY <1>1, <1>3 DEF Remember, TypeOK
  <1>4. ~Send(r) => ~(pc[r] = "loop" /\ pc'[r] = "sent")
    BY DEF Step, Call, Return, Challenge, Answer, TimeOut, Body, BodyFails, Goto, End, TypeOK
  <1> QED
    BY <1>2, <1>3, <1>4

LEMMA ChallengeType ==
  ASSUME TypeOK, NEW r \in Request, Remember(r), nonces' \in 0 .. MaxNonces
  PROVE  challenge' \in [Request -> 0 .. MaxNonces]
  <1>1. challenge \in [Request -> 0 .. MaxNonces] /\ 0 \in 0 .. MaxNonces
    BY RpcAssumption DEF TypeOK, RpcAssumption
  <1>2. PICK n \in 0 .. MaxNonces : challenge' = [challenge EXCEPT ![r] = n]
    BY <1>1 DEF Remember
  <1> QED
    BY <1>1, <1>2

\* A step makes at most one header, of the next count.
LEMMA CountedStep ==
  ASSUME Counted, NEW r \in Request, Step(r), Remember(r)
  PROVE  /\ Counted'
         /\ \A q \in Request : header'[q] \notin {header[q], NoHeader} =>
              header'[q].count = made[header'[q].nonce] + 1
  <1> USE RpcAssumption DEF RpcAssumption
  <1>1. CASE Silent(r)
    <2>1. header'[r] \in {header[r], NoHeader} /\ made' = made
      BY <1>1 DEF Silent, Call, Return, Answer, TimeOut, Body, BodyFails, Goto, End, Remember, Counted, TypeOK
    <2>2. UNCHANGED <<login, last_auth_params, counter, nonces>>
      BY <1>1 DEF Silent, Call, Return, Answer, TimeOut, Body, BodyFails, auth
    <2>3. TypeOK'
      <3>1. pc' \in [Request -> {"ready", "loop", "sent", "resent", "body", "done", "failed"}]
        BY <1>1 DEF Silent, Call, Return, Answer, TimeOut, Body, BodyFails, Goto, End, Counted, TypeOK
      <3>5. hashes' = hashes \/ (Call(r) /\ \E n \in Lengths : hashes' = [hashes EXCEPT ![r] = n])
        BY <1>1 DEF Silent, Call, Return, Answer, TimeOut, Body, BodyFails
      <3>6. hashes' \in [Request -> Lengths \cup {0}]
        BY <3>5 DEF Counted, TypeOK
      <3>7. \E k \in Nat : batch' = batch \/ batch' = [batch EXCEPT ![r] = k]
        <4>1. batch[r] \in Nat
          BY DEF Counted, TypeOK
        <4> QED
          BY <1>1, <4>1 DEF Silent, Call, Return, Answer, TimeOut, Body, BodyFails
      <3>8. batch' \in [Request -> Nat]
        BY <3>7 DEF Counted, TypeOK
      <3>2. header' = header \/ header' = [header EXCEPT ![r] = NoHeader]
        BY <1>1 DEF Silent, Call, Return, Answer, TimeOut, Body, BodyFails, Goto, End
      <3>3. header' \in [Request -> [nonce : 1 .. nonces, count : Nat \ {0}] \cup {NoHeader}]
        BY <3>2 DEF Counted, TypeOK
      <3>4. challenge' \in [Request -> 0 .. MaxNonces]
        BY <2>2, ChallengeType DEF Counted, TypeOK
      <3> QED
        BY <2>1, <2>2, <3>1, <3>3, <3>4, <3>6, <3>8, AskedType DEF Counted, TypeOK
    <2> QED
      BY <1>1, <2>1, <2>2, <2>3 DEF Silent, Call, Return, Answer, TimeOut, Body, BodyFails, Goto, End,
         Counted, TypeOK, CounterIsNext, FutureUnused, HeadersDropped
  <1>2. CASE Send(r) /\ MayAuthenticate
    <2> DEFINE n == last_auth_params.nonce
    <2>1. n \in 1 .. nonces /\ n \in Nonce /\ header[r] = NoHeader
      BY <1>2 DEF MayAuthenticate, Counted, TypeOK, HeadersDropped, Send, Nonce, NoParams
    <2>2. /\ header' = [header EXCEPT ![r] = [nonce |-> n, count |-> counter]]
          /\ counter' = counter + 1 /\ last_auth_params' = last_auth_params
          /\ pc' = [pc EXCEPT ![r] = "sent"]
          /\ UNCHANGED <<login, hashes, batch, nonces>>
      BY <1>2 DEF Send, Authenticate, Goto
    <2>3. header'[r] = [nonce |-> n, count |-> counter] /\ header'[r] # header[r]
      BY <2>1, <2>2 DEF Counted, TypeOK, NoHeader
    <2>4. made' = [made EXCEPT ![n] = @ + 1] /\ counter = made[n] + 1
      BY <1>2, <2>1, <2>3 DEF Remember, Counted, CounterIsNext, MayAuthenticate, NoHeader
    <2>5. TypeOK'
      <3>1. header' \in [Request -> [nonce : 1 .. nonces, count : Nat \ {0}] \cup {NoHeader}]
        BY <2>1, <2>2 DEF Counted, TypeOK
      <3>2. counter' \in Nat \ {0} /\ made' \in [Nonce -> Nat]
        BY <2>1, <2>2, <2>4 DEF Counted, TypeOK
      <3>3. challenge' \in [Request -> 0 .. MaxNonces]
        BY <2>2, ChallengeType DEF Counted, TypeOK
      <3>4. pc' \in [Request -> {"ready", "loop", "sent", "resent", "body", "done", "failed"}]
        BY <2>2 DEF Counted, TypeOK
      <3> QED
        BY <2>2, <3>1, <3>2, <3>3, <3>4, AskedType DEF Counted, TypeOK
    <2>6. CounterIsNext'
      BY <2>1, <2>2, <2>4 DEF Counted, TypeOK, CounterIsNext
    <2>7. FutureUnused' /\ HeadersDropped'
      BY <2>1, <2>2, <2>4 DEF Counted, TypeOK, FutureUnused, HeadersDropped, Nonce
    <2>8. \A q \in Request : header'[q] # header[q] => q = r
      BY <2>2 DEF Counted, TypeOK
    <2> QED
      BY <2>3, <2>4, <2>5, <2>6, <2>7, <2>8 DEF Counted
  <1>3. CASE Send(r) /\ ~MayAuthenticate
    <2>1. /\ header' = [header EXCEPT ![r] = NoHeader] /\ pc' = [pc EXCEPT ![r] = "sent"]
          /\ UNCHANGED <<login, last_auth_params, counter, hashes, batch, nonces>> /\ made' = made
      BY <1>3 DEF Send, Goto, Remember, Counted, TypeOK
    <2> QED
      <3>1. challenge' \in [Request -> 0 .. MaxNonces]
        BY <2>1, ChallengeType DEF Counted, TypeOK
      <3>2. header' \in [Request -> [nonce : 1 .. nonces, count : Nat \ {0}] \cup {NoHeader}]
        BY <2>1 DEF Counted, TypeOK
      <3>3. TypeOK'
        BY <2>1, <3>1, <3>2, AskedType DEF Counted, TypeOK
      <3> QED
        BY <2>1, <3>3 DEF Counted, TypeOK, CounterIsNext, FutureUnused, HeadersDropped
  <1>4. CASE Challenge(r)
    <2>1. PICK offers \in SUBSET (Understood \cup {"SHA-256"}) :
            IF login /\ offers # {} /\ offers \subseteq Understood
            THEN /\ Authenticate(Chosen(offers), 1)
                 /\ header' = [header EXCEPT ![r] = [nonce |-> Chosen(offers).nonce, count |-> 1]]
                 /\ Goto(r, "resent")
            ELSE End(r, "failed") /\ UNCHANGED <<last_auth_params, counter>>
      BY <1>4 DEF Challenge
    <2>2. nonces' = nonces + 1 /\ nonces' \in Nonce /\ UNCHANGED <<login, hashes, batch>>
      BY <1>4 DEF Challenge, Counted, TypeOK, Nonce
    <2>3. CASE login /\ offers # {} /\ offers \subseteq Understood
      <3> DEFINE n == nonces + 1
      <3>1. /\ last_auth_params' = [nonce |-> n, algorithm |-> Best(offers)] /\ counter' = 2
            /\ header' = [header EXCEPT ![r] = [nonce |-> n, count |-> 1]]
            /\ pc' = [pc EXCEPT ![r] = "resent"]
        BY <2>1, <2>3 DEF Authenticate, Chosen, Goto
      <3>2. header'[r] = [nonce |-> n, count |-> 1] /\ header'[r] \notin {header[r], NoHeader}
        BY <3>1 DEF Counted, TypeOK, NoHeader
      <3>3. made' = [made EXCEPT ![n] = @ + 1] /\ made[n] = 0
        BY <2>2, <3>2 DEF Remember, Counted, FutureUnused, TypeOK
      <3>4. Best(offers) \in Understood
        BY DEF Best, Understood
      <3>5. TypeOK'
        <4>1. header' \in [Request -> [nonce : 1 .. nonces', count : Nat \ {0}] \cup {NoHeader}]
          BY <2>2, <3>1 DEF Counted, TypeOK
        <4>2. last_auth_params' \in [nonce : 1 .. nonces', algorithm : Understood]
          BY <2>2, <3>1, <3>4 DEF Counted, TypeOK
        <4>3. made' \in [Nonce -> Nat]
          BY <2>2, <3>3 DEF Counted, TypeOK
        <4>4. nonces' \in 0 .. MaxNonces
          BY <2>2 DEF Nonce
        <4>5. pc' \in [Request -> {"ready", "loop", "sent", "resent", "body", "done", "failed"}]
          BY <3>1 DEF Counted, TypeOK
        <4> QED
          <5>1. challenge' \in [Request -> 0 .. MaxNonces] /\ asked' \in [Request -> Seq(Nat)]
            BY <4>4, AskedType, ChallengeType DEF Counted
          <5>2. counter' \in Nat \ {0} /\ UNCHANGED <<login, hashes, batch>>
            BY <2>2, <3>1
          <5> QED
            BY <4>1, <4>2, <4>3, <4>4, <4>5, <5>1, <5>2 DEF Counted, TypeOK
      <3> QED
        BY <2>2, <3>1, <3>2, <3>3, <3>5 DEF Counted, TypeOK, CounterIsNext, FutureUnused, HeadersDropped, Nonce
    <2>4. CASE ~(login /\ offers # {} /\ offers \subseteq Understood)
      <3>1. /\ header' = [header EXCEPT ![r] = NoHeader] /\ pc' = [pc EXCEPT ![r] = "failed"]
            /\ UNCHANGED <<last_auth_params, counter>> /\ made' = made
        BY <2>1, <2>4 DEF End, Goto, Remember, Counted, TypeOK
      <3>2. nonces' \in 0 .. MaxNonces /\ asked' \in [Request -> Seq(Nat)]
        BY <2>2, AskedType DEF Counted, Nonce
      <3>3. challenge' \in [Request -> 0 .. MaxNonces]
        BY <3>2, ChallengeType DEF Counted
      <3>4. TypeOK'
        <4>1. header' \in [Request -> [nonce : 1 .. nonces', count : Nat \ {0}] \cup {NoHeader}]
          BY <2>2, <3>1 DEF Counted, TypeOK
        <4>2. last_auth_params' \in [nonce : 1 .. nonces', algorithm : Understood] \cup {NoParams}
          BY <2>2, <3>1 DEF Counted, TypeOK
        <4>3. pc' \in [Request -> {"ready", "loop", "sent", "resent", "body", "done", "failed"}]
          BY <3>1 DEF Counted, TypeOK
        <4> QED
          BY <2>2, <3>1, <3>2, <3>3, <4>1, <4>2, <4>3 DEF Counted, TypeOK
      <3> QED
        BY <2>2, <3>1, <3>4 DEF Counted, TypeOK, CounterIsNext, FutureUnused, HeadersDropped, Nonce
    <2> QED
      BY <2>3, <2>4
  <1> QED
    BY <1>1, <1>2, <1>3, <1>4 DEF Step, Silent

\* A challenge is answered by the call that met it, in the step that met it.
LEMMA AnswerStep ==
  ASSUME Counted, AnswersOwnChallenge, NEW r \in Request, Step(r), Remember(r)
  PROVE  AnswersOwnChallenge'
  <1>1. ASSUME NEW q \in Request, q # r
        PROVE  pc'[q] = pc[q] /\ header'[q] = header[q] /\ challenge'[q] = challenge[q]
    BY <1>1 DEF Step, Call, Return, Send, Challenge, Answer, TimeOut, Body, BodyFails, Goto, End,
       Remember, Counted, TypeOK
  <1>2. ASSUME pc'[r] = "resent" PROVE header'[r] = [nonce |-> challenge'[r], count |-> 1]
    <2>1. Challenge(r)
      BY <1>2 DEF Step, Call, Return, Send, Answer, TimeOut, Body, BodyFails, Goto, End, Counted, TypeOK
    <2>2. header'[r] = [nonce |-> nonces + 1, count |-> 1] /\ nonces' = nonces + 1
      BY <1>2, <2>1 DEF Challenge, Chosen, Goto, End, Counted, TypeOK
    <2>3. challenge'[r] = nonces'
      BY <1>2 DEF Remember, Counted, TypeOK
    <2> QED
      BY <2>2, <2>3
  <1> QED
    BY <1>1, <1>2 DEF AnswersOwnChallenge

\* What a step asks for follows what was asked before.
LEMMA AskedStep ==
  ASSUME Counted, AskedSoFar, NEW r \in Request, Step(r), Remember(r)
  PROVE  AskedSoFar'
  <1> DEFINE Part(q) ==
        /\ pc[q] = "loop" => asked[q] = UpToHash(Before(q))
        /\ pc[q] \in {"sent", "resent", "body"} => asked[q] = UpToHash(Behind(q))
        /\ pc[q] = "done" => asked[q] = UpToHash(hashes[q])
  <1>1. TypeOK /\ TypeOK' /\ Part(r)
    BY CountedStep DEF Counted, AskedSoFar
  <1>2. ASSUME NEW q \in Request, q # r PROVE Part(q)'
    <2>1. pc'[q] = pc[q] /\ hashes'[q] = hashes[q] /\ batch'[q] = batch[q] /\ asked'[q] = asked[q]
      BY <1>1, <1>2 DEF Step, Call, Return, Send, Challenge, Answer, TimeOut, Body, BodyFails, Goto, End,
         Remember, TypeOK
    <2>2. Part(q)
      BY DEF AskedSoFar
    <2> QED
      BY <2>1, <2>2 DEF Before, Behind, First
  <1>3. Part(r)'
    <2>1. /\ hashes[r] \in Nat /\ batch[r] \in Nat
          /\ First(r) \in Nat /\ Behind(r) \in Nat /\ Before(r) \in Nat
          /\ First(r) < (batch[r] + 1) * MaxRequested
          /\ batch[r] <= LastBatch(hashes[r]) => First(r) <= hashes[r]
          /\ batch[r] > LastBatch(hashes[r]) => First(r) > hashes[r]
      BY <1>1, BatchOf
    <2>2. CASE Call(r)
      <3>1. pc'[r] = "loop" /\ batch'[r] = 0 /\ asked'[r] = <<>> /\ hashes'[r] \in Nat
        <4>1. pc'[r] = "loop" /\ batch'[r] = 0 /\ pc[r] \in {"ready", "done", "failed"}
          BY <1>1, <2>2 DEF Call, End, Goto, TypeOK
        <4>2. asked'[r] = <<>>
          BY <1>1, <4>1 DEF Remember, TypeOK
        <4>3. hashes'[r] \in Lengths \cup {0}
          BY <1>1 DEF TypeOK
        <4> QED
          BY <4>1, <4>2, <4>3, LengthsAreNat
      <3>2. First(r)' = 0
        BY <3>1, RpcAssumption DEF First, RpcAssumption
      <3>3. Before(r)' = 0
        BY <3>1, <3>2 DEF Before
      <3>4. UpToHash(0) = <<>>
        BY SeqEqual, Concatenated DEF UpToHash
      <3> QED
        BY <3>1, <3>3, <3>4
    <2>3. CASE Return(r)
      <3>1. pc[r] = "loop" /\ pc'[r] = "done" /\ hashes'[r] = hashes[r] /\ asked'[r] = asked[r]
        BY <1>1, <2>3 DEF Return, End, Goto, Remember, TypeOK
      <3>2. Before(r) = hashes[r]
        BY <2>1, <2>3 DEF Return, Before, Behind
      <3> QED
        BY <1>1, <3>1, <3>2
    <2>4. CASE Send(r)
      <3>1. /\ pc[r] = "loop" /\ pc'[r] = "sent" /\ hashes' = hashes /\ batch' = batch
            /\ asked'[r] = asked[r] \o Batch(r)
        BY <1>1, <2>4 DEF Send, Goto, Remember, TypeOK
      <3>2. Before(r) = First(r) /\ First(r) <= Behind(r)
        BY <2>1, <2>4 DEF Send, Before, Behind
      <3>3. asked'[r] = UpToHash(Behind(r))
        BY <1>1, <2>1, <3>1, <3>2, Concatenated DEF Batch
      <3> QED
        BY <3>1, <3>3 DEF Behind, First
    <2>5. CASE Body(r)
      <3>1. /\ pc[r] = "body" /\ pc'[r] = "loop" /\ hashes' = hashes /\ batch'[r] = batch[r] + 1
            /\ asked'[r] = asked[r]
        BY <1>1, <2>5 DEF Body, End, Goto, Remember, TypeOK
      <3>2. Before(r)' = Behind(r)
        BY <3>1 DEF Before, Behind, First
      <3> QED
        BY <1>1, <3>1, <3>2
    <2>6. CASE Challenge(r) \/ Answer(r)
      <3>1. /\ pc[r] \in {"sent", "resent"} /\ pc'[r] \in {"resent", "body", "failed"}
            /\ hashes' = hashes /\ batch' = batch
        BY <1>1, <2>6 DEF Challenge, Answer, Goto, End, TypeOK
      <3>2. pc'[r] # "failed" => asked'[r] = asked[r]
        BY <1>1, <3>1 DEF Remember, TypeOK
      <3> QED
        BY <1>1, <3>1, <3>2 DEF Behind, First
    <2>7. CASE TimeOut(r) \/ BodyFails(r)
      BY <1>1, <2>7 DEF TimeOut, BodyFails, End, Goto, TypeOK
    <2> QED
      BY <2>2, <2>3, <2>4, <2>5, <2>6, <2>7 DEF Step
  <1> QED
    BY <1>2, <1>3 DEF AskedSoFar
------------------------------------------------------------------------------
LEMMA InitIInv == Init => IInv
  <1> SUFFICES ASSUME Init PROVE IInv
    OBVIOUS
  <1> USE RpcAssumption DEF RpcAssumption
  <1>1. TypeOK
    BY DEF Init, RpcInit, TypeOK, Nonce
  <1> QED
    BY <1>1 DEF Init, RpcInit, IInv, Counted, CounterIsNext, FutureUnused, HeadersDropped,
       AnswersOwnChallenge, AskedSoFar

LEMMA StepIInv == IInv /\ [Next]_vars => IInv'
  <1> SUFFICES ASSUME IInv, [Next]_vars PROVE IInv'
    OBVIOUS
  <1>1. ASSUME NEW r \in Request, Step(r), Remember(r) PROVE IInv'
    BY <1>1, CountedStep, AnswerStep, AskedStep DEF IInv
  <1>2. CASE UNCHANGED vars
    BY <1>2 DEF vars, rpc, auth, IInv, Counted, TypeOK, CounterIsNext, FutureUnused, HeadersDropped,
       AnswersOwnChallenge, AskedSoFar, Before, Behind, First
  <1> QED
    BY <1>1, <1>2 DEF Next

LEMMA Invariance == Spec => []IInv
  BY InitIInv, StepIInv, PTL DEF Spec

(***************************************************************************)
(* The client keeps its types.                                             *)
(***************************************************************************)
THEOREM RpcTypes == Spec => []TypeOK
  <1>1. IInv => TypeOK
    BY DEF IInv, Counted
  <1> QED
    BY <1>1, Invariance, PTL

(***************************************************************************)
(* No count is used twice under a nonce, and none is left out, however     *)
(* calls and challenges overlap.                                           *)
(***************************************************************************)
THEOREM CountsAreAlwaysNew == Spec => CountsAreNew
  <1>1. IInv /\ [Next]_vars =>
          [\A r \in Request : header'[r] \notin {header[r], NoHeader} =>
             header'[r].count = made[header'[r].nonce] + 1]_vars
    BY CountedStep DEF IInv, Next
  <1> QED
    BY <1>1, Invariance, PTL DEF Spec, CountsAreNew

(***************************************************************************)
(* A call answers the challenge that it met itself.                        *)
(***************************************************************************)
THEOREM OwnChallenge == Spec => []AnswersOwnChallenge
  <1>1. IInv => AnswersOwnChallenge
    BY DEF IInv
  <1> QED
    BY <1>1, Invariance, PTL

(***************************************************************************)
(* A call that is done has asked for every hash once and in order, for     *)
(* every number of hashes and every size of a batch.                       *)
(***************************************************************************)
THEOREM EveryHashIsAsked == Spec => []EveryHashAskedOnce
  <1>1. IInv => EveryHashAskedOnce
    BY DEF IInv, AskedSoFar, EveryHashAskedOnce, UpToHash
  <1> QED
    BY <1>1, Invariance, PTL
==============================================================================
