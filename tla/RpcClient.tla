------------------------------ MODULE RpcClient ------------------------------
(***************************************************************************)
(* The daemon's client (src/rpc/): its calls run side by side, and share   *)
(* the state of the digest authentication, which is behind one mutex.  A   *)
(* call asks for a list of transactions in batches; any other call is like *)
(* one for a single hash.                                                  *)
(***************************************************************************)
EXTENDS Integers

CONSTANTS
  Request,      \* calls that run at the same time
  HasLogin,     \* values to look at: whether a username and password are set
  MaxRequested, \* MAX_REQUESTED_TRANSACTIONS
  Lengths,      \* numbers of hashes that are asked for
  MaxNonces,    \* bound on the challenges of the daemon
  MaxCount      \* bound on the counter, beyond which no call begins

ASSUME RpcAssumption ==
  /\ HasLogin \subseteq BOOLEAN
  /\ MaxRequested \in Nat \ {0} /\ Lengths \subseteq Nat
  /\ MaxNonces \in Nat /\ MaxCount \in Nat

VARIABLES
  login,             \* auth_info is there
  last_auth_params,  \* the nonce and the algorithm of the last challenge
  counter,
  pc,                \* pc[r]: where the call r is
  hashes,            \* hashes[r]: how many it asks for
  batch,             \* batch[r]: the loop variable of transactions_by_hashes
  header,            \* header[r]: the nonce and the count that it sent
  nonces             \* the daemon: challenges so far

auth == <<login, last_auth_params, counter>>
rpc == <<auth, pc, hashes, batch, header, nonces>>

NoParams == [nonce |-> 0, algorithm |-> "none"]
NoHeader == [nonce |-> 0, count |-> 0]

\* Algorithm, the better one last; parse_header() knows no other.
Understood == {"MD5", "MD5-sess"}
Best(offers) == IF "MD5-sess" \in offers THEN "MD5-sess" ELSE "MD5"

RpcInit ==
  /\ login \in HasLogin /\ last_auth_params = NoParams /\ counter = 1
  /\ pc = [r \in Request |-> "ready"]
  /\ hashes = [r \in Request |-> 0] /\ batch = [r \in Request |-> 0]
  /\ header = [r \in Request |-> NoHeader]
  /\ nonces = 0

Goto(r, l) == pc' = [pc EXCEPT ![r] = l]
End(r, l) == Goto(r, l) /\ header' = [header EXCEPT ![r] = NoHeader]

Call(r) ==
  /\ pc[r] \in {"ready", "done", "failed"} /\ counter <= MaxCount
  /\ \E n \in Lengths : hashes' = [hashes EXCEPT ![r] = n]
  /\ batch' = [batch EXCEPT ![r] = 0]
  /\ End(r, "loop")
  /\ UNCHANGED <<auth, nonces>>
------------------------------------------------------------------------------
\* Mutant: the range of the loop has no equals sign.
LastBatchExclusive(n) == (n \div MaxRequested) - 1

LastBatch(n) == n \div MaxRequested

First(r) == batch[r] * MaxRequested
Behind(r) ==
  IF (batch[r] + 1) * MaxRequested < hashes[r] THEN (batch[r] + 1) * MaxRequested ELSE hashes[r]

\* The loop is left, or its batch is empty.
Return(r) ==
  /\ pc[r] = "loop" /\ (batch[r] > LastBatch(hashes[r]) \/ First(r) = Behind(r))
  /\ End(r, "done")
  /\ UNCHANGED <<auth, hashes, batch, nonces>>

\* Mutant: a count is used twice.
AuthenticateUncounted(params, c) ==
  /\ counter' = c
  /\ last_auth_params' = params

\* authenticate(): the header takes the count, and the next gets one more.
Authenticate(params, c) ==
  /\ counter' = c + 1
  /\ last_auth_params' = params

\* Mutant: nothing is asked about a challenge.
MayAuthenticateAlways == login

MayAuthenticate == login /\ last_auth_params # NoParams

\* request(), first exchange: the last challenge is answered once more.
Send(r) ==
  /\ pc[r] = "loop" /\ batch[r] <= LastBatch(hashes[r]) /\ First(r) # Behind(r)
  /\ IF MayAuthenticate
     THEN /\ Authenticate(last_auth_params, counter)
          /\ header' = [header EXCEPT ![r] =
                          [nonce |-> last_auth_params.nonce, count |-> counter]]
     ELSE /\ header' = [header EXCEPT ![r] = NoHeader]
          /\ UNCHANGED <<last_auth_params, counter>>
  /\ Goto(r, "sent")
  /\ UNCHANGED <<login, hashes, batch, nonces>>

\* Mutant: parameters that are there already are kept.
Adopted(offers) ==
  IF last_auth_params # NoParams THEN last_auth_params
  ELSE [nonce |-> nonces + 1, algorithm |-> Best(offers)]

Chosen(offers) == [nonce |-> nonces + 1, algorithm |-> Best(offers)]

\* A response 401 with offers of digest authentication, all of one new nonce.
\* Each has to be understood, or the call fails.
Challenge(r) ==
  /\ pc[r] = "sent" /\ nonces < MaxNonces
  /\ nonces' = nonces + 1
  /\ \E offers \in SUBSET (Understood \cup {"SHA-256"}) :
       IF login /\ offers # {} /\ offers \subseteq Understood
       THEN /\ Authenticate(Chosen(offers), 1)
            /\ header' = [header EXCEPT ![r] = [nonce |-> Chosen(offers).nonce, count |-> 1]]
            /\ Goto(r, "resent")
       ELSE End(r, "failed") /\ UNCHANGED <<last_auth_params, counter>>
  /\ UNCHANGED <<login, hashes, batch>>

\* The head of a response has arrived: to the second exchange, any.
Answer(r) ==
  /\ pc[r] \in {"sent", "resent"}
  /\ Goto(r, "body")
  /\ UNCHANGED <<auth, hashes, batch, header, nonces>>

\* Mutant: the second exchange is not timed.
TimeOutOnce(r) ==
  /\ pc[r] = "sent"
  /\ End(r, "failed")
  /\ UNCHANGED <<auth, hashes, batch, nonces>>

\* No connection, or no head of a response in time.
TimeOut(r) ==
  /\ pc[r] \in {"sent", "resent"}
  /\ End(r, "failed")
  /\ UNCHANGED <<auth, hashes, batch, nonces>>

\* The body has arrived, for which no time is set.  How many transactions it
\* holds is not counted here, nor does the code insist on it (rpc/mod.rs:195).
Body(r) ==
  /\ pc[r] = "body"
  /\ batch' = [batch EXCEPT ![r] = @ + 1]
  /\ End(r, "loop")
  /\ UNCHANGED <<auth, hashes, nonces>>

\* The body cannot be read, as that of a second 401 cannot.
BodyFails(r) ==
  /\ pc[r] = "body"
  /\ End(r, "failed")
  /\ UNCHANGED <<auth, hashes, batch, nonces>>

Step(r) ==
  \/ Call(r) \/ Return(r) \/ Send(r) \/ Challenge(r) \/ Answer(r) \/ TimeOut(r)
  \/ Body(r) \/ BodyFails(r)
==============================================================================
