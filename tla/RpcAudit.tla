------------------------------ MODULE RpcAudit -------------------------------
(***************************************************************************)
(* What calls of the client that run side by side should keep true.        *)
(***************************************************************************)
EXTENDS RpcClient, Sequences

VARIABLES
  made,       \* made[n]: the headers that were made under nonce n
  challenge,  \* challenge[r]: the nonce that r was challenged with
  asked       \* asked[r]: the hashes that r has asked for, in order

vars == <<rpc, made, challenge, asked>>

Nonce == 1 .. MaxNonces

Init ==
  /\ RpcInit
  /\ made = [n \in Nonce |-> 0]
  /\ challenge = [r \in Request |-> 0]
  /\ asked = [r \in Request |-> <<>>]

\* The hashes of one batch, by their place in the list.
Batch(r) == [k \in 1 .. Behind(r) - First(r) |-> First(r) + k]

Remember(r) ==
  /\ made' = IF header'[r] \in {header[r], NoHeader} THEN made
             ELSE [made EXCEPT ![header'[r].nonce] = @ + 1]
  /\ challenge' = [challenge EXCEPT ![r] = IF pc'[r] = "resent" THEN nonces' ELSE 0]
  /\ asked' = [asked EXCEPT ![r] =
                 CASE pc[r] = "loop" /\ pc'[r] = "sent" -> @ \o Batch(r)
                   [] pc[r] \in {"ready", "done", "failed"} \/ pc'[r] = "failed" -> <<>>
                   [] OTHER -> @]

Next == \E r \in Request : Step(r) /\ Remember(r)

(***************************************************************************)
(* The executor runs every future that is ready, and the timer of timeout  *)
(* goes off.  That a body arrives is not assumed.                          *)
(***************************************************************************)
Fairness ==
  \A r \in Request :
    /\ WF_vars(Return(r) /\ Remember(r)) /\ WF_vars(Send(r) /\ Remember(r))
    /\ WF_vars(TimeOut(r) /\ Remember(r))

Spec == Init /\ [][Next]_vars /\ Fairness
------------------------------------------------------------------------------
TypeOK ==
  /\ login \in BOOLEAN
  /\ last_auth_params \in
       [nonce : 1 .. nonces, algorithm : Understood] \cup {NoParams}
  /\ counter \in Nat \ {0}
  /\ pc \in [Request -> {"ready", "loop", "sent", "resent", "body", "done", "failed"}]
  /\ hashes \in [Request -> Lengths \cup {0}] /\ batch \in [Request -> Nat]
  /\ header \in [Request -> [nonce : 1 .. nonces, count : Nat \ {0}] \cup {NoHeader}]
  /\ nonces \in 0 .. MaxNonces
  /\ made \in [Nonce -> Nat] /\ challenge \in [Request -> 0 .. MaxNonces]
  /\ asked \in [Request -> Seq(Nat)]

(***************************************************************************)
(* No two headers under one nonce carry the same count, and none is left   *)
(* out, although calls share the counter and a challenge to one resets it  *)
(* (authentication.rs:150) while headers of another are under way: the     *)
(* daemon takes a count that is not new for a replay.                      *)
(***************************************************************************)
CountsAreNew ==
  [][\A r \in Request :
       header'[r] \notin {header[r], NoHeader} =>
         header'[r].count = made[header'[r].nonce] + 1]_vars

(***************************************************************************)
(* The second exchange of a call answers the challenge that its first one  *)
(* met (rpc/mod.rs:266), not one that another call met meanwhile.          *)
(***************************************************************************)
AnswersOwnChallenge ==
  \A r \in Request : pc[r] = "resent" => header[r] = [nonce |-> challenge[r], count |-> 1]

(***************************************************************************)
(* A call that is done has asked for every hash once, in order, whatever   *)
(* the number is to the size of a batch (rpc/mod.rs:164-177): none, one    *)
(* less, as many, one more, twice as many.                                 *)
(***************************************************************************)
EveryHashAskedOnce ==
  \A r \in Request : pc[r] = "done" => asked[r] = [k \in 1 .. hashes[r] |-> k]

(***************************************************************************)
(* Every call ends, or waits for ever for the body of a response whose     *)
(* head has arrived: both exchanges are timed (rpc/mod.rs:252, 273), the   *)
(* body is not (rpc/mod.rs:277), though rpc_timeout is documented as the   *)
(* time for "a full response" (payment_gateway.rs:520).                    *)
(***************************************************************************)
Ended(r) == pc[r] \in {"done", "failed"}

CallsEnd == \A r \in Request : pc[r] = "loop" ~> Ended(r) \/ [](pc[r] = "body")
==============================================================================
