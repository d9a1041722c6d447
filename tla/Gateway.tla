------------------------------- MODULE Gateway -------------------------------
(***************************************************************************)
(* The life of the scanning thread (src/payment_gateway.rs): run, status   *)
(* and stop, called from several threads, and the loop of the scanning     *)
(* thread itself.  scanner_handle is behind a mutex, which status and stop *)
(* hold through the whole of their match, stop() while it joins the thread *)
(* too.  The scan itself is left to Scanner.                               *)
(***************************************************************************)
EXTENDS Integers, FiniteSets

CONSTANTS
  Caller,       \* the application's threads
  Runner,       \* those that may call run()
  Thread,       \* scanning threads, a bound on the successful calls of run()
  None

ASSUME GatewayAssumption == Runner \subseteq Caller /\ None \notin Caller \cup Thread

VARIABLES
  handle,       \* scanner_handle
  lock,         \* who holds its mutex
  thread,       \* thread[t]: what thread t does
  commands,     \* Stop messages in the channel, which all threads share
  pc,           \* pc[c]: where the call of c is
  owned         \* owned[c]: the thread that the call of c has started or taken

gateway == <<handle, lock, thread, commands, pc, owned>>

Living == {"reading", "scanning"}
Finished(t) == thread[t] \in {"ended", "died"}

GatewayInit ==
  /\ handle = None /\ lock = None
  /\ thread = [t \in Thread |-> "unborn"]
  /\ commands = 0
  /\ pc = [c \in Caller |-> "ready"]
  /\ owned = [c \in Caller |-> None]

Goto(c, l) == pc' = [pc EXCEPT ![c] = l]
Own(c, t) == owned' = [owned EXCEPT ![c] = t]

Enter(c) ==
  /\ pc[c] = "ready"
  /\ \E call \in {"run", "status", "stop"} : (call = "run" => c \in Runner) /\ Goto(c, call)
  /\ UNCHANGED <<handle, lock, thread, commands, owned>>
------------------------------------------------------------------------------
\* run(): AlreadyRunning, or the handle is let go and the scanner created.
RunCheck(c) ==
  /\ pc[c] = "run" /\ lock = None
  /\ Goto(c, IF handle # None /\ ~Finished(handle) THEN "ready" ELSE "opening")
  /\ UNCHANGED <<handle, lock, thread, commands, owned>>

\* Scanner::new or the creation of the thread fails.
RunFail(c) ==
  /\ pc[c] = "opening"
  /\ Goto(c, "ready")
  /\ UNCHANGED <<handle, lock, thread, commands, owned>>

\* The thread is already at work before its handle is stored.
RunSpawn(c) ==
  /\ pc[c] = "opening"
  /\ \E t \in Thread :
       /\ thread[t] = "unborn"
       /\ thread' = [thread EXCEPT ![t] = "reading"]
       /\ Own(c, t)
  /\ Goto(c, "store")
  /\ UNCHANGED <<handle, lock, commands>>

\* A handle that is overwritten detaches its thread.
RunStore(c) ==
  /\ pc[c] = "store" /\ lock = None
  /\ handle' = owned[c]
  /\ Own(c, None) /\ Goto(c, "ready")
  /\ UNCHANGED <<lock, thread, commands>>
------------------------------------------------------------------------------
\* status(): NotRunning or Running at once, or the thread has to be joined, and
\* for that the mutex is locked again.
Status(c) ==
  /\ pc[c] = "status" /\ lock = None
  /\ IF handle # None /\ Finished(handle)
     THEN Goto(c, "take") /\ lock' = c
     ELSE Goto(c, "ready") /\ UNCHANGED lock
  /\ UNCHANGED <<handle, thread, commands, owned>>

\* Mutant: the mutex is not held beyond take().
TakeAndRelease(c) ==
  /\ pc[c] \in {"stop", "take"} /\ lock = None
  /\ handle' = None
  /\ IF handle # None /\ ~Finished(handle)
     THEN Goto(c, "send") /\ Own(c, handle)
     ELSE Goto(c, "ready") /\ UNCHANGED owned
  /\ UNCHANGED <<lock, thread, commands>>

\* stop(), and the second lock of status(): the handle is taken.  A thread that
\* has finished is joined at once.
Take(c) ==
  /\ pc[c] \in {"stop", "take"} /\ lock = None
  /\ handle' = None
  /\ IF handle # None /\ ~Finished(handle)
     THEN Goto(c, "send") /\ lock' = c /\ Own(c, handle)
     ELSE Goto(c, "ready") /\ UNCHANGED <<lock, owned>>
  /\ UNCHANGED <<thread, commands>>

\* Mutant: no message is sent, join() is relied on.
SendNothing(c) ==
  /\ pc[c] = "send"
  /\ Goto(c, "join")
  /\ UNCHANGED <<handle, lock, thread, commands, owned>>

\* stop() sends, though the thread may have ended since it was looked at.
Send(c) ==
  /\ pc[c] = "send"
  /\ commands' = commands + 1
  /\ Goto(c, "join")
  /\ UNCHANGED <<handle, lock, thread, owned>>

\* Mutant: the thread is not waited for.
JoinAtOnce(c) ==
  /\ pc[c] = "join"
  /\ lock' = IF lock = c THEN None ELSE lock
  /\ Own(c, None) /\ Goto(c, "ready")
  /\ UNCHANGED <<handle, thread, commands>>

Join(c) ==
  /\ pc[c] = "join" /\ Finished(owned[c])
  /\ lock' = IF lock = c THEN None ELSE lock
  /\ Own(c, None) /\ Goto(c, "ready")
  /\ UNCHANGED <<handle, thread, commands>>
------------------------------------------------------------------------------
\* Mutant: a message is taken from an empty channel.
ReadBlindly(t) ==
  /\ thread[t] = "reading"
  /\ thread' = [thread EXCEPT ![t] = "ended"] /\ commands' = commands - 1
  /\ UNCHANGED <<handle, lock, pc, owned>>

\* The scanning thread looks for a message before every scan.
Read(t) ==
  /\ thread[t] = "reading"
  /\ IF commands > 0
     THEN thread' = [thread EXCEPT ![t] = "ended"] /\ commands' = commands - 1
     ELSE thread' = [thread EXCEPT ![t] = "scanning"] /\ UNCHANGED commands
  /\ UNCHANGED <<handle, lock, pc, owned>>

ScanEnds(t) ==
  /\ thread[t] = "scanning"
  /\ thread' = [thread EXCEPT ![t] = "reading"]
  /\ UNCHANGED <<handle, lock, commands, pc, owned>>

\* The thread ends by itself, with an error or a panic.
Panic(t) ==
  /\ thread[t] \in Living
  /\ thread' = [thread EXCEPT ![t] = "died"]
  /\ UNCHANGED <<handle, lock, commands, pc, owned>>
------------------------------------------------------------------------------
Call(c) ==
  \/ RunCheck(c) \/ RunFail(c) \/ RunSpawn(c) \/ RunStore(c)
  \/ Status(c) \/ Take(c) \/ Send(c) \/ Join(c)

Next ==
  \/ \E c \in Caller : Enter(c) \/ Call(c)
  \/ \E t \in Thread : Read(t) \/ ScanEnds(t) \/ Panic(t)

(***************************************************************************)
(* Threads that can go on do.  A mutex need not be fair, and that a scan   *)
(* ends is not assumed: it may wait for a subscriber, or for the body of a *)
(* response.                                                               *)
(***************************************************************************)
Fairness ==
  /\ \A c \in Caller : WF_gateway(Call(c))
  /\ \A t \in Thread : WF_gateway(Read(t))

Spec == GatewayInit /\ [][Next]_gateway /\ Fairness
------------------------------------------------------------------------------
TypeOK ==
  /\ handle \in Thread \cup {None} /\ lock \in Caller \cup {None}
  /\ thread \in [Thread -> {"unborn", "ended", "died"} \cup Living]
  /\ commands \in Nat
  /\ pc \in [Caller -> {"ready", "run", "opening", "store", "status", "take",
                        "stop", "send", "join"}]
  /\ owned \in [Caller -> Thread \cup {None}]

(***************************************************************************)
(* With one thread that calls run(), two scanners never work on one store: *)
(* run() is refused while a scanner lives, and also while a stop() that    *)
(* has taken its handle still waits for it.                                *)
(***************************************************************************)
Running == {t \in Thread : thread[t] \in Living}

AtMostOneScanner == Cardinality(Running) <= 1

(***************************************************************************)
(* A Stop message in the channel is one that a stop() waits to see read,   *)
(* or is left over because stop() sent it to a thread that had finished    *)
(* since stop() found it alive (payment_gateway.rs:243, 253).  One that is *)
(* left over ends the next run() at once, so they must not pile up: there  *)
(* are never more of them than threads that have died.                     *)
(***************************************************************************)
Died == {t \in Thread : thread[t] = "died"}
Awaited(c) == pc[c] = "join" /\ thread[owned[c]] \in Living

NoStrayStops ==
  commands <= Cardinality(Died) + (IF \E c \in Caller : Awaited(c) THEN 1 ELSE 0)

(***************************************************************************)
(* payment_gateway.rs, PaymentGatewayStatus::Error: "The payment gateway   *)
(* encountered an error while scanning for incoming payments, and had to   *)
(* stop": a status() that finds the thread finished returns and says so.   *)
(***************************************************************************)
StatusReturns == \A c \in Caller : pc[c] = "take" ~> pc[c] = "ready"
==============================================================================
