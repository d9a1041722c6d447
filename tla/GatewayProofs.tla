----------------------------- MODULE GatewayProofs ---------------------------
(***************************************************************************)
(* Proof that one caller of run() is enough for one scanner, for any       *)
(* number of other callers of stop() and status() and however often        *)
(* scanning threads end by themselves; and that whoever calls what, no     *)
(* more Stop messages are left over than threads have died.  The proofs are*)
(* made for the gateway alone, and hold of the gateway together with the   *)
(* publisher: every step of the composition is one of the gateway, or      *)
(* leaves it as it is.                                                     *)
(***************************************************************************)
EXTENDS GatewayPublisher, FiniteSetTheorems, TLAPS

Stopping(c) == pc[c] \in {"send", "join"}
Starting(c) == pc[c] \in {"opening", "store"}
Dead(t) == t = None \/ Finished(t)

\* Whoever waits for a thread, or for the mutex a second time, holds the mutex.
Locked == \A c \in Caller : pc[c] \in {"take", "send", "join"} => lock = c

OnlyRunners == \A c \in Caller : pc[c] \in {"run", "opening", "store"} => c \in Runner

\* The call that takes a handle away, or has not stored it yet, owns the scanner.
StopOwns == \A c \in Caller : Stopping(c) => handle = None /\ Running \subseteq {owned[c]}

StartOwns ==
  \A c \in Caller : Starting(c) =>
    /\ Dead(handle)
    /\ \A d \in Caller : ~Stopping(d)
    /\ Running \subseteq IF pc[c] = "store" THEN {owned[c]} ELSE {}

StoreOwns == \A c \in Caller : pc[c] = "store" => owned[c] \in Thread /\ thread[owned[c]] # "unborn"

HandleOwns ==
  /\ handle # None => thread[handle] # "unborn"
  /\ (\A c \in Caller : pc[c] \notin {"store", "send", "join"}) => Running \subseteq {handle}

IInv ==
  TypeOK /\ Locked /\ OnlyRunners /\ StopOwns /\ StartOwns /\ StoreOwns /\ HandleOwns
------------------------------------------------------------------------------
\* What is left of the steps of a scanning thread: no scanner is added, and an
\* finished thread stays finished.
LEMMA ThreadSteps ==
  ASSUME TypeOK, NEW t \in Thread, Read(t) \/ ScanEnds(t) \/ Panic(t)
  PROVE  /\ UNCHANGED <<handle, lock, pc, owned>>
         /\ TypeOK'
         /\ Running' \subseteq Running
         /\ \A u \in Thread : (thread'[u] = "unborn") <=> (thread[u] = "unborn")
         /\ \A u \in Thread : Finished(u) => Finished(u)'
  <1>1. CASE Read(t)
    BY <1>1 DEF Read, TypeOK, Running, Living, Finished
  <1>2. CASE ScanEnds(t)
    BY <1>2 DEF ScanEnds, TypeOK, Running, Living, Finished
  <1>3. CASE Panic(t)
    BY <1>3 DEF Panic, TypeOK, Running, Living, Finished
  <1> QED
    BY <1>1, <1>2, <1>3

LEMMA CallTypes ==
  ASSUME TypeOK, NEW c \in Caller, Enter(c) \/ Call(c)
  PROVE  TypeOK'
  <1>1. CASE Enter(c)
    BY <1>1 DEF Enter, TypeOK, Goto
  <1>2. CASE RunCheck(c) \/ RunFail(c) \/ RunSpawn(c) \/ RunStore(c)
    <2>1. CASE RunStore(c)
      BY <2>1 DEF RunStore, TypeOK, Goto, Own
    <2>2. CASE RunSpawn(c)
      BY <2>2 DEF RunSpawn, TypeOK, Goto, Own, Living
    <2>3. CASE RunCheck(c) \/ RunFail(c)
      BY <2>3 DEF RunCheck, RunFail, TypeOK, Goto
    <2> QED
      BY <1>2, <2>1, <2>2, <2>3
  <1>3. CASE Status(c)
    BY <1>3 DEF Status, TypeOK, Goto
  <1>4. CASE Take(c)
    BY <1>4 DEF Take, TypeOK, Goto, Own
  <1>5. CASE Send(c) \/ Join(c)
    BY <1>5 DEF Send, Join, TypeOK, Goto, Own
  <1> QED
    BY <1>1, <1>2, <1>3, <1>4, <1>5 DEF Call

LEMMA InitHolds ==
  GatewayInit => IInv
  BY GatewayAssumption
  DEF GatewayInit, IInv, TypeOK, Locked, OnlyRunners, StopOwns, StartOwns, StoreOwns,
      HandleOwns, Stopping, Starting, Running, Living

LEMMA ThreadsKeep ==
  ASSUME IInv, NEW t \in Thread, Read(t) \/ ScanEnds(t) \/ Panic(t)
  PROVE  IInv'
  <1>1. /\ UNCHANGED <<handle, lock, pc, owned>> /\ TypeOK'
        /\ Running' \subseteq Running
        /\ \A u \in Thread : (thread'[u] = "unborn") <=> (thread[u] = "unborn")
        /\ \A u \in Thread : Finished(u) => Finished(u)'
    BY ThreadSteps DEF IInv
  <1>2. handle \in Thread \cup {None} /\ \A c \in Caller : owned[c] \in Thread \cup {None}
    BY DEF IInv, TypeOK
  <1>3. Locked' /\ OnlyRunners' /\ StopOwns' /\ StoreOwns'
    BY <1>1, <1>2 DEF IInv, Locked, OnlyRunners, StopOwns, StoreOwns, Stopping
  <1>4. StartOwns'
    BY <1>1, <1>2 DEF IInv, StartOwns, Starting, Stopping, Dead
  <1>5. HandleOwns'
    BY <1>1, <1>2 DEF IInv, HandleOwns
  <1> QED
    BY <1>1, <1>3, <1>4, <1>5 DEF IInv

LEMMA CallsKeep ==
  ASSUME IInv, NEW r, Runner = {r}, NEW c \in Caller, Enter(c) \/ Call(c)
  PROVE  IInv'
  <1> USE DEF IInv
  <1>1. TypeOK'
    BY CallTypes
  <1>2. pc \in [Caller -> {"ready", "run", "opening", "store", "status", "take",
                           "stop", "send", "join"}]
        /\ handle \in Thread \cup {None} /\ None \notin Thread /\ None \notin Caller
        /\ owned \in [Caller -> Thread \cup {None}]
        /\ thread \in [Thread -> {"unborn", "ended", "died"} \cup Living]
    BY GatewayAssumption DEF TypeOK
  <1>3. CASE Enter(c)
    <2>1. PICK l \in {"run", "status", "stop"} : (l = "run" => c \in Runner) /\ Goto(c, l)
      BY <1>3 DEF Enter
    <2>2. pc[c] = "ready" /\ UNCHANGED <<handle, lock, thread, owned>> /\ Running' = Running
      BY <1>3 DEF Enter, Running
    <2>3. pc' = [pc EXCEPT ![c] = l]
      BY <2>1 DEF Goto
    <2> QED
      BY <1>1, <1>2, <2>1, <2>2, <2>3
      DEF Locked, OnlyRunners, StopOwns, StartOwns, StoreOwns, HandleOwns, Stopping, Starting, Dead,
          Finished
  <1>4. CASE RunCheck(c)
    <2>1. /\ pc[c] = "run" /\ lock = None /\ UNCHANGED <<handle, lock, thread, owned>>
          /\ Running' = Running
          /\ pc' = [pc EXCEPT ![c] = IF handle # None /\ ~Finished(handle)
                                     THEN "ready" ELSE "opening"]
      BY <1>4 DEF RunCheck, Goto, Running
    <2>2. \A d \in Caller : pc[d] \notin {"take", "send", "join"}
      BY <1>2, <2>1 DEF Locked
    <2>3. \A d \in Caller : pc[d] = "store" => d = c
      BY <2>1 DEF OnlyRunners
    <2>4. Running \subseteq {handle}
      BY <2>1, <2>2, <2>3 DEF HandleOwns
    <2>5. Dead(handle) => Running = {}
      BY <1>2, <2>4 DEF Dead, Finished, Running, Living
    <2> QED
      BY <1>1, <1>2, <2>1, <2>2, <2>3, <2>4, <2>5
      DEF Locked, OnlyRunners, StopOwns, StartOwns, StoreOwns, HandleOwns, Stopping, Starting, Dead,
          Finished
  <1>5. CASE RunFail(c)
    <2>1. /\ pc[c] = "opening" /\ UNCHANGED <<handle, lock, thread, owned>>
          /\ Running' = Running /\ pc' = [pc EXCEPT ![c] = "ready"]
      BY <1>5 DEF RunFail, Goto, Running
    <2> QED
      BY <1>1, <1>2, <2>1
      DEF Locked, OnlyRunners, StopOwns, StartOwns, StoreOwns, HandleOwns, Stopping, Starting, Dead,
          Finished
  <1>6. CASE RunSpawn(c)
    <2>1. PICK t \in Thread : /\ thread[t] = "unborn"
                              /\ thread' = [thread EXCEPT ![t] = "reading"]
                              /\ owned' = [owned EXCEPT ![c] = t]
      BY <1>6 DEF RunSpawn, Own
    <2>2. pc[c] = "opening" /\ UNCHANGED <<handle, lock>> /\ pc' = [pc EXCEPT ![c] = "store"]
      BY <1>6 DEF RunSpawn, Goto
    <2>3. Running = {} /\ Dead(handle) /\ \A d \in Caller : ~Stopping(d)
      BY <2>2 DEF StartOwns, Starting
    <2>4. Running' = {t}
      BY <1>2, <2>1, <2>3 DEF Running, Living
    <2>5. \A d \in Caller : Starting(d) => d = c
      BY <2>2 DEF OnlyRunners, Starting
    <2>6. handle # t /\ (Dead(handle))'
      BY <1>2, <2>1, <2>2, <2>3 DEF Dead, Finished, Living
    <2> QED
      BY <1>1, <1>2, <2>1, <2>2, <2>3, <2>4, <2>5, <2>6
      DEF Locked, OnlyRunners, StopOwns, StartOwns, StoreOwns, HandleOwns, Stopping, Starting, Dead,
          Finished
  <1>7. CASE RunStore(c)
    <2>1. /\ pc[c] = "store" /\ lock = None /\ UNCHANGED <<lock, thread>> /\ Running' = Running
          /\ handle' = owned[c] /\ pc' = [pc EXCEPT ![c] = "ready"]
          /\ owned' = [owned EXCEPT ![c] = None]
      BY <1>7 DEF RunStore, Goto, Own, Running
    <2>2. Running \subseteq {owned[c]} /\ \A d \in Caller : ~Stopping(d)
      BY <2>1 DEF StartOwns, Starting
    <2>3. \A d \in Caller : Starting(d) => d = c
      BY <2>1 DEF OnlyRunners, Starting
    <2>4. thread[owned[c]] # "unborn"
      BY <2>1 DEF StoreOwns
    <2> QED
      BY <1>1, <1>2, <2>1, <2>2, <2>3, <2>4
      DEF Locked, OnlyRunners, StopOwns, StartOwns, StoreOwns, HandleOwns, Stopping, Starting, Dead,
          Finished
  <1>8. CASE Status(c)
    <2>1. /\ pc[c] = "status" /\ lock = None /\ UNCHANGED <<handle, thread, owned>>
          /\ Running' = Running
          /\ \/ pc' = [pc EXCEPT ![c] = "take"] /\ lock' = c
             \/ pc' = [pc EXCEPT ![c] = "ready"] /\ lock' = lock
      BY <1>8 DEF Status, Goto, Running
    <2>2. \A d \in Caller : pc[d] \notin {"take", "send", "join"}
      BY <1>2, <2>1 DEF Locked
    <2> QED
      BY <1>1, <1>2, <2>1, <2>2
      DEF Locked, OnlyRunners, StopOwns, StartOwns, StoreOwns, HandleOwns, Stopping, Starting, Dead,
          Finished
  <1>9. CASE Take(c)
    <2>1. /\ pc[c] \in {"stop", "take"} /\ lock = None /\ UNCHANGED thread /\ handle' = None
          /\ Running' = Running
      BY <1>9 DEF Take, Running
    <2>2. \A d \in Caller : pc[d] \notin {"take", "send", "join"}
      BY <1>2, <2>1 DEF Locked
    <2>3. CASE Dead(handle)
      <3>1. pc' = [pc EXCEPT ![c] = "ready"] /\ UNCHANGED <<lock, owned>>
        BY <1>9, <2>3 DEF Take, Dead, Goto
      <3>2. (\A d \in Caller : pc[d] # "store") => Running = {}
        BY <1>2, <2>2, <2>3 DEF HandleOwns, Dead, Finished, Running, Living
      <3> QED
        BY <1>1, <1>2, <2>1, <2>2, <3>1, <3>2
        DEF Locked, OnlyRunners, StopOwns, StartOwns, StoreOwns, HandleOwns, Stopping, Starting,
            Dead, Finished
    <2>4. CASE ~Dead(handle)
      <3>1. /\ pc' = [pc EXCEPT ![c] = "send"] /\ lock' = c
            /\ owned' = [owned EXCEPT ![c] = handle]
        BY <1>9, <2>4 DEF Take, Dead, Goto, Own
      <3>2. \A d \in Caller : ~Starting(d)
        BY <2>4 DEF StartOwns
      <3>3. Running \subseteq {handle}
        BY <2>2, <3>2 DEF HandleOwns, Starting
      <3> QED
        BY <1>1, <1>2, <2>1, <2>2, <3>1, <3>2, <3>3
        DEF Locked, OnlyRunners, StopOwns, StartOwns, StoreOwns, HandleOwns, Stopping, Starting,
            Dead, Finished
    <2> QED
      BY <2>3, <2>4
  <1>10. CASE Send(c)
    <2>1. /\ pc[c] = "send" /\ UNCHANGED <<handle, lock, thread, owned>> /\ Running' = Running
          /\ pc' = [pc EXCEPT ![c] = "join"]
      BY <1>10 DEF Send, Goto, Running
    <2> QED
      BY <1>1, <1>2, <2>1
      DEF Locked, OnlyRunners, StopOwns, StartOwns, StoreOwns, HandleOwns, Stopping, Starting, Dead,
          Finished
  <1>11. CASE Join(c)
    <2>1. /\ pc[c] = "join" /\ Finished(owned[c]) /\ UNCHANGED <<handle, thread>>
          /\ Running' = Running /\ pc' = [pc EXCEPT ![c] = "ready"] /\ lock' \in {None, lock}
          /\ owned' = [owned EXCEPT ![c] = None]
      BY <1>11 DEF Join, Goto, Own, Running
    <2>2. lock = c /\ Running \subseteq {owned[c]}
      BY <2>1 DEF Locked, StopOwns, Stopping
    <2>3. Running = {}
      BY <1>2, <2>1, <2>2 DEF Finished, Running, Living
    <2>4. \A d \in Caller : d # c => pc[d] \notin {"take", "send", "join"}
      BY <2>2 DEF Locked
    <2> QED
      BY <1>1, <1>2, <2>1, <2>2, <2>3, <2>4
      DEF Locked, OnlyRunners, StopOwns, StartOwns, StoreOwns, HandleOwns, Stopping, Starting, Dead,
          Finished
  <1> QED
    BY <1>3, <1>4, <1>5, <1>6, <1>7, <1>8, <1>9, <1>10, <1>11 DEF Call

LEMMA StutterKeeps ==
  ASSUME IInv, UNCHANGED gateway
  PROVE  IInv'
  BY DEF gateway, IInv, TypeOK, Locked, OnlyRunners, StopOwns, StartOwns, StoreOwns, HandleOwns,
         Stopping, Starting, Dead, Finished, Running, Living

LEMMA Inductive ==
  ASSUME NEW r, Runner = {r}
  PROVE  IInv /\ [Next]_gateway => IInv'
  BY ThreadsKeep, CallsKeep, StutterKeeps DEF Next

LEMMA TypesInductive == TypeOK /\ [Next]_gateway => TypeOK'
  <1> SUFFICES ASSUME TypeOK, [Next]_gateway PROVE TypeOK'
    OBVIOUS
  <1>1. CASE Next
    BY <1>1, ThreadSteps, CallTypes DEF Next
  <1>2. CASE UNCHANGED gateway
    BY <1>2 DEF gateway, TypeOK
  <1> QED
    BY <1>1, <1>2

\* The gateway keeps its types for any number of callers, runners and threads.
THEOREM GatewayTypes == Spec => []TypeOK
  <1>1. GatewayInit => TypeOK
    BY InitHolds DEF IInv
  <1> QED
    BY <1>1, TypesInductive, PTL DEF Spec

LEMMA AtMostOneOf ==
  ASSUME NEW S, NEW x, S \subseteq {x}
  PROVE  Cardinality(S) <= 1
  <1>1. IsFiniteSet({x}) /\ Cardinality({x}) = 1
    BY FS_Singleton
  <1> QED
    BY <1>1, FS_Subset

LEMMA OneAlive ==
  ASSUME IInv
  PROVE  \E x : Running \subseteq {x}
  <1>1. CASE \E c \in Caller : pc[c] \in {"store", "send", "join"}
    BY <1>1 DEF IInv, StopOwns, StartOwns, Stopping, Starting
  <1>2. CASE \A c \in Caller : pc[c] \notin {"store", "send", "join"}
    BY <1>2 DEF IInv, HandleOwns
  <1> QED
    BY <1>1, <1>2

LEMMA OneScanner == IInv => AtMostOneScanner
  BY OneAlive, AtMostOneOf DEF AtMostOneScanner

(***************************************************************************)
(* If only one thread calls run(), at most one scanner is alive at any     *)
(* time: because stop() keeps the mutex while it joins the old thread, and *)
(* run() looks at the handle under the same mutex.                         *)
(***************************************************************************)
THEOREM OneRunnerOneScanner ==
  ASSUME NEW r, Runner = {r}
  PROVE  Spec => []AtMostOneScanner
  BY InitHolds, Inductive, OneScanner, PTL DEF Spec
------------------------------------------------------------------------------
(***************************************************************************)
(* The messages in the channel, whoever calls run().  Between the look at  *)
(* the thread and the message to it, a stop() has room for its message     *)
(* when the thread has finished meanwhile: the thread has died, or it has  *)
(* read a message that had gone astray.                                    *)
(***************************************************************************)
Born ==
  /\ handle # None => handle \in Thread /\ thread[handle] # "unborn"
  /\ \A c \in Caller :
       pc[c] \in {"store", "send", "join"} => owned[c] \in Thread /\ thread[owned[c]] # "unborn"

Room ==
  \A c \in Caller : pc[c] = "send" /\ Finished(owned[c]) => commands + 1 <= Cardinality(Died)

SInv == TypeOK /\ Locked /\ Born /\ Room /\ NoStrayStops

LEMMA DiedSize ==
  ASSUME IsFiniteSet(Thread)
  PROVE  /\ IsFiniteSet(Died) /\ Cardinality(Died) \in Nat
         /\ \A t \in Thread \ Died : Cardinality(Died \cup {t}) = Cardinality(Died) + 1
  <1>1. IsFiniteSet(Died)
    BY FS_Subset DEF Died
  <1> QED
    BY <1>1, FS_CardinalityType, FS_AddElement

LEMMA StopsInit ==
  ASSUME IsFiniteSet(Thread), GatewayInit
  PROVE  SInv
  <1>1. TypeOK /\ Locked
    BY InitHolds DEF IInv
  <1>2. Born /\ Room
    BY DEF GatewayInit, Born, Room
  <1>3. NoStrayStops
    BY DiedSize DEF GatewayInit, NoStrayStops, Awaited
  <1> QED
    BY <1>1, <1>2, <1>3 DEF SInv

\* Reading a message makes room, and so does dying.
LEMMA ThreadsRead ==
  ASSUME IsFiniteSet(Thread), SInv, NEW t \in Thread, Read(t) \/ ScanEnds(t) \/ Panic(t)
  PROVE  SInv'
  <1>1. /\ UNCHANGED <<handle, lock, pc, owned>> /\ TypeOK'
        /\ \A u \in Thread : (thread'[u] = "unborn") <=> (thread[u] = "unborn")
    BY ThreadSteps DEF SInv
  <1>2. Locked' /\ Born'
    BY <1>1 DEF SInv, Locked, Born
  <1>3. commands \in Nat /\ Cardinality(Died) \in Nat
    BY DiedSize DEF SInv, TypeOK
  <1>4. commands <= Cardinality(Died) + 1
    BY <1>3 DEF SInv, NoStrayStops
  <1>5. \A c \in Caller : pc[c] = "send" => commands <= Cardinality(Died)
    BY <1>3 DEF SInv, Locked, NoStrayStops, Awaited
  <1>6. CASE Read(t) /\ commands > 0
    <2>1. /\ thread[t] = "reading" /\ thread' = [thread EXCEPT ![t] = "ended"]
          /\ commands' = commands - 1
      BY <1>6 DEF Read
    <2>2. Died' = Died
      BY <2>1 DEF SInv, TypeOK, Died
    <2>3. Room' /\ NoStrayStops'
      BY <1>1, <1>3, <1>4, <1>5, <2>1, <2>2 DEF Room, NoStrayStops
    <2> QED
      BY <1>1, <1>2, <2>3 DEF SInv
  <1>7. CASE (Read(t) /\ ~(commands > 0)) \/ ScanEnds(t)
    <2>1. /\ commands' = commands /\ thread[t] \in Living
          /\ \E l \in Living : thread' = [thread EXCEPT ![t] = l]
      BY <1>7 DEF Read, ScanEnds, Living
    <2>2. Died' = Died
      BY <2>1 DEF SInv, TypeOK, Died, Living
    <2>3. \A u \in Thread : /\ Finished(u)' <=> Finished(u)
                            /\ thread'[u] \in Living <=> thread[u] \in Living
      BY <2>1 DEF SInv, TypeOK, Finished, Living
    <2>4. Room'
      BY <1>1, <2>1, <2>2, <2>3 DEF SInv, Room, Born
    <2>5. \A c \in Caller : Awaited(c)' <=> Awaited(c)
      BY <1>1, <2>3 DEF SInv, Awaited, Born
    <2>6. NoStrayStops'
      BY <2>1, <2>2, <2>5 DEF SInv, NoStrayStops
    <2> QED
      BY <1>1, <1>2, <2>4, <2>6 DEF SInv
  <1>8. CASE Panic(t)
    <2>1. thread' = [thread EXCEPT ![t] = "died"] /\ commands' = commands /\ thread[t] \in Living
      BY <1>8 DEF Panic
    <2>2. t \notin Died /\ Died' = Died \cup {t}
      BY <2>1 DEF SInv, TypeOK, Died, Living
    <2>3. Cardinality(Died') = Cardinality(Died) + 1
      BY <2>2, DiedSize
    <2>4. Room' /\ NoStrayStops'
      BY <1>1, <1>3, <1>4, <1>5, <2>1, <2>3 DEF Room, NoStrayStops
    <2> QED
      BY <1>1, <1>2, <2>4 DEF SInv
  <1> QED
    BY <1>6, <1>7, <1>8

\* A stop() that sends is the only one, and has room or a thread that will read.
LEMMA CallsSend ==
  ASSUME IsFiniteSet(Thread), SInv, NEW c \in Caller, Enter(c) \/ Call(c)
  PROVE  SInv'
  <1>1. TypeOK'
    BY CallTypes DEF SInv
  <1>2. /\ pc \in [Caller -> {"ready", "run", "opening", "store", "status", "take",
                              "stop", "send", "join"}]
        /\ handle \in Thread \cup {None} /\ None \notin Thread /\ None \notin Caller
        /\ owned \in [Caller -> Thread \cup {None}]
        /\ thread \in [Thread -> {"unborn", "ended", "died"} \cup Living]
        /\ commands \in Nat /\ Cardinality(Died) \in Nat
    BY DiedSize, GatewayAssumption DEF SInv, TypeOK
  <1>3. ASSUME UNCHANGED <<thread, commands>>,
               \A d \in Caller \ {c} : pc'[d] = pc[d] /\ owned'[d] = owned[d],
               ~Awaited(c), pc'[c] # "join", pc'[c] = "send" => ~Finished(owned'[c])
        PROVE  Room' /\ NoStrayStops'
    <2>1. Died' = Died
      BY <1>3 DEF Died
    <2>2. \A d \in Caller : Awaited(d)' <=> Awaited(d)
      BY <1>3 DEF Awaited
    <2>3. Room'
      BY <1>3, <2>1 DEF SInv, Room, Finished
    <2> QED
      BY <1>3, <2>1, <2>2, <2>3 DEF SInv, NoStrayStops
  <1>4. CASE Enter(c) \/ RunCheck(c) \/ RunFail(c) \/ Status(c)
    <2>1. /\ UNCHANGED <<handle, thread, commands, owned>>
          /\ \E l \in {"ready", "run", "opening", "status", "take", "stop"} :
               pc' = [pc EXCEPT ![c] = l]
          /\ pc[c] \in {"ready", "run", "opening", "status"}
      BY <1>4 DEF Enter, RunCheck, RunFail, Status, Goto
    <2>2. Locked'
      <3>1. CASE Enter(c) \/ RunCheck(c) \/ RunFail(c)
        BY <1>2, <3>1 DEF Enter, RunCheck, RunFail, Goto, SInv, Locked
      <3>2. CASE Status(c)
        BY <1>2, <3>2 DEF Status, Goto, SInv, Locked
      <3> QED
        BY <1>4, <3>1, <3>2
    <2>3. Born'
      BY <1>2, <2>1 DEF SInv, Born
    <2>4. Room' /\ NoStrayStops'
      BY <1>2, <1>3, <2>1 DEF Awaited
    <2> QED
      BY <1>1, <2>2, <2>3, <2>4 DEF SInv
  <1>5. CASE RunSpawn(c)
    <2>1. PICK t \in Thread : /\ thread[t] = "unborn"
                              /\ thread' = [thread EXCEPT ![t] = "reading"]
                              /\ owned' = [owned EXCEPT ![c] = t]
      BY <1>5 DEF RunSpawn, Own
    <2>2. /\ pc[c] = "opening" /\ UNCHANGED <<handle, lock, commands>>
          /\ pc' = [pc EXCEPT ![c] = "store"]
      BY <1>5 DEF RunSpawn, Goto
    <2>3. Died' = Died
      BY <1>2, <2>1 DEF Died
    <2>4. Locked' /\ Born'
      BY <1>2, <2>1, <2>2 DEF SInv, Locked, Born
    <2>5. Room'
      BY <1>2, <2>1, <2>2, <2>3 DEF SInv, Room, Born, Finished
    <2>6. \A d \in Caller : Awaited(d)' <=> Awaited(d)
      BY <1>2, <2>1, <2>2 DEF SInv, Born, Awaited
    <2>7. NoStrayStops'
      BY <2>2, <2>3, <2>6 DEF SInv, NoStrayStops
    <2> QED
      BY <1>1, <2>4, <2>5, <2>7 DEF SInv
  <1>6. CASE RunStore(c)
    <2>1. /\ pc[c] = "store" /\ UNCHANGED <<lock, thread, commands>>
          /\ handle' = owned[c] /\ pc' = [pc EXCEPT ![c] = "ready"]
          /\ owned' = [owned EXCEPT ![c] = None]
      BY <1>6 DEF RunStore, Goto, Own
    <2>2. Locked' /\ Born'
      BY <1>2, <2>1 DEF SInv, Locked, Born
    <2>3. Room' /\ NoStrayStops'
      BY <1>2, <1>3, <2>1 DEF Awaited
    <2> QED
      BY <1>1, <2>2, <2>3 DEF SInv
  <1>7. CASE Take(c)
    <2>1. /\ pc[c] \in {"stop", "take"} /\ lock = None /\ UNCHANGED <<thread, commands>>
          /\ handle' = None
      BY <1>7 DEF Take
    <2>2. \/ pc' = [pc EXCEPT ![c] = "ready"] /\ UNCHANGED <<lock, owned>>
          \/ /\ handle # None /\ ~Finished(handle)
             /\ pc' = [pc EXCEPT ![c] = "send"] /\ lock' = c
             /\ owned' = [owned EXCEPT ![c] = handle]
      BY <1>7 DEF Take, Goto, Own
    <2>3. \A d \in Caller : pc[d] \notin {"take", "send", "join"}
      BY <1>2, <2>1 DEF SInv, Locked
    <2>4. Locked' /\ Born'
      BY <1>2, <2>1, <2>2, <2>3 DEF SInv, Locked, Born
    <2>5. Room' /\ NoStrayStops'
      BY <1>2, <1>3, <2>1, <2>2 DEF Awaited
    <2> QED
      BY <1>1, <2>4, <2>5 DEF SInv
  <1>8. CASE Send(c)
    <2>1. /\ pc[c] = "send" /\ UNCHANGED <<handle, lock, thread, owned>>
          /\ commands' = commands + 1 /\ pc' = [pc EXCEPT ![c] = "join"]
      BY <1>8 DEF Send, Goto
    <2>2. Locked' /\ Born'
      BY <1>2, <2>1 DEF SInv, Locked, Born
    <2>3. \A d \in Caller : d # c => pc[d] \notin {"send", "join"}
      BY <2>1 DEF SInv, Locked
    <2>4. commands <= Cardinality(Died) /\ Died' = Died
      BY <1>2, <2>1, <2>3 DEF SInv, NoStrayStops, Awaited, Died
    <2>5. Room'
      BY <1>2, <2>1, <2>3 DEF Room
    <2>6. ASSUME Finished(owned[c]) PROVE NoStrayStops'
      <3>1. commands' <= Cardinality(Died')
        BY <2>1, <2>4, <2>6 DEF SInv, Room
      <3> QED
        BY <1>2, <2>1, <2>4, <3>1 DEF NoStrayStops
    <2>7. ASSUME ~Finished(owned[c]) PROVE NoStrayStops'
      <3>1. thread[owned[c]] \in Living
        BY <1>2, <2>1, <2>7 DEF SInv, Born, Finished
      <3>2. Awaited(c)'
        BY <1>2, <2>1, <3>1 DEF Awaited
      <3>3. commands' <= Cardinality(Died') + 1
        BY <1>2, <2>1, <2>4
      <3> QED
        BY <3>2, <3>3 DEF NoStrayStops
    <2> QED
      BY <1>1, <2>2, <2>5, <2>6, <2>7 DEF SInv
  <1>9. CASE Join(c)
    <2>1. /\ pc[c] = "join" /\ Finished(owned[c]) /\ UNCHANGED <<handle, thread, commands>>
          /\ pc' = [pc EXCEPT ![c] = "ready"] /\ lock' \in {None, lock}
          /\ owned' = [owned EXCEPT ![c] = None]
      BY <1>9 DEF Join, Goto, Own
    <2>2. \A d \in Caller : d # c => pc[d] \notin {"take", "send", "join"}
      BY <2>1 DEF SInv, Locked
    <2>3. Locked' /\ Born'
      BY <1>2, <2>1, <2>2 DEF SInv, Locked, Born
    <2>4. Room' /\ NoStrayStops'
      BY <1>2, <1>3, <2>1 DEF Awaited, Finished, Living
    <2> QED
      BY <1>1, <2>3, <2>4 DEF SInv
  <1> QED
    BY <1>4, <1>5, <1>6, <1>7, <1>8, <1>9 DEF Call

LEMMA StopsInductive ==
  ASSUME IsFiniteSet(Thread)
  PROVE  SInv /\ [Next]_gateway => SInv'
  <1>1. ASSUME SInv, UNCHANGED gateway PROVE SInv'
    BY <1>1 DEF gateway, SInv, TypeOK, Locked, Born, Room, NoStrayStops, Awaited, Died, Finished
  <1> QED
    BY <1>1, ThreadsRead, CallsSend DEF Next

(***************************************************************************)
(* However many threads call run() and stop(): apart from the message that *)
(* a stop() waits to see read, there are never more Stop messages in the   *)
(* channel than threads that have died.                                    *)
(***************************************************************************)
THEOREM StraysAreDeaths ==
  ASSUME IsFiniteSet(Thread)
  PROVE  Spec => []NoStrayStops
  <1>1. SInv => NoStrayStops
    BY DEF SInv
  <1> QED
    BY <1>1, StopsInit, StopsInductive, PTL DEF Spec
------------------------------------------------------------------------------
LEMMA CallerIsGateway ==
  ASSUME NEW c \in Caller, CallerStep(c)
  PROVE  Enter(c) \/ Call(c)
  BY DEF CallerStep

LEMMA ScanIsGateway ==
  ASSUME NEW t \in Thread, Scan(t) \/ Asked(t) \/ Die(t)
  PROVE  Read(t) \/ ScanEnds(t) \/ Panic(t) \/ UNCHANGED gateway
  BY DEF Scan, Asked, Die, Begin, Answer, TimeOut, Body, Update, Walk, End

LEMMA EveryStep ==
  [GatewayPublisherNext]_vars => [Next]_gateway
  <1> SUFFICES ASSUME [GatewayPublisherNext]_vars PROVE [Next]_gateway
    OBVIOUS
  <1>1. CASE \E c \in Caller : CallerStep(c)
    BY <1>1, CallerIsGateway DEF Next
  <1>2. CASE Listen \/ Track
    BY <1>2 DEF Listen, Track
  <1>3. CASE \E t \in Thread : Scan(t) \/ Asked(t) \/ Die(t)
    BY <1>3, ScanIsGateway DEF Next
  <1>4. CASE UNCHANGED vars
    BY <1>4 DEF vars
  <1> QED
    BY <1>1, <1>2, <1>3, <1>4 DEF GatewayPublisherNext

\* The composition implements the gateway, as far as safety goes.
THEOREM GatewayInside ==
  GatewayPublisherSpec => GatewayInit /\ [][Next]_gateway
  <1>1. GatewayPublisherInit => GatewayInit
    BY DEF GatewayPublisherInit
  <1> QED
    BY <1>1, EveryStep, PTL DEF GatewayPublisherSpec

\* The composition keeps the types of the gateway.
THEOREM ComposedTypes == GatewayPublisherSpec => []TypeOK
  <1>1. GatewayInit => TypeOK
    BY InitHolds DEF IInv
  <1> QED
    BY <1>1, TypesInductive, GatewayInside, PTL

(***************************************************************************)
(* With one caller of run(), one scanner at most is alive, though stop()   *)
(* may have to wait for a scanning thread that itself waits for a          *)
(* subscriber.                                                             *)
(***************************************************************************)
THEOREM ComposedOneScanner ==
  ASSUME NEW r, Runner = {r}
  PROVE  GatewayPublisherSpec => []AtMostOneScanner
  BY InitHolds, Inductive, OneScanner, GatewayInside, PTL

\* The messages left over are as few with the publisher.
THEOREM ComposedStrays ==
  ASSUME IsFiniteSet(Thread)
  PROVE  GatewayPublisherSpec => []NoStrayStops
  <1>1. SInv => NoStrayStops
    BY DEF SInv
  <1> QED
    BY <1>1, StopsInit, StopsInductive, GatewayInside, PTL
==============================================================================
