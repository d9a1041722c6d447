---------------------------- MODULE ScannerProofs ----------------------------
(***************************************************************************)
(* Proofs about the scanner, for every daemon, every window size and every *)
(* number of invoices.  The inductive invariant:                           *)
(*   Control     where the two caches are in each step of the scanner;     *)
(*   Window      how the cells are filled, and that no count of updated    *)
(*               blocks exceeds the window;                                *)
(*   PoolSets    how the sets of the txpool cache lie to each other;       *)
(*   Remembered  what the txpool cache must know of a payment to an        *)
(*               invoice, and Carried how a scan takes it into the store.  *)
(***************************************************************************)
EXTENDS ScannerAudit, InvoiceProofs

Control ==
  /\ step = "down" => phase = "down" /\ tphase = "down"
  /\ step = "open" => phase \in {"init", "idle"} /\ tphase \in {"down", "idle"}
  /\ step = "idle" => phase \in {"idle", "failed"} /\ tphase = "idle"
  /\ step = "blocks" => phase \in Asking \cup {"skip", "fix", "done"} /\ tphase = "idle"
  /\ step = "pool" => phase = "done" /\ tphase \in {"hashes", "txs"}
  /\ step \in {"scan_blocks", "scan_txpool", "only_txpool"} =>
       phase = "done" /\ tphase = "done"
  /\ step = "prepare" => phase = "done" /\ tphase = "idle"
  /\ step = "save" => phase = "idle" /\ tphase = "idle"

Window ==
  /\ phase \notin {"down", "init"} =>
       /\ blocks \in [Cells -> Block] /\ height >= CacheSize - 1
       /\ updated <= CacheSize
  /\ phase = "init" =>
       /\ next < CacheSize /\ height >= next - 1
       /\ \A i \in Cells : i < next => blocks[i] \in Block
  /\ phase \in Asking => updated = 0
  /\ phase = "skip" =>
       next \in 1 .. CacheSize /\ updated + next <= CacheSize /\ tip - next >= height + 1
  /\ phase \in Asking \cup {"skip"} => fixed = 0
  /\ phase \in Asking => next = 0
  /\ phase = "fix" => next <= CacheSize - 1 /\ fixed <= next + 1

PoolSets ==
  /\ DOMAIN discovered \subseteq transactions
  /\ \A t \in DOMAIN discovered : discovered[t] \in Seq(FoundType(Sub))
  /\ tphase = "txs" => tlocal \cap transactions = {}
  /\ tphase = "done" => tlocal \subseteq transactions /\ tlocal \cap DOMAIN discovered = {}

CacheInv == MonerodTypeOK /\ CacheTypeOK /\ Window
PoolInv ==
  /\ transactions \subseteq Tx /\ tlocal \subseteq Tx
  /\ tphase \in {"down", "idle", "hashes", "txs", "done"}
  /\ PoolSets
StoreInv ==
  /\ Tracked \subseteq Sub
  /\ \A s \in Tracked : store[s] \in InvoiceType(Sub) /\ store[s].index = s
  /\ creating \subseteq InvoiceType(Sub)
  /\ \A inv \in creating : inv.index \notin Tracked
ScanInv ==
  /\ queue \subseteq InvoiceType(Sub) /\ found \in Seq(FoundType(Sub))
  /\ first_scan \in BOOLEAN
  /\ step \in {"down", "open", "idle", "blocks", "pool", "scan_blocks",
               "scan_txpool", "only_txpool", "prepare", "save"}
  /\ Control

TypeInv == CacheInv /\ PoolInv /\ StoreInv /\ ScanInv

\* The payments that the invoice of s must show, once they have been looked at.
Owed(s) == {t \in transactions \ (missed \cup earlier[s]) : Pays(t, s)}

Finding(t, s, h) == [sub |-> s, amount |-> Outs[t][1].amount, height |-> h]
Credit(t, s) == Finding(t, s, NoHeight)
Has(inv, t) == Transfer(Outs[t][1].amount, NoHeight) \in ToSet(inv.transfers)

Known == transactions \cup pool \cup ChainTxs(chain) \subseteq ever

Remembered ==
  \A s \in Tracked : \A t \in Owed(s) :
    \/ tphase = "done" /\ t \in tlocal
    \/ t \in DOMAIN discovered /\ Credit(t, s) \in ToSet(discovered[t])

Queued(s, t) ==
  /\ \A inv \in queue : inv.index = s =>
       Has(inv, t) /\ inv.creation_height = store[s].creation_height
  /\ (\E inv \in queue : inv.index = s) \/ Has(store[s], t)

Carried ==
  /\ step = "prepare" =>
       \A s \in Tracked : \A t \in Owed(s) : Credit(t, s) \in ToSet(found)
  /\ step = "save" /\ lost = {} =>
       \A s \in Tracked : \A t \in Owed(s) : Queued(s, t)
  /\ step = "idle" /\ ~first_scan /\ lost = {} /\ ~split =>
       \A s \in Tracked : \A t \in Owed(s) : Has(store[s], t)
  /\ step = "open" => first_scan
  /\ step = "only_txpool" => split

IInv == TypeInv /\ Known /\ Remembered /\ Carried
------------------------------------------------------------------------------
(***************************************************************************)
(* The block cache.                                                        *)
(***************************************************************************)
LEMMA CellsFacts ==
  /\ CacheSize \in Nat /\ CacheSize >= 1
  /\ 0 \in Cells
  BY CacheAssumption DEF Cells

LEMMA ChainBlocks ==
  ASSUME NEW c \in Chains
  PROVE  /\ Len(c) \in Nat /\ Len(c) >= 1
         /\ \A h \in 0 .. Len(c) - 1 : c[h + 1] \in Block
  BY MonerodAssumption DEF ChainAssumption

LEMMA ChainTxsTypes ==
  ASSUME NEW c \in Chains
  PROVE  ChainTxs(c) \subseteq Tx
  <1>1. \A i \in 1 .. Len(c) : c[i] \in Block
    BY MonerodAssumption DEF ChainAssumption
  <1> QED
    BY <1>1, MonerodAssumption DEF BlockAssumption, ChainTxs

\* An answer of the daemon is a block of its chain.
LEMMA Answer ==
  ASSUME NEW h \in Int, HasBlock(h), chain \in Chains
  PROVE  h \in Nat /\ BlockAt(h) \in Block
  BY ChainBlocks DEF HasBlock, BlockAt

LEMMA CacheActions ==
  ASSUME CacheInv, UNCHANGED monerod,
         \/ CacheStep \/ RpcFail \/ (Dispose /\ phase = "done") \/ UNCHANGED cache
         \/ \E proc \in {"update", "skip_ahead"} : Call(proc)
         \/ \E h \in Nat : Open(h, Len(chain))
         \/ \E h, t \in Nat : Discard /\ height' = h /\ daemon_height' = t
  PROVE  CacheInv'
  <1> USE CellsFacts DEF CacheInv, MonerodTypeOK, CacheTypeOK, Window,
          Phases, Requesting, Asking, Resting
  <1>0. MonerodTypeOK'
    BY DEF monerod
  <1>1. CASE InitFetch
    <2>1. phase = "init" /\ next < CacheSize /\ HasBlock(height - next)
      BY <1>1 DEF InitFetch
    <2>2. height - next \in Nat /\ BlockAt(height - next) \in Block
      BY <2>1, Answer
    <2>3. blocks' \in [Cells -> Block \cup {NoBlock}]
      BY <1>1, <2>2 DEF InitFetch
    <2>4. \A i \in Cells : i < next + 1 => blocks'[i] \in Block
      BY <1>1, <2>1, <2>2 DEF InitFetch, Cells
    <2>5. phase' = "idle" => blocks' \in [Cells -> Block]
      BY <1>1, <2>3, <2>4 DEF InitFetch, Cells
    <2> QED
      BY <1>0, <1>1, <2>1, <2>2, <2>3, <2>4, <2>5 DEF InitFetch
  <1>2. CASE UpdateTip
    BY <1>0, <1>2, ChainBlocks DEF UpdateTip, locals
  <1>3. CASE UpdateFetch
    <2>1. BlockAt(height + 1) \in Block
      BY <1>3, Answer DEF UpdateFetch
    <2>2. blocks' \in [Cells -> Block]
      BY <1>3, <2>1 DEF UpdateFetch, Push, Cells
    <2> QED
      BY <1>0, <1>3, <2>2 DEF UpdateFetch
  <1>4. CASE SkipTip
    BY <1>0, <1>4, ChainBlocks DEF SkipTip, Min2
  <1>5. CASE SkipFetch
    <2>1. tip - next \in Nat /\ BlockAt(tip - next) \in Block
      BY <1>5, Answer DEF SkipFetch
    <2>2. blocks' \in [Cells -> Block]
      BY <1>5, <2>1 DEF SkipFetch, Push, Cells
    <2> QED
      BY <1>0, <1>5, <2>1, <2>2 DEF SkipFetch
  <1>6. CASE Check
    BY <1>0, <1>6 DEF Check, window
  <1>7. CASE Repair
    <2>1. BlockAt(height - 1 - next) \in Block
      BY <1>7, Answer DEF Repair
    <2>2. blocks' \in [Cells -> Block]
      BY <1>7, <2>1 DEF Repair
    <2> QED
      BY <1>0, <1>7, <2>2 DEF Repair, Max2
  <1>8. CASE Return
    BY <1>0, <1>8 DEF Return, window, Max2
  <1>9. CASE RpcFail
    BY <1>0, <1>9 DEF RpcFail
  <1>10. CASE Dispose /\ phase = "done"
    BY <1>0, <1>10 DEF Dispose, window
  <1>11. CASE UNCHANGED cache
    BY <1>0, <1>11 DEF cache, window, locals
  <1>12. CASE \E proc \in {"update", "skip_ahead"} : Call(proc)
    BY <1>0, <1>12 DEF Call, window
  <1>13. CASE \E h \in Nat : Open(h, Len(chain))
    BY <1>0, <1>13, ChainBlocks DEF Open
  <1>14. CASE \E h, t \in Nat : Discard /\ height' = h /\ daemon_height' = t
    BY <1>0, <1>14 DEF Discard
  <1> QED
    BY <1>1, <1>2, <1>3, <1>4, <1>5, <1>6, <1>7, <1>8, <1>9, <1>10, <1>11, <1>12, <1>13, <1>14
       DEF CacheStep
------------------------------------------------------------------------------
(***************************************************************************)
(* What a scan reads from transactions.                                    *)
(***************************************************************************)
\* A transaction pays a subaddress by one output, and the transactions of a block
\* are told apart by what they pay.
OneEach(t) == \A m, n \in DOMAIN Outs[t] : Outs[t][m].sub = Outs[t][n].sub => m = n
Apart(txs) ==
  /\ \A t \in txs : OneEach(t)
  /\ \A s \in Sub : \A t, u \in txs :
       Pays(t, s) /\ Pays(u, s) /\ Outs[t][1].amount = Outs[u][1].amount => t = u

LEMMA CreditsFacts ==
  ASSUME NEW t \in Tx, NEW h \in Height, Tracked \subseteq Sub
  PROVE  /\ Credits(t, h) \in Seq(FoundType(Sub))
         /\ \A f : f \in ToSet(Credits(t, h)) <=>
                    \E s \in Tracked : Pays(t, s) /\ f = Finding(t, s, h)
         /\ OneEach(t) => \A f : AtMostOnce(Credits(t, h), f)
  <1> DEFINE wanted == {o \in ToSet(Outs[t]) : t \notin TimeLocked /\ o.sub \in Tracked}
             outs == Only(Outs[t], wanted)
             credit(n) == [sub |-> outs[n].sub, amount |-> Outs[t][1].amount, height |-> h]
             Out == [sub : Sub, amount : Nat]
  <1>1. Outs[t] \in Seq(Out)
    BY ScannerAssumption
  <1>2. outs \in Seq(Out) /\ ToSet(outs) = wanted
    BY <1>1, OnlyThose
  <1>3. Credits(t, h) = [n \in DOMAIN outs |-> credit(n)]
    BY DEF Credits
  <1>4. Len(outs) \in Nat /\ DOMAIN outs = 1 .. Len(outs) /\ \A n \in 1 .. Len(outs) : outs[n] \in Out
    <2> HIDE DEF wanted, outs, Out
    <2> QED
      BY <1>2
  <1>5. \A o : o \in wanted <=> \E n \in 1 .. Len(outs) : o = outs[n]
    BY <1>2, <1>4 DEF ToSet
  <1>6. wanted # {} => Outs[t][1] \in Out
    <2>1. wanted # {} => DOMAIN Outs[t] # {}
      BY DEF ToSet
    <2>2. DOMAIN Outs[t] = 1 .. Len(Outs[t]) /\ Len(Outs[t]) \in Nat
      BY <1>1
    <2>3. wanted # {} => 1 \in 1 .. Len(Outs[t])
      BY <2>1, <2>2
    <2>4. ASSUME wanted # {} PROVE Outs[t][1] \in Out
      <3>1. 1 \in 1 .. Len(Outs[t])
        BY <2>3, <2>4
      <3> HIDE DEF wanted, Out
      <3> QED
        BY <1>1, <3>1
    <2> QED
      BY <2>4
  <1>7. \A s \in Tracked : Pays(t, s) <=> \E o \in wanted : o.sub = s
    BY DEF Pays, Range, ToSet
  <1>8. \A o \in wanted : o.sub \in Tracked
    OBVIOUS
  <1>9. OneEach(t) => \A o \in wanted : AtMostOnce(outs, o)
    <2>1. OneEach(t) => \A o : AtMostOnce(Outs[t], o)
      BY DEF OneEach, AtMostOnce
    <2> HIDE DEF wanted, Out
    <2> QED
      BY <1>1, <2>1, OnlyOnce
  <1> HIDE DEF wanted, outs, Out
  <1>10. \A n \in 1 .. Len(outs) : Outs[t][1] \in Out /\ outs[n] \in Out /\ outs[n] \in wanted
    BY <1>4, <1>5, <1>6
  <1>11. \A n \in 1 .. Len(outs) : credit(n) \in FoundType(Sub) /\ credit(n) = Finding(t, outs[n].sub, h)
    BY <1>10 DEF Out, FoundType, Finding
  <1>12. Credits(t, h) \in Seq(FoundType(Sub))
    BY <1>3, <1>4, <1>11
  <1>13. /\ DOMAIN Credits(t, h) = 1 .. Len(outs)
         /\ \A n \in 1 .. Len(outs) : Credits(t, h)[n] = Finding(t, outs[n].sub, h)
    BY <1>3, <1>4, <1>11
  <1>14. ASSUME NEW f
         PROVE  f \in ToSet(Credits(t, h)) <=> \E s \in Tracked : Pays(t, s) /\ f = Finding(t, s, h)
    <2>1. f \in ToSet(Credits(t, h)) <=> \E n \in 1 .. Len(outs) : f = Finding(t, outs[n].sub, h)
      BY <1>13 DEF ToSet
    <2>2. f \in ToSet(Credits(t, h)) <=> \E o \in wanted : f = Finding(t, o.sub, h)
      BY <1>5, <2>1
    <2> QED
      BY <1>7, <1>8, <2>2
  <1>15. ASSUME OneEach(t), NEW f PROVE AtMostOnce(Credits(t, h), f)
    <2> SUFFICES ASSUME NEW m \in 1 .. Len(outs), NEW n \in 1 .. Len(outs),
                        Credits(t, h)[m] = f, Credits(t, h)[n] = f
                 PROVE  m = n
      BY <1>13 DEF AtMostOnce
    <2>1. outs[m].sub = outs[n].sub
      BY <1>13 DEF Finding
    <2>2. outs[m] = outs[n]
      <3>1. outs[m] \in ToSet(Outs[t]) /\ outs[n] \in ToSet(Outs[t])
        BY <1>10 DEF wanted
      <3> QED
        BY <1>15, <2>1, <3>1 DEF OneEach, ToSet
    <2> QED
      BY <1>4, <1>9, <1>10, <1>15, <2>2 DEF AtMostOnce
  <1> QED
    BY <1>12, <1>14, <1>15

\* At most one key holds v, and holds it once.
UnderOneKey(f, v) ==
  /\ \A x \in DOMAIN f : AtMostOnce(f[x], v)
  /\ \A x, y \in DOMAIN f : v \in ToSet(f[x]) /\ v \in ToSet(f[y]) => x = y

LEMMA JoinedFacts ==
  ASSUME NEW V, NEW f, IsFiniteSet(DOMAIN f), \A x \in DOMAIN f : f[x] \in Seq(V)
  PROVE  /\ Joined(f) \in Seq(V)
         /\ \A v : v \in ToSet(Joined(f)) <=> \E x \in DOMAIN f : v \in ToSet(f[x])
         /\ \A v : UnderOneKey(f, v) => AtMostOnce(Joined(f), v)
  <1> DEFINE S == DOMAIN f
             n == Cardinality(S)
             keys == SetToSeq(S)
             ss == [i \in DOMAIN keys |-> f[keys[i]]]
  <1>1. n \in Nat /\ ExistsBijection(1 .. n, S)
    BY FS_CardinalityType
  <1>2. \E g \in [1 .. n -> S] : IsInjective(g)
    BY <1>1 DEF ExistsBijection, Bijection, Injection
  <1>3. keys \in [1 .. n -> S] /\ IsInjective(keys)
    BY <1>2 DEF SetToSeq
  <1>4. keys \in Surjection(1 .. n, S)
    <2>1. keys \in Injection(1 .. n, S)
      BY <1>3 DEF Injection
    <2>2. IsFiniteSet(1 .. n) /\ Cardinality(1 .. n) = n
      BY <1>1, FS_Interval
    <2> HIDE DEF keys
    <2> QED
      BY <2>1, <2>2, FS_Injection
  <1>5. \A x \in S : \E i \in 1 .. n : keys[i] = x
    BY <1>4 DEF Surjection
  <1>6. Joined(f) = FlattenSeq(ss)
    BY DEF Joined
  <1> HIDE DEF keys, n, S
  <1>7. ss \in Seq(Seq(V)) /\ Len(ss) = n /\ \A i \in 1 .. n : ss[i] = f[keys[i]]
    <2>1. \A i \in 1 .. n : f[keys[i]] \in Seq(V)
      BY <1>3 DEF S
    <2>2. DOMAIN keys = 1 .. n
      BY <1>3
    <2> QED
      BY <1>1, <2>1, <2>2
  <1> HIDE DEF ss
  <1>8. /\ FlattenSeq(ss) \in Seq(V)
        /\ \A v : v \in ToSet(FlattenSeq(ss)) <=> \E i \in 1 .. n : v \in ToSet(ss[i])
    BY <1>7, Flatten
  <1>9. \A v : (\E i \in 1 .. n : v \in ToSet(ss[i])) <=> \E x \in S : v \in ToSet(f[x])
    <2> TAKE v
    <2>1. ASSUME NEW i \in 1 .. n, v \in ToSet(ss[i]) PROVE \E x \in S : v \in ToSet(f[x])
      <3>1. keys[i] \in S /\ v \in ToSet(f[keys[i]])
        BY <1>3, <1>7, <2>1
      <3> QED
        BY <3>1
    <2>2. ASSUME NEW x \in S, v \in ToSet(f[x]) PROVE \E i \in 1 .. n : v \in ToSet(ss[i])
      <3>1. PICK i \in 1 .. n : keys[i] = x
        BY <1>5
      <3>2. v \in ToSet(ss[i])
        BY <1>7, <2>2, <3>1
      <3> QED
        BY <3>2
    <2> QED
      BY <2>1, <2>2
  <1>10. ASSUME NEW v, \A x \in S : AtMostOnce(f[x], v),
                \A x, y \in S : v \in ToSet(f[x]) /\ v \in ToSet(f[y]) => x = y
         PROVE  AtMostOnce(FlattenSeq(ss), v)
    <2>1. \A i \in 1 .. n : keys[i] \in S
      BY <1>3
    <2>2. \A i, j \in 1 .. n : keys[i] = keys[j] => i = j
      <3>1. DOMAIN keys = 1 .. n
        BY <1>3
      <3> QED
        BY <1>3, <3>1 DEF IsInjective
    <2>3. \A i \in 1 .. n : AtMostOnce(ss[i], v)
      BY <1>7, <1>10, <2>1
    <2>4. ASSUME NEW i \in 1 .. n, NEW j \in 1 .. n, v \in ToSet(ss[i]), v \in ToSet(ss[j])
          PROVE  i = j
      <3>1. v \in ToSet(f[keys[i]]) /\ v \in ToSet(f[keys[j]])
        BY <1>7, <2>4
      <3>2. keys[i] = keys[j]
        BY <1>10, <2>1, <3>1
      <3> QED
        BY <2>2, <3>2
    <2> QED
      BY <1>7, <2>3, <2>4, FlattenOnce
  <1> QED
    BY <1>6, <1>8, <1>9, <1>10 DEF S, UnderOneKey

LEMMA CreditsOfFacts ==
  ASSUME NEW txs \in SUBSET Tx, NEW h \in Height, Tracked \subseteq Sub
  PROVE  /\ CreditsOf(txs, h) \in Seq(FoundType(Sub))
         /\ \A f : f \in ToSet(CreditsOf(txs, h)) <=>
                    \E t \in txs, s \in Tracked : Pays(t, s) /\ f = Finding(t, s, h)
         /\ Apart(txs) => \A f : AtMostOnce(CreditsOf(txs, h), f)
  <1> DEFINE V == FoundType(Sub)
             c == [t \in txs |-> Credits(t, h)]
  <1>1. /\ DOMAIN c = txs /\ IsFiniteSet(txs)
        /\ \A t \in txs : t \in Tx /\ c[t] = Credits(t, h)
    BY ScannerAssumption, FS_Subset
  <1>2. CreditsOf(txs, h) = Joined(c)
    BY DEF CreditsOf
  <1> HIDE DEF c, V
  <1>3. \A t \in txs : c[t] \in Seq(V)
    BY <1>1, CreditsFacts DEF V
  <1>4. \A t \in txs : \A f : f \in ToSet(c[t]) <=> \E s \in Tracked : Pays(t, s) /\ f = Finding(t, s, h)
    BY <1>1, CreditsFacts
  <1>5. /\ Joined(c) \in Seq(V)
        /\ \A f : f \in ToSet(Joined(c)) <=> \E t \in txs : f \in ToSet(c[t])
    BY <1>1, <1>3, JoinedFacts
  <1>6. ASSUME Apart(txs), NEW f PROVE AtMostOnce(Joined(c), f)
    <2>1. \A t \in txs : AtMostOnce(c[t], f)
      BY <1>1, <1>6, CreditsFacts DEF Apart
    <2>2. ASSUME NEW t \in txs, NEW u \in txs, f \in ToSet(c[t]), f \in ToSet(c[u])
          PROVE  t = u
      <3>1. PICK s \in Tracked : Pays(t, s) /\ f = Finding(t, s, h)
        BY <1>4, <2>2
      <3>2. PICK r \in Tracked : Pays(u, r) /\ f = Finding(u, r, h)
        BY <1>4, <2>2
      <3>3. r = s /\ Outs[t][1].amount = Outs[u][1].amount
        BY <3>1, <3>2 DEF Finding
      <3> QED
        BY <1>6, <3>1, <3>2, <3>3 DEF Apart
    <2>3. UnderOneKey(c, f)
      BY <1>1, <2>1, <2>2 DEF UnderOneKey
    <2> HIDE DEF Apart
    <2> QED
      BY <1>1, <1>3, <2>3, JoinedFacts
  <1>7. ASSUME NEW f
        PROVE  f \in ToSet(Joined(c)) <=> \E t \in txs, s \in Tracked : Pays(t, s) /\ f = Finding(t, s, h)
    <2>1. f \in ToSet(Joined(c)) <=> \E t \in txs : f \in ToSet(c[t])
      BY <1>5
    <2>2. \A t \in txs : f \in ToSet(c[t]) <=> \E s \in Tracked : Pays(t, s) /\ f = Finding(t, s, h)
      BY <1>4
    <2> QED
      BY <2>1, <2>2
  <1>8. Apart(txs) => \A f : AtMostOnce(Joined(c), f)
    BY <1>6
  <1> QED
    BY <1>2, <1>5, <1>7, <1>8 DEF V

\* What scan_blocks() finds is what the cells that it reads hold.
LEMMA BlockCreditsFacts ==
  ASSUME CacheInv, Tracked \subseteq Sub, phase = "done", NEW n \in Nat, n <= CacheSize
  PROVE  /\ BlockCredits(n) \in Seq(FoundType(Sub))
         /\ \A f : f \in ToSet(BlockCredits(n)) <=>
                    \E k \in Cells, s \in Tracked :
                       k < n /\ \E t \in TxsOf[blocks[k]] : Pays(t, s) /\ f = Finding(t, s, height - k)
         /\ (\A b \in Block : Apart(TxsOf[b])) => \A f : AtMostOnce(BlockCredits(n), f)
  <1> DEFINE V == FoundType(Sub)
             part(k) == CreditsOf(TxsOf[blocks[k]], height - k)
             In(f, k) == \E t \in TxsOf[blocks[k]], s \in Tracked : Pays(t, s) /\ f = Finding(t, s, height - k)
             ss == [j \in 1 .. n |-> part(n - j)]
  <1>1. CacheSize \in Nat /\ height \in Nat /\ \A k \in Cells : k \in Nat /\ height - k \in Nat
    BY CellsFacts DEF CacheInv, CacheTypeOK, Window, Cells
  <1>2. ASSUME NEW k \in Cells
        PROVE  /\ part(k) \in Seq(V)
               /\ \A f : f \in ToSet(part(k)) <=> In(f, k)
               /\ (\A b \in Block : Apart(TxsOf[b])) => \A f : AtMostOnce(part(k), f)
    <2>1. blocks[k] \in Block /\ TxsOf[blocks[k]] \in SUBSET Tx
      BY MonerodAssumption DEF CacheInv, Window, BlockAssumption
    <2>2. height - k \in Height
      BY <1>1 DEF Height
    <2> QED
      BY <2>1, <2>2, CreditsOfFacts
  <1>3. /\ \A j \in 1 .. n : n - j \in Cells /\ n - j < n
        /\ \A k \in Cells : k < n => n - k \in 1 .. n /\ n - (n - k) = k
    BY <1>1 DEF Cells
  <1>4. BlockCredits(n) = FlattenSeq(ss)
    BY DEF BlockCredits
  <1> HIDE DEF part, V, In
  <1>5. ss \in Seq(Seq(V)) /\ Len(ss) = n /\ \A j \in 1 .. n : ss[j] = part(n - j)
    BY <1>2, <1>3
  <1> HIDE DEF ss
  <1>6. /\ FlattenSeq(ss) \in Seq(V)
        /\ \A f : f \in ToSet(FlattenSeq(ss)) <=> \E j \in 1 .. n : f \in ToSet(ss[j])
    BY <1>5, Flatten
  <1>7. \A f : f \in ToSet(FlattenSeq(ss)) <=> \E k \in Cells : k < n /\ In(f, k)
    <2> TAKE f
    <2>1. ASSUME NEW j \in 1 .. n, f \in ToSet(ss[j]) PROVE \E k \in Cells : k < n /\ In(f, k)
      BY <1>2, <1>3, <1>5, <2>1
    <2>2. ASSUME NEW k \in Cells, k < n, In(f, k) PROVE \E j \in 1 .. n : f \in ToSet(ss[j])
      BY <1>2, <1>3, <1>5, <2>2
    <2> QED
      BY <1>6, <2>1, <2>2
  <1>8. ASSUME \A b \in Block : Apart(TxsOf[b]), NEW f PROVE AtMostOnce(FlattenSeq(ss), f)
    <2>1. \A j \in 1 .. n : AtMostOnce(ss[j], f)
      BY <1>2, <1>3, <1>5, <1>8
    <2>2. ASSUME NEW i \in 1 .. n, NEW j \in 1 .. n, f \in ToSet(ss[i]), f \in ToSet(ss[j])
          PROVE  i = j
      <3>1. n - i \in Cells /\ n - j \in Cells /\ In(f, n - i) /\ In(f, n - j)
        BY <1>2, <1>3, <1>5, <2>2
      <3>2. f.height = height - (n - i) /\ f.height = height - (n - j)
        BY <3>1 DEF In, Finding
      <3> QED
        BY <1>1, <3>1, <3>2
    <2> QED
      BY <1>5, <2>1, <2>2, FlattenOnce
  <1> QED
    BY <1>4, <1>6, <1>7, <1>8 DEF V, In
------------------------------------------------------------------------------
(***************************************************************************)
(* The txpool cache.                                                       *)
(***************************************************************************)
LEMMA PoolActions ==
  ASSUME PoolInv, pool \subseteq Tx,
         \/ PoolOpen \/ PoolCall \/ PoolStep \/ PoolFail \/ UNCHANGED txpool \/ Discard
         \/ /\ tphase' = "idle" /\ tlocal' = {} /\ UNCHANGED <<transactions, discovered>>
  PROVE  PoolInv'
  <1> USE DEF PoolInv, PoolSets
  <1>1. CASE PoolOpen
    BY <1>1 DEF PoolOpen, EmptyMap
  <1>2. CASE PoolCall
    BY <1>2 DEF PoolCall
  <1>3. CASE PoolHashes
    <2>1. DOMAIN discovered' = DOMAIN discovered \cap pool
          /\ \A t \in DOMAIN discovered' : discovered'[t] = discovered[t]
      BY <1>3 DEF PoolHashes, RestrictTo
    <2> QED
      BY <1>3, <2>1 DEF PoolHashes
  <1>4. CASE PoolTxs
    BY <1>4 DEF PoolTxs
  <1>5. CASE PoolFail
    BY <1>5 DEF PoolFail
  <1>6. CASE UNCHANGED txpool
    BY <1>6 DEF txpool
  <1>7. CASE Discard
    BY <1>7 DEF Discard, EmptyMap
  <1>8. CASE tphase' = "idle" /\ tlocal' = {} /\ UNCHANGED <<transactions, discovered>>
    BY <1>8
  <1> QED
    BY <1>1, <1>2, <1>3, <1>4, <1>5, <1>6, <1>7, <1>8 DEF PoolStep

\* After scan_txpool() the cache knows every credit of the new transactions, and
\* so does the scan, together with all those of earlier scans.
LEMMA TxpoolScan ==
  ASSUME TypeInv, ScanTxpool
  PROVE  /\ PoolInv'
         /\ found' \in Seq(FoundType(Sub))
         /\ DOMAIN discovered \subseteq DOMAIN discovered'
         /\ \A t \in DOMAIN discovered : discovered'[t] = discovered[t]
         /\ \A t \in tlocal, s \in Tracked : Pays(t, s) =>
              t \in DOMAIN discovered' /\ Credit(t, s) \in ToSet(discovered'[t])
         /\ \A t \in DOMAIN discovered' : t \in DOMAIN discovered \/ discovered'[t] = Credits(t, NoHeight)
         /\ step = "scan_txpool" =>
              \E all \in Seq(FoundType(Sub)) :
                /\ found' = found \o all
                /\ ToSet(found') = ToSet(found) \cup ToSet(all)
                /\ \A c : c \in ToSet(all) <=> \E t \in DOMAIN discovered' : c \in ToSet(discovered'[t])
                /\ \A c : UnderOneKey(discovered', c) => AtMostOnce(all, c)
  <1> DEFINE paying == {t \in tlocal : Credits(t, NoHeight) # <<>>}
             new == [t \in paying |-> Credits(t, NoHeight)]
             merged == ExtendedBy(new, discovered)
  <1>1. /\ step \in {"scan_txpool", "only_txpool"} /\ tphase = "done"
        /\ tlocal \subseteq transactions /\ tlocal \cap DOMAIN discovered = {}
        /\ DOMAIN discovered \subseteq transactions /\ transactions \subseteq Tx
        /\ \A t \in DOMAIN discovered : discovered[t] \in Seq(FoundType(Sub))
        /\ Tracked \subseteq Sub /\ found \in Seq(FoundType(Sub))
    BY DEF ScanTxpool, TypeInv, PoolInv, PoolSets, StoreInv, ScanInv, Control
  <1>2. /\ discovered' = ExtendedBy(discovered, new)
        /\ tlocal' = {} /\ tphase' = "idle" /\ transactions' = transactions
        /\ found' = IF step = "scan_txpool" THEN found \o Joined(merged) ELSE found
    BY DEF ScanTxpool, InsertTransfers
  <1>3. \A t \in tlocal : Credits(t, NoHeight) \in Seq(FoundType(Sub))
    BY <1>1, CreditsFacts DEF Height
  <1>4. \A t \in tlocal, s \in Tracked : Pays(t, s) => Credit(t, s) \in ToSet(Credits(t, NoHeight))
    BY <1>1, CreditsFacts DEF Height, Credit
  <1>5. \A t \in tlocal, s \in Tracked : Pays(t, s) => t \in paying
    <2>1. ToSet(<<>>) = {}
      BY DEF ToSet
    <2> QED
      BY <1>4, <2>1
  <1>6. DOMAIN new = paying /\ \A t \in paying : new[t] = Credits(t, NoHeight)
    OBVIOUS
  <1>7. paying \subseteq tlocal
    OBVIOUS
  <1> HIDE DEF paying, new
  <1>8. /\ DOMAIN discovered' = DOMAIN discovered \cup paying
        /\ \A t \in paying : discovered'[t] = Credits(t, NoHeight)
        /\ \A t \in DOMAIN discovered : discovered'[t] = discovered[t]
    BY <1>1, <1>2, <1>6, <1>7 DEF ExtendedBy
  <1>9. /\ DOMAIN merged = DOMAIN discovered'
        /\ \A t \in DOMAIN merged : merged[t] = discovered'[t]
    BY <1>1, <1>6, <1>7, <1>8 DEF ExtendedBy
  <1>10. \A t \in DOMAIN discovered' : discovered'[t] \in Seq(FoundType(Sub))
    BY <1>1, <1>3, <1>7, <1>8
  <1>11. PoolInv'
    BY <1>1, <1>2, <1>7, <1>8, <1>10 DEF TypeInv, PoolInv, PoolSets
  <1>12. /\ Joined(merged) \in Seq(FoundType(Sub))
         /\ \A c : c \in ToSet(Joined(merged)) <=> \E t \in DOMAIN merged : c \in ToSet(merged[t])
         /\ \A c : UnderOneKey(merged, c) => AtMostOnce(Joined(merged), c)
    <2>1. IsFiniteSet(DOMAIN merged)
      BY <1>1, <1>7, <1>8, <1>9, ScannerAssumption, FS_Subset
    <2>2. \A t \in DOMAIN merged : merged[t] \in Seq(FoundType(Sub))
      BY <1>9, <1>10
    <2> HIDE DEF merged
    <2> QED
      BY <2>1, <2>2, JoinedFacts
  <1> HIDE DEF merged
  <1>13. CASE step = "scan_txpool"
    <2>1. found' = found \o Joined(merged)
      BY <1>2, <1>13
    <2>2. found' \in Seq(FoundType(Sub)) /\ ToSet(found') = ToSet(found) \cup ToSet(Joined(merged))
      BY <1>1, <1>12, <2>1, ConcatElements
    <2>3. \A c : c \in ToSet(Joined(merged)) <=> \E t \in DOMAIN discovered' : c \in ToSet(discovered'[t])
      BY <1>9, <1>12
    <2>4. \A c : UnderOneKey(discovered', c) => AtMostOnce(Joined(merged), c)
      BY <1>9, <1>12 DEF UnderOneKey
    <2> QED
      BY <1>4, <1>5, <1>8, <1>11, <1>12, <2>1, <2>2, <2>3, <2>4
  <1>14. CASE step = "only_txpool"
    <2>1. found' \in Seq(FoundType(Sub)) /\ step # "scan_txpool"
      BY <1>1, <1>2, <1>14
    <2> QED
      BY <1>4, <1>5, <1>8, <1>11, <2>1
  <1> QED
    BY <1>1, <1>13, <1>14
------------------------------------------------------------------------------
(***************************************************************************)
(* Types and phases.                                                       *)
(***************************************************************************)
\* Where a scanner resumes.
LEMMA ResumeHeight ==
  ASSUME TypeInv
  PROVE  (IF Tracked = {} THEN Len(chain) - 1 ELSE Dec(LowestHeight)) \in Nat
  <1> DEFINE heights == {store[s].current_height : s \in Tracked}
  <1>1. CASE Tracked = {}
    BY <1>1, ChainBlocks DEF TypeInv, CacheInv, MonerodTypeOK
  <1>2. CASE Tracked # {}
    <2>1. heights \in SUBSET Nat /\ heights # {}
      BY <1>2 DEF TypeInv, StoreInv, InvoiceType
    <2>2. LowestHeight = CHOOSE h \in heights : \A k \in heights : h <= k
      BY DEF LowestHeight
    <2> HIDE DEF heights
    <2>3. LowestHeight \in Nat
      BY <2>1, <2>2, Least
    <2> QED
      BY <1>2, <2>3, InvoiceAssumption DEF Dec
  <1> QED
    BY <1>1, <1>2

LEMMA DaemonTypes ==
  ASSUME TypeInv, Daemon
  PROVE  TypeInv'
  <1> USE DEF Tracked
  <1>1. /\ UNCHANGED <<cache, txpool, store, creating, scanner>>
        /\ chain \in Chains /\ pool \subseteq Tx
    BY DEF Daemon, TypeInv, CacheInv, MonerodTypeOK
  <1>2. MonerodTypeOK'
    <2>1. ASSUME NEW c \in Chains, Adopt(c) PROVE MonerodTypeOK'
      BY <1>1, <2>1, ChainTxsTypes DEF Adopt, MonerodTypeOK
    <2>2. ASSUME NEW t \in Tx, Broadcast(t) \/ Drop(t) PROVE MonerodTypeOK'
      BY <1>1, <2>2 DEF Broadcast, Drop, MonerodTypeOK
    <2> QED
      BY <2>1, <2>2 DEF Daemon, MonerodNext
  <1>3. CacheInv'
    BY <1>1, <1>2 DEF TypeInv, CacheInv, CacheTypeOK, Window, cache, window, locals
  <1>4. PoolInv'
    BY <1>1 DEF TypeInv, PoolInv, PoolSets, txpool
  <1>5. StoreInv' /\ ScanInv'
    BY <1>1 DEF TypeInv, StoreInv, ScanInv, Control, scanner, cache, txpool
  <1> QED
    BY <1>3, <1>4, <1>5 DEF TypeInv

LEMMA ApiTypes ==
  ASSUME TypeInv, Api
  PROVE  TypeInv'
  <1> USE DEF Tracked
  <1>1. UNCHANGED <<monerod, cache, txpool, scanner>>
    BY DEF Api, NewInvoice, InsertInvoice, RemoveInvoice
  <1>2. CacheInv' /\ PoolInv' /\ ScanInv'
    BY <1>1 DEF TypeInv, CacheInv, MonerodTypeOK, CacheTypeOK, Window, PoolInv, PoolSets,
                ScanInv, Control, monerod, cache, window, locals, txpool, scanner
  <1>3. CASE InsertInvoice
    <2>1. PICK inv \in creating :
            /\ store' = [s \in Tracked \cup {inv.index} |-> IF s = inv.index THEN inv ELSE store[s]]
            /\ creating' = NoOne
      BY <1>3 DEF InsertInvoice
    <2>2. inv \in InvoiceType(Sub) /\ inv.index \in Sub
      BY DEF TypeInv, StoreInv, InvoiceType
    <2>3. Tracked' = Tracked \cup {inv.index}
          /\ \A s \in Tracked' : store'[s] = IF s = inv.index THEN inv ELSE store[s]
      BY <2>1
    <2> QED
      BY <1>2, <2>1, <2>2, <2>3 DEF TypeInv, StoreInv, NoOne
  <1>4. ASSUME NEW s \in Sub, NewInvoice(s)
        PROVE  TypeInv'
    <2> DEFINE inv == NewInvoiceRecord(s, daemon_height, Requested,
                                       ConfirmationsRequired, ExpirationIn)
    <2>1. daemon_height \in Nat
      BY DEF TypeInv, CacheInv, CacheTypeOK
    <2>2. daemon_height + ExpirationIn \in Nat /\ <<>> \in Seq(TransferType)
      BY <2>1, ScannerAssumption
    <2>3. inv \in InvoiceType(Sub)
      BY <2>1, <2>2, ScannerAssumption DEF NewInvoiceRecord, InvoiceType, Height
    <2>4. creating' = {inv} /\ store' = store /\ inv.index = s /\ s \notin Tracked
      BY <1>4 DEF NewInvoice, NewInvoiceRecord
    <2> HIDE DEF inv
    <2> QED
      BY <1>2, <2>3, <2>4 DEF TypeInv, StoreInv
  <1>5. ASSUME NEW s \in Sub, RemoveInvoice(s)
        PROVE  TypeInv'
    <2>1. /\ store' = RestrictTo(store, Sub \ {s}) /\ creating' = creating
      BY <1>5 DEF RemoveInvoice
    <2>2. Tracked' \subseteq Tracked /\ \A r \in Tracked' : store'[r] = store[r]
      BY <2>1 DEF RestrictTo
    <2> QED
      BY <1>2, <2>1, <2>2 DEF TypeInv, StoreInv
  <1> QED
    BY <1>3, <1>4, <1>5 DEF Api

LEMMA OpeningTypes ==
  ASSUME TypeInv, Opening
  PROVE  TypeInv'
  <1> USE DEF Tracked
  <1>1. pool \subseteq Tx
    BY DEF TypeInv, CacheInv, MonerodTypeOK
  <1>2. UNCHANGED <<monerod, store, creating, found, queue>>
    BY DEF Opening, Start, OpenPool, FillCache, Opened, scanner
  <1>3. StoreInv'
    BY <1>2 DEF TypeInv, StoreInv
  <1> USE DEF TypeInv, ScanInv, Control
  <1>4. CASE Start
    <2>1. \E h \in Nat : Open(h, Len(chain))
      BY <1>4, ResumeHeight DEF Start
    <2>2. CacheInv'
      BY <1>2, <2>1, CacheActions
    <2>3. PoolInv'
      BY <1>1, <1>4, PoolActions DEF Start
    <2> QED
      BY <1>2, <1>3, <1>4, <2>2, <2>3 DEF Start, Open, txpool
  <1>5. CASE OpenPool
    <2>1. CacheInv'
      BY <1>2, <1>5, CacheActions DEF OpenPool
    <2>2. PoolInv'
      BY <1>1, <1>5, PoolActions DEF OpenPool
    <2> QED
      BY <1>2, <1>3, <1>5, <2>1, <2>2 DEF OpenPool, PoolOpen, scanner, cache
  <1>6. CASE FillCache
    <2>1. CacheInv'
      BY <1>6, CacheActions DEF FillCache, CacheStep
    <2>2. PoolInv'
      BY <1>1, <1>6, PoolActions DEF FillCache
    <2> QED
      BY <1>2, <1>3, <1>6, <2>1, <2>2 DEF FillCache, InitFetch, scanner, txpool
  <1>7. CASE Opened
    <2>1. CacheInv'
      BY <1>2, <1>7, CacheActions DEF Opened
    <2>2. PoolInv'
      BY <1>1, <1>7, PoolActions DEF Opened
    <2> QED
      BY <1>2, <1>3, <1>7, <2>1, <2>2 DEF Opened, txpool, cache
  <1> QED
    BY <1>4, <1>5, <1>6, <1>7 DEF Opening

LEMMA ScanTypes ==
  ASSUME TypeInv, ScanStep
  PROVE  TypeInv'
  <1> USE DEF Tracked
  <1>1. pool \subseteq Tx /\ height \in Nat
    BY DEF TypeInv, CacheInv, MonerodTypeOK, CacheTypeOK
  <1>2. UNCHANGED <<monerod, creating>>
    BY DEF ScanStep, BeginScan, RunCache, BeginPool, RunPool, ScanBlocks, ScanTxpool,
           Prepare, Save, Flush
  <1>3. store' = store => StoreInv'
    BY <1>2 DEF TypeInv, StoreInv
  <1> USE DEF TypeInv, ScanInv, Control
  <1>4. CASE BeginScan
    <2>1. \E proc \in {"update", "skip_ahead"} : Call(proc)
      BY <1>4 DEF BeginScan
    <2>2. CacheInv'
      BY <1>2, <2>1, CacheActions
    <2>3. PoolInv'
      BY <1>1, <1>4, PoolActions DEF BeginScan
    <2> QED
      BY <1>2, <1>3, <1>4, <2>2, <2>3 DEF BeginScan, Call, txpool, Asking
  <1>5. CASE RunCache
    <2>1. CacheInv'
      BY <1>5, CacheActions DEF RunCache
    <2>2. PoolInv'
      BY <1>1, <1>5, PoolActions DEF RunCache
    <2>3. phase' \in Asking \cup {"skip", "fix", "done"}
      BY <1>5 DEF RunCache, CacheStep, InitFetch, UpdateTip, UpdateFetch, SkipTip, SkipFetch,
                  Check, Repair, Return, Asking
    <2> QED
      BY <1>2, <1>3, <1>5, <2>1, <2>2, <2>3 DEF RunCache, scanner, txpool
  <1>6. CASE BeginPool
    <2>1. CacheInv'
      BY <1>2, <1>6, CacheActions DEF BeginPool
    <2>2. PoolInv'
      BY <1>1, <1>6, PoolActions DEF BeginPool
    <2> QED
      BY <1>2, <1>3, <1>6, <2>1, <2>2 DEF BeginPool, PoolCall, cache
  <1>7. CASE RunPool
    <2>1. CacheInv'
      BY <1>2, <1>7, CacheActions DEF RunPool
    <2>2. PoolInv'
      BY <1>1, <1>7, PoolActions DEF RunPool
    <2>3. tphase' \in {"txs", "done"}
      BY <1>7 DEF RunPool, PoolStep, PoolHashes, PoolTxs
    <2> QED
      BY <1>2, <1>3, <1>7, <2>1, <2>2, <2>3 DEF RunPool, cache
  <1>8. CASE ScanBlocks
    <2>1. CacheInv'
      BY <1>2, <1>8, CacheActions DEF ScanBlocks
    <2>2. PoolInv'
      BY <1>1, <1>8, PoolActions DEF ScanBlocks
    <2>3. (IF first_scan THEN CacheSize ELSE updated) \in Nat
          /\ (IF first_scan THEN CacheSize ELSE updated) <= CacheSize
      BY <1>8, CellsFacts DEF ScanBlocks, CacheInv, CacheTypeOK, Window
    <2>4. found' \in Seq(FoundType(Sub))
      BY <1>8, <2>3, BlockCreditsFacts DEF ScanBlocks, StoreInv
    <2> QED
      BY <1>2, <1>3, <1>8, <2>1, <2>2, <2>4 DEF ScanBlocks, txpool, cache
  <1>9. CASE ScanTxpool
    <2>1. UNCHANGED cache \/ (Dispose /\ phase = "done")
      BY <1>9 DEF ScanTxpool
    <2>2. CacheInv'
      BY <1>2, <2>1, CacheActions
    <2>3. PoolInv' /\ found' \in Seq(FoundType(Sub))
      BY <1>9, TxpoolScan
    <2>4. \/ step' = "prepare" /\ first_scan' = FALSE /\ UNCHANGED cache
          \/ step' = "idle" /\ Dispose /\ first_scan' = first_scan
      BY <1>9 DEF ScanTxpool
    <2> QED
      BY <1>2, <1>3, <1>9, <2>2, <2>3, <2>4 DEF ScanTxpool, Dispose, cache
  <1>10. CASE Prepare
    <2> DEFINE new == [s \in Tracked |-> Updated(store[s], found, DeepestUpdate, height)]
    <2>1. \A s \in Tracked : new[s] \in InvoiceType(Sub)
      BY <1>1, UpdatedHolds DEF StoreInv
    <2>2. queue' = {new[s] : s \in {r \in Tracked : new[r] # store[r]}}
      BY <1>10 DEF Prepare
    <2> HIDE DEF new
    <2>3. queue' \subseteq InvoiceType(Sub)
      BY <2>1, <2>2
    <2>4. CacheInv'
      BY <1>2, <1>10, CacheActions DEF Prepare
    <2>5. PoolInv'
      BY <1>1, <1>10, PoolActions DEF Prepare
    <2> QED
      BY <1>2, <1>3, <1>10, <2>3, <2>4, <2>5 DEF Prepare, Dispose, txpool
  <1>11. CASE Save
    <2>1. PICK inv \in queue :
            /\ store' = IF inv.index \in Tracked
                           /\ store[inv.index].creation_height = inv.creation_height
                        THEN [store EXCEPT ![inv.index] = inv] ELSE store
            /\ queue' = queue \ {inv}
      BY <1>11 DEF Save
    <2>2. Tracked' = Tracked
          /\ \A s \in Tracked : store'[s] = store[s] \/ (s = inv.index /\ store'[s] = inv)
      BY <2>1
    <2>3. inv \in InvoiceType(Sub)
      OBVIOUS
    <2>4. StoreInv'
      BY <1>2, <2>2, <2>3 DEF StoreInv
    <2>5. CacheInv'
      BY <1>2, <1>11, CacheActions DEF Save
    <2>6. PoolInv'
      BY <1>1, <1>11, PoolActions DEF Save
    <2> QED
      BY <1>11, <2>1, <2>4, <2>5, <2>6 DEF Save, txpool, cache
  <1>12. CASE Flush
    <2>1. CacheInv'
      BY <1>2, <1>12, CacheActions DEF Flush
    <2>2. PoolInv'
      BY <1>1, <1>12, PoolActions DEF Flush
    <2> QED
      BY <1>2, <1>3, <1>12, <2>1, <2>2 DEF Flush, txpool, cache
  <1> QED
    BY <1>4, <1>5, <1>6, <1>7, <1>8, <1>9, <1>10, <1>11, <1>12 DEF ScanStep

LEMMA FailureTypes ==
  ASSUME TypeInv, Failure
  PROVE  TypeInv'
  <1> USE DEF Tracked
  <1>1. pool \subseteq Tx /\ height \in Nat /\ daemon_height \in Nat
    BY DEF TypeInv, CacheInv, MonerodTypeOK, CacheTypeOK
  <1>2. UNCHANGED <<monerod, creating, store>>
    BY DEF Failure, CachesFail, ScanBlocksFail, StoreFail, SaveFail, OpenFail, Discard
  <1>3. StoreInv'
    BY <1>2 DEF TypeInv, StoreInv
  <1> USE DEF TypeInv, ScanInv, Control
  <1>4. CASE CachesFail
    <2>1. CacheInv'
      BY <1>4, CacheActions DEF CachesFail, Control
    <2>2. PoolInv'
      BY <1>1, <1>4, PoolActions DEF CachesFail
    <2>3. phase' \in {"idle", "failed"} /\ tphase' = "idle"
      BY <1>4 DEF CachesFail, RpcFail, Dispose, PoolFail, txpool, Asking
    <2> QED
      BY <1>3, <1>4, <2>1, <2>2, <2>3 DEF CachesFail
  <1>5. CASE ScanBlocksFail
    <2>1. CacheInv'
      BY <1>2, <1>5, CacheActions DEF ScanBlocksFail
    <2>2. PoolInv'
      BY <1>1, <1>5, PoolActions DEF ScanBlocksFail
    <2> QED
      BY <1>3, <1>5, <2>1, <2>2 DEF ScanBlocksFail, cache, txpool
  <1>6. CASE StoreFail
    <2>1. CacheInv'
      BY <1>2, <1>6, CacheActions DEF StoreFail
    <2>2. PoolInv'
      BY <1>1, <1>6, PoolActions DEF StoreFail
    <2>3. <<>> \in Seq(FoundType(Sub))
      OBVIOUS
    <2> QED
      BY <1>3, <1>6, <2>1, <2>2, <2>3 DEF StoreFail, Dispose
  <1>7. CASE SaveFail
    <2>1. CacheInv'
      BY <1>2, <1>7, CacheActions DEF SaveFail
    <2>2. PoolInv'
      BY <1>1, <1>7, PoolActions DEF SaveFail
    <2> QED
      BY <1>3, <1>7, <2>1, <2>2 DEF SaveFail, cache, txpool
  <1>8. CASE OpenFail
    <2>1. Discard /\ height' = height /\ daemon_height' = daemon_height
      BY <1>8 DEF OpenFail
    <2>2. CacheInv'
      BY <1>1, <1>2, <2>1, CacheActions
    <2>3. PoolInv'
      BY <1>1, <2>1, PoolActions
    <2>4. <<>> \in Seq(FoundType(Sub))
      OBVIOUS
    <2> QED
      BY <1>3, <2>1, <2>2, <2>3, <2>4 DEF Discard
  <1> QED
    BY <1>4, <1>5, <1>6, <1>7, <1>8 DEF Failure

LEMMA EndTypes ==
  ASSUME TypeInv, Stop \/ Crash
  PROVE  TypeInv'
  <1> USE DEF Tracked
  <1>1. \E h, t \in Nat : Discard /\ height' = h /\ daemon_height' = t
    BY DEF Stop, Crash, TypeInv, CacheInv, CacheTypeOK
  <1>2. UNCHANGED monerod /\ pool \subseteq Tx /\ <<>> \in Seq(FoundType(Sub))
    BY <1>1 DEF Discard, TypeInv, CacheInv, MonerodTypeOK
  <1>3. CacheInv'
    BY <1>1, <1>2, CacheActions DEF TypeInv
  <1>4. PoolInv'
    BY <1>1, <1>2, PoolActions DEF TypeInv
  <1>5. StoreInv' /\ ScanInv'
    BY <1>1, <1>2 DEF Stop, Crash, Discard, TypeInv, StoreInv, ScanInv, Control, NoOne
  <1> QED
    BY <1>3, <1>4, <1>5 DEF TypeInv

LEMMA TypesInit == Init => TypeInv
  <1> SUFFICES ASSUME Init PROVE TypeInv
    OBVIOUS
  <1> USE DEF Init, ScannerInit, MonerodInit, CacheInit, TxpoolInit
  <1>1. CacheInv
    BY CellsFacts DEF CacheInv, MonerodTypeOK, CacheTypeOK, Window, Phases, Asking
  <1>2. PoolInv
    BY DEF PoolInv, PoolSets, EmptyMap
  <1>3. StoreInv
    BY DEF StoreInv, EmptyStore, NoOne, Tracked
  <1>4. ScanInv
    <2>1. <<>> \in Seq(FoundType(Sub))
      OBVIOUS
    <2> QED
      BY <2>1 DEF ScanInv, Control
  <1> QED
    BY <1>1, <1>2, <1>3, <1>4 DEF TypeInv

LEMMA TypesStep == TypeInv /\ [Next]_<<vars, ghosts>> => TypeInv'
  <1> SUFFICES ASSUME TypeInv, [Next]_<<vars, ghosts>> PROVE TypeInv'
    OBVIOUS
  <1>1. CASE UNCHANGED <<vars, ghosts>>
    BY <1>1 DEF vars, monerod, cache, window, locals, txpool, scanner, Tracked, TypeInv,
                CacheInv, MonerodTypeOK, CacheTypeOK, Window, PoolInv, PoolSets, StoreInv,
                ScanInv, Control
  <1>2. CASE Next
    BY <1>2, DaemonTypes, ApiTypes, OpeningTypes, ScanTypes, FailureTypes, EndTypes
       DEF Next, MoveDaemon, CallApi, OpenScanner, Scan, FailScan, EndScanner
  <1> QED
    BY <1>1, <1>2
------------------------------------------------------------------------------
(***************************************************************************)
(* Payments in the pool.                                                   *)
(***************************************************************************)
LEMMA KnownStep == TypeInv /\ Known /\ [Next]_<<vars, ghosts>> => Known'
  <1> SUFFICES ASSUME TypeInv, Known, [Next]_<<vars, ghosts>> PROVE Known'
    OBVIOUS
  <1> USE DEF Known
  <1>1. CASE MoveDaemon
    <2>1. ever' = ever \cup pool' \cup ChainTxs(chain') /\ transactions' = transactions
      BY <1>1 DEF MoveDaemon, Daemon, txpool
    <2> QED
      BY <2>1 DEF ChainTxs
  <1>2. ASSUME UNCHANGED <<monerod, ever>>,
               transactions' \subseteq transactions \cup pool \cup ChainTxs(chain)
        PROVE  Known'
    BY <1>2 DEF monerod, ChainTxs
  <1>3. CASE CallApi
    BY <1>2, <1>3 DEF CallApi, Api, NewInvoice, InsertInvoice, RemoveInvoice, txpool
  <1>4. CASE OpenScanner
    BY <1>2, <1>4 DEF OpenScanner, Opening, Start, OpenPool, PoolOpen, FillCache, Opened, txpool
  <1>5. CASE Scan
    BY <1>2, <1>5 DEF Scan, ScanStep, BeginScan, RunCache, BeginPool, PoolCall, RunPool, PoolStep,
       PoolHashes, PoolTxs, ScanBlocks, ScanTxpool, Prepare, Save, Flush, txpool
  <1>6. CASE FailScan
    BY <1>2, <1>6 DEF FailScan, Failure, CachesFail, PoolFail, ScanBlocksFail, StoreFail,
       SaveFail, OpenFail, Discard, txpool
  <1>7. CASE EndScanner
    BY <1>2, <1>7 DEF EndScanner, Stop, Crash, Discard
  <1>8. CASE UNCHANGED <<vars, ghosts>>
    BY <1>2, <1>8 DEF vars, ghosts, txpool
  <1> QED
    BY <1>1, <1>3, <1>4, <1>5, <1>6, <1>7, <1>8 DEF Next

\* What an invoice is owed it was owed before, but for what has just arrived.
LEMMA OwedBefore ==
  ASSUME TypeInv, Known, [Next]_<<vars, ghosts>>,
         NEW s \in Tracked', NEW t \in Owed(s)'
  PROVE  /\ s \in Tracked
         /\ \/ t \in Owed(s)
            \/ t \in tlocal' /\ tphase' = "done" /\ RunPool
  <1>1. t \in transactions' /\ t \notin missed' /\ t \notin earlier'[s] /\ Pays(t, s)
    BY DEF Owed, Pays
  <1>2. t \in transactions /\ t \notin missed /\ t \notin earlier[s] => t \in Owed(s)
    BY <1>1 DEF Owed
  <1>3. CASE MoveDaemon
    BY <1>1, <1>2, <1>3 DEF MoveDaemon, Daemon, txpool, Tracked
  <1>4. CASE CallApi
    <2>1. transactions' = transactions /\ missed' = missed
      BY <1>4 DEF CallApi, Api, NewInvoice, InsertInvoice, RemoveInvoice, txpool
    <2>2. s \in Sub
      BY TypesStep DEF TypeInv, StoreInv
    <2>3. earlier'[s] = IF s \in Tracked THEN earlier[s] ELSE ever
      BY <1>4, <2>2 DEF CallApi
    <2> QED
      BY <1>1, <1>2, <2>1, <2>3 DEF Known
  <1>5. CASE OpenScanner
    <2>1. CASE OpenPool
      BY <1>1, <1>5, <2>1 DEF OpenScanner, OpenPool, PoolOpen
    <2>2. CASE ~ OpenPool
      BY <1>1, <1>2, <1>5, <2>2 DEF OpenScanner, Opening, Start, FillCache, Opened, txpool, Tracked
    <2> QED
      BY <2>1, <2>2
  <1>6. CASE Scan
    <2>1. s \in Tracked
      BY <1>6 DEF Scan, ScanStep, BeginScan, RunCache, BeginPool, RunPool, ScanBlocks, ScanTxpool,
         Prepare, Save, Flush, Tracked
    <2>2. t \notin missed /\ earlier' = earlier
      BY <1>1, <1>6 DEF Scan
    <2>3. \/ t \in transactions
          \/ t \in tlocal' /\ tphase' = "done" /\ RunPool
      BY <1>1, <1>6 DEF Scan, ScanStep, BeginScan, RunCache, BeginPool, PoolCall, RunPool, PoolStep,
         PoolHashes, PoolTxs, ScanBlocks, ScanTxpool, Prepare, Save, Flush, txpool
    <2> QED
      BY <1>1, <1>2, <2>1, <2>2, <2>3
  <1>7. CASE FailScan
    <2>1. s \in Tracked /\ t \in transactions
      BY <1>1, <1>7 DEF FailScan, Failure, CachesFail, PoolFail, ScanBlocksFail, StoreFail,
         SaveFail, OpenFail, Discard, txpool, Tracked
    <2>2. t \notin missed /\ earlier' = earlier
      BY <1>1, <1>7 DEF FailScan
    <2> QED
      BY <1>1, <1>2, <2>1, <2>2
  <1>8. CASE EndScanner
    BY <1>1, <1>8 DEF EndScanner, Stop, Crash, Discard
  <1>9. CASE UNCHANGED <<vars, ghosts>>
    BY <1>1, <1>2, <1>9 DEF vars, ghosts, txpool, Tracked
  <1> QED
    BY <1>3, <1>4, <1>5, <1>6, <1>7, <1>8, <1>9 DEF Next

LEMMA RememberedStep ==
  TypeInv /\ Known /\ Remembered /\ [Next]_<<vars, ghosts>> => Remembered'
  <1> SUFFICES ASSUME TypeInv, Known, Remembered, [Next]_<<vars, ghosts>>,
                      NEW s \in Tracked', NEW t \in Owed(s)'
               PROVE  \/ tphase' = "done" /\ t \in tlocal'
                      \/ t \in DOMAIN discovered' /\ Credit(t, s) \in ToSet(discovered'[t])
    BY DEF Remembered, Credit
  <1> DEFINE Shown == t \in DOMAIN discovered /\ Credit(t, s) \in ToSet(discovered[t])
  <1>1. t \in transactions' /\ t \notin missed' /\ Pays(t, s)
    BY DEF Owed, Pays
  <1>2. CASE RunPool /\ t \in tlocal' /\ tphase' = "done"
    BY <1>2
  <1>3. CASE t \in Owed(s) /\ s \in Tracked
    <2>1. (tphase = "done" /\ t \in tlocal) \/ Shown
      BY <1>3 DEF Remembered
    <2>2. CASE UNCHANGED txpool
      BY <2>1, <2>2 DEF txpool
    <2>3. CASE UNCHANGED discovered /\ tphase # "done"
      BY <2>1, <2>3
    <2>4. CASE OpenScanner
      <3>1. CASE OpenPool
        BY <1>1, <2>4, <3>1 DEF OpenScanner, OpenPool, PoolOpen
      <3>2. CASE ~ OpenPool
        BY <2>2, <2>4, <3>2 DEF OpenScanner, Opening, Start, FillCache, Opened
      <3> QED
        BY <3>1, <3>2
    <2>5. CASE Scan
      <3>1. CASE BeginPool
        BY <2>3, <3>1 DEF BeginPool, PoolCall, TypeInv, ScanInv, Control
      <3>2. CASE RunPool
        <4>1. CASE PoolHashes
          BY <1>1, <2>1, <4>1 DEF PoolHashes, RestrictTo
        <4>2. CASE PoolTxs
          BY <2>3, <4>2 DEF PoolTxs
        <4> QED
          BY <3>2, <4>1, <4>2 DEF RunPool, PoolStep
      <3>3. CASE ScanTxpool
        BY <1>1, <1>3, <2>1, <3>3, TxpoolScan
      <3>4. CASE BeginScan \/ RunCache \/ ScanBlocks \/ Prepare \/ Save \/ Flush
        BY <2>2, <3>4 DEF BeginScan, RunCache, ScanBlocks, Prepare, Save, Flush
      <3> QED
        BY <2>5, <3>1, <3>2, <3>3, <3>4 DEF Scan, ScanStep
    <2>6. CASE FailScan
      <3>1. CASE CachesFail
        BY <2>2, <2>3, <3>1 DEF CachesFail, PoolFail
      <3>2. CASE StoreFail
        <4>1. CASE step = "prepare"
          BY <2>3, <3>2, <4>1 DEF StoreFail, TypeInv, ScanInv, Control
        <4>2. CASE step \in {"scan_txpool", "only_txpool"}
          <5>1. t \notin tlocal
            BY <1>1, <2>6, <4>2 DEF FailScan
          <5> QED
            BY <2>1, <3>2, <5>1 DEF StoreFail
        <4> QED
          BY <3>2, <4>1, <4>2 DEF StoreFail
      <3>3. CASE OpenFail
        BY <1>1, <3>3 DEF OpenFail, Discard
      <3>4. CASE ScanBlocksFail \/ SaveFail
        BY <2>2, <3>4 DEF ScanBlocksFail, SaveFail
      <3> QED
        BY <2>6, <3>1, <3>2, <3>3, <3>4 DEF FailScan, Failure
    <2>7. CASE EndScanner
      BY <1>1, <2>7 DEF EndScanner, Stop, Crash, Discard
    <2>8. CASE MoveDaemon \/ CallApi \/ UNCHANGED <<vars, ghosts>>
      BY <2>2, <2>8 DEF MoveDaemon, Daemon, CallApi, Api, NewInvoice, InsertInvoice, RemoveInvoice,
         vars
    <2> QED
      BY <2>4, <2>5, <2>6, <2>7, <2>8 DEF Next
  <1> QED
    BY <1>2, <1>3, OwedBefore

Quiet == MoveDaemon \/ CallApi \/ UNCHANGED <<vars, ghosts>>

\* The daemon and the callers of the gateway leave alone what an invoice is owed.
LEMMA QuietSteps ==
  ASSUME TypeInv, Known, Quiet
  PROVE  /\ UNCHANGED <<txpool, scanner, split>>
         /\ lost' = {} => lost = {}
         /\ \A s \in Tracked' : \A t \in Owed(s)' :
              s \in Tracked /\ t \in Owed(s) /\ store'[s] = store[s]
  <1>1. UNCHANGED <<txpool, scanner, split>> /\ (lost' = {} => lost = {})
    BY DEF Quiet, MoveDaemon, Daemon, CallApi, Api, NewInvoice, InsertInvoice, RemoveInvoice,
       vars, ghosts
  <1>2. ASSUME NEW s \in Tracked', NEW t \in Owed(s)'
        PROVE  s \in Tracked /\ t \in Owed(s) /\ store'[s] = store[s]
    <2>1. ~ RunPool
      BY <1>1 DEF RunPool, PoolStep, PoolHashes, PoolTxs, scanner, txpool, TypeInv, ScanInv, Control
    <2>2. s \in Tracked /\ t \in Owed(s)
      BY <2>1, OwedBefore DEF Quiet, Next
    <2>3. CASE InsertInvoice
      <3>1. PICK inv \in creating :
              store' = [r \in Tracked \cup {inv.index} |-> IF r = inv.index THEN inv ELSE store[r]]
        BY <2>3 DEF InsertInvoice
      <3>2. inv.index # s
        BY <2>2 DEF TypeInv, StoreInv
      <3> QED
        BY <2>2, <3>1, <3>2
    <2>4. CASE \E r \in Sub : RemoveInvoice(r)
      BY <2>2, <2>4 DEF RemoveInvoice, RestrictTo, Tracked
    <2>5. CASE store' = store
      BY <2>2, <2>5
    <2> QED
      BY <2>3, <2>4, <2>5 DEF Quiet, MoveDaemon, Daemon, CallApi, Api, NewInvoice, vars
  <1> QED
    BY <1>1, <1>2

LEMMA CarriedToPrepare ==
  ASSUME IInv, [Next]_<<vars, ghosts>>, step' = "prepare",
         NEW s \in Tracked', NEW t \in Owed(s)'
  PROVE  Credit(t, s) \in ToSet(found')
  <1> USE DEF IInv
  <1>1. CASE Quiet
    BY <1>1, QuietSteps DEF Carried, scanner
  <1>2. CASE ScanTxpool
    <2>1. t \in Owed(s) /\ s \in Tracked /\ step = "scan_txpool"
      BY <1>2, OwedBefore DEF ScanTxpool, RunPool
    <2>2. \/ t \in tlocal
          \/ t \in DOMAIN discovered /\ Credit(t, s) \in ToSet(discovered[t])
      BY <2>1 DEF Remembered
    <2>3. Pays(t, s)
      BY <2>1 DEF Owed
    <2>4. t \in DOMAIN discovered' /\ Credit(t, s) \in ToSet(discovered'[t])
      BY <1>2, <2>1, <2>2, <2>3, TxpoolScan
    <2> QED
      BY <1>2, <2>1, <2>4, TxpoolScan
  <1>3. Quiet \/ ScanTxpool
    BY DEF Quiet, Next, OpenScanner, Opening, Start, OpenPool, FillCache, Opened,
       Scan, ScanStep, BeginScan, RunCache, BeginPool, RunPool, ScanBlocks, Prepare, Save, Flush,
       FailScan, Failure, CachesFail, ScanBlocksFail, StoreFail, SaveFail, OpenFail,
       EndScanner, Stop, Crash, Discard, scanner
  <1> QED
    BY <1>1, <1>2, <1>3

LEMMA CarriedToSave ==
  ASSUME IInv, [Next]_<<vars, ghosts>>, step' = "save", lost' = {},
         NEW s \in Tracked', NEW t \in Owed(s)'
  PROVE  Queued(s, t)'
  <1> USE DEF IInv
  <1>1. CASE Quiet
    BY <1>1, QuietSteps DEF Carried, Queued, Has, scanner
  <1>2. CASE Prepare
    <2> DEFINE new == [r \in Tracked |-> Updated(store[r], found, DeepestUpdate, height)]
               c == Credit(t, s)
    <2>1. t \in Owed(s) /\ s \in Tracked /\ store' = store /\ step = "prepare"
      BY <1>2, OwedBefore DEF Prepare, RunPool
    <2>2. c \in ToSet(found)
      BY <2>1 DEF Carried
    <2>3. \A r \in Tracked : store[r] \in InvoiceType(Sub) /\ store[r].index = r
      BY DEF TypeInv, StoreInv
    <2>4. height \in Nat /\ found \in Seq(FoundType(Sub))
      BY DEF TypeInv, CacheInv, CacheTypeOK, ScanInv
    <2>5. \A r \in Tracked : new[r].index = r
      BY <2>3, <2>4, UpdatedHolds
    <2>6. Mine(store[s], c) /\ Transfer(c.amount, c.height) = Transfer(Outs[t][1].amount, NoHeight)
      BY <2>1, <2>3 DEF Mine, After, Credit, Finding
    <2>7. Has(new[s], t) /\ new[s].creation_height = store[s].creation_height
      <3>1. new[s] = Updated(store[s], found, DeepestUpdate, height)
        BY <2>1
      <3> HIDE DEF new, c
      <3>3. new[s].creation_height = store[s].creation_height
        BY <2>1, <2>3, <2>4, <3>1, UpdatedHolds
      <3>2. Transfer(c.amount, c.height)
              \in ToSet(Updated(store[s], found, DeepestUpdate, height).transfers)
        BY <2>1, <2>2, <2>3, <2>4, <2>6, UpdatedAdds
      <3> QED
        BY <2>6, <3>1, <3>2, <3>3 DEF Has
    <2>8. queue' = {new[r] : r \in {q \in Tracked : new[q] # store[q]}}
      BY <1>2 DEF Prepare
    <2> HIDE DEF new
    <2>9. ASSUME NEW inv \in queue', inv.index = s PROVE inv = new[s]
      BY <2>5, <2>8, <2>9
    <2>10. new[s] \in queue' \/ new[s] = store[s]
      BY <2>1, <2>8
    <2> QED
      BY <2>1, <2>5, <2>7, <2>9, <2>10 DEF Queued, Has
  <1>3. CASE Save /\ Scan
    <2>1. t \in Owed(s) /\ s \in Tracked /\ step = "save" /\ lost = {}
      BY <1>3, OwedBefore DEF Save, Scan, RunPool
    <2>2. Queued(s, t)
      BY <2>1 DEF Carried
    <2>3. PICK inv \in queue :
            /\ store' = IF inv.index \in Tracked
                           /\ store[inv.index].creation_height = inv.creation_height
                        THEN [store EXCEPT ![inv.index] = inv] ELSE store
            /\ queue' = queue \ {inv}
      BY <1>3 DEF Save
    <2>4. CASE inv.index = s
      <3>1. Has(inv, t) /\ inv.creation_height = store[s].creation_height
        BY <2>2, <2>4 DEF Queued
      <3>2. store'[s] = inv
        BY <2>1, <2>3, <2>4, <3>1 DEF Tracked
      <3> QED
        BY <2>2, <2>3, <3>1, <3>2 DEF Queued, Has
    <2>5. CASE inv.index # s
      <3>1. store'[s] = store[s]
        BY <2>1, <2>3, <2>5 DEF Tracked
      <3> QED
        BY <2>2, <2>3, <2>5, <3>1 DEF Queued, Has
    <2> QED
      BY <2>4, <2>5
  <1>4. Quiet \/ Prepare \/ (Save /\ Scan)
    BY DEF Quiet, Next, OpenScanner, Opening, Start, OpenPool, FillCache, Opened,
       Scan, ScanStep, BeginScan, RunCache, BeginPool, RunPool, ScanBlocks, ScanTxpool, Flush,
       FailScan, Failure, CachesFail, ScanBlocksFail, StoreFail, SaveFail, OpenFail,
       EndScanner, Stop, Crash, Discard, scanner
  <1> QED
    BY <1>1, <1>2, <1>3, <1>4

LEMMA CarriedToIdle ==
  ASSUME IInv, [Next]_<<vars, ghosts>>, step' = "idle", ~ first_scan', lost' = {}, ~ split',
         NEW s \in Tracked', NEW t \in Owed(s)'
  PROVE  Has(store'[s], t)
  <1> USE DEF IInv
  <1>1. CASE Quiet
    BY <1>1, QuietSteps DEF Carried, scanner
  <1>2. CASE Flush /\ Scan
    <2>1. t \in Owed(s) /\ s \in Tracked /\ step = "save" /\ queue = {} /\ lost = {} /\ store' = store
      BY <1>2, OwedBefore DEF Flush, Scan, RunPool
    <2> QED
      BY <2>1 DEF Carried, Queued
  <1>3. CASE ScanTxpool /\ Scan
    BY <1>3 DEF ScanTxpool, Scan, TypeInv, ScanInv, Control, Carried
  <1>4. CASE Opened
    BY <1>4 DEF Opened, Carried
  <1>5. CASE FailScan
    BY <1>5 DEF FailScan
  <1>6. Quiet \/ (Flush /\ Scan) \/ (ScanTxpool /\ Scan) \/ Opened \/ FailScan
    BY DEF Quiet, Next, OpenScanner, Opening, Start, OpenPool, FillCache,
       Scan, ScanStep, BeginScan, RunCache, BeginPool, RunPool, ScanBlocks, Prepare, Save,
       EndScanner, Stop, Crash, Discard, scanner
  <1> QED
    BY <1>1, <1>2, <1>3, <1>4, <1>5, <1>6

LEMMA FlagsStep ==
  ASSUME IInv, [Next]_<<vars, ghosts>>
  PROVE  (step' = "open" => first_scan') /\ (step' = "only_txpool" => split')
  <1> USE DEF IInv, Carried
  <1>1. CASE Quiet
    BY <1>1, QuietSteps DEF scanner
  <1>2. CASE OpenScanner
    BY <1>2 DEF OpenScanner, Opening, Start, OpenPool, FillCache, Opened, scanner
  <1>3. CASE Scan
    BY <1>3 DEF Scan, ScanStep, BeginScan, RunCache, BeginPool, RunPool, ScanBlocks, ScanTxpool,
       Prepare, Save, Flush, scanner
  <1>4. CASE FailScan
    BY <1>4 DEF FailScan, Failure, CachesFail, ScanBlocksFail, StoreFail, SaveFail, OpenFail,
       Discard
  <1>5. CASE EndScanner
    BY <1>5 DEF EndScanner, Stop, Crash, Discard
  <1> QED
    BY <1>1, <1>2, <1>3, <1>4, <1>5 DEF Quiet, Next

LEMMA CarriedStep == IInv /\ [Next]_<<vars, ghosts>> => Carried'
  <1> SUFFICES ASSUME IInv, [Next]_<<vars, ghosts>> PROVE Carried'
    OBVIOUS
  <1>1. step' = "prepare" =>
          \A s \in Tracked' : \A t \in Owed(s)' : Credit(t, s) \in ToSet(found')
    BY CarriedToPrepare
  <1>2. step' = "save" /\ lost' = {} =>
          \A s \in Tracked' : \A t \in Owed(s)' : Queued(s, t)'
    BY CarriedToSave
  <1>3. step' = "idle" /\ ~first_scan' /\ lost' = {} /\ ~split' =>
          \A s \in Tracked' : \A t \in Owed(s)' : Has(store'[s], t)
    BY CarriedToIdle
  <1>4. (step' = "open" => first_scan') /\ (step' = "only_txpool" => split')
    BY FlagsStep
  <1> QED
    BY <1>1, <1>2, <1>3, <1>4 DEF Carried, Credit, Has
------------------------------------------------------------------------------
LEMMA Inductive == Spec => []IInv
  <1>1. Init => IInv
    <2> SUFFICES ASSUME Init PROVE IInv
      OBVIOUS
    <2>1. TypeInv
      BY TypesInit
    <2>2. Known
      BY DEF Init, ScannerInit, MonerodInit, TxpoolInit, Known
    <2>3. Remembered /\ Carried
      BY DEF Init, ScannerInit, EmptyStore, Tracked, Remembered, Carried
    <2> QED
      BY <2>1, <2>2, <2>3 DEF IInv
  <1>2. IInv /\ [Next]_<<vars, ghosts>> => IInv'
    BY TypesStep, KnownStep, RememberedStep, CarriedStep DEF IInv
  <1> QED
    BY <1>1, <1>2, PTL DEF Spec

(***************************************************************************)
(* The types of the scanner's state.                                       *)
(***************************************************************************)
THEOREM ScannerTypes == Spec => []TypeOK
  <1>1. IInv => TypeOK
    BY DEF IInv, TypeInv, CacheInv, PoolInv, PoolSets, StoreInv, ScanInv, TypeOK
  <1> QED
    BY <1>1, Inductive, PTL

\* A transaction has one amount for an invoice: its first owned output is what
\* the scanner credits (scanner.rs:372).
OneAmount == \A t \in Tx, s \in Sub : Pays(t, s) => AmountTo(t, s) = Outs[t][1].amount

\* Counting a transfer is looking for it.
LEMMA Counted ==
  ASSUME StoreInv, NEW s \in Tracked, NEW amount, NEW h
  PROVE  /\ Count(s, amount, h) \in Nat
         /\ Count(s, amount, h) = 0 <=> Transfer(amount, h) \notin ToSet(store[s].transfers)
  <1> DEFINE tr == Transfer(amount, h)
             at == {n \in DOMAIN store[s].transfers : store[s].transfers[n] = tr}
  <1>1. tr \in ToSet(store[s].transfers) <=> at # {}
    BY DEF ToSet
  <1>2. IsFiniteSet(at)
    <2>1. store[s].transfers \in Seq(TransferType)
      BY DEF StoreInv, InvoiceType
    <2>2. DOMAIN store[s].transfers = 1 .. Len(store[s].transfers)
          /\ Len(store[s].transfers) \in Nat
      BY <2>1
    <2>3. IsFiniteSet(1 .. Len(store[s].transfers))
      BY <2>2, FS_Interval
    <2>4. at \subseteq 1 .. Len(store[s].transfers)
      BY <2>2
    <2> HIDE DEF at
    <2> QED
      BY <2>3, <2>4, FS_Subset
  <1>3. Count(s, amount, h) = Cardinality(at)
    BY DEF Count
  <1> HIDE DEF at, tr
  <1>4. Cardinality(at) \in Nat /\ (Cardinality(at) = 0 <=> at = {})
    BY <1>2, FS_CardinalityType, FS_EmptySet
  <1> QED
    BY <1>1, <1>3, <1>4 DEF tr

(***************************************************************************)
(* A payment that is in the pool, and that has been looked at since the    *)
(* invoice was stored, is shown by the invoice after every scan that was   *)
(* completed, whatever failed before it, wherever the daemon has moved and *)
(* whoever has changed the store in the meantime.  The hypothesis is that  *)
(* a transaction has one amount for an invoice: its first owned output is  *)
(* what the scanner credits (scanner.rs:372).                              *)
(***************************************************************************)
THEOREM PoolPaymentsAreShown ==
  ASSUME OneAmount
  PROVE  Spec => []PoolPaymentShown
  <1>1. IInv => PoolPaymentShown
    <2> SUFFICES ASSUME IInv, step = "idle", ~ first_scan, lost = {}, ~ split,
                        NEW s \in Tracked, NEW t \in transactions \ (earlier[s] \cup missed),
                        Pays(t, s)
                 PROVE  Count(s, AmountTo(t, s), NoHeight) >= 1
      BY DEF PoolPaymentShown
    <2>1. t \in Owed(s)
      BY DEF Owed
    <2>2. Has(store[s], t)
      BY <2>1 DEF IInv, Carried
    <2>3. t \in Tx /\ s \in Sub /\ store[s] \in InvoiceType(Sub)
      BY DEF IInv, TypeInv, PoolInv, StoreInv
    <2>4. AmountTo(t, s) = Outs[t][1].amount
      BY <2>3, OneAmount DEF OneAmount
    <2>5. Transfer(AmountTo(t, s), NoHeight) \in ToSet(store[s].transfers)
      BY <2>2, <2>4 DEF Has
    <2> QED
      BY <2>5, Counted DEF IInv, TypeInv
  <1> QED
    BY <1>1, Inductive, PTL
==============================================================================
