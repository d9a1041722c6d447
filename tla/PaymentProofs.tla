---------------------------- MODULE PaymentProofs ----------------------------
(***************************************************************************)
(* That no payment is passed over, made up or counted in pool and block,   *)
(* and that confirmed and expired invoices are rightly so, for every       *)
(* daemon, every window size and every number of invoices.  Of the         *)
(* invariant of the first, PayInv, the greater part is about states in     *)
(* which nothing has been lost:                                            *)
(*   Anchored   how the window lies on the daemon's chain, by phase;       *)
(*   Safe       what an invoice shows of the chain below any window that   *)
(*              a scanner may resume with;                                 *)
(*   Paid       what it shows below the window and of its cells, by phase; *)
(*   Scanned    what the scan has found in the cells, and how it is saved. *)
(* The others have invariants of their own, which stand where they are     *)
(* used: OnceInv and GenuineInv (what is shown was paid, once), Booked     *)
(* (the sums and the order that confirmation and expiry are reckoned       *)
(* from), PoolInvs (the pool against the chain).                           *)
(***************************************************************************)
EXTENDS ScannerProofs

Bottom == height - CacheSize + 1
OnCells(n) == \A k \in Cells : k < n => On(chain, blocks[k], height - k)
OnBottom == On(chain, blocks[CacheSize - 1], Bottom)
Links == 0 .. CacheSize - 2
AllLinked == \A k \in Links : Linked(k)

\* A block that is not on the daemon's chain any more may still be in a cell.
CellsKnown == \A k \in Cells : blocks[k] \in Block => TxsOf[blocks[k]] \subseteq ever

\* The running procedure has touched nothing yet.
Untouched == updated = 0 /\ fixed = 0

Counters ==
  /\ phase \in {"down", "init", "idle", "failed"} \cup Asking => Untouched /\ tip = 0
  /\ phase = "done" => fixed = 0 /\ tip = 0
  /\ phase = "skip" => fixed = 0 /\ tip > height /\ (updated > 0 => tip - next = height + 1)
  /\ phase = "fix" /\ tip = 0 => updated <= 1
  /\ phase = "fix" /\ tip > 0 => updated > 0 /\ height = tip - 1

\* The walk repairs cells from the top on, without a gap.
Walking ==
  /\ \A k \in Links : k > next => Linked(k)
  /\ \/ next < CacheSize - 1 /\ Linked(next)
     \/ fixed = next + 1
     \/ next = 0 /\ fixed = 0
     \/ next = CacheSize - 1

Anchored ==
  /\ phase = "init" =>
       OnCells(next) /\ ((height = MaxU64 /\ next = 0) \/ Bottom < Len(chain))
  /\ phase \in Resting \cup Asking => OnBottom /\ AllLinked
  /\ phase = "skip" => OnCells(updated) /\ (updated = 0 => OnBottom /\ AllLinked)
  /\ phase = "fix" /\ updated = 0 => fixed = 0 /\ OnBottom /\ AllLinked
  /\ phase = "fix" /\ updated > 0 => OnCells(next + 1)
  /\ phase = "fix" /\ updated = 1 /\ tip = 0 => Walking
  /\ phase \in {"skip", "fix"} => tip <= Len(chain)

\* What an invoice must show of the block b, but for the transactions in old.
Payment(t, h) == Transfer(Outs[t][1].amount, h)
Due(s, old, b) == {t \in TxsOf[b] \ old : Pays(t, s)}
Shown(inv, due, h) ==
  inv.creation_height > 0 /\ h >= inv.creation_height =>
    \A t \in due : Payment(t, h) \in ToSet(inv.transfers)

\* inv shows the payments to s in the chain c up to the height n.
Clear(inv, s, old, c, n) ==
  n < Len(c) /\ \A h \in 0 .. n : Shown(inv, Due(s, old, c[h + 1]), h)
ClearTo(s, n) == Clear(store[s], s, earlier[s], chain, n)

\* inv shows the payments to s in the cells from n on.
CellsShown(inv, s, old, bs, top, n) ==
  \A k \in Cells : k >= n => Shown(inv, Due(s, old, bs[k]), top - k)

Safe == \A s \in Tracked : ClearTo(s, store[s].current_height - CacheSize)

\* The invoice of s is younger than everything that a skip can come to.
Fresh(s) ==
  /\ \A i \in 1 .. tip : TxsOf[chain[i]] \subseteq earlier[s]
  /\ \A k \in Cells : TxsOf[blocks[k]] \subseteq earlier[s]

Shows(s) ==
  /\ ClearTo(s, height - CacheSize)
  /\ updated = 0 => ClearTo(s, Bottom)
  /\ ~first_scan /\ step # "prepare" =>
       CellsShown(store[s], s, earlier[s], blocks, height, Max2(updated, fixed))

Paid ==
  /\ phase = "init" =>
       (height = MaxU64 /\ next = 0) \/ \A s \in Tracked : ClearTo(s, Bottom)
  /\ phase \in {"skip", "fix"} /\ tip > 0 => \A s \in Tracked : Fresh(s)
  /\ (\/ phase \in Resting \cup Asking /\ step # "save"
      \/ phase = "fix" /\ tip = 0)
     => \A s \in Tracked : Shows(s)

InFound(s, k) ==
  \A t \in Due(s, earlier[s], blocks[k]) : Finding(t, s, height - k) \in ToSet(found)

\* inv is up to date with the window.
Full(inv, s) ==
  /\ Clear(inv, s, earlier[s], chain, Bottom)
  /\ CellsShown(inv, s, earlier[s], blocks, height, 0)

For(inv, s) == inv.index = s /\ inv.creation_height = store[s].creation_height

Scanned ==
  /\ step = "only_txpool" =>
       /\ ~first_scan => updated = 0
       /\ \A s \in Tracked : ClearTo(s, Bottom)
  /\ step = "scan_txpool" =>
       \A s \in Tracked, k \in Cells :
         k < (IF first_scan THEN CacheSize ELSE updated) => InFound(s, k)
  /\ step = "prepare" =>
       \A s \in Tracked, k \in Cells :
         \/ InFound(s, k)
         \/ k >= updated /\ Shown(store[s], Due(s, earlier[s], blocks[k]), height - k)
  /\ step = "save" =>
       \A s \in Tracked :
         /\ \A inv \in queue : For(inv, s) => Full(inv, s)
         /\ (\E inv \in queue : For(inv, s)) \/ Full(store[s], s)

Queue ==
  /\ \A inv \in creating : inv.current_height = 0
  /\ step = "save" => \A inv \in queue : inv.current_height = height + 1
                        /\ \A other \in queue : inv.index = other.index => inv = other

PayInv ==
  /\ CellsKnown /\ Counters /\ Queue
  /\ lost = {} => Anchored /\ Safe /\ Paid /\ Scanned
------------------------------------------------------------------------------
(***************************************************************************)
(* Facts about chains.                                                     *)
(***************************************************************************)
\* Blocks of one chain at neighbouring heights are linked.
LEMMA Parents ==
  ASSUME NEW c \in Chains, NEW h \in Int, NEW a, NEW b, On(c, a, h), On(c, b, h - 1)
  PROVE  Prev[a] = b
  <1>1. h \in 1 .. Len(c) - 1 /\ c[h + 1] = a /\ c[h] = b
    BY ChainBlocks DEF On
  <1>2. Prev[c[h + 1]] = c[h]
    BY <1>1, MonerodAssumption DEF ChainAssumption
  <1> QED
    BY <1>1, <1>2

LEMMA ParentOn ==
  ASSUME chain \in Chains, NEW h \in Int, h >= 1, NEW a, On(chain, a, h)
  PROVE  On(chain, Prev[a], h - 1)
  <1>1. h \in 1 .. Len(chain) - 1 /\ chain[h + 1] = a
    BY ChainBlocks DEF On
  <1>2. Prev[chain[h + 1]] = chain[h]
    BY <1>1, MonerodAssumption DEF ChainAssumption
  <1>3. h - 1 \in 0 .. Len(chain) - 1 /\ (h - 1) + 1 = h
    BY <1>1, ChainBlocks
  <1> QED
    BY <1>1, <1>2, <1>3 DEF On

\* A window that is on the chain is linked.
LEMMA OnIsLinked ==
  ASSUME NEW c \in Chains, NEW h \in Nat, NEW bs, h >= CacheSize - 1,
         \A k \in Cells : On(c, bs[k], h - k)
  PROVE  /\ On(c, bs[CacheSize - 1], h - CacheSize + 1)
         /\ \A k \in Links : Prev[bs[k]] = bs[k + 1]
  <1>1. On(c, bs[CacheSize - 1], h - CacheSize + 1)
    <2>1. CacheSize - 1 \in Cells /\ h - (CacheSize - 1) = h - CacheSize + 1
      BY CellsFacts DEF Cells
    <2>2. On(c, bs[CacheSize - 1], h - (CacheSize - 1))
      BY <2>1
    <2> QED
      BY <2>1, <2>2
  <1>2. ASSUME NEW k \in Links PROVE Prev[bs[k]] = bs[k + 1]
    <2>1. k \in Cells /\ k + 1 \in Cells /\ h - k \in Int /\ h - (k + 1) = (h - k) - 1
      BY CellsFacts DEF Links, Cells
    <2>2. On(c, bs[k], h - k) /\ On(c, bs[k + 1], h - (k + 1))
      BY <2>1
    <2>3. On(c, bs[k + 1], (h - k) - 1)
      BY <2>1, <2>2
    <2> QED
      BY <2>1, <2>2, <2>3, Parents
  <1> QED
    BY <1>1, <1>2

LEMMA CountersOps ==
  ASSUME CacheInv, Counters,
         \/ CacheStep \/ RpcFail \/ (Dispose /\ phase = "done") \/ UNCHANGED cache
         \/ \E proc \in {"update", "skip_ahead"} : Call(proc)
         \/ \E h \in Nat : Open(h, Len(chain))
         \/ Discard
  PROVE  Counters'
  <1> USE CellsFacts DEF CacheInv, CacheTypeOK, Window, Counters, Untouched,
          Phases, Requesting, Asking, Resting
  <1>1. CASE InitFetch
    BY <1>1 DEF InitFetch
  <1>2. CASE UpdateTip
    BY <1>2 DEF UpdateTip, locals
  <1>3. CASE UpdateFetch
    BY <1>3 DEF UpdateFetch
  <1>4. CASE SkipTip
    BY <1>4, ChainBlocks DEF SkipTip, Min2, MonerodTypeOK
  <1>5. CASE SkipFetch
    BY <1>5 DEF SkipFetch
  <1>6. CASE Check
    BY <1>6 DEF Check, window
  <1>7. CASE Repair
    BY <1>7 DEF Repair, Max2
  <1>8. CASE Return
    BY <1>8 DEF Return, window, Max2
  <1>9. CASE RpcFail
    BY <1>9 DEF RpcFail
  <1>10. CASE Dispose /\ phase = "done"
    BY <1>10 DEF Dispose, window
  <1>11. CASE UNCHANGED cache
    BY <1>11 DEF cache, window, locals
  <1>12. CASE \E proc \in {"update", "skip_ahead"} : Call(proc)
    BY <1>12 DEF Call, window
  <1>13. CASE \E h \in Nat : Open(h, Len(chain))
    BY <1>13 DEF Open
  <1>14. CASE Discard
    BY <1>14 DEF Discard
  <1> QED
    BY <1>1, <1>2, <1>3, <1>4, <1>5, <1>6, <1>7, <1>8, <1>9, <1>10, <1>11, <1>12, <1>13, <1>14
       DEF CacheStep

\* What the procedures and their callers do to a window while the daemon rests.
LEMMA AnchoredOps ==
  ASSUME CacheInv, CacheInv', Counters, Anchored, UNCHANGED monerod,
         \/ CacheStep \/ (Dispose /\ phase = "done") \/ UNCHANGED cache \/ Discard
         \/ RpcFail /\ (phase = "init" \/ Untouched)
         \/ \E proc \in {"update", "skip_ahead"} : Call(proc)
         \/ \E h \in Nat : Open(h, Len(chain)) /\ (h = MaxU64 \/ h - CacheSize + 1 < Len(chain))
  PROVE  Anchored'
  <1> USE CellsFacts
  <1>0. /\ chain' = chain /\ chain \in Chains /\ Len(chain) \in Nat
        /\ height \in Nat /\ next \in Nat /\ updated \in Nat /\ fixed \in Nat /\ tip \in Nat
        /\ phase \in Phases
    BY ChainBlocks DEF monerod, CacheInv, MonerodTypeOK, CacheTypeOK
  <1>1. ASSUME UNCHANGED <<blocks, height>>
        PROVE  /\ OnBottom' <=> OnBottom
               /\ AllLinked' <=> AllLinked
               /\ \A n : OnCells(n)' <=> OnCells(n)
    BY <1>0, <1>1 DEF OnBottom, Bottom, AllLinked, OnCells, Linked
  <1> USE DEF Phases, Requesting, Asking, Resting
  <1>2. CASE InitFetch
    <2>1. phase = "init" /\ next < CacheSize /\ OnCells(next) /\ HasBlock(height - next)
      BY <1>2 DEF InitFetch, Anchored, CacheInv, Window
    <2>2. blocks' = [blocks EXCEPT ![next] = BlockAt(height - next)] /\ height' = height
      BY <1>2 DEF InitFetch
    <2>3. \A k \in Cells : k < next + 1 => On(chain', blocks'[k], height' - k)
      BY <1>0, <2>1, <2>2 DEF OnCells, On, HasBlock, BlockAt, Cells, CacheInv, CacheTypeOK
    <2>4. ~ (height = MaxU64 /\ next = 0)
      BY <1>0, <2>1, ScannerAssumption DEF HasBlock
    <2>5. CASE next + 1 = CacheSize
      <3>1. \A k \in Cells : On(chain', blocks'[k], height' - k)
        BY <2>3, <2>5 DEF Cells
      <3>2. height' >= CacheSize - 1 /\ height' \in Nat
        BY <1>0, <1>2, <2>2, <2>5 DEF CacheInv, Window, InitFetch
      <3>3. OnBottom' /\ AllLinked'
        BY <1>0, <3>1, <3>2, OnIsLinked DEF OnBottom, Bottom, AllLinked, Linked
      <3> QED
        BY <1>2, <2>5, <3>3 DEF InitFetch, Anchored
    <2>6. CASE next + 1 # CacheSize
      BY <1>0, <1>2, <2>1, <2>2, <2>3, <2>4, <2>6 DEF InitFetch, Anchored, OnCells, Bottom
    <2> QED
      BY <2>5, <2>6
  <1>3. CASE UpdateTip
    BY <1>0, <1>1, <1>3 DEF UpdateTip, locals, Anchored, CacheInv, Window, Counters, Untouched
  <1>4. CASE UpdateFetch
    <2>1. phase = "fetch" /\ HasBlock(height + 1) /\ AllLinked /\ updated = 0 /\ next = 0 /\ fixed = 0
          /\ tip = 0
      BY <1>4 DEF UpdateFetch, Anchored, Counters, Untouched, CacheInv, Window
    <2>2. blocks' = Push(BlockAt(height + 1)) /\ height' = height + 1 /\ updated' = 1
          /\ UNCHANGED <<next, fixed, tip>> /\ phase' = "fix"
      BY <1>4, <2>1 DEF UpdateFetch
    <2>3. OnCells(1)'
      BY <1>0, <2>1, <2>2 DEF OnCells, On, HasBlock, BlockAt, Push, Cells
    <2>4. ASSUME NEW k \in Links, k > 0 PROVE Linked(k)'
      <3>1. k - 1 \in Links /\ k \in Cells /\ k + 1 \in Cells /\ k # 0 /\ k + 1 # 0
        BY <2>4 DEF Links, Cells
      <3>2. blocks'[k] = blocks[k - 1] /\ blocks'[k + 1] = blocks[(k - 1) + 1]
        BY <2>2, <3>1 DEF Push, Links
      <3> QED
        BY <2>1, <3>1, <3>2 DEF AllLinked, Linked
    <2> QED
      BY <1>0, <2>1, <2>2, <2>3, <2>4 DEF Anchored, Walking
  <1>5. CASE SkipTip
    BY <1>0, <1>1, <1>5 DEF SkipTip, Anchored, OnCells, Cells, CacheInv, Window, Counters, Untouched
  <1>6. CASE SkipFetch
    <2>1. /\ phase = "skip" /\ HasBlock(tip - next) /\ OnCells(updated) /\ tip <= Len(chain)
          /\ tip > height /\ (updated > 0 => tip - next = height + 1)
      BY <1>6 DEF SkipFetch, Anchored, Counters
    <2>2. /\ blocks' = Push(BlockAt(tip - next)) /\ height' = tip - next /\ updated' = updated + 1
          /\ next' = next - 1 /\ tip' = tip
          /\ phase' = IF next = 1 THEN "fix" ELSE "skip"
      BY <1>6 DEF SkipFetch
    <2>3. ASSUME NEW k \in Cells, k < updated + 1 PROVE On(chain', blocks'[k], height' - k)
      <3>1. CASE k = 0
        BY <1>0, <2>1, <2>2, <3>1 DEF On, HasBlock, BlockAt, Push, Cells
      <3>2. CASE k # 0
        <4>1. k - 1 \in Cells /\ k - 1 < updated /\ updated > 0
          BY <1>0, <2>3, <3>2 DEF Cells
        <4>2. On(chain, blocks[k - 1], height - (k - 1))
          BY <2>1, <4>1 DEF OnCells
        <4>3. blocks'[k] = blocks[k - 1] /\ height' - k = height - (k - 1)
          BY <1>0, <2>1, <2>2, <3>2, <4>1 DEF Push, Cells
        <4> QED
          BY <1>0, <4>2, <4>3
      <3> QED
        BY <3>1, <3>2
    <2>4. \A k \in Cells : k < updated' => On(chain', blocks'[k], height' - k)
      BY <2>2, <2>3
    <2>5. CASE next = 1
      <3>1. \A k \in Cells : k < next' + 1 => On(chain', blocks'[k], height' - k)
        BY <1>0, <2>2, <2>3, <2>5 DEF Cells
      <3> QED
        BY <1>0, <2>1, <2>2, <2>5, <3>1 DEF Anchored, OnCells
    <2>6. CASE next # 1
      BY <1>0, <2>1, <2>2, <2>4, <2>6 DEF Anchored, OnCells
    <2> QED
      BY <2>5, <2>6
  <1>7. CASE Check
    <2>1. /\ phase = "fix" /\ next < CacheSize - 1 /\ Linked(next) /\ next' = next + 1
          /\ UNCHANGED <<blocks, height, phase, tip, updated, fixed>>
      BY <1>7 DEF Check, window
    <2>2. CASE updated = 0
      BY <1>0, <1>1, <2>1, <2>2 DEF Anchored
    <2>3. CASE updated > 0
      <3>1. OnCells(next + 1) /\ tip <= Len(chain)
        BY <1>0, <2>1, <2>3 DEF Anchored
      <3>2. next \in Cells /\ next + 1 \in Cells /\ height - next \in Int /\ height - next >= 1
            /\ height - (next + 1) = (height - next) - 1
        BY <1>0, <2>1 DEF Cells, CacheInv, Window
      <3>3. On(chain, blocks[next], height - next)
        BY <1>0, <3>1, <3>2 DEF OnCells
      <3>4. On(chain, blocks[next + 1], height - (next + 1))
        BY <1>0, <2>1, <3>2, <3>3, ParentOn DEF Linked
      <3>5. \A k \in Cells : k < next + 2 => On(chain, blocks[k], height - k)
        BY <1>0, <3>1, <3>4 DEF OnCells, Cells
      <3>6. \A k \in Cells : k < next' + 1 => On(chain', blocks'[k], height' - k)
        BY <1>0, <2>1, <3>5
      <3>7. updated = 1 /\ tip = 0 => Walking'
        BY <1>0, <2>1 DEF Anchored, Walking, Linked, Links
      <3> QED
        BY <1>0, <2>1, <2>3, <3>1, <3>6, <3>7 DEF Anchored, OnCells
    <2> QED
      BY <1>0, <2>2, <2>3
  <1>8. CASE Repair
    <2>1. /\ phase = "fix" /\ next < CacheSize - 1 /\ ~ Linked(next) /\ next' = next + 1
          /\ HasBlock(height - 1 - next)
          /\ blocks' = [blocks EXCEPT ![next + 1] = BlockAt(height - 1 - next)]
          /\ fixed' = Max2(fixed, 1) + 1
          /\ UNCHANGED <<height, phase, tip, updated>>
      BY <1>8 DEF Repair
    <2>2. updated > 0
      <3>1. next \in Links
        BY <1>0, <2>1 DEF Links
      <3> QED
        BY <1>0, <2>1, <3>1 DEF Anchored, AllLinked
    <2>3. OnCells(next + 1) /\ tip <= Len(chain)
      BY <1>0, <2>1, <2>2 DEF Anchored
    <2>4. \A k \in Cells : k < next + 2 => On(chain, blocks'[k], height - k)
      <3> TAKE k \in Cells
      <3> HAVE k < next + 2
      <3>1. CASE k = next + 1
        <4>1. blocks'[k] = BlockAt(height - 1 - next) /\ height - k = height - 1 - next
          BY <1>0, <2>1, <3>1 DEF CacheInv, CacheTypeOK
        <4> QED
          BY <1>0, <2>1, <4>1 DEF On, HasBlock, BlockAt
      <3>2. CASE k # next + 1
        <4>1. k < next + 1 /\ blocks'[k] = blocks[k]
          BY <1>0, <2>1, <3>2 DEF Cells, CacheInv, CacheTypeOK
        <4> QED
          BY <2>3, <4>1 DEF OnCells
      <3> QED
        BY <3>1, <3>2
    <2>5. \A k \in Cells : k < next' + 1 => On(chain', blocks'[k], height' - k)
      BY <1>0, <2>1, <2>4
    <2>6. ASSUME updated = 1, tip = 0 PROVE Walking'
      <3>1. Walking
        BY <2>1, <2>6 DEF Anchored
      <3>2. fixed' = next + 2
        BY <1>0, <2>1, <3>1 DEF Walking, Max2
      <3>3. \A k \in Links : k > next + 1 => blocks'[k] = blocks[k] /\ blocks'[k + 1] = blocks[k + 1]
        BY <1>0, <2>1 DEF Links, Cells, CacheInv, CacheTypeOK
      <3>4. \A k \in Links : k > next + 1 => Linked(k)
        BY <1>0, <3>1 DEF Walking, Links
      <3>5. \A k \in Links : k > next' => Prev[blocks'[k]] = blocks'[k + 1]
        BY <2>1, <3>3, <3>4 DEF Linked
      <3>6. fixed' = next' + 1
        BY <1>0, <2>1, <3>2
      <3> QED
        BY <3>5, <3>6 DEF Walking, Linked
    <2> QED
      BY <1>0, <2>1, <2>2, <2>3, <2>5, <2>6 DEF Anchored, OnCells
  <1>9. CASE Return
    <2>1. /\ phase = "fix" /\ next = CacheSize - 1 /\ phase' = "done"
          /\ UNCHANGED <<blocks, height>>
      BY <1>9 DEF Return, window
    <2>2. OnBottom /\ AllLinked
      <3>1. CASE updated = 0
        BY <2>1, <3>1 DEF Anchored
      <3>2. CASE updated > 0
        <4>1. \A k \in Cells : On(chain, blocks[k], height - k)
          BY <1>0, <2>1, <3>2 DEF Anchored, OnCells, Cells
        <4>2. height >= CacheSize - 1
          BY <2>1 DEF CacheInv, Window
        <4> QED
          BY <1>0, <4>1, <4>2, OnIsLinked DEF OnBottom, Bottom, AllLinked, Linked
      <3> QED
        BY <1>0, <3>1, <3>2
    <2> QED
      BY <1>1, <2>1, <2>2 DEF Anchored
  <1>10. CASE RpcFail /\ (phase = "init" \/ Untouched)
    <2>1. CASE phase = "init"
      BY <1>10, <2>1 DEF RpcFail, Anchored
    <2>2. CASE phase # "init"
      <3>1. UNCHANGED <<blocks, height>> /\ phase' = "failed" /\ updated = 0 /\ phase \in Requesting
        BY <1>10, <2>2 DEF RpcFail, Untouched
      <3>2. OnBottom /\ AllLinked
        BY <2>2, <3>1 DEF Anchored
      <3> QED
        BY <1>1, <3>1, <3>2 DEF Anchored
    <2> QED
      BY <2>1, <2>2
  <1>11. CASE Dispose /\ phase = "done"
    BY <1>1, <1>11 DEF Dispose, window, Anchored
  <1>12. CASE UNCHANGED cache
    BY <1>0, <1>1, <1>12 DEF cache, window, locals, Anchored, OnCells, Bottom, Walking, Linked
  <1>13. CASE \E proc \in {"update", "skip_ahead"} : Call(proc)
    BY <1>1, <1>13 DEF Call, window, Anchored
  <1>14. CASE \E h \in Nat : Open(h, Len(chain)) /\ (h = MaxU64 \/ h - CacheSize + 1 < Len(chain))
    BY <1>0, <1>14 DEF Open, Anchored, OnCells, Bottom, Cells
  <1>15. CASE Discard
    BY <1>15 DEF Discard, Anchored
  <1> QED
    BY <1>2, <1>3, <1>4, <1>5, <1>6, <1>7, <1>8, <1>9, <1>10, <1>11, <1>12, <1>13, <1>14, <1>15
       DEF CacheStep
------------------------------------------------------------------------------
(***************************************************************************)
(* What a step does to the window.                                         *)
(***************************************************************************)
\* A step is the daemon's, or the daemon rests and the window changes by an
\* operation of the block cache.
LEMMA CacheMoves ==
  ASSUME TypeInv, [Next]_<<vars, ghosts>>
  PROVE  \/ MoveDaemon /\ UNCHANGED cache
         \/ /\ UNCHANGED monerod
            /\ \/ CacheStep \/ (Dispose /\ phase = "done") \/ UNCHANGED cache \/ Discard
               \/ RpcFail /\ FailScan /\ step = "blocks"
               \/ \E proc \in {"update", "skip_ahead"} : Call(proc)
               \/ OpenScanner /\ Start
  <1> USE DEF TypeInv, ScanInv, Control
  <1>1. CASE MoveDaemon
    BY <1>1 DEF MoveDaemon, Daemon
  <1>2. CASE CallApi
    BY <1>2 DEF CallApi, Api, NewInvoice, InsertInvoice, RemoveInvoice
  <1>3. CASE OpenScanner
    BY <1>3 DEF OpenScanner, Opening, Start, OpenPool, FillCache, Opened, CacheStep
  <1>4. CASE Scan
    BY <1>4 DEF Scan, ScanStep, BeginScan, RunCache, BeginPool, RunPool, ScanBlocks, ScanTxpool,
       Prepare, Save, Flush
  <1>5. CASE FailScan
    BY <1>5 DEF FailScan, Failure, CachesFail, ScanBlocksFail, StoreFail, SaveFail, OpenFail,
       Discard
  <1>6. CASE EndScanner
    BY <1>6 DEF EndScanner, Stop, Crash, Discard
  <1>7. CASE UNCHANGED <<vars, ghosts>>
    BY <1>7 DEF vars
  <1> QED
    BY <1>1, <1>2, <1>3, <1>4, <1>5, <1>6, <1>7 DEF Next

LEMMA CountersStep == TypeInv /\ Counters /\ [Next]_<<vars, ghosts>> => Counters'
  <1> SUFFICES ASSUME TypeInv, Counters, [Next]_<<vars, ghosts>> PROVE Counters'
    OBVIOUS
  <1>1. Start => \E h \in Nat : Open(h, Len(chain))
    BY ResumeHeight DEF Start
  <1>2. \/ CacheStep \/ RpcFail \/ (Dispose /\ phase = "done") \/ UNCHANGED cache
        \/ \E proc \in {"update", "skip_ahead"} : Call(proc)
        \/ \E h \in Nat : Open(h, Len(chain))
        \/ Discard
    BY <1>1, CacheMoves
  <1>3. CacheInv
    BY DEF TypeInv
  <1> QED
    BY <1>2, <1>3, CountersOps

LEMMA EverGrows ==
  ASSUME [Next]_<<vars, ghosts>>
  PROVE  ever \subseteq ever'
  BY DEF Next, MoveDaemon, CallApi, OpenScanner, Scan, FailScan, EndScanner, ghosts

LEMMA CellsKnownStep == TypeInv /\ Known /\ CellsKnown /\ [Next]_<<vars, ghosts>> => CellsKnown'
  <1> SUFFICES ASSUME TypeInv, Known, CellsKnown, [Next]_<<vars, ghosts>>, NEW k \in Cells,
                      blocks'[k] \in Block
               PROVE  TxsOf[blocks'[k]] \subseteq ever
    BY EverGrows DEF CellsKnown
  <1>1. ASSUME NEW h \in Int, HasBlock(h) PROVE TxsOf[BlockAt(h)] \subseteq ever
    <2>1. h + 1 \in 1 .. Len(chain) /\ BlockAt(h) = chain[h + 1]
      BY <1>1, ChainBlocks DEF HasBlock, BlockAt, TypeInv, CacheInv, MonerodTypeOK
    <2>2. TxsOf[chain[h + 1]] \subseteq ChainTxs(chain)
      BY <2>1 DEF ChainTxs
    <2> QED
      BY <2>1, <2>2 DEF Known
  <1>2. CASE \E j \in Cells : blocks'[k] = blocks[j]
    BY <1>2 DEF CellsKnown
  <1>3. CASE \E h \in Int : HasBlock(h) /\ blocks'[k] = BlockAt(h)
    BY <1>1, <1>3
  <1>4. CASE blocks'[k] = NoBlock
    BY <1>4, MonerodAssumption DEF BlockAssumption
  <1>5. /\ blocks \in [Cells -> Block \cup {NoBlock}] /\ CacheSize \in Nat
        /\ height \in Nat /\ next \in Nat /\ tip \in Nat
    BY CellsFacts DEF TypeInv, CacheInv, CacheTypeOK
  <1>6. CASE InitFetch
    BY <1>2, <1>3, <1>5, <1>6 DEF InitFetch
  <1>7. ASSUME NEW b, blocks' = Push(b), b = BlockAt(height + 1) \/ b = BlockAt(tip - next)
        PROVE  blocks'[k] = b \/ \E j \in Cells : blocks'[k] = blocks[j]
    <2>1. k # 0 => k - 1 \in Cells
      BY <1>5 DEF Cells
    <2> QED
      BY <1>7, <2>1 DEF Push
  <1>8. CASE UpdateFetch
    BY <1>2, <1>3, <1>5, <1>7, <1>8 DEF UpdateFetch
  <1>9. CASE SkipFetch
    BY <1>2, <1>3, <1>5, <1>7, <1>9 DEF SkipFetch
  <1>10. CASE Repair
    BY <1>2, <1>3, <1>5, <1>10 DEF Repair
  <1>11. CASE blocks' = blocks
    BY <1>2, <1>11
  <1>12. CASE Discard \/ blocks' = [i \in Cells |-> NoBlock]
    BY <1>4, <1>12 DEF Discard
  <1>13. \/ InitFetch \/ UpdateFetch \/ SkipFetch \/ Repair \/ blocks' = blocks
         \/ Discard \/ blocks' = [i \in Cells |-> NoBlock]
    BY CacheMoves DEF CacheStep, UpdateTip, SkipTip, Check, Return, RpcFail, Dispose, Call, Start,
       Open, cache, window
  <1> QED
    BY <1>6, <1>8, <1>9, <1>10, <1>11, <1>12, <1>13

\* A loss is forgotten only when a scanner is started without an invoice.
LEMMA LostBefore ==
  ASSUME [Next]_<<vars, ghosts>>, lost' = {}
  PROVE  lost = {} \/ (OpenScanner /\ Start /\ Tracked = {})
  BY DEF Next, MoveDaemon, CallApi, OpenScanner, Opening, Start, OpenPool, FillCache, Opened, Scan,
     FailScan, EndScanner, ghosts
------------------------------------------------------------------------------
(***************************************************************************)
(* When nothing is lost by a move of the daemon.                           *)
(***************************************************************************)
\* d has every block of c up to the height n.
Keeps(c, d, n) == n < Len(d) /\ \A h \in 0 .. n : d[h + 1] = c[h + 1]

LEMMA DaemonKeeps ==
  ASSUME TypeInv, TypeInv', MoveDaemon, lost' = {}
  PROVE  /\ lost = {} /\ chain \in Chains /\ chain' \in Chains
         /\ UNCHANGED <<cache, store, creating, first_scan, step, found, queue, earlier>>
         /\ Extends(chain', chain) \/
              /\ phase \notin {"init", "skip", "fix"}
              /\ phase # "down" => Keeps(chain, chain', Bottom)
              /\ \A s \in Tracked : Keeps(chain, chain', store[s].current_height - CacheSize)
  <1>1. /\ lost = {} /\ chain \in Chains /\ chain' \in Chains
        /\ UNCHANGED <<cache, store, creating, first_scan, step, found, queue, earlier>>
        /\ Extends(chain', chain) \/ (phase \notin {"init", "skip", "fix"} /\ ~ TooDeep(chain'))
    BY DEF MoveDaemon, Daemon, scanner, TypeInv, CacheInv, MonerodTypeOK
  <1>2. ASSUME NEW n \in Int, ~ Replaced(chain', n)
        PROVE  Keeps(chain, chain', n)
    <2>1. \A h \in 0 .. n : h < Len(chain') /\ chain'[h + 1] = chain[h + 1]
      <3>1. \A h \in 0 .. n : ~ (h >= Len(chain')) /\ On(chain, chain'[h + 1], h)
        BY <1>2 DEF Replaced
      <3>2. Len(chain') \in Nat
        BY <1>1, ChainBlocks
      <3>3. \A h \in 0 .. n : h < Len(chain')
        BY <3>1, <3>2
      <3>4. \A h \in 0 .. n : chain'[h + 1] = chain[h + 1]
        BY <3>1 DEF On
      <3> QED
        BY <3>3, <3>4
    <2>2. n < Len(chain')
      <3>1. CASE n >= 0
        BY <2>1, <3>1
      <3>2. CASE n < 0
        BY <1>1, <3>2, ChainBlocks
      <3> QED
        BY <3>1, <3>2
    <2> QED
      BY <2>1, <2>2 DEF Keeps
  <1>3. Bottom \in Int /\ \A s \in Tracked : store[s].current_height - CacheSize \in Int
    BY CellsFacts DEF TypeInv, CacheInv, CacheTypeOK, StoreInv, InvoiceType, Bottom
  <1>4. phase \notin {"down", "init", "skip", "fix"} /\ ~ TooDeep(chain') =>
          Keeps(chain, chain', Bottom)
    BY <1>2, <1>3 DEF TooDeep, Bottom
  <1>5. ~ TooDeep(chain') =>
          \A s \in Tracked : Keeps(chain, chain', store[s].current_height - CacheSize)
    BY <1>2, <1>3 DEF TooDeep
  <1> QED
    BY <1>1, <1>4, <1>5

LEMMA ExtendsKeeps ==
  ASSUME NEW c \in Chains, NEW d \in Chains, Extends(d, c)
  PROVE  /\ Len(c) <= Len(d)
         /\ \A n \in Int : n < Len(c) => Keeps(c, d, n)
         /\ \A b, h : On(c, b, h) => On(d, b, h)
  BY ChainBlocks DEF Extends, Keeps, On

LEMMA KeepsOn ==
  ASSUME NEW c \in Chains, NEW d \in Chains, NEW n \in Int, Keeps(c, d, n),
         NEW h \in Int, h <= n, NEW b, On(c, b, h)
  PROVE  On(d, b, h)
  BY ChainBlocks DEF Keeps, On

LEMMA AnchoredStep ==
  ASSUME TypeInv, Counters, [Next]_<<vars, ghosts>>, lost' = {},
         lost = {} => Anchored /\ Safe
  PROVE  Anchored'
  <1>0. TypeInv' /\ CacheInv /\ CacheInv'
    BY TypesStep DEF TypeInv
  <1>1. CASE OpenScanner /\ Start
    <2>1. PICK h \in Nat : Open(h, Len(chain)) /\ (h = MaxU64 \/ h - CacheSize + 1 < Len(chain))
      <3> DEFINE h == IF Tracked = {} THEN Len(chain) - 1 ELSE Dec(LowestHeight)
      <3>1. h \in Nat /\ Open(h, Len(chain))
        BY <1>1, ResumeHeight DEF Start
      <3>2. CASE Tracked = {}
        BY <3>1, <3>2, CellsFacts, ChainBlocks DEF TypeInv, CacheInv, MonerodTypeOK
      <3>3. CASE Tracked # {}
        <4> DEFINE heights == {store[s].current_height : s \in Tracked}
        <4>1. heights \in SUBSET Nat /\ heights # {}
          BY <3>3 DEF TypeInv, StoreInv, InvoiceType
        <4>2. LowestHeight = CHOOSE k \in heights : \A j \in heights : k <= j
          BY DEF LowestHeight
        <4>3. LowestHeight \in heights
          <5> HIDE DEF heights
          <5> QED
            BY <4>1, <4>2, Least
        <4>4. PICK s \in Tracked : LowestHeight = store[s].current_height
          BY <4>3
        <4>5. Anchored /\ Safe
          BY <1>1, <3>3, LostBefore
        <4>6. LowestHeight \in Nat /\ LowestHeight - CacheSize < Len(chain)
          BY <4>1, <4>3, <4>4, <4>5 DEF Safe, ClearTo, Clear
        <4>7. h = MaxU64 \/ h = LowestHeight - 1
          BY <3>3 DEF Dec
        <4> HIDE DEF h
        <4> QED
          BY <3>1, <4>6, <4>7, CellsFacts
      <3> QED
        BY <3>2, <3>3
    <2>2. phase' = "init" /\ next' = 0 /\ height' = h /\ chain' = chain
      BY <1>1, <2>1 DEF Open, Start, monerod
    <2> QED
      BY <2>1, <2>2, CellsFacts DEF Anchored, OnCells, Bottom, Cells, Resting, Asking
  <1>2. CASE ~ (OpenScanner /\ Start)
    <2>1. lost = {} /\ Anchored
      BY <1>2, LostBefore
    <2>2. CASE MoveDaemon
      <3>0. /\ chain \in Chains /\ chain' \in Chains
            /\ UNCHANGED <<blocks, height, phase, tip, next, updated, fixed>>
        BY <1>0, <2>2, DaemonKeeps DEF cache, window, locals
      <3>1. CASE Extends(chain', chain)
        <4>1. Len(chain) \in Nat /\ Len(chain') \in Nat /\ Len(chain) <= Len(chain')
              /\ \A b, h : On(chain, b, h) => On(chain', b, h)
          BY <3>0, <3>1, ExtendsKeeps, ChainBlocks
        <4>2. (OnBottom => OnBottom') /\ (AllLinked => AllLinked') /\ (Walking => Walking')
          BY <3>0, <4>1 DEF OnBottom, Bottom, AllLinked, Linked, Walking
        <4>3. tip \in Nat /\ height \in Nat /\ CacheSize \in Nat
          BY <1>0, CellsFacts DEF CacheInv, CacheTypeOK
        <4> QED
          BY <2>1, <3>0, <4>1, <4>2, <4>3 DEF Anchored, OnCells, Bottom
      <3>2. CASE ~ Extends(chain', chain)
        <4>1. phase \notin {"init", "skip", "fix"} /\ (phase # "down" => Keeps(chain, chain', Bottom))
          BY <1>0, <2>2, <3>2, DaemonKeeps
        <4>2. phase # "down" => phase \in Resting \cup Asking
          BY <1>0, <4>1 DEF CacheInv, CacheTypeOK, Phases, Requesting, Resting, Asking
        <4>3. Bottom \in Int
          BY <1>0, CellsFacts DEF CacheInv, CacheTypeOK, Bottom
        <4>4. phase # "down" => OnBottom /\ AllLinked
          BY <2>1, <4>2 DEF Anchored
        <4>5. phase # "down" => On(chain', blocks[CacheSize - 1], Bottom)
          BY <3>0, <4>1, <4>3, <4>4, KeepsOn DEF OnBottom
        <4>6. phase # "down" => OnBottom' /\ AllLinked'
          BY <3>0, <4>4, <4>5 DEF OnBottom, Bottom, AllLinked, Linked
        <4> QED
          BY <3>0, <4>1, <4>6 DEF Anchored, Resting, Asking
      <3> QED
        BY <3>1, <3>2
    <2>3. CASE ~ MoveDaemon
      <3>1. RpcFail /\ FailScan /\ step = "blocks" => Untouched
        <4>1. updated \in Nat /\ fixed \in Nat
          BY <1>0 DEF CacheInv, CacheTypeOK
        <4> QED
          BY <4>1 DEF FailScan, Untouched
      <3>2. /\ UNCHANGED monerod
            /\ \/ CacheStep \/ (Dispose /\ phase = "done") \/ UNCHANGED cache \/ Discard
               \/ RpcFail /\ (phase = "init" \/ Untouched)
               \/ \E proc \in {"update", "skip_ahead"} : Call(proc)
        BY <1>2, <2>3, <3>1, CacheMoves
      <3> QED
        BY <1>0, <2>1, <3>2, AnchoredOps
    <2> QED
      BY <2>2, <2>3
  <1> QED
    BY <1>1, <1>2
------------------------------------------------------------------------------
(***************************************************************************)
(* What an invoice shows of the chain.                                     *)
(***************************************************************************)
LEMMA ClearFacts ==
  ASSUME NEW c \in Chains, NEW n \in Int, NEW inv, NEW s, NEW old
  PROVE  /\ \A m \in Int : m <= n /\ Clear(inv, s, old, c, n) => Clear(inv, s, old, c, m)
         /\ \A d \in Chains : Keeps(c, d, n) /\ Clear(inv, s, old, c, n) => Clear(inv, s, old, d, n)
         /\ n < Len(c) /\ (\A i \in 1 .. Len(c) : i <= n + 1 => TxsOf[c[i]] \subseteq old) =>
              Clear(inv, s, old, c, n)
  <1>0. Len(c) \in Nat
    BY ChainBlocks
  <1>1. ASSUME NEW m \in Int, m <= n, Clear(inv, s, old, c, n) PROVE Clear(inv, s, old, c, m)
    BY <1>0, <1>1 DEF Clear
  <1>2. ASSUME NEW d \in Chains, Keeps(c, d, n), Clear(inv, s, old, c, n)
        PROVE  Clear(inv, s, old, d, n)
    BY <1>2 DEF Clear, Keeps
  <1>3. ASSUME n < Len(c), \A i \in 1 .. Len(c) : i <= n + 1 => TxsOf[c[i]] \subseteq old
        PROVE  Clear(inv, s, old, c, n)
    <2>1. \A h \in 0 .. n : Due(s, old, c[h + 1]) = {}
      BY <1>0, <1>3 DEF Due
    <2> QED
      BY <1>3, <2>1 DEF Clear, Shown
  <1> QED
    BY <1>1, <1>2, <1>3

\* Nothing is due of cells without a younger transaction.
LEMMA NoneDue ==
  ASSUME NEW old, NEW bs, \A k \in Cells : TxsOf[bs[k]] \subseteq old
  PROVE  /\ \A s, k : k \in Cells => Due(s, old, bs[k]) = {}
         /\ \A inv, s, top, n : CellsShown(inv, s, old, bs, top, n)
  BY DEF Due, CellsShown, Shown

\* An invoice that is stored now is younger than the chain and the window.
LEMMA Youngest ==
  ASSUME TypeInv, Known, CellsKnown
  PROVE  /\ \A inv, s : \A n \in Int : n < Len(chain) => Clear(inv, s, ever, chain, n)
         /\ \A i \in 1 .. Len(chain) : TxsOf[chain[i]] \subseteq ever
         /\ phase \notin {"down", "init"} => \A k \in Cells : TxsOf[blocks[k]] \subseteq ever
  <1>1. chain \in Chains
    BY DEF TypeInv, CacheInv, MonerodTypeOK
  <1>2. \A i \in 1 .. Len(chain) : TxsOf[chain[i]] \subseteq ever
    BY DEF Known, ChainTxs
  <1>3. \A inv, s : \A n \in Int : n < Len(chain) => Clear(inv, s, ever, chain, n)
    BY <1>1, <1>2, ClearFacts
  <1>4. phase \notin {"down", "init"} => \A k \in Cells : TxsOf[blocks[k]] \subseteq ever
    BY DEF TypeInv, CacheInv, Window, CellsKnown
  <1> QED
    BY <1>2, <1>3, <1>4

\* A caller of the gateway leaves every invoice as it was, but for a new one.
LEMMA ApiMoves ==
  ASSUME TypeInv, TypeInv', CallApi
  PROVE  /\ UNCHANGED <<monerod, cache, txpool, first_scan, step, found, queue, lost, ever>>
         /\ \A s \in Tracked' :
              \/ s \in Tracked /\ store'[s] = store[s] /\ earlier'[s] = earlier[s]
              \/ store'[s] \in creating /\ earlier'[s] = ever
  <1>1. UNCHANGED <<monerod, cache, txpool, first_scan, step, found, queue, lost, ever>>
    BY DEF CallApi, Api, NewInvoice, InsertInvoice, RemoveInvoice, scanner
  <1>2. Tracked' \subseteq Sub
    BY DEF TypeInv, StoreInv
  <1>3. \A s \in Tracked' : earlier'[s] = IF s \in Tracked THEN earlier[s] ELSE ever
    BY <1>2 DEF CallApi
  <1>4. CASE InsertInvoice
    <2>1. PICK inv \in creating :
            store' = [s \in Tracked \cup {inv.index} |-> IF s = inv.index THEN inv ELSE store[s]]
      BY <1>4 DEF InsertInvoice
    <2>2. inv.index \notin Tracked
      BY DEF TypeInv, StoreInv
    <2>3. Tracked' = Tracked \cup {inv.index}
          /\ \A s \in Tracked' : store'[s] = IF s = inv.index THEN inv ELSE store[s]
      BY <2>1 DEF Tracked
    <2> QED
      BY <1>1, <1>3, <2>2, <2>3
  <1>5. CASE \E r \in Sub : RemoveInvoice(r)
    <2>1. Tracked' \subseteq Tracked /\ \A s \in Tracked' : store'[s] = store[s]
      BY <1>5 DEF RemoveInvoice, RestrictTo, Tracked
    <2> QED
      BY <1>1, <1>3, <2>1
  <1>6. CASE store' = store
    BY <1>1, <1>3, <1>6 DEF Tracked
  <1> QED
    BY <1>4, <1>5, <1>6 DEF CallApi, Api, NewInvoice

\* Every other step leaves the store alone, but for Save.
LEMMA StoreMoves ==
  ASSUME [Next]_<<vars, ghosts>>
  PROVE  \/ MoveDaemon \/ CallApi
         \/ Scan /\ Save /\ UNCHANGED <<monerod, earlier>>
         \/ UNCHANGED <<monerod, earlier, store, creating>>
         \/ EndScanner /\ Crash /\ UNCHANGED <<monerod, earlier, store>> /\ creating' = {}
  <1>1. CASE OpenScanner
    BY <1>1 DEF OpenScanner, Opening, Start, OpenPool, FillCache, Opened
  <1>2. CASE Scan
    <2>1. earlier' = earlier /\ ScanStep
      BY <1>2 DEF Scan
    <2>2. ASSUME ~ Save PROVE UNCHANGED <<monerod, store, creating>>
      BY <2>1, <2>2 DEF ScanStep, BeginScan, RunCache, BeginPool, RunPool, ScanBlocks, ScanTxpool,
         Prepare, Flush
    <2>3. ASSUME Save PROVE UNCHANGED monerod
      BY <2>3 DEF Save
    <2> QED
      BY <1>2, <2>1, <2>2, <2>3
  <1>3. CASE FailScan
    BY <1>3 DEF FailScan, Failure, CachesFail, ScanBlocksFail, StoreFail, SaveFail, OpenFail,
       Discard
  <1>4. CASE EndScanner
    BY <1>4 DEF EndScanner, Stop, Crash, Discard, NoOne
  <1>5. CASE UNCHANGED <<vars, ghosts>>
    BY <1>5 DEF vars, ghosts
  <1> QED
    BY <1>1, <1>2, <1>3, <1>4, <1>5 DEF Next

LEMMA SafeStep ==
  ASSUME TypeInv, Known, CellsKnown, Queue, [Next]_<<vars, ghosts>>, lost' = {},
         lost = {} => Safe /\ Scanned
  PROVE  Safe'
  <1>0. TypeInv' /\ chain \in Chains /\ Len(chain) \in Nat /\ Len(chain) >= 1
        /\ CacheSize \in Nat /\ CacheSize >= 1
    BY TypesStep, ChainBlocks, CellsFacts DEF TypeInv, CacheInv, MonerodTypeOK
  <1>1. CASE OpenScanner /\ Start /\ Tracked = {}
    BY <1>1 DEF OpenScanner, Start, Tracked, Safe
  <1>2. CASE ~ (OpenScanner /\ Start /\ Tracked = {})
    <2>0. lost = {} /\ Safe /\ Scanned
      BY <1>2, LostBefore
    <2>1. \A s \in Tracked : store[s].current_height - CacheSize \in Int
      BY <1>0 DEF TypeInv, StoreInv, InvoiceType
    <2>2. CASE MoveDaemon
      <3>1. chain' \in Chains /\ store' = store /\ earlier' = earlier
            /\ \/ Extends(chain', chain)
               \/ \A s \in Tracked : Keeps(chain, chain', store[s].current_height - CacheSize)
        BY <1>0, <2>2, DaemonKeeps
      <3>2. \A s \in Tracked : Keeps(chain, chain', store[s].current_height - CacheSize)
        <4> SUFFICES ASSUME NEW s \in Tracked, Extends(chain', chain)
                     PROVE  Keeps(chain, chain', store[s].current_height - CacheSize)
          BY <3>1
        <4>1. store[s].current_height - CacheSize < Len(chain)
          BY <2>0 DEF Safe, ClearTo, Clear
        <4> QED
          BY <1>0, <2>1, <3>1, <4>1, ExtendsKeeps
      <3>3. \A s \in Tracked :
              Clear(store[s], s, earlier[s], chain', store[s].current_height - CacheSize)
        BY <1>0, <2>0, <2>1, <3>1, <3>2, ClearFacts DEF Safe, ClearTo
      <3> QED
        BY <3>1, <3>3 DEF Safe, ClearTo, Tracked
    <2>3. CASE CallApi
      <3>1. chain' = chain
        BY <1>0, <2>3, ApiMoves DEF monerod
      <3>2. ASSUME NEW s \in Tracked'
            PROVE  Clear(store'[s], s, earlier'[s], chain', store'[s].current_height - CacheSize)
        <4>1. CASE s \in Tracked /\ store'[s] = store[s] /\ earlier'[s] = earlier[s]
          BY <2>0, <3>1, <4>1 DEF Safe, ClearTo
        <4>2. CASE store'[s] \in creating /\ earlier'[s] = ever
          <5>1. store'[s].current_height = 0
            BY <4>2 DEF Queue
          <5>2. 0 - CacheSize \in Int /\ 0 - CacheSize < Len(chain)
            BY <1>0
          <5> QED
            BY <3>1, <4>2, <5>1, <5>2, Youngest
        <4> QED
          BY <1>0, <2>3, <4>1, <4>2, ApiMoves
      <3> QED
        BY <3>2 DEF Safe, ClearTo
    <2>4. CASE Scan /\ Save /\ UNCHANGED <<monerod, earlier>>
      <3>1. PICK inv \in queue :
              store' = IF inv.index \in Tracked
                          /\ store[inv.index].creation_height = inv.creation_height
                       THEN [store EXCEPT ![inv.index] = inv] ELSE store
        BY <2>4 DEF Save
      <3>2. Tracked' = Tracked /\ \A s \in Tracked :
              store'[s] = store[s] \/ (For(inv, s) /\ store'[s] = inv)
        BY <3>1 DEF Tracked, For
      <3>3. ASSUME NEW s \in Tracked, For(inv, s)
            PROVE  Clear(inv, s, earlier[s], chain, inv.current_height - CacheSize)
        <4>1. inv.current_height = height + 1 /\ height \in Nat
          BY <2>4 DEF Save, Queue, TypeInv, CacheInv, CacheTypeOK
        <4>2. Clear(inv, s, earlier[s], chain, Bottom)
          BY <2>0, <2>4, <3>3 DEF Scanned, Full, Save
        <4>3. inv.current_height - CacheSize = Bottom
          BY <1>0, <4>1 DEF Bottom
        <4> QED
          BY <4>2, <4>3
      <3>4. \A s \in Tracked : Clear(store'[s], s, earlier[s], chain, store'[s].current_height - CacheSize)
        BY <2>0, <3>2, <3>3 DEF Safe, ClearTo
      <3> QED
        BY <2>4, <3>2, <3>4 DEF Safe, ClearTo, monerod
    <2>5. CASE UNCHANGED <<monerod, earlier, store>>
      BY <2>0, <2>5 DEF Safe, ClearTo, Tracked, monerod
    <2> QED
      BY <2>2, <2>3, <2>4, <2>5, StoreMoves
  <1> QED
    BY <1>1, <1>2
------------------------------------------------------------------------------
(***************************************************************************)
(* The updates that wait to be saved.                                      *)
(***************************************************************************)
New(s) == Updated(store[s], found, DeepestUpdate, height)

LEMMA Prepared ==
  ASSUME TypeInv, Prepare
  PROVE  /\ \A s \in Tracked :
              /\ New(s) \in InvoiceType(Sub) /\ New(s).index = s
              /\ New(s).creation_height = store[s].creation_height
              /\ New(s).current_height = height + 1
              /\ New(s) \in queue' \/ New(s) = store[s]
              /\ \A tr \in ToSet(store[s].transfers) :
                   Before(tr.height, DeepestUpdate) => tr \in ToSet(New(s).transfers)
              /\ \A f \in ToSet(found) :
                   Mine(store[s], f) => Transfer(f.amount, f.height) \in ToSet(New(s).transfers)
         /\ \A inv \in queue' : inv.index \in Tracked /\ inv = New(inv.index)
  <1>1. height \in Nat /\ found \in Seq(FoundType(Sub))
    BY DEF TypeInv, CacheInv, CacheTypeOK, ScanInv
  <1>2. \A s \in Tracked : store[s] \in InvoiceType(Sub) /\ store[s].index = s
    BY DEF TypeInv, StoreInv
  <1>3. ASSUME NEW s \in Tracked
        PROVE  /\ New(s) \in InvoiceType(Sub) /\ New(s).index = s
               /\ New(s).creation_height = store[s].creation_height
               /\ New(s).current_height = height + 1
               /\ \A tr \in ToSet(store[s].transfers) :
                    Before(tr.height, DeepestUpdate) => tr \in ToSet(New(s).transfers)
               /\ \A f \in ToSet(found) :
                    Mine(store[s], f) => Transfer(f.amount, f.height) \in ToSet(New(s).transfers)
    BY <1>1, <1>2, UpdatedHolds DEF New
  <1>4. queue' = {New(s) : s \in {r \in Tracked : New(r) # store[r]}}
    <2> DEFINE new == [s \in Tracked |-> Updated(store[s], found, DeepestUpdate, height)]
    <2>1. queue' = {new[s] : s \in {r \in Tracked : new[r] # store[r]}}
      BY DEF Prepare
    <2>2. \A s \in Tracked : new[s] = New(s)
      BY DEF New
    <2> HIDE DEF new
    <2> QED
      BY <2>1, <2>2
  <1> QED
    BY <1>3, <1>4

LEMMA QueueStep == TypeInv /\ Queue /\ [Next]_<<vars, ghosts>> => Queue'
  <1> SUFFICES ASSUME TypeInv, Queue, [Next]_<<vars, ghosts>> PROVE Queue'
    OBVIOUS
  <1>1. \A inv \in creating' : inv.current_height = 0
    <2>1. creating' \subseteq creating \/ \E s \in Sub : NewInvoice(s)
      BY StoreMoves DEF MoveDaemon, Daemon, CallApi, Api, InsertInvoice, RemoveInvoice, NoOne, Save
    <2> QED
      BY <2>1 DEF Queue, NewInvoice, NewInvoiceRecord
  <1>2. ASSUME step' = "save"
        PROVE  \A inv \in queue' :
                 /\ inv.current_height = height' + 1
                 /\ \A other \in queue' : inv.index = other.index => inv = other
    <2>1. CASE Prepare
      <3>1. height' = height
        BY <2>1 DEF Prepare, Dispose, window
      <3> QED
        BY <2>1, <3>1, Prepared
    <2>2. CASE step = "save" /\ height' = height /\ queue' \subseteq queue
      BY <2>2 DEF Queue
    <2>3. CASE MoveDaemon \/ CallApi \/ UNCHANGED <<vars, ghosts>>
      BY <1>2, <2>2, <2>3 DEF MoveDaemon, Daemon, CallApi, Api, NewInvoice, InsertInvoice,
         RemoveInvoice, vars, scanner, cache, window
    <2>4. CASE OpenScanner
      BY <1>2, <2>4 DEF OpenScanner, Opening, Start, OpenPool, FillCache, Opened, scanner
    <2>5. CASE Scan
      BY <1>2, <2>1, <2>2, <2>5 DEF Scan, ScanStep, BeginScan, RunCache, BeginPool, RunPool,
         ScanBlocks, ScanTxpool, Save, Flush, scanner, cache, window
    <2>6. CASE FailScan
      BY <1>2, <2>2, <2>6 DEF FailScan, Failure, CachesFail, ScanBlocksFail, StoreFail, SaveFail,
         OpenFail, Discard, cache, window
    <2>7. CASE EndScanner
      BY <1>2, <2>7 DEF EndScanner, Stop, Crash, Discard
    <2> QED
      BY <2>3, <2>4, <2>5, <2>6, <2>7 DEF Next
  <1> QED
    BY <1>1, <1>2 DEF Queue
------------------------------------------------------------------------------
(***************************************************************************)
(* What an invoice shows while the caches are brought up to date.          *)
(***************************************************************************)
\* What is younger than the tip of a skip has nothing to show.
LEMMA FreshShows ==
  ASSUME TypeInv, NEW s, Fresh(s), tip > height, tip <= Len(chain)
  PROVE  /\ \A n \in Int : n <= height => ClearTo(s, n)
         /\ \A n : CellsShown(store[s], s, earlier[s], blocks, height, n)
  <1>1. chain \in Chains /\ Len(chain) \in Nat /\ tip \in Nat /\ height \in Nat
    BY ChainBlocks DEF TypeInv, CacheInv, MonerodTypeOK, CacheTypeOK
  <1>2. ASSUME NEW n \in Int, n <= height PROVE ClearTo(s, n)
    <2>1. n < Len(chain) /\ \A i \in 1 .. Len(chain) : i <= n + 1 => i \in 1 .. tip
      BY <1>1, <1>2
    <2>2. \A i \in 1 .. Len(chain) : i <= n + 1 => TxsOf[chain[i]] \subseteq earlier[s]
      BY <2>1 DEF Fresh
    <2> QED
      BY <1>1, <2>1, <2>2, ClearFacts DEF ClearTo
  <1>3. \A n : CellsShown(store[s], s, earlier[s], blocks, height, n)
    BY NoneDue DEF Fresh
  <1> QED
    BY <1>2, <1>3

LEMMA PaidRunCache ==
  ASSUME IInv, PayInv, lost = {}, lost' = {}, Scan, RunCache
  PROVE  Paid'
  <1>1. /\ UNCHANGED <<chain, store, earlier, first_scan, step>> /\ Tracked' = Tracked
        /\ step = "blocks"
    BY DEF RunCache, Scan, scanner, monerod, Tracked
  <1>2. /\ chain \in Chains /\ Len(chain) \in Nat /\ CacheSize \in Nat /\ CacheSize >= 1
        /\ height \in Nat /\ tip \in Nat /\ next \in Nat /\ updated \in Nat /\ fixed \in Nat
        /\ phase \in Asking \cup {"skip", "fix", "done"}
    BY <1>1, ChainBlocks, CellsFacts DEF IInv, TypeInv, CacheInv, MonerodTypeOK, CacheTypeOK,
       ScanInv, Control
  <1>3. Anchored /\ Paid /\ Counters /\ Window
    BY DEF PayInv, IInv, TypeInv, CacheInv
  <1>4. ASSUME UNCHANGED <<blocks, height, updated, fixed>>
        PROVE  \A s : Shows(s) => Shows(s)'
    BY <1>1, <1>4 DEF Shows, ClearTo, Bottom
  <1> USE DEF Asking, Resting
  <1>5. CASE UpdateTip
    <2>1. /\ phase = "update" /\ phase' \in {"fetch", "fix"} /\ tip' = tip
          /\ UNCHANGED <<blocks, height, updated, fixed>>
      BY <1>5 DEF UpdateTip, locals
    <2>2. tip = 0 /\ \A s \in Tracked : Shows(s)
      BY <1>1, <1>3, <2>1 DEF Counters, Paid
    <2> QED
      BY <1>1, <1>4, <2>1, <2>2 DEF Paid
  <1>6. CASE UpdateFetch
    <2>1. /\ phase = "fetch" /\ phase' = "fix" /\ height' = height + 1 /\ tip' = tip
          /\ blocks' = Push(BlockAt(height + 1)) /\ updated' = updated + 1 /\ fixed' = fixed
      BY <1>6 DEF UpdateFetch
    <2>2. tip = 0 /\ updated = 0 /\ fixed = 0 /\ \A s \in Tracked : Shows(s)
      BY <1>1, <1>3, <2>1 DEF Counters, Untouched, Paid
    <2>3. ASSUME NEW s \in Tracked PROVE Shows(s)'
      <3>1. Clear(store[s], s, earlier[s], chain, height' - CacheSize)
        <4>1. height' - CacheSize = Bottom
          BY <1>2, <2>1 DEF Bottom
        <4> QED
          BY <2>2, <4>1 DEF Shows, ClearTo
      <3>2. ASSUME ~ first_scan, NEW k \in Cells, k >= 1
            PROVE  Shown(store[s], Due(s, earlier[s], blocks'[k]), height' - k)
        <4>1. k - 1 \in Cells /\ k - 1 >= 0 /\ k # 0 /\ height' - k = height - (k - 1)
          BY <1>2, <2>1, <3>2 DEF Cells
        <4>2. blocks'[k] = blocks[k - 1]
          BY <2>1, <4>1 DEF Push
        <4>3. CellsShown(store[s], s, earlier[s], blocks, height, 0)
          BY <1>1, <2>2, <3>2 DEF Shows, Max2
        <4> QED
          BY <4>1, <4>2, <4>3 DEF CellsShown
      <3>3. ~ first_scan => CellsShown(store[s], s, earlier[s], blocks', height', 1)
        BY <3>2 DEF CellsShown
      <3>4. updated' = 1 /\ Max2(updated', fixed') = 1
        BY <2>1, <2>2 DEF Max2
      <3> QED
        BY <1>1, <3>1, <3>3, <3>4 DEF Shows, ClearTo
    <2> QED
      BY <1>1, <2>1, <2>2, <2>3 DEF Paid
  <1>7. CASE SkipTip
    <2>1. phase = "skip_ahead" /\ UNCHANGED <<blocks, height, updated, fixed>>
      BY <1>7 DEF SkipTip
    <2>2. CASE phase' = "skip"
      <3>1. Tracked = {}
        BY <2>1, <2>2 DEF Scan
      <3> QED
        BY <1>1, <2>2, <3>1 DEF Paid
    <2>3. CASE phase' # "skip"
      <3>1. phase' = "done"
        BY <1>7, <2>3 DEF SkipTip
      <3>2. \A s \in Tracked : Shows(s)
        BY <1>1, <1>3, <2>1 DEF Paid
      <3> QED
        BY <1>1, <1>4, <2>1, <3>1, <3>2 DEF Paid
    <2> QED
      BY <2>2, <2>3
  <1>8. CASE SkipFetch
    <2>1. /\ phase = "skip" /\ phase' \in {"skip", "fix"} /\ tip' = tip /\ HasBlock(tip - next)
          /\ blocks' = Push(BlockAt(tip - next)) /\ next >= 1
      BY <1>3, <1>8 DEF SkipFetch, Window
    <2>2. tip > 0
      BY <1>2, <1>3, <2>1 DEF Counters
    <2>3. ASSUME NEW s \in Tracked PROVE Fresh(s)'
      <3>1. Fresh(s)
        BY <1>3, <2>1, <2>2 DEF Paid
      <3>2. tip - next + 1 \in 1 .. tip
        BY <1>2, <2>1 DEF HasBlock
      <3>3. \A k \in Cells : k # 0 => k - 1 \in Cells
        BY <1>2 DEF Cells
      <3>4. \A k \in Cells : TxsOf[blocks'[k]] \subseteq earlier[s]
        BY <2>1, <3>1, <3>2, <3>3 DEF Fresh, Push, BlockAt
      <3> QED
        BY <1>1, <2>1, <3>1, <3>4 DEF Fresh
    <2> QED
      BY <1>1, <2>1, <2>2, <2>3 DEF Paid
  <1>9. CASE Check
    <2>1. phase = "fix" /\ UNCHANGED <<phase, tip, blocks, height, updated, fixed>>
      BY <1>9 DEF Check, window
    <2>2. \A s : Fresh(s) => Fresh(s)'
      BY <1>1, <2>1 DEF Fresh
    <2> QED
      BY <1>1, <1>3, <1>4, <2>1, <2>2 DEF Paid
  <1>10. CASE Repair
    <2>1. /\ phase = "fix" /\ next < CacheSize - 1 /\ ~ Linked(next)
          /\ HasBlock(height - 1 - next)
          /\ blocks' = [blocks EXCEPT ![next + 1] = BlockAt(height - 1 - next)]
          /\ fixed' = Max2(fixed, 1) + 1
          /\ UNCHANGED <<height, phase, tip, updated>>
      BY <1>10 DEF Repair
    <2>2. blocks \in [Cells -> Block]
      BY <1>3, <2>1 DEF Window
    <2>3. updated > 0
      <3>1. next \in Links
        BY <1>2, <2>1 DEF Links
      <3> QED
        BY <1>2, <1>3, <2>1, <3>1 DEF Anchored, AllLinked
    <2>4. CASE tip > 0
      <3>1. ASSUME NEW s \in Tracked PROVE Fresh(s)'
        <4>1. Fresh(s) /\ height = tip - 1
          BY <1>3, <2>1, <2>4 DEF Paid, Counters
        <4>2. (height - 1 - next) + 1 \in 1 .. tip
          BY <1>2, <2>1, <4>1 DEF HasBlock
        <4>3. TxsOf[BlockAt(height - 1 - next)] \subseteq earlier[s]
          BY <4>1, <4>2 DEF Fresh, BlockAt
        <4>4. \A k \in Cells : TxsOf[blocks'[k]] \subseteq earlier[s]
          BY <2>1, <2>2, <4>1, <4>3 DEF Fresh
        <4> QED
          BY <1>1, <2>1, <4>1, <4>4 DEF Fresh
      <3> QED
        BY <1>1, <2>1, <2>4, <3>1 DEF Paid
    <2>5. CASE tip = 0
      <3>1. updated = 1 /\ Walking
        BY <1>2, <1>3, <2>1, <2>3, <2>5 DEF Counters, Anchored
      <3>2. fixed' = next + 2 /\ fixed <= next + 1
        BY <1>2, <2>1, <3>1 DEF Walking, Max2
      <3>3. Max2(updated, fixed) <= next + 2 /\ Max2(updated', fixed') = next + 2
        BY <1>2, <2>1, <3>1, <3>2 DEF Max2
      <3>4. ASSUME NEW s \in Tracked PROVE Shows(s)'
        <4>1. Shows(s)
          BY <1>3, <2>1, <2>5 DEF Paid
        <4>2. \A k \in Cells : k >= next + 2 => blocks'[k] = blocks[k]
          BY <1>2, <2>1, <2>2 DEF Cells
        <4>3. \A k \in Cells : k >= next + 2 => k >= Max2(updated, fixed)
          BY <1>2, <3>1, <3>2, <3>3 DEF Cells, Max2
        <4>4. ~ first_scan => CellsShown(store[s], s, earlier[s], blocks', height, next + 2)
          BY <1>1, <4>1, <4>2, <4>3 DEF Shows, CellsShown
        <4> QED
          BY <1>1, <2>1, <2>3, <3>3, <4>1, <4>4 DEF Shows, ClearTo
      <3> QED
        BY <1>1, <2>1, <2>5, <3>4 DEF Paid
    <2> QED
      BY <1>2, <2>4, <2>5
  <1>11. CASE Return
    <2>1. /\ phase = "fix" /\ next = CacheSize - 1 /\ phase' = "done"
          /\ updated' = Max2(updated, fixed) /\ fixed' = 0 /\ UNCHANGED <<blocks, height>>
      BY <1>11 DEF Return, window
    <2>2. ASSUME NEW s \in Tracked PROVE Shows(s)'
      <3>1. Max2(updated', fixed') = Max2(updated, fixed) /\ (updated' = 0 => updated = 0)
        BY <1>2, <2>1 DEF Max2
      <3>2. CASE tip = 0
        <4>1. Shows(s)
          BY <1>3, <2>1, <3>2 DEF Paid
        <4> QED
          BY <1>1, <2>1, <3>1, <4>1 DEF Shows, ClearTo, Bottom
      <3>3. CASE tip > 0
        <4>1. Fresh(s) /\ height = tip - 1 /\ tip <= Len(chain)
          BY <1>3, <2>1, <3>3 DEF Paid, Counters, Anchored
        <4>2. /\ \A n \in Int : n <= height => ClearTo(s, n)
              /\ \A n : CellsShown(store[s], s, earlier[s], blocks, height, n)
          BY <1>2, <4>1, FreshShows DEF IInv
        <4>3. height - CacheSize <= height /\ Bottom \in Int /\ Bottom <= height
          BY <1>2 DEF Bottom
        <4>4. ClearTo(s, height - CacheSize) /\ ClearTo(s, Bottom)
          BY <1>2, <4>2, <4>3
        <4> QED
          BY <1>1, <2>1, <4>2, <4>4 DEF Shows, ClearTo, Bottom
      <3> QED
        BY <1>2, <3>2, <3>3
    <2> QED
      BY <1>1, <2>1, <2>2 DEF Paid
  <1> QED
    BY <1>2, <1>5, <1>6, <1>7, <1>8, <1>9, <1>10, <1>11 DEF RunCache, CacheStep, InitFetch
------------------------------------------------------------------------------
(***************************************************************************)
(* When a scan fails.                                                      *)
(***************************************************************************)
\* An invoice that does not miss what is in a block shows it, and the other way round.
LEMMA ShownOrMissed ==
  ASSUME OneAmount, StoreInv, NEW s \in Tracked, NEW b \in Block, NEW h
  PROVE  /\ ~ Misses(s, b, h) => Shown(store[s], Due(s, earlier[s], b), h)
         /\ Shown(store[s], Due(s, earlier[s], b), h) /\ store[s].creation_height > 0 =>
              ~ Misses(s, b, h)
  <1>1. s \in Sub /\ TxsOf[b] \subseteq Tx
    BY MonerodAssumption DEF StoreInv, BlockAssumption
  <1>2. \A t \in Due(s, earlier[s], b) :
          AmountTo(t, s) = Outs[t][1].amount /\ Pays(t, s) /\ t \in TxsOf[b] \ earlier[s]
    BY <1>1 DEF OneAmount, Due
  <1>3. \A t : t \in TxsOf[b] \ earlier[s] /\ Pays(t, s) <=> t \in Due(s, earlier[s], b)
    BY DEF Due
  <1>4. \A t \in Due(s, earlier[s], b) :
          Count(s, AmountTo(t, s), h) = 0 <=> Payment(t, h) \notin ToSet(store[s].transfers)
    BY <1>2, Counted DEF Payment
  <1> QED
    BY <1>3, <1>4 DEF Misses, Shown

LEMMA ClearUp ==
  ASSUME NEW c \in Chains, NEW n \in Int, NEW b, On(c, b, n), NEW inv, NEW s, NEW old,
         Clear(inv, s, old, c, n - 1), Shown(inv, Due(s, old, b), n)
  PROVE  Clear(inv, s, old, c, n)
  <1>1. n < Len(c) /\ c[n + 1] = b
    BY ChainBlocks DEF On
  <1>2. \A h \in 0 .. n : Shown(inv, Due(s, old, c[h + 1]), h)
    <2> TAKE h \in 0 .. n
    <2>1. h = n \/ h \in 0 .. n - 1
      OBVIOUS
    <2> QED
      BY <1>1, <2>1 DEF Clear
  <1> QED
    BY <1>1, <1>2 DEF Clear

LEMMA FailedScan ==
  ASSUME OneAmount, IInv, PayInv, lost = {}, lost' = {}, FailScan,
         step \in {"pool", "scan_blocks", "scan_txpool", "only_txpool"}
  PROVE  /\ ~ first_scan => updated = 0
         /\ fixed = 0
         /\ \A s \in Tracked : Shows(s) /\ ClearTo(s, Bottom)
  <1>1. phase = "done" /\ Anchored /\ Counters /\ Paid /\ StoreInv
    BY DEF IInv, TypeInv, ScanInv, Control, PayInv
  <1>2. fixed = 0 /\ OnBottom /\ \A s \in Tracked : Shows(s)
    BY <1>1 DEF Counters, Anchored, Paid, Resting
  <1>3. updated = 0 \/ (first_scan /\ ~ WindowPassed)
    <2>1. updated \in Nat
      BY DEF IInv, TypeInv, CacheInv, CacheTypeOK
    <2>2. ~ (updated > 0 /\ (~ first_scan \/ WindowPassed))
      BY <1>2, <2>1 DEF FailScan
    <2> QED
      BY <2>1, <2>2
  <1>4. ASSUME NEW s \in Tracked, ~ WindowPassed PROVE ClearTo(s, Bottom)
    <2>1. ~ Misses(s, blocks[CacheSize - 1], Bottom)
      BY <1>4 DEF WindowPassed, Bottom
    <2>2. blocks[CacheSize - 1] \in Block
      BY <1>1, CellsFacts DEF IInv, TypeInv, CacheInv, Window, Cells
    <2>3. Shown(store[s], Due(s, earlier[s], blocks[CacheSize - 1]), Bottom)
      BY <1>1, <2>1, <2>2, ShownOrMissed
    <2>4. Bottom \in Int /\ Bottom - 1 = height - CacheSize /\ chain \in Chains
      BY CellsFacts DEF Bottom, IInv, TypeInv, CacheInv, CacheTypeOK, MonerodTypeOK
    <2>5. Clear(store[s], s, earlier[s], chain, Bottom - 1)
      BY <1>2, <2>4 DEF Shows, ClearTo
    <2> QED
      BY <1>2, <2>3, <2>4, <2>5, ClearUp DEF OnBottom, ClearTo
  <1> QED
    BY <1>2, <1>3, <1>4 DEF Shows
------------------------------------------------------------------------------
(***************************************************************************)
(* The daemon and the callers of the gateway.                              *)
(***************************************************************************)
LEMMA BottomLow ==
  ASSUME TypeInv, Anchored, phase \in Resting \cup Asking \cup {"fix"}
  PROVE  Bottom < Len(chain)
  <1>1. /\ chain \in Chains /\ Len(chain) \in Nat /\ CacheSize \in Nat /\ CacheSize >= 1
        /\ height \in Nat /\ next \in Nat /\ updated \in Nat /\ 0 \in Cells
    BY ChainBlocks, CellsFacts DEF TypeInv, CacheInv, MonerodTypeOK, CacheTypeOK
  <1>2. CASE phase = "fix" /\ updated > 0
    <2>1. On(chain, blocks[0], height - 0)
      BY <1>1, <1>2 DEF Anchored, OnCells
    <2> QED
      BY <1>1, <2>1 DEF On, Bottom
  <1>3. CASE ~ (phase = "fix" /\ updated > 0)
    <2>1. OnBottom
      BY <1>1, <1>3 DEF Anchored
    <2> QED
      BY <1>1, <2>1 DEF OnBottom, On, Bottom
  <1> QED
    BY <1>2, <1>3

\* A move of the daemon by which nothing is lost.
LEMMA DaemonClear ==
  ASSUME TypeInv, TypeInv', Anchored, MoveDaemon, lost' = {}
  PROVE  /\ phase # "down" => \A inv, s, old : \A n \in Int :
              n <= Bottom /\ Clear(inv, s, old, chain, n) => Clear(inv, s, old, chain', n)
         /\ phase \in {"skip", "fix"} => \A i \in 1 .. tip : chain'[i] = chain[i]
  <1>1. /\ chain \in Chains /\ chain' \in Chains /\ Len(chain) \in Nat /\ Bottom \in Int
        /\ Extends(chain', chain) \/
             /\ phase \notin {"init", "skip", "fix"}
             /\ phase # "down" => Keeps(chain, chain', Bottom)
    BY DaemonKeeps, ChainBlocks, CellsFacts DEF TypeInv, CacheInv, CacheTypeOK, Bottom
  <1>2. ASSUME phase # "down", NEW inv, NEW s, NEW old, NEW n \in Int, n <= Bottom,
               Clear(inv, s, old, chain, n)
        PROVE  Clear(inv, s, old, chain', n)
    <2>1. Keeps(chain, chain', n)
      <3>1. CASE Extends(chain', chain)
        BY <1>1, <1>2, <3>1, ExtendsKeeps DEF Clear
      <3>2. CASE Keeps(chain, chain', Bottom)
        BY <1>1, <1>2, <3>2, ChainBlocks DEF Keeps
      <3> QED
        BY <1>1, <1>2, <3>1, <3>2
    <2> QED
      BY <1>1, <1>2, <2>1, ClearFacts
  <1>3. ASSUME phase \in {"skip", "fix"}, NEW i \in 1 .. tip PROVE chain'[i] = chain[i]
    <2>1. tip <= Len(chain) /\ tip \in Nat
      BY <1>3 DEF Anchored, TypeInv, CacheInv, CacheTypeOK
    <2> QED
      BY <1>1, <1>3, <2>1 DEF Extends
  <1> QED
    BY <1>2, <1>3

LEMMA PaidDaemon ==
  ASSUME IInv, TypeInv', PayInv, lost = {}, lost' = {}, MoveDaemon
  PROVE  Paid'
  <1>1. UNCHANGED <<cache, store, first_scan, step, earlier>> /\ Tracked' = Tracked
    BY DaemonKeeps DEF IInv, Tracked
  <1>2. Anchored /\ Paid
    BY DEF PayInv
  <1>3. phase # "down" => \A inv, s, old : \A n \in Int :
          n <= Bottom /\ Clear(inv, s, old, chain, n) => Clear(inv, s, old, chain', n)
    BY <1>2, DaemonClear DEF IInv
  <1>4. Bottom \in Int /\ height - CacheSize \in Int /\ height - CacheSize <= Bottom
    BY CellsFacts DEF IInv, TypeInv, CacheInv, CacheTypeOK, Bottom
  <1>5. phase # "down" => \A s : (ClearTo(s, Bottom) => ClearTo(s, Bottom)') /\ (Shows(s) => Shows(s)')
    BY <1>1, <1>3, <1>4 DEF ClearTo, Shows, Bottom, cache, window, locals
  <1>6. phase \in {"skip", "fix"} => \A s : Fresh(s) => Fresh(s)'
    <2>1. phase \in {"skip", "fix"} => \A i \in 1 .. tip : chain'[i] = chain[i]
      BY <1>2, DaemonClear DEF IInv
    <2> QED
      BY <1>1, <2>1 DEF Fresh, cache, window, locals
  <1> QED
    BY <1>1, <1>2, <1>5, <1>6 DEF Paid, cache, window, locals, Resting, Asking

LEMMA PaidApi ==
  ASSUME IInv, TypeInv', PayInv, lost = {}, CallApi
  PROVE  Paid'
  <1>1. /\ UNCHANGED <<chain, blocks, height, phase, tip, next, updated, fixed, first_scan, step>>
        /\ \A s \in Tracked' :
             \/ s \in Tracked /\ store'[s] = store[s] /\ earlier'[s] = earlier[s]
             \/ store'[s] \in creating /\ earlier'[s] = ever
    BY ApiMoves DEF IInv, monerod, cache, window, locals
  <1>2. Anchored /\ Paid /\ CellsKnown
    BY DEF PayInv
  <1>3. /\ \A inv, s : \A n \in Int : n < Len(chain) => Clear(inv, s, ever, chain, n)
        /\ \A i \in 1 .. Len(chain) : TxsOf[chain[i]] \subseteq ever
        /\ phase \notin {"down", "init"} => \A k \in Cells : TxsOf[blocks[k]] \subseteq ever
    BY <1>2, Youngest DEF IInv
  <1>4. Bottom \in Int /\ height - CacheSize \in Int /\ height - CacheSize < Bottom
        /\ Len(chain) \in Nat /\ tip \in Nat
    BY CellsFacts, ChainBlocks DEF IInv, TypeInv, CacheInv, CacheTypeOK, MonerodTypeOK, Bottom
  <1>5. ASSUME phase = "init", ~ (height = MaxU64 /\ next = 0), NEW s \in Tracked'
        PROVE  ClearTo(s, Bottom)'
    <2>1. Bottom < Len(chain) /\ (s \in Tracked => ClearTo(s, Bottom))
      BY <1>2, <1>5 DEF Anchored, Paid
    <2> QED
      BY <1>1, <1>3, <1>4, <2>1 DEF ClearTo, Bottom
  <1>6. ASSUME phase \in {"skip", "fix"}, tip > 0, NEW s \in Tracked'
        PROVE  Fresh(s)'
    <2>1. tip <= Len(chain) /\ (s \in Tracked => Fresh(s))
      BY <1>2, <1>6 DEF Anchored, Paid
    <2>2. \A i \in 1 .. tip : TxsOf[chain[i]] \subseteq ever
      BY <1>3, <1>4, <2>1
    <2> QED
      BY <1>1, <1>3, <1>6, <2>1, <2>2 DEF Fresh
  <1>7. ASSUME \/ phase \in Resting \cup Asking /\ step # "save"
               \/ phase = "fix" /\ tip = 0,
               NEW s \in Tracked'
        PROVE  Shows(s)'
    <2>1. Bottom < Len(chain) /\ (s \in Tracked => Shows(s))
      BY <1>2, <1>7, BottomLow DEF Paid, IInv
    <2>2. CASE s \in Tracked /\ store'[s] = store[s] /\ earlier'[s] = earlier[s]
      BY <1>1, <2>1, <2>2 DEF Shows, ClearTo, Bottom
    <2>3. CASE earlier'[s] = ever
      <3>1. \A k \in Cells : TxsOf[blocks[k]] \subseteq ever
        BY <1>3, <1>7 DEF Resting, Asking
      <3>2. \A n : CellsShown(store'[s], s, ever, blocks, height, n)
        BY <3>1, NoneDue
      <3>3. Clear(store'[s], s, ever, chain, Bottom)
            /\ Clear(store'[s], s, ever, chain, height - CacheSize)
        BY <1>3, <1>4, <2>1
      <3> QED
        BY <1>1, <2>3, <3>2, <3>3 DEF Shows, ClearTo, Bottom
    <2> QED
      BY <1>1, <2>2, <2>3
  <1> QED
    BY <1>1, <1>5, <1>6, <1>7 DEF Paid
------------------------------------------------------------------------------
(***************************************************************************)
(* The scanner's own steps.                                                *)
(***************************************************************************)
LEMMA PaidOpening ==
  ASSUME IInv, Anchored', PayInv, lost = {} \/ (Start /\ Tracked = {}), lost = {} => Paid /\ Safe, OpenScanner
  PROVE  Paid'
  <1>1. /\ UNCHANGED <<chain, store, earlier>> /\ Tracked' = Tracked
        /\ chain \in Chains /\ Len(chain) \in Nat /\ CacheSize \in Nat /\ height \in Nat /\ next \in Nat
    BY ChainBlocks, CellsFacts DEF OpenScanner, Opening, Start, OpenPool, FillCache, Opened,
       monerod, Tracked, IInv, TypeInv, CacheInv, CacheTypeOK, MonerodTypeOK
  <1> USE DEF Asking, Resting
  <1>2. CASE Start
    <2>1. phase' = "init" /\ next' = 0
          /\ height' = IF Tracked = {} THEN Len(chain) - 1 ELSE Dec(LowestHeight)
      BY <1>2 DEF Start, Open
    <2>2. ASSUME Tracked # {}, height' # MaxU64, NEW s \in Tracked PROVE ClearTo(s, Bottom)'
      <3> DEFINE heights == {store[r].current_height : r \in Tracked}
      <3>1. heights \in SUBSET Nat /\ heights # {} /\ store[s].current_height \in heights
        BY <2>2 DEF IInv, TypeInv, StoreInv, InvoiceType
      <3>2. LowestHeight = CHOOSE k \in heights : \A j \in heights : k <= j
        BY DEF LowestHeight
      <3> HIDE DEF heights
      <3>3. LowestHeight \in Nat /\ store[s].current_height \in Nat
            /\ LowestHeight <= store[s].current_height
        BY <3>1, <3>2, Least
      <3>4. height' = LowestHeight - 1
        BY <2>1, <2>2, <3>3 DEF Dec
      <3>5. ClearTo(s, store[s].current_height - CacheSize)
        BY <1>2, <2>2 DEF Safe
      <3>6. height' - CacheSize + 1 \in Int /\ store[s].current_height - CacheSize \in Int
            /\ height' - CacheSize + 1 <= store[s].current_height - CacheSize
        BY <1>1, <3>3, <3>4
      <3>7. Clear(store[s], s, earlier[s], chain, height' - CacheSize + 1)
        BY <1>1, <3>5, <3>6, ClearFacts DEF ClearTo
      <3> QED
        BY <1>1, <3>7 DEF ClearTo, Bottom
    <2> QED
      BY <1>1, <2>1, <2>2 DEF Paid
  <1>3. CASE FillCache
    <2>1. /\ phase = "init" /\ phase' \in {"init", "idle"} /\ height' = height /\ HasBlock(height - next)
          /\ next' = next + 1 /\ UNCHANGED <<updated, tip, fixed, first_scan, step>> /\ step = "open"
      BY <1>3 DEF FillCache, InitFetch, scanner
    <2>2. lost = {} /\ Paid /\ Counters /\ first_scan
      BY <1>3, <2>1 DEF Start, PayInv, IInv, Carried
    <2>3. ~ (height = MaxU64 /\ next = 0)
      BY <1>1, <2>1, ScannerAssumption DEF HasBlock
    <2>4. \A s \in Tracked : ClearTo(s, Bottom)
      BY <2>1, <2>2, <2>3 DEF Paid
    <2>5. ASSUME NEW s \in Tracked PROVE ClearTo(s, height - CacheSize)
      <3>1. Bottom \in Int /\ height - CacheSize \in Int /\ height - CacheSize <= Bottom
        BY <1>1 DEF Bottom
      <3> QED
        BY <1>1, <2>4, <3>1, ClearFacts DEF ClearTo
    <2>6. \A s \in Tracked : Shows(s)' /\ ClearTo(s, Bottom)'
      BY <1>1, <2>1, <2>2, <2>4, <2>5 DEF Shows, ClearTo, Bottom
    <2>7. tip' = 0
      BY <2>1, <2>2 DEF Counters
    <2> QED
      BY <1>1, <2>1, <2>6, <2>7 DEF Paid
  <1>4. CASE OpenPool \/ Opened
    <2>1. /\ UNCHANGED <<blocks, height, phase, tip, next, updated, fixed, first_scan>>
          /\ step = "open" /\ step' \in {"open", "idle"} /\ step # "down"
      BY <1>4 DEF OpenPool, Opened, cache, window, locals, scanner
    <2>2. lost = {} /\ Paid
      BY <2>1 DEF Start
    <2>3. \A s : (Shows(s) => Shows(s)') /\ (ClearTo(s, Bottom) => ClearTo(s, Bottom)')
                 /\ (Fresh(s) => Fresh(s)')
      BY <1>1, <2>1 DEF Shows, ClearTo, Bottom, Fresh
    <2> QED
      BY <1>1, <2>1, <2>2, <2>3 DEF Paid
  <1> QED
    BY <1>2, <1>3, <1>4 DEF OpenScanner, Opening

LEMMA PaidScan ==
  ASSUME IInv, PayInv, lost = {}, lost' = {}, Scan
  PROVE  Paid'
  <1>1. Paid /\ Counters /\ Scanned /\ TypeInv
    BY DEF PayInv, IInv
  <1> USE DEF TypeInv, ScanInv, Control
  <1>2. CASE RunCache
    BY <1>2, PaidRunCache
  <1>3. CASE Save
    BY <1>1, <1>3 DEF Save, Paid, cache, window, locals, Resting, Asking
  <1> USE DEF Asking, Resting
  <1>4. ASSUME ~ RunCache, ~ Save
        PROVE  UNCHANGED <<chain, store, earlier, blocks, height>> /\ Tracked' = Tracked
    BY <1>4 DEF Scan, ScanStep, BeginScan, BeginPool, RunPool, ScanBlocks, ScanTxpool,
       Prepare, Flush, Call, Dispose, cache, window, monerod, Tracked
  <1>5. CASE BeginScan
    <2>1. /\ phase \in {"idle", "failed"} /\ phase' \in {"update", "skip_ahead"} /\ step = "idle"
          /\ step' = "blocks" /\ first_scan' = first_scan /\ updated' = 0 /\ fixed' = 0
      BY <1>1, <1>5 DEF BeginScan, Call
    <2>2. updated = 0 /\ fixed = 0 /\ \A s \in Tracked : Shows(s)
      BY <1>1, <2>1 DEF Counters, Untouched, Paid
    <2>3. \A s \in Tracked : Shows(s)'
      BY <1>4, <1>5, <2>1, <2>2 DEF Shows, ClearTo, Bottom, RunCache, Save
    <2> QED
      BY <1>4, <1>5, <2>1, <2>3 DEF Paid, RunCache, Save
  <1>6. CASE BeginPool \/ RunPool \/ ScanBlocks
    <2>1. /\ phase = "done" /\ UNCHANGED <<phase, updated, fixed, tip, first_scan>>
          /\ step' \notin {"prepare", "save"} /\ step \notin {"prepare", "save"}
          /\ UNCHANGED <<chain, store, earlier, blocks, height>> /\ Tracked' = Tracked
      BY <1>1, <1>4, <1>6 DEF BeginPool, RunPool, ScanBlocks, cache, locals, Save, RunCache, Tracked,
         monerod, window, Scan
    <2>2. \A s \in Tracked : Shows(s)
      BY <1>1, <2>1 DEF Paid
    <2>3. \A s \in Tracked : Shows(s)'
      BY <2>1, <2>2 DEF Shows, ClearTo, Bottom
    <2> QED
      BY <2>1, <2>3 DEF Paid
  <1>7. CASE ScanTxpool
    <2>0. /\ phase = "done" /\ UNCHANGED <<chain, store, earlier, blocks, height>> /\ Tracked' = Tracked
          /\ step \in {"scan_txpool", "only_txpool"}
      BY <1>1, <1>4, <1>7 DEF ScanTxpool, Save, RunCache
    <2>1. \A s \in Tracked : Shows(s)
      BY <1>1, <2>0 DEF Paid
    <2>2. CASE step = "scan_txpool"
      <3>1. step' = "prepare" /\ UNCHANGED <<phase, updated, fixed, tip>>
        BY <1>7, <2>2 DEF ScanTxpool, cache, locals
      <3>2. \A s \in Tracked : Shows(s)'
        BY <2>0, <2>1, <3>1 DEF Shows, ClearTo, Bottom
      <3> QED
        BY <2>0, <3>1, <3>2 DEF Paid
    <2>3. CASE step = "only_txpool"
      <3>1. step' = "idle" /\ phase' = "idle" /\ updated' = 0 /\ fixed' = fixed /\ first_scan' = first_scan
        BY <1>7, <2>3 DEF ScanTxpool, Dispose
      <3>2. fixed = 0 /\ (~ first_scan => updated = 0) /\ \A s \in Tracked : ClearTo(s, Bottom)
        BY <1>1, <2>0, <2>3 DEF Counters, Scanned
      <3>3. \A s \in Tracked : Shows(s)'
        BY <2>0, <2>1, <2>3, <3>1, <3>2 DEF Shows, ClearTo, Bottom
      <3> QED
        BY <2>0, <3>1, <3>3 DEF Paid
    <2> QED
      BY <2>0, <2>2, <2>3
  <1>8. CASE Prepare
    BY <1>8 DEF Prepare, Dispose, Paid
  <1>9. CASE Flush
    <2>1. /\ step = "save" /\ queue = {} /\ step' = "idle" /\ phase = "idle"
          /\ UNCHANGED <<phase, updated, fixed, tip, first_scan>>
          /\ UNCHANGED <<chain, store, earlier, blocks, height>> /\ Tracked' = Tracked
      BY <1>1, <1>9 DEF Flush, cache, locals, window, monerod, Tracked, Scan
    <2>2. \A s \in Tracked : Full(store[s], s)
      BY <1>1, <2>1 DEF Scanned
    <2>3. updated = 0 /\ fixed = 0
      BY <1>1, <2>1 DEF Counters, Untouched
    <2>4. ASSUME NEW s \in Tracked PROVE Shows(s)'
      <3>1. chain \in Chains /\ Bottom \in Int /\ height - CacheSize \in Int
            /\ height - CacheSize <= Bottom
        BY <1>1, CellsFacts DEF CacheInv, CacheTypeOK, MonerodTypeOK, Bottom
      <3>2. Clear(store[s], s, earlier[s], chain, height - CacheSize)
        BY <2>2, <3>1, ClearFacts DEF Full
      <3> QED
        BY <2>1, <2>2, <2>3, <3>2 DEF Shows, ClearTo, Full, Bottom, Max2
    <2> QED
      BY <2>1, <2>4 DEF Paid
  <1> QED
    BY <1>2, <1>3, <1>5, <1>6, <1>7, <1>8, <1>9 DEF Scan, ScanStep

LEMMA PaidFail ==
  ASSUME OneAmount, IInv, PayInv, lost = {}, lost' = {}, FailScan
  PROVE  Paid'
  <1>1. Paid /\ Counters /\ Anchored /\ Scanned /\ TypeInv
    BY DEF PayInv, IInv
  <1> USE DEF TypeInv, ScanInv, Control, Asking, Resting
  <1>2. UNCHANGED <<chain, store, earlier>> /\ Tracked' = Tracked
    BY DEF FailScan, Failure, CachesFail, ScanBlocksFail, StoreFail, SaveFail, OpenFail, Discard,
       monerod, Tracked
  <1>3. CASE OpenFail
    BY <1>3 DEF OpenFail, Discard, Paid
  <1>4. CASE step \in {"pool", "scan_blocks", "scan_txpool", "only_txpool"} /\ phase' = "idle"
               /\ updated' = 0 /\ fixed' = fixed /\ first_scan' = first_scan
               /\ UNCHANGED <<blocks, height>>
    <2>1. (~ first_scan => updated = 0) /\ fixed = 0
          /\ \A s \in Tracked : Shows(s) /\ ClearTo(s, Bottom)
      BY <1>4, FailedScan
    <2>2. \A s \in Tracked : Shows(s)'
      BY <1>2, <1>4, <2>1 DEF Shows, ClearTo, Bottom
    <2> QED
      BY <1>2, <1>4, <2>2 DEF Paid
  <1>5. CASE CachesFail /\ step = "blocks"
    <2>1. /\ phase \in Asking \cup {"skip", "fix"} /\ phase' = "failed" /\ first_scan' = first_scan
          /\ updated' = 0 /\ fixed' = 0 /\ UNCHANGED <<blocks, height>>
      BY <1>1, <1>5 DEF CachesFail, RpcFail, Requesting
    <2>2. updated = 0 /\ fixed = 0
      <3>1. updated \in Nat /\ fixed \in Nat
        BY <1>1 DEF CacheInv, CacheTypeOK
      <3> QED
        BY <1>5, <3>1 DEF FailScan
    <2>3. ASSUME NEW s \in Tracked
          PROVE  /\ ClearTo(s, height - CacheSize) /\ ClearTo(s, Bottom)
                 /\ ~ first_scan => CellsShown(store[s], s, earlier[s], blocks, height, 0)
      <3>1. CASE phase = "skip"
        <4>1. tip > height /\ tip <= Len(chain) /\ height \in Nat /\ tip \in Nat
          BY <1>1, <3>1 DEF Counters, Anchored, CacheInv, CacheTypeOK
        <4>2. Fresh(s)
          BY <1>1, <3>1, <4>1 DEF Paid
        <4>3. Bottom \in Int /\ Bottom <= height /\ height - CacheSize \in Int
              /\ height - CacheSize <= height
          BY <4>1, CellsFacts DEF Bottom
        <4> QED
          BY <1>1, <4>1, <4>2, <4>3, FreshShows
      <3>2. CASE phase # "skip"
        <4>1. phase = "fix" => tip = 0
          <5>1. tip \in Nat
            BY <1>1 DEF CacheInv, CacheTypeOK
          <5> QED
            BY <1>1, <2>2, <5>1 DEF Counters
        <4>2. Shows(s)
          BY <1>1, <1>5, <2>1, <3>2, <4>1 DEF Paid
        <4> QED
          BY <1>5, <2>2, <4>2 DEF Shows, Max2
      <3> QED
        BY <3>1, <3>2
    <2>4. \A s \in Tracked : Shows(s)'
      BY <1>2, <2>1, <2>3 DEF Shows, ClearTo, Bottom, Max2
    <2> QED
      BY <1>2, <2>1, <2>4 DEF Paid
  <1>6. CASE CachesFail /\ step = "pool"
    BY <1>4, <1>6 DEF CachesFail, Dispose, window
  <1>7. CASE StoreFail
    <2>1. step # "prepare"
      BY DEF FailScan
    <2> QED
      BY <1>4, <1>7, <2>1 DEF StoreFail, Dispose, window
  <1>8. CASE ScanBlocksFail
    <2>1. /\ phase = "done" /\ UNCHANGED <<phase, blocks, height, updated, fixed, tip, first_scan>>
          /\ step = "scan_blocks" /\ step' = "only_txpool"
      BY <1>1, <1>8 DEF ScanBlocksFail, cache, locals, window
    <2>2. \A s \in Tracked : Shows(s)
      BY <1>1, <2>1 DEF Paid
    <2>3. \A s \in Tracked : Shows(s)'
      BY <1>2, <2>1, <2>2 DEF Shows, ClearTo, Bottom
    <2> QED
      BY <1>2, <2>1, <2>3 DEF Paid
  <1>9. CASE SaveFail
    BY <1>9 DEF SaveFail, FailScan
  <1> QED
    BY <1>3, <1>5, <1>6, <1>7, <1>8, <1>9 DEF FailScan, Failure, CachesFail

LEMMA PaidStep ==
  ASSUME OneAmount, IInv, PayInv, Anchored', [Next]_<<vars, ghosts>>, lost' = {}
  PROVE  Paid'
  <1>1. TypeInv'
    BY TypesStep DEF IInv
  <1>2. CASE OpenScanner /\ Start /\ Tracked = {}
    BY <1>2, PaidOpening DEF PayInv
  <1>3. CASE lost = {}
    <2>1. CASE MoveDaemon
      BY <1>1, <1>3, <2>1, PaidDaemon
    <2>2. CASE CallApi
      BY <1>1, <1>3, <2>2, PaidApi
    <2>3. CASE OpenScanner
      BY <1>3, <2>3, PaidOpening DEF PayInv
    <2>4. CASE Scan
      BY <1>3, <2>4, PaidScan
    <2>5. CASE FailScan
      BY <1>3, <2>5, PaidFail
    <2>6. CASE EndScanner
      BY <2>6 DEF EndScanner, Stop, Crash, Discard, Paid, Resting, Asking
    <2>7. CASE UNCHANGED <<vars, ghosts>>
      <3>1. Paid
        BY <1>3 DEF PayInv
      <3> QED
        BY <2>7, <3>1 DEF vars, ghosts, monerod, cache, window, locals, scanner, Tracked,
           Paid, Shows, ClearTo, Bottom, Fresh
    <2> QED
      BY <2>1, <2>2, <2>3, <2>4, <2>5, <2>6, <2>7 DEF Next
  <1> QED
    BY <1>2, <1>3, LostBefore
------------------------------------------------------------------------------
(***************************************************************************)
(* What a scan finds, and how it is saved.                                 *)
(***************************************************************************)
\* scan_txpool() adds to what scan_blocks() has found.
LEMMA FoundGrows ==
  ASSUME TypeInv, ScanTxpool, step = "scan_txpool"
  PROVE  ToSet(found) \subseteq ToSet(found')
  BY TxpoolScan

LEMMA ScannedDaemon ==
  ASSUME IInv, TypeInv', PayInv, lost = {}, lost' = {}, MoveDaemon
  PROVE  Scanned'
  <1>1. /\ UNCHANGED <<blocks, height, updated, store, first_scan, step, found, queue, earlier>>
        /\ Tracked' = Tracked
    BY DaemonKeeps DEF IInv, Tracked, cache, window, locals
  <1>2. Anchored /\ Scanned
    BY DEF PayInv
  <1>3. phase # "down" => \A inv, s, old : \A n \in Int :
          n <= Bottom /\ Clear(inv, s, old, chain, n) => Clear(inv, s, old, chain', n)
    BY <1>2, DaemonClear DEF IInv
  <1>4. Bottom \in Int /\ Bottom <= Bottom
    BY CellsFacts DEF IInv, TypeInv, CacheInv, CacheTypeOK, Bottom
  <1>5. step \in {"only_txpool", "save"} => phase # "down"
    BY DEF IInv, TypeInv, ScanInv, Control
  <1>6. step \in {"only_txpool", "save"} =>
          /\ \A s : ClearTo(s, Bottom) => ClearTo(s, Bottom)'
          /\ \A inv, s : Full(inv, s) => Full(inv, s)'
    BY <1>1, <1>3, <1>4, <1>5 DEF ClearTo, Full, Bottom
  <1>7. \A inv, s : For(inv, s)' <=> For(inv, s)
    BY <1>1 DEF For
  <1>8. \A s, k : InFound(s, k)' <=> InFound(s, k)
    BY <1>1 DEF InFound
  <1>9. step = "save" =>
          \A s \in Tracked :
            /\ \A inv \in queue : For(inv, s)' => Full(inv, s)'
            /\ (\E inv \in queue : For(inv, s)') \/ Full(store[s], s)'
    BY <1>1, <1>2, <1>6, <1>7 DEF Scanned
  <1> QED
    BY <1>1, <1>2, <1>6, <1>8, <1>9 DEF Scanned
LEMMA ScannedApi ==
  ASSUME IInv, TypeInv', PayInv, lost = {}, CallApi
  PROVE  Scanned'
  <1>1. /\ UNCHANGED <<chain, blocks, height, updated, first_scan, step, found, queue>>
        /\ \A s \in Tracked' :
             \/ s \in Tracked /\ store'[s] = store[s] /\ earlier'[s] = earlier[s]
             \/ store'[s] \in creating /\ earlier'[s] = ever
    BY ApiMoves DEF IInv, monerod, cache, window, locals
  <1>2. Anchored /\ Scanned /\ CellsKnown
    BY DEF PayInv
  <1>3. step \in {"only_txpool", "scan_txpool", "prepare", "save"} => phase \in {"idle", "done"}
    BY DEF IInv, TypeInv, ScanInv, Control
  <1>4. /\ \A inv, s : \A n \in Int : n < Len(chain) => Clear(inv, s, ever, chain, n)
        /\ phase \notin {"down", "init"} => \A k \in Cells : TxsOf[blocks[k]] \subseteq ever
    BY <1>2, Youngest DEF IInv
  <1>5. Bottom \in Int
    BY CellsFacts DEF IInv, TypeInv, CacheInv, CacheTypeOK, Bottom
  <1>6. ASSUME phase \in {"idle", "done"}
        PROVE  /\ \A inv, s : Clear(inv, s, ever, chain, Bottom)
               /\ \A inv, s, n : CellsShown(inv, s, ever, blocks, height, n)
               /\ \A s, k : k \in Cells => Due(s, ever, blocks[k]) = {}
    <2>1. Bottom < Len(chain)
      BY <1>2, <1>6, BottomLow DEF IInv, Resting
    <2>2. \A k \in Cells : TxsOf[blocks[k]] \subseteq ever
      BY <1>4, <1>6
    <2> QED
      BY <1>4, <1>5, <2>1, <2>2, NoneDue
  <1>7. ASSUME step = "only_txpool"
        PROVE  (~ first_scan => updated = 0) /\ \A s \in Tracked' : ClearTo(s, Bottom)'
    <2>1. (~ first_scan => updated = 0) /\ \A s \in Tracked : ClearTo(s, Bottom)
      BY <1>2, <1>7 DEF Scanned
    <2> QED
      BY <1>1, <1>3, <1>6, <1>7, <2>1 DEF ClearTo, Bottom
  <1>8. ASSUME step = "scan_txpool", NEW s \in Tracked', NEW k \in Cells,
               k < (IF first_scan THEN CacheSize ELSE updated)
        PROVE  InFound(s, k)'
    BY <1>1, <1>2, <1>3, <1>6, <1>8 DEF Scanned, InFound
  <1>9. ASSUME step = "prepare", NEW s \in Tracked', NEW k \in Cells
        PROVE  \/ InFound(s, k)'
               \/ k >= updated /\ Shown(store'[s], Due(s, earlier'[s], blocks[k]), height - k)
    BY <1>1, <1>2, <1>3, <1>6, <1>9 DEF Scanned, InFound
  <1>10. ASSUME step = "save", NEW s \in Tracked'
         PROVE  /\ \A inv \in queue : For(inv, s)' => Full(inv, s)'
                /\ (\E inv \in queue : For(inv, s)') \/ Full(store[s], s)'
    <2>1. CASE s \in Tracked /\ store'[s] = store[s] /\ earlier'[s] = earlier[s]
      <3>1. /\ \A inv \in queue : For(inv, s) => Full(inv, s)
            /\ (\E inv \in queue : For(inv, s)) \/ Full(store[s], s)
        BY <1>2, <1>10, <2>1 DEF Scanned
      <3>2. \A inv : (For(inv, s)' <=> For(inv, s)) /\ (Full(inv, s)' <=> Full(inv, s))
        BY <1>1, <2>1 DEF For, Full, Bottom
      <3> QED
        BY <2>1, <3>1, <3>2
    <2>2. CASE earlier'[s] = ever
      <3>1. \A inv : Full(inv, s)'
        BY <1>1, <1>3, <1>6, <1>10, <2>2 DEF Full, Bottom
      <3> QED
        BY <3>1
    <2> QED
      BY <1>1, <2>1, <2>2
  <1> QED
    BY <1>1, <1>7, <1>8, <1>9, <1>10 DEF Scanned

\* What an update shows after Prepare.
LEMMA NewIsFull ==
  ASSUME IInv, PayInv, lost = {}, Prepare, NEW s \in Tracked
  PROVE  Full(New(s), s)
  <1>1. /\ step = "prepare" /\ phase = "done" /\ TypeInv /\ Anchored /\ Paid /\ Scanned
        /\ store[s] \in InvoiceType(Sub) /\ store[s].index = s
    BY DEF Prepare, IInv, TypeInv, ScanInv, Control, PayInv, StoreInv
  <1>2. /\ height \in Nat /\ updated \in Nat /\ updated <= CacheSize /\ CacheSize \in Nat
        /\ CacheSize >= 1 /\ chain \in Chains /\ Bottom \in Int /\ height >= CacheSize - 1
        /\ Bottom = height - CacheSize + 1
    BY <1>1, CellsFacts DEF TypeInv, CacheInv, CacheTypeOK, MonerodTypeOK, Window, Bottom
  <1>3. /\ New(s).creation_height = store[s].creation_height /\ store[s].creation_height \in Nat
        /\ \A tr \in ToSet(store[s].transfers) :
             Before(tr.height, DeepestUpdate) => tr \in ToSet(New(s).transfers)
        /\ \A f \in ToSet(found) :
             Mine(store[s], f) => Transfer(f.amount, f.height) \in ToSet(New(s).transfers)
    BY <1>1, Prepared DEF InvoiceType
  <1>4. ASSUME NEW due, NEW h \in Int, h <= height - updated, Shown(store[s], due, h)
        PROVE  Shown(New(s), due, h)
    <2>1. ASSUME NEW t \in due, Payment(t, h) \in ToSet(store[s].transfers)
          PROVE  Payment(t, h) \in ToSet(New(s).transfers)
      <3>1. Payment(t, h).height = h /\ h < DeepestUpdate
        BY <1>2, <1>4 DEF Payment, Transfer, DeepestUpdate
      <3>2. Before(Payment(t, h).height, DeepestUpdate)
        BY <1>4, <3>1, InvoiceAssumption DEF Before
      <3> QED
        BY <1>3, <2>1, <3>2
    <2> QED
      BY <1>3, <1>4, <2>1 DEF Shown
  <1>5. ASSUME NEW k \in Cells, InFound(s, k)
        PROVE  Shown(New(s), Due(s, earlier[s], blocks[k]), height - k)
    <2>1. ASSUME NEW t \in Due(s, earlier[s], blocks[k]), New(s).creation_height > 0,
                 height - k >= New(s).creation_height
          PROVE  Payment(t, height - k) \in ToSet(New(s).transfers)
      <3>1. Finding(t, s, height - k) \in ToSet(found)
        BY <1>5 DEF InFound
      <3>2. height - k > Dec(store[s].creation_height)
        BY <1>2, <1>3, <2>1, CellsFacts DEF Dec, Cells
      <3>3. Mine(store[s], Finding(t, s, height - k))
        BY <1>1, <3>2 DEF Mine, After, Finding
      <3>4. Transfer(Finding(t, s, height - k).amount, Finding(t, s, height - k).height)
              = Payment(t, height - k)
        BY DEF Finding, Payment
      <3> QED
        BY <1>3, <3>1, <3>3, <3>4
    <2> QED
      BY <2>1 DEF Shown
  <1>6. CellsShown(New(s), s, earlier[s], blocks, height, 0)
    <2> SUFFICES ASSUME NEW k \in Cells
                 PROVE  Shown(New(s), Due(s, earlier[s], blocks[k]), height - k)
      BY DEF CellsShown
    <2>1. \/ InFound(s, k)
          \/ k >= updated /\ Shown(store[s], Due(s, earlier[s], blocks[k]), height - k)
      BY <1>1 DEF Scanned
    <2>2. k \in Nat /\ height - k \in Int /\ (k >= updated => height - k <= height - updated)
      BY <1>2 DEF Cells
    <2> QED
      BY <1>4, <1>5, <2>1, <2>2
  <1>7. Clear(New(s), s, earlier[s], chain, Bottom - 1)
    <2>1. Bottom - 1 = height - CacheSize /\ ClearTo(s, height - CacheSize)
      BY <1>1, <1>2 DEF Paid, Shows, Resting
    <2>2. \A h \in 0 .. Bottom - 1 : h <= height - updated /\ h \in Int
      BY <1>2
    <2> QED
      BY <1>4, <2>1, <2>2 DEF ClearTo, Clear
  <1>8. On(chain, blocks[CacheSize - 1], Bottom)
    BY <1>1 DEF Anchored, OnBottom, Resting
  <1>9. Shown(New(s), Due(s, earlier[s], blocks[CacheSize - 1]), Bottom)
    <2>1. CacheSize - 1 \in Cells /\ CacheSize - 1 >= 0 /\ height - (CacheSize - 1) = Bottom
      BY <1>2 DEF Cells
    <2>2. Shown(New(s), Due(s, earlier[s], blocks[CacheSize - 1]), height - (CacheSize - 1))
      BY <1>6, <2>1 DEF CellsShown
    <2> QED
      BY <2>1, <2>2
  <1> QED
    BY <1>2, <1>6, <1>7, <1>8, <1>9, ClearUp DEF Full
LEMMA ScannedScan ==
  ASSUME IInv, PayInv, lost = {}, lost' = {}, Scan
  PROVE  Scanned'
  <1>1. Paid /\ Counters /\ Scanned /\ Queue /\ TypeInv /\ CacheInv /\ StoreInv
    BY DEF PayInv, IInv, TypeInv
  <1> USE DEF ScanInv, Control
  <1>2. CASE BeginScan \/ RunCache \/ BeginPool \/ RunPool \/ Flush
    BY <1>1, <1>2 DEF BeginScan, RunCache, BeginPool, RunPool, Flush, scanner, Scanned, TypeInv
  <1>3. CASE ScanBlocks
    <2> DEFINE n == IF first_scan THEN CacheSize ELSE updated
    <2>1. /\ step' = "scan_txpool" /\ found' = BlockCredits(n) /\ phase = "done"
          /\ UNCHANGED <<store, earlier, blocks, height, updated, first_scan>> /\ Tracked' = Tracked
      BY <1>1, <1>3 DEF ScanBlocks, TypeInv, cache, window, locals, Tracked, Scan
    <2>2. n \in Nat /\ n <= CacheSize
      BY <1>1, <2>1, CellsFacts DEF CacheInv, CacheTypeOK, Window
    <2>3. Tracked \subseteq Sub
      BY <1>1 DEF StoreInv
    <2> HIDE DEF n
    <2>4. ASSUME NEW s \in Tracked, NEW k \in Cells, k < n, NEW t \in Due(s, earlier[s], blocks[k])
          PROVE  Finding(t, s, height - k) \in ToSet(found')
      <3>1. t \in TxsOf[blocks[k]] /\ Pays(t, s)
        BY <2>4 DEF Due
      <3> QED
        BY <1>1, <2>1, <2>2, <2>3, <2>4, <3>1, BlockCreditsFacts
    <2> QED
      BY <2>1, <2>4 DEF Scanned, InFound, n
  <1>4. CASE ScanTxpool
    <2>1. /\ UNCHANGED <<store, earlier, blocks, height>> /\ Tracked' = Tracked
          /\ step \in {"scan_txpool", "only_txpool"} /\ phase = "done"
      BY <1>1, <1>4 DEF ScanTxpool, Dispose, cache, window, Tracked, Scan, TypeInv
    <2>2. CASE step = "only_txpool"
      BY <1>4, <2>2 DEF ScanTxpool, Scanned
    <2>3. CASE step = "scan_txpool"
      <3>1. step' = "prepare" /\ updated' = updated
        BY <1>4, <2>3 DEF ScanTxpool, cache, locals
      <3>2. ToSet(found) \subseteq ToSet(found')
        BY <1>1, <1>4, <2>3, FoundGrows
      <3>3. updated \in Nat /\ CacheSize \in Nat /\ fixed = 0 /\ Max2(updated, fixed) = updated
        BY <1>1, <2>1, CellsFacts DEF CacheInv, CacheTypeOK, Counters, Max2
      <3>4. ASSUME NEW s \in Tracked, NEW k \in Cells
            PROVE  \/ InFound(s, k)
                   \/ k >= updated /\ Shown(store[s], Due(s, earlier[s], blocks[k]), height - k)
        <4>1. CASE k < (IF first_scan THEN CacheSize ELSE updated)
          BY <1>1, <2>3, <4>1 DEF Scanned
        <4>2. CASE ~ (k < (IF first_scan THEN CacheSize ELSE updated))
          <5>1. ~ first_scan /\ k >= updated
            BY <3>3, <4>2 DEF Cells
          <5>2. CellsShown(store[s], s, earlier[s], blocks, height, updated)
            BY <1>1, <2>1, <2>3, <3>3, <5>1 DEF Paid, Shows, Resting
          <5> QED
            BY <5>1, <5>2 DEF CellsShown
        <4> QED
          BY <4>1, <4>2
      <3>5. \A s, k : InFound(s, k) => InFound(s, k)'
        BY <2>1, <3>2 DEF InFound
      <3> QED
        BY <2>1, <3>1, <3>4, <3>5 DEF Scanned
    <2> QED
      BY <2>1, <2>2, <2>3
  <1>5. CASE Prepare
    <2>1. step' = "save" /\ UNCHANGED <<chain, store, earlier, blocks, height>> /\ Tracked' = Tracked
      BY <1>5 DEF Prepare, Dispose, window, monerod, Tracked, Scan
    <2>2. \A s \in Tracked : Full(New(s), s)
      BY <1>5, NewIsFull
    <2>3. \A inv, s : (For(inv, s)' <=> For(inv, s)) /\ (Full(inv, s)' <=> Full(inv, s))
      BY <2>1 DEF For, Full, Bottom
    <2>4. ASSUME NEW s \in Tracked, NEW inv \in queue', For(inv, s) PROVE Full(inv, s)
      <3>1. inv = New(s)
        BY <1>1, <1>5, <2>4, Prepared DEF For
      <3> QED
        BY <2>2, <3>1
    <2>5. ASSUME NEW s \in Tracked PROVE (\E inv \in queue' : For(inv, s)) \/ Full(store[s], s)
      <3>1. For(New(s), s) /\ (New(s) \in queue' \/ New(s) = store[s])
        BY <1>1, <1>5, Prepared DEF For
      <3> QED
        BY <2>2, <3>1
    <2> QED
      BY <2>1, <2>3, <2>4, <2>5 DEF Scanned
  <1>6. CASE Save
    <2>1. PICK inv \in queue :
            /\ store' = IF inv.index \in Tracked
                           /\ store[inv.index].creation_height = inv.creation_height
                        THEN [store EXCEPT ![inv.index] = inv] ELSE store
            /\ queue' = queue \ {inv}
      BY <1>6 DEF Save
    <2>2. step = "save" /\ step' = "save" /\ UNCHANGED <<chain, earlier, blocks, height>>
      BY <1>6 DEF Save, cache, window, monerod, Scan
    <2>3. Tracked' = Tracked /\ \A s \in Tracked :
            store'[s] = IF For(inv, s) THEN inv ELSE store[s]
      BY <2>1 DEF Tracked, For
    <2>4. \A s \in Tracked : \A other : For(other, s)' <=> For(other, s)
      BY <2>3 DEF For
    <2>5. \A other, s : Full(other, s)' <=> Full(other, s)
      BY <2>2 DEF Full, Bottom
    <2>6. \A s \in Tracked :
            /\ \A other \in queue : For(other, s) => Full(other, s)
            /\ (\E other \in queue : For(other, s)) \/ Full(store[s], s)
      BY <1>1, <2>2 DEF Scanned
    <2>7. \A s \in Tracked, other \in queue' : For(other, s)' => Full(other, s)'
      BY <2>1, <2>4, <2>5, <2>6
    <2>8. ASSUME NEW s \in Tracked
          PROVE  (\E other \in queue' : For(other, s)) \/ Full(store'[s], s)
      <3>1. CASE For(inv, s)
        BY <2>3, <2>6, <3>1
      <3>2. CASE ~ For(inv, s)
        BY <2>1, <2>3, <2>6, <3>2
      <3> QED
        BY <3>1, <3>2
    <2> QED
      BY <2>2, <2>3, <2>4, <2>5, <2>7, <2>8 DEF Scanned
  <1> QED
    BY <1>2, <1>3, <1>4, <1>5, <1>6 DEF Scan, ScanStep

LEMMA ScannedStep ==
  ASSUME OneAmount, IInv, PayInv, [Next]_<<vars, ghosts>>, lost' = {}
  PROVE  Scanned'
  <1>1. TypeInv'
    BY TypesStep DEF IInv
  <1>2. CASE OpenScanner
    BY <1>2 DEF OpenScanner, Opening, Start, OpenPool, FillCache, Opened, scanner, Scanned
  <1>3. CASE lost = {} /\ ~ OpenScanner
    <2>1. CASE MoveDaemon
      BY <1>1, <1>3, <2>1, ScannedDaemon
    <2>2. CASE CallApi
      BY <1>1, <1>3, <2>2, ScannedApi
    <2>3. CASE Scan
      BY <1>3, <2>3, ScannedScan
    <2>4. CASE FailScan
      <3>1. CASE ScanBlocksFail
        <4>1. /\ UNCHANGED <<chain, store, earlier, blocks, height, updated, first_scan>>
              /\ Tracked' = Tracked /\ step = "scan_blocks" /\ step' = "only_txpool"
          BY <2>4, <3>1 DEF ScanBlocksFail, FailScan, monerod, cache, window, locals, Tracked
        <4>2. (~ first_scan => updated = 0) /\ \A s \in Tracked : ClearTo(s, Bottom)
          BY <1>3, <2>4, <4>1, FailedScan
        <4> QED
          BY <4>1, <4>2 DEF Scanned, ClearTo, Bottom
      <3>2. CASE ~ ScanBlocksFail
        BY <2>4, <3>2 DEF FailScan, Failure, CachesFail, StoreFail, SaveFail, OpenFail, Discard, Scanned
      <3> QED
        BY <3>1, <3>2
    <2>5. CASE EndScanner
      BY <2>5 DEF EndScanner, Stop, Crash, Discard, Scanned
    <2>6. CASE UNCHANGED <<vars, ghosts>>
      <3>1. Scanned
        BY <1>3 DEF PayInv
      <3> QED
        BY <2>6, <3>1 DEF vars, ghosts, monerod, cache, window, locals, scanner, Tracked,
           Scanned, InFound, ClearTo, Bottom, For, Full
    <2> QED
      BY <1>3, <2>1, <2>2, <2>3, <2>4, <2>5, <2>6 DEF Next
  <1> QED
    BY <1>2, <1>3, LostBefore
------------------------------------------------------------------------------
LEMMA PayInductive ==
  ASSUME OneAmount
  PROVE  Spec => []PayInv
  <1>1. Init => PayInv
    <2> SUFFICES ASSUME Init PROVE PayInv
      OBVIOUS
    <2> USE DEF Init, ScannerInit, MonerodInit, CacheInit, TxpoolInit
    <2>1. CellsKnown
      BY MonerodAssumption DEF CellsKnown, BlockAssumption
    <2>2. Counters
      BY DEF Counters, Untouched, Asking
    <2>3. Queue
      BY DEF Queue, NoOne
    <2>4. Anchored /\ Safe /\ Paid /\ Scanned
      BY DEF Anchored, Safe, Paid, Scanned, Resting, Asking, EmptyStore, Tracked
    <2> QED
      BY <2>1, <2>2, <2>3, <2>4 DEF PayInv
  <1>2. IInv /\ PayInv /\ [Next]_<<vars, ghosts>> => PayInv'
    <2> SUFFICES ASSUME IInv, PayInv, [Next]_<<vars, ghosts>> PROVE PayInv'
      OBVIOUS
    <2>1. CellsKnown' /\ Counters' /\ Queue'
      BY CellsKnownStep, CountersStep, QueueStep DEF IInv, PayInv
    <2>2. ASSUME lost' = {} PROVE Anchored' /\ Safe' /\ Paid' /\ Scanned'
      <3>1. Anchored'
        BY <2>2, AnchoredStep DEF IInv, PayInv
      <3>2. Safe'
        BY <2>2, SafeStep DEF IInv, PayInv
      <3>3. Paid'
        BY <2>2, <3>1, PaidStep
      <3>4. Scanned'
        BY <2>2, ScannedStep
      <3> QED
        BY <3>1, <3>2, <3>3, <3>4
    <2> QED
      BY <2>1, <2>2 DEF PayInv
  <1> QED
    BY <1>1, <1>2, Inductive, PTL DEF Spec

\* A linked window with its top on the chain is on the chain.
LEMMA WindowOn ==
  ASSUME TypeInv, phase \in Resting, AllLinked, On(chain, blocks[0], height)
  PROVE  \A k \in Cells : On(chain, blocks[k], height - k)
  <1>1. /\ chain \in Chains /\ CacheSize \in Nat /\ height \in Nat /\ height >= CacheSize - 1
    BY CellsFacts DEF TypeInv, CacheInv, CacheTypeOK, MonerodTypeOK, Window, Resting
  <1> DEFINE off == {k \in Cells : ~ On(chain, blocks[k], height - k)}
  <1> SUFFICES ASSUME off # {} PROVE FALSE
    OBVIOUS
  <1>2. PICK m \in off : \A k \in off : m <= k
    <2>1. off \in SUBSET Nat
      BY DEF Cells
    <2> HIDE DEF off
    <2> QED
      BY <2>1, Least
  <1>3. m \in Cells /\ m \in Nat /\ ~ On(chain, blocks[m], height - m)
    BY <1>2 DEF Cells
  <1>4. m # 0
    <2>1. height - 0 = height
      BY <1>1
    <2> QED
      BY <1>3, <2>1
  <1>5. m - 1 \in Cells /\ m - 1 \in Links /\ m - 1 \notin off /\ (m - 1) + 1 = m
    BY <1>1, <1>2, <1>3, <1>4 DEF Cells, Links
  <1>6. On(chain, blocks[m - 1], height - (m - 1)) /\ Prev[blocks[m - 1]] = blocks[m]
    BY <1>5 DEF AllLinked, Linked
  <1>7. height - (m - 1) \in Int /\ height - (m - 1) >= 1 /\ (height - (m - 1)) - 1 = height - m
    BY <1>1, <1>3 DEF Cells
  <1>8. On(chain, blocks[m], height - m)
    BY <1>1, <1>6, <1>7, ParentOn
  <1> QED
    BY <1>3, <1>8

\* Every block between the creation of an up to date invoice and the tip is shown.
LEMMA MinedIsShown ==
  ASSUME IInv, PayInv, Settled, lost = {}, NEW s \in Current,
         NEW h \in store[s].creation_height .. height
  PROVE  /\ s \in Tracked /\ StoreInv /\ store[s].creation_height > 0
         /\ HasBlock(h) /\ BlockAt(h) \in Block
         /\ Shown(store[s], Due(s, earlier[s], BlockAt(h)), h)
  <1>1. /\ s \in Tracked /\ store[s].creation_height > 0 /\ store[s].creation_height \in Nat
        /\ StoreInv /\ Anchored /\ Paid /\ Counters /\ TypeInv
        /\ phase \in {"idle", "failed"} /\ step = "idle" /\ ~ first_scan
    BY DEF Current, Settled, IInv, TypeInv, StoreInv, InvoiceType, PayInv, ScanInv, Control
  <1>2. /\ chain \in Chains /\ CacheSize \in Nat /\ CacheSize >= 1 /\ height \in Nat /\ h \in Nat
        /\ h <= height /\ On(chain, blocks[0], height)
    BY <1>1, CellsFacts DEF TypeInv, CacheInv, CacheTypeOK, MonerodTypeOK, Settled
  <1>3. /\ updated = 0 /\ fixed = 0 /\ AllLinked /\ Shows(s)
    BY <1>1 DEF Counters, Untouched, Anchored, Paid, Resting
  <1>4. HasBlock(h) /\ BlockAt(h) \in Block
    BY <1>2, ChainBlocks DEF On, HasBlock, BlockAt
  <1>5. Shown(store[s], Due(s, earlier[s], BlockAt(h)), h)
    <2>1. CASE h <= Bottom
      <3>1. ClearTo(s, Bottom) /\ h \in 0 .. Bottom
        BY <1>2, <1>3, <2>1 DEF Shows, Bottom
      <3> QED
        BY <3>1 DEF ClearTo, Clear, BlockAt
    <2>2. CASE h > Bottom
      <3>1. height - h \in Cells /\ height - (height - h) = h /\ height - h >= 0
        BY <1>2, <2>2 DEF Bottom, Cells
      <3>2. On(chain, blocks[height - h], h)
        BY <1>1, <1>2, <1>3, <3>1, WindowOn DEF Resting
      <3>3. CellsShown(store[s], s, earlier[s], blocks, height, 0)
        BY <1>1, <1>3 DEF Shows, Max2
      <3>4. Shown(store[s], Due(s, earlier[s], blocks[height - h]), h)
        BY <3>1, <3>3 DEF CellsShown
      <3> QED
        BY <3>2, <3>4 DEF On, BlockAt
    <2> QED
      BY <1>2, <2>1, <2>2 DEF Bottom
  <1> QED
    BY <1>1, <1>4, <1>5

(***************************************************************************)
(* Unless the code has left blocks unscanned for one of the reasons that   *)
(* `lost` names, a scan that has been completed leaves every invoice with  *)
(* every payment that was mined for it since its creation: no block is     *)
(* passed over, wherever the daemon moves between two requests, whichever  *)
(* request fails before a block has been taken, and wherever the process   *)
(* ends or the scanner is stopped and started again.  OneAmount is what    *)
(* scan_transactions takes for granted (scanner.rs:372).                   *)
(***************************************************************************)
THEOREM NoPaymentIsLost ==
  ASSUME OneAmount
  PROVE  Spec => []NoPaymentLost
  <1>1. IInv /\ PayInv => NoPaymentLost
    <2> SUFFICES ASSUME IInv, PayInv, Settled, lost = {}, NEW s \in Current,
                        NEW h \in store[s].creation_height .. height
                 PROVE  ~ Misses(s, BlockAt(h), h)
      BY DEF NoPaymentLost
    <2>1. /\ s \in Tracked /\ StoreInv /\ store[s].creation_height > 0 /\ BlockAt(h) \in Block
          /\ Shown(store[s], Due(s, earlier[s], BlockAt(h)), h)
      BY MinedIsShown
    <2> QED
      BY <2>1, ShownOrMissed
  <1> QED
    BY <1>1, Inductive, PayInductive, PTL
------------------------------------------------------------------------------
(***************************************************************************)
(* No transfer of a mined payment is shown twice.                          *)
(***************************************************************************)
Mined(tr) == tr.height # NoHeight
Blank(inv) == \A tr \in ToSet(inv.transfers) : ~ Mined(tr)
Single(inv) == \A tr \in ToSet(inv.transfers) : Mined(tr) => AtMostOnce(inv.transfers, tr)

AllBlank == \A s \in Tracked : Blank(store[s])
FoundOnce == \A f \in ToSet(found) : Mined(f) => AtMostOnce(found, f)
\* What a scan has found, the transfers that Updated keeps do not hold.
FoundAbove == \A f \in ToSet(found) : Mined(f) => f.height >= DeepestUpdate

Singles ==
  /\ \A s \in Tracked : Single(store[s])
  /\ first_scan => AllBlank
  /\ step \in {"scan_txpool", "prepare"} => FoundOnce
  /\ step = "scan_txpool" => first_scan \/ FoundAbove
  /\ step = "prepare" => FoundAbove \/ AllBlank
  /\ step = "save" => \A inv \in queue : Single(inv)

OnceInv ==
  /\ \A inv \in creating : inv.transfers = <<>>
  /\ \A t \in DOMAIN discovered : \A f \in ToSet(discovered[t]) : ~ Mined(f)
  /\ step \in {"prepare", "save"} => ~ first_scan
  /\ ~ resumed => Singles

LEMMA BlankFacts ==
  ASSUME NEW inv, inv.transfers = <<>>
  PROVE  Blank(inv) /\ Single(inv)
  BY DEF Blank, Single, ToSet

\* What scan_txpool() adds to what was found is in no block.
LEMMA TxpoolFinds ==
  ASSUME TypeInv, OnceInv, ScanTxpool
  PROVE  /\ \A t \in DOMAIN discovered' : \A f \in ToSet(discovered'[t]) : ~ Mined(f)
         /\ step = "scan_txpool" =>
              \A f : Mined(f) => /\ f \in ToSet(found') <=> f \in ToSet(found)
                                 /\ AtMostOnce(found, f) => AtMostOnce(found', f)
  <1>1. Tracked \subseteq Sub /\ NoHeight \in Height /\ found \in Seq(FoundType(Sub))
    BY DEF TypeInv, StoreInv, ScanInv, Height
  <1>2. \A t \in DOMAIN discovered' : t \in Tx
    BY TxpoolScan DEF ScanTxpool, TypeInv, PoolInv, PoolSets
  <1>3. ASSUME NEW t \in DOMAIN discovered', NEW f \in ToSet(discovered'[t]) PROVE ~ Mined(f)
    <2>1. CASE t \in DOMAIN discovered
      BY <1>3, <2>1, TxpoolScan DEF OnceInv
    <2>2. CASE discovered'[t] = Credits(t, NoHeight)
      BY <1>1, <1>2, <1>3, <2>2, CreditsFacts DEF Finding, Mined
    <2> QED
      BY <2>1, <2>2, TxpoolScan
  <1>4. ASSUME step = "scan_txpool", NEW f, Mined(f)
        PROVE  /\ f \in ToSet(found') <=> f \in ToSet(found)
               /\ AtMostOnce(found, f) => AtMostOnce(found', f)
    <2>1. PICK all \in Seq(FoundType(Sub)) :
            /\ found' = found \o all
            /\ ToSet(found') = ToSet(found) \cup ToSet(all)
            /\ \A c : c \in ToSet(all) <=> \E t \in DOMAIN discovered' : c \in ToSet(discovered'[t])
      BY <1>4, TxpoolScan
    <2>2. f \notin ToSet(all)
      BY <1>3, <1>4, <2>1
    <2>3. AtMostOnce(all, f)
      BY <2>2 DEF AtMostOnce, ToSet
    <2> QED
      BY <1>1, <2>1, <2>2, <2>3, ConcatOnce
  <1> QED
    BY <1>3, <1>4

LEMMA NewIsSingle ==
  ASSUME TypeInv, OnceInv, ~ resumed, Prepare, NEW s \in Tracked
  PROVE  Single(New(s))
  <1>1. /\ height \in Nat /\ found \in Seq(FoundType(Sub)) /\ store[s] \in InvoiceType(Sub)
        /\ step = "prepare" /\ Singles
    BY DEF TypeInv, CacheInv, CacheTypeOK, ScanInv, StoreInv, Prepare, OnceInv
  <1>2. DeepestUpdate \in Int
    BY DEF DeepestUpdate, TypeInv, CacheInv, CacheTypeOK
  <1> SUFFICES ASSUME NEW tr \in ToSet(New(s).transfers), Mined(tr)
               PROVE  AtMostOnce(New(s).transfers, tr)
    BY DEF Single
  <1>3. tr \in ToSet(store[s].transfers) => AtMostOnce(store[s].transfers, tr)
    BY <1>1 DEF Singles, Single
  <1>4. ASSUME NEW f \in ToSet(found), tr = Transfer(f.amount, f.height)
        PROVE  /\ AtMostOnce(found, f)
               /\ tr \in ToSet(store[s].transfers) => ~ Before(tr.height, DeepestUpdate)
    <2>1. tr.height = f.height /\ Mined(f)
      BY <1>4 DEF Transfer, Mined
    <2>2. f.height \in Nat
      <3>1. f \in FoundType(Sub)
        BY <1>1 DEF ToSet
      <3> QED
        BY <2>1, <3>1 DEF FoundType, Height, Mined
    <2>3. AtMostOnce(found, f)
      BY <1>1, <2>1 DEF Singles, FoundOnce
    <2>4. tr \in ToSet(store[s].transfers) => f.height >= DeepestUpdate
      BY <1>1, <2>1 DEF Singles, FoundAbove, AllBlank, Blank
    <2> QED
      BY <1>2, <2>1, <2>2, <2>3, <2>4 DEF Before
  <1> QED
    BY <1>1, <1>3, <1>4, UpdatedOnce DEF New

LEMMA SinglesScan ==
  ASSUME TypeInv, OnceInv, ~ resumed, \A b \in Block : Apart(TxsOf[b]), Scan
  PROVE  Singles'
  <1>1. Singles
    BY DEF OnceInv
  <1>2. ASSUME ~ Save PROVE store' = store /\ Tracked' = Tracked /\ (AllBlank => AllBlank')
    BY <1>2 DEF Scan, ScanStep, BeginScan, RunCache, BeginPool, RunPool, ScanBlocks, ScanTxpool,
       Prepare, Flush, Tracked, AllBlank
  <1>3. CASE BeginScan \/ RunCache \/ BeginPool \/ RunPool \/ Flush
    <2>1. /\ step' \notin {"scan_txpool", "prepare", "save"} /\ first_scan' = first_scan
          /\ store' = store /\ Tracked' = Tracked
      BY <1>3 DEF BeginScan, RunCache, BeginPool, RunPool, Flush, scanner, Tracked
    <2> QED
      BY <1>1, <2>1 DEF Singles, AllBlank
  <1>4. CASE ScanBlocks
    <2> DEFINE n == IF first_scan THEN CacheSize ELSE updated
    <2>1. /\ phase = "done" /\ found' = BlockCredits(n) /\ step' = "scan_txpool"
          /\ UNCHANGED <<height, updated, first_scan, store>> /\ Tracked' = Tracked
      BY <1>4 DEF ScanBlocks, cache, window, locals, Tracked, TypeInv, ScanInv, Control
    <2>2. n \in Nat /\ n <= CacheSize /\ Tracked \subseteq Sub /\ CacheInv /\ updated \in Nat /\ height \in Nat
      BY <2>1, CellsFacts DEF TypeInv, StoreInv, CacheInv, CacheTypeOK, Window
    <2>3. FoundOnce'
      <3> HIDE DEF n
      <3> QED
        BY <2>1, <2>2, BlockCreditsFacts DEF FoundOnce
    <2>4. ASSUME ~ first_scan, NEW f \in ToSet(found') PROVE f.height >= height - updated + 1
      <3>1. f \in ToSet(BlockCredits(updated)) /\ updated <= CacheSize
        BY <2>1, <2>2, <2>4
      <3>2. PICK k \in Cells, s \in Tracked :
              k < updated /\ \E t \in TxsOf[blocks[k]] : Pays(t, s) /\ f = Finding(t, s, height - k)
        BY <2>1, <2>2, <3>1, BlockCreditsFacts
      <3>3. f.height = height - k
        BY <3>2 DEF Finding
      <3> QED
        BY <2>2, <3>2, <3>3 DEF Cells
    <2>5. first_scan \/ FoundAbove'
      BY <2>1, <2>4 DEF FoundAbove, DeepestUpdate
    <2> HIDE DEF n
    <2> QED
      BY <1>1, <2>1, <2>3, <2>5 DEF Singles, AllBlank
  <1>5. CASE ScanTxpool
    <2>1. /\ store' = store /\ Tracked' = Tracked /\ step' \notin {"scan_txpool", "save"}
          /\ first_scan' => first_scan
      BY <1>5 DEF ScanTxpool, Tracked
    <2>2. ASSUME step' = "prepare" PROVE FoundOnce' /\ (FoundAbove' \/ AllBlank')
      <3>1. step = "scan_txpool" /\ UNCHANGED <<height, updated>>
        BY <1>5, <2>2 DEF ScanTxpool, cache, window, locals
      <3>2. \A f : Mined(f) => /\ f \in ToSet(found') <=> f \in ToSet(found)
                               /\ AtMostOnce(found, f) => AtMostOnce(found', f)
        BY <1>5, <3>1, TxpoolFinds
      <3>3. FoundOnce /\ (FoundAbove \/ AllBlank)
        BY <1>1, <3>1 DEF Singles
      <3> QED
        BY <2>1, <3>1, <3>2, <3>3 DEF FoundOnce, FoundAbove, DeepestUpdate, AllBlank
    <2> QED
      BY <1>1, <2>1, <2>2 DEF Singles, AllBlank
  <1>6. CASE Prepare
    <2>1. step' = "save" /\ store' = store /\ Tracked' = Tracked /\ first_scan' = first_scan
      BY <1>6 DEF Prepare, Tracked
    <2>2. \A inv \in queue' : Single(inv)
      BY <1>6, Prepared, NewIsSingle
    <2> QED
      BY <1>1, <2>1, <2>2 DEF Singles, AllBlank
  <1>7. CASE Save
    <2>1. PICK inv \in queue :
            /\ store' = IF inv.index \in Tracked
                           /\ store[inv.index].creation_height = inv.creation_height
                        THEN [store EXCEPT ![inv.index] = inv] ELSE store
            /\ queue' = queue \ {inv}
      BY <1>7 DEF Save
    <2>2. step = "save" /\ step' = "save" /\ first_scan' = first_scan /\ ~ first_scan
      BY <1>7 DEF Save, OnceInv
    <2>3. Tracked' = Tracked /\ \A s \in Tracked : store'[s] \in {store[s], inv}
      BY <2>1 DEF Tracked
    <2> QED
      BY <1>1, <2>1, <2>2, <2>3 DEF Singles
  <1> QED
    BY <1>3, <1>4, <1>5, <1>6, <1>7 DEF Scan, ScanStep

LEMMA SinglesStep ==
  ASSUME TypeInv, OnceInv, \A b \in Block : Apart(TxsOf[b]), [Next]_<<vars, ghosts>>, ~ resumed'
  PROVE  Singles'
  <1>1. CASE OpenScanner /\ step = "down"
    <2>1. Tracked' = {} /\ step' = "open"
      BY <1>1 DEF OpenScanner, Opening, Start, OpenPool, FillCache, Opened, Tracked
    <2> QED
      BY <2>1 DEF Singles, AllBlank
  <1>2. CASE ~ (OpenScanner /\ step = "down")
    <2>1. ~ resumed /\ Singles
      BY <1>2 DEF Next, MoveDaemon, CallApi, OpenScanner, Scan, FailScan, EndScanner, ghosts, OnceInv
    <2>2. CASE OpenScanner
      <3>1. /\ store' = store /\ Tracked' = Tracked /\ first_scan' = first_scan
            /\ step' \in {"open", "idle"}
        BY <1>2, <2>2 DEF OpenScanner, Opening, Start, OpenPool, FillCache, Opened, Tracked, scanner
      <3> QED
        BY <2>1, <3>1 DEF Singles, AllBlank
    <2>3. CASE MoveDaemon \/ UNCHANGED <<vars, ghosts>>
      <3>1. UNCHANGED <<store, first_scan, step, found, queue, height, updated>> /\ Tracked' = Tracked
        BY <2>3 DEF MoveDaemon, Daemon, vars, scanner, cache, window, locals, Tracked
      <3> QED
        BY <2>1, <3>1 DEF Singles, AllBlank, FoundOnce, FoundAbove, DeepestUpdate
    <2>4. CASE CallApi
      <3>1. /\ UNCHANGED <<first_scan, step, found, queue, height, updated>>
            /\ \A s \in Tracked' : (s \in Tracked /\ store'[s] = store[s]) \/ store'[s] \in creating
        BY <2>4, TypesStep, ApiMoves DEF cache, window, locals
      <3>2. \A inv \in creating : Blank(inv) /\ Single(inv)
        BY BlankFacts DEF OnceInv
      <3> QED
        BY <2>1, <3>1, <3>2 DEF Singles, AllBlank, FoundOnce, FoundAbove, DeepestUpdate
    <2>5. CASE Scan
      BY <2>1, <2>5, SinglesScan
    <2>6. CASE FailScan
      <3>1. /\ store' = store /\ Tracked' = Tracked
            /\ first_scan' => first_scan
            /\ step' \notin {"scan_txpool", "prepare"}
            /\ step' = "save" => step = "save" /\ queue' \subseteq queue
        BY <2>6 DEF FailScan, Failure, CachesFail, ScanBlocksFail, StoreFail, SaveFail, OpenFail,
           Discard, Tracked
      <3> QED
        BY <2>1, <3>1 DEF Singles, AllBlank
    <2>7. CASE EndScanner
      <3>1. store' = store /\ Tracked' = Tracked /\ ~ first_scan' /\ step' = "down"
        BY <2>7 DEF EndScanner, Stop, Crash, Discard, Tracked
      <3> QED
        BY <2>1, <3>1 DEF Singles
    <2> QED
      BY <2>2, <2>3, <2>4, <2>5, <2>6, <2>7 DEF Next
  <1> QED
    BY <1>1, <1>2

LEMMA OnceStep ==
  ASSUME TypeInv, OnceInv, \A b \in Block : Apart(TxsOf[b]), [Next]_<<vars, ghosts>>
  PROVE  OnceInv'
  <1>1. \A inv \in creating' : inv.transfers = <<>>
    <2>1. creating' \subseteq creating \/ \E s \in Sub : NewInvoice(s)
      BY StoreMoves DEF MoveDaemon, Daemon, CallApi, Api, InsertInvoice, RemoveInvoice, NoOne, Save
    <2> QED
      BY <2>1 DEF OnceInv, NewInvoice, NewInvoiceRecord
  <1>2. \A t \in DOMAIN discovered' : \A f \in ToSet(discovered'[t]) : ~ Mined(f)
    <2>1. CASE ScanTxpool
      BY <2>1, TxpoolFinds
    <2>2. CASE \A t \in DOMAIN discovered' : t \in DOMAIN discovered /\ discovered'[t] = discovered[t]
      BY <2>2 DEF OnceInv
    <2>3. CASE PoolHashes
      BY <2>2, <2>3 DEF PoolHashes, RestrictTo
    <2>4. CASE discovered' = discovered \/ discovered' = EmptyMap
      BY <2>2, <2>4 DEF EmptyMap
    <2>5. ScanTxpool \/ PoolHashes \/ discovered' = discovered \/ discovered' = EmptyMap
      <3>1. CASE MoveDaemon \/ CallApi \/ UNCHANGED <<vars, ghosts>>
        BY <3>1 DEF MoveDaemon, Daemon, CallApi, Api, NewInvoice, InsertInvoice, RemoveInvoice,
           vars, txpool
      <3>2. CASE OpenScanner
        BY <3>2 DEF OpenScanner, Opening, Start, OpenPool, PoolOpen, FillCache, Opened, txpool
      <3>3. CASE Scan
        BY <3>3 DEF Scan, ScanStep, BeginScan, RunCache, BeginPool, PoolCall, RunPool, PoolStep,
           PoolTxs, ScanBlocks, Prepare, Save, Flush, txpool
      <3>4. CASE FailScan
        BY <3>4 DEF FailScan, Failure, CachesFail, PoolFail, ScanBlocksFail, StoreFail, SaveFail,
           OpenFail, Discard, txpool
      <3>5. CASE EndScanner
        BY <3>5 DEF EndScanner, Stop, Crash, Discard
      <3> QED
        BY <3>1, <3>2, <3>3, <3>4, <3>5 DEF Next
    <2> QED
      BY <2>1, <2>3, <2>4, <2>5
  <1>3. step' \in {"prepare", "save"} => ~ first_scan'
    <2>1. CASE MoveDaemon \/ CallApi \/ UNCHANGED <<vars, ghosts>>
      BY <2>1 DEF MoveDaemon, Daemon, CallApi, Api, NewInvoice, InsertInvoice, RemoveInvoice,
         vars, scanner, OnceInv
    <2>2. CASE OpenScanner
      BY <2>2 DEF OpenScanner, Opening, Start, OpenPool, FillCache, Opened, scanner, OnceInv
    <2>3. CASE Scan
      BY <2>3 DEF Scan, ScanStep, BeginScan, RunCache, BeginPool, RunPool, ScanBlocks, ScanTxpool,
         Prepare, Save, Flush, scanner, OnceInv
    <2>4. CASE FailScan
      BY <2>4 DEF FailScan, Failure, CachesFail, ScanBlocksFail, StoreFail, SaveFail, OpenFail,
         Discard, OnceInv
    <2>5. CASE EndScanner
      BY <2>5 DEF EndScanner, Stop, Crash, Discard
    <2> QED
      BY <2>1, <2>2, <2>3, <2>4, <2>5 DEF Next
  <1> QED
    BY <1>1, <1>2, <1>3, SinglesStep DEF OnceInv
------------------------------------------------------------------------------
(***************************************************************************)
(* Every transfer that is shown of a block was made in that block.         *)
(***************************************************************************)
PaidIn(s, tr, b) == \E t \in TxsOf[b] : Pays(t, s) /\ tr = Payment(t, tr.height)

\* What inv shows of mined payments is in the chain, or in the cells from n on.
Genuine(inv, s, n) ==
  \A tr \in ToSet(inv.transfers) : Mined(tr) =>
    /\ tr.height <= height
    /\ tr.height < Bottom => PaidIn(s, tr, chain[tr.height + 1])
    /\ \A k \in Cells : k >= n /\ tr.height = height - k => PaidIn(s, tr, blocks[k])

FoundInCells ==
  \A f \in ToSet(found) : Mined(f) =>
    \E k \in Cells : \E t \in TxsOf[blocks[k]] : Pays(t, f.sub) /\ f = Finding(t, f.sub, height - k)

Genuinely ==
  /\ phase \in {"skip", "fix"} /\ tip > 0 => AllBlank
  /\ (\/ phase \in Resting \cup Asking /\ step # "save"
      \/ phase = "fix" /\ tip = 0)
     => \A s \in Tracked : Genuine(store[s], s, Max2(updated, fixed))
  /\ step \in {"scan_txpool", "prepare"} => FoundInCells
  /\ step = "save" =>
       /\ \A inv \in queue : Genuine(inv, inv.index, 0)
       /\ \A s \in Tracked : (\E inv \in queue : For(inv, s)) \/ Genuine(store[s], s, 0)

GenuineInv == lost = {} /\ ~ resumed => Genuinely

\* The hypotheses of a step that loses nothing, in a store that was not resumed.
Sound == IInv /\ PayInv /\ OnceInv /\ GenuineInv /\ lost = {} /\ ~ resumed

LEMMA SoundFacts ==
  ASSUME Sound
  PROVE  /\ TypeInv /\ Counters /\ Anchored /\ Scanned /\ Singles /\ Genuinely
         /\ CacheSize \in Nat /\ CacheSize >= 1 /\ height \in Nat /\ updated \in Nat /\ fixed \in Nat
         /\ tip \in Nat /\ next \in Nat
         /\ phase \in Phases /\ Control
         /\ AllBlank => \A s \in Tracked : \A n : Genuine(store[s], s, n)
  BY CellsFacts DEF Sound, IInv, TypeInv, CacheInv, CacheTypeOK, ScanInv, PayInv, OnceInv,
     GenuineInv, AllBlank, Blank, Genuine

LEMMA MinedHeight ==
  ASSUME TypeInv
  PROVE  /\ \A inv \in InvoiceType(Sub) : \A tr \in ToSet(inv.transfers) :
              tr \in TransferType /\ (Mined(tr) => tr.height \in Nat)
         /\ \A s \in Tracked : store[s] \in InvoiceType(Sub) /\ store[s].index = s
  <1>1. ASSUME NEW inv \in InvoiceType(Sub), NEW tr \in ToSet(inv.transfers)
        PROVE  tr \in TransferType /\ (Mined(tr) => tr.height \in Nat)
    <2>1. inv.transfers \in Seq(TransferType)
      BY DEF InvoiceType
    <2>2. tr \in TransferType
      BY <2>1 DEF ToSet
    <2> QED
      BY <2>2 DEF TransferType, Height, Mined
  <1> QED
    BY <1>1 DEF TypeInv, StoreInv

LEMMA GenuineRunCache ==
  ASSUME Sound, lost' = {}, Scan, RunCache
  PROVE  Genuinely'
  <1>1. /\ UNCHANGED <<chain, store, first_scan, step>> /\ Tracked' = Tracked
        /\ step = "blocks" /\ (AllBlank => AllBlank')
    BY DEF RunCache, Scan, scanner, monerod, Tracked, AllBlank
  <1>2. /\ CacheSize \in Nat /\ CacheSize >= 1 /\ height \in Nat /\ updated \in Nat /\ fixed \in Nat
        /\ tip \in Nat /\ next \in Nat /\ phase \in Asking \cup {"skip", "fix", "done"}
        /\ Counters /\ Anchored /\ Window /\ Genuinely
    BY <1>1, SoundFacts DEF Control, TypeInv, CacheInv
  <1>3. ASSUME UNCHANGED <<blocks, height, updated, fixed>>
        PROVE  \A s \in Tracked : Genuine(store[s], s, Max2(updated, fixed)) =>
                 Genuine(store[s], s, Max2(updated, fixed))'
    BY <1>1, <1>3 DEF Genuine, Bottom
  <1>4. AllBlank => \A s \in Tracked : Genuine(store[s], s, Max2(updated, fixed))'
    BY <1>1 DEF AllBlank, Blank, Genuine
  <1> USE DEF Asking, Resting
  <1>5. CASE UpdateTip
    <2>1. /\ phase = "update" /\ phase' \in {"fetch", "fix"} /\ tip' = tip
          /\ UNCHANGED <<blocks, height, updated, fixed>>
      BY <1>5 DEF UpdateTip, locals
    <2>2. tip = 0 /\ \A s \in Tracked : Genuine(store[s], s, Max2(updated, fixed))
      BY <1>1, <1>2, <2>1 DEF Counters, Genuinely
    <2> QED
      BY <1>1, <1>3, <2>1, <2>2 DEF Genuinely
  <1>6. CASE UpdateFetch
    <2>1. /\ phase = "fetch" /\ phase' = "fix" /\ height' = height + 1 /\ tip' = tip
          /\ blocks' = Push(BlockAt(height + 1)) /\ updated' = updated + 1 /\ fixed' = fixed
      BY <1>6 DEF UpdateFetch
    <2>2. /\ tip = 0 /\ updated = 0 /\ fixed = 0 /\ OnBottom
          /\ \A s \in Tracked : Genuine(store[s], s, 0)
      BY <1>1, <1>2, <2>1 DEF Counters, Untouched, Anchored, Genuinely, Max2
    <2>3. Bottom' = Bottom + 1 /\ Bottom \in Int /\ CacheSize - 1 \in Cells
          /\ height - (CacheSize - 1) = Bottom /\ updated' = 1 /\ Max2(updated', fixed') = 1
      BY <1>2, <2>1, <2>2 DEF Bottom, Cells, Max2
    <2>4. ASSUME NEW s \in Tracked, NEW tr \in ToSet(store[s].transfers), Mined(tr)
          PROVE  /\ tr.height <= height'
                 /\ tr.height < Bottom' => PaidIn(s, tr, chain[tr.height + 1])
                 /\ \A k \in Cells : k >= 1 /\ tr.height = height' - k => PaidIn(s, tr, blocks'[k])
      <3>1. /\ tr.height <= height
            /\ tr.height < Bottom => PaidIn(s, tr, chain[tr.height + 1])
            /\ \A k \in Cells : k >= 0 /\ tr.height = height - k => PaidIn(s, tr, blocks[k])
        BY <2>2, <2>4 DEF Genuine
      <3>2. tr.height \in Nat
        BY <2>4, SoundFacts, MinedHeight
      <3>3. tr.height = Bottom => PaidIn(s, tr, chain[tr.height + 1])
        <4>1. CacheSize - 1 >= 0 /\ chain[Bottom + 1] = blocks[CacheSize - 1]
          BY <1>2, <2>2 DEF OnBottom, On
        <4> QED
          BY <2>3, <3>1, <4>1
      <3>4. ASSUME NEW k \in Cells, k >= 1, tr.height = height' - k
            PROVE  PaidIn(s, tr, blocks'[k])
        <4>1. k - 1 \in Cells /\ k - 1 >= 0 /\ k # 0 /\ tr.height = height - (k - 1)
          BY <1>2, <2>1, <3>4 DEF Cells
        <4>2. blocks'[k] = blocks[k - 1]
          BY <2>1, <4>1 DEF Push
        <4> QED
          BY <3>1, <4>1, <4>2
      <3>5. tr.height <= height' /\ (tr.height < Bottom' => tr.height < Bottom \/ tr.height = Bottom)
        BY <1>2, <2>1, <2>3, <3>1, <3>2
      <3> QED
        BY <3>1, <3>3, <3>4, <3>5
    <2>5. \A s \in Tracked : Genuine(store[s], s, 1)'
      BY <1>1, <2>4 DEF Genuine
    <2>6. \A s \in Tracked : Genuine(store[s], s, Max2(updated, fixed))'
      BY <1>1, <2>3, <2>5
    <2> QED
      BY <1>1, <2>1, <2>2, <2>6 DEF Genuinely
  <1>7. CASE SkipTip
    <2>1. phase = "skip_ahead" /\ UNCHANGED <<blocks, height, updated, fixed>>
      BY <1>7 DEF SkipTip
    <2>2. CASE phase' = "skip"
      <3>1. Tracked = {}
        BY <2>1, <2>2 DEF Scan, Sound
      <3> QED
        BY <1>1, <2>2, <3>1 DEF Genuinely, AllBlank
    <2>3. CASE phase' # "skip"
      <3>1. phase' = "done"
        BY <1>7, <2>3 DEF SkipTip
      <3>2. \A s \in Tracked : Genuine(store[s], s, Max2(updated, fixed))
        BY <1>1, <1>2, <2>1 DEF Genuinely
      <3> QED
        BY <1>1, <1>3, <2>1, <3>1, <3>2 DEF Genuinely
    <2> QED
      BY <2>2, <2>3
  <1>8. CASE SkipFetch
    <2>1. phase = "skip" /\ phase' \in {"skip", "fix"} /\ tip' = tip /\ tip > 0
      BY <1>2, <1>8 DEF SkipFetch, Counters
    <2> QED
      BY <1>1, <1>2, <2>1 DEF Genuinely
  <1>9. CASE Check
    <2>1. phase = "fix" /\ UNCHANGED <<phase, tip, blocks, height, updated, fixed>>
      BY <1>9 DEF Check, window
    <2> QED
      BY <1>1, <1>2, <1>3, <2>1 DEF Genuinely
  <1>10. CASE Repair
    <2>1. /\ phase = "fix" /\ next < CacheSize - 1 /\ ~ Linked(next)
          /\ blocks' = [blocks EXCEPT ![next + 1] = BlockAt(height - 1 - next)]
          /\ fixed' = Max2(fixed, 1) + 1
          /\ UNCHANGED <<height, phase, tip, updated>>
          /\ blocks \in [Cells -> Block]
      BY <1>2, <1>10 DEF Repair, Window
    <2>2. CASE tip > 0
      BY <1>1, <1>2, <2>1, <2>2 DEF Genuinely
    <2>3. CASE tip = 0
      <3>1. updated > 0
        <4>1. next \in Links
          BY <1>2, <2>1 DEF Links
        <4> QED
          BY <1>2, <2>1, <4>1 DEF Anchored, AllLinked
      <3>2. updated = 1 /\ Walking
        BY <1>2, <2>1, <2>3, <3>1 DEF Counters, Anchored
      <3>3. fixed' = next + 2 /\ fixed <= next + 1
        BY <1>2, <2>1, <3>2 DEF Walking, Max2
      <3>4. Max2(updated, fixed) <= next + 2 /\ Max2(updated', fixed') = next + 2
        BY <1>2, <2>1, <3>2, <3>3 DEF Max2
      <3>5. \A k \in Cells : k >= next + 2 => blocks'[k] = blocks[k] /\ k >= Max2(updated, fixed)
        BY <1>2, <2>1, <3>2, <3>3, <3>4 DEF Cells, Max2
      <3>6. \A s \in Tracked : Genuine(store[s], s, Max2(updated, fixed))
        BY <1>2, <2>1, <2>3 DEF Genuinely
      <3>7. \A s \in Tracked : Genuine(store[s], s, Max2(updated, fixed))'
        BY <1>1, <2>1, <3>4, <3>5, <3>6 DEF Genuine, Bottom
      <3> QED
        BY <1>1, <2>1, <2>3, <3>7 DEF Genuinely
    <2> QED
      BY <1>2, <2>2, <2>3
  <1>11. CASE Return
    <2>1. /\ phase = "fix" /\ phase' = "done"
          /\ updated' = Max2(updated, fixed) /\ fixed' = 0 /\ UNCHANGED <<blocks, height>>
      BY <1>11 DEF Return, window
    <2>2. Max2(updated', fixed') = Max2(updated, fixed)
      BY <1>2, <2>1 DEF Max2
    <2>3. \A s \in Tracked : Genuine(store[s], s, Max2(updated, fixed))'
      <3>1. CASE tip > 0
        BY <1>2, <1>4, <2>1, <3>1 DEF Genuinely
      <3>2. CASE tip = 0
        <4>1. \A s \in Tracked : Genuine(store[s], s, Max2(updated, fixed))
          BY <1>2, <2>1, <3>2 DEF Genuinely
        <4> QED
          BY <1>1, <2>1, <2>2, <4>1 DEF Genuine, Bottom
      <3> QED
        BY <1>2, <3>1, <3>2
    <2> QED
      BY <1>1, <2>1, <2>3 DEF Genuinely
  <1> QED
    BY <1>2, <1>5, <1>6, <1>7, <1>8, <1>9, <1>10, <1>11 DEF RunCache, CacheStep, InitFetch

\* The daemon drops no block below the window when nothing is lost.
LEMMA GenuineDaemon ==
  ASSUME Sound, TypeInv', lost' = {}, MoveDaemon
  PROVE  Genuinely'
  <1>1. /\ UNCHANGED <<blocks, height, phase, tip, updated, fixed, store, step, found, queue>>
        /\ Tracked' = Tracked
    BY SoundFacts, DaemonKeeps DEF Tracked, cache, window, locals
  <1>2. /\ TypeInv /\ Anchored /\ Genuinely /\ Control /\ Bottom \in Int
        /\ chain \in Chains /\ chain' \in Chains /\ Len(chain) \in Nat
    BY SoundFacts, ChainBlocks DEF TypeInv, CacheInv, MonerodTypeOK, Bottom
  <1>3. ASSUME phase \in Resting \cup Asking \cup {"fix"}
        PROVE  Keeps(chain, chain', Bottom)
    <2>1. Bottom < Len(chain)
      BY <1>2, <1>3, BottomLow
    <2>2. Extends(chain', chain) \/ Keeps(chain, chain', Bottom)
      BY <1>2, <1>3, DaemonKeeps DEF Resting, Asking
    <2> QED
      BY <1>2, <2>1, <2>2, ExtendsKeeps
  <1>4. ASSUME phase \in Resting \cup Asking \cup {"fix"}, NEW inv \in InvoiceType(Sub), NEW s, NEW n,
               Genuine(inv, s, n), NEW tr \in ToSet(inv.transfers), Mined(tr)
        PROVE  /\ tr.height <= height
               /\ tr.height < Bottom => PaidIn(s, tr, chain'[tr.height + 1])
               /\ \A k \in Cells : k >= n /\ tr.height = height - k => PaidIn(s, tr, blocks[k])
    <2>1. tr.height \in Nat
      BY <1>2, <1>4, MinedHeight
    <2>2. tr.height < Bottom => chain'[tr.height + 1] = chain[tr.height + 1]
      BY <1>2, <1>3, <1>4, <2>1 DEF Keeps
    <2> QED
      BY <1>4, <2>2 DEF Genuine
  <1>5. phase \in Resting \cup Asking \cup {"fix"} =>
          \A s \in Tracked : \A n : Genuine(store[s], s, n) => Genuine(store[s], s, n)'
    BY <1>1, <1>2, <1>4, MinedHeight DEF Genuine, Bottom
  <1>6. phase \in Resting \cup Asking \cup {"fix"} =>
          \A inv \in queue : Genuine(inv, inv.index, 0) => Genuine(inv, inv.index, 0)'
    <2>1. queue \subseteq InvoiceType(Sub)
      BY <1>2 DEF TypeInv, ScanInv
    <2> QED
      BY <1>1, <1>4, <2>1 DEF Genuine, Bottom
  <1>7. AllBlank => AllBlank'
    BY <1>1 DEF AllBlank
  <1>8. step = "save" => phase = "idle"
    BY <1>2 DEF Control
  <1>9. FoundInCells => FoundInCells'
    BY <1>1 DEF FoundInCells
  <1>10. \A inv, s : For(inv, s)' <=> For(inv, s)
    BY <1>1 DEF For
  <1> QED
    BY <1>1, <1>2, <1>5, <1>6, <1>7, <1>8, <1>9, <1>10 DEF Genuinely, Resting

LEMMA GenuineApi ==
  ASSUME Sound, TypeInv', CallApi
  PROVE  Genuinely'
  <1>1. /\ UNCHANGED <<chain, blocks, height, phase, tip, updated, fixed, step, found, queue>>
        /\ \A s \in Tracked' : (s \in Tracked /\ store'[s] = store[s]) \/ Blank(store'[s])
    <2>1. \A inv \in creating : Blank(inv)
      BY BlankFacts DEF Sound, OnceInv
    <2> QED
      BY <2>1, SoundFacts, ApiMoves DEF cache, window, locals, monerod
  <1>2. Genuinely
    BY SoundFacts
  <1>3. ASSUME NEW s \in Tracked', NEW n, s \in Tracked => Genuine(store[s], s, n)
        PROVE  Genuine(store[s], s, n)'
    <2>1. CASE s \in Tracked /\ store'[s] = store[s]
      BY <1>1, <1>3, <2>1 DEF Genuine, Bottom
    <2>2. CASE Blank(store'[s])
      BY <2>2 DEF Blank, Genuine
    <2> QED
      BY <1>1, <2>1, <2>2
  <1>4. AllBlank => AllBlank'
    BY <1>1 DEF AllBlank
  <1>5. FoundInCells => FoundInCells'
    BY <1>1 DEF FoundInCells
  <1>6. ASSUME step = "save", NEW s \in Tracked'
        PROVE  (\E inv \in queue : For(inv, s)') \/ Genuine(store[s], s, 0)'
    <2>1. CASE s \in Tracked /\ store'[s] = store[s]
      <3>1. (\E inv \in queue : For(inv, s)) \/ Genuine(store[s], s, 0)
        BY <1>2, <1>6, <2>1 DEF Genuinely
      <3>2. \A inv : For(inv, s)' <=> For(inv, s)
        BY <2>1 DEF For
      <3> QED
        BY <1>3, <3>1, <3>2
    <2>2. CASE Blank(store'[s])
      BY <2>2 DEF Blank, Genuine
    <2> QED
      BY <1>1, <2>1, <2>2
  <1>7. step = "save" => \A inv \in queue : Genuine(inv, inv.index, 0)'
    BY <1>1, <1>2 DEF Genuinely, Genuine, Bottom
  <1>8. (\/ phase \in Resting \cup Asking /\ step # "save"
         \/ phase = "fix" /\ tip = 0)
        => \A s \in Tracked' : Genuine(store[s], s, Max2(updated, fixed))'
    <2>1. Max2(updated, fixed)' = Max2(updated, fixed)
      BY <1>1
    <2> QED
      BY <1>2, <1>3, <2>1 DEF Genuinely
  <1> QED
    BY <1>1, <1>2, <1>4, <1>5, <1>6, <1>7, <1>8 DEF Genuinely

\* What the update of an invoice shows after Prepare.
LEMMA NewIsGenuine ==
  ASSUME Sound, Prepare, NEW s \in Tracked
  PROVE  Genuine(New(s), s, 0)
  <1>1. /\ TypeInv /\ Genuinely /\ Counters /\ step = "prepare" /\ phase = "done"
        /\ height \in Nat /\ updated \in Nat /\ CacheSize \in Nat /\ CacheSize >= 1
        /\ found \in Seq(FoundType(Sub)) /\ store[s] \in InvoiceType(Sub) /\ store[s].index = s
    BY SoundFacts, MinedHeight DEF Prepare, Control, TypeInv, ScanInv
  <1>2. Genuine(store[s], s, updated) /\ FoundInCells
    <2>1. fixed = 0 /\ Max2(updated, fixed) = updated
      BY <1>1 DEF Counters, Max2
    <2> QED
      BY <1>1, <2>1 DEF Genuinely, Resting
  <1> SUFFICES ASSUME NEW tr \in ToSet(New(s).transfers), Mined(tr)
               PROVE  /\ tr.height <= height
                      /\ tr.height < Bottom => PaidIn(s, tr, chain[tr.height + 1])
                      /\ \A k \in Cells : k >= 0 /\ tr.height = height - k => PaidIn(s, tr, blocks[k])
    BY DEF Genuine
  <1>3. CASE tr \in ToSet(store[s].transfers) /\ Before(tr.height, DeepestUpdate)
    <2>1. \A k \in Cells : tr.height = height - k => k >= updated
      BY <1>1, <1>3 DEF Before, DeepestUpdate, Cells
    <2> QED
      BY <1>2, <1>3, <2>1 DEF Genuine
  <1>4. CASE \E f \in ToSet(found) : Mine(store[s], f) /\ tr = Transfer(f.amount, f.height)
    <2>1. PICK f \in ToSet(found) : Mine(store[s], f) /\ tr = Transfer(f.amount, f.height)
      BY <1>4
    <2>2. f.sub = s /\ Mined(f) /\ tr.height = f.height
      BY <1>1, <2>1 DEF Mine, Mined, Transfer
    <2>3. PICK k \in Cells : \E t \in TxsOf[blocks[k]] : Pays(t, s) /\ f = Finding(t, s, height - k)
      BY <1>2, <2>2 DEF FoundInCells
    <2>4. PaidIn(s, tr, blocks[k]) /\ tr.height = height - k
      BY <2>1, <2>2, <2>3 DEF PaidIn, Payment, Finding, Transfer
    <2>5. height - k <= height /\ ~ (height - k < Bottom) /\ \A j \in Cells : height - k = height - j => j = k
      BY <1>1 DEF Cells, Bottom
    <2> QED
      BY <2>4, <2>5
  <1> QED
    BY <1>1, <1>3, <1>4, UpdatedHolds DEF New

LEMMA GenuineScan ==
  ASSUME Sound, lost' = {}, Scan
  PROVE  Genuinely'
  <1>1. /\ TypeInv /\ Genuinely /\ Counters /\ Scanned /\ Singles /\ Control
        /\ CacheSize \in Nat /\ updated \in Nat
    BY SoundFacts
  <1> USE DEF Asking, Resting
  <1>2. CASE RunCache
    BY <1>2, GenuineRunCache
  <1>3. ASSUME ~ RunCache, ~ Save
        PROVE  UNCHANGED <<chain, store, blocks, height>> /\ Tracked' = Tracked
    BY <1>3 DEF Scan, ScanStep, BeginScan, BeginPool, RunPool, ScanBlocks, ScanTxpool,
       Prepare, Flush, Call, Dispose, cache, window, monerod, Tracked
  <1>4. ASSUME ~ RunCache, ~ Save
        PROVE  \A s \in Tracked : \A n : Genuine(store[s], s, n) => Genuine(store[s], s, n)'
    BY <1>3, <1>4 DEF Genuine, Bottom
  <1>5. CASE BeginScan
    <2>1. /\ phase \in {"idle", "failed"} /\ phase' \in {"update", "skip_ahead"} /\ step = "idle"
          /\ step' = "blocks" /\ updated' = 0 /\ fixed' = 0 /\ ~ RunCache /\ ~ Save
      BY <1>1, <1>5 DEF BeginScan, Call, Control, RunCache, Save
    <2>2. updated = 0 /\ fixed = 0 /\ \A s \in Tracked : Genuine(store[s], s, Max2(updated, fixed))
      BY <1>1, <2>1 DEF Counters, Untouched, Genuinely
    <2>3. \A s \in Tracked : Genuine(store[s], s, Max2(updated, fixed))'
      BY <1>4, <2>1, <2>2
    <2> QED
      BY <1>3, <2>1, <2>3 DEF Genuinely
  <1>6. CASE BeginPool \/ RunPool \/ ScanBlocks
    <2>1. /\ phase = "done" /\ UNCHANGED <<phase, updated, fixed, tip>>
          /\ step' \notin {"prepare", "save"} /\ step \notin {"prepare", "save"}
          /\ ~ RunCache /\ ~ Save
      BY <1>1, <1>6 DEF BeginPool, RunPool, ScanBlocks, cache, locals, Control, Save, RunCache, CacheStep,
         InitFetch, UpdateTip, UpdateFetch, SkipTip, SkipFetch, Check, Repair, Return
    <2>2. \A s \in Tracked : Genuine(store[s], s, Max2(updated, fixed))'
      BY <1>1, <1>4, <2>1 DEF Genuinely
    <2>3. step' = "scan_txpool" => FoundInCells'
      <3> DEFINE n == IF first_scan THEN CacheSize ELSE updated
      <3>1. SUFFICES ASSUME ScanBlocks PROVE FoundInCells'
        BY <1>1, <1>6 DEF BeginPool, RunPool
      <3>2. /\ n \in Nat /\ n <= CacheSize /\ CacheInv /\ Tracked \subseteq Sub
            /\ found' = BlockCredits(n) /\ UNCHANGED <<blocks, height>>
        BY <1>1, <1>3, <2>1, <3>1 DEF ScanBlocks, TypeInv, CacheInv, Window, StoreInv
      <3> HIDE DEF n
      <3>3. ASSUME NEW f \in ToSet(found')
            PROVE  \E k \in Cells : \E t \in TxsOf[blocks[k]] :
                     Pays(t, f.sub) /\ f = Finding(t, f.sub, height - k)
        <4>1. PICK k \in Cells, s \in Tracked :
                \E t \in TxsOf[blocks[k]] : Pays(t, s) /\ f = Finding(t, s, height - k)
          BY <2>1, <3>2, <3>3, BlockCreditsFacts
        <4>2. f.sub = s
          BY <4>1 DEF Finding
        <4> QED
          BY <4>1, <4>2
      <3> QED
        BY <3>2, <3>3 DEF FoundInCells
    <2> QED
      BY <1>3, <2>1, <2>2, <2>3 DEF Genuinely
  <1>7. CASE ScanTxpool
    <2>1. /\ phase = "done" /\ step \in {"scan_txpool", "only_txpool"} /\ ~ RunCache /\ ~ Save
      BY <1>1, <1>7 DEF ScanTxpool, Control, RunCache, Save
    <2>2. \A s \in Tracked : Genuine(store[s], s, Max2(updated, fixed))
      BY <1>1, <2>1 DEF Genuinely
    <2>3. CASE step = "scan_txpool"
      <3>1. step' = "prepare" /\ UNCHANGED <<phase, updated, fixed, tip>>
        BY <1>7, <2>3 DEF ScanTxpool, cache, locals
      <3>2. \A f : Mined(f) => (f \in ToSet(found') <=> f \in ToSet(found))
        BY <1>1, <1>7, <2>3, TxpoolFinds DEF Sound
      <3>3. FoundInCells'
        BY <1>1, <1>3, <2>1, <2>3, <3>2 DEF Genuinely, FoundInCells
      <3>4. \A s \in Tracked : Genuine(store[s], s, Max2(updated, fixed))'
        BY <1>4, <2>1, <2>2, <3>1
      <3> QED
        BY <1>3, <2>1, <3>1, <3>3, <3>4 DEF Genuinely
    <2>4. CASE step = "only_txpool"
      <3>1. step' = "idle" /\ phase' = "idle" /\ updated' = 0 /\ fixed' = fixed
        BY <1>7, <2>4 DEF ScanTxpool, Dispose
      <3>2. fixed = 0 /\ (~ first_scan => updated = 0)
        BY <1>1, <2>1, <2>4 DEF Counters, Scanned
      <3>3. \A s \in Tracked : Genuine(store[s], s, 0)
        BY <1>1, <2>2, <3>2, SoundFacts DEF Singles, Max2
      <3>4. \A s \in Tracked : Genuine(store[s], s, Max2(updated, fixed))'
        BY <1>4, <2>1, <3>1, <3>2, <3>3 DEF Max2
      <3> QED
        BY <1>3, <2>1, <3>1, <3>4 DEF Genuinely
    <2> QED
      BY <2>1, <2>3, <2>4
  <1>8. CASE Prepare
    <2>1. /\ step' = "save" /\ phase' = "idle" /\ UNCHANGED <<chain, store, blocks, height>>
          /\ Tracked' = Tracked
      BY <1>8 DEF Prepare, Dispose, window, monerod, Tracked, Scan
    <2>2. \A s \in Tracked : Genuine(New(s), s, 0)
      BY <1>8, NewIsGenuine
    <2>3. \A inv \in queue' : Genuine(inv, inv.index, 0)
      BY <1>1, <1>8, <2>2, Prepared
    <2>4. \A s \in Tracked : (\E inv \in queue' : For(inv, s)) \/ Genuine(store[s], s, 0)
      BY <1>1, <1>8, <2>2, Prepared DEF For
    <2>5. \A inv, s : (For(inv, s)' <=> For(inv, s)) /\ (Genuine(inv, s, 0)' <=> Genuine(inv, s, 0))
      BY <2>1 DEF For, Genuine, Bottom
    <2> QED
      BY <2>1, <2>3, <2>4, <2>5 DEF Genuinely
  <1>9. CASE Save
    <2>1. PICK inv \in queue :
            /\ store' = IF inv.index \in Tracked
                           /\ store[inv.index].creation_height = inv.creation_height
                        THEN [store EXCEPT ![inv.index] = inv] ELSE store
            /\ queue' = queue \ {inv}
      BY <1>9 DEF Save
    <2>2. step = "save" /\ step' = "save" /\ phase' = "idle" /\ UNCHANGED <<chain, blocks, height>>
      BY <1>1, <1>9 DEF Save, cache, window, monerod, Scan, Control
    <2>3. Tracked' = Tracked /\ \A s \in Tracked :
            store'[s] = IF For(inv, s) THEN inv ELSE store[s]
      BY <2>1 DEF Tracked, For
    <2>4. \A s \in Tracked : \A other : For(other, s)' <=> For(other, s)
      BY <2>3 DEF For
    <2>5. \A other, s : Genuine(other, s, 0)' <=> Genuine(other, s, 0)
      BY <2>2 DEF Genuine, Bottom
    <2>6. /\ \A other \in queue : Genuine(other, other.index, 0)
          /\ \A s \in Tracked : (\E other \in queue : For(other, s)) \/ Genuine(store[s], s, 0)
      BY <1>1, <2>2 DEF Genuinely
    <2>7. ASSUME NEW s \in Tracked
          PROVE  (\E other \in queue' : For(other, s)) \/ Genuine(store'[s], s, 0)
      <3>1. CASE For(inv, s)
        BY <2>3, <2>6, <3>1 DEF For
      <3>2. CASE ~ For(inv, s)
        BY <2>1, <2>3, <2>6, <3>2
      <3> QED
        BY <3>1, <3>2
    <2> QED
      BY <2>1, <2>2, <2>3, <2>4, <2>5, <2>6, <2>7 DEF Genuinely
  <1>10. CASE Flush
    <2>1. /\ step = "save" /\ queue = {} /\ step' = "idle" /\ phase = "idle"
          /\ UNCHANGED <<phase, updated, fixed, tip>> /\ ~ RunCache /\ ~ Save
      BY <1>1, <1>10 DEF Flush, cache, locals, Control, RunCache, Save
    <2>2. updated = 0 /\ fixed = 0 /\ \A s \in Tracked : Genuine(store[s], s, 0)
      BY <1>1, <2>1 DEF Counters, Untouched, Genuinely
    <2>3. \A s \in Tracked : Genuine(store[s], s, Max2(updated, fixed))'
      BY <1>4, <2>1, <2>2 DEF Max2
    <2> QED
      BY <1>3, <2>1, <2>3 DEF Genuinely
  <1> QED
    BY <1>2, <1>5, <1>6, <1>7, <1>8, <1>9, <1>10 DEF Scan, ScanStep

LEMMA GenuineFail ==
  ASSUME OneAmount, Sound, lost' = {}, FailScan
  PROVE  Genuinely'
  <1>1. /\ TypeInv /\ Genuinely /\ Counters /\ Singles /\ Control
        /\ updated \in Nat /\ fixed \in Nat /\ tip \in Nat
    BY SoundFacts
  <1> USE DEF Asking, Resting
  <1>2. UNCHANGED <<chain, store>> /\ Tracked' = Tracked /\ (AllBlank => AllBlank')
    BY DEF FailScan, Failure, CachesFail, ScanBlocksFail, StoreFail, SaveFail, OpenFail, Discard,
       monerod, Tracked, AllBlank
  <1>3. UNCHANGED <<blocks, height>> =>
          \A s \in Tracked : \A n : Genuine(store[s], s, n) => Genuine(store[s], s, n)'
    BY <1>2 DEF Genuine, Bottom
  <1>4. CASE OpenFail
    BY <1>4 DEF OpenFail, Discard, Genuinely
  <1>5. CASE step \in {"pool", "scan_txpool", "only_txpool"} /\ phase' = "idle"
               /\ updated' = 0 /\ fixed' = fixed /\ step' = "idle" /\ UNCHANGED <<blocks, height>>
    <2>1. (~ first_scan => updated = 0) /\ fixed = 0 /\ phase = "done"
      BY <1>1, <1>5, FailedScan DEF Sound, Control
    <2>2. \A s \in Tracked : Genuine(store[s], s, 0)
      <3>1. CASE first_scan
        BY <1>1, <3>1, SoundFacts DEF Singles
      <3>2. CASE ~ first_scan
        BY <1>1, <1>5, <2>1, <3>2 DEF Genuinely, Max2
      <3> QED
        BY <3>1, <3>2
    <2>3. \A s \in Tracked : Genuine(store[s], s, Max2(updated, fixed))'
      BY <1>3, <1>5, <2>1, <2>2 DEF Max2
    <2> QED
      BY <1>2, <1>5, <2>3 DEF Genuinely
  <1>6. CASE CachesFail /\ step = "blocks"
    <2>1. /\ phase \in Asking \cup {"skip", "fix"} /\ phase' = "failed" /\ step' = "idle"
          /\ updated' = 0 /\ fixed' = 0 /\ UNCHANGED <<blocks, height>>
      BY <1>1, <1>6 DEF CachesFail, RpcFail, Requesting, Control
    <2>2. updated = 0 /\ fixed = 0
      BY <1>1, <1>6 DEF FailScan, Sound
    <2>3. \A s \in Tracked : Genuine(store[s], s, 0)
      <3>1. CASE phase \in {"skip", "fix"} /\ tip > 0
        BY <1>1, <3>1, SoundFacts DEF Genuinely
      <3>2. CASE ~ (phase \in {"skip", "fix"} /\ tip > 0)
        <4>1. phase \in Asking \/ (phase = "fix" /\ tip = 0)
          BY <1>1, <2>1, <3>2, SoundFacts DEF Counters
        <4> QED
          BY <1>1, <1>6, <2>2, <4>1 DEF Genuinely, Max2
      <3> QED
        BY <3>1, <3>2
    <2>4. \A s \in Tracked : Genuine(store[s], s, Max2(updated, fixed))'
      BY <1>3, <2>1, <2>3 DEF Max2
    <2> QED
      BY <1>2, <2>1, <2>4 DEF Genuinely
  <1>7. CASE CachesFail /\ step = "pool"
    BY <1>5, <1>7 DEF CachesFail, Dispose, window
  <1>8. CASE StoreFail
    <2>1. step # "prepare"
      BY DEF FailScan, Sound
    <2> QED
      BY <1>5, <1>8, <2>1 DEF StoreFail, Dispose, window
  <1>9. CASE ScanBlocksFail
    <2>1. /\ phase = "done" /\ UNCHANGED <<phase, blocks, height, updated, fixed, tip>>
          /\ step = "scan_blocks" /\ step' = "only_txpool"
      BY <1>1, <1>9 DEF ScanBlocksFail, cache, locals, window, Control
    <2>2. \A s \in Tracked : Genuine(store[s], s, Max2(updated, fixed))
      BY <1>1, <2>1 DEF Genuinely
    <2>3. \A s \in Tracked : Genuine(store[s], s, Max2(updated, fixed))'
      BY <1>3, <2>1, <2>2
    <2> QED
      BY <1>2, <2>1, <2>3 DEF Genuinely
  <1>10. CASE SaveFail
    BY <1>10 DEF SaveFail, FailScan, Sound
  <1> QED
    BY <1>4, <1>6, <1>7, <1>8, <1>9, <1>10 DEF FailScan, Failure, CachesFail

LEMMA GenuineStep ==
  ASSUME OneAmount, IInv, PayInv, OnceInv, GenuineInv, [Next]_<<vars, ghosts>>,
         lost' = {}, ~ resumed'
  PROVE  Genuinely'
  <1>1. TypeInv'
    BY TypesStep DEF IInv
  <1>2. CASE OpenScanner /\ Start
    BY <1>2 DEF Start, Open, Genuinely, Resting, Asking
  <1>3. CASE ~ (OpenScanner /\ Start)
    <2>1. Sound
      <3>1. lost = {}
        BY <1>3, LostBefore
      <3>2. ~ resumed
        BY <1>3 DEF Next, MoveDaemon, CallApi, OpenScanner, Opening, OpenPool, FillCache, Opened,
           Scan, FailScan, EndScanner, ghosts
      <3> QED
        BY <3>1, <3>2 DEF Sound
    <2>2. CASE MoveDaemon
      BY <1>1, <2>1, <2>2, GenuineDaemon
    <2>3. CASE CallApi
      BY <1>1, <2>1, <2>3, GenuineApi
    <2>4. CASE OpenScanner
      <3>1. UNCHANGED <<chain, store, first_scan>> /\ Tracked' = Tracked /\ step = "open"
            /\ step' \in {"open", "idle"} /\ first_scan /\ Singles /\ phase \in {"init", "idle"}
        BY <1>3, <2>1, <2>4, SoundFacts DEF OpenScanner, Opening, OpenPool, FillCache, Opened,
           monerod, scanner, Tracked, Sound, IInv, Carried, Control
      <3>2. \A s \in Tracked : \A n : Genuine(store[s], s, n)'
        BY <3>1 DEF Singles, AllBlank, Blank, Genuine
      <3>3. phase' \in {"init", "idle"}
        BY <1>3, <2>4, <3>1 DEF OpenScanner, Opening, OpenPool, FillCache, InitFetch, Opened, cache
      <3> QED
        BY <3>1, <3>2, <3>3 DEF Genuinely
    <2>5. CASE Scan
      BY <2>1, <2>5, GenuineScan
    <2>6. CASE FailScan
      BY <2>1, <2>6, GenuineFail
    <2>7. CASE EndScanner
      BY <2>7 DEF EndScanner, Stop, Crash, Discard, Genuinely, Resting, Asking
    <2>8. CASE UNCHANGED <<vars, ghosts>>
      <3>1. Genuinely
        BY <2>1, SoundFacts
      <3> QED
        BY <2>8, <3>1 DEF vars, ghosts, monerod, cache, window, locals, scanner, Tracked,
           Genuinely, AllBlank, Genuine, Bottom, FoundInCells, For
    <2> QED
      BY <2>2, <2>3, <2>4, <2>5, <2>6, <2>7, <2>8 DEF Next
  <1> QED
    BY <1>2, <1>3

LEMMA GenuineInductive ==
  ASSUME OneAmount, \A b \in Block : Apart(TxsOf[b])
  PROVE  Spec => [](OnceInv /\ GenuineInv)
  <1>1. Init => OnceInv /\ GenuineInv
    <2> SUFFICES ASSUME Init PROVE OnceInv /\ GenuineInv
      OBVIOUS
    <2> USE DEF Init, ScannerInit, MonerodInit, CacheInit, TxpoolInit
    <2>1. OnceInv
      BY DEF OnceInv, Singles, AllBlank, EmptyMap, EmptyStore, NoOne, Tracked
    <2>2. GenuineInv
      BY DEF GenuineInv, Genuinely, Resting, Asking
    <2> QED
      BY <2>1, <2>2
  <1>2. IInv /\ PayInv /\ OnceInv /\ GenuineInv /\ [Next]_<<vars, ghosts>> =>
          OnceInv' /\ GenuineInv'
    BY OnceStep, GenuineStep DEF IInv, GenuineInv
  <1> QED
    BY <1>1, <1>2, Inductive, PayInductive, PTL DEF Spec

LEMMA OnceIsOne ==
  ASSUME NEW seq, NEW v \in ToSet(seq), AtMostOnce(seq, v)
  PROVE  Cardinality({n \in DOMAIN seq : seq[n] = v}) = 1
  <1>1. PICK m \in DOMAIN seq : seq[m] = v
    BY DEF ToSet
  <1>2. {n \in DOMAIN seq : seq[n] = v} = {m}
    BY <1>1 DEF AtMostOnce
  <1> QED
    BY <1>2, FS_Singleton

\* Every mined transfer of an invoice is that of a payment in the daemon's chain.
LEMMA MinedIsPaid ==
  ASSUME Sound, Settled, NEW s \in Tracked, NEW tr \in ToSet(store[s].transfers), Mined(tr)
  PROVE  /\ s \in Sub /\ tr \in TransferType /\ tr.height \in 0 .. height
         /\ AtMostOnce(store[s].transfers, tr)
         /\ HasBlock(tr.height) /\ BlockAt(tr.height) \in Block
         /\ \E t \in TxsOf[BlockAt(tr.height)] : t \in Tx /\ Pays(t, s) /\ tr = Payment(t, tr.height)
  <1>1. /\ TypeInv /\ Anchored /\ Counters /\ Singles /\ Genuinely /\ Control
        /\ CacheSize \in Nat /\ CacheSize >= 1 /\ height \in Nat
        /\ step = "idle" /\ On(chain, blocks[0], height)
    BY SoundFacts DEF Settled
  <1>2. phase \in Resting /\ updated = 0 /\ fixed = 0 /\ AllLinked
    BY <1>1 DEF Control, Counters, Untouched, Anchored, Resting
  <1>3. tr \in TransferType /\ tr.height \in Nat /\ s \in Sub
    BY <1>1, MinedHeight DEF TypeInv, StoreInv
  <1>4. /\ PaidIn(s, tr, BlockAt(tr.height)) /\ BlockAt(tr.height) \in Block
        /\ tr.height \in 0 .. height /\ HasBlock(tr.height)
    <2>1. Genuine(store[s], s, 0) /\ chain \in Chains
      BY <1>1, <1>2 DEF Genuinely, Max2, TypeInv, CacheInv, MonerodTypeOK
    <2>2. tr.height <= height /\ tr.height \in 0 .. Len(chain) - 1
      BY <1>1, <1>3, <2>1, ChainBlocks DEF Genuine, On
    <2>3. ASSUME tr.height < Bottom PROVE PaidIn(s, tr, BlockAt(tr.height))
      BY <2>1, <2>3 DEF Genuine, BlockAt
    <2>4. ASSUME ~ (tr.height < Bottom) PROVE PaidIn(s, tr, BlockAt(tr.height))
      <3>1. height - tr.height \in Cells /\ height - tr.height >= 0
            /\ height - (height - tr.height) = tr.height
        BY <1>1, <1>3, <2>2, <2>4 DEF Bottom, Cells
      <3>2. On(chain, blocks[height - tr.height], height - (height - tr.height))
        BY <1>1, <1>2, <3>1, WindowOn
      <3>3. BlockAt(tr.height) = blocks[height - tr.height]
        BY <3>1, <3>2 DEF On, BlockAt
      <3>4. PaidIn(s, tr, blocks[height - tr.height])
        BY <1>3, <2>1, <3>1 DEF Genuine
      <3> QED
        BY <3>3, <3>4
    <2>5. BlockAt(tr.height) \in Block
      BY <2>1, <2>2, ChainBlocks DEF BlockAt
    <2> QED
      BY <1>1, <1>3, <2>2, <2>3, <2>4, <2>5 DEF HasBlock
  <1>5. TxsOf[BlockAt(tr.height)] \subseteq Tx
    BY <1>4, MonerodAssumption DEF BlockAssumption
  <1>6. AtMostOnce(store[s].transfers, tr)
    BY <1>1 DEF Singles, Single
  <1> QED
    BY <1>3, <1>4, <1>5, <1>6 DEF PaidIn

(***************************************************************************)
(* Unless the code has left blocks unscanned for one of the reasons that   *)
(* `lost` names, or has resumed with a store whose transfers it keeps and  *)
(* finds again, a scan that has been completed leaves no invoice with a    *)
(* transfer that was not mined at its height, nor with one counted twice:  *)
(* transfers of abandoned blocks are dropped wherever the daemon moves and *)
(* whichever request fails, and blocks that are scanned again replace what *)
(* they have given before.  A transfer is an amount and a height           *)
(* (invoice.rs:475), so payments of one amount to an invoice in one block  *)
(* cannot be told apart, which Apart leaves out.                           *)
(***************************************************************************)
THEOREM NoPaymentIsMadeUp ==
  ASSUME OneAmount, \A b \in Block : Apart(TxsOf[b])
  PROVE  Spec => []NoPhantomPayment
  <1>1. IInv /\ PayInv /\ OnceInv /\ GenuineInv => NoPhantomPayment
    <2> SUFFICES ASSUME IInv, PayInv, OnceInv, GenuineInv, Settled, lost = {}, ~ resumed,
                        NEW s \in Tracked, NEW n \in DOMAIN store[s].transfers,
                        NEW tr, tr = store[s].transfers[n], Mined(tr)
                 PROVE  /\ Count(s, tr.amount, tr.height) = 1
                        /\ \E t \in TxsOf[BlockAt(tr.height)] : Pays(t, s) /\ AmountTo(t, s) = tr.amount
      BY DEF NoPhantomPayment, Current, Mined
    <2>1. tr \in ToSet(store[s].transfers) /\ Sound
      BY DEF ToSet, Sound
    <2>2. /\ s \in Sub /\ tr \in TransferType /\ AtMostOnce(store[s].transfers, tr)
          /\ \E t \in TxsOf[BlockAt(tr.height)] : t \in Tx /\ Pays(t, s) /\ tr = Payment(t, tr.height)
      BY <2>1, MinedIsPaid
    <2>3. Count(s, tr.amount, tr.height) = 1
      <3>1. Transfer(tr.amount, tr.height) = tr
        BY <2>2 DEF TransferType, Transfer
      <3> QED
        BY <2>1, <2>2, <3>1, OnceIsOne DEF Count
    <2>4. PICK t \in TxsOf[BlockAt(tr.height)] : t \in Tx /\ Pays(t, s) /\ tr = Payment(t, tr.height)
      BY <2>2
    <2>5. AmountTo(t, s) = tr.amount
      <3>1. tr.amount = Outs[t][1].amount
        BY <2>4 DEF Payment, Transfer
      <3> QED
        BY <2>2, <2>4, <3>1 DEF OneAmount
    <2> QED
      BY <2>3, <2>4, <2>5
  <1> QED
    BY <1>1, Inductive, PayInductive, GenuineInductive, PTL
------------------------------------------------------------------------------
(***************************************************************************)
(* The order of an invoice's transfers, and what is reckoned from it.      *)
(***************************************************************************)
\* Mined transfers stand before those of the pool ...
MinedFirst == {p \in Height \X Height : p[1] = NoHeight => p[2] = NoHeight}
\* ... and among themselves by height, but where a resumed invoice has some twice.
Rising == {p \in Height \X Height : p[1] # NoHeight /\ p[2] # NoHeight => p[1] <= p[2]}

InBooks(inv) ==
  /\ Reckoned(inv) /\ inv.amount_requested = Requested
  /\ Ordered(inv.transfers, MinedFirst)
  /\ ~ resumed => Ordered(inv.transfers, Rising)

Booked ==
  /\ \A s \in Tracked : InBooks(store[s])
  /\ \A inv \in creating : InBooks(inv)
  /\ step = "save" => \A inv \in queue : InBooks(inv)
  /\ step = "scan_txpool" => \A f \in ToSet(found) : Mined(f)
  /\ step \in {"scan_txpool", "prepare"} => Ordered(found, MinedFirst) /\ Ordered(found, Rising)

LEMMA BlocksInOrder ==
  ASSUME CacheInv, Tracked \subseteq Sub, phase = "done", NEW n \in Nat, n <= CacheSize
  PROVE  /\ \A f \in ToSet(BlockCredits(n)) : Mined(f)
         /\ Ordered(BlockCredits(n), MinedFirst) /\ Ordered(BlockCredits(n), Rising)
  <1> DEFINE V == FoundType(Sub)
             part(k) == CreditsOf(TxsOf[blocks[k]], height - k)
             ss == [j \in 1 .. n |-> part(n - j)]
  <1>1. /\ CacheSize \in Nat /\ height \in Nat /\ \A k \in Cells : k \in Nat /\ height - k \in Nat
        /\ NoHeight \notin Nat
    BY CellsFacts, InvoiceAssumption DEF CacheInv, CacheTypeOK, Window, Cells
  <1>2. ASSUME NEW k \in Cells
        PROVE  part(k) \in Seq(V) /\ \A f \in ToSet(part(k)) : f.height = height - k
    <2>1. blocks[k] \in Block /\ TxsOf[blocks[k]] \in SUBSET Tx
      BY MonerodAssumption DEF CacheInv, Window, BlockAssumption
    <2>2. height - k \in Height
      BY <1>1 DEF Height
    <2>3. /\ part(k) \in Seq(V)
          /\ \A f : f \in ToSet(part(k)) <=>
               \E t \in TxsOf[blocks[k]], s \in Tracked : Pays(t, s) /\ f = Finding(t, s, height - k)
      BY <2>1, <2>2, CreditsOfFacts
    <2> HIDE DEF part
    <2> QED
      BY <2>3 DEF Finding
  <1>3. \A j \in 1 .. n : n - j \in Cells
    BY <1>1 DEF Cells
  <1>4. BlockCredits(n) = FlattenSeq(ss)
    BY DEF BlockCredits
  <1> HIDE DEF part, V
  <1>5. ss \in Seq(Seq(V)) /\ Len(ss) = n /\ \A j \in 1 .. n : ss[j] = part(n - j)
    BY <1>2, <1>3
  <1> HIDE DEF ss
  <1>6. \A j \in 1 .. n : /\ ss[j] \in Seq(V)
                          /\ \A f \in ToSet(ss[j]) : f.height = height - (n - j) /\ f.height \in Nat
    BY <1>1, <1>2, <1>3, <1>5
  <1>7. ASSUME NEW R, \A g, h \in Nat : g <= h => <<g, h>> \in R
        PROVE  Ordered(FlattenSeq(ss), R)
    <2>1. \A j \in 1 .. n : Ordered(ss[j], R)
      <3> TAKE j \in 1 .. n
      <3>1. \A i \in DOMAIN ss[j] : ss[j][i].height = height - (n - j) /\ ss[j][i].height \in Nat
        BY <1>6 DEF ToSet
      <3> QED
        BY <1>7, <3>1 DEF Ordered
    <2>2. ASSUME NEW i \in 1 .. n, NEW j \in 1 .. n, i < j, NEW x \in ToSet(ss[i]), NEW y \in ToSet(ss[j])
          PROVE  <<x.height, y.height>> \in R
      <3>1. x.height <= y.height /\ x.height \in Nat /\ y.height \in Nat
        BY <1>1, <1>6, <2>2
      <3> QED
        BY <1>7, <3>1
    <2> QED
      BY <1>5, <2>1, <2>2, FlattenOrdered
  <1>8. \A f \in ToSet(FlattenSeq(ss)) : Mined(f)
    <2>1. \A f : f \in ToSet(FlattenSeq(ss)) => \E j \in 1 .. n : f \in ToSet(ss[j])
      BY <1>5, Flatten
    <2> QED
      BY <1>1, <1>6, <2>1 DEF Mined
  <1>9. \A g, h \in Nat : g <= h => <<g, h>> \in MinedFirst /\ <<g, h>> \in Rising
    BY <1>1 DEF MinedFirst, Rising, Height
  <1> QED
    BY <1>4, <1>7, <1>8, <1>9

LEMMA NewIsInBooks ==
  ASSUME TypeInv, OnceInv, Booked, Prepare, NEW s \in Tracked
  PROVE  InBooks(New(s))
  <1>1. /\ height \in Nat /\ found \in Seq(FoundType(Sub)) /\ store[s] \in InvoiceType(Sub)
        /\ step = "prepare" /\ InBooks(store[s]) /\ DeepestUpdate \in Int
        /\ Ordered(found, MinedFirst) /\ Ordered(found, Rising)
    BY DEF TypeInv, CacheInv, CacheTypeOK, ScanInv, StoreInv, Prepare, Booked, DeepestUpdate
  <1>2. Reckoned(New(s)) /\ New(s).amount_requested = Requested
    BY <1>1, UpdatedReckoned DEF InBooks, New
  <1>3. \A t \in ToSet(store[s].transfers), f \in ToSet(found) :
          t.height \in Height /\ f.height \in Height
    <2>1. store[s].transfers \in Seq(TransferType)
      BY <1>1 DEF InvoiceType
    <2>2. \A t \in ToSet(store[s].transfers) : t \in TransferType
      BY <2>1 DEF ToSet
    <2>3. \A f \in ToSet(found) : f \in FoundType(Sub)
      BY <1>1 DEF ToSet
    <2> QED
      BY <2>2, <2>3 DEF TransferType, FoundType
  <1>4. Ordered(New(s).transfers, MinedFirst)
    <2>1. \A t \in ToSet(store[s].transfers), f \in ToSet(found) :
            Before(t.height, DeepestUpdate) => <<t.height, f.height>> \in MinedFirst
      BY <1>3 DEF Before, MinedFirst
    <2> QED
      BY <1>1, <2>1, UpdatedOrdered DEF InBooks, New
  <1>5. ASSUME ~ resumed PROVE Ordered(New(s).transfers, Rising)
    <2>1. \A t \in ToSet(store[s].transfers), f \in ToSet(found) :
            Before(t.height, DeepestUpdate) => <<t.height, f.height>> \in Rising
      <3> SUFFICES ASSUME NEW t \in ToSet(store[s].transfers), NEW f \in ToSet(found),
                          Before(t.height, DeepestUpdate), Mined(f)
                   PROVE  t.height <= f.height
        BY <1>3 DEF Rising, Mined
      <3>1. Mined(t) /\ FoundAbove
        BY <1>1, <1>5 DEF OnceInv, Singles, AllBlank, Blank, Before, Mined
      <3>2. t.height \in Nat /\ f.height \in Nat /\ f.height >= DeepestUpdate /\ t.height < DeepestUpdate
        BY <1>3, <3>1 DEF FoundAbove, Before, Height, Mined
      <3> QED
        BY <1>1, <3>2
    <2> QED
      BY <1>1, <1>5, <2>1, UpdatedOrdered DEF InBooks, New
  <1> QED
    BY <1>2, <1>4, <1>5 DEF InBooks

LEMMA BookedScan ==
  ASSUME TypeInv, OnceInv, Booked, Scan
  PROVE  Booked'
  <1>1. UNCHANGED resumed /\ \A inv : InBooks(inv)' <=> InBooks(inv)
    BY DEF Scan, InBooks
  <1>2. UNCHANGED creating
    BY DEF Scan, ScanStep, BeginScan, RunCache, BeginPool, RunPool, ScanBlocks, ScanTxpool,
       Prepare, Save, Flush
  <1>3. ASSUME ~ Save PROVE store' = store /\ Tracked' = Tracked
    BY <1>3 DEF Scan, ScanStep, BeginScan, RunCache, BeginPool, RunPool, ScanBlocks, ScanTxpool,
       Prepare, Flush, Tracked
  <1>4. CASE BeginScan \/ RunCache \/ BeginPool \/ RunPool \/ Flush
    <2>1. /\ step' \notin {"scan_txpool", "prepare", "save"}
          /\ store' = store /\ Tracked' = Tracked
      BY <1>4 DEF BeginScan, RunCache, BeginPool, RunPool, Flush, scanner, Tracked
    <2> QED
      BY <1>1, <1>2, <2>1 DEF Booked
  <1>5. CASE ScanBlocks
    <2> DEFINE n == IF first_scan THEN CacheSize ELSE updated
    <2>1. phase = "done" /\ found' = BlockCredits(n) /\ step' = "scan_txpool" /\ ~ Save
      BY <1>5 DEF ScanBlocks, TypeInv, ScanInv, Control, Save
    <2>2. n \in Nat /\ n <= CacheSize /\ Tracked \subseteq Sub /\ CacheInv
      BY <2>1, CellsFacts DEF TypeInv, StoreInv, CacheInv, CacheTypeOK, Window
    <2> HIDE DEF n
    <2>3. /\ \A f \in ToSet(found') : Mined(f)
          /\ Ordered(found', MinedFirst) /\ Ordered(found', Rising)
      BY <2>1, <2>2, BlocksInOrder
    <2>4. Ordered(found, MinedFirst)' /\ Ordered(found, Rising)'
      BY <2>3 DEF Ordered, MinedFirst, Rising
    <2> QED
      BY <1>1, <1>2, <1>3, <2>1, <2>3, <2>4 DEF Booked
  <1>6. CASE ScanTxpool
    <2>1. step' \in {"prepare", "idle"} /\ (step' = "prepare" => step = "scan_txpool") /\ ~ Save
      BY <1>6 DEF ScanTxpool, Save
    <2>2. ASSUME step = "scan_txpool" PROVE Ordered(found', MinedFirst) /\ Ordered(found', Rising)
      <3>1. PICK all \in Seq(FoundType(Sub)) :
              /\ found' = found \o all
              /\ \A c : c \in ToSet(all) <=> \E t \in DOMAIN discovered' : c \in ToSet(discovered'[t])
        BY <1>6, <2>2, TxpoolScan
      <3>2. \A c \in ToSet(all) : c.height = NoHeight
        BY <1>6, <3>1, TxpoolFinds DEF Mined
      <3>3. found \in Seq(FoundType(Sub)) /\ \A f \in ToSet(found) : f.height \in Height
        <4>1. found \in Seq(FoundType(Sub))
          BY DEF TypeInv, ScanInv
        <4>2. \A f \in ToSet(found) : f \in FoundType(Sub)
          BY <4>1 DEF ToSet
        <4> QED
          BY <4>1, <4>2 DEF FoundType
      <3>4. ASSUME NEW R \in {MinedFirst, Rising} PROVE Ordered(found', R)
        <4>1. Ordered(found, R)
          BY <2>2 DEF Booked
        <4>2. \A h \in Height : <<h, NoHeight>> \in R
          BY DEF MinedFirst, Rising, Height
        <4>3. Ordered(all, R)
          BY <3>2, <4>2 DEF Ordered, ToSet, Height
        <4>4. \A x \in ToSet(found), y \in ToSet(all) : <<x.height, y.height>> \in R
          BY <3>2, <3>3, <4>2
        <4> QED
          BY <3>1, <3>3, <4>1, <4>3, <4>4, ConcatOrdered
      <3> QED
        BY <3>4
    <2>3. step = "scan_txpool" => Ordered(found, MinedFirst)' /\ Ordered(found, Rising)'
      BY <2>2 DEF Ordered, MinedFirst, Rising
    <2> QED
      BY <1>1, <1>2, <1>3, <2>1, <2>3 DEF Booked
  <1>7. CASE Prepare
    <2>1. step' = "save" /\ ~ Save /\ \A inv \in queue' : InBooks(inv)
      BY <1>7, Prepared, NewIsInBooks DEF Prepare, Save
    <2> QED
      BY <1>1, <1>2, <1>3, <2>1 DEF Booked
  <1>8. CASE Save
    <2>1. PICK inv \in queue :
            /\ store' = IF inv.index \in Tracked
                           /\ store[inv.index].creation_height = inv.creation_height
                        THEN [store EXCEPT ![inv.index] = inv] ELSE store
            /\ queue' = queue \ {inv}
      BY <1>8 DEF Save
    <2>2. step = "save" /\ step' = "save"
      BY <1>8 DEF Save
    <2>3. Tracked' = Tracked /\ \A s \in Tracked : store'[s] \in {store[s], inv}
      BY <2>1 DEF Tracked
    <2> QED
      BY <1>1, <1>2, <2>1, <2>2, <2>3 DEF Booked
  <1> QED
    BY <1>4, <1>5, <1>6, <1>7, <1>8 DEF Scan, ScanStep

LEMMA BookedStep ==
  ASSUME TypeInv, OnceInv, Booked, [Next]_<<vars, ghosts>>
  PROVE  Booked'
  <1>1. CASE OpenScanner
    <2>1. /\ store' = store /\ Tracked' = Tracked /\ creating' = creating
          /\ step' \in {"open", "idle"}
          /\ resumed' = resumed \/ Tracked = {} \/ resumed'
      BY <1>1 DEF OpenScanner, Opening, Start, OpenPool, FillCache, Opened, Tracked, scanner
    <2>2. \A inv \in creating : Ordered(inv.transfers, Rising)
      BY DEF OnceInv, Ordered
    <2>3. \A s \in Tracked : InBooks(store[s])'
      BY <2>1 DEF Booked, InBooks
    <2>4. \A inv \in creating : InBooks(inv)'
      BY <2>2 DEF Booked, InBooks
    <2> QED
      BY <2>1, <2>3, <2>4 DEF Booked
  <1>2. CASE ~ OpenScanner
    <2>1. UNCHANGED resumed /\ \A inv : InBooks(inv)' <=> InBooks(inv)
      BY <1>2 DEF Next, MoveDaemon, CallApi, Scan, FailScan, EndScanner, ghosts, InBooks
    <2>2. CASE MoveDaemon \/ UNCHANGED <<vars, ghosts>>
      <3>1. UNCHANGED <<store, creating, step, found, queue>> /\ Tracked' = Tracked
        BY <2>2 DEF MoveDaemon, Daemon, vars, scanner, Tracked
      <3> QED
        BY <2>1, <3>1 DEF Booked
    <2>3. CASE CallApi
      <3>1. /\ UNCHANGED <<step, found, queue>>
            /\ \A s \in Tracked' : (s \in Tracked /\ store'[s] = store[s]) \/ store'[s] \in creating
        BY <2>3, TypesStep, ApiMoves
      <3>2. ASSUME NEW inv \in creating' PROVE InBooks(inv)
        <4>1. CASE inv \in creating
          BY <4>1 DEF Booked
        <4>2. CASE \E s \in Sub : NewInvoice(s)
          <5>1. /\ inv.transfers = <<>> /\ inv.amount_paid = 0 /\ inv.paid_height = NoHeight
                /\ inv.amount_requested = Requested
            BY <4>2 DEF NewInvoice, NewInvoiceRecord
          <5> QED
            BY <5>1, NewIsReckoned DEF InBooks
        <4> QED
          BY <2>3, <4>1, <4>2 DEF CallApi, Api, InsertInvoice, RemoveInvoice, NoOne
      <3> QED
        BY <2>1, <3>1, <3>2 DEF Booked
    <2>4. CASE Scan
      BY <2>4, BookedScan
    <2>5. CASE FailScan
      <3>1. /\ store' = store /\ Tracked' = Tracked /\ creating' = creating
            /\ step' \notin {"scan_txpool", "prepare"}
            /\ step' = "save" => step = "save" /\ queue' \subseteq queue
        BY <2>5 DEF FailScan, Failure, CachesFail, ScanBlocksFail, StoreFail, SaveFail, OpenFail,
           Discard, Tracked
      <3> QED
        BY <2>1, <3>1 DEF Booked
    <2>6. CASE EndScanner
      <3>1. /\ store' = store /\ Tracked' = Tracked /\ step' = "down"
            /\ creating' \subseteq creating
        BY <2>6 DEF EndScanner, Stop, Crash, Discard, Tracked, NoOne
      <3> QED
        BY <2>1, <3>1 DEF Booked
    <2> QED
      BY <1>2, <2>2, <2>3, <2>4, <2>5, <2>6 DEF Next
  <1> QED
    BY <1>1, <1>2

LEMMA BookedInductive ==
  ASSUME \A b \in Block : Apart(TxsOf[b])
  PROVE  Spec => [](OnceInv /\ Booked)
  <1>1. Init => OnceInv /\ Booked
    <2> SUFFICES ASSUME Init PROVE OnceInv /\ Booked
      OBVIOUS
    <2> USE DEF Init, ScannerInit, MonerodInit, CacheInit, TxpoolInit
    <2>1. OnceInv
      BY DEF OnceInv, Singles, AllBlank, EmptyMap, EmptyStore, NoOne, Tracked
    <2>2. Booked
      BY DEF Booked, EmptyStore, NoOne, Tracked
    <2> QED
      BY <2>1, <2>2
  <1>2. IInv /\ OnceInv /\ Booked /\ [Next]_<<vars, ghosts>> => OnceInv' /\ Booked'
    BY OnceStep, BookedStep DEF IInv
  <1> QED
    BY <1>1, <1>2, Inductive, PTL DEF Spec

------------------------------------------------------------------------------
(***************************************************************************)
(* What payments amount to.                                                *)
(***************************************************************************)
\* The total of a set of payments adds up what each of them pays.
LEMMA TotalFacts ==
  ASSUME NEW s, NEW T \in SUBSET Tx
  PROVE  /\ IsFiniteSet(T) /\ [t \in T |-> AmountTo(t, s)] \in [T -> Nat]
         /\ \E tot : Adds(tot, T, [t \in T |-> AmountTo(t, s)]) /\ tot[T] = TotalTo(T, s)
         /\ TotalTo(T, s) \in Nat
  <1> DEFINE w == [t \in T |-> AmountTo(t, s)]
             Fits(tot) == tot = [U \in SUBSET T |->
                                   IF U = {} THEN 0
                                   ELSE AmountTo(CHOOSE x \in U : TRUE, s)
                                          + tot[U \ {CHOOSE x \in U : TRUE}]]
             total == CHOOSE tot : Fits(tot)
  <1>1. IsFiniteSet(T)
    BY ScannerAssumption, FS_Subset
  <1>2. ASSUME NEW t \in Tx PROVE AmountTo(t, s) \in Nat
    <2> DEFINE Out == [sub : Sub, amount : Nat]
               those == {o \in ToSet(Outs[t]) : o.sub = s}
               outs == Only(Outs[t], those)
    <2>1. Outs[t] \in Seq(Out)
      BY ScannerAssumption
    <2>2. AmountTo(t, s) = SumOf(outs)
      BY DEF AmountTo
    <2> HIDE DEF those, Out
    <2>3. outs \in Seq(Out)
      BY <2>1, OnlyThose
    <2> HIDE DEF outs
    <2>4. Len(outs) \in Nat /\ \A i \in 1 .. Len(outs) : outs[i].amount \in Nat
      <3>1. Len(outs) \in Nat /\ \A i \in 1 .. Len(outs) : outs[i] \in Out
        BY <2>3
      <3> QED
        BY <3>1 DEF Out
    <2> QED
      BY <2>2, <2>4, SumIsNat
  <1>3. w \in [T -> Nat]
    BY <1>2
  <1>4. TotalTo(T, s) = total[T]
    BY DEF TotalTo, MapThenSumSet, MapThenFoldSet
  <1>5. ASSUME NEW tot PROVE FoldsUp(tot, T, w) <=> Fits(tot)
    <2> DEFINE a(U) == IF U = {} THEN 0 ELSE w[Some(U)] + tot[U \ {Some(U)}]
               b(U) == IF U = {} THEN 0
                       ELSE AmountTo(CHOOSE x \in U : TRUE, s) + tot[U \ {CHOOSE x \in U : TRUE}]
    <2>1. \A U \in SUBSET T : U # {} => Some(U) \in T
      BY DEF Some
    <2>2. \A U \in SUBSET T : U # {} => w[Some(U)] = AmountTo(Some(U), s)
      BY <2>1
    <2> HIDE DEF w
    <2>3. \A U \in SUBSET T : a(U) = b(U)
      BY <2>2 DEF Some
    <2>4. FoldsUp(tot, T, w) <=> tot = [U \in SUBSET T |-> a(U)]
      BY DEF FoldsUp
    <2>5. Fits(tot) <=> tot = [U \in SUBSET T |-> b(U)]
      OBVIOUS
    <2> HIDE DEF a, b, Fits
    <2>6. [U \in SUBSET T |-> a(U)] = [U \in SUBSET T |-> b(U)]
      BY <2>3
    <2> QED
      BY <2>4, <2>5, <2>6
  <1> HIDE DEF w, Fits
  <1>6. \E tot : Fits(tot)
    <2>1. \E tot : FoldsUp(tot, T, w)
      BY <1>1, <1>3, SetSumExists
    <2> QED
      BY <1>5, <2>1
  <1>7. FoldsUp(total, T, w)
    <2>1. Fits(total)
      BY <1>6
    <2> HIDE DEF total
    <2> QED
      BY <1>5, <2>1
  <1> HIDE DEF total
  <1>8. Adds(total, T, w)
    BY <1>1, <1>3, <1>7, SetSumAdds
  <1>9. total[T] \in Nat
    BY <1>8 DEF Adds
  <1> QED
    BY <1>1, <1>3, <1>4, <1>8, <1>9 DEF w

\* A transaction is in one block of a chain.
LEMMA OneBlock ==
  ASSUME chain \in Chains, NEW g, NEW h, HasBlock(g), HasBlock(h),
         NEW t \in TxsOf[BlockAt(g)], t \in TxsOf[BlockAt(h)]
  PROVE  g = h
  <1>1. g \in Int /\ h \in Int /\ g + 1 \in 1 .. Len(chain) /\ h + 1 \in 1 .. Len(chain)
    BY ChainBlocks DEF HasBlock
  <1>2. \A i, j \in 1 .. Len(chain) : i # j => TxsOf[chain[i]] \cap TxsOf[chain[j]] = {}
    BY MonerodAssumption DEF ChainAssumption
  <1>3. g + 1 = h + 1
    BY <1>1, <1>2 DEF BlockAt
  <1> QED
    BY <1>1, <1>3

\* Transfers of different payments amount to no more than these ...
LEMMA ShownIsPaid ==
  ASSUME NEW s, NEW T \in SUBSET Tx, NEW f \in Seq(TransferType), NEW n \in 0 .. Len(f),
         NEW g \in [1 .. n -> T], \A i, j \in 1 .. n : g[i] = g[j] => i = j,
         \A i \in 1 .. n : f[i].amount = AmountTo(g[i], s)
  PROVE  /\ SumOf(SubSeq(f, 1, n)) \in Nat /\ TotalTo(T, s) \in Nat
         /\ SumOf(SubSeq(f, 1, n)) <= TotalTo(T, s)
  <1> DEFINE w == [t \in T |-> AmountTo(t, s)]
  <1>1. /\ IsFiniteSet(T) /\ w \in [T -> Nat] /\ TotalTo(T, s) \in Nat
        /\ \E tot : Adds(tot, T, w) /\ tot[T] = TotalTo(T, s)
    BY TotalFacts
  <1>2. \A i \in 1 .. n : f[i].amount = w[g[i]]
    OBVIOUS
  <1> HIDE DEF w
  <1>3. SumOf(SubSeq(f, 1, n)) \in Nat
    <2>1. SubSeq(f, 1, n) \in Seq(TransferType)
      OBVIOUS
    <2> QED
      BY <2>1, SumOfTransfers
  <1>4. SumOf(SubSeq(f, 1, n)) <= TotalTo(T, s)
    BY <1>1, <1>2, SumWithin
  <1> QED
    BY <1>1, <1>3, <1>4

\* ... and payments with different transfers to no more than those.
LEMMA PaidIsShown ==
  ASSUME NEW s, NEW T \in SUBSET Tx, NEW f \in Seq(TransferType), NEW n \in 0 .. Len(f),
         NEW g \in [T -> 1 .. n], \A t, u \in T : g[t] = g[u] => t = u,
         \A t \in T : AmountTo(t, s) = f[g[t]].amount
  PROVE  /\ SumOf(SubSeq(f, 1, n)) \in Nat /\ TotalTo(T, s) \in Nat
         /\ TotalTo(T, s) <= SumOf(SubSeq(f, 1, n))
  <1> DEFINE w == [t \in T |-> AmountTo(t, s)]
  <1>1. /\ IsFiniteSet(T) /\ w \in [T -> Nat] /\ TotalTo(T, s) \in Nat
        /\ \E tot : Adds(tot, T, w) /\ tot[T] = TotalTo(T, s)
    BY TotalFacts
  <1>2. \A t \in T : w[t] = f[g[t]].amount
    OBVIOUS
  <1> HIDE DEF w
  <1>3. SumOf(SubSeq(f, 1, n)) \in Nat
    <2>1. SubSeq(f, 1, n) \in Seq(TransferType)
      OBVIOUS
    <2> QED
      BY <2>1, SumOfTransfers
  <1>4. TotalTo(T, s) <= SumOf(SubSeq(f, 1, n))
    <2>1. PICK tot : Adds(tot, T, w) /\ tot[T] = TotalTo(T, s)
      BY <1>1
    <2>2. tot[T] <= SumOf(SubSeq(f, 1, n))
      BY <1>1, <1>2, <2>1, SumBeyond, Zenon
    <2> QED
      BY <2>1, <2>2
  <1> QED
    BY <1>1, <1>3, <1>4

(***************************************************************************)
(* Unless blocks may have gone unscanned or the store was resumed, the     *)
(* daemon's chain backs every invoice that is shown as confirmed: the      *)
(* first transfers that cover the amount, whose last gives paid_height     *)
(* (scanner.rs:194), are all mined and in the order of their heights, so   *)
(* none is above it; each was made in its block, and no two stand for one  *)
(* payment.                                                                *)
(***************************************************************************)
THEOREM ConfirmedInvoicesAreBacked ==
  ASSUME OneAmount, \A b \in Block : Apart(TxsOf[b])
  PROVE  Spec => []ConfirmedIsBacked
  <1>1. IInv /\ PayInv /\ OnceInv /\ GenuineInv /\ Booked => ConfirmedIsBacked
    <2> SUFFICES ASSUME IInv, PayInv, OnceInv, GenuineInv, Booked, Settled, lost = {}, ~ resumed,
                        NEW s \in Current, Confirmed(store[s]), store[s].confirmations_required > 0
                 PROVE  MinedFor(s, store[s].current_height - store[s].confirmations_required)
                          >= store[s].amount_requested
      BY DEF ConfirmedIsBacked
    <2> DEFINE inv == store[s]
               f == inv.transfers
               top == inv.current_height - inv.confirmations_required
               T == {t \in UNION {TxsOf[BlockAt(h)] : h \in 0 .. top} : Pays(t, s)}
    <2>1. /\ s \in Tracked /\ s \in Sub /\ inv \in InvoiceType(Sub) /\ Sound /\ TypeInv /\ height \in Nat
          /\ chain \in Chains /\ inv.current_height = height + 1 /\ InBooks(inv)
      BY DEF Current, Sound, IInv, TypeInv, StoreInv, CacheInv, CacheTypeOK, MonerodTypeOK, Booked
    <2>2. /\ f \in Seq(TransferType) /\ inv.confirmations_required \in Nat /\ inv.paid_height \in Height
          /\ inv.amount_requested \in Nat
          /\ Len(f) \in Nat /\ \A i \in 1 .. Len(f) : f[i] \in ToSet(f)
      BY <2>1 DEF InvoiceType, ToSet
    <2>3. inv.paid_height \in Nat /\ top \in Int /\ inv.paid_height <= top /\ top <= height
      BY <2>1, <2>2 DEF Confirmed, Height
    <2> HIDE DEF top, f, inv, T
    <2>4. PICK n \in 1 .. Len(f) : /\ SumOf(SubSeq(f, 1, n)) >= inv.amount_requested
                                   /\ f[n].height = inv.paid_height
      <3>1. PaidHeight(inv) = inv.paid_height /\ inv.paid_height # NoHeight
        BY <2>1, <2>3, InvoiceAssumption DEF InBooks, Reckoned
      <3> QED
        BY <2>2, <3>1, PaidHeightFacts DEF f
    <2>5. \A i \in 1 .. n : Mined(f[i]) /\ f[i].height <= top
      <3> TAKE i \in 1 .. n
      <3>1. i \in 1 .. Len(f) /\ DOMAIN f = 1 .. Len(f) /\ (i = n \/ i < n)
        BY <2>2
      <3>2. CASE i = n
        BY <2>3, <2>4, <3>2, InvoiceAssumption DEF Mined
      <3>3. CASE i < n
        <4>1. <<f[i].height, f[n].height>> \in MinedFirst /\ <<f[i].height, f[n].height>> \in Rising
          BY <2>1, <3>1, <3>3 DEF InBooks, Ordered, f
        <4>2. Mined(f[i]) /\ f[i].height <= f[n].height /\ f[i].height \in Nat
          BY <2>3, <2>4, <4>1, InvoiceAssumption DEF MinedFirst, Rising, Mined, Height
        <4> QED
          BY <2>3, <2>4, <4>2
      <3> QED
        BY <3>1, <3>2, <3>3
    <2> DEFINE from(i, t) == /\ t \in TxsOf[BlockAt(f[i].height)] /\ t \in Tx /\ Pays(t, s)
                             /\ f[i] = Payment(t, f[i].height)
               g == [i \in 1 .. n |-> CHOOSE t : from(i, t)]
    <2>6. ASSUME NEW i \in 1 .. n
          PROVE  /\ f[i].height \in 0 .. top /\ HasBlock(f[i].height) /\ AtMostOnce(f, f[i])
                 /\ from(i, g[i])
      <3>1. f[i] \in ToSet(store[s].transfers) /\ Mined(f[i])
        BY <2>2, <2>5 DEF f, inv
      <3>2. /\ f[i].height \in 0 .. height /\ AtMostOnce(f, f[i]) /\ HasBlock(f[i].height)
            /\ \E t \in TxsOf[BlockAt(f[i].height)] : t \in Tx /\ Pays(t, s) /\ f[i] = Payment(t, f[i].height)
        BY <2>1, <3>1, MinedIsPaid DEF f, inv
      <3>3. \E t : from(i, t)
        BY <3>2
      <3> HIDE DEF from
      <3>4. from(i, g[i])
        BY <3>3
      <3> QED
        BY <2>3, <2>5, <3>2, <3>4
    <2>7. T \in SUBSET Tx /\ \A i \in 1 .. n : g[i] \in T
      <3>1. \A h \in 0 .. top : TxsOf[BlockAt(h)] \subseteq Tx
        <4> TAKE h \in 0 .. top
        <4>1. h \in 0 .. Len(chain) - 1
          BY <2>1, <2>3, ChainBlocks DEF Settled, On
        <4>2. BlockAt(h) \in Block
          BY <2>1, <4>1, ChainBlocks DEF BlockAt
        <4> QED
          BY <4>2, MonerodAssumption DEF BlockAssumption
      <3> HIDE DEF g
      <3> QED
        BY <2>6, <3>1 DEF T
    <2>8. \A i, j \in 1 .. n : g[i] = g[j] => i = j
      <3> HIDE DEF g
      <3> SUFFICES ASSUME NEW i \in 1 .. n, NEW j \in 1 .. n, g[i] = g[j] PROVE i = j
        OBVIOUS
      <3>1. f[i].height = f[j].height
        BY <2>1, <2>6, OneBlock
      <3>2. f[i] = f[j]
        BY <2>6, <3>1
      <3> QED
        BY <2>2, <2>6, <3>2 DEF AtMostOnce
    <2>9. \A i \in 1 .. n : f[i].amount = AmountTo(g[i], s)
      <3> HIDE DEF g
      <3> TAKE i \in 1 .. n
      <3>1. f[i] = Payment(g[i], f[i].height) /\ g[i] \in Tx /\ Pays(g[i], s)
        BY <2>6
      <3>2. \A t, h : Payment(t, h).amount = Outs[t][1].amount
        BY DEF Payment, Transfer
      <3>3. f[i].amount = Outs[g[i]][1].amount
        BY <3>1, <3>2
      <3> QED
        BY <2>1, <3>1, <3>3 DEF OneAmount
    <2>10. g \in [1 .. n -> T]
      BY <2>7
    <2> HIDE DEF g, from
    <2>11. /\ SumOf(SubSeq(f, 1, n)) \in Nat /\ TotalTo(T, s) \in Nat
           /\ SumOf(SubSeq(f, 1, n)) <= TotalTo(T, s)
      <3>1. n \in 0 .. Len(f)
        BY <2>2
      <3> QED
        BY <2>2, <2>7, <2>8, <2>9, <2>10, <3>1, ShownIsPaid, Zenon
    <2>12. MinedFor(s, top) = TotalTo(T, s)
      BY DEF MinedFor, T
    <2> QED
      BY <2>2, <2>4, <2>11, <2>12 DEF top, inv
  <1> QED
    BY <1>1, Inductive, PayInductive, GenuineInductive, BookedInductive, PTL

\* Nothing has been paid to nobody.
LEMMA NothingPaid ==
  ASSUME NEW s
  PROVE  TotalTo({}, s) = 0
  <1> DEFINE w == [t \in {} |-> AmountTo(t, s)]
  <1>1. \E tot : Adds(tot, {}, w) /\ tot[{}] = TotalTo({}, s)
    BY TotalFacts
  <1> HIDE DEF w
  <1> QED
    BY <1>1 DEF Adds

(***************************************************************************)
(* Unless blocks may have gone unscanned, no invoice is shown as expired   *)
(* that has been paid in full: every payment mined since its creation has  *)
(* a transfer of its own, so the last of them covers the amount, and then  *)
(* there is a paid_height (invoice.rs:112).  An invoice for nothing, which *)
(* Requested > 0 leaves out, expires though nothing is wanting.            *)
(***************************************************************************)
THEOREM ExpiredInvoicesAreUnpaid ==
  ASSUME OneAmount, \A b \in Block : Apart(TxsOf[b]), Requested > 0
  PROVE  Spec => []ExpiredIsUnpaid
  <1>1. IInv /\ PayInv /\ Booked => ExpiredIsUnpaid
    <2> SUFFICES ASSUME IInv, PayInv, Booked, Settled, lost = {}, NEW s \in Current, Expired(store[s])
                 PROVE  MinedSince(s) < store[s].amount_requested
      BY DEF ExpiredIsUnpaid
    <2> DEFINE inv == store[s]
               f == inv.transfers
               since == UNION {TxsOf[BlockAt(h)] : h \in inv.creation_height .. height}
               T == {t \in since \ earlier[s] : Pays(t, s)}
               at(t, n) == \E h \in inv.creation_height .. height :
                             t \in TxsOf[BlockAt(h)] /\ f[n] = Payment(t, h)
               g == [t \in T |-> CHOOSE n \in 1 .. Len(f) : at(t, n)]
    <2>1. /\ s \in Sub /\ inv \in InvoiceType(Sub) /\ InBooks(inv) /\ inv.paid_height = NoHeight
          /\ height \in Nat /\ chain \in Chains
      BY DEF Current, IInv, TypeInv, StoreInv, CacheInv, CacheTypeOK, MonerodTypeOK, Booked, Expired
    <2>2. /\ f \in Seq(TransferType) /\ Len(f) \in Nat /\ DOMAIN f = 1 .. Len(f)
          /\ inv.creation_height \in Nat /\ inv.amount_requested = Requested
      BY <2>1 DEF InvoiceType, InBooks
    <2>3. /\ \A n \in 1 .. Len(f) : f[n].height # NoHeight =>
               ~ (SumOf(SubSeq(f, 1, n)) >= inv.amount_requested)
      <3>1. PaidHeight(inv) = NoHeight
        BY <2>1 DEF InBooks, Reckoned
      <3> HIDE DEF inv
      <3> QED
        BY <2>2, <3>1, PaidHeightFacts
    <2>4. \A h \in inv.creation_height .. height :
            /\ HasBlock(h) /\ TxsOf[BlockAt(h)] \subseteq Tx
            /\ \A t \in TxsOf[BlockAt(h)] \ earlier[s] : Pays(t, s) => Payment(t, h) \in ToSet(f)
      <3> TAKE h \in inv.creation_height .. height
      <3>1. /\ inv.creation_height > 0 /\ HasBlock(h) /\ BlockAt(h) \in Block
            /\ Shown(inv, Due(s, earlier[s], BlockAt(h)), h)
        BY MinedIsShown
      <3>2. h >= inv.creation_height
        BY <2>1, <2>2
      <3> QED
        BY <3>1, <3>2, MonerodAssumption DEF BlockAssumption, Shown, Due
    <2>5. MinedSince(s) = TotalTo(T, s)
      BY DEF MinedSince
    <2> HIDE DEF f, inv, at, g
    <2>6. /\ \A t \in T : Pays(t, s) /\ \E h \in inv.creation_height .. height :
                                          t \in TxsOf[BlockAt(h)] \ earlier[s]
          /\ T \in SUBSET Tx
      <3>1. ASSUME NEW t \in T
            PROVE  Pays(t, s) /\ \E h \in inv.creation_height .. height :
                                   t \in TxsOf[BlockAt(h)] \ earlier[s]
        OBVIOUS
      <3> HIDE DEF T
      <3> QED
        BY <2>4, <3>1
    <2> HIDE DEF T
    <2>7. ASSUME NEW t \in T
          PROVE  g[t] \in 1 .. Len(f) /\ at(t, g[t]) /\ t \in Tx /\ Pays(t, s)
      <3>1. PICK h \in inv.creation_height .. height : t \in TxsOf[BlockAt(h)] \ earlier[s] /\ Pays(t, s)
        BY <2>6
      <3>2. PICK n \in 1 .. Len(f) : f[n] = Payment(t, h)
        BY <2>2, <2>4, <3>1 DEF ToSet
      <3>3. at(t, n)
        BY <3>1, <3>2 DEF at
      <3>4. g[t] \in 1 .. Len(f) /\ at(t, g[t])
        BY <3>3 DEF g
      <3> QED
        BY <2>6, <3>1, <3>4
    <2>8. g \in [T -> 1 .. Len(f)]
      BY <2>7 DEF g
    <2>9. \A t \in T : /\ f[g[t]].height # NoHeight
                       /\ AmountTo(t, s) = f[g[t]].amount
      <3> TAKE t \in T
      <3>1. PICK h \in inv.creation_height .. height : f[g[t]] = Payment(t, h)
        BY <2>7 DEF at
      <3>2. h # NoHeight
        BY <2>1, <2>2, <3>1, InvoiceAssumption
      <3>3. AmountTo(t, s) = Outs[t][1].amount
        BY <2>1, <2>7 DEF OneAmount
      <3> QED
        BY <3>1, <3>2, <3>3 DEF Payment, Transfer
    <2>10. \A t, u \in T : g[t] = g[u] => t = u
      <3> SUFFICES ASSUME NEW t \in T, NEW u \in T, g[t] = g[u] PROVE t = u
        OBVIOUS
      <3>1. PICK h \in inv.creation_height .. height : t \in TxsOf[BlockAt(h)] /\ f[g[t]] = Payment(t, h)
        BY <2>7 DEF at
      <3>2. PICK k \in inv.creation_height .. height : u \in TxsOf[BlockAt(k)] /\ f[g[u]] = Payment(u, k)
        BY <2>7 DEF at
      <3>3. h = k /\ Outs[t][1].amount = Outs[u][1].amount
        BY <3>1, <3>2 DEF Payment, Transfer
      <3>4. BlockAt(h) \in Block
        BY <2>1, <2>4, ChainBlocks DEF HasBlock, BlockAt
      <3>5. Apart(TxsOf[BlockAt(h)])
        BY <3>4
      <3> QED
        BY <2>1, <2>7, <3>1, <3>2, <3>3, <3>5 DEF Apart
    <2> DEFINE mined == {Len(f) - n : n \in {k \in 1 .. Len(f) : f[k].height # NoHeight}}
    <2>11. CASE T = {}
      BY <2>2, <2>5, <2>11, NothingPaid DEF inv
    <2>12. CASE T # {}
      <3>1. mined \in SUBSET Nat /\ mined # {}
        BY <2>2, <2>8, <2>9, <2>12
      <3>2. PICK k \in mined : \A j \in mined : k <= j
        <4> HIDE DEF mined
        <4> QED
          BY <3>1, Least
      <3>3. PICK m \in 1 .. Len(f) : f[m].height # NoHeight /\ k = Len(f) - m
        OBVIOUS
      <3>4. \A n \in 1 .. Len(f) : f[n].height # NoHeight => n <= m
        <4> SUFFICES ASSUME NEW n \in 1 .. Len(f), f[n].height # NoHeight PROVE n <= m
          OBVIOUS
        <4>1. Len(f) - m <= Len(f) - n
          BY <3>2, <3>3
        <4> HIDE DEF mined
        <4> QED
          BY <2>2, <4>1
      <3> HIDE DEF mined
      <3>5. g \in [T -> 1 .. m]
        <4>1. \A t \in T : g[t] \in 1 .. m
          BY <2>2, <2>7, <2>9, <3>4
        <4> QED
          BY <2>8, <4>1
      <3>6. m \in 0 .. Len(f)
        BY <2>2
      <3>7. /\ SumOf(SubSeq(f, 1, m)) \in Nat /\ TotalTo(T, s) \in Nat
            /\ TotalTo(T, s) <= SumOf(SubSeq(f, 1, m))
        BY <2>2, <2>6, <2>9, <2>10, <3>5, <3>6, PaidIsShown, Zenon
      <3>8. ~ (SumOf(SubSeq(f, 1, m)) >= Requested)
        BY <2>2, <2>3, <3>3
      <3> QED
        BY <2>2, <2>5, <3>7, <3>8, ScannerAssumption DEF inv
    <2> QED
      BY <2>11, <2>12
  <1> QED
    BY <1>1, Inductive, PayInductive, BookedInductive, PTL
------------------------------------------------------------------------------
(***************************************************************************)
(* What is taken from the pool.                                            *)
(***************************************************************************)
PoolApart == pool \cap ChainTxs(chain) = {}

\* The transactions of the chain c up to the height n.
TxsTo(c, n) == UNION {TxsOf[c[i]] : i \in 1 .. n + 1}

\* The running scan, or the last one, has looked at the pool.
PoolSeen ==
  \/ step = "pool" /\ tphase = "txs"
  \/ step \in {"scan_blocks", "scan_txpool", "prepare", "save"}
  \/ step = "idle" /\ ~ first_scan

\* Nothing that was taken from the pool lies under the newest cached block, if
\* that was on the daemon's chain when the pool was read.
PoolAbove ==
  ~ split /\ PoolSeen =>
    \A c \in Chains : On(c, blocks[0], height) =>
      (transactions \cup tlocal) \cap TxsTo(c, height) = {}

\* Chains that share a block share what is below it.
LEMMA SameBelow ==
  ASSUME NEW c \in Chains, NEW d \in Chains, NEW b, NEW n \in Nat, On(c, b, n), On(d, b, n)
  PROVE  TxsTo(c, n) = TxsTo(d, n)
  <1>1. /\ Len(c) \in Nat /\ Len(d) \in Nat /\ n \in 0 .. Len(c) - 1 /\ n \in 0 .. Len(d) - 1
        /\ c[n + 1] = b /\ d[n + 1] = b
    BY ChainBlocks DEF On
  <1> DEFINE off == {k \in 0 .. n : c[n - k + 1] # d[n - k + 1]}
  <1>2. off = {}
    <2> SUFFICES ASSUME off # {} PROVE FALSE
      OBVIOUS
    <2>1. PICK m \in off : \A k \in off : m <= k
      <3>1. off \in SUBSET Nat
        OBVIOUS
      <3> HIDE DEF off
      <3> QED
        BY <3>1, Least
    <2>2. m \in 1 .. n
      BY <1>1, <2>1
    <2>3. m - 1 \in 0 .. n /\ m - 1 \notin off
      BY <2>1, <2>2
    <2> DEFINE i == n - m + 1
    <2>4. i \in 1 .. Len(c) - 1 /\ i \in 1 .. Len(d) - 1 /\ n - (m - 1) + 1 = i + 1
      BY <1>1, <2>2
    <2>5. c[i + 1] = d[i + 1] /\ c[i] # d[i]
      <3>1. c[n - (m - 1) + 1] = d[n - (m - 1) + 1] /\ c[i] # d[i]
        BY <2>1, <2>3
      <3> HIDE DEF i
      <3> QED
        BY <2>4, <3>1
    <2> HIDE DEF i
    <2>6. Prev[c[i + 1]] = c[i] /\ Prev[d[i + 1]] = d[i]
      BY <2>4, MonerodAssumption DEF ChainAssumption
    <2> QED
      BY <2>5, <2>6
  <1>3. \A i \in 1 .. n + 1 : c[i] = d[i]
    <2> TAKE i \in 1 .. n + 1
    <2>1. n + 1 - i \in 0 .. n /\ n - (n + 1 - i) + 1 = i
      BY <1>1
    <2>2. c[n - (n + 1 - i) + 1] = d[n - (n + 1 - i) + 1]
      BY <1>2, <2>1
    <2> QED
      BY <2>1, <2>2
  <1> HIDE DEF off
  <1> QED
    BY <1>3 DEF TxsTo

LEMMA TxsBelow ==
  ASSUME NEW c \in Chains, NEW n \in Nat, n < Len(c)
  PROVE  /\ TxsTo(c, n) \subseteq ChainTxs(c)
         /\ \A h \in 0 .. n : TxsOf[c[h + 1]] \subseteq TxsTo(c, n)
  <1>1. Len(c) \in Nat
    BY ChainBlocks
  <1>2. \A i \in 1 .. n + 1 : i \in 1 .. Len(c)
    BY <1>1
  <1>3. \A h \in 0 .. n : h + 1 \in 1 .. n + 1
    OBVIOUS
  <1> QED
    BY <1>2, <1>3 DEF TxsTo, ChainTxs

LEMMA PoolApartStep ==
  ASSUME PoolApart, [Next]_<<vars, ghosts>>
  PROVE  PoolApart'
  <1>1. CASE MoveDaemon
    BY <1>1 DEF MoveDaemon, Daemon, MonerodNext, Adopt, Broadcast, Drop, PoolApart
  <1>2. CASE ~ MoveDaemon
    <2>1. UNCHANGED monerod
      BY <1>2, StoreMoves DEF CallApi, Api, NewInvoice, InsertInvoice, RemoveInvoice
    <2> QED
      BY <2>1 DEF monerod, PoolApart
  <1> QED
    BY <1>1, <1>2

LEMMA PoolAboveScan ==
  ASSUME TypeInv, Carried, PoolApart, PoolAbove, Scan
  PROVE  PoolAbove'
  <1>1. Control /\ chain \in Chains /\ height \in Nat
    BY DEF TypeInv, ScanInv, CacheInv, CacheTypeOK, MonerodTypeOK
  <1>2. CASE BeginScan \/ RunCache \/ BeginPool
    BY <1>2 DEF BeginScan, RunCache, BeginPool, PoolCall, scanner, PoolAbove, PoolSeen
  <1>3. CASE RunPool /\ PoolHashes
    <2>1. /\ UNCHANGED <<blocks, height, monerod>> /\ tphase = "hashes"
          /\ transactions' \cup tlocal' \subseteq pool
      BY <1>3 DEF RunPool, PoolHashes, cache, window
    <2>2. split' = ~ On(chain, blocks[0], height)
      BY <2>1 DEF Scan
    <2>3. ASSUME On(chain, blocks[0], height), NEW c \in Chains, On(c, blocks[0], height)
          PROVE  (transactions' \cup tlocal') \cap TxsTo(c, height) = {}
      <3>1. TxsTo(c, height) = TxsTo(chain, height) /\ height < Len(chain)
        BY <1>1, <2>3, SameBelow, ChainBlocks DEF On
      <3>2. TxsTo(chain, height) \subseteq ChainTxs(chain)
        BY <1>1, <3>1, TxsBelow
      <3> QED
        BY <2>1, <3>1, <3>2 DEF PoolApart
    <2> QED
      BY <2>1, <2>2, <2>3 DEF PoolAbove
  <1>4. CASE ~ (BeginScan \/ RunCache \/ BeginPool \/ (RunPool /\ PoolHashes))
    <2>1. /\ UNCHANGED <<blocks, height>> /\ split' = split
          /\ transactions' \cup tlocal' \subseteq transactions \cup tlocal
          /\ step # "only_txpool" /\ PoolSeen' => PoolSeen
      <3>1. CASE RunPool
        BY <1>1, <1>4, <3>1 DEF Scan, RunPool, PoolStep, PoolTxs, Control, cache, window, PoolSeen
      <3>2. CASE ScanBlocks \/ ScanTxpool
        BY <1>1, <3>2 DEF Scan, ScanBlocks, ScanTxpool, Control, cache, txpool, window, Dispose, PoolSeen
      <3>3. CASE Prepare \/ Save \/ Flush
        BY <1>1, <3>3 DEF Scan, Prepare, Save, Flush, Control, cache, txpool, window, Dispose, PoolSeen
      <3> QED
        BY <1>4, <3>1, <3>2, <3>3 DEF Scan, ScanStep
    <2>2. step = "only_txpool" => split'
      BY <2>1 DEF Carried
    <2> QED
      BY <2>1, <2>2 DEF PoolAbove
  <1> QED
    BY <1>2, <1>3, <1>4

LEMMA PoolAboveStep ==
  ASSUME TypeInv, Carried, PoolApart, PoolAbove, [Next]_<<vars, ghosts>>
  PROVE  PoolAbove'
  <1>1. CASE MoveDaemon \/ CallApi \/ UNCHANGED <<vars, ghosts>>
    <2>1. UNCHANGED <<blocks, height, split, step, tphase, first_scan, transactions, tlocal>>
      BY <1>1 DEF MoveDaemon, Daemon, CallApi, Api, NewInvoice, InsertInvoice, RemoveInvoice,
         vars, ghosts, cache, window, txpool, scanner
    <2> QED
      BY <2>1 DEF PoolAbove, PoolSeen
  <1>2. CASE OpenScanner
    BY <1>2 DEF OpenScanner, Opening, Start, OpenPool, FillCache, Opened, scanner, Carried,
       PoolAbove, PoolSeen
  <1>3. CASE Scan
    BY <1>3, PoolAboveScan
  <1>4. CASE FailScan \/ EndScanner
    BY <1>4 DEF FailScan, EndScanner, Stop, Crash, Discard, PoolAbove, PoolSeen
  <1> QED
    BY <1>1, <1>2, <1>3, <1>4 DEF Next

------------------------------------------------------------------------------
(***************************************************************************)
(* The transfers of the pool: each is of a transaction that was taken from *)
(* the pool, and none is shown twice.                                      *)
(***************************************************************************)
OfOnly(t, seq) ==
  \A f \in ToSet(seq) : Pays(t, f.sub) /\ f = Finding(t, f.sub, NoHeight) /\ AtMostOnce(seq, f)
Taken(f) == \E t \in transactions : Pays(t, f.sub) /\ f = Finding(t, f.sub, NoHeight)

PoolFinds ==
  /\ \A t \in DOMAIN discovered : OfOnly(t, discovered[t])
  /\ step = "prepare" => \A f \in ToSet(found) : ~ Mined(f) => Taken(f) /\ AtMostOnce(found, f)

Once(inv) == \A tr \in ToSet(inv.transfers) : ~ Mined(tr) => AtMostOnce(inv.transfers, tr)
Backed(inv, s) ==
  \A tr \in ToSet(inv.transfers) : ~ Mined(tr) =>
    \E t \in transactions : Pays(t, s) /\ tr = Payment(t, NoHeight)

PoolOnce ==
  /\ \A s \in Tracked : Once(store[s])
  /\ step = "save" => \A inv \in queue : Once(inv)

AllBacked ==
  /\ step = "save" /\ ~ split =>
       /\ \A inv \in queue : Backed(inv, inv.index)
       /\ \A s \in Tracked : (\E inv \in queue : For(inv, s)) \/ Backed(store[s], s)
  /\ step = "idle" /\ ~ first_scan /\ ~ split => \A s \in Tracked : Backed(store[s], s)

\* What scan_txpool() keeps of a transaction, and what it hands to the scan.
LEMMA PoolFindsScan ==
  ASSUME TypeInv, OnceInv, Booked, PoolFinds, Apart(Tx), ScanTxpool
  PROVE  PoolFinds'
  <1>1. Tracked \subseteq Sub /\ NoHeight \in Height /\ found \in Seq(FoundType(Sub))
    BY DEF TypeInv, StoreInv, ScanInv, Height
  <1>2. /\ \A t \in DOMAIN discovered' : t \in Tx /\ t \in transactions
        /\ transactions' = transactions
    BY TxpoolScan DEF ScanTxpool, TypeInv, PoolInv, PoolSets
  <1>3. ASSUME NEW t \in DOMAIN discovered' PROVE OfOnly(t, discovered'[t])
    <2>1. CASE t \in DOMAIN discovered
      BY <1>3, <2>1, TxpoolScan DEF PoolFinds
    <2>2. CASE discovered'[t] = Credits(t, NoHeight)
      <3>1. OneEach(t)
        BY <1>2, <1>3 DEF Apart
      <3>2. \A f \in ToSet(Credits(t, NoHeight)) :
              /\ \E s \in Tracked : Pays(t, s) /\ f = Finding(t, s, NoHeight)
              /\ AtMostOnce(Credits(t, NoHeight), f)
        BY <1>1, <1>2, <1>3, <3>1, CreditsFacts
      <3>3. \A s : Finding(t, s, NoHeight).sub = s
        BY DEF Finding
      <3> QED
        BY <2>2, <3>2, <3>3 DEF OfOnly
    <2> QED
      BY <1>3, <2>1, <2>2, TxpoolScan
  <1>4. ASSUME NEW f PROVE UnderOneKey(discovered', f)
    <2>1. ASSUME NEW x \in DOMAIN discovered' PROVE AtMostOnce(discovered'[x], f)
      <3>1. CASE f \in ToSet(discovered'[x])
        BY <1>3, <2>1, <3>1 DEF OfOnly
      <3>2. CASE f \notin ToSet(discovered'[x])
        BY <3>2 DEF AtMostOnce, ToSet
      <3> QED
        BY <3>1, <3>2
    <2>2. ASSUME NEW x \in DOMAIN discovered', NEW y \in DOMAIN discovered',
                 f \in ToSet(discovered'[x]), f \in ToSet(discovered'[y])
          PROVE  x = y
      <3>1. /\ Pays(x, f.sub) /\ f = Finding(x, f.sub, NoHeight)
            /\ Pays(y, f.sub) /\ f = Finding(y, f.sub, NoHeight)
        BY <1>3, <2>2 DEF OfOnly
      <3>2. \A t : Finding(t, f.sub, NoHeight).amount = Outs[t][1].amount
        BY DEF Finding
      <3>3. Outs[x][1].amount = Outs[y][1].amount
        BY <3>1, <3>2
      <3>4. f.sub \in Sub
        <4>1. \A t \in DOMAIN discovered' : discovered'[t] \in Seq(FoundType(Sub))
          BY TxpoolScan DEF PoolInv, PoolSets
        <4>2. f \in FoundType(Sub)
          BY <2>2, <4>1 DEF ToSet
        <4> QED
          BY <4>2 DEF FoundType
      <3> QED
        BY <1>2, <3>1, <3>3, <3>4 DEF Apart
    <2> QED
      BY <2>1, <2>2 DEF UnderOneKey
  <1>5. ASSUME step = "scan_txpool", NEW f \in ToSet(found'), ~ Mined(f)
        PROVE  Taken(f)' /\ AtMostOnce(found', f)
    <2>1. PICK all \in Seq(FoundType(Sub)) :
            /\ found' = found \o all
            /\ ToSet(found') = ToSet(found) \cup ToSet(all)
            /\ \A c : c \in ToSet(all) <=> \E t \in DOMAIN discovered' : c \in ToSet(discovered'[t])
            /\ \A c : UnderOneKey(discovered', c) => AtMostOnce(all, c)
      BY <1>5, TxpoolScan
    <2>2. f \notin ToSet(found) /\ f \in ToSet(all)
      BY <1>5, <2>1 DEF Booked
    <2>3. AtMostOnce(found, f)
      BY <2>2 DEF AtMostOnce, ToSet
    <2>4. AtMostOnce(all, f)
      BY <1>4, <2>1
    <2>5. AtMostOnce(found', f)
      BY <1>1, <2>1, <2>2, <2>3, <2>4, ConcatOnce
    <2>6. PICK t \in DOMAIN discovered' : f \in ToSet(discovered'[t])
      BY <2>1, <2>2
    <2>7. t \in transactions' /\ Pays(t, f.sub) /\ f = Finding(t, f.sub, NoHeight)
      BY <1>2, <1>3, <2>6 DEF OfOnly
    <2> QED
      BY <2>5, <2>7 DEF Taken
  <1> QED
    BY <1>3, <1>5 DEF PoolFinds, ScanTxpool

LEMMA PoolFindsStep ==
  ASSUME TypeInv, OnceInv, Booked, PoolFinds, Apart(Tx), [Next]_<<vars, ghosts>>
  PROVE  PoolFinds'
  <1>1. CASE ScanTxpool
    BY <1>1, PoolFindsScan
  <1>2. ASSUME UNCHANGED <<transactions, discovered, found, step>> PROVE PoolFinds'
    BY <1>2 DEF PoolFinds, Taken
  <1>3. ASSUME step' # "prepare",
               \A t \in DOMAIN discovered' : t \in DOMAIN discovered /\ discovered'[t] = discovered[t]
        PROVE  PoolFinds'
    BY <1>3 DEF PoolFinds
  <1>4. CASE MoveDaemon \/ CallApi \/ UNCHANGED <<vars, ghosts>>
    BY <1>2, <1>4 DEF MoveDaemon, Daemon, CallApi, Api, NewInvoice, InsertInvoice, RemoveInvoice,
       vars, txpool, scanner
  <1>5. CASE OpenScanner
    BY <1>3, <1>5 DEF OpenScanner, Opening, Start, OpenPool, PoolOpen, FillCache, Opened, txpool,
       scanner, EmptyMap
  <1>6. CASE Scan /\ ~ ScanTxpool
    <2>1. CASE RunPool
      BY <1>3, <2>1 DEF RunPool, PoolStep, PoolHashes, PoolTxs, RestrictTo
    <2>2. CASE BeginScan \/ RunCache \/ BeginPool \/ ScanBlocks \/ Prepare \/ Save \/ Flush
      <3>1. discovered' = discovered /\ step' # "prepare"
        BY <2>2 DEF BeginScan, RunCache, BeginPool, PoolCall, ScanBlocks, Prepare, Save, Flush,
           txpool, scanner
      <3> QED
        BY <1>3, <3>1
    <2> QED
      BY <1>6, <2>1, <2>2 DEF Scan, ScanStep
  <1>7. CASE FailScan
    <2>1. step' # "prepare" /\ (discovered' = discovered \/ discovered' = EmptyMap)
      BY <1>7 DEF FailScan, Failure, CachesFail, PoolFail, ScanBlocksFail, StoreFail, SaveFail,
         OpenFail, Discard, txpool
    <2> QED
      BY <1>3, <2>1 DEF EmptyMap
  <1>8. CASE EndScanner
    BY <1>3, <1>8 DEF EndScanner, Stop, Crash, Discard, EmptyMap
  <1> QED
    BY <1>1, <1>4, <1>5, <1>6, <1>7, <1>8 DEF Next

\* What the update of an invoice shows of the pool after Prepare.
LEMMA NewIsBacked ==
  ASSUME TypeInv, PoolFinds, PoolOnce, Prepare, NEW s \in Tracked
  PROVE  Once(New(s)) /\ Backed(New(s), s)
  <1>1. /\ height \in Nat /\ found \in Seq(FoundType(Sub)) /\ step = "prepare"
        /\ store[s] \in InvoiceType(Sub) /\ store[s].index = s /\ Once(store[s])
    BY DEF TypeInv, CacheInv, CacheTypeOK, ScanInv, StoreInv, Prepare, PoolOnce
  <1>2. \A f \in ToSet(found) : ~ Mined(f) => Taken(f) /\ AtMostOnce(found, f)
    BY <1>1 DEF PoolFinds
  <1>3. ASSUME NEW tr \in ToSet(New(s).transfers), ~ Mined(tr)
        PROVE  AtMostOnce(New(s).transfers, tr)
    <2>1. tr \in ToSet(store[s].transfers) => AtMostOnce(store[s].transfers, tr)
      BY <1>1, <1>3 DEF Once
    <2>2. ASSUME NEW f \in ToSet(found), tr = Transfer(f.amount, f.height)
          PROVE  AtMostOnce(found, f) /\ ~ Before(tr.height, DeepestUpdate)
      <3>1. tr.height = f.height /\ ~ Mined(f)
        BY <1>3, <2>2 DEF Transfer, Mined
      <3> QED
        BY <1>2, <1>3, <3>1 DEF Before, Mined
    <2> QED
      BY <1>1, <2>1, <2>2, UpdatedOnce DEF New
  <1>4. ASSUME NEW tr \in ToSet(New(s).transfers), ~ Mined(tr)
        PROVE  \E t \in transactions : Pays(t, s) /\ tr = Payment(t, NoHeight)
    <2>1. ~ Before(tr.height, DeepestUpdate)
      BY <1>4 DEF Before, Mined
    <2>2. PICK f \in ToSet(found) : Mine(store[s], f) /\ tr = Transfer(f.amount, f.height)
      BY <1>1, <1>4, <2>1, UpdatedHolds DEF New
    <2>3. f.sub = s /\ ~ Mined(f)
      BY <1>1, <1>4, <2>2 DEF Mine, Mined, Transfer
    <2>4. PICK t \in transactions : Pays(t, s) /\ f = Finding(t, s, NoHeight)
      BY <1>2, <2>3 DEF Taken
    <2>5. f.amount = Outs[t][1].amount /\ f.height = NoHeight
      BY <2>4 DEF Finding
    <2> QED
      BY <2>2, <2>4, <2>5 DEF Payment
  <1> QED
    BY <1>3, <1>4 DEF Once, Backed

LEMMA PoolOnceStep ==
  ASSUME TypeInv, OnceInv, PoolFinds, PoolOnce, [Next]_<<vars, ghosts>>
  PROVE  PoolOnce'
  <1>1. ASSUME store' = store, Tracked' = Tracked,
               step' = "save" => step = "save" /\ queue' \subseteq queue
        PROVE  PoolOnce'
    BY <1>1 DEF PoolOnce
  <1>2. CASE MoveDaemon \/ UNCHANGED <<vars, ghosts>>
    BY <1>1, <1>2 DEF MoveDaemon, Daemon, vars, scanner, Tracked
  <1>3. CASE CallApi
    <2>1. /\ UNCHANGED <<step, queue>>
          /\ \A s \in Tracked' : (s \in Tracked /\ store'[s] = store[s]) \/ store'[s] \in creating
      BY <1>3, TypesStep, ApiMoves
    <2>2. \A inv \in creating : Once(inv)
      BY DEF OnceInv, Once, ToSet
    <2> QED
      BY <2>1, <2>2 DEF PoolOnce
  <1>4. CASE OpenScanner
    BY <1>1, <1>4 DEF OpenScanner, Opening, Start, OpenPool, FillCache, Opened, scanner, Tracked
  <1>5. CASE Scan /\ ~ Prepare /\ ~ Save
    BY <1>1, <1>5 DEF Scan, ScanStep, BeginScan, RunCache, BeginPool, RunPool, ScanBlocks,
       ScanTxpool, Flush, scanner, Tracked
  <1>6. CASE Prepare
    <2>1. store' = store /\ Tracked' = Tracked /\ step' = "save"
      BY <1>6 DEF Prepare, Tracked
    <2>2. \A inv \in queue' : Once(inv)
      BY <1>6, Prepared, NewIsBacked
    <2> QED
      BY <2>1, <2>2 DEF PoolOnce
  <1>7. CASE Save
    <2>1. PICK inv \in queue :
            /\ store' = IF inv.index \in Tracked
                           /\ store[inv.index].creation_height = inv.creation_height
                        THEN [store EXCEPT ![inv.index] = inv] ELSE store
            /\ queue' = queue \ {inv}
      BY <1>7 DEF Save
    <2>2. step = "save" /\ step' = "save"
      BY <1>7 DEF Save
    <2>3. Tracked' = Tracked /\ \A s \in Tracked : store'[s] \in {store[s], inv}
      BY <2>1 DEF Tracked
    <2> QED
      BY <2>1, <2>2, <2>3 DEF PoolOnce
  <1>8. CASE FailScan
    BY <1>1, <1>8 DEF FailScan, Failure, CachesFail, ScanBlocksFail, StoreFail, SaveFail, OpenFail,
       Discard, Tracked
  <1>9. CASE EndScanner
    BY <1>1, <1>9 DEF EndScanner, Stop, Crash, Discard, Tracked
  <1> QED
    BY <1>2, <1>3, <1>4, <1>5, <1>6, <1>7, <1>8, <1>9 DEF Next

\* Prepare backs every invoice, and what is saved stays so: nothing is taken from
\* the pool, or forgotten, before the next scan.
LEMMA BackedScan ==
  ASSUME TypeInv, Carried, PoolFinds, PoolOnce, AllBacked, Scan
  PROVE  AllBacked'
  <1>1. ASSUME step' \notin {"save", "idle"} PROVE AllBacked'
    BY <1>1 DEF AllBacked
  <1>2. CASE BeginScan \/ RunCache \/ BeginPool \/ RunPool \/ ScanBlocks
    BY <1>1, <1>2 DEF BeginScan, RunCache, BeginPool, RunPool, ScanBlocks, scanner
  <1>3. CASE ScanTxpool
    <2>1. step' = "prepare" \/ (step' = "idle" /\ step = "only_txpool" /\ split' = split)
      BY <1>3 DEF Scan, ScanTxpool, TypeInv, ScanInv, Control
    <2>2. CASE step' = "prepare"
      BY <1>1, <2>2
    <2>3. CASE step' = "idle" /\ step = "only_txpool" /\ split' = split
      <3>1. split'
        BY <2>3 DEF Carried
      <3> QED
        BY <2>3, <3>1 DEF AllBacked
    <2> QED
      BY <2>1, <2>2, <2>3
  <1>4. CASE Prepare
    <2>1. step' = "save" /\ UNCHANGED <<store, transactions>> /\ Tracked' = Tracked
      BY <1>4 DEF Prepare, txpool, Tracked
    <2>2. \A s \in Tracked : Backed(New(s), s)
      BY <1>4, NewIsBacked
    <2>3. \A inv \in queue' : Backed(inv, inv.index)
      BY <1>4, <2>2, Prepared
    <2>4. \A s \in Tracked : (\E inv \in queue' : For(inv, s)) \/ Backed(store[s], s)
      BY <1>4, <2>2, Prepared DEF For
    <2>5. \A inv, s : (For(inv, s)' <=> For(inv, s)) /\ (Backed(inv, s)' <=> Backed(inv, s))
      BY <2>1 DEF For, Backed
    <2> QED
      BY <2>1, <2>3, <2>4, <2>5 DEF AllBacked
  <1>5. CASE Save
    <2>1. PICK inv \in queue :
            /\ store' = IF inv.index \in Tracked
                           /\ store[inv.index].creation_height = inv.creation_height
                        THEN [store EXCEPT ![inv.index] = inv] ELSE store
            /\ queue' = queue \ {inv}
      BY <1>5 DEF Save
    <2>2. step = "save" /\ step' = "save" /\ UNCHANGED <<split, transactions>>
      BY <1>5 DEF Save, Scan, txpool, TypeInv, ScanInv, Control
    <2>3. Tracked' = Tracked /\ \A s \in Tracked :
            store'[s] = IF For(inv, s) THEN inv ELSE store[s]
      BY <2>1 DEF Tracked, For
    <2>4. \A s \in Tracked : \A other : For(other, s)' <=> For(other, s)
      BY <2>3 DEF For
    <2>5. \A other, s : Backed(other, s)' <=> Backed(other, s)
      BY <2>2 DEF Backed
    <2> SUFFICES ASSUME ~ split
                 PROVE  /\ \A other \in queue' : Backed(other, other.index)
                        /\ \A s \in Tracked :
                             (\E other \in queue' : For(other, s)) \/ Backed(store'[s], s)
      BY <2>2, <2>3, <2>4, <2>5 DEF AllBacked
    <2>6. /\ \A other \in queue : Backed(other, other.index)
          /\ \A s \in Tracked : (\E other \in queue : For(other, s)) \/ Backed(store[s], s)
      BY <2>2 DEF AllBacked
    <2>7. ASSUME NEW s \in Tracked
          PROVE  (\E other \in queue' : For(other, s)) \/ Backed(store'[s], s)
      <3>1. CASE For(inv, s)
        BY <2>3, <2>6, <3>1 DEF For
      <3>2. CASE ~ For(inv, s)
        BY <2>1, <2>3, <2>6, <3>2
      <3> QED
        BY <3>1, <3>2
    <2> QED
      BY <2>1, <2>6, <2>7
  <1>6. CASE Flush
    <2>1. /\ step = "save" /\ queue = {} /\ step' = "idle"
          /\ UNCHANGED <<store, transactions, split>> /\ Tracked' = Tracked
      BY <1>6 DEF Flush, Scan, txpool, Tracked, TypeInv, ScanInv, Control
    <2> QED
      BY <2>1 DEF AllBacked, Backed
  <1> QED
    BY <1>2, <1>3, <1>4, <1>5, <1>6 DEF Scan, ScanStep

LEMMA BackedStep ==
  ASSUME TypeInv, OnceInv, Carried, PoolFinds, PoolOnce, AllBacked, [Next]_<<vars, ghosts>>
  PROVE  AllBacked'
  <1>1. CASE MoveDaemon \/ UNCHANGED <<vars, ghosts>>
    <2>1. UNCHANGED <<store, transactions, split, step, first_scan, queue>> /\ Tracked' = Tracked
      BY <1>1 DEF MoveDaemon, Daemon, vars, ghosts, txpool, scanner, Tracked
    <2> QED
      BY <2>1 DEF AllBacked, Backed, For
  <1>2. CASE CallApi
    <2>1. /\ UNCHANGED <<transactions, split, step, first_scan, queue>>
          /\ \A s \in Tracked' : (s \in Tracked /\ store'[s] = store[s]) \/ store'[s] \in creating
      BY <1>2, TypesStep, ApiMoves DEF CallApi, txpool
    <2>2. \A inv \in creating : \A s : Backed(inv, s)
      BY DEF OnceInv, Backed, ToSet
    <2>3. \A inv, s : Backed(inv, s)' <=> Backed(inv, s)
      BY <2>1 DEF Backed
    <2>4. \A s \in Tracked' : \/ Backed(store'[s], s)
                              \/ /\ s \in Tracked /\ store'[s] = store[s]
                                 /\ \A inv : For(inv, s)' <=> For(inv, s)
      BY <2>1, <2>2 DEF For
    <2> QED
      BY <2>1, <2>3, <2>4 DEF AllBacked
  <1>3. CASE OpenScanner
    BY <1>3 DEF OpenScanner, Opening, Start, OpenPool, FillCache, Opened, scanner, Carried, AllBacked
  <1>4. CASE Scan
    BY <1>4, BackedScan
  <1>5. CASE FailScan \/ EndScanner
    BY <1>5 DEF FailScan, EndScanner, Stop, Crash, Discard, AllBacked
  <1> QED
    BY <1>1, <1>2, <1>3, <1>4, <1>5 DEF Next

PoolInvs == PoolApart /\ PoolAbove /\ PoolFinds /\ PoolOnce /\ AllBacked

LEMMA PoolInductive ==
  ASSUME Apart(Tx)
  PROVE  Spec => []PoolInvs
  <1>1. \A b \in Block : Apart(TxsOf[b])
    <2>1. \A b \in Block : TxsOf[b] \subseteq Tx
      BY MonerodAssumption DEF BlockAssumption
    <2> QED
      BY <2>1 DEF Apart
  <1>2. Init => PoolInvs
    BY DEF Init, ScannerInit, MonerodInit, CacheInit, TxpoolInit, PoolInvs, PoolApart, PoolAbove,
       PoolSeen, PoolFinds, PoolOnce, AllBacked, EmptyMap, EmptyStore, Tracked
  <1>3. IInv /\ OnceInv /\ Booked /\ PoolInvs /\ [Next]_<<vars, ghosts>> => PoolInvs'
    BY PoolApartStep, PoolAboveStep, PoolFindsStep, PoolOnceStep, BackedStep DEF IInv, PoolInvs
  <1>4. Spec => [](OnceInv /\ Booked)
    BY <1>1, BookedInductive
  <1> QED
    BY <1>2, <1>3, <1>4, Inductive, PTL DEF Spec

\* Two transfers of the amount of one payment are one.
LEMMA OneTransfer ==
  ASSUME OneAmount, Apart(Tx), Sound, PoolInvs, Settled, ~ split, NEW s \in Tracked,
         NEW t \in Tx, Pays(t, s),
         NEW m \in DOMAIN store[s].transfers, NEW n \in DOMAIN store[s].transfers,
         store[s].transfers[m].amount = AmountTo(t, s),
         store[s].transfers[n].amount = AmountTo(t, s)
  PROVE  m = n
  <1> DEFINE f == store[s].transfers
             InBlock(i) == /\ f[i].height \in 0 .. height /\ HasBlock(f[i].height)
                           /\ t \in TxsOf[BlockAt(f[i].height)] /\ f[i] = Payment(t, f[i].height)
                           /\ AtMostOnce(f, f[i])
             InPool(i) == t \in transactions /\ f[i] = Payment(t, NoHeight) /\ AtMostOnce(f, f[i])
  <1>1. /\ s \in Sub /\ step = "idle" /\ ~ first_scan /\ On(chain, blocks[0], height)
        /\ chain \in Chains /\ height \in Nat /\ transactions \subseteq Tx
    BY DEF Sound, IInv, TypeInv, StoreInv, CacheInv, CacheTypeOK, MonerodTypeOK, PoolInv, Settled
  <1>2. \A u \in Tx : \A h : Pays(u, s) /\ Payment(u, h).amount = AmountTo(t, s) => u = t
    <2>1. AmountTo(t, s) = Outs[t][1].amount /\ \A u, h : Payment(u, h).amount = Outs[u][1].amount
      BY <1>1 DEF OneAmount, Payment, Transfer
    <2> QED
      BY <1>1, <2>1 DEF Apart
  <1>3. ASSUME NEW i \in DOMAIN f, f[i].amount = AmountTo(t, s)
        PROVE  InBlock(i) \/ InPool(i)
    <2>1. f[i] \in ToSet(f)
      BY DEF ToSet
    <2>2. CASE Mined(f[i])
      <3>1. /\ f[i].height \in 0 .. height /\ AtMostOnce(f, f[i]) /\ HasBlock(f[i].height)
            /\ \E u \in TxsOf[BlockAt(f[i].height)] :
                 u \in Tx /\ Pays(u, s) /\ f[i] = Payment(u, f[i].height)
        BY <2>1, <2>2, MinedIsPaid
      <3>2. PICK u \in TxsOf[BlockAt(f[i].height)] :
              u \in Tx /\ Pays(u, s) /\ f[i] = Payment(u, f[i].height)
        BY <3>1
      <3>3. u = t
        BY <1>2, <1>3, <3>2
      <3> QED
        BY <3>1, <3>2, <3>3
    <2>3. CASE ~ Mined(f[i])
      <3>1. Backed(store[s], s) /\ Once(store[s])
        BY <1>1 DEF PoolInvs, AllBacked, PoolOnce
      <3>2. PICK u \in transactions : Pays(u, s) /\ f[i] = Payment(u, NoHeight)
        BY <2>1, <2>3, <3>1 DEF Backed
      <3>3. u = t
        BY <1>1, <1>2, <1>3, <3>2
      <3> QED
        BY <2>1, <2>3, <3>1, <3>2, <3>3 DEF Once
    <2> QED
      BY <2>2, <2>3
  <1>4. ASSUME NEW i \in DOMAIN f, NEW j, InBlock(i), InPool(j) PROVE FALSE
    <2>1. transactions \cap TxsTo(chain, height) = {}
      BY <1>1 DEF PoolInvs, PoolAbove, PoolSeen
    <2>2. height < Len(chain)
      BY <1>1 DEF On
    <2>3. TxsOf[chain[f[i].height + 1]] \subseteq TxsTo(chain, height)
      BY <1>1, <1>4, <2>2, TxsBelow
    <2> QED
      BY <1>4, <2>1, <2>3 DEF BlockAt
  <1>5. CASE InBlock(m) /\ InBlock(n)
    <2>1. f[m].height = f[n].height
      BY <1>1, <1>5, OneBlock
    <2> QED
      BY <1>5, <2>1 DEF AtMostOnce
  <1>6. CASE InPool(m) /\ InPool(n)
    BY <1>6 DEF AtMostOnce
  <1> HIDE DEF InBlock, InPool
  <1> QED
    BY <1>3, <1>4, <1>5, <1>6

(***************************************************************************)
(* Unless blocks may have gone unscanned or the store was resumed, no      *)
(* payment is counted in the pool and in a block, nor twice in either,     *)
(* when a scan without an error has ended in which the newest cached block *)
(* was on the daemon's chain as the pool was read.  The two caches are     *)
(* updated one after the other with the daemon moving in between, but what *)
(* the pool held then is in no block up to the newest cached one, and what *)
(* was in the pool before and is in a block now has been forgotten.        *)
(***************************************************************************)
THEOREM PaymentsAreCountedOnce ==
  ASSUME OneAmount, Apart(Tx)
  PROVE  Spec => []CountedOnce
  <1>1. IInv /\ PayInv /\ OnceInv /\ GenuineInv /\ PoolInvs => CountedOnce
    <2> SUFFICES ASSUME IInv, PayInv, OnceInv, GenuineInv, PoolInvs, Settled, lost = {}, ~ resumed,
                        ~ split, NEW s \in Current, NEW t \in Tx, Pays(t, s)
                 PROVE  Cardinality({n \in DOMAIN store[s].transfers :
                                       store[s].transfers[n].amount = AmountTo(t, s)}) <= 1
      BY DEF CountedOnce
    <2> DEFINE S == {n \in DOMAIN store[s].transfers :
                       store[s].transfers[n].amount = AmountTo(t, s)}
    <2>1. Sound /\ s \in Tracked
      BY DEF Sound, Current
    <2>2. \A m, n \in S : m = n
      BY <2>1, OneTransfer
    <2> HIDE DEF S
    <2>3. CASE S = {}
      BY <2>3, FS_EmptySet DEF S
    <2>4. CASE S # {}
      <3>1. PICK n \in S : S = {n}
        BY <2>2, <2>4
      <3>2. Cardinality(S) = 1
        BY <3>1, FS_Singleton
      <3> QED
        BY <3>2 DEF S
    <2> QED
      BY <2>3, <2>4
  <1>2. \A b \in Block : Apart(TxsOf[b])
    BY MonerodAssumption DEF BlockAssumption, Apart
  <1> QED
    BY <1>1, <1>2, Inductive, PayInductive, GenuineInductive, PoolInductive, PTL

==============================================================================
