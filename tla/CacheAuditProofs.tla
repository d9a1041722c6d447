--------------------------- MODULE CacheAuditProofs --------------------------
(***************************************************************************)
(* Proofs about the block cache, for every tree of blocks and every window *)
(* size.  The inductive invariant has a part for each property:            *)
(*   Shape   which values the locals have in each phase;                   *)
(*   Walked  how far the repair of the window has got;                     *)
(*   Reported  what the caller has scanned, by phase.                      *)
(***************************************************************************)
EXTENDS CacheAudit, TLAPS

Alive == phase \notin {"down", "init"}

Shape ==
  /\ Alive => blocks \in [Cells -> Block] /\ height >= CacheSize - 1
  /\ phase = "init" =>
       /\ next < CacheSize /\ height >= next - 1
       /\ \A i \in Cells : i < next => blocks[i] \in Block
  /\ phase \in Asking => next = 0 /\ updated = 0 /\ fixed = 0
  /\ phase = "skip" =>
       /\ next \in 1 .. CacheSize /\ fixed = 0
       /\ tip - next >= height + 1
       /\ updated > 0 => tip - next = height + 1
  /\ phase = "fix" => next <= CacheSize - 1

TypeInv == TypeOK /\ Shape

\* The cells down to next are on chain c if the top one is.
Walked ==
  phase \in {"fix", "done"} /\ ~forked =>
    \A c \in Chains : Extends(c, chain) /\ On(c, blocks[0], height) =>
      \A k \in Cells : k <= next => On(c, blocks[k], height - k)

UnchangedSince(n) == \A k \in Cells : k >= n => seen[k] = blocks[k]
OnChainBefore(n) == \A k \in Cells : k < n => OnChain(k)

Filling == OnChainBefore(next)

Known == UnchangedSince(0) /\ \A k \in Links : Linked(k)

Skipping ==
  /\ OnChainBefore(updated)
  /\ UnchangedSince(updated)
  /\ \A k \in Links : k # updated - 1 => Linked(k)

Fixing ==
  /\ UnchangedSince(Max2(updated, fixed))
  /\ \A k \in Links : k < next => Linked(k)
  /\ updated > 0 => OnChainBefore(next + 1)
  /\ updated = 0 => fixed = 0 /\ \A k \in Links : Linked(k)
  /\ updated = 1 =>
       /\ \A k \in Links : k > next => Linked(k)
       /\ \/ next < CacheSize - 1 /\ Linked(next)
          \/ fixed = next + 1
          \/ next = 0 /\ fixed = 0
          \/ next = CacheSize - 1

Reported ==
  ~torn =>
    /\ phase = "init" => Filling
    /\ phase \in Resting \cup Asking => Known
    /\ phase = "skip" => Skipping
    /\ phase = "fix" => Fixing

IInv == TypeInv /\ Walked /\ Reported
------------------------------------------------------------------------------
(***************************************************************************)
(* Facts about chains.                                                     *)
(***************************************************************************)
LEMMA ChainBlocks ==
  ASSUME NEW c \in Chains
  PROVE  /\ c \in Seq(Block) /\ Len(c) \in Nat /\ Len(c) >= CacheSize
         /\ \A h \in 0 .. Len(c) - 1 : c[h + 1] \in Block
  BY MonerodAssumption, CacheAssumption DEF ChainAssumption

\* Blocks of one chain at neighbouring heights are linked.
LEMMA ChainLinked ==
  ASSUME NEW c \in Chains, NEW h \in Nat, h >= 1, NEW b, On(c, b, h)
  PROVE  On(c, Prev[b], h - 1)
<1>1. h \in 1 .. Len(c) - 1 /\ c[h + 1] = b
  BY ChainBlocks DEF On
<1>2. Prev[c[h + 1]] = c[h]
  BY <1>1, MonerodAssumption DEF ChainAssumption
<1>3. h - 1 \in 0 .. Len(c) - 1 /\ (h - 1) + 1 = h
  BY <1>1, ChainBlocks
<1> QED
  BY <1>1, <1>2, <1>3 DEF On

LEMMA ChainParent ==
  ASSUME NEW c \in Chains, NEW h \in Nat, h >= 1, NEW a, NEW b,
         On(c, a, h), On(c, b, h - 1)
  PROVE  Prev[a] = b
  BY ChainLinked DEF On

\* What is on a chain stays on the chains that extend it.
LEMMA ExtendsOn ==
  ASSUME NEW c \in Chains, NEW d \in Chains, Extends(d, c),
         NEW b, NEW h \in Int, On(c, b, h)
  PROVE  On(d, b, h)
<1>1. h \in 0 .. Len(c) - 1 /\ c[h + 1] = b /\ h + 1 \in 1 .. Len(c)
  BY ChainBlocks DEF On
<1>2. Len(d) >= Len(c) /\ d[h + 1] = c[h + 1]
  BY <1>1 DEF Extends
<1> QED
  BY <1>1, <1>2, ChainBlocks DEF On

LEMMA ExtendsTransitive ==
  ASSUME NEW c \in Chains, NEW d \in Chains, NEW e \in Chains,
         Extends(d, c), Extends(e, d)
  PROVE  Extends(e, c)
  BY ChainBlocks DEF Extends

LEMMA ExtendsReflexive ==
  ASSUME NEW c \in Chains
  PROVE  Extends(c, c)
  BY ChainBlocks DEF Extends

\* An answer of the daemon is a block of its chain at that height.
LEMMA Answer ==
  ASSUME NEW h \in Int, HasBlock(h), chain \in Chains
  PROVE  h \in Nat /\ BlockAt(h) \in Block /\ On(chain, BlockAt(h), h)
  BY ChainBlocks DEF HasBlock, BlockAt, On

LEMMA ChainTxsTypes ==
  ASSUME NEW c \in Chains
  PROVE  ChainTxs(c) \subseteq Tx
<1>1. \A i \in 1 .. Len(c) : c[i] \in Block
  BY MonerodAssumption DEF ChainAssumption
<1> QED
  BY <1>1, MonerodAssumption DEF BlockAssumption, ChainTxs

LEMMA CellsFacts ==
  /\ CacheSize \in Nat /\ CacheSize >= 1
  /\ 0 \in Cells
  BY CacheAssumption DEF Cells

LEMMA Neighbours ==
  /\ \A i \in Links : i \in Cells /\ i + 1 \in Cells
  /\ \A i \in Cells : i # 0 => i - 1 \in Cells
  BY CacheAssumption DEF Cells, Links
------------------------------------------------------------------------------
(***************************************************************************)
(* Types and phases.                                                       *)
(***************************************************************************)
LEMMA TypeInvInit == Init => TypeInv
<1> SUFFICES ASSUME Init PROVE TypeInv
  OBVIOUS
<1>1. TypeOK
  BY DEF Init, MonerodInit, CacheInit, TypeOK, MonerodTypeOK, CacheTypeOK, Phases
<1>2. Shape
  BY DEF Init, CacheInit, Shape, Alive, Asking
<1> QED
  BY <1>1, <1>2 DEF TypeInv

LEMMA TypeInvStep == TypeInv /\ [Next]_vars => TypeInv'
<1> SUFFICES ASSUME TypeInv, [Next]_vars PROVE TypeInv'
  OBVIOUS
<1> USE CellsFacts DEF TypeInv, TypeOK, MonerodTypeOK, CacheTypeOK, Shape, Alive,
        Phases, Requesting, Asking, Resting
<1>1. CASE Daemon
  <2>1. PICK c \in Chains : Adopt(c)
    BY <1>1 DEF Daemon
  <2>2. pool' \subseteq Tx /\ chain' \in Chains
    BY <2>1, ChainTxsTypes DEF Adopt
  <2>3. forked' \in BOOLEAN /\ torn' \in BOOLEAN
    BY <1>1 DEF Daemon
  <2> QED
    BY <1>1, <2>2, <2>3 DEF Daemon, cache, window, locals
<1>2. CASE Start
  <2>1. PICK h \in 0 .. Len(chain) : Open(h, Len(chain))
    BY <1>2 DEF Start
  <2>2. h \in Nat /\ Len(chain) \in Nat
    BY ChainBlocks
  <2> QED
    BY <1>2, <2>1, <2>2 DEF Start, Open, monerod, audit
<1>3. CASE Begin
  <2>1. PICK proc \in {"update", "skip_ahead"} : Call(proc)
    BY <1>3 DEF Begin
  <2> QED
    BY <1>3, <2>1 DEF Begin, Call, monerod, window
<1>4. CASE Fill
  <2>1. phase = "init" /\ next < CacheSize /\ HasBlock(height - next)
    BY <1>4 DEF Fill, InitFetch
  <2>2. height - next \in Nat /\ BlockAt(height - next) \in Block
    BY <2>1, Answer
  <2>3. blocks' \in [Cells -> Block \cup {NoBlock}]
    BY <1>4, <2>2 DEF Fill, InitFetch
  <2>4. \A i \in Cells : i < next + 1 => blocks'[i] \in Block
    BY <1>4, <2>1, <2>2 DEF Fill, InitFetch, Cells
  <2>5. phase' = "idle" => blocks' \in [Cells -> Block]
    BY <1>4, <2>3, <2>4 DEF Fill, InitFetch, Cells
  <2>6. seen' \in [Cells -> Block \cup {NoBlock}]
    BY <1>4, <2>3 DEF Fill, Scanned
  <2> QED
    BY <1>4, <2>1, <2>2, <2>3, <2>4, <2>5, <2>6 DEF Fill, InitFetch, monerod
<1>5. CASE Ask
  <2>1. Len(chain) \in Nat
    BY ChainBlocks
  <2>2. CASE UpdateTip
    BY <1>5, <2>1, <2>2 DEF Ask, UpdateTip, locals, monerod, audit
  <2>3. CASE SkipTip
    BY <1>5, <2>1, <2>3 DEF Ask, SkipTip, Min2, monerod, audit
  <2> QED
    BY <1>5, <2>2, <2>3 DEF Ask
<1>6. CASE Fetch
  <2>1. seen' \in [Cells -> Block \cup {NoBlock}]
    BY <1>6, Neighbours DEF Fetch
  <2>2. \A b \in Block : Alive => Push(b) \in [Cells -> Block]
    BY Neighbours DEF Push
  <2>3. CASE UpdateFetch
    <3>1. BlockAt(height + 1) \in Block
      BY <2>3, Answer DEF UpdateFetch
    <3> QED
      BY <1>6, <2>1, <2>2, <2>3, <3>1 DEF Fetch, UpdateFetch, monerod
  <2>4. CASE SkipFetch
    <3>1. tip - next \in Nat /\ BlockAt(tip - next) \in Block
      BY <2>4, Answer DEF SkipFetch
    <3> QED
      BY <1>6, <2>1, <2>2, <2>4, <3>1 DEF Fetch, SkipFetch, monerod
  <2> QED
    BY <1>6, <2>3, <2>4 DEF Fetch
<1>7. CASE Inspect
  BY <1>7 DEF Inspect, Check, window, monerod, audit
<1>8. CASE Mend
  <2>1. height - 1 - next \in Int /\ HasBlock(height - 1 - next) /\ Alive
    BY <1>8 DEF Mend, Repair
  <2>2. BlockAt(height - 1 - next) \in Block
    BY <2>1, Answer
  <2>3. blocks' \in [Cells -> Block]
    BY <1>8, <2>1, <2>2 DEF Mend, Repair
  <2>4. fixed' \in Nat /\ torn' \in BOOLEAN
    BY <1>8 DEF Mend, Repair, Max2
  <2> QED
    BY <1>8, <2>3, <2>4 DEF Mend, Repair, monerod
<1>9. CASE Report
  BY <1>9 DEF Report, Return, Scanned, Max2, window, monerod
<1>10. CASE Fail
  BY <1>10 DEF Fail, RpcFail, monerod
<1>11. CASE Crash
  BY <1>11 DEF Crash, monerod
<1>12. CASE UNCHANGED vars
  BY <1>12 DEF vars, monerod, cache, window, locals, audit
<1> QED
  BY <1>1, <1>2, <1>3, <1>4, <1>5, <1>6, <1>7, <1>8, <1>9, <1>10, <1>11, <1>12
  DEF Next
------------------------------------------------------------------------------
(***************************************************************************)
(* The walk of check_and_fix_reorg() along a chain.                        *)
(***************************************************************************)
LEMMA WalkedInit == Init => Walked
  BY DEF Init, CacheInit, Walked

LEMMA WalkedStep == TypeInv /\ Walked /\ [Next]_vars => Walked'
<1> SUFFICES ASSUME TypeInv, Walked, [Next]_vars PROVE Walked'
  OBVIOUS
<1> USE CellsFacts DEF Requesting, Asking, Resting
<1>1. TypeInv'
  BY TypeInvStep
<1>2. \* A walk that is about to begin.
      ASSUME next' = 0 PROVE Walked'
  <2>1. height' \in Nat
    BY <1>1 DEF TypeInv, TypeOK, CacheTypeOK
  <2>2. \A h \in Nat : h - 0 = h
    OBVIOUS
  <2>3. \A k \in Cells : k <= 0 => k = 0
    BY DEF Cells
  <2> QED
    BY <1>2, <2>1, <2>2, <2>3 DEF Walked
<1>3. CASE Daemon
  <2> SUFFICES ASSUME phase \in {"fix", "done"}, ~forked',
                      NEW c \in Chains, Extends(c, chain'), On(c, blocks[0], height)
               PROVE  \A k \in Cells : k <= next => On(c, blocks[k], height - k)
    BY <1>3 DEF Walked, Daemon, cache, window, locals
  <2>1. ~forked /\ Extends(chain', chain) /\ chain \in Chains /\ chain' \in Chains
    BY <1>3 DEF Daemon, Adopt, TypeInv, TypeOK, MonerodTypeOK
  <2>2. Extends(c, chain)
    BY <2>1, ExtendsTransitive
  <2> QED
    BY <2>1, <2>2 DEF Walked
<1>4. CASE Start
  BY <1>2, <1>4 DEF Start, Open
<1>5. CASE Begin
  BY <1>2, <1>5 DEF Begin, Call
<1>6. CASE Fill
  BY <1>6 DEF Fill, InitFetch, Walked
<1>7. CASE Ask
  <2>1. CASE UpdateTip
    BY <1>2, <2>1 DEF UpdateTip, locals, TypeInv, Shape
  <2>2. CASE SkipTip
    BY <1>2, <2>2 DEF SkipTip, Walked, TypeInv, Shape
  <2> QED
    BY <1>7, <2>1, <2>2 DEF Ask
<1>8. CASE Fetch
  <2>1. CASE UpdateFetch
    BY <1>2, <2>1 DEF UpdateFetch, TypeInv, Shape
  <2>2. CASE SkipFetch
    BY <1>2, <2>2 DEF SkipFetch, Walked
  <2> QED
    BY <1>8, <2>1, <2>2 DEF Fetch
<1>9. CASE Inspect
  <2>1. /\ phase = "fix" /\ next \in Nat /\ next < CacheSize - 1 /\ next' = next + 1
        /\ Linked(next) /\ height \in Nat /\ height >= CacheSize - 1
        /\ UNCHANGED <<monerod, window, phase, audit>>
    BY <1>9 DEF Inspect, Check, TypeInv, TypeOK, CacheTypeOK, Shape, Alive
  <2> SUFFICES ASSUME ~forked, NEW c \in Chains, Extends(c, chain), On(c, blocks[0], height),
                      NEW k \in Cells, k <= next + 1
               PROVE  On(c, blocks[k], height - k)
    BY <2>1 DEF Walked, monerod, window, audit
  <2>2. \A j \in Cells : j <= next => On(c, blocks[j], height - j)
    BY <2>1 DEF Walked
  <2>3. CASE k <= next
    BY <2>2, <2>3
  <2>4. CASE k = next + 1
    <3>1. next \in Cells /\ On(c, blocks[next], height - next)
      BY <2>1, <2>2 DEF Cells
    <3>2. height - next \in Nat /\ height - next >= 1
      BY <2>1
    <3>3. On(c, Prev[blocks[next]], (height - next) - 1)
      BY <3>1, <3>2, ChainLinked
    <3>4. (height - next) - 1 = height - k
      BY <2>1, <2>4
    <3> QED
      BY <2>1, <2>4, <3>3, <3>4 DEF Linked
  <2> QED
    BY <2>1, <2>3, <2>4 DEF Cells
<1>10. CASE Mend
  <2>1. /\ phase = "fix" /\ next \in Nat /\ next < CacheSize - 1 /\ next' = next + 1
        /\ height \in Nat /\ height >= CacheSize - 1 /\ chain \in Chains
        /\ HasBlock(height - 1 - next) /\ blocks \in [Cells -> Block]
        /\ blocks' = [blocks EXCEPT ![next + 1] = BlockAt(height - 1 - next)]
        /\ UNCHANGED <<monerod, phase, height, forked>>
    BY <1>10 DEF Mend, Repair, TypeInv, TypeOK, CacheTypeOK, MonerodTypeOK, Shape, Alive
  <2>2. /\ blocks'[next + 1] = BlockAt(height - 1 - next)
        /\ \A k \in Cells : k <= next => blocks'[k] = blocks[k]
    BY <2>1 DEF Cells
  <2>3. blocks'[0] = blocks[0]
    BY <2>1, <2>2
  <2> SUFFICES ASSUME ~forked, NEW c \in Chains, Extends(c, chain), On(c, blocks[0], height),
                      NEW k \in Cells, k <= next + 1
               PROVE  On(c, blocks'[k], height - k)
    BY <2>1, <2>3 DEF Walked, monerod
  <2>4. \A j \in Cells : j <= next => On(c, blocks[j], height - j)
    BY <2>1 DEF Walked
  <2>5. CASE k <= next
    BY <2>2, <2>4, <2>5
  <2>6. CASE k = next + 1
    <3>1. height - 1 - next \in Int /\ height - 1 - next = height - k
      BY <2>1, <2>6
    <3>2. On(chain, BlockAt(height - 1 - next), height - 1 - next)
      BY <2>1, <3>1, Answer
    <3>3. On(c, BlockAt(height - 1 - next), height - 1 - next)
      BY <2>1, <3>1, <3>2, ExtendsOn
    <3> QED
      BY <2>2, <2>6, <3>1, <3>3
  <2> QED
    BY <2>1, <2>5, <2>6 DEF Cells
<1>11. CASE Report
  BY <1>11 DEF Report, Return, Walked, window, monerod
<1>12. CASE Fail
  BY <1>12 DEF Fail, RpcFail, Walked
<1>13. CASE Crash
  BY <1>13 DEF Crash, Walked
<1>14. CASE UNCHANGED vars
  BY <1>14 DEF vars, monerod, cache, window, locals, audit, Walked
<1> QED
  BY <1>3, <1>4, <1>5, <1>6, <1>7, <1>8, <1>9, <1>10, <1>11, <1>12, <1>13, <1>14
  DEF Next
------------------------------------------------------------------------------
(***************************************************************************)
(* What the caller has scanned, by phase.                                  *)
(***************************************************************************)
LEMMA ReportedInit == Init => Reported
<1> SUFFICES ASSUME Init PROVE Reported
  OBVIOUS
<1> QED
  BY DEF Init, CacheInit, Reported, Resting, Asking

LEMMA ReportedStep == TypeInv /\ Reported /\ [Next]_vars => Reported'
<1> SUFFICES ASSUME TypeInv, Reported, [Next]_vars, ~torn' PROVE Reported'
  BY DEF Reported
<1> USE CellsFacts DEF Requesting, Asking, Resting
<1>1. TypeInv'
  BY TypeInvStep
<1>2. height \in Nat /\ next \in Nat /\ tip \in Nat /\ updated \in Nat /\ fixed \in Nat
      /\ chain \in Chains /\ chain' \in Chains /\ height' \in Nat
  BY <1>1 DEF TypeInv, TypeOK, MonerodTypeOK, CacheTypeOK
<1>3. CASE Daemon
  <2>1. Extends(chain', chain) \/ phase \notin {"init", "skip", "fix"}
    BY <1>3 DEF Daemon, Adopt
  <2>2. ~torn /\ UNCHANGED <<blocks, height, phase, tip, next, updated, fixed, seen>>
    BY <1>3 DEF Daemon, cache, window, locals
  <2>3. ASSUME Extends(chain', chain), NEW n, OnChainBefore(n) PROVE OnChainBefore(n)'
    <3>1. \A k \in Cells : height - k \in Int
      BY <1>2 DEF Cells
    <3> QED
      BY <1>2, <2>2, <2>3, <3>1, ExtendsOn DEF OnChainBefore, OnChain
  <2>4. UnchangedSince(0)' = UnchangedSince(0) /\ \A k : Linked(k)' = Linked(k)
    BY <2>2 DEF UnchangedSince, Linked
  <2> QED
    BY <2>1, <2>2, <2>3, <2>4
    DEF Reported, Filling, Known, Skipping, Fixing, UnchangedSince
<1>4. CASE Start
  BY <1>4 DEF Start, Open, audit, Reported, Filling, OnChainBefore, Cells
<1>5. CASE Begin
  <2>1. /\ ~torn /\ phase \in Resting /\ phase' \in Asking
        /\ UNCHANGED <<blocks, seen>>
    BY <1>5 DEF Begin, Call, window
  <2>2. Known
    BY <2>1 DEF Reported
  <2> QED
    BY <2>1, <2>2 DEF Reported, Known, UnchangedSince, Linked
<1>6. CASE Fill
  <2>1. /\ ~torn /\ phase = "init" /\ HasBlock(height - next) /\ next < CacheSize
        /\ blocks' = [blocks EXCEPT ![next] = BlockAt(height - next)]
        /\ blocks \in [Cells -> Block \cup {NoBlock}] /\ next' = next + 1
        /\ phase' = IF next + 1 = CacheSize THEN "idle" ELSE "init"
        /\ UNCHANGED <<chain, height>>
    BY <1>6 DEF Fill, InitFetch, monerod, TypeInv, TypeOK, CacheTypeOK, Shape
  <2>2. On(chain, BlockAt(height - next), height - next)
    BY <1>2, <2>1, Answer
  <2>3. OnChainBefore(next)'
    <3> SUFFICES ASSUME NEW k \in Cells, k < next + 1 PROVE On(chain, blocks'[k], height - k)
      BY <2>1 DEF OnChainBefore, OnChain
    <3>1. CASE k = next
      BY <2>1, <2>2, <3>1
    <3>2. CASE k # next
      <4>1. k < next /\ blocks'[k] = blocks[k]
        BY <1>2, <2>1, <3>2 DEF Cells
      <4> QED
        BY <2>1, <4>1 DEF Reported, Filling, OnChainBefore, OnChain
    <3> QED
      BY <3>1, <3>2
  <2>4. CASE phase' = "init"
    BY <2>1, <2>3, <2>4 DEF Reported, Filling
  <2>5. CASE phase' = "idle"
    <3>1. next + 1 = CacheSize /\ \A k \in Cells : k < next + 1
      BY <1>2, <2>1, <2>5 DEF Cells
    <3>2. \A k \in Cells : On(chain, blocks'[k], height - k)
      BY <2>1, <2>3, <3>1 DEF OnChainBefore, OnChain
    <3>3. UnchangedSince(0)'
      BY <1>6, <2>5, <3>1 DEF Fill, Scanned, UnchangedSince, Cells
    <3>4. ASSUME NEW k \in Links PROVE Linked(k)'
      <4>1. On(chain, blocks'[k], height - k) /\ On(chain, blocks'[k + 1], height - (k + 1))
        BY <3>2, Neighbours
      <4>2. height - k \in Nat /\ height - k >= 1 /\ height - (k + 1) = (height - k) - 1
        BY <1>2, <4>1 DEF On, Links
      <4> QED
        BY <1>2, <4>1, <4>2, ChainParent DEF Linked
    <3> QED
      BY <2>5, <3>3, <3>4 DEF Reported, Known
  <2> QED
    BY <2>1, <2>4, <2>5
<1>7. CASE Ask
  <2>1. /\ ~torn /\ phase \in Asking /\ next = 0 /\ updated = 0 /\ fixed = 0
        /\ UNCHANGED <<chain, blocks, height, seen, updated, fixed>>
    BY <1>7 DEF Ask, UpdateTip, SkipTip, locals, monerod, audit, TypeInv, Shape
  <2>2. UnchangedSince(0) /\ \A k \in Links : Linked(k)
    BY <2>1 DEF Reported, Known
  <2>3. UnchangedSince(0)' /\ \A k \in Links : Linked(k)'
    BY <2>1, <2>2 DEF UnchangedSince, Linked
  <2>4. CASE UpdateTip
    <3>1. phase' \in {"fetch", "fix"} /\ next' = 0
      BY <2>1, <2>4 DEF UpdateTip, locals
    <3>2. Known' /\ Fixing'
      BY <2>1, <2>3, <3>1 DEF Known, Fixing, Max2
    <3> QED
      BY <3>1, <3>2 DEF Reported
  <2>5. CASE SkipTip
    <3>1. phase' \in {"skip", "done"}
      BY <2>5 DEF SkipTip
    <3>2. Known' /\ Skipping'
      BY <2>1, <2>3 DEF Known, Skipping, OnChainBefore, Cells
    <3> QED
      BY <3>1, <3>2 DEF Reported
  <2> QED
    BY <1>7, <2>4, <2>5 DEF Ask
<1>8. CASE Fetch
  <2>1. /\ ~torn /\ phase \in {"fetch", "skip"} /\ next' \in Nat /\ fixed' = 0 /\ fixed = 0
        /\ updated' = updated + 1 /\ blocks' = Push(blocks'[0])
        /\ On(chain, blocks'[0], height')
        /\ updated > 0 => phase = "skip" /\ height' = height + 1
        /\ seen' = [i \in Cells |-> IF i = 0 THEN NoBlock ELSE seen[i - 1]]
        /\ UNCHANGED chain
    <3>1. CASE UpdateFetch
      <4>1. HasBlock(height + 1) /\ height + 1 \in Int /\ updated = 0 /\ fixed = 0
        BY <1>2, <3>1 DEF UpdateFetch, TypeInv, Shape
      <4>2. On(chain, BlockAt(height + 1), height + 1)
        BY <1>2, <4>1, Answer
      <4> QED
        BY <1>2, <1>8, <3>1, <4>1, <4>2 DEF Fetch, UpdateFetch, Push, monerod
    <3>2. CASE SkipFetch
      <4>1. HasBlock(tip - next) /\ tip - next \in Int /\ fixed = 0
            /\ (updated > 0 => tip - next = height + 1) /\ next - 1 \in Nat
        BY <1>2, <3>2 DEF SkipFetch, TypeInv, Shape
      <4>2. On(chain, BlockAt(tip - next), tip - next)
        BY <1>2, <4>1, Answer
      <4> QED
        BY <1>2, <1>8, <3>2, <4>1, <4>2 DEF Fetch, SkipFetch, Push, monerod
    <3> QED
      BY <1>8, <3>1, <3>2 DEF Fetch
  <2>2. \A k \in Cells : k # 0 => blocks'[k] = blocks[k - 1] /\ seen'[k] = seen[k - 1]
    BY <2>1 DEF Push
  <2>3. Skipping
    <3>1. CASE phase = "fetch"
      BY <2>1, <3>1 DEF Reported, Known, Skipping, UnchangedSince, OnChainBefore, Cells,
         TypeInv, Shape
    <3>2. CASE phase = "skip"
      BY <2>1, <3>2 DEF Reported
    <3> QED
      BY <2>1, <3>1, <3>2
  <2>4. OnChainBefore(updated)'
    <3> SUFFICES ASSUME NEW k \in Cells, k < updated + 1
                 PROVE  On(chain, blocks'[k], height' - k)
      BY <2>1 DEF OnChainBefore, OnChain
    <3>1. CASE k = 0
      BY <1>2, <2>1, <3>1
    <3>2. CASE k # 0
      <4>1. k - 1 \in Cells /\ k - 1 < updated /\ updated > 0
        BY <1>2, <3>2 DEF Cells
      <4>2. On(chain, blocks[k - 1], height - (k - 1))
        BY <2>3, <4>1 DEF Skipping, OnChainBefore, OnChain
      <4>3. height - (k - 1) = height' - k
        BY <1>2, <2>1, <4>1 DEF Cells
      <4> QED
        BY <2>2, <3>2, <4>2, <4>3
    <3> QED
      BY <3>1, <3>2
  <2>5. UnchangedSince(updated)'
    <3> SUFFICES ASSUME NEW k \in Cells, k >= updated + 1 PROVE seen'[k] = blocks'[k]
      BY <2>1 DEF UnchangedSince
    <3>1. k # 0 /\ k - 1 \in Cells /\ k - 1 >= updated
      BY <1>2 DEF Cells
    <3> QED
      BY <2>2, <2>3, <3>1 DEF Skipping, UnchangedSince
  <2>6. ASSUME NEW k \in Links, k # updated PROVE Linked(k)'
    <3>1. CASE k = 0
      <4>1. updated > 0 /\ 0 \in Cells /\ 1 \in Cells
        BY <1>2, <2>6, <3>1, Neighbours
      <4>2. On(chain, blocks[0], height - 0)
        BY <2>3, <4>1 DEF Skipping, OnChainBefore, OnChain
      <4>3. blocks'[1] = blocks[0]
        BY <2>2, <4>1
      <4>4. height + 1 \in Nat /\ height + 1 >= 1 /\ (height + 1) - 1 = height - 0
        BY <1>2
      <4>5. On(chain, blocks'[0], height + 1)
        BY <2>1, <4>1
      <4>6. Prev[blocks'[0]] = blocks[0]
        BY <1>2, <4>2, <4>4, <4>5, ChainParent
      <4>7. k + 1 = 1
        BY <3>1
      <4> QED
        BY <3>1, <4>3, <4>6, <4>7 DEF Linked
    <3>2. CASE k # 0
      <4>1. k - 1 \in Links /\ k - 1 # updated - 1 /\ k \in Cells /\ k + 1 \in Cells
            /\ k + 1 # 0 /\ (k + 1) - 1 = (k - 1) + 1
        BY <1>2, <2>6, <3>2, Neighbours DEF Links
      <4>2. Linked(k - 1)
        BY <2>3, <4>1 DEF Skipping
      <4>3. blocks'[k] = blocks[k - 1] /\ blocks'[k + 1] = blocks[(k - 1) + 1]
        BY <2>2, <3>2, <4>1
      <4> QED
        BY <4>2, <4>3 DEF Linked
    <3> QED
      BY <3>1, <3>2
  <2>7. CASE phase' = "skip"
    <3>1. \A k \in Links : k # updated' - 1 => Linked(k)'
      BY <1>2, <2>1, <2>6
    <3> QED
      BY <2>4, <2>5, <2>7, <3>1 DEF Reported, Skipping
  <2>8. CASE phase' = "fix"
    <3>1. next' = 0 /\ updated' > 0 /\ Max2(updated', fixed') = updated'
      BY <1>2, <1>8, <2>1, <2>8 DEF Fetch, UpdateFetch, SkipFetch, TypeInv, Shape, Max2
    <3>2. OnChainBefore(next + 1)'
      <4>1. \A k \in Cells : k < next' + 1 => k < updated'
        BY <1>2, <2>1, <3>1 DEF Cells
      <4> QED
        BY <2>4, <4>1 DEF OnChainBefore
    <3>3. updated' = 1 => \A k \in Links : k > next' => Linked(k)'
      BY <1>2, <2>1, <2>6, <3>1 DEF Links
    <3>4. \A k \in Links : ~(k < next')
      BY <3>1 DEF Links
    <3>5. UnchangedSince(Max2(updated, fixed))'
      BY <2>5, <3>1 DEF UnchangedSince
    <3> QED
      BY <2>1, <2>8, <3>1, <3>3, <3>4, <3>5, <3>2 DEF Reported, Fixing
  <2> QED
    BY <1>8, <2>7, <2>8 DEF Fetch, UpdateFetch, SkipFetch
<1>9. CASE Inspect
  <2>1. /\ ~torn /\ phase = "fix" /\ phase' = "fix" /\ next < CacheSize - 1
        /\ next' = next + 1 /\ Linked(next) /\ height >= CacheSize - 1
        /\ UNCHANGED <<chain, blocks, height, updated, fixed, seen>>
    BY <1>9 DEF Inspect, Check, window, monerod, audit, TypeInv, Shape, Alive
  <2>2. Fixing
    BY <2>1 DEF Reported
  <2>3. UnchangedSince(Max2(updated, fixed))'
    BY <2>1, <2>2 DEF Fixing, UnchangedSince
  <2>4. \A k \in Links : Linked(k)' = Linked(k)
    BY <2>1 DEF Linked
  <2>5. \A k \in Links : k < next' => Linked(k)'
    BY <1>2, <2>1, <2>2, <2>4 DEF Fixing, Links
  <2>6. ASSUME updated > 0 PROVE OnChainBefore(next + 1)'
    <3>1. OnChainBefore(next + 1) /\ next \in Cells /\ next < next + 1
      BY <1>2, <2>1, <2>2, <2>6 DEF Fixing, Cells
    <3>2. On(chain, blocks[next], height - next)
      BY <3>1 DEF OnChainBefore, OnChain
    <3>3. height - next \in Nat /\ height - next >= 1 /\ (height - next) - 1 = height - (next + 1)
      BY <1>2, <2>1
    <3>4. On(chain, blocks[next + 1], height - (next + 1))
      BY <1>2, <2>1, <3>2, <3>3, ChainLinked DEF Linked
    <3>5. \A k \in Cells : k < next' + 1 => k < next + 1 \/ k = next + 1
      BY <1>2, <2>1 DEF Cells
    <3>6. \A k \in Cells : k < next' + 1 => On(chain, blocks[k], height - k)
      BY <3>1, <3>4, <3>5 DEF OnChainBefore, OnChain
    <3> QED
      BY <2>1, <3>6 DEF OnChainBefore, OnChain
  <2>7. updated = 0 => fixed = 0 /\ \A k \in Links : Linked(k)'
    BY <2>2, <2>4 DEF Fixing
  <2>8. ASSUME updated = 1
        PROVE  /\ \A k \in Links : k > next' => Linked(k)'
               /\ (next' < CacheSize - 1 /\ Linked(next)') \/ next' = CacheSize - 1
    <3>1. \A k \in Links : k > next => Linked(k)'
      BY <2>2, <2>4, <2>8 DEF Fixing
    <3>2. next + 1 < CacheSize - 1 => next + 1 \in Links /\ next + 1 > next
      BY <1>2, <2>1 DEF Links
    <3>3. next + 1 < CacheSize - 1 => Linked(next)'
      BY <2>1, <3>1, <3>2 DEF Linked
    <3>4. next + 1 < CacheSize - 1 \/ next + 1 = CacheSize - 1
      BY <1>2, <2>1
    <3>5. \A k \in Links : k > next' => k > next
      BY <1>2, <2>1 DEF Links
    <3> QED
      BY <2>1, <3>1, <3>3, <3>4, <3>5
  <2> QED
    BY <2>1, <2>3, <2>5, <2>6, <2>7, <2>8 DEF Reported, Fixing
<1>10. CASE Mend
  <2>1. /\ ~torn /\ phase = "fix" /\ phase' = "fix" /\ next < CacheSize - 1
        /\ next' = next + 1 /\ ~Linked(next) /\ height >= CacheSize - 1
        /\ HasBlock(height - 1 - next) /\ ~(updated > 1)
        /\ blocks \in [Cells -> Block]
        /\ blocks' = [blocks EXCEPT ![next + 1] = BlockAt(height - 1 - next)]
        /\ fixed' = Max2(fixed, 1) + 1
        /\ UNCHANGED <<chain, height, updated, seen>>
    <3>1. ~torn /\ ~(updated > 1)
      BY <1>10 DEF Mend
    <3> QED
      BY <1>10, <3>1 DEF Mend, Repair, monerod, TypeInv, Shape, Alive
  <2>2. Fixing /\ next \in Links /\ next \in Cells /\ next + 1 \in Cells
    BY <1>2, <2>1 DEF Reported, Links, Cells
  <2>3. updated = 1
    BY <1>2, <2>1, <2>2 DEF Fixing
  <2>4. fixed' = next + 2 /\ Max2(updated', fixed') = next + 2
    BY <1>2, <2>1, <2>2, <2>3 DEF Fixing, Max2
  <2>5. /\ blocks'[next + 1] = BlockAt(height - 1 - next)
        /\ \A k \in Cells : k # next + 1 => blocks'[k] = blocks[k]
    BY <2>1, <2>2
  <2>6. OnChainBefore(next + 1)
    BY <2>2, <2>3 DEF Fixing
  <2>7. On(chain, blocks'[next + 1], height - (next + 1))
    <3>1. height - 1 - next \in Int /\ height - 1 - next = height - (next + 1)
      BY <1>2
    <3>2. On(chain, BlockAt(height - 1 - next), height - 1 - next)
      BY <1>2, <2>1, <3>1, Answer
    <3> QED
      BY <2>5, <3>1, <3>2
  <2>8. OnChainBefore(next + 1)'
    <3>1. \A k \in Cells : k < next' + 1 => k < next + 1 \/ k = next + 1
      BY <1>2, <2>1 DEF Cells
    <3>2. \A k \in Cells : k < next + 1 => k # next + 1
      BY <1>2 DEF Cells
    <3>3. \A k \in Cells : k < next' + 1 => On(chain, blocks'[k], height - k)
      BY <2>5, <2>6, <2>7, <3>1, <3>2 DEF OnChainBefore, OnChain
    <3> QED
      BY <2>1, <3>3 DEF OnChainBefore, OnChain
  <2>9. UnchangedSince(Max2(updated, fixed))'
    <3>0. Max2(updated, fixed) \in Nat /\ Max2(updated, fixed) <= next + 1
      BY <1>2, <2>1, <2>2, <2>3 DEF Fixing, Max2
    <3>1. \A k \in Cells : k >= next + 2 => k # next + 1 /\ k >= Max2(updated, fixed)
      BY <1>2, <3>0 DEF Cells
    <3>2. \A k \in Cells : k >= next + 2 => seen[k] = blocks'[k]
      BY <2>2, <2>5, <3>1 DEF Fixing, UnchangedSince
    <3> QED
      BY <2>1, <2>4, <3>2 DEF UnchangedSince
  <2>10. ASSUME NEW k \in Links, k < next + 1 PROVE Linked(k)'
    <3>1. CASE k = next
      <4>1. On(chain, blocks[next], height - next)
        BY <1>2, <2>2, <2>6 DEF OnChainBefore, OnChain
      <4>2. height - next \in Nat /\ height - next >= 1 /\ (height - next) - 1 = height - (next + 1)
        BY <1>2, <2>1
      <4>3. Prev[blocks[next]] = blocks'[next + 1]
        BY <1>2, <2>7, <4>1, <4>2, ChainParent
      <4>4. blocks'[next] = blocks[next]
        BY <1>2, <2>2, <2>5
      <4> QED
        BY <3>1, <4>3, <4>4 DEF Linked
    <3>2. CASE k # next
      <4>1. k < next /\ k \in Cells /\ k + 1 \in Cells /\ k # next + 1 /\ k + 1 # next + 1
        BY <1>2, <2>10, <3>2, Neighbours DEF Links
      <4> QED
        BY <2>2, <2>5, <4>1 DEF Fixing, Linked
    <3> QED
      BY <3>1, <3>2
  <2>11. ASSUME NEW k \in Links, k > next + 1 PROVE Linked(k)'
    <3>1. k > next /\ k \in Cells /\ k + 1 \in Cells /\ k # next + 1 /\ k + 1 # next + 1
      BY <1>2, <2>11, Neighbours DEF Links
    <3> QED
      BY <2>2, <2>3, <2>5, <3>1 DEF Fixing, Linked
  <2>12. next' + 1 = next + 2
    BY <1>2, <2>1
  <2> QED
    BY <2>1, <2>3, <2>4, <2>8, <2>9, <2>10, <2>11, <2>12 DEF Reported, Fixing
<1>11. CASE Report
  <2>1. /\ ~torn /\ phase = "fix" /\ phase' = "done" /\ next = CacheSize - 1
        /\ updated' = Max2(updated, fixed)
        /\ seen' = [i \in Cells |-> IF i < updated' THEN blocks'[i] ELSE seen[i]]
        /\ UNCHANGED blocks
    BY <1>11 DEF Report, Return, Scanned, window
  <2>2. Fixing
    BY <2>1 DEF Reported
  <2>3. \A k \in Cells : k >= 0 /\ (k < updated' \/ k >= updated')
    BY <1>2, <2>1 DEF Cells, Max2
  <2>4. UnchangedSince(0)'
    BY <2>1, <2>2, <2>3 DEF Fixing, UnchangedSince
  <2>5. \A k \in Links : Linked(k)'
    BY <1>2, <2>1, <2>2 DEF Fixing, Linked, Links
  <2> QED
    BY <2>1, <2>4, <2>5 DEF Reported, Known
<1>12. CASE Fail
  <2>1. /\ phase \in {"init", "update", "fetch", "skip_ahead", "skip", "fix"}
        /\ phase' = IF phase = "init" THEN "down" ELSE "failed"
        /\ phase # "init" => ~torn /\ updated = 0 /\ fixed = 0 /\ UNCHANGED <<blocks, seen>>
    <3>1. phase # "init" => ~torn /\ ~(updated + fixed > 0)
      BY <1>12 DEF Fail
    <3> QED
      BY <1>2, <1>12, <3>1 DEF Fail, RpcFail
  <2>2. CASE phase = "init"
    BY <2>1, <2>2 DEF Reported
  <2>3. CASE phase # "init"
    <3>1. UnchangedSince(0) /\ \A k \in Links : Linked(k)
      BY <2>1, <2>3 DEF Reported, Known, Skipping, Fixing, Max2, Links
    <3> QED
      BY <2>1, <2>3, <3>1 DEF Reported, Known, UnchangedSince, Linked
  <2> QED
    BY <2>2, <2>3
<1>13. CASE Crash
  BY <1>13 DEF Crash, Reported
<1>14. CASE UNCHANGED vars
  BY <1>14 DEF vars, monerod, cache, window, locals, audit, Reported, Filling, Known,
     Skipping, Fixing, UnchangedSince, OnChainBefore, OnChain, Linked
<1> QED
  BY <1>3, <1>4, <1>5, <1>6, <1>7, <1>8, <1>9, <1>10, <1>11, <1>12, <1>13, <1>14
  DEF Next
------------------------------------------------------------------------------
LEMMA Inductive == Spec => []IInv
<1>1. Init => IInv
  BY TypeInvInit, WalkedInit, ReportedInit DEF IInv
<1>2. IInv /\ [Next]_vars => IInv'
  BY TypeInvStep, WalkedStep, ReportedStep DEF IInv
<1> QED
  BY <1>1, <1>2, PTL DEF Spec

(***************************************************************************)
(* Every variable of the cache keeps its type, whatever the daemon does.   *)
(***************************************************************************)
THEOREM TypeCorrect == Spec => []TypeOK
<1>1. IInv => TypeOK
  BY DEF IInv, TypeInv
<1> QED
  BY <1>1, Inductive, PTL

(***************************************************************************)
(* check_and_fix_reorg() leaves a window on the daemon's chain: the walk   *)
(* has gone down the whole window when the call returns.                   *)
(***************************************************************************)
THEOREM WindowIsOnChain == Spec => []WindowOnChain
<1>1. IInv => WindowOnChain
  <2> SUFFICES ASSUME IInv, phase = "done", next = CacheSize - 1, ~forked, OnChain(0),
                      NEW i \in Cells
               PROVE  OnChain(i)
    BY DEF WindowOnChain
  <2>1. chain \in Chains /\ height \in Nat
    BY DEF IInv, TypeInv, TypeOK, MonerodTypeOK, CacheTypeOK
  <2>2. Extends(chain, chain) /\ On(chain, blocks[0], height)
    BY <2>1, ExtendsReflexive DEF OnChain
  <2>3. i <= next
    BY CellsFacts DEF Cells
  <2> QED
    BY <2>1, <2>2, <2>3 DEF IInv, Walked, OnChain
<1> QED
  BY <1>1, Inductive, PTL

(***************************************************************************)
(* update() and skip_ahead() report enough cells.                          *)
(***************************************************************************)
THEOREM ReportIsExact == Spec => []ReportExact
<1>1. IInv => ReportExact
  <2> SUFFICES ASSUME IInv, phase = "done", ~torn PROVE seen = blocks
    BY DEF ReportExact
  <2>1. Known
    BY DEF IInv, Reported, Resting
  <2>2. \A k \in Cells : k >= 0
    BY CellsFacts DEF Cells
  <2>3. seen \in [Cells -> Block \cup {NoBlock}] /\ blocks \in [Cells -> Block \cup {NoBlock}]
    BY DEF IInv, TypeInv, TypeOK, CacheTypeOK
  <2> QED
    BY <2>1, <2>2, <2>3 DEF Known, UnchangedSince
<1> QED
  BY <1>1, Inductive, PTL

(***************************************************************************)
(* The published height never moves back while a cache lives.              *)
(***************************************************************************)
THEOREM HeightIsMonotone == Spec => HeightMonotone
<1>1. IInv /\ [Next]_vars => [phase # "down" => height' >= height]_<<phase, height>>
  <2> SUFFICES ASSUME TypeInv, [Next]_vars, phase # "down" PROVE height' >= height
    BY DEF IInv
  <2>1. height \in Nat
    BY DEF TypeInv, TypeOK, CacheTypeOK
  <2>2. CASE UNCHANGED height
    BY <2>1, <2>2
  <2>3. CASE UpdateFetch
    BY <2>1, <2>3 DEF UpdateFetch
  <2>4. CASE SkipFetch
    BY <2>1, <2>4 DEF SkipFetch, TypeInv, TypeOK, CacheTypeOK, Shape
  <2>5. UNCHANGED height \/ UpdateFetch \/ SkipFetch
    BY DEF Next, Daemon, Start, Open, Begin, Call, Fill, InitFetch, Ask, UpdateTip, SkipTip,
       Fetch, Inspect, Check, Mend, Repair, Report, Return, Fail, RpcFail, Crash,
       vars, cache, window
  <2> QED
    BY <2>2, <2>3, <2>4, <2>5
<1> QED
  BY <1>1, Inductive, PTL DEF Spec, HeightMonotone
==============================================================================
