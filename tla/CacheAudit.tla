------------------------------ MODULE CacheAudit -----------------------------
(***************************************************************************)
(* The block cache against a moving daemon, and what its caller may rely   *)
(* on.  The caller (Scanner) learns from a call only how many of the       *)
(* newest cells to scan again, so the audit keeps beside the cache what    *)
(* such a caller has last scanned in each cell.                            *)
(***************************************************************************)
EXTENDS BlockCache

VARIABLES
  seen,     \* seen[i]: the block the caller has last scanned in cell i
  forked,   \* the daemon left its chain since the call fetched its first block
  torn      \* a change may have gone unreported since the cache was opened

audit == <<seen, forked, torn>>
vars == <<monerod, cache, audit>>

Links == 0 .. CacheSize - 2

\* The caller scans the n newest cells.
Scanned(n) == [i \in Cells |-> IF i < n THEN blocks'[i] ELSE seen[i]]

TypeOK ==
  /\ MonerodTypeOK
  /\ CacheTypeOK
  /\ seen \in [Cells -> Block \cup {NoBlock}]
  /\ forked \in BOOLEAN /\ torn \in BOOLEAN

Init ==
  /\ MonerodInit
  /\ CacheInit
  /\ seen = [i \in Cells |-> NoBlock]
  /\ forked = FALSE /\ torn = FALSE
------------------------------------------------------------------------------
\* Moves of the daemon.  Only leaving the current chain can tear a call.
Daemon ==
  /\ UNCHANGED <<cache, seen>>
  /\ \E c \in Chains :
       /\ Adopt(c)
       /\ forked' = (forked \/ (~Extends(c, chain) /\ phase \notin Asking))
       /\ torn' = (torn \/ (~Extends(c, chain) /\ phase \in {"init", "skip", "fix"}))

\* A scanner starts: at the daemon's tip, or where a stored invoice was left.
Start ==
  /\ \E h \in 0 .. Len(chain) : Open(h, Len(chain))
  /\ UNCHANGED <<monerod, audit>>

Begin ==
  /\ \E proc \in {"update", "skip_ahead"} : Call(proc)
  /\ forked' = FALSE
  /\ UNCHANGED <<monerod, seen, torn>>

\* The first scan covers the whole window, whatever the first call reports.
Fill ==
  /\ InitFetch
  /\ seen' = IF phase' = "idle" THEN Scanned(CacheSize) ELSE seen
  /\ UNCHANGED <<monerod, forked, torn>>

Ask ==
  /\ UpdateTip \/ SkipTip
  /\ UNCHANGED <<monerod, audit>>

Fetch ==
  /\ UpdateFetch \/ SkipFetch
  /\ seen' = [i \in Cells |-> IF i = 0 THEN NoBlock ELSE seen[i - 1]]
  /\ UNCHANGED <<monerod, forked, torn>>

Inspect ==
  /\ Check
  /\ UNCHANGED <<monerod, audit>>

\* skip_ahead() reports the larger of the pushed and the repaired cells, which
\* are too few when it has pushed several and repairs others below them.
Mend ==
  /\ Repair
  /\ torn' = (torn \/ updated > 1)
  /\ UNCHANGED <<monerod, seen, forked>>

Report ==
  /\ Return
  /\ seen' = Scanned(updated')
  /\ UNCHANGED <<monerod, forked, torn>>

\* An error reports nothing, even when cells have changed.
Fail ==
  /\ RpcFail
  /\ torn' = (phase # "init" /\ (torn \/ updated + fixed > 0))
  /\ UNCHANGED <<monerod, seen, forked>>

\* The scanning thread ends or the process dies: the cache is dropped.
Crash ==
  /\ phase # "down"
  /\ phase' = "down"
  /\ blocks' = [i \in Cells |-> NoBlock]
  /\ tip' = 0 /\ next' = 0 /\ updated' = 0 /\ fixed' = 0
  /\ seen' = blocks'
  /\ forked' = FALSE /\ torn' = FALSE
  /\ UNCHANGED <<monerod, height, daemon_height>>

Next ==
  \/ Daemon \/ Start \/ Begin \/ Fill \/ Ask \/ Fetch
  \/ Inspect \/ Mend \/ Report \/ Fail \/ Crash

Spec == Init /\ [][Next]_vars

(***************************************************************************)
(* The scanning thread calls the cache again and again, and every request  *)
(* ends.  Up to the head of the response a timeout sees to that            *)
(* (rpc/mod.rs:252, 273); that the body arrives behind it, which nothing   *)
(* times (rpc/mod.rs:277), is a hypothesis about the daemon.  Nothing else *)
(* is assumed of it, of starts or of crashes.                              *)
(***************************************************************************)
Fairness == WF_vars(Begin \/ Fill \/ Ask \/ Fetch \/ Inspect \/ Mend \/ Report \/ Fail)

FairSpec == Spec /\ Fairness
------------------------------------------------------------------------------
OnChain(i) == On(chain, blocks[i], height - i)

(***************************************************************************)
(* After a call that ran check_and_fix_reorg, unless the daemon left its   *)
(* chain meanwhile: if the newest cached block is on the daemon's chain,   *)
(* the whole window is, with every block at its own height.  A stale block *)
(* under a good top would be scanned under a wrong height.                 *)
(***************************************************************************)
WindowOnChain ==
  phase = "done" /\ next = CacheSize - 1 /\ ~forked /\ OnChain(0) =>
    \A i \in Cells : OnChain(i)

(***************************************************************************)
(* The count that update() and skip_ahead() return is large enough: a      *)
(* caller that scans just so many cells has scanned the present content of *)
(* every cell, over any number of calls and any reorganisations between    *)
(* them.  Reports lost to an error, a chain left in the middle of a call   *)
(* and a repair below several pushed blocks are excepted by torn.          *)
(***************************************************************************)
ReportExact == phase = "done" /\ ~torn => seen = blocks

(***************************************************************************)
(* The height that the gateway publishes as its block cache height never   *)
(* moves back while a cache lives, however the daemon's chain shrinks.     *)
(***************************************************************************)
HeightMonotone == [][phase # "down" => height' >= height]_<<phase, height>>

(***************************************************************************)
(* Once the daemon's chain is settled and requests stop failing, a living  *)
(* cache reaches the daemon's tip and stays there, if no body of a         *)
(* response is waited for for ever (Fairness).                             *)
(***************************************************************************)
Settled ==
  /\ <>[][FALSE]_chain
  /\ <>[](phase \notin {"down", "init", "failed"})

CatchesUp == Settled => <>[](height >= Len(chain) - 1)
==============================================================================
