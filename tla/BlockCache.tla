----------------------------- MODULE BlockCache ------------------------------
(***************************************************************************)
(* BlockCache (src/caching/block_cache.rs): a window on the newest blocks  *)
(* of the daemon's chain.  Every request to the daemon is a step of its    *)
(* own, so the daemon may move between any two of them.                    *)
(*                                                                         *)
(* blocks[0] is the newest block.  blocks[i] stands for the tuple (id,     *)
(* height, block, transactions) of the code; a block determines the rest.  *)
(***************************************************************************)
EXTENDS Monerod

CONSTANT CacheSize

ASSUME CacheAssumption == CacheSize \in Nat \ {0} /\ CacheSize <= MinLength

VARIABLES
  blocks,         \* the window
  height,         \* height of blocks[0], shared with the payment gateway
  daemon_height,  \* last block count seen, shared with the payment gateway
  phase,          \* where the running procedure is
  tip,            \* local blockchain_height of skip_ahead
  next,           \* the loop counter of the running procedure
  updated,        \* local `updated` of update and skip_ahead
  fixed           \* local `updated` of check_and_fix_reorg

window == <<blocks, height, daemon_height>>
locals == <<tip, next, updated, fixed>>
cache == <<window, phase, locals>>

Cells == 0 .. CacheSize - 1
Max2(a, b) == IF a > b THEN a ELSE b
Min2(a, b) == IF a < b THEN a ELSE b

\* The procedures make requests in these phases ("fix" only to repair a cell).
Requesting == {"init", "update", "fetch", "skip_ahead", "skip", "fix"}
\* Before the first block of a call has been fetched.
Asking == {"update", "fetch", "skip_ahead"}
Resting == {"idle", "done", "failed"}
Phases == {"down"} \cup Requesting \cup Resting

CacheTypeOK ==
  /\ blocks \in [Cells -> Block \cup {NoBlock}]
  /\ height \in Nat /\ daemon_height \in Nat
  /\ phase \in Phases
  /\ tip \in Nat /\ next \in Nat /\ updated \in Nat /\ fixed \in Nat

CacheInit ==
  /\ blocks = [i \in Cells |-> NoBlock]
  /\ height = 0 /\ daemon_height = 0
  /\ phase = "down"
  /\ tip = 0 /\ next = 0 /\ updated = 0 /\ fixed = 0
------------------------------------------------------------------------------
(***************************************************************************)
(* BlockCache::init at height h; t is the daemon's height, which           *)
(* Scanner::new has just read.  The window is filled downwards.            *)
(***************************************************************************)
Open(h, t) ==
  /\ phase = "down"
  /\ height' = h /\ daemon_height' = t
  /\ phase' = "init" /\ next' = 0
  /\ UNCHANGED <<blocks, tip, updated, fixed>>

InitFetch ==
  /\ phase = "init"
  /\ HasBlock(height - next)
  /\ blocks' = [blocks EXCEPT ![next] = BlockAt(height - next)]
  /\ next' = next + 1
  /\ phase' = IF next + 1 = CacheSize THEN "idle" ELSE "init"
  /\ UNCHANGED <<height, daemon_height, tip, updated, fixed>>

PushGrowing(b) == [i \in 0 .. CacheSize |-> IF i = 0 THEN b ELSE blocks[i - 1]]  \* mutant

\* The window with b pushed on top and the oldest block dropped.
Push(b) == [i \in Cells |-> IF i = 0 THEN b ELSE blocks[i - 1]]

Call(proc) ==
  /\ phase \in Resting
  /\ phase' = proc
  /\ tip' = 0 /\ next' = 0 /\ updated' = 0 /\ fixed' = 0
  /\ UNCHANGED window

\* Mutant: the last block of the chain is never fetched.
UpdateTipLate ==
  /\ phase = "update"
  /\ daemon_height' = Len(chain)
  /\ phase' = IF height + 1 < Len(chain) - 1 THEN "fetch" ELSE "fix"
  /\ UNCHANGED <<blocks, height, locals>>

\* update() asks for the daemon's height; only one block is fetched at a time.
UpdateTip ==
  /\ phase = "update"
  /\ daemon_height' = Len(chain)
  /\ phase' = IF height < Len(chain) - 1 THEN "fetch" ELSE "fix"
  /\ UNCHANGED <<blocks, height, locals>>

UpdateFetch ==
  /\ phase = "fetch"
  /\ HasBlock(height + 1)
  /\ blocks' = Push(BlockAt(height + 1))
  /\ height' = height + 1
  /\ updated' = updated + 1
  /\ phase' = "fix"
  /\ UNCHANGED <<daemon_height, tip, next, fixed>>

\* Mutant: the whole window is fetched, however few blocks are new.
SkipTipWhole ==
  /\ phase = "skip_ahead"
  /\ daemon_height' = Len(chain)
  /\ IF height < Len(chain) - 1
     THEN phase' = "skip" /\ tip' = Len(chain) /\ next' = CacheSize
     ELSE phase' = "done" /\ UNCHANGED <<tip, next>>
  /\ UNCHANGED <<blocks, height, updated, fixed>>

\* skip_ahead() jumps to the tip; next counts the blocks left to fetch.
SkipTip ==
  /\ phase = "skip_ahead"
  /\ daemon_height' = Len(chain)
  /\ IF height < Len(chain) - 1
     THEN /\ phase' = "skip" /\ tip' = Len(chain)
          /\ next' = Min2(Len(chain) - (height + 1), CacheSize)
     ELSE phase' = "done" /\ UNCHANGED <<tip, next>>
  /\ UNCHANGED <<blocks, height, updated, fixed>>

SkipFetch ==
  /\ phase = "skip"
  /\ HasBlock(tip - next)
  /\ blocks' = Push(BlockAt(tip - next))
  /\ height' = tip - next
  /\ updated' = updated + 1
  /\ next' = next - 1
  /\ phase' = IF next = 1 THEN "fix" ELSE "skip"
  /\ UNCHANGED <<daemon_height, tip, fixed>>

(***************************************************************************)
(* check_and_fix_reorg(): cell by cell from the top, a block that is not   *)
(* the parent of the one above it is fetched again.                        *)
(***************************************************************************)
Linked(i) == Prev[blocks[i]] = blocks[i + 1]

\* Mutant: the walk ends at the first block that fits.
CheckFirst ==
  /\ phase = "fix" /\ next < CacheSize - 1
  /\ Linked(next)
  /\ next' = CacheSize - 1
  /\ UNCHANGED <<window, phase, tip, updated, fixed>>

Check ==
  /\ phase = "fix" /\ next < CacheSize - 1
  /\ Linked(next)
  /\ next' = next + 1
  /\ UNCHANGED <<window, phase, tip, updated, fixed>>

\* Mutant: the top block is not counted with the first repair.
RepairUncounted ==
  /\ phase = "fix" /\ next < CacheSize - 1
  /\ ~Linked(next)
  /\ HasBlock(height - 1 - next)
  /\ blocks' = [blocks EXCEPT ![next + 1] = BlockAt(height - 1 - next)]
  /\ fixed' = fixed + 1
  /\ next' = next + 1
  /\ UNCHANGED <<height, daemon_height, phase, tip, updated>>

Repair ==
  /\ phase = "fix" /\ next < CacheSize - 1
  /\ ~Linked(next)
  /\ HasBlock(height - 1 - next)
  /\ blocks' = [blocks EXCEPT ![next + 1] = BlockAt(height - 1 - next)]
  /\ fixed' = Max2(fixed, 1) + 1
  /\ next' = next + 1
  /\ UNCHANGED <<height, daemon_height, phase, tip, updated>>

Return ==
  /\ phase = "fix" /\ next = CacheSize - 1
  /\ updated' = Max2(updated, fixed)
  /\ phase' = "done"
  /\ tip' = 0 /\ fixed' = 0
  /\ UNCHANGED <<window, next>>

(***************************************************************************)
(* A request fails: the connection, the timeout, or no block at that       *)
(* height.  The procedure returns the error at once and keeps what it has  *)
(* already written; a failed init() leaves no cache behind.                *)
(***************************************************************************)
RpcFail ==
  /\ phase \in Requesting
  /\ phase = "fix" => next < CacheSize - 1 /\ ~Linked(next)
  /\ phase' = IF phase = "init" THEN "down" ELSE "failed"
  /\ blocks' = IF phase = "init" THEN [i \in Cells |-> NoBlock] ELSE blocks
  /\ tip' = 0 /\ next' = 0 /\ updated' = 0 /\ fixed' = 0
  /\ UNCHANGED <<height, daemon_height>>

\* The caller is done with what a call has returned.
Dispose == phase' = "idle" /\ next' = 0 /\ updated' = 0 /\ UNCHANGED <<window, tip, fixed>>

\* The procedure that is running takes a step.
CacheStep ==
  \/ InitFetch
  \/ UpdateTip \/ UpdateFetch
  \/ SkipTip \/ SkipFetch
  \/ Check \/ Repair \/ Return
==============================================================================
