----------------------------- MODULE MCTracking ------------------------------
(***************************************************************************)
(* Two callers on three subaddresses, of which two are generated at first. *)
(***************************************************************************)
EXTENDS TrackingAudit, TLC

CONSTANTS c1, c2

MCCaller == {c1, c2}
Symmetry == Permutations(MCCaller)

\* Two writes that sled has not flushed, or one and an index lost to an error.
\* The second height comes after the first call of new_invoice; the scanning
\* thread is not stopped after the second, until the restart.  After that there is
\* one unflushed write, no index is lost, and the daemon stays at one height.
Small ==
  /\ Cardinality(disk) + Cardinality(lost) <= 3
  /\ daemon_height = 2 => created > 0 /\ lost = {}
  /\ lives = 0 /\ created = 2 => step \notin {"down", "created"}
  /\ lives = 1 => Cardinality(disk) <= 2 /\ lost = {} /\ daemon_height < 2
==============================================================================
