--------------------------- MODULE SubaddressCache ---------------------------
(***************************************************************************)
(* The subaddresses that are free (src/caching/subaddress_cache.rs).  All  *)
(* of it happens under one mutex.                                          *)
(***************************************************************************)
EXTENDS Tables, FiniteSets

CONSTANTS
  major_index,    \* the gateway's account
  MinAvailable,   \* MIN_AVAILABLE_SUBADDRESSES
  MaxMinor        \* u32::MAX

ASSUME SubaddressAssumption ==
  /\ major_index \in Nat /\ MinAvailable \in Nat \ {0}
  /\ MaxMinor \in Nat /\ MinAvailable - 1 <= MaxMinor

VARIABLES
  highest,        \* highest_minor_index, shared with the scanning thread
  available       \* available_subaddresses

subaddresses == <<highest, available>>

\* generate_range()
UpTo(n) == {SubIndex(major_index, k) : k \in 0 .. n}

\* The minor index of the last one, which may be one of another account.
MaxUsed(used) ==
  IF used = {} THEN 0
  ELSE (CHOOSE s \in used : \A r \in used : ~Less(s, r)).minor

FirstHighest(used) ==
  IF MaxUsed(used) > MinAvailable - 1 THEN MaxUsed(used) ELSE MinAvailable - 1

\* init() on a table whose invoices use the subaddresses in used.
SubaddressesInit(used) ==
  /\ highest = FirstHighest(used)
  /\ available = UpTo(FirstHighest(used)) \ used

SubaddressesReset(used) ==
  /\ highest' = FirstHighest(used)
  /\ available' = UpTo(FirstHighest(used)) \ used

\* Mutants: nothing bounds the index; if not all fit, none is made.
ExtendedUnbounded(rest) ==
  IF Cardinality(rest) > MinAvailable THEN highest ELSE highest + MinAvailable
ExtendedWhole(rest) ==
  IF Cardinality(rest) > MinAvailable \/ highest + MinAvailable > MaxMinor
  THEN highest ELSE highest + MinAvailable

\* extend_by(), if few are left.
Extended(rest) ==
  IF Cardinality(rest) > MinAvailable THEN highest
  ELSE IF highest + MinAvailable > MaxMinor THEN MaxMinor ELSE highest + MinAvailable

\* Mutant: the index is raised before it is used.
RemoveRandomRaised(s) ==
  /\ s \in available
  /\ LET rest == available \ {s}
     IN  /\ highest' = Extended(rest)
         /\ available' = rest \cup {SubIndex(major_index, k) : k \in highest + 2 .. highest'}

RemoveRandom(s) ==
  /\ s \in available
  /\ LET rest == available \ {s}
     IN  /\ highest' = Extended(rest)
         /\ available' = rest \cup {SubIndex(major_index, k) : k \in highest + 1 .. highest'}

GiveBack(s) == available' = available \cup {s} /\ UNCHANGED highest
==============================================================================
