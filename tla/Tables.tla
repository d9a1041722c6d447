------------------------------- MODULE Tables --------------------------------
(***************************************************************************)
(* A table of invoices: a function on the identifiers of those it holds    *)
(* (InvoiceId, src/invoice.rs).                                            *)
(***************************************************************************)
EXTENDS Integers

EmptyTable == [i \in {} |-> i]

Put(t, i, v) == [j \in DOMAIN t \cup {i} |-> IF j = i THEN v ELSE t[j]]
Without(t, i) == [j \in DOMAIN t \ {i} |-> t[j]]

SubIndex(m, n) == [major |-> m, minor |-> n]
IdOf(s, h) == [sub_index |-> s, creation_height |-> h]

\* The order of subaddress indices: by account, then by minor index.
Less(r, s) ==
  \/ r.major < s.major
  \/ r.major = s.major /\ r.minor < s.minor

SubIndices(t) == {i.sub_index : i \in DOMAIN t}
==============================================================================
