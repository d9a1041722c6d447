------------------------- MODULE MCGatewayPublisher --------------------------
(***************************************************************************)
(* Two threads that call the gateway.  One of them holds a subscriber,     *)
(* another subscriber has a thread of its own.                             *)
(***************************************************************************)
EXTENDS GatewayPublisher

CONSTANTS c1, c2, s1, s2

MCCaller == {c1, c2}
MCSubscriber == {s1, s2}
MCReader == [s \in MCSubscriber |-> IF s = s1 THEN c2 ELSE None]
==============================================================================
