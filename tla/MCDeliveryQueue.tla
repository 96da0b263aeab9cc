-------------------------- MODULE MCDeliveryQueue --------------------------
(***************************************************************************)
(* Model-checking instance of DeliveryQueue.  Consecutive instances are    *)
(* decided with different keys, so that a value left in a reused cmd_slot, *)
(* or the mapping of a neighbouring instance, is never the chosen one by   *)
(* accident; the other key is the proposal that was not chosen.            *)
(***************************************************************************)
EXTENDS DeliveryQueue, TLC

CONSTANTS k1, k2, nokey, NetBound, ReqBound

MCKey == {k1, k2}
(* In-flight bounds: at most NetBound multicast messages and ReqBound     *)
(* requests are in transit at once.                                       *)
InFlightBound == Cardinality(net) <= NetBound /\ Cardinality(reqs) <= ReqBound

MCDecisions == {[i \in 1..MaxInst |-> IF i % 2 = 1 THEN k1 ELSE k2]}
=============================================================================
