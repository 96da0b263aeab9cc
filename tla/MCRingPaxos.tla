----------------------------- MODULE MCRingPaxos -----------------------------
(* The leader engine and a ring of acceptors with one leader restart:     *)
(* model values for the client keys and bounds on the ring traffic.       *)
EXTENDS RingPaxos, Bags, TLC

CONSTANTS SubmitBound, k1, k2, nokey, RingBound, ReplyBound

MCKey == {k1, k2}

(* Bounds the requests in the ring and the replies back at the leader. *)
InFlightBound ==
  Cardinality(ring) + Cardinality(transit) <= RingBound /\ Cardinality(replies) <= ReplyBound

(* Bounds how many times a client key is queued (a resubmission queues it *)
(* again).                                                                *)
SubmissionBound == \A k \in MCKey : CopiesIn(k, submitted) <= SubmitBound
=============================================================================
