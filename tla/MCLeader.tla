------------------------------ MODULE MCLeader ------------------------------
(* The leader engine with two instance ranges, two client keys and small   *)
(* bounds on the ring traffic.                                             *)
EXTENDS Leader, TLC

CONSTANTS SubmitBound, k1, k2, k3, nokey, RingBound, ReplyBound

MCKey == {k1, k2, k3}

(* Bounds the in-flight ring requests and replies. *)
InFlightBound == Cardinality(ring) <= RingBound /\ Cardinality(replies) <= ReplyBound

(* Bounds how many times a client key is queued (a resubmission queues it *)
(* again).                                                                *)
SubmissionBound == \A k \in MCKey : CopiesIn(k, submitted) <= SubmitBound
(* Client keys are only compared for equality, so any permutation of them *)
(* maps a behaviour to a behaviour.                                       *)
KeySymmetry == Permutations(MCKey)
=============================================================================
