------------------------- MODULE MCClientProposer -------------------------
(* Two outstanding values, four values in all, and a leader queue of one  *)
(* value, so that a submission can find the queue full.                   *)
EXTENDS ClientProposer, TLC

CONSTANTS v1, v2, v3, v4, novalue, PipeBound

MCValue == {v1, v2, v3, v4}

(* At most PipeBound values are decided and not yet delivered. *)
PipelineBound == Len(undelivered) <= PipeBound

=============================================================================
