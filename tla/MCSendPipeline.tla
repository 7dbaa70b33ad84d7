--------------------------- MODULE MCSendPipeline ---------------------------
(***************************************************************************)
(* Instances of SendPipeline for TLC.  In PairBatch one batch carries two  *)
(* messages, and a third may be a resend of either; SingleBatch is one     *)
(* message.                                                                *)
(***************************************************************************)
EXTENDS SendRefinement, TLC

CONSTANTS b1, b2, m1, m2, m3

PairBatch == m1 :> b1 @@ m2 :> b1 @@ m3 :> b2
SingleBatch == m1 :> b1

(* The resend is created and goes no further: what becomes of its batch is *)
(* what becomes of the first one.                                          *)
ResendRests == dispatchJob[b2] = "ABSENT" /\ b2 \notin swept

PairSymmetry == Permutations({m1, m2})
=============================================================================
