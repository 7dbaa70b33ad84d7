------------------------ MODULE MCRsvpConfirmations ------------------------
(***************************************************************************)
(* Instances of RsvpConfirmations for TLC: the constants are numbers, so   *)
(* the configurations give them directly.                                  *)
(***************************************************************************)
EXTENDS RsvpConfirmations, TLC
=============================================================================
