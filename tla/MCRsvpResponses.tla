-------------------------- MODULE MCRsvpResponses --------------------------
(* Instances of the RSVP responses for TLC. *)
EXTENDS RsvpResponses, TLC

ReplySymmetry == Permutations(Replies)
=============================================================================
