----------------------------- MODULE MCCheckIn -----------------------------
(* Instances of the event-day check-in for TLC. *)
EXTENDS CheckIn, TLC

(* A pass is issued before or after a transaction of a check-in, not during *)
(* it: the two share the invitation's row and neither writes it.            *)
PassesApart ==
    \/ \A c \in Calls : ~txn[c].open
    \/ \A p \in Pages : page[p].seen = -1

CallSymmetry == Permutations(Calls) \cup Permutations(Pages)
=============================================================================
