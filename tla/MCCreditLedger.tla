--------------------------- MODULE MCCreditLedger ---------------------------
(***************************************************************************)
(* Instances of CreditLedger for TLC.  In TwoBatches two reservations      *)
(* share one balance, and two messages share one of the reservations.      *)
(***************************************************************************)
EXTENDS CreditLedger, TLC

CONSTANTS b1, b2, m1, m2, m3

TwoBatches == m1 :> b1 @@ m2 :> b1 @@ m3 :> b2

(* Two transactions that move messages overlap, never three.  The provider *)
(* reports once, on a message of b1, or b1's reservation outlives its day. *)
FewAtATime ==
    /\ Cardinality({m \in Messages : txn[m].pc # "IDLE"}) <= 2
    /\ Cardinality({<<m, e>> \in Messages \X Evidence :
                        e \in applied[m] \/ txn[m].kind = e})
           + Cardinality(expired) <= 1
    /\ b2 \notin expired
    /\ applied[m3] = {} /\ txn[m3].kind \notin Evidence

PairSymmetry == Permutations({m1, m2})
=============================================================================
