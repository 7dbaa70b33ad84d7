----------------------------- MODULE MCReminders -----------------------------
(* Small instances of Reminders for TLC. *)
EXTENDS Reminders, TLC

WorkerSymmetry == Permutations(Workers)

(* The rule as its runs have left it: nobody has edited it. *)
Unedited == rule.updated = Cardinality(ran)

(* The event may change twice, as it must to lose and regain what allows   *)
(* reminders; or there is one change or edit, and one fault.               *)
FewDisturbances == changes = 2 => faults = 0 /\ Unedited
=============================================================================
