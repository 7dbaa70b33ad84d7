-------------------------- MODULE MessageDelivery --------------------------
(***************************************************************************)
(* The vocabulary of one WhatsApp message and its pure rules: the delivery *)
(* statuses, the reducer that folds delivery evidence into a status, and   *)
(* the verdict on a provider failure (packages/domain messaging.ts and the *)
(* send processor), together with the status a batch derives from its      *)
(* messages.  No state: the specifications of the pipeline extend it.      *)
(***************************************************************************)
EXTENDS Naturals

Active == {"QUEUED", "SENDING"}
Proven == {"DELIVERED", "READ", "RESPONDED"}
MessageStatus == Active \cup {"SENT"} \cup Proven \cup {"FAILED", "CANCELLED"}

(* What a provider webhook can say of a message; a guest's reply counts as *)
(* RESPONDED.                                                              *)
Evidence == {"SENT", "FAILED"} \cup Proven

Rank == [s \in MessageStatus \ {"FAILED", "CANCELLED"} |->
            CASE s = "QUEUED"    -> 0
              [] s = "SENDING"   -> 1
              [] s = "SENT"      -> 2
              [] s = "DELIVERED" -> 3
              [] s = "READ"      -> 4
              [] s = "RESPONDED" -> 5]

(* Mutant of Reduce: a late failure report erases proof of delivery. *)
ReduceFailureWins(current, incoming) ==
    IF "CANCELLED" \in {current, incoming} THEN "CANCELLED"
    ELSE IF "FAILED" \in {current, incoming} THEN "FAILED"
    ELSE IF Rank[incoming] > Rank[current] THEN incoming ELSE current

(* Folds one more piece of evidence into the status.  Evidence may arrive  *)
(* in any order: progress is monotonic, a failure outranks mere acceptance *)
(* but not proof of delivery, and only proof of delivery undoes a failure. *)
Reduce(current, incoming) ==
    IF "CANCELLED" \in {current, incoming} THEN "CANCELLED"
    ELSE IF incoming = "FAILED" THEN IF current \in Proven THEN current ELSE "FAILED"
    ELSE IF current = "FAILED" THEN IF incoming \in Proven THEN incoming ELSE "FAILED"
    ELSE IF Rank[incoming] > Rank[current] THEN incoming ELSE current

-----------------------------------------------------------------------------
(* Provider failures, and what the send processor makes of them.           *)
FailureClass == {"TRANSIENT", "PERMANENT", "AMBIGUOUS"}

(* Mutant of Retryable: an uncertain outcome is retried as well. *)
RetryableUnlessPermanent(class, attemptNumber, maximumAttempts) ==
    class # "PERMANENT" /\ attemptNumber < maximumAttempts

(* Only an explicit refusal may be retried, within the attempt limit. *)
Retryable(class, attemptNumber, maximumAttempts) ==
    class = "TRANSIENT" /\ attemptNumber < maximumAttempts

(* The status recordFailure gives the attempt it closes. *)
AttemptVerdict(class, retry) ==
    IF retry THEN "RETRYABLE_FAILURE"
    ELSE IF class = "AMBIGUOUS" THEN "AMBIGUOUS"
    ELSE "PERMANENT_FAILURE"

-----------------------------------------------------------------------------
(* Send batches.                                                           *)
TerminalBatch == {"COMPLETED", "PARTIALLY_FAILED", "FAILED"}
OpenBatch == {"QUEUED", "DISPATCHING", "IN_PROGRESS"}

(* The status updateBatchState derives for a batch with these messages. *)
BatchVerdict(members, st) ==
    IF \E m \in members : st[m] \in Active         THEN "IN_PROGRESS"
    ELSE IF \A m \in members : st[m] = "FAILED"    THEN "FAILED"
    ELSE IF \E m \in members : st[m] = "FAILED"    THEN "PARTIALLY_FAILED"
    ELSE "COMPLETED"
=============================================================================
