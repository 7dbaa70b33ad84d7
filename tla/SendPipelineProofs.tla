------------------------- MODULE SendPipelineProofs -------------------------
(***************************************************************************)
(* Proofs about SendPipeline, for any sets of messages and batches and any *)
(* attempt limit: its types and row constraints, that the provider accepts *)
(* a message at most once, that attempts follow only refusals, and that an *)
(* accepted message is never offered as safe to send again; that message   *)
(* and batch rows stay in agreement with the evidence; and that the        *)
(* pipeline implements LogicalSend.                                        *)
(***************************************************************************)
EXTENDS SendRefinement, FiniteSetTheorems, TLAPS

(* The inductive invariant.  An attempt that has not started leaves no     *)
(* trace; attempts before the current one were refused; a refused attempt  *)
(* was not accepted and nobody performs it any more; an attempt still      *)
(* calling, or known to be refused, was not accepted.                      *)
NotStarted(m) ==
    \A n \in Attempts : n > attemptCount[m] =>
        attempt[m][n] = None /\ flight[m][n] = "IDLE" /\ n \notin accepted[m]

EarlierRefused(m) ==
    \A n \in Attempts : n < attemptCount[m] => attempt[m][n] = "RETRYABLE_FAILURE"

RefusedIsOver(m) ==
    \A n \in Attempts : attempt[m][n] = "RETRYABLE_FAILURE" =>
        n \notin accepted[m] /\ flight[m][n] = "IDLE"

UnansweredNotAccepted(m) ==
    \A n \in Attempts : flight[m][n] \in {"CALLING", "TRANSIENT", "PERMANENT"} =>
        n \notin accepted[m]

(* A message waiting to be claimed has only refused attempts behind it. *)
QueuedIsClean(m) ==
    /\ status[m] = "QUEUED" =>
           \A n \in 1..attemptCount[m] : attempt[m][n] = "RETRYABLE_FAILURE"
    /\ status[m] = "ABSENT" => attemptCount[m] = 0

(* A failed message that was, or still may be, accepted is marked so. *)
UncertainIsMarked(m) ==
    status[m] = "FAILED" /\ (\/ accepted[m] # {}
                             \/ \E n \in Attempts : flight[m][n] = "CALLING") =>
        failureClass[m] = "AMBIGUOUS" \/ "FAILED" \in applied[m]

(* A message exists only in a batch that exists. *)
ExistsWithBatch(m) == batchStatus[BatchOf[m]] = "ABSENT" => status[m] = "ABSENT"

AttemptInv(m) ==
    /\ NotStarted(m)
    /\ EarlierRefused(m)
    /\ RefusedIsOver(m)
    /\ UnansweredNotAccepted(m)

StatusInv(m) ==
    /\ QueuedIsClean(m)
    /\ UncertainIsMarked(m)
    /\ ExistsWithBatch(m)

SendInv == \A m \in Messages : AttemptInv(m) /\ StatusInv(m)

IInv == TypeOK /\ SendInv

-----------------------------------------------------------------------------
(* Facts about the pure operators. *)

(* Reduce yields a status, never one that can be claimed, and yields       *)
(* FAILED only from a failure.                                             *)
LEMMA ReduceResult ==
    ASSUME NEW s \in MessageStatus, NEW e \in Evidence
    PROVE  /\ Reduce(s, e) \in MessageStatus \ Active
           /\ Reduce(s, e) = "FAILED" => s = "FAILED" \/ e = "FAILED"
BY DEF Reduce, Rank, MessageStatus, Evidence, Active, Proven

(* A derived batch status is a status, and not ABSENT. *)
LEMMA BatchVerdictResult ==
    ASSUME NEW S, NEW st
    PROVE  /\ BatchVerdict(S, st) \in TerminalBatch \cup OpenBatch \cup {"ABSENT"}
           /\ BatchVerdict(S, st) # "ABSENT"
BY DEF BatchVerdict, TerminalBatch, OpenBatch

(* A recorded attempt outcome is an attempt status. *)
LEMMA AttemptVerdictResult ==
    ASSUME NEW class, NEW retry \in BOOLEAN
    PROVE  /\ AttemptVerdict(class, retry) \in AttemptStatus
           /\ AttemptVerdict(class, retry) = "RETRYABLE_FAILURE" <=> retry
BY DEF AttemptVerdict, AttemptStatus

-----------------------------------------------------------------------------
(* The invariant holds before the first batch is created. *)
LEMMA InitInvariant == Init => IInv
<1> SUFFICES ASSUME Init PROVE IInv
    OBVIOUS
<1> USE BatchAssumption, BoundAssumption DEF Init
<1>1. TypeOK
    BY DEF TypeOK, RowConstraints, MessageTypes, SendTypes, BatchTypes,
           Attempts,
           AttemptStatus, JobState, Flight, FailureClass, Active, Proven, None
<1>2. SendInv
    BY DEF SendInv, AttemptInv, StatusInv, NotStarted, EarlierRefused,
           RefusedIsOver, QueuedIsClean,
           UnansweredNotAccepted, UncertainIsMarked, ExistsWithBatch, Attempts,
           None
<1>. QED BY <1>1, <1>2 DEF IInv

(* Every step keeps the types and the row constraints.  A group of         *)
(* variables a step leaves alone keeps its part (<1>f, <1>g, <1>h).        *)
LEMMA TypeStep == IInv /\ [Next]_vars => TypeOK'
<1> SUFFICES ASSUME IInv, [Next]_vars PROVE TypeOK'
    OBVIOUS
<1>r. \A m \in Messages : RowConstraints(m)
    BY DEF IInv, TypeOK
<1>m. MessageTypes
    BY DEF IInv, TypeOK
<1>s. SendTypes
    BY DEF IInv, TypeOK
<1>b. BatchTypes
    BY DEF IInv, TypeOK
<1>i. SendInv
    BY DEF IInv
<1> USE BatchAssumption, BoundAssumption
<1>f. ASSUME UNCHANGED <<messageVars, webhookVars>>
      PROVE  /\ \A w \in Messages : RowConstraints(w)'
             /\ UNCHANGED accepted => MessageTypes'
    BY <1>r, <1>m, <1>f DEF RowConstraints, MessageTypes, messageVars,
           webhookVars
<1>g. ASSUME UNCHANGED <<sendQueueVars, flight>> PROVE SendTypes'
    BY <1>s, <1>g DEF SendTypes, sendQueueVars
<1>h. ASSUME UNCHANGED <<batchVars, dispatchVars, recoveryVars>>,
             UNCHANGED faults \/ Fault
      PROVE  BatchTypes'
    BY <1>b, <1>h DEF BatchTypes, Fault, batchVars, dispatchVars, recoveryVars
<1>w. ASSUME NEW b \in Batches, UpdateBatchState(b),
             UNCHANGED <<dispatchFence, dispatchVars, recoveryVars, faults>>
      PROVE  BatchTypes'
    BY <1>b, <1>w, BatchVerdictResult DEF UpdateBatchState, BatchTypes,
           dispatchVars, recoveryVars
<1>1. ASSUME NEW b \in Batches, CreateBatch(b) PROVE TypeOK'
  <2>1. ASSUME NEW w \in Messages PROVE RowConstraints(w)'
    BY <1>r, <1>m, <1>1 DEF CreateBatch, RowConstraints, MessageTypes,
           None, Proven
  <2>2. MessageTypes'
    BY <1>m, <1>1 DEF CreateBatch, MessageTypes, MessageStatus, Active,
           webhookVars
  <2>4. BatchTypes'
    BY <1>b, <1>1 DEF CreateBatch, BatchTypes, OpenBatch, dispatchVars,
           recoveryVars
  <2>. QED BY <1>g, <1>1, <2>1, <2>2, <2>4 DEF CreateBatch, TypeOK
<1>2. ASSUME NEW b \in Batches, EnqueueDispatch(b) PROVE TypeOK'
  <2>4. BatchTypes'
    BY <1>b, <1>2 DEF EnqueueDispatch, BatchTypes, JobState, batchVars,
           recoveryVars
  <2>. QED BY <1>f, <1>g, <1>2, <2>4 DEF EnqueueDispatch, TypeOK
<1>3. ASSUME NEW b \in Batches, ReplayFindsFailed(b) PROVE TypeOK'
  <2>4. BatchTypes'
    BY <1>b, <1>3 DEF ReplayFindsFailed, BatchTypes, batchVars,
           dispatchVars
  <2>. QED BY <1>f, <1>g, <1>3, <2>4 DEF ReplayFindsFailed, TypeOK
<1>4. ASSUME NEW b \in Batches, RecoverExhaustedDispatch(b) PROVE TypeOK'
  <2>1. ASSUME NEW w \in Messages PROVE RowConstraints(w)'
    BY <1>r, <1>m, <1>4 DEF RecoverExhaustedDispatch, NeverDispatched,
           RowConstraints, MessageTypes, None, Proven
  <2>2. MessageTypes'
    BY <1>m, <1>4 DEF RecoverExhaustedDispatch, NeverDispatched,
           MessageTypes, MessageStatus, Active, webhookVars
  <2>4. BatchTypes'
    BY <1>b, <1>4 DEF RecoverExhaustedDispatch, BatchTypes, OpenBatch,
           dispatchVars, recoveryVars
  <2>. QED BY <1>g, <1>4, <2>1, <2>2, <2>4 DEF RecoverExhaustedDispatch,
         TypeOK
<1>5. ASSUME NEW b \in Batches, RetryDispatchJob(b) PROVE TypeOK'
  <2>4. BatchTypes'
    BY <1>b, <1>5 DEF RetryDispatchJob, RetryIfFailed, BatchTypes,
           JobState, batchVars
  <2>. QED BY <1>f, <1>g, <1>5, <2>4 DEF RetryDispatchJob, TypeOK
<1>6. ASSUME NEW b \in Batches, ReplayInterrupted(b) PROVE TypeOK'
  <2>4. BatchTypes'
    BY <1>b, <1>6 DEF ReplayInterrupted, Fault, BatchTypes, batchVars,
           dispatchVars
  <2>. QED BY <1>f, <1>g, <1>6, <2>4 DEF ReplayInterrupted, TypeOK
<1>7. ASSUME SweepLists PROVE TypeOK'
  <2>4. BatchTypes'
    BY <1>b, <1>7 DEF SweepLists, BatchTypes, batchVars, dispatchVars
  <2>. QED BY <1>f, <1>g, <1>7, <2>4 DEF SweepLists, TypeOK
<1>8. ASSUME NEW b \in Batches, SweepDispatches(b) PROVE TypeOK'
  <2>1. dispatchJob' \in [Batches -> JobState] /\ dispatchTries' \in [Batches -> Nat]
    <3>1. CASE dispatchJob[b] = "ABSENT"
      BY <1>b, <1>8, <3>1 DEF SweepDispatches, BatchTypes, JobState
    <3>2. CASE dispatchJob[b] # "ABSENT"
      BY <1>b, <1>8, <3>2 DEF SweepDispatches, RetryIfFailed,
             BatchTypes, JobState
    <3>. QED BY <3>1, <3>2
  <2>2. BatchTypes'
    BY <1>b, <1>8, <2>1 DEF SweepDispatches, BatchTypes, batchVars
  <2>. QED BY <1>f, <1>g, <1>8, <2>2 DEF SweepDispatches, TypeOK
<1>9. ASSUME NEW b \in Batches, PrepareBatchDispatch(b) PROVE TypeOK'
  <2>4. BatchTypes'
    BY <1>b, <1>9 DEF PrepareBatchDispatch, BatchTypes, Members,
           OpenBatch, JobState, recoveryVars
  <2>. QED BY <1>f, <1>g, <1>9, <2>4 DEF PrepareBatchDispatch, TypeOK
<1>10. ASSUME NEW b \in Batches, EnqueueMessages(b) PROVE TypeOK'
  <2>3. SendTypes'
    BY <1>s, <1>10 DEF EnqueueMessages, SendTypes, JobState
  <2>4. BatchTypes'
    BY <1>b, <1>10 DEF EnqueueMessages, BatchTypes, JobState, batchVars,
           recoveryVars
  <2>. QED BY <1>f, <1>10, <2>3, <2>4 DEF EnqueueMessages, TypeOK
<1>11. ASSUME NEW b \in Batches, MarkBatchDispatched(b) PROVE TypeOK'
  <2>4. BatchTypes'
    BY <1>b, <1>11 DEF MarkBatchDispatched, MarkedDispatched,
           BatchTypes, JobState, OpenBatch, recoveryVars
  <2>. QED BY <1>f, <1>g, <1>11, <2>4 DEF MarkBatchDispatched, TypeOK
<1>12. ASSUME NEW b \in Batches, DispatchJobFails(b) PROVE TypeOK'
  <2>4. BatchTypes'
    BY <1>b, <1>12 DEF DispatchJobFails, Fault, BatchTypes, JobState,
           batchVars, recoveryVars
  <2>. QED BY <1>f, <1>g, <1>12, <2>4 DEF DispatchJobFails, TypeOK
<1>13. ASSUME NEW b \in Batches, NEW k \in dispatchReplays[b], RecordExhaustedDispatch(b, k)
      PROVE  TypeOK'
  <2>1. ASSUME NEW w \in Messages PROVE RowConstraints(w)'
    BY <1>r, <1>m, <1>13 DEF RecordExhaustedDispatch, RowConstraints,
           MessageTypes,
           None, Proven
  <2>2. MessageTypes'
    BY <1>m, <1>13 DEF RecordExhaustedDispatch, MessageTypes, MessageStatus,
           FailureClass, webhookVars
  <2>3. BatchTypes'
    <3>1. batchStatus' \in [Batches -> TerminalBatch \cup OpenBatch \cup {"ABSENT"}]
      BY <1>b, <1>13, BatchVerdictResult DEF RecordExhaustedDispatch,
             UpdateBatchState, BatchTypes
    <3>2. /\ dispatchReplays' = [dispatchReplays EXCEPT ![b] = @ \ {k}]
          /\ UNCHANGED <<dispatchFence, dispatchJob, dispatchTries, dispatchPc,
                         dispatchIds, exhaustions, recoveryVars, faults>>
      BY <1>13 DEF RecordExhaustedDispatch
    <3>. QED BY <1>b, <3>1, <3>2 DEF BatchTypes, recoveryVars
  <2>. QED BY <1>g, <1>13, <2>1, <2>2, <2>3 DEF RecordExhaustedDispatch, TypeOK
<1>14. ASSUME NEW b \in Batches, NEW k \in dispatchReplays[b], ExhaustedDispatchUnrecorded(b, k)
      PROVE  TypeOK'
  <2>4. BatchTypes'
    BY <1>b, <1>14 DEF ExhaustedDispatchUnrecorded, Fault, BatchTypes,
           JobState, batchVars, recoveryVars
  <2>. QED BY <1>f, <1>g, <1>14, <2>4 DEF ExhaustedDispatchUnrecorded,
         TypeOK
<1>15. ASSUME NEW b \in Batches, DispatchJobRemoved(b) PROVE TypeOK'
  <2>4. BatchTypes'
    BY <1>b, <1>15 DEF DispatchJobRemoved, Fault, BatchTypes, JobState,
           batchVars, recoveryVars
  <2>. QED BY <1>f, <1>g, <1>15, <2>4 DEF DispatchJobRemoved, TypeOK
<1>16. ASSUME NEW p \in Messages, NEW m \in Messages, Resend(p, m)
      PROVE  TypeOK'
  <2>1. ASSUME NEW w \in Messages PROVE RowConstraints(w)'
    BY <1>r, <1>m, <1>16 DEF Resend, Resendable, RowConstraints,
           MessageTypes, None, Proven
  <2>2. MessageTypes'
    BY <1>m, <1>16 DEF Resend, Resendable, MessageTypes, MessageStatus,
           Active, webhookVars
  <2>4. BatchTypes'
    BY <1>b, <1>16 DEF Resend, BatchTypes, OpenBatch, dispatchVars,
           recoveryVars
  <2>. QED BY <1>g, <1>16, <2>1, <2>2, <2>4 DEF Resend, TypeOK
<1>17. ASSUME NEW m \in Messages, ClaimInterrupted(m) PROVE TypeOK'
  <2>1. ASSUME NEW w \in Messages PROVE RowConstraints(w)'
    BY <1>r, <1>m, <1>17 DEF ClaimInterrupted, FailAsAmbiguous, Fail,
           RowConstraints, MessageTypes, None, Proven
  <2>2. MessageTypes'
    BY <1>m, <1>17 DEF ClaimInterrupted, FailAsAmbiguous, Fail,
           MessageTypes, MessageStatus, Active, FailureClass, AttemptStatus,
           None, messageVars, webhookVars
  <2>3. SendTypes'
    BY <1>s, <1>17 DEF ClaimInterrupted, CompleteSendJob, SendTypes,
           JobState
  <2>4. BatchTypes'
    BY <1>w, <1>17 DEF ClaimInterrupted, FailAsAmbiguous, Fail
  <2>. QED BY <2>1, <2>2, <2>3, <2>4 DEF TypeOK
<1>18. ASSUME NEW m \in Messages, ClaimSkipped(m) PROVE TypeOK'
  <2>3. SendTypes'
    BY <1>s, <1>18 DEF ClaimSkipped, CompleteSendJob, SendTypes,
           JobState
  <2>. QED BY <1>f, <1>h, <1>18, <2>3 DEF ClaimSkipped, TypeOK
<1>19. ASSUME NEW m \in Messages, ClaimQueued(m) PROVE TypeOK'
  <2> DEFINE n == attemptCount[m] + 1
  <2>t. attemptCount[m] \in 0..MaxAttempts
    BY <1>m DEF MessageTypes
  <2>u. UNCHANGED <<providerMessageId, predecessor, webhookVars, dispatchFence,
                    accepted, sendTries, sendReplay, dispatchVars,
                    recoveryVars, faults>>
    BY <1>19 DEF ClaimQueued
  <2>a. CASE n > MaxAttempts
    <3>0. /\ Fail(m, "TRANSIENT", "RETRY_LIMIT_REACHED")
          /\ CompleteSendJob(m)
          /\ UNCHANGED <<attemptCount, attempt, flight>>
      BY <1>19, <2>a DEF ClaimQueued
    <3>1. ASSUME NEW w \in Messages PROVE RowConstraints(w)'
      BY <1>r, <1>m, <2>u, <3>0 DEF Fail, RowConstraints, MessageTypes,
             None, Proven
    <3>2. MessageTypes'
      BY <1>m, <2>u, <3>0 DEF Fail, MessageTypes, MessageStatus, FailureClass,
             webhookVars
    <3>3. SendTypes'
      BY <1>s, <2>u, <3>0 DEF CompleteSendJob, SendTypes, JobState
    <3>4. BatchTypes'
      BY <1>w, <2>u, <3>0 DEF Fail
    <3>. QED BY <3>1, <3>2, <3>3, <3>4 DEF TypeOK
  <2>b. CASE ~(n > MaxAttempts)
    <3>0. /\ status' = [status EXCEPT ![m] = "SENDING"]
          /\ attemptCount' = [attemptCount EXCEPT ![m] = n]
          /\ attempt' = [attempt EXCEPT ![m][n] = "STARTED"]
          /\ failureClass' = [failureClass EXCEPT ![m] = None]
          /\ failureCode' = [failureCode EXCEPT ![m] = None]
          /\ flight' = [flight EXCEPT ![m][n] = "CALLING"]
          /\ sendJob' = [sendJob EXCEPT ![m] = "ACTIVE"]
          /\ sendHolder' = [sendHolder EXCEPT ![m] = n]
          /\ UNCHANGED batchStatus
      BY <1>19, <2>b DEF ClaimQueued
    <3>n. n \in Attempts /\ n \in 1..MaxAttempts
      BY <2>t, <2>b DEF Attempts
    <3> HIDE DEF n
    <3>1. ASSUME NEW w \in Messages PROVE RowConstraints(w)'
      BY <1>r, <1>m, <2>u, <3>0, <3>n DEF RowConstraints, MessageTypes, Proven
    <3>2. MessageTypes'
      <4>1. attempt' \in [Messages -> [Attempts -> AttemptStatus]]
        BY <1>m, <3>0, <3>n DEF MessageTypes, AttemptStatus
      <4>. QED BY <1>m, <2>u, <3>0, <3>n, <4>1 DEF MessageTypes, MessageStatus,
                  Active, webhookVars
    <3>3. SendTypes'
      <4>1. flight' \in [Messages -> [Attempts -> Flight]]
        BY <1>s, <3>0, <3>n DEF SendTypes, Flight
      <4>. QED BY <1>s, <2>u, <3>0, <3>n, <4>1 DEF SendTypes, JobState
    <3>4. BatchTypes'
      BY <1>h, <2>u, <3>0 DEF batchVars
    <3>. QED BY <3>1, <3>2, <3>3, <3>4 DEF TypeOK
  <2>. QED BY <2>a, <2>b
<1>20. ASSUME NEW m \in Messages, ClaimFails(m) PROVE TypeOK'
  <2>3. SendTypes'
    BY <1>s, <1>20 DEF ClaimFails, FailSendJob, SendTypes, JobState
  <2>. QED BY <1>f, <1>h, <1>20, <2>3 DEF ClaimFails, TypeOK
<1>21. ASSUME NEW m \in Messages, JobStalls(m) PROVE TypeOK'
  <2>3. SendTypes'
    BY <1>s, <1>21 DEF JobStalls, SendTypes, JobState
  <2>. QED BY <1>f, <1>h, <1>21, <2>3 DEF JobStalls, TypeOK
<1>22. ASSUME NEW m \in Messages, RecordExhaustedSend(m) PROVE TypeOK'
  <2>u. /\ UNCHANGED <<attemptCount, providerMessageId, predecessor, webhookVars,
                       dispatchFence, accepted, sendJob, sendTries, sendHolder,
                       flight, dispatchVars, recoveryVars, faults>>
        /\ sendReplay' = [sendReplay EXCEPT ![m] = FALSE]
    BY <1>22 DEF RecordExhaustedSend
  <2>3. SendTypes'
    BY <1>s, <2>u DEF SendTypes
  <2>a. ASSUME NEW class \in FailureClass, Fail(m, class, "JOB_RETRY_EXHAUSTED"),
               attempt' \in [Messages -> [Attempts -> AttemptStatus]]
        PROVE  TypeOK'
    <3>1. ASSUME NEW w \in Messages PROVE RowConstraints(w)'
      BY <1>r, <1>m, <2>a, <2>u DEF Fail, RowConstraints, MessageTypes, None,
             FailureClass, Proven
    <3>2. MessageTypes'
      BY <1>m, <2>a, <2>u DEF Fail, MessageTypes, MessageStatus, webhookVars
    <3>4. BatchTypes'
      BY <1>w, <2>a, <2>u DEF Fail
    <3>. QED BY <2>3, <3>1, <3>2, <3>4 DEF TypeOK
  <2>b. CASE FailAsAmbiguous(m, "JOB_RETRY_EXHAUSTED")
    <3>1. attempt' \in [Messages -> [Attempts -> AttemptStatus]]
      BY <1>m, <2>b DEF FailAsAmbiguous, MessageTypes, AttemptStatus
    <3>. QED BY <2>a, <2>b, <3>1 DEF FailAsAmbiguous, FailureClass
  <2>c. CASE Fail(m, "TRANSIENT", "JOB_RETRY_EXHAUSTED") /\ UNCHANGED attempt
    BY <1>m, <2>a, <2>c DEF MessageTypes, FailureClass
  <2>d. CASE UNCHANGED <<status, failureClass, failureCode, attempt, batchStatus>>
    BY <1>f, <1>h, <2>u, <2>3, <2>d DEF messageVars, batchVars, TypeOK
  <2>. QED BY <1>22, <2>b, <2>c, <2>d DEF RecordExhaustedSend
<1>23. ASSUME NEW m \in Messages, SendJobRemoved(m) PROVE TypeOK'
  <2>3. SendTypes'
    BY <1>s, <1>23 DEF SendJobRemoved, SendTypes, JobState
  <2>. QED BY <1>f, <1>h, <1>23, <2>3 DEF SendJobRemoved, TypeOK
<1>24. ASSUME NEW m \in Messages, NEW e \in WebhookEvidence, ApplyWebhook(m, e)
      PROVE  TypeOK'
  <2> DEFINE reduced == Reduce(status[m], e)
  <2>1. PICK n \in accepted[m] :
          /\ IF Correlates(m, n, e)
             THEN /\ applied' = [applied EXCEPT ![m] = @ \cup {e}]
                  /\ providerMessageId' = [providerMessageId EXCEPT
                                              ![m] = CorrelationId(m, n)]
                  /\ status' = [status EXCEPT ![m] = reduced]
                  /\ failureClass' = [failureClass EXCEPT ![m] =
                         IF reduced # "FAILED"
                         THEN IF status[m] = "FAILED" THEN None ELSE @
                         ELSE IF e = "FAILED" THEN "PERMANENT" ELSE @]
                  /\ failureCode' = [failureCode EXCEPT ![m] =
                         IF reduced # "FAILED"
                         THEN IF status[m] = "FAILED" THEN None ELSE @
                         ELSE IF e = "FAILED" THEN "PROVIDER" ELSE @]
                  /\ UpdateBatchState(BatchOf[m])
             ELSE UNCHANGED <<applied, providerMessageId, status, failureClass,
                              failureCode, batchStatus>>
          /\ seen' = [seen EXCEPT ![m] = @ \cup {e}]
          /\ UNCHANGED <<attemptCount, predecessor, attempt, dispatchFence,
                         accepted, sendQueueVars, flight, dispatchVars,
                         recoveryVars, faults>>
    BY <1>24 DEF ApplyWebhook
  <2>n. n \in 1..MaxAttempts
    BY <1>m DEF MessageTypes, Attempts
  <2>s. status[m] \in MessageStatus
    <3>1. attemptCount[m] # 0
      BY <1>i, <1>m, <2>n DEF SendInv, AttemptInv, NotStarted,
             MessageTypes, Attempts
    <3>. QED BY <1>i, <1>m, <3>1 DEF SendInv, StatusInv, QueuedIsClean, MessageTypes
  <2>r. /\ reduced \in MessageStatus \ Active
        /\ reduced = "FAILED" => status[m] = "FAILED" \/ e = "FAILED"
    BY <2>s, ReduceResult
  <2>c. CorrelationId(m, n) \in 1..MaxAttempts
    BY <1>m, <2>n DEF CorrelationId, MessageTypes
  <2>3. SendTypes'
    BY <1>g, <2>1
  <2> HIDE DEF reduced
  <2>a. CASE Correlates(m, n, e)
    <3>0. /\ providerMessageId' = [providerMessageId EXCEPT
                                      ![m] = CorrelationId(m, n)]
          /\ status' = [status EXCEPT ![m] = reduced]
          /\ failureClass' = [failureClass EXCEPT ![m] =
                 IF reduced # "FAILED" THEN IF status[m] = "FAILED" THEN None ELSE @
                 ELSE IF e = "FAILED" THEN "PERMANENT" ELSE @]
          /\ failureCode' = [failureCode EXCEPT ![m] =
                 IF reduced # "FAILED" THEN IF status[m] = "FAILED" THEN None ELSE @
                 ELSE IF e = "FAILED" THEN "PROVIDER" ELSE @]
          /\ applied' = [applied EXCEPT ![m] = @ \cup {e}]
          /\ UNCHANGED <<attemptCount, predecessor, attempt, accepted>>
      BY <2>1, <2>a
    <3>1. ASSUME NEW w \in Messages PROVE RowConstraints(w)'
      BY <1>r, <1>m, <2>r, <2>c, <3>0 DEF RowConstraints, MessageTypes,
             None, Active,
             Proven
    <3>2. MessageTypes'
      <4>1. seen' \in [Messages -> SUBSET WebhookEvidence]
        BY <1>m, <2>1 DEF MessageTypes
      <4>2. /\ failureClass' \in [Messages -> FailureClass \cup {None}]
            /\ status' \in [Messages -> MessageStatus \cup {"ABSENT"}]
        BY <1>m, <2>r, <3>0 DEF MessageTypes, FailureClass
      <4>3. providerMessageId' \in [Messages -> 0..MaxAttempts]
        BY <1>m, <2>c, <3>0 DEF MessageTypes
      <4>4. applied' \in [Messages -> SUBSET WebhookEvidence]
        BY <1>m, <3>0 DEF MessageTypes
      <4>. QED BY <1>m, <3>0, <4>1, <4>2, <4>3, <4>4 DEF MessageTypes
    <3>4. BatchTypes'
      BY <1>w, <2>1, <2>a
    <3>. QED BY <2>3, <3>1, <3>2, <3>4 DEF TypeOK
  <2>b. CASE ~Correlates(m, n, e)
    <3>1. ASSUME NEW w \in Messages PROVE RowConstraints(w)'
      BY <1>r, <2>1, <2>b DEF RowConstraints
    <3>2. MessageTypes'
      BY <1>m, <2>1, <2>b DEF MessageTypes
    <3>4. BatchTypes'
      BY <1>h, <2>1, <2>b DEF batchVars
    <3>. QED BY <2>3, <3>1, <3>2, <3>4 DEF TypeOK
  <2>. QED BY <2>a, <2>b
<1>25. ASSUME NEW m \in Messages, NEW n \in Attempts, ProviderAccepts(m, n)
      PROVE  TypeOK'
  <2>2. MessageTypes'
    BY <1>m, <1>25 DEF ProviderAccepts, MessageTypes, messageVars,
           webhookVars
  <2>3. SendTypes'
    BY <1>s, <1>25 DEF ProviderAccepts, SendTypes, Flight, FailureClass,
           sendQueueVars
  <2>. QED BY <1>f, <1>h, <1>25, <2>2, <2>3 DEF ProviderAccepts, TypeOK
<1>26. ASSUME NEW m \in Messages, NEW n \in Attempts, ProviderRefuses(m, n)
      PROVE  TypeOK'
  <2>3. SendTypes'
    BY <1>s, <1>26 DEF ProviderRefuses, SendTypes, Flight, sendQueueVars
  <2>. QED BY <1>f, <1>h, <1>26, <2>3 DEF ProviderRefuses, TypeOK
<1>27. ASSUME NEW m \in Messages, NEW n \in Attempts, RecordAccepted(m, n)
      PROVE  TypeOK'
  <2> DEFINE reduced == Reduce(status[m], "SENT")
             correlates == providerMessageId[m] \in {0, n} /\ attemptCount[m] = n
             closes == status[m] # "SENDING" \/ attempt[m][n] = "STARTED"
  <2>u. /\ flight[m][n] = "OK"
        /\ flight' = [flight EXCEPT ![m][n] = "IDLE"]
        /\ FinishSendJob(m, n)
        /\ UNCHANGED <<attemptCount, predecessor, webhookVars, dispatchFence,
                       accepted, sendTries, sendReplay, dispatchVars,
                       recoveryVars, faults>>
    BY <1>27 DEF RecordAccepted, Land
  <2>n. n \in 1..MaxAttempts
    BY DEF Attempts
  <2>s. status[m] \in MessageStatus
    <3>1. NotStarted(m) /\ QueuedIsClean(m)
      BY <1>i DEF SendInv, AttemptInv, StatusInv
    <3>2. ~(n > attemptCount[m])
      BY <2>u, <3>1 DEF NotStarted
    <3>3. attemptCount[m] # 0
      BY <2>n, <3>2
    <3>. QED BY <1>m, <3>1, <3>3 DEF QueuedIsClean, MessageTypes
  <2>r. /\ reduced \in MessageStatus \ Active
        /\ reduced = "FAILED" => status[m] = "FAILED"
    BY <2>s, ReduceResult DEF Evidence
  <2>3. SendTypes'
    <3>1. sendJob' \in [Messages -> JobState] /\ sendHolder' \in [Messages -> 0..MaxAttempts]
      <4>1. CASE CompleteSendJob(m)
        BY <1>s, <4>1 DEF CompleteSendJob, SendTypes, JobState
      <4>2. CASE UNCHANGED <<sendJob, sendHolder>>
        BY <1>s, <4>2 DEF SendTypes
      <4>. QED BY <2>u, <4>1, <4>2 DEF FinishSendJob
    <3>2. flight' \in [Messages -> [Attempts -> Flight]]
      BY <1>s, <2>u DEF SendTypes, Flight
    <3>. QED BY <1>s, <2>u, <3>1, <3>2 DEF SendTypes
  <2>4. attempt' \in [Messages -> [Attempts -> AttemptStatus]]
    <3>1. CASE correlates
      <4>1. attempt' = [attempt EXCEPT ![m][n] = IF @ = "STARTED" THEN "ACCEPTED" ELSE @]
        BY <1>27, <3>1 DEF RecordAccepted
      <4>. QED BY <1>m, <4>1 DEF MessageTypes, AttemptStatus
    <3>2. CASE ~correlates
      BY <1>m, <1>27, <3>2 DEF RecordAccepted, MessageTypes
    <3>. QED BY <3>1, <3>2
  <2>a. CASE correlates /\ closes
    <3>0. /\ providerMessageId' = [providerMessageId EXCEPT ![m] = n]
          /\ status' = [status EXCEPT ![m] = reduced]
          /\ failureClass' = [failureClass EXCEPT ![m] =
                                 IF reduced = "FAILED" THEN @ ELSE None]
          /\ failureCode' = [failureCode EXCEPT ![m] =
                                IF reduced = "FAILED" THEN @ ELSE None]
          /\ UpdateBatchState(BatchOf[m])
      BY <1>27, <2>a DEF RecordAccepted
    <3> HIDE DEF reduced, correlates, closes
    <3>1. ASSUME NEW w \in Messages PROVE RowConstraints(w)'
      BY <1>r, <1>m, <2>n, <2>r, <2>u, <3>0 DEF RowConstraints,
             MessageTypes, None,
             FailureClass, Active, Proven
    <3>2. MessageTypes'
      BY <1>m, <2>n, <2>r, <2>u, <2>4, <3>0 DEF MessageTypes, None, webhookVars
    <3>4. BatchTypes'
      BY <1>w, <2>u, <3>0
    <3>. QED BY <3>1, <3>2, <2>3, <3>4 DEF TypeOK
  <2>b. CASE ~(correlates /\ closes)
    <3>0. UNCHANGED <<providerMessageId, status, failureClass, failureCode,
                      batchStatus>>
      BY <1>27, <2>b DEF RecordAccepted
    <3>1. ASSUME NEW w \in Messages PROVE RowConstraints(w)'
      BY <1>r, <2>u, <3>0 DEF RowConstraints
    <3>2. MessageTypes'
      BY <1>m, <2>u, <2>4, <3>0 DEF MessageTypes, webhookVars
    <3>4. BatchTypes'
      BY <1>h, <2>u, <3>0 DEF batchVars
    <3>. QED BY <3>1, <3>2, <2>3, <3>4 DEF TypeOK
  <2>. QED BY <2>a, <2>b
<1>28. ASSUME NEW m \in Messages, NEW n \in Attempts, RecordFailure(m, n)
      PROVE  TypeOK'
  <2> DEFINE class == flight[m][n]
             retry == Retryable(class, n, MaxAttempts)
             open == attempt[m][n] = "STARTED"
             activeClaim == status[m] = "SENDING" /\ attemptCount[m] = n
  <2>u. /\ class \in FailureClass
        /\ flight' = [flight EXCEPT ![m][n] = "IDLE"]
        /\ SettleSendJob(m, n, retry)
        /\ UNCHANGED <<attemptCount, providerMessageId, predecessor, webhookVars,
                       dispatchFence, accepted, dispatchVars, recoveryVars, faults>>
    BY <1>28 DEF RecordFailure, Land
  <2>v. retry \in BOOLEAN
    BY DEF Retryable
  <2>3. SendTypes'
    <3> HIDE DEF retry
    <3>1. flight' \in [Messages -> [Attempts -> Flight]]
      BY <1>s, <2>u DEF SendTypes, Flight
    <3>2. /\ sendJob' \in [Messages -> JobState]
          /\ sendTries' \in [Messages -> Nat]
          /\ sendHolder' \in [Messages -> 0..MaxAttempts]
          /\ sendReplay' \in [Messages -> BOOLEAN]
      <4>1. CASE FailSendJob(m)
        BY <1>s, <4>1 DEF FailSendJob, SendTypes, JobState
      <4>2. CASE UNCHANGED sendQueueVars
        BY <1>s, <4>2 DEF SendTypes, sendQueueVars
      <4>3. CASE CompleteSendJob(m) /\ UNCHANGED <<sendTries, sendReplay>>
        BY <1>s, <4>3 DEF CompleteSendJob, SendTypes, JobState
      <4>4. CASE /\ sendJob' = [sendJob EXCEPT ![m] = "WAITING"]
                 /\ sendHolder' = [sendHolder EXCEPT ![m] = 0]
                 /\ UNCHANGED <<sendTries, sendReplay>>
        BY <1>s, <4>4 DEF SendTypes, JobState
      <4>. QED BY <2>u, <4>1, <4>2, <4>3, <4>4 DEF SettleSendJob
    <3>. QED BY <1>s, <3>1, <3>2 DEF SendTypes
  <2>4. attempt' \in [Messages -> [Attempts -> AttemptStatus]]
    <3>1. CASE open
      <4>1. attempt' = [attempt EXCEPT ![m][n] = AttemptVerdict(class, retry)]
        BY <1>28, <3>1 DEF RecordFailure
      <4>2. AttemptVerdict(class, retry) \in AttemptStatus
        BY <2>v, AttemptVerdictResult
      <4> HIDE DEF class, retry
      <4>. QED BY <1>m, <4>1, <4>2 DEF MessageTypes
    <3>2. CASE ~open
      BY <1>m, <1>28, <3>2 DEF RecordFailure, MessageTypes
    <3>. QED BY <3>1, <3>2
  <2>a. CASE open /\ activeClaim
    <3>0. /\ status' = [status EXCEPT ![m] = IF retry THEN "QUEUED" ELSE "FAILED"]
          /\ failureClass' = [failureClass EXCEPT ![m] = class]
          /\ failureCode' = [failureCode EXCEPT ![m] = "PROVIDER"]
          /\ UpdateBatchState(BatchOf[m])
      BY <1>28, <2>a DEF RecordFailure
    <3> HIDE DEF class, retry, open, activeClaim
    <3>1. ASSUME NEW w \in Messages PROVE RowConstraints(w)'
      BY <1>r, <1>m, <2>u, <3>0 DEF RowConstraints, MessageTypes, None,
             FailureClass, Active, Proven
    <3>2. MessageTypes'
      BY <1>m, <2>u, <2>4, <3>0 DEF MessageTypes, MessageStatus, Active,
             webhookVars
    <3>4. BatchTypes'
      BY <1>w, <2>u, <3>0
    <3>. QED BY <3>1, <3>2, <2>3, <3>4 DEF TypeOK
  <2>b. CASE ~(open /\ activeClaim)
    <3>0. UNCHANGED <<status, failureClass, failureCode, batchStatus>>
      BY <1>28, <2>b DEF RecordFailure
    <3>1. ASSUME NEW w \in Messages PROVE RowConstraints(w)'
      BY <1>r, <2>u, <3>0 DEF RowConstraints
    <3>2. MessageTypes'
      BY <1>m, <2>u, <2>4, <3>0 DEF MessageTypes, webhookVars
    <3>4. BatchTypes'
      BY <1>h, <2>u, <3>0 DEF batchVars
    <3>. QED BY <3>1, <3>2, <2>3, <3>4 DEF TypeOK
  <2>. QED BY <2>a, <2>b
<1>29. ASSUME NEW m \in Messages, NEW n \in Attempts, WorkerCrash(m, n)
      PROVE  TypeOK'
  <2>2. MessageTypes'
    <3>1. accepted' \in [Messages -> SUBSET Attempts]
      BY <1>m, <1>29 DEF WorkerCrash, MessageTypes
    <3>. QED BY <1>m, <1>29, <3>1 DEF WorkerCrash, MessageTypes, messageVars, webhookVars
  <2>3. SendTypes'
    <3>1. flight' \in [Messages -> [Attempts -> Flight]]
      BY <1>s, <1>29 DEF WorkerCrash, SendTypes, Flight
    <3>2. CASE sendHolder[m] = n
      <4>1. /\ sendJob' = [sendJob EXCEPT ![m] = "WAITING"]
            /\ sendHolder' = [sendHolder EXCEPT ![m] = 0]
            /\ UNCHANGED <<sendTries, sendReplay>>
        BY <1>29, <3>2 DEF WorkerCrash
      <4>. QED BY <1>s, <3>1, <4>1 DEF SendTypes, JobState
    <3>3. CASE sendHolder[m] # n
      <4>1. UNCHANGED sendQueueVars
        BY <1>29, <3>3 DEF WorkerCrash, sendQueueVars
      <4>. QED BY <1>s, <3>1, <4>1 DEF SendTypes, sendQueueVars
    <3>. QED BY <3>2, <3>3
  <2>. QED BY <1>f, <1>h, <1>29, <2>2, <2>3 DEF WorkerCrash, TypeOK
<1>30. ASSUME NEW m \in Messages, NEW n \in Attempts, RecordAcceptedAborts(m, n)
      PROVE  TypeOK'
  <2>3. SendTypes'
    BY <1>s, <1>30 DEF RecordAcceptedAborts, SendTypes, Flight,
           FailureClass, sendQueueVars
  <2>. QED BY <1>f, <1>h, <1>30, <2>3 DEF RecordAcceptedAborts, TypeOK
<1>31. ASSUME NEW m \in Messages, NEW n \in Attempts, RecordFailureAborts(m, n)
      PROVE  TypeOK'
  <2>3. SendTypes'
    <3>1. flight' \in [Messages -> [Attempts -> Flight]]
      BY <1>s, <1>31 DEF RecordFailureAborts, Land, SendTypes, Flight
    <3>2. CASE sendHolder[m] = n
      <4>1. FailSendJob(m)
        BY <1>31, <3>2 DEF RecordFailureAborts
      <4>. QED BY <1>s, <3>1, <4>1 DEF FailSendJob, SendTypes, JobState
    <3>3. CASE sendHolder[m] # n
      <4>1. UNCHANGED sendQueueVars
        BY <1>31, <3>3 DEF RecordFailureAborts
      <4>. QED BY <1>s, <3>1, <4>1 DEF SendTypes, sendQueueVars
    <3>. QED BY <3>2, <3>3
  <2>. QED BY <1>f, <1>h, <1>31, <2>3 DEF RecordFailureAborts, TypeOK
<1>32. ASSUME SweepAfterRestart PROVE TypeOK'
  <2>3. SendTypes'
    BY <1>s, <1>32 DEF SweepAfterRestart, SendTypes, JobState
  <2>4. BatchTypes'
    BY <1>b, <1>32 DEF SweepAfterRestart, Fault, BatchTypes, JobState,
           batchVars, recoveryVars
  <2>. QED BY <1>f, <1>32, <2>3, <2>4 DEF SweepAfterRestart, TypeOK
<1>90. CASE UNCHANGED vars
  BY <1>f, <1>g, <1>h, <1>90 DEF vars, TypeOK
<1>. QED
    BY <1>1, <1>2, <1>3, <1>4, <1>5, <1>6, <1>7, <1>8, <1>9, <1>10,
           <1>11, <1>12, <1>13, <1>14, <1>15, <1>16, <1>17, <1>18, <1>19,
           <1>20, <1>21, <1>22, <1>23, <1>24, <1>25, <1>26, <1>27, <1>28,
           <1>29, <1>30, <1>31, <1>32, <1>90 DEF Next, HostStep, DispatchStep,
           SweepStep, BookkeepingStep, RemovalStep, ClaimStep, AnswerStep,
           RecordStep

-----------------------------------------------------------------------------
(* Every step keeps the attempt history in order.  <1>u to <1>f are what   *)
(* several actions have in common: changing nothing the invariant reads,   *)
(* recounting a batch, and the two ways the worker fails a message.        *)
LEMMA SendStep == IInv /\ [Next]_vars => SendInv'
<1> SUFFICES ASSUME IInv, [Next]_vars PROVE SendInv'
    OBVIOUS
<1>m. MessageTypes
    BY DEF IInv, TypeOK
<1>s. SendTypes
    BY DEF IInv, TypeOK
<1>b. BatchTypes
    BY DEF IInv, TypeOK
<1>a. \A w \in Messages : AttemptInv(w)
    BY DEF IInv, SendInv
<1>i. \A w \in Messages : StatusInv(w)
    BY DEF IInv, SendInv
<1> USE BatchAssumption, BoundAssumption
<1>u. ASSUME UNCHANGED <<status, attemptCount, failureClass, attempt, applied,
                         batchStatus, accepted, flight>>
      PROVE  SendInv'
    BY <1>a, <1>i, <1>u DEF SendInv, AttemptInv, NotStarted, EarlierRefused,
           RefusedIsOver, UnansweredNotAccepted, StatusInv, QueuedIsClean,
           UncertainIsMarked, ExistsWithBatch
<1>v. ASSUME UNCHANGED <<attemptCount, attempt, accepted, flight>>,
             NEW w \in Messages
      PROVE  AttemptInv(w)'
    BY <1>a, <1>v DEF AttemptInv, NotStarted, EarlierRefused, RefusedIsOver,
           UnansweredNotAccepted
<1>e. ASSUME NEW m \in Messages, UpdateBatchState(BatchOf[m]),
             \A w \in Messages : w # m => status'[w] = status[w]
      PROVE  \A w \in Messages : ExistsWithBatch(w)'
    <2>1. batchStatus' = [batchStatus EXCEPT ![BatchOf[m]] =
                             BatchVerdict(Members(BatchOf[m]), status')]
      BY <1>e DEF UpdateBatchState
    <2>2. BatchVerdict(Members(BatchOf[m]), status') # "ABSENT"
      BY BatchVerdictResult
    <2>. QED BY <1>b, <1>i, <1>e, <2>1, <2>2 DEF StatusInv, ExistsWithBatch, BatchTypes
<1>q. ASSUME NEW m \in Messages,
             \/ status[m] = "QUEUED"
             \/ attemptCount[m] = 0
      PROVE  accepted[m] = {} /\ \A n \in Attempts : flight[m][n] = "IDLE"
    <2>1. ASSUME NEW n \in Attempts
          PROVE  n \notin accepted[m] /\ flight[m][n] = "IDLE"
      <3>1. CASE n > attemptCount[m]
        BY <1>a, <3>1 DEF AttemptInv, NotStarted
      <3>2. CASE ~(n > attemptCount[m])
        <4>1. n \in 1..attemptCount[m] /\ attemptCount[m] # 0
          BY <1>m, <3>2 DEF MessageTypes, Attempts
        <4>. QED BY <1>a, <1>i, <1>q, <4>1 DEF AttemptInv, RefusedIsOver,
                                         StatusInv, QueuedIsClean
      <3>. QED BY <3>1, <3>2
    <2>. QED BY <1>m, <2>1 DEF MessageTypes
<1>k. ASSUME NEW m \in Messages,
             status' = [status EXCEPT ![m] = "FAILED"],
             failureClass' = [failureClass EXCEPT ![m] = "AMBIGUOUS"],
             attempt' = [attempt EXCEPT ![m][attemptCount[m]] =
                            IF @ = "STARTED" THEN "AMBIGUOUS" ELSE @],
             UpdateBatchState(BatchOf[m]),
             UNCHANGED <<attemptCount, applied, accepted, flight>>,
             status[m] = "SENDING"
      PROVE  SendInv'
    <2>1. ASSUME NEW w \in Messages PROVE AttemptInv(w)'
      BY <1>m, <1>a, <1>k DEF MessageTypes, AttemptInv, NotStarted,
             EarlierRefused,
             RefusedIsOver, UnansweredNotAccepted
    <2>2. ASSUME NEW w \in Messages PROVE QueuedIsClean(w)' /\ UncertainIsMarked(w)'
      BY <1>m, <1>i, <1>k DEF MessageTypes, StatusInv, QueuedIsClean,
             UncertainIsMarked
    <2>3. \A w \in Messages : ExistsWithBatch(w)'
      BY <1>m, <1>e, <1>k DEF MessageTypes
    <2>. QED BY <2>1, <2>2, <2>3 DEF SendInv, StatusInv
<1>f. ASSUME NEW m \in Messages,
             status' = [status EXCEPT ![m] = "FAILED"],
             failureClass' = [failureClass EXCEPT ![m] = "TRANSIENT"],
             UpdateBatchState(BatchOf[m]),
             UNCHANGED <<attemptCount, attempt, applied, accepted, flight>>,
             accepted[m] = {}, \A j \in Attempts : flight[m][j] = "IDLE"
      PROVE  SendInv'
    <2>1. ASSUME NEW w \in Messages PROVE QueuedIsClean(w)' /\ UncertainIsMarked(w)'
      BY <1>m, <1>i, <1>f DEF MessageTypes, StatusInv, QueuedIsClean,
             UncertainIsMarked
    <2>2. \A w \in Messages : ExistsWithBatch(w)'
      BY <1>m, <1>e, <1>f DEF MessageTypes
    <2>. QED BY <1>v, <1>f, <2>1, <2>2 DEF SendInv, StatusInv
<1>1. ASSUME NEW b \in Batches, CreateBatch(b) PROVE SendInv'
  <2>1. ASSUME NEW w \in Messages PROVE AttemptInv(w)'
    BY <1>v, <1>1 DEF CreateBatch
  <2>2. ASSUME NEW w \in Messages PROVE StatusInv(w)'
    BY <1>m, <1>b, <1>q, <1>i, <1>1 DEF CreateBatch, StatusInv,
           QueuedIsClean, UncertainIsMarked, ExistsWithBatch, MessageTypes,
           BatchTypes, webhookVars
  <2>. QED BY <2>1, <2>2 DEF SendInv
<1>2. ASSUME NEW b \in Batches, EnqueueDispatch(b) PROVE SendInv'
  BY <1>u, <1>2 DEF EnqueueDispatch, messageVars, webhookVars, batchVars
<1>3. ASSUME NEW b \in Batches, ReplayFindsFailed(b) PROVE SendInv'
  BY <1>u, <1>3 DEF ReplayFindsFailed, messageVars, webhookVars, batchVars
<1>4. ASSUME NEW b \in Batches, RecoverExhaustedDispatch(b) PROVE SendInv'
  <2>1. ASSUME NEW w \in Messages PROVE AttemptInv(w)'
    BY <1>v, <1>4 DEF RecoverExhaustedDispatch
  <2>2. ASSUME NEW w \in Messages PROVE StatusInv(w)'
    BY <1>b, <1>q, <1>i, <1>4 DEF RecoverExhaustedDispatch, StatusInv,
           QueuedIsClean, UncertainIsMarked, ExistsWithBatch, NeverDispatched,
           BatchTypes, Members, webhookVars
  <2>. QED BY <2>1, <2>2 DEF SendInv
<1>5. ASSUME NEW b \in Batches, RetryDispatchJob(b) PROVE SendInv'
  BY <1>u, <1>5 DEF RetryDispatchJob, messageVars, webhookVars, batchVars
<1>6. ASSUME NEW b \in Batches, ReplayInterrupted(b) PROVE SendInv'
  BY <1>u, <1>6 DEF ReplayInterrupted, messageVars, webhookVars, batchVars
<1>7. ASSUME SweepLists PROVE SendInv'
  BY <1>u, <1>7 DEF SweepLists, messageVars, webhookVars, batchVars
<1>8. ASSUME NEW b \in Batches, SweepDispatches(b) PROVE SendInv'
  BY <1>u, <1>8 DEF SweepDispatches, messageVars, webhookVars, batchVars
<1>9. ASSUME NEW b \in Batches, PrepareBatchDispatch(b) PROVE SendInv'
  <2>1. ASSUME NEW w \in Messages PROVE AttemptInv(w)'
    BY <1>v, <1>9 DEF PrepareBatchDispatch, messageVars
  <2>2. ASSUME NEW w \in Messages PROVE StatusInv(w)'
    BY <1>b, <1>i, <1>9 DEF PrepareBatchDispatch, StatusInv,
           QueuedIsClean, UncertainIsMarked, ExistsWithBatch, BatchTypes,
           OpenBatch, messageVars, webhookVars
  <2>. QED BY <2>1, <2>2 DEF SendInv
<1>10. ASSUME NEW b \in Batches, EnqueueMessages(b) PROVE SendInv'
  BY <1>u, <1>10 DEF EnqueueMessages, messageVars, webhookVars, batchVars
<1>11. ASSUME NEW b \in Batches, MarkBatchDispatched(b) PROVE SendInv'
  <2>1. ASSUME NEW w \in Messages PROVE AttemptInv(w)'
    BY <1>v, <1>11 DEF MarkBatchDispatched, messageVars
  <2>2. ASSUME NEW w \in Messages PROVE StatusInv(w)'
    BY <1>b, <1>i, <1>11 DEF MarkBatchDispatched, StatusInv,
           QueuedIsClean, UncertainIsMarked, ExistsWithBatch, MarkedDispatched,
           BatchTypes, messageVars, webhookVars
  <2>. QED BY <2>1, <2>2 DEF SendInv
<1>12. ASSUME NEW b \in Batches, DispatchJobFails(b) PROVE SendInv'
  BY <1>u, <1>12 DEF DispatchJobFails, messageVars, webhookVars, batchVars
<1>13. ASSUME NEW b \in Batches, NEW k \in dispatchReplays[b], RecordExhaustedDispatch(b, k)
       PROVE  SendInv'
  <2> DEFINE stranded == {m \in Members(b) : status[m] = "QUEUED" /\ attemptCount[m] = 0}
  <2>u. UNCHANGED <<attemptCount, attempt, applied, accepted, flight>>
    BY <1>13 DEF RecordExhaustedDispatch, webhookVars
  <2>1. CASE Fenced(b, k)
    BY <1>u, <1>13, <2>u, <2>1 DEF RecordExhaustedDispatch
  <2>2. CASE ~Fenced(b, k)
    <3>0. /\ status' = [m \in Messages |-> IF m \in stranded THEN "FAILED" ELSE status[m]]
          /\ failureClass' = [m \in Messages |->
                 IF m \in stranded THEN "TRANSIENT" ELSE failureClass[m]]
          /\ UpdateBatchState(b)
      BY <1>13, <2>2 DEF RecordExhaustedDispatch
    <3>1. ASSUME NEW w \in Messages PROVE QueuedIsClean(w)'
      BY <1>i, <2>u, <3>0 DEF StatusInv, QueuedIsClean
    <3>2. ASSUME NEW w \in Messages PROVE UncertainIsMarked(w)'
      <4>1. CASE w \in stranded
        BY <1>q, <2>u, <4>1 DEF UncertainIsMarked
      <4>2. CASE w \notin stranded
        BY <1>i, <2>u, <3>0, <4>2 DEF StatusInv, UncertainIsMarked
      <4>. QED BY <4>1, <4>2
    <3>3. ASSUME NEW w \in Messages PROVE ExistsWithBatch(w)'
      <4>1. CASE BatchOf[w] = b
        <5>1. batchStatus'[b] = BatchVerdict(Members(b), status')
          BY <1>b, <3>0 DEF UpdateBatchState, BatchTypes
        <5>. QED BY <4>1, <5>1, BatchVerdictResult DEF ExistsWithBatch
      <4>2. CASE BatchOf[w] # b
        BY <1>b, <1>i, <3>0, <4>2 DEF UpdateBatchState, StatusInv,
               ExistsWithBatch,
                                      BatchTypes, Members
      <4>. QED BY <4>1, <4>2
    <3>. QED BY <1>v, <2>u, <3>1, <3>2, <3>3 DEF SendInv, StatusInv
  <2>. QED BY <2>1, <2>2
<1>14. ASSUME NEW b \in Batches, NEW k \in dispatchReplays[b], ExhaustedDispatchUnrecorded(b, k)
       PROVE  SendInv'
  BY <1>u, <1>14 DEF ExhaustedDispatchUnrecorded, messageVars,
         webhookVars, batchVars
<1>15. ASSUME NEW b \in Batches, DispatchJobRemoved(b) PROVE SendInv'
  BY <1>u, <1>15 DEF DispatchJobRemoved, messageVars, webhookVars, batchVars
<1>16. ASSUME NEW p \in Messages, NEW m \in Messages, Resend(p, m)
       PROVE  SendInv'
  <2>1. ASSUME NEW w \in Messages PROVE AttemptInv(w)'
    BY <1>v, <1>16 DEF Resend
  <2>2. ASSUME NEW w \in Messages PROVE StatusInv(w)'
    BY <1>m, <1>b, <1>i, <1>16 DEF Resend, StatusInv, QueuedIsClean,
           UncertainIsMarked, ExistsWithBatch, Resendable, MessageTypes,
           BatchTypes, webhookVars
  <2>. QED BY <2>1, <2>2 DEF SendInv
<1>17. ASSUME NEW m \in Messages, ClaimInterrupted(m) PROVE SendInv'
  <2>0. /\ status[m] = "SENDING"
        /\ attempt' = [attempt EXCEPT ![m][attemptCount[m]] =
                          IF @ = "STARTED" THEN "AMBIGUOUS" ELSE @]
        /\ status' = [status EXCEPT ![m] = "FAILED"]
        /\ failureClass' = [failureClass EXCEPT ![m] = "AMBIGUOUS"]
        /\ UpdateBatchState(BatchOf[m])
        /\ UNCHANGED <<attemptCount, applied, accepted, flight>>
    BY <1>17 DEF ClaimInterrupted, FailAsAmbiguous, Fail, webhookVars
  <2>. QED BY <1>k, <2>0
<1>18. ASSUME NEW m \in Messages, ClaimSkipped(m) PROVE SendInv'
  BY <1>u, <1>18 DEF ClaimSkipped, messageVars, webhookVars, batchVars
<1>19. ASSUME NEW m \in Messages, ClaimQueued(m) PROVE SendInv'
  <2> DEFINE n == attemptCount[m] + 1
  <2>q. accepted[m] = {} /\ \A j \in Attempts : flight[m][j] = "IDLE"
    BY <1>q, <1>19 DEF ClaimQueued, Claimable
  <2>t. attemptCount[m] \in 0..MaxAttempts
    BY <1>m DEF MessageTypes
  <2>a. CASE n > MaxAttempts
    <3>0. /\ status' = [status EXCEPT ![m] = "FAILED"]
          /\ failureClass' = [failureClass EXCEPT ![m] = "TRANSIENT"]
          /\ UpdateBatchState(BatchOf[m])
          /\ UNCHANGED <<attemptCount, attempt, applied, accepted, flight>>
      BY <1>19, <2>a DEF ClaimQueued, Fail, webhookVars
    <3>. QED BY <1>f, <2>q, <3>0
  <2>b. CASE ~(n > MaxAttempts)
    <3>0. /\ status[m] = "QUEUED"
          /\ status' = [status EXCEPT ![m] = "SENDING"]
          /\ attemptCount' = [attemptCount EXCEPT ![m] = n]
          /\ attempt' = [attempt EXCEPT ![m][n] = "STARTED"]
          /\ failureClass' = [failureClass EXCEPT ![m] = None]
          /\ flight' = [flight EXCEPT ![m][n] = "CALLING"]
          /\ UNCHANGED <<batchStatus, applied, accepted>>
      BY <1>19, <2>b DEF ClaimQueued, Claimable, webhookVars
    <3>n. n \in Attempts
      BY <2>t, <2>b DEF Attempts
    <3>1. ASSUME NEW w \in Messages PROVE AttemptInv(w)'
      <4>1. CASE w # m
        BY <1>m, <1>s, <1>a, <3>0, <4>1 DEF MessageTypes, SendTypes,
               AttemptInv,
               NotStarted, EarlierRefused, RefusedIsOver, UnansweredNotAccepted
      <4>2. CASE w = m
        <5>1. /\ attemptCount'[m] = n
              /\ \A j \in Attempts : attempt'[m][j] = IF j = n THEN "STARTED" ELSE attempt[m][j]
              /\ \A j \in Attempts : flight'[m][j] = IF j = n THEN "CALLING" ELSE flight[m][j]
              /\ accepted'[m] = {}
          BY <1>m, <1>s, <2>q, <3>0, <3>n DEF MessageTypes, SendTypes
        <5>2. \A j \in Attempts : j < n => attempt[m][j] = "RETRYABLE_FAILURE"
          <6>1. \A j \in Attempts : j < n => j \in 1..attemptCount[m]
            BY <2>t DEF Attempts
          <6>. QED BY <1>i, <3>0, <6>1 DEF StatusInv, QueuedIsClean
        <5>3. \A j \in Attempts : j > n => attempt[m][j] = None
          <6>1. \A j \in Attempts : j > n => j > attemptCount[m]
            BY <2>t DEF Attempts
          <6>. QED BY <1>a, <6>1 DEF AttemptInv, NotStarted
        <5> HIDE DEF n
        <5>4. n \in Nat
          BY <3>n DEF Attempts
        <5>. QED BY <2>q, <3>n, <4>2, <5>1, <5>2, <5>3, <5>4 DEF AttemptInv, NotStarted,
                    EarlierRefused, RefusedIsOver, UnansweredNotAccepted, Attempts
      <4>. QED BY <4>1, <4>2
    <3>2. ASSUME NEW w \in Messages PROVE StatusInv(w)'
      BY <1>m, <1>s, <1>i, <3>0 DEF MessageTypes, SendTypes, StatusInv,
             QueuedIsClean, UncertainIsMarked, ExistsWithBatch
    <3>. QED BY <3>1, <3>2 DEF SendInv
  <2>. QED BY <2>a, <2>b
<1>20. ASSUME NEW m \in Messages, ClaimFails(m) PROVE SendInv'
  BY <1>u, <1>20 DEF ClaimFails, messageVars, webhookVars, batchVars
<1>21. ASSUME NEW m \in Messages, JobStalls(m) PROVE SendInv'
  BY <1>u, <1>21 DEF JobStalls, messageVars, webhookVars, batchVars
<1>22. ASSUME NEW m \in Messages, RecordExhaustedSend(m) PROVE SendInv'
  <2>u. UNCHANGED <<attemptCount, applied, accepted, flight>>
    BY <1>22 DEF RecordExhaustedSend, webhookVars
  <2>1. CASE FailAsAmbiguous(m, "JOB_RETRY_EXHAUSTED") /\ status[m] = "SENDING"
    BY <1>k, <2>u, <2>1 DEF FailAsAmbiguous, Fail
  <2>2. CASE Fail(m, "TRANSIENT", "JOB_RETRY_EXHAUSTED") /\ UNCHANGED attempt
             /\ status[m] = "QUEUED"
    <3>1. accepted[m] = {} /\ \A j \in Attempts : flight[m][j] = "IDLE"
      BY <1>q, <2>2
    <3>. QED BY <1>f, <2>u, <2>2, <3>1 DEF Fail
  <2>3. CASE UNCHANGED <<status, failureClass, failureCode, attempt, batchStatus>>
    BY <1>u, <2>u, <2>3
  <2>. QED BY <1>22, <2>1, <2>2, <2>3 DEF RecordExhaustedSend
<1>23. ASSUME NEW m \in Messages, SendJobRemoved(m) PROVE SendInv'
  BY <1>u, <1>23 DEF SendJobRemoved, messageVars, webhookVars, batchVars
<1>24. ASSUME NEW m \in Messages, NEW e \in WebhookEvidence, ApplyWebhook(m, e)
       PROVE  SendInv'
  <2> DEFINE reduced == Reduce(status[m], e)
  <2>1. PICK n \in accepted[m] :
          /\ IF Correlates(m, n, e)
             THEN /\ applied' = [applied EXCEPT ![m] = @ \cup {e}]
                  /\ status' = [status EXCEPT ![m] = reduced]
                  /\ failureClass' = [failureClass EXCEPT ![m] =
                         IF reduced # "FAILED"
                         THEN IF status[m] = "FAILED" THEN None ELSE @
                         ELSE IF e = "FAILED" THEN "PERMANENT" ELSE @]
                  /\ UpdateBatchState(BatchOf[m])
             ELSE UNCHANGED <<applied, status, failureClass, batchStatus>>
          /\ UNCHANGED <<attemptCount, attempt, accepted, flight>>
    BY <1>24 DEF ApplyWebhook
  <2>s. status[m] \in MessageStatus
    <3>1. attemptCount[m] # 0
      BY <1>q, <2>1
    <3>. QED BY <1>i, <1>m, <3>1 DEF StatusInv, QueuedIsClean, MessageTypes
  <2>r. /\ reduced \in MessageStatus \ Active
        /\ reduced = "FAILED" => status[m] = "FAILED" \/ e = "FAILED"
    BY <2>s, ReduceResult
  <2>x. reduced \notin {"QUEUED", "ABSENT"}
    BY <2>r DEF MessageStatus, Active, Proven
  <2> HIDE DEF reduced
  <2>a. CASE Correlates(m, n, e)
    <3>1. ASSUME NEW w \in Messages PROVE QueuedIsClean(w)'
      BY <1>m, <1>i, <2>1, <2>x, <2>a DEF MessageTypes, StatusInv,
             QueuedIsClean
    <3>2. ASSUME NEW w \in Messages PROVE UncertainIsMarked(w)'
      BY <1>m, <1>i, <2>1, <2>r, <2>a DEF MessageTypes, StatusInv,
             UncertainIsMarked
    <3>3. \A w \in Messages : ExistsWithBatch(w)'
      BY <1>e, <1>m, <2>1, <2>a DEF MessageTypes
    <3>. QED BY <1>v, <2>1, <3>1, <3>2, <3>3 DEF SendInv, StatusInv
  <2>b. CASE ~Correlates(m, n, e)
    BY <1>u, <2>1, <2>b
  <2>. QED BY <2>a, <2>b
<1>25. ASSUME NEW m \in Messages, NEW n \in Attempts, ProviderAccepts(m, n)
       PROVE  SendInv'
  <2>1. ASSUME NEW w \in Messages PROVE AttemptInv(w)'
    BY <1>m, <1>s, <1>a, <1>25 DEF ProviderAccepts, AttemptInv,
           NotStarted, EarlierRefused, RefusedIsOver, UnansweredNotAccepted,
           MessageTypes, SendTypes, messageVars
  <2>2. ASSUME NEW w \in Messages PROVE StatusInv(w)'
    BY <1>m, <1>s, <1>i, <1>25 DEF ProviderAccepts, StatusInv,
           QueuedIsClean, UncertainIsMarked, ExistsWithBatch, MessageTypes,
           SendTypes, messageVars, webhookVars, batchVars
  <2>. QED BY <2>1, <2>2 DEF SendInv
<1>26. ASSUME NEW m \in Messages, NEW n \in Attempts, ProviderRefuses(m, n)
       PROVE  SendInv'
  <2>1. ASSUME NEW w \in Messages PROVE AttemptInv(w)'
    BY <1>s, <1>a, <1>26 DEF ProviderRefuses, AttemptInv, NotStarted,
           EarlierRefused, RefusedIsOver, UnansweredNotAccepted, SendTypes,
           messageVars, FailureClass
  <2>2. ASSUME NEW w \in Messages PROVE StatusInv(w)'
    BY <1>s, <1>i, <1>26 DEF ProviderRefuses, StatusInv, QueuedIsClean,
           UncertainIsMarked, ExistsWithBatch, FailureClass, SendTypes,
           messageVars, webhookVars, batchVars
  <2>. QED BY <2>1, <2>2 DEF SendInv
<1>27. ASSUME NEW m \in Messages, NEW n \in Attempts, RecordAccepted(m, n)
       PROVE  SendInv'
  <2> DEFINE reduced == Reduce(status[m], "SENT")
             correlates == providerMessageId[m] \in {0, n} /\ attemptCount[m] = n
             closes == status[m] # "SENDING" \/ attempt[m][n] = "STARTED"
  <2>u. /\ flight[m][n] = "OK"
        /\ flight' = [flight EXCEPT ![m][n] = "IDLE"]
        /\ UNCHANGED <<attemptCount, applied, accepted>>
    BY <1>27 DEF RecordAccepted, Land, webhookVars
  <2>1. ASSUME NEW w \in Messages PROVE AttemptInv(w)'
    BY <1>m, <1>s, <1>a, <1>27 DEF RecordAccepted, Land, AttemptInv,
           NotStarted,
           EarlierRefused, RefusedIsOver, UnansweredNotAccepted, MessageTypes,
           SendTypes
  <2>q. /\ attemptCount[m] # 0 /\ status[m] \in MessageStatus
        /\ status[m] # "QUEUED"
    <3>1. attemptCount[m] # 0 /\ status[m] # "QUEUED"
      BY <1>q, <2>u
    <3>. QED BY <1>m, <1>i, <3>1 DEF StatusInv, QueuedIsClean, MessageTypes
  <2>r. /\ reduced \in MessageStatus \ Active
        /\ reduced = "FAILED" => status[m] = "FAILED"
    BY <2>q, ReduceResult DEF Evidence
  <2>x. reduced \notin {"QUEUED", "ABSENT"}
    BY <2>r DEF MessageStatus, Active, Proven
  <2>w. /\ \A w \in Messages : w # m => attempt'[w] = attempt[w]
        /\ \A w \in Messages : \A j \in Attempts :
              flight'[w][j] = "CALLING" => flight[w][j] = "CALLING"
    BY <1>m, <1>s, <1>27, <2>u DEF RecordAccepted, MessageTypes, SendTypes
  <2>a. CASE correlates /\ closes
    <3>0. /\ status' = [status EXCEPT ![m] = reduced]
          /\ failureClass' = [failureClass EXCEPT ![m] =
                                 IF reduced = "FAILED" THEN @ ELSE None]
          /\ UpdateBatchState(BatchOf[m])
      BY <1>27, <2>a DEF RecordAccepted
    <3> HIDE DEF reduced, correlates, closes
    <3>1. ASSUME NEW w \in Messages PROVE QueuedIsClean(w)'
      BY <1>m, <1>i, <2>u, <2>x, <2>w, <3>0 DEF MessageTypes, StatusInv,
             QueuedIsClean
    <3>2. ASSUME NEW w \in Messages PROVE UncertainIsMarked(w)'
      BY <1>m, <1>i, <2>u, <2>r, <2>w, <3>0 DEF MessageTypes, StatusInv,
             UncertainIsMarked
    <3>3. \A w \in Messages : ExistsWithBatch(w)'
      BY <1>e, <1>m, <3>0 DEF MessageTypes
    <3>. QED BY <2>1, <3>1, <3>2, <3>3 DEF SendInv, StatusInv
  <2>b. CASE ~(correlates /\ closes)
    <3>0. UNCHANGED <<status, failureClass, batchStatus>>
      BY <1>27, <2>b DEF RecordAccepted
    <3>1. ASSUME NEW w \in Messages PROVE QueuedIsClean(w)'
      BY <1>i, <2>u, <2>q, <2>w, <3>0 DEF StatusInv, QueuedIsClean
    <3>2. ASSUME NEW w \in Messages PROVE UncertainIsMarked(w)'
      BY <1>i, <2>u, <2>w, <3>0 DEF StatusInv, UncertainIsMarked
    <3>3. ASSUME NEW w \in Messages PROVE ExistsWithBatch(w)'
      BY <1>i, <3>0 DEF StatusInv, ExistsWithBatch
    <3>. QED BY <2>1, <3>1, <3>2, <3>3 DEF SendInv, StatusInv
  <2>. QED BY <2>a, <2>b
<1>28. ASSUME NEW m \in Messages, NEW n \in Attempts, RecordFailure(m, n)
       PROVE  SendInv'
  <2> DEFINE class == flight[m][n]
             retry == Retryable(class, n, MaxAttempts)
             open == attempt[m][n] = "STARTED"
             activeClaim == status[m] = "SENDING" /\ attemptCount[m] = n
  <2>u. /\ class \in FailureClass
        /\ flight' = [flight EXCEPT ![m][n] = "IDLE"]
        /\ UNCHANGED <<attemptCount, applied, accepted>>
    BY <1>28 DEF RecordFailure, Land, webhookVars
  <2>v. retry \in BOOLEAN /\ (retry => class = "TRANSIENT")
    BY DEF Retryable
  <2>n. n \in 1..MaxAttempts /\ attemptCount[m] \in 0..MaxAttempts
    BY <1>m DEF Attempts, MessageTypes
  <2>g. /\ \A w \in Messages, j \in Attempts :
              (w # m \/ j # n) => flight'[w][j] = flight[w][j]
        /\ flight'[m][n] = "IDLE"
    BY <1>s, <2>u DEF SendTypes
  <2>x. ~(n > attemptCount[m]) /\ status[m] # "QUEUED"
    BY <1>a, <1>q, <2>u DEF AttemptInv, NotStarted, FailureClass
  <2>o. CASE ~open
    <3>0. UNCHANGED <<status, failureClass, attempt, batchStatus>>
      BY <1>28, <2>o DEF RecordFailure
    <3>1. ASSUME NEW w \in Messages PROVE AttemptInv(w)'
      BY <1>a, <2>u, <2>g, <3>0 DEF AttemptInv, NotStarted, EarlierRefused,
             RefusedIsOver, UnansweredNotAccepted
    <3>2. ASSUME NEW w \in Messages PROVE StatusInv(w)'
      BY <1>i, <2>u, <2>g, <3>0 DEF StatusInv, QueuedIsClean,
             UncertainIsMarked,
             ExistsWithBatch
    <3>. QED BY <3>1, <3>2 DEF SendInv
  <2>p. CASE open
    <3> DEFINE verdict == AttemptVerdict(class, retry)
    <3>0. attempt' = [attempt EXCEPT ![m][n] = verdict]
      BY <1>28, <2>p DEF RecordFailure
    <3>v. verdict = "RETRYABLE_FAILURE" <=> retry
      BY <2>v, AttemptVerdictResult
    <3>c. n = attemptCount[m]
      BY <1>a, <2>n, <2>p, <2>x DEF AttemptInv, EarlierRefused
    <3>a. CASE activeClaim
      <4>0. /\ status' = [status EXCEPT ![m] = IF retry THEN "QUEUED" ELSE "FAILED"]
            /\ failureClass' = [failureClass EXCEPT ![m] = class]
            /\ UpdateBatchState(BatchOf[m])
        BY <1>28, <2>p, <3>a DEF RecordFailure
      <4> HIDE DEF retry, open, activeClaim, verdict
      <4>g. /\ \A w \in Messages, j \in Attempts :
                  (w # m \/ j # n) => attempt'[w][j] = attempt[w][j]
            /\ \A w \in Messages : w # m => attempt'[w] = attempt[w]
            /\ attempt'[m][n] = verdict
        BY <1>m, <3>0 DEF MessageTypes
      <4>1. ASSUME NEW w \in Messages PROVE AttemptInv(w)'
        BY <1>a, <2>u, <2>v, <2>n, <2>g, <2>x, <3>v, <3>c, <4>g DEF AttemptInv,
               NotStarted, EarlierRefused, RefusedIsOver, UnansweredNotAccepted
      <4>2. ASSUME NEW w \in Messages PROVE QueuedIsClean(w)'
        <5>1. CASE w # m
          BY <1>m, <1>i, <2>u, <4>0, <4>g, <5>1 DEF StatusInv, QueuedIsClean,
                 MessageTypes
        <5>2. CASE w = m
          <6>1. attemptCount'[m] = n /\ status'[m] # "ABSENT"
            BY <1>m, <2>u, <3>c, <4>0 DEF MessageTypes
          <6>2. ASSUME status'[m] = "QUEUED", NEW j \in 1..n
                PROVE  attempt'[m][j] = "RETRYABLE_FAILURE"
            <7>1. retry
              BY <1>m, <4>0, <6>2 DEF MessageTypes
            <7>2. j \in Attempts /\ (j = n \/ j < attemptCount[m])
              BY <2>n, <3>c DEF Attempts
            <7>. QED BY <1>a, <3>v, <4>g, <7>1, <7>2 DEF AttemptInv, EarlierRefused
          <6>. QED BY <5>2, <6>1, <6>2 DEF QueuedIsClean
        <5>. QED BY <5>1, <5>2
      <4>3. ASSUME NEW w \in Messages PROVE UncertainIsMarked(w)'
        <5>1. CASE w # m
          BY <1>m, <1>i, <2>u, <2>g, <4>0, <5>1 DEF StatusInv,
                 UncertainIsMarked,
                 MessageTypes
        <5>2. CASE w = m
          <6>1. ASSUME class # "AMBIGUOUS", NEW j \in Attempts
                PROVE  j \notin accepted[m] /\ flight'[m][j] # "CALLING"
            <7>1. CASE j = n
              BY <1>a, <2>u, <2>g, <6>1, <7>1 DEF AttemptInv,
                     UnansweredNotAccepted, FailureClass
            <7>2. CASE j # n
              <8>1. j < attemptCount[m] \/ j > attemptCount[m]
                BY <2>n, <3>c, <7>2 DEF Attempts
              <8>. QED BY <1>a, <2>g, <7>2, <8>1 DEF AttemptInv, NotStarted,
                          EarlierRefused, RefusedIsOver
            <7>. QED BY <7>1, <7>2
          <6>2. accepted[m] \subseteq Attempts
            BY <1>m DEF MessageTypes
          <6>3. failureClass'[m] = class
            BY <1>m, <4>0 DEF MessageTypes
          <6>. QED BY <2>u, <5>2, <6>1, <6>2, <6>3 DEF UncertainIsMarked
        <5>. QED BY <5>1, <5>2
      <4>4. \A w \in Messages : ExistsWithBatch(w)'
        BY <1>e, <1>m, <4>0 DEF MessageTypes
      <4>. QED BY <4>1, <4>2, <4>3, <4>4 DEF SendInv, StatusInv
    <3>b. CASE ~activeClaim
      <4>0. UNCHANGED <<status, failureClass, batchStatus>>
        BY <1>28, <3>b DEF RecordFailure
      <4> HIDE DEF retry, open, activeClaim, verdict
      <4>g. /\ \A w \in Messages, j \in Attempts :
                  (w # m \/ j # n) => attempt'[w][j] = attempt[w][j]
            /\ \A w \in Messages : w # m => attempt'[w] = attempt[w]
            /\ attempt'[m][n] = verdict
        BY <1>m, <3>0 DEF MessageTypes
      <4>1. ASSUME NEW w \in Messages PROVE AttemptInv(w)'
        BY <1>a, <2>u, <2>v, <2>n, <2>g, <2>x, <3>v, <3>c, <4>g DEF AttemptInv,
               NotStarted, EarlierRefused, RefusedIsOver, UnansweredNotAccepted
      <4>2. ASSUME NEW w \in Messages PROVE QueuedIsClean(w)'
        BY <1>i, <2>u, <2>x, <4>0, <4>g DEF StatusInv, QueuedIsClean
      <4>3. ASSUME NEW w \in Messages PROVE UncertainIsMarked(w)' /\ ExistsWithBatch(w)'
        BY <1>i, <2>u, <2>g, <4>0 DEF StatusInv, UncertainIsMarked,
               ExistsWithBatch
      <4>. QED BY <4>1, <4>2, <4>3 DEF SendInv, StatusInv
    <3>. QED BY <3>a, <3>b
  <2>. QED BY <2>o, <2>p
<1>29. ASSUME NEW m \in Messages, NEW n \in Attempts, WorkerCrash(m, n)
       PROVE  SendInv'
  <2>1. ASSUME NEW w \in Messages PROVE AttemptInv(w)'
    BY <1>m, <1>s, <1>a, <1>29 DEF WorkerCrash, AttemptInv, NotStarted,
           EarlierRefused, RefusedIsOver, UnansweredNotAccepted, MessageTypes,
           SendTypes, messageVars
  <2>2. ASSUME NEW w \in Messages PROVE StatusInv(w)'
    BY <1>m, <1>s, <1>i, <1>29 DEF WorkerCrash, StatusInv,
           QueuedIsClean, UncertainIsMarked, ExistsWithBatch, MessageTypes,
           SendTypes, messageVars, webhookVars, batchVars
  <2>. QED BY <2>1, <2>2 DEF SendInv
<1>30. ASSUME NEW m \in Messages, NEW n \in Attempts, RecordAcceptedAborts(m, n)
       PROVE  SendInv'
  <2>1. ASSUME NEW w \in Messages PROVE AttemptInv(w)'
    BY <1>s, <1>a, <1>30 DEF RecordAcceptedAborts, AttemptInv,
           NotStarted, EarlierRefused, RefusedIsOver, UnansweredNotAccepted,
           SendTypes, messageVars
  <2>2. ASSUME NEW w \in Messages PROVE StatusInv(w)'
    BY <1>s, <1>i, <1>30 DEF RecordAcceptedAborts, StatusInv,
           QueuedIsClean, UncertainIsMarked, ExistsWithBatch, SendTypes,
           messageVars, webhookVars, batchVars
  <2>. QED BY <2>1, <2>2 DEF SendInv
<1>31. ASSUME NEW m \in Messages, NEW n \in Attempts, RecordFailureAborts(m, n)
       PROVE  SendInv'
  <2>1. ASSUME NEW w \in Messages PROVE AttemptInv(w)'
    BY <1>s, <1>a, <1>31 DEF RecordFailureAborts, Land, AttemptInv,
           NotStarted, EarlierRefused, RefusedIsOver, UnansweredNotAccepted,
           SendTypes, messageVars
  <2>2. ASSUME NEW w \in Messages PROVE StatusInv(w)'
    BY <1>s, <1>i, <1>31 DEF RecordFailureAborts, StatusInv,
           QueuedIsClean, UncertainIsMarked, ExistsWithBatch, Land, SendTypes,
           messageVars, webhookVars, batchVars
  <2>. QED BY <2>1, <2>2 DEF SendInv
<1>32. ASSUME SweepAfterRestart PROVE SendInv'
  BY <1>u, <1>32 DEF SweepAfterRestart, messageVars, webhookVars, batchVars
<1>90. CASE UNCHANGED vars
  BY <1>u, <1>90 DEF vars, messageVars, webhookVars, batchVars
<1>. QED
    BY <1>1, <1>2, <1>3, <1>4, <1>5, <1>6, <1>7, <1>8, <1>9, <1>10,
           <1>11, <1>12, <1>13, <1>14, <1>15, <1>16, <1>17, <1>18, <1>19,
           <1>20, <1>21, <1>22, <1>23, <1>24, <1>25, <1>26, <1>27, <1>28,
           <1>29, <1>30, <1>31, <1>32, <1>90 DEF Next, HostStep, DispatchStep,
           SweepStep, BookkeepingStep, RemovalStep, ClaimStep, AnswerStep,
           RecordStep

-----------------------------------------------------------------------------
(* The inductive invariant holds in every reachable state. *)
THEOREM Invariance == Spec => []IInv
<1>1. Init => IInv
    BY InitInvariant
<1>2. IInv /\ [Next]_vars => IInv'
    BY TypeStep, SendStep DEF IInv
<1>. QED BY <1>1, <1>2, PTL DEF Spec

(* No transaction of the API or the worker, no queue step and no webhook   *)
(* leaves a row the tables' CHECK constraints would refuse, or a value its *)
(* column cannot hold.                                                     *)
THEOREM TypeCorrect == Spec => []TypeOK
<1>1. IInv => TypeOK
    BY DEF IInv
<1>. QED BY <1>1, Invariance, PTL

(* Whatever crashes, stalls, retries and replays happen, the provider      *)
(* accepts a logical message at most once: a second accepted attempt would *)
(* come after one that was refused, and a refused one was not accepted.    *)
THEOREM AtMostOneAcceptance == Spec => []NoDuplicateSend
<1>1. ASSUME IInv PROVE NoDuplicateSend
    <2> SUFFICES ASSUME NEW m \in Messages, NEW i \in accepted[m],
                        NEW j \in accepted[m], i < j
                 PROVE  FALSE
        <3>1. \A m \in Messages : accepted[m] \subseteq Nat
            BY <1>1 DEF IInv, TypeOK, MessageTypes, Attempts
        <3>2. \A m \in Messages : \A i, j \in accepted[m] : i # j => i < j \/ j < i
            BY <3>1
        <3>. QED BY <3>2 DEF NoDuplicateSend
    <2>1. i \in Attempts /\ j \in Attempts /\ attemptCount[m] \in Nat
        BY <1>1, BoundAssumption DEF IInv, TypeOK, MessageTypes
    <2>2. ~(j > attemptCount[m])
        BY <1>1, <2>1 DEF IInv, SendInv, AttemptInv, NotStarted
    <2>3. attempt[m][i] = "RETRYABLE_FAILURE"
        <3>1. i < attemptCount[m]
            BY <2>1, <2>2 DEF Attempts
        <3>. QED BY <1>1, <2>1, <3>1 DEF IInv, SendInv, AttemptInv, EarlierRefused
    <2>. QED BY <1>1, <2>1, <2>3 DEF IInv, SendInv, AttemptInv, RefusedIsOver
<1>. QED BY <1>1, Invariance, PTL

(* claimMessage starts an attempt only when the provider has refused every *)
(* earlier one for the moment; an interrupted, accepted or open attempt is *)
(* never followed by another.                                              *)
THEOREM AttemptsFollowRefusals == Spec => []RetryOnlyAfterRefusal
<1>1. ASSUME IInv PROVE RetryOnlyAfterRefusal
    <2> SUFFICES ASSUME NEW m \in Messages, NEW n \in 1..attemptCount[m],
                        n < attemptCount[m]
                 PROVE  attempt[m][n] = "RETRYABLE_FAILURE"
        BY DEF RetryOnlyAfterRefusal
    <2>1. n \in Attempts
        BY <1>1, BoundAssumption DEF IInv, TypeOK, MessageTypes, Attempts
    <2>. QED BY <1>1, <2>1 DEF IInv, SendInv, AttemptInv, EarlierRefused
<1>. QED BY <1>1, Invariance, PTL

(* A failure the host may resend is never that of a message the provider   *)
(* took, unless the provider reported the failure itself.                  *)
THEOREM AcceptedIsMarked == Spec => []AcceptedNeverSafelyFailed
<1>1. IInv => AcceptedNeverSafelyFailed
    BY DEF IInv, SendInv, StatusInv, UncertainIsMarked,
           AcceptedNeverSafelyFailed
<1>. QED BY <1>1, Invariance, PTL

(* When the host's resend is let through, no copy of the message it        *)
(* replaces was accepted or is on its way to the provider, or the provider *)
(* has reported that message as failed.                                    *)
THEOREM ResendsAreSafe == Spec => ResendOnlyOfUnsent
<1>1. IInv /\ [Next]_vars => [LinksOnlyUnsent]_vars
    <2> SUFFICES ASSUME IInv, [Next]_vars PROVE [LinksOnlyUnsent]_vars
        OBVIOUS
    <2>1. ASSUME NEW p \in Messages, NEW m \in Messages, Resend(p, m) PROVE LinksOnlyUnsent
        <3>1. /\ status[p] = "FAILED" /\ failureClass[p] # "AMBIGUOUS"
              /\ predecessor' = [predecessor EXCEPT ![m] = {p}]
            BY <2>1 DEF Resend, Resendable
        <3>2. \/ accepted[p] = {} /\ \A n \in Attempts : flight[p][n] # "CALLING"
              \/ "FAILED" \in applied[p]
            BY <3>1 DEF IInv, SendInv, StatusInv, UncertainIsMarked
        <3>3. predecessor \in [Messages -> SUBSET Messages]
            BY DEF IInv, TypeOK, MessageTypes
        <3>. QED BY <3>1, <3>2, <3>3 DEF LinksOnlyUnsent
    <2>2. CASE UNCHANGED predecessor
        BY <2>2 DEF LinksOnlyUnsent
    <2>3. ASSUME NEW b \in Batches,
                 \/ HostStep(b) \/ DispatchStep(b)
                 \/ DispatchJobFails(b) \/ BookkeepingStep(b)
          PROVE  UNCHANGED predecessor
        <3>1. HostStep(b) => UNCHANGED predecessor
            BY DEF HostStep, messageVars, CreateBatch, EnqueueDispatch,
                   ReplayFindsFailed, RecoverExhaustedDispatch,
                   RetryDispatchJob, ReplayInterrupted
        <3>2. DispatchStep(b) => UNCHANGED predecessor
            BY DEF DispatchStep, messageVars, PrepareBatchDispatch,
                   EnqueueMessages, MarkBatchDispatched
        <3>3. DispatchJobFails(b) => UNCHANGED predecessor
            BY DEF DispatchJobFails, messageVars
        <3>4. BookkeepingStep(b) => UNCHANGED predecessor
            BY DEF BookkeepingStep, messageVars, RecordExhaustedDispatch,
                   ExhaustedDispatchUnrecorded
        <3>. QED BY <2>3, <3>1, <3>2, <3>3, <3>4
    <2>4. SweepStep \/ SweepAfterRestart \/ RemovalStep => UNCHANGED predecessor
        BY DEF SweepStep, SweepLists, SweepDispatches, SweepAfterRestart,
               RemovalStep, DispatchJobRemoved, SendJobRemoved, messageVars
    <2>5. ASSUME NEW m \in Messages,
                 \/ ClaimStep(m) \/ ClaimFails(m) \/ JobStalls(m)
                 \/ RecordExhaustedSend(m)
                 \/ \E e \in WebhookEvidence : ApplyWebhook(m, e)
          PROVE  UNCHANGED predecessor
        <3>1. ClaimStep(m) => UNCHANGED predecessor
            BY DEF ClaimStep, ClaimInterrupted, ClaimSkipped, ClaimQueued,
                   messageVars
        <3>2. ClaimFails(m) \/ JobStalls(m) \/ RecordExhaustedSend(m)
              => UNCHANGED predecessor
            BY DEF ClaimFails, JobStalls, RecordExhaustedSend, messageVars
        <3>3. ASSUME NEW e \in WebhookEvidence, ApplyWebhook(m, e)
              PROVE  UNCHANGED predecessor
            BY <3>3 DEF ApplyWebhook, messageVars
        <3>. QED BY <2>5, <3>1, <3>2, <3>3
    <2>6. ASSUME NEW m \in Messages, NEW n \in Attempts,
                 \/ AnswerStep(m, n) \/ RecordStep(m, n) \/ WorkerCrash(m, n)
                 \/ RecordAcceptedAborts(m, n) \/ RecordFailureAborts(m, n)
          PROVE  UNCHANGED predecessor
        <3>1. AnswerStep(m, n) => UNCHANGED predecessor
            BY DEF AnswerStep, ProviderAccepts, ProviderRefuses, messageVars
        <3>2. RecordStep(m, n) => UNCHANGED predecessor
            BY DEF RecordStep, RecordAccepted, RecordFailure, messageVars
        <3>3. \/ WorkerCrash(m, n) \/ RecordAcceptedAborts(m, n)
              \/ RecordFailureAborts(m, n)
              => UNCHANGED predecessor
            BY DEF WorkerCrash, RecordAcceptedAborts, RecordFailureAborts,
                   messageVars
        <3>. QED BY <2>6, <3>1, <3>2, <3>3
    <2>7. CASE UNCHANGED vars
        BY <2>2, <2>7 DEF vars, messageVars
    <2>8. CASE Next
        BY <2>1, <2>2, <2>3, <2>4, <2>5, <2>6, <2>8 DEF Next
    <2>. QED BY <2>7, <2>8
<1>. QED BY <1>1, Invariance, PTL DEF Spec, ResendOnlyOfUnsent

-----------------------------------------------------------------------------
(* What a step does to one message row, and to the provider's acceptances  *)
(* of it: every action of the pipeline comes down to one of these.         *)

Row(w) == <<status[w], failureClass[w], failureCode[w], applied[w]>>

Writes(w, newStatus, class, code) ==
    /\ status'[w] = newStatus
    /\ failureClass'[w] = class
    /\ failureCode'[w] = code
    /\ applied'[w] = applied[w]

(* Nothing is accepted, and no worker learns of an acceptance. *)
NoAcceptance(w) ==
    /\ accepted'[w] = accepted[w]
    /\ \A n \in Attempts : flight'[w][n] = "OK" => flight[w][n] = "OK"

(* The provider accepts the attempt it was called for. *)
Accepts(w) ==
    \E n \in Attempts :
        /\ flight[w][n] = "CALLING"
        /\ accepted'[w] = accepted[w] \cup {n}
        /\ \A k \in Attempts : flight'[w][k] = "OK" => flight[w][k] = "OK" \/ k = n

Requested(w) ==
    status[w] = "ABSENT" /\ Writes(w, "QUEUED", failureClass[w], failureCode[w])

Requeued(w) == NeverDispatched(w) /\ Writes(w, "QUEUED", None, None)

Stranded(w) ==
    /\ status[w] = "QUEUED"
    /\ Writes(w, "FAILED", "TRANSIENT", "DISPATCH_RETRY_EXHAUSTED")
    /\ \E k \in dispatchReplays[BatchOf[w]] : ~Fenced(BatchOf[w], k)

GivenUp(w) ==
    /\ status[w] = "QUEUED"
    /\ \E code \in {"RETRY_LIMIT_REACHED", "JOB_RETRY_EXHAUSTED"} :
           Writes(w, "FAILED", "TRANSIENT", code)

Claimed(w) == status[w] = "QUEUED" /\ Writes(w, "SENDING", None, None)

Interrupted(w) ==
    /\ status[w] = "SENDING"
    /\ \E code \in {"WORKER_INTERRUPTED", "JOB_RETRY_EXHAUSTED"} :
           Writes(w, "FAILED", "AMBIGUOUS", code)

Landed(w) ==
    LET reduced == Reduce(status[w], "SENT") IN
    /\ \E n \in Attempts : flight[w][n] = "OK"
    /\ Writes(w, reduced, IF reduced = "FAILED" THEN failureClass[w] ELSE None,
                          IF reduced = "FAILED" THEN failureCode[w] ELSE None)

Refused(w) ==
    /\ status[w] = "SENDING"
    /\ \E n \in Attempts :
          /\ flight[w][n] \in FailureClass
          /\ attemptCount[w] = n
          /\ Writes(w, IF Retryable(flight[w][n], n, MaxAttempts) THEN "QUEUED" ELSE "FAILED",
                    flight[w][n], "PROVIDER")

Reported(w, e) ==
    LET reduced == Reduce(status[w], e) IN
    /\ accepted[w] # {}
    /\ status'[w] = reduced
    /\ applied'[w] = applied[w] \cup {e}
    /\ failureClass'[w] = IF reduced # "FAILED"
                          THEN IF status[w] = "FAILED" THEN None ELSE failureClass[w]
                          ELSE IF e = "FAILED" THEN "PERMANENT" ELSE failureClass[w]
    /\ failureCode'[w] = IF reduced # "FAILED"
                         THEN IF status[w] = "FAILED" THEN None ELSE failureCode[w]
                         ELSE IF e = "FAILED" THEN "PROVIDER" ELSE failureCode[w]

RowStep(w) ==
    \/ Accepts(w) /\ UNCHANGED Row(w)
    \/ /\ NoAcceptance(w)
       /\ \/ UNCHANGED Row(w)
          \/ Requested(w) \/ Requeued(w) \/ Claimed(w)
          \/ Stranded(w) \/ GivenUp(w) \/ Interrupted(w)
          \/ Landed(w) \/ Refused(w)
          \/ \E e \in WebhookEvidence : Reported(w, e)

(* What a step does to a batch: it recounts it, opens it together with one *)
(* of its messages, moves it on while it is open, or leaves it alone; only *)
(* a claim moves a message without its batch.                              *)
BatchChange(b) ==
    LET same == \A m \in Members(b) : status'[m] = status[m]
        active == \E m \in Members(b) : status'[m] \in Active
    IN
    \/ same /\ batchStatus'[b] = batchStatus[b]
    \/ batchStatus'[b] = BatchVerdict(Members(b), status')
    \/ active /\ batchStatus'[b] \in OpenBatch
    \/ same /\ batchStatus[b] \in OpenBatch /\ batchStatus'[b] \in OpenBatch
    \/ /\ active /\ batchStatus'[b] = batchStatus[b]
       /\ \E m \in Members(b) : status[m] \in Active

(* Every step does one of these things to each message and each batch. *)
LEMMA StepEffects ==
    ASSUME IInv, [Next]_vars
    PROVE  /\ \A w \in Messages : RowStep(w)
           /\ \A b \in Batches : BatchChange(b)
<1> DEFINE Good == /\ \A w \in Messages : RowStep(w)
                   /\ \A b \in Batches : BatchChange(b)
<1>m. MessageTypes
    BY DEF IInv, TypeOK
<1>s. SendTypes
    BY DEF IInv, TypeOK
<1>b. BatchTypes
    BY DEF IInv, TypeOK
<1>i. \A w \in Messages : ExistsWithBatch(w)
    BY DEF IInv, SendInv, StatusInv
<1> USE BatchAssumption
(* A step that leaves the rows, the batches and the acceptances alone. *)
<1>r. ASSUME UNCHANGED <<status, failureClass, failureCode, applied>>
      PROVE  \A w \in Messages : UNCHANGED Row(w)
    BY <1>r DEF Row
<1>u. ASSUME UNCHANGED <<status, failureClass, failureCode, applied, batchStatus>>,
             \A w \in Messages : NoAcceptance(w)
      PROVE  Good
    BY <1>r, <1>u DEF RowStep, BatchChange
<1>n. ASSUME UNCHANGED <<accepted, flight>> PROVE \A w \in Messages : NoAcceptance(w)
    BY <1>n DEF NoAcceptance
<1>l. ASSUME UNCHANGED accepted, NEW m \in Messages, NEW n \in Attempts,
             NEW f \in Flight \ {"OK"}, flight' = [flight EXCEPT ![m][n] = f]
      PROVE  \A w \in Messages : NoAcceptance(w)
    BY <1>s, <1>l DEF SendTypes, NoAcceptance
<1>v. ASSUME UNCHANGED <<messageVars, webhookVars, batchVars, accepted, flight>>
      PROVE  Good
    BY <1>u, <1>n, <1>v DEF messageVars, webhookVars, batchVars
(* A transaction that moves one message and recounts its batch. *)
<1>w. ASSUME NEW m \in Messages, UpdateBatchState(BatchOf[m]),
             \A w \in Messages : NoAcceptance(w),
             \A w \in Messages : w # m => UNCHANGED Row(w),
             RowStep(m)
      PROVE  Good
    <2>1. ASSUME NEW w \in Messages PROVE RowStep(w)
        BY <1>w DEF RowStep
    <2>2. ASSUME NEW b \in Batches PROVE BatchChange(b)
        <3>1. CASE b = BatchOf[m]
            BY <1>b, <1>w, <3>1 DEF BatchTypes, UpdateBatchState, BatchChange
        <3>2. CASE b # BatchOf[m]
            <4>1. batchStatus'[b] = batchStatus[b]
                BY <1>b, <1>w, <3>2 DEF BatchTypes, UpdateBatchState
            <4>2. \A o \in Members(b) : status'[o] = status[o]
                BY <1>w, <3>2 DEF Members, Row
            <4>. QED BY <4>1, <4>2 DEF BatchChange
        <3>. QED BY <3>1, <3>2
    <2>. QED BY <2>1, <2>2
(* The same for a row that is written as a failure. *)
<1>f. ASSUME NEW m \in Messages, NEW class, NEW code, Fail(m, class, code),
             UNCHANGED <<applied, accepted, flight>>,
             \/ Writes(m, "FAILED", class, code) => GivenUp(m)
             \/ Writes(m, "FAILED", class, code) => Interrupted(m)
      PROVE  Good
    <2>1. Writes(m, "FAILED", class, code)
        BY <1>m, <1>f DEF Fail, Writes, MessageTypes
    <2>2. \A w \in Messages : w # m => UNCHANGED Row(w)
        BY <1>m, <1>f DEF Fail, Row, MessageTypes
    <2>3. RowStep(m)
        BY <1>n, <1>f, <2>1 DEF RowStep
    <2>. QED BY <1>n, <1>w, <1>f, <2>2, <2>3 DEF Fail
<1>1. ASSUME NEW b \in Batches, CreateBatch(b) PROVE Good
    <2>1. /\ batchStatus[b] = "ABSENT"
          /\ batchStatus' = [batchStatus EXCEPT ![b] = "QUEUED"]
          /\ status' = [m \in Messages |->
                           IF BatchOf[m] = b THEN "QUEUED" ELSE status[m]]
          /\ Members(b) # {}
          /\ UNCHANGED <<failureClass, failureCode, applied, accepted, flight>>
        BY <1>1 DEF CreateBatch, webhookVars
    <2>2. ASSUME NEW w \in Messages PROVE RowStep(w)
        BY <1>n, <1>i, <2>1 DEF RowStep, Row, Requested, Writes, ExistsWithBatch
    <2>3. ASSUME NEW c \in Batches PROVE BatchChange(c)
        <3>1. CASE c = b
            BY <1>b, <2>1, <3>1 DEF BatchChange, BatchTypes, Members, Active, OpenBatch
        <3>2. CASE c # b
            BY <1>b, <2>1, <3>2 DEF BatchChange, BatchTypes, Members
        <3>. QED BY <3>1, <3>2
    <2>. QED BY <2>2, <2>3
<1>2. ASSUME NEW b \in Batches,
             EnqueueDispatch(b) \/ ReplayFindsFailed(b) \/ RetryDispatchJob(b)
                 \/ ReplayInterrupted(b)
      PROVE  Good
    BY <1>v, <1>2 DEF EnqueueDispatch, ReplayFindsFailed, RetryDispatchJob,
                      ReplayInterrupted
<1>3. ASSUME NEW b \in Batches, RecoverExhaustedDispatch(b) PROVE Good
    <2> DEFINE recovered == {m \in Members(b) : NeverDispatched(m)}
    <2>1. /\ status' = [m \in Messages |-> IF m \in recovered THEN "QUEUED" ELSE status[m]]
          /\ failureClass' = [m \in Messages |->
                                 IF m \in recovered THEN None ELSE failureClass[m]]
          /\ failureCode' = [m \in Messages |->
                                IF m \in recovered THEN None ELSE failureCode[m]]
          /\ batchStatus' = [batchStatus EXCEPT ![b] =
                 IF recovered # {} \/ batchStatus[b] \in OpenBatch
                 THEN "QUEUED" ELSE batchStatus[b]]
          /\ UNCHANGED <<applied, accepted, flight>>
        BY <1>3 DEF RecoverExhaustedDispatch, webhookVars
    <2>2. \A m \in recovered : NeverDispatched(m) /\ m \in Messages /\ BatchOf[m] = b
        BY DEF Members
    <2> HIDE DEF recovered
    <2>3. ASSUME NEW w \in Messages PROVE RowStep(w)
        BY <1>n, <2>1, <2>2 DEF RowStep, Row, Requeued, Writes
    <2>4. ASSUME NEW c \in Batches PROVE BatchChange(c)
        <3>1. CASE c = b /\ recovered # {}
            BY <1>b, <2>1, <2>2, <3>1 DEF BatchChange, BatchTypes, Members, Active, OpenBatch
        <3>2. CASE c = b /\ recovered = {}
            BY <1>b, <2>1, <3>2 DEF BatchChange, BatchTypes, Members, OpenBatch
        <3>3. CASE c # b
            BY <1>b, <2>1, <2>2, <3>3 DEF BatchChange, BatchTypes, Members
        <3>. QED BY <3>1, <3>2, <3>3
    <2>. QED BY <2>3, <2>4
<1>4. ASSUME SweepStep \/ SweepAfterRestart \/ RemovalStep PROVE Good
    BY <1>v, <1>4 DEF SweepStep, SweepLists, SweepDispatches, SweepAfterRestart,
                      RemovalStep, DispatchJobRemoved, SendJobRemoved
(* The two dispatch steps that write only the batch, and keep it open. *)
<1>o. ASSUME NEW b \in Batches, NEW st,
             batchStatus' = [batchStatus EXCEPT ![b] = st],
             \/ st = batchStatus[b]
             \/ batchStatus[b] \in OpenBatch /\ st \in OpenBatch,
             UNCHANGED <<status, failureClass, failureCode, applied, accepted, flight>>
      PROVE  Good
    <2>1. ASSUME NEW w \in Messages PROVE RowStep(w)
        BY <1>n, <1>r, <1>o DEF RowStep
    <2>2. ASSUME NEW c \in Batches PROVE BatchChange(c)
        BY <1>b, <1>o DEF BatchChange, BatchTypes
    <2>. QED BY <2>1, <2>2
<1>5. ASSUME NEW b \in Batches, PrepareBatchDispatch(b) \/ MarkBatchDispatched(b) PROVE Good
    <2>1. CASE PrepareBatchDispatch(b)
        <3> DEFINE st == IF batchStatus[b] \in OpenBatch THEN "DISPATCHING" ELSE batchStatus[b]
        <3>1. /\ batchStatus' = [batchStatus EXCEPT ![b] = st]
              /\ UNCHANGED <<status, failureClass, failureCode, applied, accepted, flight>>
            BY <2>1 DEF PrepareBatchDispatch, messageVars, webhookVars
        <3>2. st = batchStatus[b] \/ (batchStatus[b] \in OpenBatch /\ st \in OpenBatch)
            BY DEF OpenBatch
        <3> HIDE DEF st
        <3>. QED BY <1>o, <3>1, <3>2
    <2>2. CASE MarkBatchDispatched(b)
        <3> DEFINE st == MarkedDispatched(batchStatus[b])
        <3>1. /\ batchStatus' = [batchStatus EXCEPT ![b] = st]
              /\ UNCHANGED <<status, failureClass, failureCode, applied, accepted, flight>>
            BY <2>2 DEF MarkBatchDispatched, messageVars, webhookVars
        <3>2. st = batchStatus[b] \/ (batchStatus[b] \in OpenBatch /\ st \in OpenBatch)
            BY DEF OpenBatch, MarkedDispatched
        <3> HIDE DEF st
        <3>. QED BY <1>o, <3>1, <3>2
    <2>. QED BY <1>5, <2>1, <2>2
<1>6. ASSUME NEW b \in Batches, EnqueueMessages(b) \/ DispatchJobFails(b) PROVE Good
    BY <1>v, <1>6 DEF EnqueueMessages, DispatchJobFails
<1>7. ASSUME NEW b \in Batches, NEW k \in dispatchReplays[b],
             RecordExhaustedDispatch(b, k)
      PROVE  Good
    <2> DEFINE stranded == {m \in Members(b) : status[m] = "QUEUED" /\ attemptCount[m] = 0}
    <2>1. CASE Fenced(b, k)
        BY <1>u, <1>n, <1>7, <2>1 DEF RecordExhaustedDispatch, webhookVars
    <2>2. CASE ~Fenced(b, k)
        <3>1. /\ status' = [m \in Messages |-> IF m \in stranded THEN "FAILED" ELSE status[m]]
              /\ failureClass' = [m \in Messages |->
                     IF m \in stranded THEN "TRANSIENT" ELSE failureClass[m]]
              /\ failureCode' = [m \in Messages |->
                     IF m \in stranded THEN "DISPATCH_RETRY_EXHAUSTED"
                                       ELSE failureCode[m]]
              /\ batchStatus' = [batchStatus EXCEPT ![b] = BatchVerdict(Members(b), status')]
              /\ UNCHANGED <<applied, accepted, flight>>
            BY <1>7, <2>2 DEF RecordExhaustedDispatch, UpdateBatchState, webhookVars
        <3>2. \A m \in stranded : m \in Messages /\ BatchOf[m] = b /\ status[m] = "QUEUED"
            BY DEF Members
        <3> HIDE DEF stranded
        <3>3. ASSUME NEW w \in Messages PROVE RowStep(w)
            BY <1>n, <2>2, <3>1, <3>2 DEF RowStep, Row, Stranded, Writes
        <3>4. ASSUME NEW c \in Batches PROVE BatchChange(c)
            <4>1. CASE c = b
                BY <1>b, <3>1, <4>1 DEF BatchChange, BatchTypes
            <4>2. CASE c # b
                BY <1>b, <3>1, <3>2, <4>2 DEF BatchChange, BatchTypes, Members
            <4>. QED BY <4>1, <4>2
        <3>. QED BY <3>3, <3>4
    <2>. QED BY <2>1, <2>2
<1>8. ASSUME NEW b \in Batches, NEW k \in dispatchReplays[b],
             ExhaustedDispatchUnrecorded(b, k)
      PROVE  Good
    BY <1>v, <1>8 DEF ExhaustedDispatchUnrecorded
<1>9. ASSUME NEW p \in Messages, NEW m \in Messages, Resend(p, m) PROVE Good
    <2>1. /\ status[m] = "ABSENT"
          /\ Members(BatchOf[m]) = {m}
          /\ status' = [status EXCEPT ![m] = "QUEUED"]
          /\ batchStatus' = [batchStatus EXCEPT ![BatchOf[m]] = "QUEUED"]
          /\ UNCHANGED <<failureClass, failureCode, applied, accepted, flight>>
        BY <1>9 DEF Resend, webhookVars
    <2>2. ASSUME NEW w \in Messages PROVE RowStep(w)
        BY <1>m, <1>n, <2>1 DEF RowStep, Row, Requested, Writes, MessageTypes
    <2>3. ASSUME NEW c \in Batches PROVE BatchChange(c)
        <3>1. CASE c = BatchOf[m]
            BY <1>m, <1>b, <2>1, <3>1 DEF BatchChange, BatchTypes, MessageTypes, Active, OpenBatch
        <3>2. CASE c # BatchOf[m]
            BY <1>m, <1>b, <2>1, <3>2 DEF BatchChange, BatchTypes, MessageTypes, Members
        <3>. QED BY <3>1, <3>2
    <2>. QED BY <2>2, <2>3
<1>10. ASSUME NEW m \in Messages, ClaimInterrupted(m) PROVE Good
    BY <1>f, <1>10 DEF ClaimInterrupted, FailAsAmbiguous, Interrupted, webhookVars
<1>11. ASSUME NEW m \in Messages,
              ClaimSkipped(m) \/ ClaimFails(m) \/ JobStalls(m)
       PROVE  Good
    BY <1>v, <1>11 DEF ClaimSkipped, ClaimFails, JobStalls
<1>12. ASSUME NEW m \in Messages, ClaimQueued(m) PROVE Good
    <2>1. CASE attemptCount[m] + 1 > MaxAttempts
        BY <1>f, <1>12, <2>1 DEF ClaimQueued, Claimable, GivenUp, webhookVars
    <2>2. CASE ~(attemptCount[m] + 1 > MaxAttempts)
        <3>1. /\ status[m] = "QUEUED"
              /\ status' = [status EXCEPT ![m] = "SENDING"]
              /\ failureClass' = [failureClass EXCEPT ![m] = None]
              /\ failureCode' = [failureCode EXCEPT ![m] = None]
              /\ flight' = [flight EXCEPT ![m][attemptCount[m] + 1] = "CALLING"]
              /\ UNCHANGED <<batchStatus, applied, accepted>>
            BY <1>12, <2>2 DEF ClaimQueued, Claimable, webhookVars
        <3>2. \A w \in Messages : NoAcceptance(w)
            BY <1>s, <3>1 DEF NoAcceptance, SendTypes
        <3>3. ASSUME NEW w \in Messages PROVE RowStep(w)
            BY <1>m, <3>1, <3>2 DEF RowStep, Row, Claimed, Writes, MessageTypes
        <3>4. ASSUME NEW c \in Batches PROVE BatchChange(c)
            BY <1>m, <3>1 DEF BatchChange, MessageTypes, Members, Active
        <3>. QED BY <3>3, <3>4
    <2>. QED BY <2>1, <2>2
<1>13. ASSUME NEW m \in Messages, RecordExhaustedSend(m) PROVE Good
    <2>1. CASE status[m] = "SENDING"
        BY <1>f, <1>13, <2>1 DEF RecordExhaustedSend, FailAsAmbiguous, Interrupted,
                                 Active, webhookVars
    <2>2. CASE status[m] = "QUEUED"
        BY <1>f, <1>13, <2>2 DEF RecordExhaustedSend, GivenUp, Active, webhookVars
    <2>3. CASE status[m] \notin Active
        BY <1>u, <1>n, <1>13, <2>3 DEF RecordExhaustedSend, Active, webhookVars
    <2>. QED BY <2>1, <2>2, <2>3 DEF Active
<1>14. ASSUME NEW m \in Messages, NEW e \in WebhookEvidence, ApplyWebhook(m, e) PROVE Good
    <2>1. PICK n \in accepted[m] :
              \/ /\ UNCHANGED <<status, failureClass, failureCode, applied, batchStatus>>
              \/ /\ applied' = [applied EXCEPT ![m] = @ \cup {e}]
                 /\ status' = [status EXCEPT ![m] = Reduce(status[m], e)]
                 /\ failureClass' = [failureClass EXCEPT ![m] =
                        IF Reduce(status[m], e) # "FAILED"
                        THEN IF status[m] = "FAILED" THEN None ELSE @
                        ELSE IF e = "FAILED" THEN "PERMANENT" ELSE @]
                 /\ failureCode' = [failureCode EXCEPT ![m] =
                        IF Reduce(status[m], e) # "FAILED"
                        THEN IF status[m] = "FAILED" THEN None ELSE @
                        ELSE IF e = "FAILED" THEN "PROVIDER" ELSE @]
                 /\ UpdateBatchState(BatchOf[m])
        BY <1>14 DEF ApplyWebhook
    <2>2. UNCHANGED <<accepted, flight>>
        BY <1>14 DEF ApplyWebhook
    <2>3. CASE UNCHANGED <<status, failureClass, failureCode, applied, batchStatus>>
        BY <1>u, <1>n, <2>2, <2>3
    <2>4. CASE ~UNCHANGED <<status, failureClass, failureCode, applied, batchStatus>>
        <3>1. Reported(m, e)
            BY <1>m, <2>1, <2>4 DEF Reported, MessageTypes
        <3>2. \A w \in Messages : w # m => UNCHANGED Row(w)
            BY <1>m, <2>1, <2>4 DEF Row, MessageTypes
        <3>3. RowStep(m)
            BY <1>n, <2>2, <3>1 DEF RowStep
        <3>. QED BY <1>n, <1>w, <2>1, <2>2, <2>4, <3>2, <3>3
    <2>. QED BY <2>3, <2>4
<1>15. ASSUME NEW m \in Messages, NEW n \in Attempts,
              ProviderAccepts(m, n) \/ WorkerCrash(m, n)
       PROVE  Good
    <2>1. /\ UNCHANGED <<status, failureClass, failureCode, applied, batchStatus>>
          /\ \E f \in Flight : flight' = [flight EXCEPT ![m][n] = f]
          /\ \/ UNCHANGED accepted /\ flight' = [flight EXCEPT ![m][n] = "IDLE"]
             \/ flight[m][n] = "CALLING" /\ accepted' = [accepted EXCEPT ![m] = @ \cup {n}]
        BY <1>15 DEF ProviderAccepts, WorkerCrash, messageVars, webhookVars, batchVars,
                     Flight, FailureClass
    <2>2. CASE UNCHANGED accepted /\ flight' = [flight EXCEPT ![m][n] = "IDLE"]
        BY <1>u, <1>l, <2>1, <2>2 DEF Flight
    <2>3. CASE flight[m][n] = "CALLING" /\ accepted' = [accepted EXCEPT ![m] = @ \cup {n}]
        <3>1. Accepts(m)
            BY <1>m, <1>s, <2>1, <2>3 DEF Accepts, MessageTypes, SendTypes
        <3>2. \A w \in Messages : w # m => NoAcceptance(w)
            BY <1>m, <1>s, <2>1, <2>3 DEF NoAcceptance, MessageTypes, SendTypes
        <3>3. \A w \in Messages : UNCHANGED Row(w)
            BY <1>r, <2>1
        <3>4. \A b \in Batches : BatchChange(b)
            BY <2>1 DEF BatchChange
        <3>. QED BY <3>1, <3>2, <3>3, <3>4 DEF RowStep
    <2>. QED BY <2>1, <2>2, <2>3
<1>16. ASSUME NEW m \in Messages, NEW n \in Attempts,
              ProviderRefuses(m, n) \/ RecordAcceptedAborts(m, n)
                  \/ RecordFailureAborts(m, n)
       PROVE  Good
    <2>1. /\ UNCHANGED <<status, failureClass, failureCode, applied, batchStatus, accepted>>
          /\ \E f \in Flight \ {"OK"} : flight' = [flight EXCEPT ![m][n] = f]
        BY <1>16 DEF ProviderRefuses, RecordAcceptedAborts, RecordFailureAborts, Land,
                     messageVars, webhookVars, batchVars, Flight, FailureClass
    <2>. QED BY <1>u, <1>l, <2>1
<1>17. ASSUME NEW m \in Messages, NEW n \in Attempts, RecordAccepted(m, n) PROVE Good
    <2> DEFINE reduced == Reduce(status[m], "SENT")
    <2>1. /\ flight[m][n] = "OK"
          /\ flight' = [flight EXCEPT ![m][n] = "IDLE"]
          /\ UNCHANGED <<applied, accepted>>
          /\ \/ UNCHANGED <<status, failureClass, failureCode, batchStatus>>
             \/ /\ status' = [status EXCEPT ![m] = reduced]
                /\ failureClass' = [failureClass EXCEPT ![m] =
                                       IF reduced = "FAILED" THEN @ ELSE None]
                /\ failureCode' = [failureCode EXCEPT ![m] =
                                      IF reduced = "FAILED" THEN @ ELSE None]
                /\ UpdateBatchState(BatchOf[m])
        BY <1>17 DEF RecordAccepted, Land, webhookVars
    <2>2. \A w \in Messages : NoAcceptance(w)
        BY <1>l, <2>1 DEF Flight
    <2>3. CASE UNCHANGED <<status, failureClass, failureCode, batchStatus>>
        BY <1>u, <2>1, <2>2, <2>3
    <2>4. CASE ~UNCHANGED <<status, failureClass, failureCode, batchStatus>>
        <3>1. Landed(m)
            BY <1>m, <2>1, <2>4 DEF Landed, Writes, MessageTypes
        <3>2. \A w \in Messages : w # m => UNCHANGED Row(w)
            BY <1>m, <2>1, <2>4 DEF Row, MessageTypes
        <3>3. RowStep(m)
            BY <2>2, <3>1 DEF RowStep
        <3>. QED BY <1>w, <2>1, <2>2, <2>4, <3>2, <3>3
    <2>. QED BY <2>3, <2>4
<1>18. ASSUME NEW m \in Messages, NEW n \in Attempts, RecordFailure(m, n) PROVE Good
    <2> DEFINE class == flight[m][n]
               retry == Retryable(class, n, MaxAttempts)
    <2>1. /\ class \in FailureClass
          /\ flight' = [flight EXCEPT ![m][n] = "IDLE"]
          /\ UNCHANGED <<applied, accepted>>
          /\ \/ UNCHANGED <<status, failureClass, failureCode, batchStatus>>
             \/ /\ status[m] = "SENDING" /\ attemptCount[m] = n
                /\ status' = [status EXCEPT ![m] = IF retry THEN "QUEUED" ELSE "FAILED"]
                /\ failureClass' = [failureClass EXCEPT ![m] = class]
                /\ failureCode' = [failureCode EXCEPT ![m] = "PROVIDER"]
                /\ UpdateBatchState(BatchOf[m])
        BY <1>18 DEF RecordFailure, Land, webhookVars
    <2>2. \A w \in Messages : NoAcceptance(w)
        BY <1>l, <2>1 DEF Flight
    <2>3. CASE UNCHANGED <<status, failureClass, failureCode, batchStatus>>
        BY <1>u, <2>1, <2>2, <2>3
    <2>4. CASE ~UNCHANGED <<status, failureClass, failureCode, batchStatus>>
        <3>1. Refused(m)
            BY <1>m, <2>1, <2>4 DEF Refused, Writes, MessageTypes
        <3>2. \A w \in Messages : w # m => UNCHANGED Row(w)
            BY <1>m, <2>1, <2>4 DEF Row, MessageTypes
        <3>3. RowStep(m)
            BY <2>2, <3>1 DEF RowStep
        <3>. QED BY <1>w, <2>1, <2>2, <2>4, <3>2, <3>3
    <2>. QED BY <2>3, <2>4
<1>90. CASE UNCHANGED vars
    BY <1>v, <1>90 DEF vars, messageVars, webhookVars, batchVars
<1>. QED
    BY <1>1, <1>2, <1>3, <1>4, <1>5, <1>6, <1>7, <1>8, <1>9, <1>10, <1>11, <1>12,
       <1>13, <1>14, <1>15, <1>16, <1>17, <1>18, <1>90
       DEF Next, HostStep, DispatchStep, BookkeepingStep, ClaimStep, AnswerStep, RecordStep

-----------------------------------------------------------------------------
(* The evidence, the acceptances and the status of one message.            *)

(* The order of the statuses that Reduce compares. *)
LEMMA RankValues ==
    /\ Rank["QUEUED"] = 0 /\ Rank["SENDING"] = 1 /\ Rank["SENT"] = 2
    /\ Rank["DELIVERED"] = 3 /\ Rank["READ"] = 4 /\ Rank["RESPONDED"] = 5
    /\ \A s \in MessageStatus \ {"FAILED", "CANCELLED"} : Rank[s] \in Nat
BY DEF Rank, Proven, MessageStatus, Active

(* Reduce, by the kind of evidence folded in. *)
LEMMA ReduceCases ==
    ASSUME NEW s \in MessageStatus \ {"CANCELLED"}, NEW e \in Evidence
    PROVE  /\ e = "FAILED" => Reduce(s, e) = IF s \in Proven THEN s ELSE "FAILED"
           /\ e = "SENT" => Reduce(s, e) = IF s \in Active THEN "SENT" ELSE s
           /\ e \in Proven =>
                  /\ Reduce(s, e) = e \/ (s \in Proven /\ Reduce(s, e) = s)
                  /\ Rank[e] <= Rank[Reduce(s, e)]
                  /\ s \in Proven => Rank[s] <= Rank[Reduce(s, e)]
<1> DEFINE M == MessageStatus \ {"FAILED", "CANCELLED"}
<1>1. \A a \in M : Rank[a] \in Nat
    BY RankValues
<1>2. e \in Proven \cup {"SENT"} => e \in M
    BY DEF MessageStatus, Proven
<1>3. s # "FAILED" => s \in M
    OBVIOUS
<1>4. e # "CANCELLED" /\ (e \in Proven => e # "FAILED" /\ e # "SENT")
    BY DEF Evidence, Proven
<1>5. CASE e = "FAILED"
    BY <1>5 DEF Reduce, Proven
<1>6. CASE e = "SENT"
    <2>1. CASE s \in Active
        BY <1>6, <2>1, RankValues DEF Reduce, Active
    <2>2. CASE s \in Proven \cup {"SENT"}
        BY <1>6, <2>2, RankValues DEF Reduce, Proven, Active
    <2>3. CASE s = "FAILED"
        BY <1>6, <2>3 DEF Reduce, Proven, Active
    <2>. QED BY <1>6, <2>1, <2>2, <2>3 DEF MessageStatus
<1>7. CASE e \in Proven
    <2>1. CASE s = "FAILED"
        BY <1>1, <1>2, <1>4, <1>7, <2>1 DEF Reduce, Proven
    <2>2. CASE s # "FAILED"
        <3>1. Reduce(s, e) = IF Rank[e] > Rank[s] THEN e ELSE s
            BY <1>4, <1>7, <2>2 DEF Reduce
        <3>2. Rank[e] \in Nat /\ Rank[s] \in Nat
            BY <1>1, <1>2, <1>3, <1>7, <2>2
        <3>3. ~(Rank[e] > Rank[s]) => s \in Proven
            BY <1>7, <2>2, RankValues DEF MessageStatus, Proven, Active
        <3>. QED BY <1>4, <1>7, <3>1, <3>2, <3>3
    <2>. QED BY <2>1, <2>2
<1>. QED BY <1>5, <1>6, <1>7 DEF Evidence

(* The total order behind Reduce: a failure stands between mere acceptance *)
(* and proof of delivery.                                                  *)
Strength == [s \in MessageStatus \ {"CANCELLED"} |->
                CASE s = "QUEUED"    -> 0
                  [] s = "SENDING"   -> 1
                  [] s = "SENT"      -> 2
                  [] s = "FAILED"    -> 3
                  [] s = "DELIVERED" -> 4
                  [] s = "READ"      -> 5
                  [] s = "RESPONDED" -> 6]

(* The values of that order: equal strength means equal status. *)
LEMMA StrengthValues ==
    /\ \A s \in MessageStatus \ {"CANCELLED"} : Strength[s] \in Nat
    /\ \A s, t \in MessageStatus \ {"CANCELLED"} : Strength[s] = Strength[t] => s = t
BY DEF Strength, Proven, MessageStatus, Active

(* Reduce keeps the stronger of the status and the evidence. *)
LEMMA ReduceIsTheStronger ==
    ASSUME NEW s \in MessageStatus \ {"CANCELLED"}, NEW e \in Evidence
    PROVE  Reduce(s, e) = IF Strength[e] > Strength[s] THEN e ELSE s
<1>1. CASE e = "FAILED"
    BY <1>1 DEF Reduce, Strength, Proven, MessageStatus, Active
<1>2. CASE e = "SENT"
    BY <1>2 DEF Reduce, Strength, Rank, Proven, MessageStatus, Active
<1>3. CASE e = "DELIVERED"
    BY <1>3 DEF Reduce, Strength, Rank, Proven, MessageStatus, Active
<1>4. CASE e = "READ"
    BY <1>4 DEF Reduce, Strength, Rank, Proven, MessageStatus, Active
<1>5. CASE e = "RESPONDED"
    BY <1>5 DEF Reduce, Strength, Rank, Proven, MessageStatus, Active
<1>. QED BY <1>1, <1>2, <1>3, <1>4, <1>5 DEF Evidence, Proven

(* reduceMessageDeliveryStatus does not trust the order of webhooks: two   *)
(* pieces of evidence lead to one status in either order, and one that is  *)
(* delivered again changes nothing.                                        *)
THEOREM EvidenceCommutes ==
    ASSUME NEW s \in MessageStatus, NEW a \in Evidence, NEW b \in Evidence
    PROVE  /\ Reduce(Reduce(s, a), b) = Reduce(Reduce(s, b), a)
           /\ Reduce(Reduce(s, a), a) = Reduce(s, a)
<1>1. CASE s = "CANCELLED"
    BY <1>1 DEF Reduce
<1>2. CASE s # "CANCELLED"
    <2> DEFINE M == MessageStatus \ {"CANCELLED"}
    <2>1. s \in M /\ a \in M /\ b \in M
        BY <1>2 DEF MessageStatus, Evidence, Proven
    <2>2. \A t \in M, e \in Evidence : Reduce(t, e) = IF Strength[e] > Strength[t] THEN e ELSE t
        BY ReduceIsTheStronger
    <2>3. /\ Reduce(s, a) \in M /\ Reduce(s, b) \in M
          /\ Reduce(s, a) = IF Strength[a] > Strength[s] THEN a ELSE s
          /\ Reduce(s, b) = IF Strength[b] > Strength[s] THEN b ELSE s
        BY <2>1, <2>2
    <2>4. /\ Reduce(Reduce(s, a), b) = IF Strength[b] > Strength[Reduce(s, a)] THEN b ELSE Reduce(s, a)
          /\ Reduce(Reduce(s, b), a) = IF Strength[a] > Strength[Reduce(s, b)] THEN a ELSE Reduce(s, b)
          /\ Reduce(Reduce(s, a), a) = IF Strength[a] > Strength[Reduce(s, a)] THEN a ELSE Reduce(s, a)
        BY <2>2, <2>3
    <2>5. /\ Strength[s] \in Nat /\ Strength[a] \in Nat /\ Strength[b] \in Nat
          /\ Strength[a] = Strength[b] => a = b
        BY <2>1, StrengthValues
    <2>. QED BY <2>3, <2>4, <2>5
<1>. QED BY <1>1, <1>2

(* A message that waits, or never started an attempt, has not been         *)
(* accepted, and no worker is waiting for an answer about it.              *)
LEMMA WaitingIsUnsent ==
    ASSUME IInv, NEW m \in Messages,
           status[m] \in {"QUEUED", "ABSENT"} \/ attemptCount[m] = 0
    PROVE  accepted[m] = {} /\ \A n \in Attempts : flight[m][n] = "IDLE"
<1>1. /\ status[m] \in MessageStatus \cup {"ABSENT"}
      /\ attemptCount[m] \in 0..MaxAttempts
      /\ accepted[m] \subseteq Attempts
    BY DEF IInv, TypeOK, MessageTypes
<1>2. ASSUME NEW n \in Attempts PROVE n \notin accepted[m] /\ flight[m][n] = "IDLE"
    <2>1. CASE n > attemptCount[m]
        BY <2>1 DEF IInv, SendInv, AttemptInv, NotStarted
    <2>2. CASE ~(n > attemptCount[m])
        <3>1. n \in 1..attemptCount[m]
            BY <1>1, <2>2, BoundAssumption DEF Attempts
        <3>2. status[m] = "QUEUED"
            BY <3>1 DEF IInv, SendInv, StatusInv, QueuedIsClean
        <3>3. attempt[m][n] = "RETRYABLE_FAILURE"
            BY <3>1, <3>2 DEF IInv, SendInv, StatusInv, QueuedIsClean
        <3>. QED BY <3>3 DEF IInv, SendInv, AttemptInv, RefusedIsOver
    <2>. QED BY <2>1, <2>2
<1>. QED BY <1>1, <1>2

(* StatusReflectsEvidence, of one message. *)
Reflects(m) ==
    LET proof == applied[m] \cap Proven IN
    /\ proof # {} => /\ status[m] \in proof
                     /\ \A e \in proof : Rank[e] <= Rank[status[m]]
    /\ proof = {} => status[m] \notin Proven
    /\ proof = {} /\ "FAILED" \in applied[m] =>
           status[m] = "FAILED" /\ failureClass[m] = "PERMANENT"
    /\ applied[m] = {"SENT"} => status[m] \in {"SENT", "FAILED"}

(* Evidence is only of a message the provider took, and so is its success; *)
(* a worker holds an acceptance only of the attempt that was accepted.     *)
Founded(m) ==
    /\ applied[m] # {} => accepted[m] # {}
    /\ status[m] \in Proven \cup {"SENT"} => accepted[m] # {}
    /\ \A n \in Attempts : flight[m][n] = "OK" => n \in accepted[m]

RowInv(m) ==
    /\ Founded(m)
    /\ Reflects(m)
    /\ status[m] # "CANCELLED"
    /\ failureCode[m] = "DISPATCH_RETRY_EXHAUSTED" => failureClass[m] = "TRANSIENT"

(* An active message has no evidence: every report that was applied took   *)
(* it out of the states a job may still act on.                            *)
LEMMA ActiveHasNoEvidence ==
    ASSUME MessageTypes, NEW m \in Messages, RowInv(m), status[m] \in Active
    PROVE  applied[m] = {}
<1>1. applied[m] \subseteq Evidence
    BY BatchAssumption DEF MessageTypes
<1>2. applied[m] \cap Proven = {} /\ "FAILED" \notin applied[m] /\ applied[m] # {"SENT"}
    BY DEF RowInv, Reflects, Active, Proven
<1>. QED BY <1>1, <1>2 DEF Evidence

(* No step of the pipeline separates the evidence applied to a message,    *)
(* what the provider took of it and what its row says.                     *)
LEMMA RowInvStep ==
    ASSUME IInv, [Next]_vars, NEW w \in Messages, RowInv(w)
    PROVE  RowInv(w)'
<1>m. /\ MessageTypes
      /\ status[w] \in MessageStatus \cup {"ABSENT"}
      /\ accepted[w] \subseteq Attempts
      /\ applied[w] \subseteq Evidence
    BY BatchAssumption DEF IInv, TypeOK, MessageTypes
<1>e. RowStep(w)
    BY StepEffects
<1>q. status[w] \in {"QUEUED", "ABSENT"} \/ attemptCount[w] = 0 => accepted[w] = {}
    BY WaitingIsUnsent
<1>a. status[w] \in Active => applied[w] = {}
    BY <1>m, ActiveHasNoEvidence
<1>r. Founded(w) /\ Reflects(w)
    BY DEF RowInv
<1>1. CASE Accepts(w) /\ UNCHANGED Row(w)
    <2>1. PICK n \in Attempts :
              /\ accepted'[w] = accepted[w] \cup {n}
              /\ \A k \in Attempts : flight'[w][k] = "OK" => flight[w][k] = "OK" \/ k = n
        BY <1>1 DEF Accepts
    <2>2. Founded(w)'
        BY <1>1, <1>r, <2>1 DEF Founded, Row
    <2>3. Reflects(w)'
        BY <1>1, <1>r DEF Reflects, Row
    <2>. QED BY <1>1, <2>2, <2>3 DEF RowInv, Row
(* From here on only the row changes. *)
<1> SUFFICES ASSUME NoAcceptance(w) PROVE RowInv(w)'
    BY <1>1, <1>e DEF RowStep
<1>s. accepted'[w] = accepted[w] /\ \A n \in Attempts : flight'[w][n] = "OK" => n \in accepted'[w]
    BY <1>r DEF NoAcceptance, Founded
<1>2. CASE UNCHANGED Row(w)
    <2>1. Founded(w)'
        BY <1>2, <1>r, <1>s DEF Founded, Row
    <2>2. Reflects(w)'
        BY <1>2, <1>r DEF Reflects, Row
    <2>. QED BY <1>2, <2>1, <2>2 DEF RowInv, Row
(* A row that is written to a status no evidence speaks of. *)
<1>w. ASSUME NEW st \in {"QUEUED", "SENDING", "FAILED"}, NEW class, NEW code,
             Writes(w, st, class, code), applied[w] = {},
             code = "DISPATCH_RETRY_EXHAUSTED" => class = "TRANSIENT"
      PROVE  RowInv(w)'
    <2>1. Founded(w)' /\ Reflects(w)'
        BY <1>s, <1>w DEF Writes, Founded, Reflects, Proven
    <2>. QED BY <1>w, <2>1 DEF RowInv, Writes
<1>3. CASE Requested(w)
    BY <1>q, <1>r, <1>w, <1>3 DEF Requested, Founded, RowInv
<1>4. CASE Requeued(w)
    BY <1>q, <1>r, <1>w, <1>4 DEF Requeued, NeverDispatched, Founded, None
<1>5. CASE Claimed(w)
    BY <1>a, <1>w, <1>5 DEF Claimed, Active, None
<1>6. CASE Stranded(w)
    BY <1>a, <1>w, <1>6 DEF Stranded, Active
<1>7. CASE GivenUp(w)
    BY <1>a, <1>w, <1>7 DEF GivenUp, Active
<1>8. CASE Interrupted(w)
    BY <1>a, <1>w, <1>8 DEF Interrupted, Active
<1>9. CASE Landed(w)
    <2>1. accepted[w] # {}
        BY <1>r, <1>9 DEF Landed, Founded
    <2>2. status[w] \in MessageStatus \ {"CANCELLED", "QUEUED"}
        BY <1>m, <1>q, <2>1 DEF RowInv
    <2>3. Reduce(status[w], "SENT") = IF status[w] \in Active THEN "SENT" ELSE status[w]
        BY <2>2, ReduceCases DEF Evidence
    <2>4. CASE status[w] = "SENDING"
        <3>1. Writes(w, "SENT", None, None) /\ applied[w] = {}
            BY <1>a, <1>9, <2>3, <2>4 DEF Landed, Active
        <3>2. Founded(w)' /\ Reflects(w)'
            BY <1>s, <2>1, <3>1 DEF Writes, Founded, Reflects, Proven
        <3>. QED BY <3>1, <3>2 DEF RowInv, Writes, None
    <2>5. CASE status[w] # "SENDING"
        <3>1. /\ status'[w] = status[w] /\ applied'[w] = applied[w]
              /\ status[w] = "FAILED" => failureClass'[w] = failureClass[w]
              /\ \/ failureClass'[w] = failureClass[w] /\ failureCode'[w] = failureCode[w]
                 \/ failureCode'[w] = None
            BY <1>9, <2>2, <2>3, <2>5 DEF Landed, Writes, Active
        <3>2. Founded(w)'
            BY <1>r, <1>s, <3>1 DEF Founded
        <3>3. Reflects(w)'
            BY <1>r, <3>1 DEF Reflects
        <3>. QED BY <3>1, <3>2, <3>3 DEF RowInv, None
    <2>. QED BY <2>4, <2>5
<1>10. CASE Refused(w)
    BY <1>a, <1>w, <1>10 DEF Refused, Active
<1>11. ASSUME NEW e \in WebhookEvidence, Reported(w, e) PROVE RowInv(w)'
    <2> DEFINE reduced == Reduce(status[w], e)
    <2>1. /\ accepted[w] # {}
          /\ status'[w] = reduced
          /\ applied'[w] = applied[w] \cup {e}
          /\ failureClass'[w] = IF reduced # "FAILED"
                                THEN IF status[w] = "FAILED" THEN None ELSE failureClass[w]
                                ELSE IF e = "FAILED" THEN "PERMANENT" ELSE failureClass[w]
          /\ failureCode'[w] = IF reduced # "FAILED"
                               THEN IF status[w] = "FAILED" THEN None ELSE failureCode[w]
                               ELSE IF e = "FAILED" THEN "PROVIDER" ELSE failureCode[w]
        BY <1>11 DEF Reported
    <2>2. e \in Evidence /\ status[w] \in MessageStatus \ {"CANCELLED", "QUEUED"}
        BY <1>m, <1>q, <2>1, BatchAssumption DEF RowInv
    <2>3. /\ e = "FAILED" => reduced = IF status[w] \in Proven THEN status[w] ELSE "FAILED"
          /\ e = "SENT" => reduced = IF status[w] \in Active THEN "SENT" ELSE status[w]
          /\ e \in Proven =>
                 /\ reduced = e \/ (status[w] \in Proven /\ reduced = status[w])
                 /\ Rank[e] <= Rank[reduced]
                 /\ status[w] \in Proven => Rank[status[w]] <= Rank[reduced]
        BY <2>2, ReduceCases
    <2> HIDE DEF reduced
    <2>4. reduced # "CANCELLED"
        BY <2>2, <2>3 DEF Evidence, Proven
    <2>5. Founded(w)'
        BY <1>s, <2>1 DEF Founded
    <2>6. Reflects(w)'
        <3> DEFINE proof == applied[w] \cap Proven
        <3>1. CASE e \in Proven
            <4>1. applied'[w] \cap Proven = proof \cup {e}
                BY <2>1, <3>1
            <4>2. reduced \in proof \cup {e}
                BY <1>r, <2>3, <3>1 DEF Reflects
            <4>3. ASSUME NEW f \in proof PROVE Rank[f] <= Rank[reduced]
                <5>1. Rank[f] <= Rank[status[w]] /\ status[w] \in Proven
                    BY <1>r DEF Reflects
                <5>2. Rank[status[w]] <= Rank[reduced]
                    BY <2>3, <3>1, <5>1
                <5>3. f \in Proven /\ reduced \in Proven
                    BY <2>3, <3>1
                <5>. QED BY <5>1, <5>2, <5>3, RankValues DEF MessageStatus, Proven
            <4>4. \A f \in applied'[w] \cap Proven : Rank[f] <= Rank[status'[w]]
                BY <2>1, <2>3, <3>1, <4>1, <4>3
            <4>. QED BY <2>1, <3>1, <4>1, <4>2, <4>4 DEF Reflects, Proven
        <3>2. CASE e \notin Proven
            <4>1. applied'[w] \cap Proven = proof
                BY <2>1, <3>2
            <4>2. CASE proof # {}
                <5>1. status[w] \in Proven /\ status[w] \in proof
                    BY <1>r, <4>2 DEF Reflects
                <5>2. reduced = status[w]
                    BY <2>2, <2>3, <3>2, <5>1 DEF Evidence, Proven, Active
                <5>. QED BY <1>r, <2>1, <4>1, <4>2, <5>1, <5>2 DEF Reflects, Proven
            <4>3. CASE proof = {}
                <5>1. status[w] \notin Proven
                    BY <1>r, <4>3 DEF Reflects
                <5>2. reduced \in {"SENT", "FAILED"}
                    BY <2>2, <2>3, <3>2, <5>1 DEF Evidence, MessageStatus, Active
                <5>3. "FAILED" \in applied'[w] =>
                          reduced = "FAILED" /\ failureClass'[w] = "PERMANENT"
                    <6>1. CASE e = "FAILED"
                        BY <2>1, <2>3, <5>1, <6>1
                    <6>2. CASE e # "FAILED"
                        BY <1>r, <2>1, <2>2, <2>3, <3>2, <4>3, <6>2
                           DEF Reflects, Evidence, Active
                    <6>. QED BY <6>1, <6>2
                <5>. QED BY <2>1, <4>1, <4>3, <5>2, <5>3 DEF Reflects, Proven
            <4>. QED BY <4>2, <4>3
        <3>. QED BY <3>1, <3>2
    <2>7. failureCode'[w] = "DISPATCH_RETRY_EXHAUSTED" => failureClass'[w] = "TRANSIENT"
        BY <2>1 DEF RowInv, None
    <2>. QED BY <2>1, <2>4, <2>5, <2>6, <2>7 DEF RowInv
<1>. QED
    BY <1>e, <1>2, <1>3, <1>4, <1>5, <1>6, <1>7, <1>8, <1>9, <1>10, <1>11 DEF RowStep

-----------------------------------------------------------------------------
(* Batches, and the bookkeeping of their exhausted dispatch jobs.          *)

(* Whatever a step does to a batch, it leaves the batch in agreement with  *)
(* its messages.                                                           *)
LEMMA BatchStaysInAgreement ==
    ASSUME IInv, [Next]_vars, BatchAgreesWithMessages
    PROVE  BatchAgreesWithMessages'
<1> SUFFICES ASSUME NEW b \in Batches, batchStatus'[b] # "ABSENT"
             PROVE  IF batchStatus'[b] \in TerminalBatch
                    THEN batchStatus'[b] = BatchVerdict(Members(b), status')
                    ELSE \E m \in Members(b) : status'[m] \in Active
    BY DEF BatchAgreesWithMessages
<1> DEFINE same == \A m \in Members(b) : status'[m] = status[m]
           active == \E m \in Members(b) : status'[m] \in Active
<1>1. BatchChange(b)
    BY StepEffects
<1>2. batchStatus[b] # "ABSENT" =>
          IF batchStatus[b] \in TerminalBatch
          THEN batchStatus[b] = BatchVerdict(Members(b), status)
          ELSE \E m \in Members(b) : status[m] \in Active
    BY DEF BatchAgreesWithMessages
<1>3. TerminalBatch \cap OpenBatch = {} /\ "ABSENT" \notin OpenBatch
    BY DEF TerminalBatch, OpenBatch
<1>4. CASE same /\ batchStatus'[b] = batchStatus[b]
    <2>1. BatchVerdict(Members(b), status') = BatchVerdict(Members(b), status)
        BY <1>4 DEF BatchVerdict
    <2>. QED BY <1>2, <1>4, <2>1
<1>5. CASE batchStatus'[b] = BatchVerdict(Members(b), status')
    BY <1>5 DEF BatchVerdict, TerminalBatch
<1>6. CASE active /\ batchStatus'[b] \in OpenBatch
    BY <1>3, <1>6
<1>7. CASE same /\ batchStatus[b] \in OpenBatch /\ batchStatus'[b] \in OpenBatch
    BY <1>2, <1>3, <1>7
<1>8. CASE /\ active /\ batchStatus'[b] = batchStatus[b]
           /\ \E m \in Members(b) : status[m] \in Active
    <2>1. BatchVerdict(Members(b), status) \notin TerminalBatch
        BY <1>8 DEF BatchVerdict, TerminalBatch
    <2>. QED BY <1>2, <1>8, <2>1
<1>. QED BY <1>1, <1>4, <1>5, <1>6, <1>7, <1>8 DEF BatchChange

(* Bookkeeping is kept only of exhaustions that have happened. *)
ReplaysArePast ==
    \A b \in Batches : \A k \in dispatchReplays[b] : k <= exhaustions[b]

(* No step notes down an exhaustion that has not happened. *)
LEMMA ReplaysStayPast ==
    ASSUME IInv, [Next]_vars, ReplaysArePast
    PROVE  ReplaysArePast'
<1>b. BatchTypes
    BY DEF IInv, TypeOK
<1>v. ASSUME UNCHANGED <<exhaustions, dispatchReplays>> PROVE ReplaysArePast'
    BY <1>v DEF ReplaysArePast
(* A step that writes bookkeeping off. *)
<1>w. ASSUME NEW b \in Batches, NEW k, UNCHANGED exhaustions,
             dispatchReplays' = [dispatchReplays EXCEPT ![b] = @ \ {k}]
      PROVE  ReplaysArePast'
    BY <1>b, <1>w DEF ReplaysArePast, BatchTypes
<1>1. ASSUME NEW b \in Batches, HostStep(b) \/ DispatchStep(b) PROVE ReplaysArePast'
    <2>1. CASE HostStep(b)
        BY <1>v, <2>1 DEF HostStep, dispatchVars, CreateBatch, EnqueueDispatch,
               ReplayFindsFailed, RecoverExhaustedDispatch, RetryDispatchJob,
               ReplayInterrupted
    <2>2. CASE DispatchStep(b)
        BY <1>v, <2>2 DEF DispatchStep, PrepareBatchDispatch, EnqueueMessages,
               MarkBatchDispatched
    <2>. QED BY <1>1, <2>1, <2>2
<1>2. ASSUME NEW b \in Batches, DispatchJobFails(b) PROVE ReplaysArePast'
    <2> DEFINE exhausted == dispatchTries[b] + 1 >= DispatchAttempts
    <2>1. /\ exhaustions' = [exhaustions EXCEPT ![b] = IF exhausted THEN @ + 1 ELSE @]
          /\ dispatchReplays' = [dispatchReplays EXCEPT ![b] =
                 IF exhausted THEN @ \cup {exhaustions[b] + 1} ELSE @]
        BY <1>2 DEF DispatchJobFails
    <2>2. /\ exhaustions \in [Batches -> Nat]
          /\ dispatchReplays \in [Batches -> SUBSET Nat]
        BY <1>b DEF BatchTypes
    <2> HIDE DEF exhausted
    <2>3. CASE exhausted
        BY <2>1, <2>2, <2>3 DEF ReplaysArePast
    <2>4. CASE ~exhausted
        BY <2>1, <2>2, <2>4 DEF ReplaysArePast
    <2>. QED BY <2>3, <2>4
<1>3. ASSUME NEW b \in Batches, BookkeepingStep(b) PROVE ReplaysArePast'
    <2>1. PICK k \in dispatchReplays[b] : \/ RecordExhaustedDispatch(b, k)
                                          \/ ExhaustedDispatchUnrecorded(b, k)
        BY <1>3 DEF BookkeepingStep
    <2>. QED BY <1>w, <2>1 DEF RecordExhaustedDispatch, ExhaustedDispatchUnrecorded
<1>4. CASE SweepStep \/ RemovalStep
    BY <1>v, <1>4 DEF SweepStep, SweepLists, SweepDispatches, RemovalStep,
           DispatchJobRemoved, SendJobRemoved, dispatchVars
<1>5. ASSUME NEW p \in Messages, NEW m \in Messages, Resend(p, m) PROVE ReplaysArePast'
    BY <1>v, <1>5 DEF Resend, dispatchVars
<1>6. ASSUME NEW m \in Messages,
             \/ ClaimStep(m) \/ ClaimFails(m) \/ JobStalls(m) \/ RecordExhaustedSend(m)
             \/ \E e \in WebhookEvidence : ApplyWebhook(m, e)
      PROVE  ReplaysArePast'
    BY <1>v, <1>6 DEF ClaimStep, ClaimInterrupted, ClaimSkipped, ClaimQueued,
           ClaimFails, JobStalls, RecordExhaustedSend, ApplyWebhook, dispatchVars
<1>7. ASSUME NEW m \in Messages, NEW n \in Attempts,
             \/ AnswerStep(m, n) \/ RecordStep(m, n) \/ WorkerCrash(m, n)
             \/ RecordAcceptedAborts(m, n) \/ RecordFailureAborts(m, n)
      PROVE  ReplaysArePast'
    BY <1>v, <1>7 DEF AnswerStep, ProviderAccepts, ProviderRefuses, RecordStep,
           RecordAccepted, RecordFailure, WorkerCrash, RecordAcceptedAborts,
           RecordFailureAborts, dispatchVars
<1>8. CASE SweepAfterRestart
    <2>1. /\ UNCHANGED exhaustions
          /\ dispatchReplays' = [b \in Batches |->
                 dispatchReplays[b] \cup
                 (IF dispatchJob[b] = "FAILED" THEN {exhaustions[b]} ELSE {})]
        BY <1>8 DEF SweepAfterRestart
    <2>2. \A b \in Batches : exhaustions[b] \in Nat
        BY <1>b DEF BatchTypes
    <2>. QED BY <2>1, <2>2 DEF ReplaysArePast
<1>9. CASE UNCHANGED vars
    BY <1>v, <1>9 DEF vars, dispatchVars
<1>. QED BY <1>1, <1>2, <1>3, <1>4, <1>5, <1>6, <1>7, <1>8, <1>9 DEF Next

-----------------------------------------------------------------------------
(* The invariants of the rows and the batches, and what follows from them. *)
RowsInv ==
    /\ \A m \in Messages : RowInv(m)
    /\ BatchAgreesWithMessages
    /\ ReplaysArePast

(* Every message row agrees with its evidence and every batch with its     *)
(* messages, whatever the API, the worker and the webhooks interleave.     *)
THEOREM RowsInvariance == Spec => []RowsInv
<1>1. ASSUME Init PROVE RowsInv
    BY <1>1, BatchAssumption DEF Init, RowsInv, RowInv, Founded, Reflects, Proven, None,
           BatchAgreesWithMessages, ReplaysArePast
<1>2. IInv /\ RowsInv /\ [Next]_vars => RowsInv'
    BY RowInvStep, BatchStaysInAgreement, ReplaysStayPast DEF RowsInv
<1>. QED BY <1>1, <1>2, Invariance, PTL DEF Spec

(* applyWebhook, recordAccepted and recordFailure may run in any order and *)
(* after any delay: the status is always the one the evidence calls for.   *)
THEOREM StatusIsTrue == Spec => []StatusReflectsEvidence
<1>1. RowsInv => StatusReflectsEvidence
    BY DEF RowsInv, RowInv, Reflects, StatusReflectsEvidence
<1>. QED BY <1>1, RowsInvariance, PTL

(* updateBatchState, the dispatch job and the host's replay never leave a  *)
(* batch finished that still has a message to send, or open when nothing   *)
(* of it can move.                                                         *)
THEOREM BatchesAgree == Spec => []BatchAgreesWithMessages
<1>1. RowsInv => BatchAgreesWithMessages
    BY DEF RowsInv
<1>. QED BY <1>1, RowsInvariance, PTL

(* recordExhaustedSendJob fails no message for an exhaustion of the        *)
(* dispatch job that came before the host's last recovery of the batch.    *)
THEOREM StaleExhaustionsAreFenced == Spec => StaleExhaustionFenced
<1> DEFINE Step ==
        \A m \in Messages :
            /\ failureCode[m] # "DISPATCH_RETRY_EXHAUSTED"
            /\ failureCode'[m] = "DISPATCH_RETRY_EXHAUSTED"
            => exhaustions[BatchOf[m]] >= dispatchFence[BatchOf[m]]
<1>1. ASSUME IInv, RowsInv, [Next]_vars PROVE Step
    <2> SUFFICES ASSUME NEW m \in Messages,
                        failureCode[m] # "DISPATCH_RETRY_EXHAUSTED",
                        failureCode'[m] = "DISPATCH_RETRY_EXHAUSTED"
                 PROVE  exhaustions[BatchOf[m]] >= dispatchFence[BatchOf[m]]
        OBVIOUS
    <2>1. RowStep(m)
        BY <1>1, StepEffects
    <2>2. Stranded(m)
        BY <2>1 DEF RowStep, Row, Writes, Requested, Requeued, Claimed, GivenUp,
                    Interrupted, Landed, Refused, Reported, None
    <2>3. PICK k \in dispatchReplays[BatchOf[m]] : ~Fenced(BatchOf[m], k)
        BY <2>2 DEF Stranded
    <2>4. BatchOf[m] \in Batches
        BY BatchAssumption
    <2>5. /\ dispatchReplays[BatchOf[m]] \subseteq Nat
          /\ dispatchFence[BatchOf[m]] \in Nat
          /\ exhaustions[BatchOf[m]] \in Nat
        BY <1>1, <2>4 DEF IInv, TypeOK, BatchTypes
    <2>6. k <= exhaustions[BatchOf[m]]
        BY <1>1, <2>4 DEF RowsInv, ReplaysArePast
    <2>. QED BY <2>3, <2>5, <2>6 DEF Fenced
<1>2. IInv /\ RowsInv /\ [Next]_vars => [Step]_vars
    BY <1>1
<1>. QED BY <1>2, Invariance, RowsInvariance, PTL DEF Spec, StaleExhaustionFenced

-----------------------------------------------------------------------------
(* The pipeline implements LogicalSend.                                    *)

(* No attempt was accepted if the one being recorded was refused. *)
LEMMA RefusedIsUnsent ==
    ASSUME IInv, NEW m \in Messages, NEW n \in Attempts, attemptCount[m] = n,
           flight[m][n] \in {"TRANSIENT", "PERMANENT"}
    PROVE  accepted[m] = {}
<1>1. accepted[m] \subseteq Attempts /\ attemptCount[m] \in 0..MaxAttempts
    BY DEF IInv, TypeOK, MessageTypes
<1>2. AttemptInv(m)
    BY DEF IInv, SendInv
<1>3. ASSUME NEW k \in Attempts PROVE k \notin accepted[m]
    <2>1. CASE k = n
        BY <1>2, <2>1 DEF AttemptInv, UnansweredNotAccepted
    <2>2. CASE k > n
        BY <1>2, <2>2 DEF AttemptInv, NotStarted
    <2>3. CASE k < n
        BY <1>2, <2>3 DEF AttemptInv, EarlierRefused, RefusedIsOver
    <2>. QED BY <2>1, <2>2, <2>3, BoundAssumption DEF Attempts
<1>. QED BY <1>1, <1>3

(* The copies LogicalSend counts are none or one. *)
LEMMA CopyCount ==
    ASSUME NoDuplicateSend, NEW m \in Messages
    PROVE  Cardinality(accepted[m]) = IF accepted[m] = {} THEN 0 ELSE 1
<1>1. CASE accepted[m] = {}
    BY <1>1, FS_EmptySet
<1>2. ASSUME NEW n \in accepted[m] PROVE Cardinality(accepted[m]) = 1
    <2>1. accepted[m] = {n}
        BY <1>2 DEF NoDuplicateSend
    <2>. QED BY <2>1, FS_Singleton
<1>. QED BY <1>1, <1>2

(* Told, by the status it is read off. *)
LEMMA ToldValue ==
    ASSUME NEW m
    PROVE  /\ status[m] = "ABSENT" => Told(m) = "NOTHING"
           /\ status[m] \in Active => Told(m) = "PENDING"
           /\ status[m] = "SENT" => Told(m) = "SENT"
           /\ status[m] \in Proven => Told(m) = "PROVEN"
           /\ status[m] = "FAILED" => Told(m) =
                  IF "FAILED" \in applied[m] THEN "REPORTED"
                  ELSE IF failureClass[m] = "AMBIGUOUS" THEN "UNCERTAIN"
                  ELSE "UNSENT"
BY DEF Told, Active, Proven

(* What the steps of LogicalSend allow for one message, with what the host *)
(* is told before and after, and the copies taken before and after.        *)
Promised(t, u, c, d) ==
    \/ u = t /\ d = c
    \/ t \in {"NOTHING", "UNSENT"} /\ u = "PENDING" /\ d = c
    \/ t \in {"PENDING", "UNCERTAIN"} /\ u = t /\ c = 0 /\ d = 1
    \/ t = "PENDING" /\ c = 0 /\ u = "UNSENT" /\ d = c
    \/ t = "PENDING" /\ u = "UNCERTAIN" /\ d = c
    \/ /\ c = 1 /\ d = c
       /\ \/ t = "PENDING" /\ u = "SENT"
          \/ t \in {"PENDING", "SENT", "UNCERTAIN"} /\ u = "REPORTED"
          \/ t \notin {"NOTHING", "UNSENT", "PROVEN"} /\ u = "PROVEN"

(* Every step of the pipeline keeps the promise made of every message: the *)
(* claim, the answer of the provider, its recording, an interruption, an   *)
(* exhausted job, a webhook, a replay and a crash.                         *)
LEMMA PromiseKept ==
    ASSUME IInv, RowsInv, [Next]_vars, NoDuplicateSend, NoDuplicateSend',
           NEW w \in Messages
    PROVE  Promised(Told(w), Told(w)', Cardinality(accepted[w]), Cardinality(accepted'[w]))
<1> DEFINE t == Told(w)
           u == Told(w)'
           c == Cardinality(accepted[w])
           d == Cardinality(accepted'[w])
<1>c. /\ c = IF accepted[w] = {} THEN 0 ELSE 1
      /\ d = IF accepted'[w] = {} THEN 0 ELSE 1
    <2>1. NoDuplicateSend => c = IF accepted[w] = {} THEN 0 ELSE 1
        BY CopyCount
    <2>2. NoDuplicateSend' => d = IF accepted'[w] = {} THEN 0 ELSE 1
        <3>1. CASE accepted'[w] = {}
            BY <3>1, FS_EmptySet
        <3>2. ASSUME NEW n \in accepted'[w], NoDuplicateSend'
              PROVE  d = 1
            <4>1. accepted'[w] = {n}
                BY <3>2 DEF NoDuplicateSend
            <4>. QED BY <4>1, FS_Singleton
        <3>. QED BY <3>1, <3>2
    <2>. QED BY <2>1, <2>2
<1>t. /\ status[w] = "ABSENT" => t = "NOTHING"
      /\ status[w] \in Active => t = "PENDING"
      /\ status[w] = "SENT" => t = "SENT"
      /\ status[w] \in Proven => t = "PROVEN"
      /\ status[w] = "FAILED" => t = IF "FAILED" \in applied[w] THEN "REPORTED"
                                     ELSE IF failureClass[w] = "AMBIGUOUS" THEN "UNCERTAIN"
                                     ELSE "UNSENT"
    BY ToldValue
<1>u. /\ status'[w] \in Active => u = "PENDING"
      /\ status'[w] = "SENT" => u = "SENT"
      /\ status'[w] \in Proven => u = "PROVEN"
      /\ status'[w] = "FAILED" => u = IF "FAILED" \in applied'[w] THEN "REPORTED"
                                      ELSE IF failureClass'[w] = "AMBIGUOUS" THEN "UNCERTAIN"
                                      ELSE "UNSENT"
    BY DEF Told, Active, Proven
<1>s. UNCHANGED Row(w) => u = t
    BY DEF Told, Row
<1> HIDE DEF t, u, c, d
<1> SUFFICES Promised(t, u, c, d)
    BY DEF t, u, c, d
<1>m. /\ MessageTypes
      /\ status[w] \in MessageStatus \cup {"ABSENT"}
      /\ status[w] # "CANCELLED"
      /\ applied[w] \subseteq Evidence
    BY BatchAssumption DEF IInv, TypeOK, MessageTypes, RowsInv, RowInv
<1>r. RowInv(w) /\ Founded(w)
    BY DEF RowsInv, RowInv
<1>e. RowStep(w)
    BY StepEffects
<1>q. status[w] \in {"QUEUED", "ABSENT"} \/ attemptCount[w] = 0 =>
          accepted[w] = {} /\ \A n \in Attempts : flight[w][n] = "IDLE"
    BY WaitingIsUnsent
<1>a. status[w] \in Active => applied[w] = {}
    BY <1>m, <1>r, ActiveHasNoEvidence
<1>g. UncertainIsMarked(w) /\ UnansweredNotAccepted(w)
    BY DEF IInv, SendInv, StatusInv, AttemptInv
<1>1. CASE Accepts(w) /\ UNCHANGED Row(w)
    <2>1. PICK n \in Attempts : flight[w][n] = "CALLING" /\ accepted'[w] = accepted[w] \cup {n}
        BY <1>1 DEF Accepts
    <2>2. n \notin accepted[w]
        BY <1>g, <2>1 DEF UnansweredNotAccepted
    <2>3. accepted[w] = {} /\ accepted'[w] # {}
        BY <2>1, <2>2 DEF NoDuplicateSend
    <2>4. status[w] # "ABSENT" /\ status[w] \notin Proven \cup {"SENT"} /\ applied[w] = {}
        BY <1>q, <1>r, <2>1, <2>3 DEF Founded
    <2>5. status[w] = "FAILED" => failureClass[w] = "AMBIGUOUS"
        BY <1>g, <2>1, <2>4 DEF UncertainIsMarked
    <2>6. t \in {"PENDING", "UNCERTAIN"}
        BY <1>m, <1>t, <2>4, <2>5 DEF MessageStatus
    <2>7. u = t
        BY <1>1, <1>s
    <2>8. c = 0 /\ d = 1
        BY <1>c, <2>3
    <2>. QED BY <2>6, <2>7, <2>8 DEF Promised
(* From here on no copy is taken. *)
<1> SUFFICES ASSUME NoAcceptance(w) PROVE Promised(t, u, c, d)
    BY <1>1, <1>e DEF RowStep
<1>d. d = c
    BY DEF NoAcceptance, c, d
<1>2. CASE UNCHANGED Row(w)
    BY <1>2, <1>d, <1>s DEF Promised
<1>3. CASE Requested(w)
    BY <1>3, <1>d, <1>t, <1>u DEF Promised, Requested, Writes, Active
<1>4. CASE Requeued(w)
    <2>1. t = "UNSENT"
        BY <1>4, <1>q, <1>r, <1>t DEF Requeued, NeverDispatched, RowInv, Founded
    <2>. QED BY <1>4, <1>d, <1>u, <2>1 DEF Promised, Requeued, Writes, Active
<1>5. CASE Claimed(w)
    BY <1>5, <1>d, <1>t, <1>u DEF Promised, Claimed, Writes, Active
<1>6. CASE Stranded(w) \/ GivenUp(w)
    BY <1>6, <1>a, <1>c, <1>d, <1>q, <1>t, <1>u
       DEF Promised, Stranded, GivenUp, Writes, Active
<1>7. CASE Interrupted(w)
    BY <1>7, <1>a, <1>d, <1>t, <1>u DEF Promised, Interrupted, Writes, Active
<1>8. CASE Landed(w)
    <2>1. accepted[w] # {}
        BY <1>r, <1>8 DEF Landed, Founded
    <2>2. status[w] \in MessageStatus \ {"CANCELLED", "QUEUED"}
        BY <1>m, <1>q, <2>1
    <2>3. Reduce(status[w], "SENT") = IF status[w] \in Active THEN "SENT" ELSE status[w]
        BY <2>2, ReduceCases DEF Evidence
    <2>4. CASE status[w] = "SENDING"
        <3>1. status'[w] = "SENT"
            BY <1>8, <2>3, <2>4 DEF Landed, Writes, Active
        <3>. QED BY <1>c, <1>d, <1>t, <1>u, <2>1, <2>4, <3>1 DEF Promised, Active
    <2>5. CASE status[w] # "SENDING"
        <3>1. /\ status'[w] = status[w] /\ applied'[w] = applied[w]
              /\ status[w] = "FAILED" => failureClass'[w] = failureClass[w]
            BY <1>8, <2>2, <2>3, <2>5 DEF Landed, Writes, Active
        <3>2. u = t
            BY <1>t, <1>u, <2>2, <2>5, <3>1 DEF MessageStatus
        <3>. QED BY <1>d, <3>2 DEF Promised
    <2>. QED BY <2>4, <2>5
<1>9. CASE Refused(w)
    <2>1. PICK n \in Attempts :
              /\ flight[w][n] \in FailureClass
              /\ attemptCount[w] = n
              /\ Writes(w, IF Retryable(flight[w][n], n, MaxAttempts) THEN "QUEUED" ELSE "FAILED",
                        flight[w][n], "PROVIDER")
        BY <1>9 DEF Refused
    <2>2. status[w] = "SENDING" /\ t = "PENDING" /\ applied[w] = {}
        BY <1>9, <1>a, <1>t DEF Refused, Active
    <2>3. CASE Retryable(flight[w][n], n, MaxAttempts)
        BY <1>d, <1>u, <2>1, <2>2, <2>3 DEF Promised, Writes, Active
    <2>4. CASE ~Retryable(flight[w][n], n, MaxAttempts)
        <3>1. u = IF flight[w][n] = "AMBIGUOUS" THEN "UNCERTAIN" ELSE "UNSENT"
            BY <1>u, <2>1, <2>2, <2>4 DEF Writes
        <3>2. flight[w][n] # "AMBIGUOUS" => accepted[w] = {}
            BY <2>1, RefusedIsUnsent DEF FailureClass
        <3>. QED BY <1>c, <1>d, <2>2, <3>1, <3>2 DEF Promised
    <2>. QED BY <2>3, <2>4
<1>10. ASSUME NEW e \in WebhookEvidence, Reported(w, e) PROVE Promised(t, u, c, d)
    <2> DEFINE reduced == Reduce(status[w], e)
    <2>1. /\ accepted[w] # {}
          /\ status'[w] = reduced
          /\ applied'[w] = applied[w] \cup {e}
          /\ reduced = "FAILED" /\ e # "FAILED" => failureClass'[w] = failureClass[w]
        BY <1>10 DEF Reported
    <2>2. e \in Evidence /\ status[w] \in MessageStatus \ {"CANCELLED", "QUEUED"}
        BY <1>m, <1>q, <2>1, BatchAssumption
    <2>3. /\ e = "FAILED" => reduced = IF status[w] \in Proven THEN status[w] ELSE "FAILED"
          /\ e = "SENT" => reduced = IF status[w] \in Active THEN "SENT" ELSE status[w]
          /\ e \in Proven => reduced \in Proven
        BY <2>2, ReduceCases
    <2> HIDE DEF reduced
    <2>4. c = 1
        BY <1>c, <2>1
    <2>5. t # "NOTHING" /\ t # "UNSENT"
        BY <1>g, <1>t, <2>1, <2>2 DEF UncertainIsMarked, MessageStatus
    <2>6. CASE e = "FAILED"
        <3>1. CASE status[w] \in Proven
            BY <1>d, <1>t, <1>u, <2>1, <2>3, <2>6, <3>1 DEF Promised
        <3>2. CASE status[w] \notin Proven
            <4>1. u = "REPORTED"
                BY <1>u, <2>1, <2>3, <2>6, <3>2
            <4>2. t \in {"PENDING", "SENT", "UNCERTAIN", "REPORTED"}
                BY <1>t, <2>2, <2>5, <3>2 DEF MessageStatus
            <4>. QED BY <1>d, <2>4, <4>1, <4>2 DEF Promised
        <3>. QED BY <3>1, <3>2
    <2>7. CASE e = "SENT"
        <3>1. CASE status[w] \in Active
            BY <1>d, <1>t, <1>u, <2>1, <2>3, <2>4, <2>7, <3>1 DEF Promised
        <3>2. CASE status[w] \notin Active
            <4>1. status'[w] = status[w]
                BY <2>1, <2>3, <2>7, <3>2
            <4>2. "FAILED" \in applied'[w] <=> "FAILED" \in applied[w]
                BY <2>1, <2>7
            <4>3. status[w] = "FAILED" => failureClass'[w] = failureClass[w]
                BY <2>1, <2>7, <4>1
            <4>4. u = t
                BY <1>t, <1>u, <2>2, <3>2, <4>1, <4>2, <4>3 DEF MessageStatus
            <4>. QED BY <1>d, <4>4 DEF Promised
        <3>. QED BY <3>1, <3>2
    <2>8. CASE e \in Proven
        <3>1. u = "PROVEN"
            BY <1>u, <2>1, <2>3, <2>8
        <3>. QED BY <1>d, <2>4, <2>5, <3>1 DEF Promised
    <2>. QED BY <2>2, <2>6, <2>7, <2>8 DEF Evidence
<1>. QED BY <1>e, <1>2, <1>3, <1>4, <1>5, <1>6, <1>7, <1>8, <1>9, <1>10 DEF RowStep

(* The whole pipeline, with its jobs, attempts, crashes and webhooks, does *)
(* of every message only what LogicalSend promises the host.               *)
THEOREM PipelineImplementsLogicalSend == Spec => ImplementsLogicalSend
<1>1. Init => Logical!Init
    <2> SUFFICES ASSUME Init PROVE Logical!Init
        OBVIOUS
    <2>1. \A m \in Messages : Told(m) = "NOTHING"
        BY ToldValue DEF Init
    <2>2. \A m \in Messages : Cardinality(accepted[m]) = 0
        BY FS_EmptySet DEF Init
    <2>. QED BY <2>1, <2>2 DEF Logical!Init
<1>2. /\ IInv /\ RowsInv /\ [Next]_vars
      /\ NoDuplicateSend /\ NoDuplicateSend'
      => [Logical!Next]_(Logical!vars)
    <2> SUFFICES ASSUME IInv, RowsInv, [Next]_vars, NoDuplicateSend, NoDuplicateSend'
                 PROVE  Logical!Next
        OBVIOUS
    <2> SUFFICES ASSUME NEW m \in Messages
                 PROVE  \/ Logical!Idle(m) \/ Logical!Request(m) \/ Logical!Take(m)
                        \/ Logical!GiveUp(m) \/ Logical!Doubt(m) \/ Logical!Confirm(m)
        BY DEF Logical!Next
    <2>1. Promised(Told(m), Told(m)', Cardinality(accepted[m]), Cardinality(accepted'[m]))
        BY PromiseKept
    <2>. QED BY <2>1 DEF Promised, Logical!Idle, Logical!Request, Logical!Take,
                         Logical!GiveUp, Logical!Doubt, Logical!Confirm,
                         Logical!Silent, Logical!Tell
<1>. QED BY <1>1, <1>2, Invariance, RowsInvariance, AtMostOneAcceptance, PTL
        DEF Spec, ImplementsLogicalSend, Logical!Spec
=============================================================================
