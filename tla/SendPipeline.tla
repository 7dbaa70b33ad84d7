---------------------------- MODULE SendPipeline ----------------------------
(***************************************************************************)
(* The outbound WhatsApp pipeline for invitation batches, with billing off *)
(* (the default): the API that creates, replays and resends batches, the   *)
(* BullMQ dispatch and send jobs, the worker that runs them, the provider, *)
(* and the webhooks that come back.                                        *)
(*                                                                         *)
(* One action is one database transaction, one queue command or one        *)
(* provider answer.  A transaction is atomic because every method locks    *)
(* the message row before it reads the message and recounts the batch      *)
(* under the batch row's lock last (applyWebhook looks its message up      *)
(* before that lock, by a provider id that never changes once it is set);  *)
(* between two actions anything else may run, and any of them may be the   *)
(* last one a worker performs.                                             *)
(***************************************************************************)
EXTENDS MessageDelivery

CONSTANTS
    Messages,         \* logical messages
    Batches,          \* send batches
    BatchOf,          \* the batch each message belongs to
    InitialBatches,   \* batches created by createBatch; the others are resends
    WebhookEvidence,  \* the kinds of evidence the provider may report
    MaxAttempts,      \* META_WHATSAPP_MAX_ATTEMPTS
    DispatchAttempts, \* queue attempts of a dispatch job
    MaxFaults,        \* bound: crashes, stalls, aborted operations, job removals
    MaxRecoveries     \* bound: host replays of an exhausted dispatch, per batch

Members(b) == {m \in Messages : BatchOf[m] = b}

ASSUME BatchAssumption ==
    /\ BatchOf \in [Messages -> Batches]
    /\ InitialBatches \subseteq Batches
    /\ WebhookEvidence \subseteq Evidence
ASSUME BoundAssumption ==
    /\ MaxAttempts \in Nat \ {0}
    /\ DispatchAttempts \in Nat \ {0}
    /\ MaxFaults \in Nat
    /\ MaxRecoveries \in Nat

VARIABLES
    \* messages, message_attempts, webhook_events and send_batches
    status, attemptCount, failureClass, failureCode, providerMessageId,
    predecessor, attempt, seen, applied, batchStatus, dispatchFence,
    \* the provider: attempts it has accepted
    accepted,
    \* the send queue and the worker
    sendJob, sendTries, sendHolder, sendReplay, flight,
    dispatchJob, dispatchTries, dispatchPc, dispatchIds,
    exhaustions, dispatchReplays,
    \* the API request that replays a batch, and the reminder sweep
    hostPc, swept,
    faults

messageVars == <<status, attemptCount, failureClass, failureCode,
                 providerMessageId, predecessor, attempt>>
webhookVars == <<seen, applied>>
batchVars == <<batchStatus, dispatchFence>>
sendQueueVars == <<sendJob, sendTries, sendHolder, sendReplay>>
dispatchVars == <<dispatchJob, dispatchTries, dispatchPc, dispatchIds,
                  exhaustions, dispatchReplays>>
recoveryVars == <<hostPc, swept>>
vars == <<messageVars, webhookVars, batchVars, accepted, sendQueueVars,
          flight, dispatchVars, recoveryVars, faults>>

Attempts == 1..MaxAttempts
None == "NONE"
AttemptStatus == {None, "STARTED", "ACCEPTED", "RETRYABLE_FAILURE",
                  "PERMANENT_FAILURE", "AMBIGUOUS"}
JobState == {"ABSENT", "WAITING", "ACTIVE", "COMPLETED", "FAILED"}

(* A worker performing an attempt is waiting for the provider, holds its   *)
(* acceptance, or holds the failure it has classified.                     *)
Flight == {"IDLE", "CALLING", "OK"} \cup FailureClass

Init ==
    /\ status = [m \in Messages |-> "ABSENT"]
    /\ attemptCount = [m \in Messages |-> 0]
    /\ failureClass = [m \in Messages |-> None]
    /\ failureCode = [m \in Messages |-> None]
    /\ providerMessageId = [m \in Messages |-> 0]
    /\ predecessor = [m \in Messages |-> {}]
    /\ attempt = [m \in Messages |-> [n \in Attempts |-> None]]
    /\ seen = [m \in Messages |-> {}]
    /\ applied = [m \in Messages |-> {}]
    /\ batchStatus = [b \in Batches |-> "ABSENT"]
    /\ dispatchFence = [b \in Batches |-> 0]
    /\ accepted = [m \in Messages |-> {}]
    /\ sendJob = [m \in Messages |-> "ABSENT"]
    /\ sendTries = [m \in Messages |-> 0]
    /\ sendHolder = [m \in Messages |-> 0]
    /\ sendReplay = [m \in Messages |-> FALSE]
    /\ flight = [m \in Messages |-> [n \in Attempts |-> "IDLE"]]
    /\ dispatchJob = [b \in Batches |-> "ABSENT"]
    /\ dispatchTries = [b \in Batches |-> 0]
    /\ dispatchPc = [b \in Batches |-> "IDLE"]
    /\ dispatchIds = [b \in Batches |-> {}]
    /\ exhaustions = [b \in Batches |-> 0]
    /\ dispatchReplays = [b \in Batches |-> {}]
    /\ hostPc = [b \in Batches |-> "IDLE"]
    /\ swept = {}
    /\ faults = 0

(* Something goes wrong: a crash, a stall, or an operation that throws. *)
Fault == faults < MaxFaults /\ faults' = faults + 1

-----------------------------------------------------------------------------
(* Changing a message and recounting its batch.                            *)

(* updateBatchState, at the end of every transaction that moves a message. *)
UpdateBatchState(b) ==
    batchStatus' = [batchStatus EXCEPT ![b] = BatchVerdict(Members(b), status')]

Fail(m, class, code) ==
    /\ status' = [status EXCEPT ![m] = "FAILED"]
    /\ failureClass' = [failureClass EXCEPT ![m] = class]
    /\ failureCode' = [failureCode EXCEPT ![m] = code]
    /\ UpdateBatchState(BatchOf[m])

(* Mutant of FailAsAmbiguous: the interruption is recorded as transient. *)
FailAsTransient(m, code) ==
    /\ attempt' = [attempt EXCEPT ![m][attemptCount[m]] =
                      IF @ = "STARTED" THEN "AMBIGUOUS" ELSE @]
    /\ Fail(m, "TRANSIENT", code)

(* A message still SENDING when its claim is taken again or its job is     *)
(* exhausted: whoever was sending it can no longer be trusted to report.   *)
FailAsAmbiguous(m, code) ==
    /\ attempt' = [attempt EXCEPT ![m][attemptCount[m]] =
                      IF @ = "STARTED" THEN "AMBIGUOUS" ELSE @]
    /\ Fail(m, "AMBIGUOUS", code)

-----------------------------------------------------------------------------
(* API: batches and resends.                                               *)

(* createBatch: the batch and its messages, which are not none, in one     *)
(* transaction.                                                            *)
CreateBatch(b) ==
    /\ b \in InitialBatches
    /\ batchStatus[b] = "ABSENT"
    /\ Members(b) # {}
    /\ batchStatus' = [batchStatus EXCEPT ![b] = "QUEUED"]
    /\ status' = [m \in Messages |->
                     IF BatchOf[m] = b THEN "QUEUED" ELSE status[m]]
    /\ UNCHANGED <<attemptCount, failureClass, failureCode, providerMessageId,
                   predecessor, attempt, webhookVars, dispatchFence, accepted,
                   sendQueueVars, flight, dispatchVars, recoveryVars, faults>>

(* Mutant of Resendable: an uncertain outcome may be resent. *)
ResendableIfFailed(p) ==
    /\ status[p] = "FAILED"
    /\ \A m \in Messages : p \notin predecessor[m]

(* evaluateResend: failed, not ambiguously, and not resent before. *)
Resendable(p) ==
    /\ status[p] = "FAILED"
    /\ failureClass[p] # "AMBIGUOUS"
    /\ \A m \in Messages : p \notin predecessor[m]

(* resend: a new message, alone in a new batch, linked to the failed one. *)
Resend(p, m) ==
    /\ Resendable(p)
    /\ status[m] = "ABSENT"
    /\ BatchOf[m] \notin InitialBatches
    /\ Members(BatchOf[m]) = {m}
    /\ status' = [status EXCEPT ![m] = "QUEUED"]
    /\ predecessor' = [predecessor EXCEPT ![m] = {p}]
    /\ batchStatus' = [batchStatus EXCEPT ![BatchOf[m]] = "QUEUED"]
    /\ UNCHANGED <<attemptCount, failureClass, failureCode, providerMessageId,
                   attempt, webhookVars, dispatchFence, accepted,
                   sendQueueVars, flight, dispatchVars, recoveryVars, faults>>

(* enqueueBatch, for the first time or on a replay with the same key. *)
EnqueueDispatch(b) ==
    /\ batchStatus[b] # "ABSENT"
    /\ dispatchJob[b] = "ABSENT"
    /\ dispatchJob' = [dispatchJob EXCEPT ![b] = "WAITING"]
    /\ UNCHANGED <<messageVars, webhookVars, batchVars, accepted,
                   sendQueueVars, flight, dispatchTries, dispatchPc,
                   dispatchIds, exhaustions, dispatchReplays, recoveryVars, faults>>

NeverDispatched(m) ==
    /\ status[m] = "FAILED"
    /\ attemptCount[m] = 0
    /\ failureCode[m] = "DISPATCH_RETRY_EXHAUSTED"

(* A replay of the batch's request finds its retained dispatch job failed. *)
ReplayFindsFailed(b) ==
    /\ dispatchJob[b] = "FAILED"
    /\ hostPc[b] = "IDLE"
    /\ exhaustions[b] <= MaxRecoveries
    /\ hostPc' = [hostPc EXCEPT ![b] = "FOUND"]
    /\ UNCHANGED <<messageVars, webhookVars, batchVars, accepted,
                   sendQueueVars, flight, dispatchVars, swept, faults>>

(* recoverExhaustedDispatch: before the job is retried, the messages its   *)
(* exhaustion failed are requeued, and bookkeeping of an exhaustion that   *)
(* happened before now is fenced out.                                      *)
RecoverExhaustedDispatch(b) ==
    LET recovered == {m \in Members(b) : NeverDispatched(m)} IN
    /\ hostPc[b] = "FOUND"
    /\ hostPc' = [hostPc EXCEPT ![b] = "RECOVERED"]
    /\ status' = [m \in Messages |->
                     IF m \in recovered THEN "QUEUED" ELSE status[m]]
    /\ failureClass' = [m \in Messages |->
                           IF m \in recovered THEN None ELSE failureClass[m]]
    /\ failureCode' = [m \in Messages |->
                          IF m \in recovered THEN None ELSE failureCode[m]]
    /\ batchStatus' = [batchStatus EXCEPT ![b] =
                          IF recovered # {} \/ @ \in OpenBatch THEN "QUEUED" ELSE @]
    /\ dispatchFence' = [dispatchFence EXCEPT ![b] = exhaustions[b] + 1]
    /\ UNCHANGED <<attemptCount, providerMessageId, predecessor, attempt,
                   webhookVars, accepted, sendQueueVars, flight, dispatchVars,
                   swept, faults>>

(* retryFailedJob: a job that is not failed (any more) is left alone. *)
RetryIfFailed(b) ==
    /\ dispatchJob' = [dispatchJob EXCEPT ![b] = IF @ = "FAILED" THEN "WAITING" ELSE @]
    /\ dispatchTries' = [dispatchTries EXCEPT ![b] =
                            IF dispatchJob[b] = "FAILED" THEN 0 ELSE @]

RetryDispatchJob(b) ==
    /\ hostPc[b] = "RECOVERED"
    /\ hostPc' = [hostPc EXCEPT ![b] = "IDLE"]
    /\ RetryIfFailed(b)
    /\ UNCHANGED <<messageVars, webhookVars, batchVars, accepted,
                   sendQueueVars, flight, dispatchPc, dispatchIds,
                   exhaustions, dispatchReplays, swept, faults>>

(* The request dies, or loses Redis, before it has retried the job. *)
ReplayInterrupted(b) ==
    /\ hostPc[b] # "IDLE"
    /\ hostPc' = [hostPc EXCEPT ![b] = "IDLE"]
    /\ UNCHANGED <<messageVars, webhookVars, batchVars, accepted,
                   sendQueueVars, flight, dispatchVars, swept, faults>>

-----------------------------------------------------------------------------
(* Worker: the periodic sweep for batches that may lack a dispatch job.    *)

(* Mutant of Pending: a batch whose first enqueue was lost is not listed. *)
PendingOnceDispatched(b) ==
    /\ batchStatus[b] \in OpenBatch \ {"QUEUED"}
    /\ \E m \in Members(b) : status[m] = "QUEUED"

(* listPendingBatchIds: open, with a message still queued. *)
Pending(b) ==
    /\ batchStatus[b] \in OpenBatch
    /\ \E m \in Members(b) : status[m] = "QUEUED"

SweepLists ==
    /\ swept = {}
    /\ swept' = {b \in Batches : Pending(b)}
    /\ swept' # {}
    /\ UNCHANGED <<messageVars, webhookVars, batchVars, accepted,
                   sendQueueVars, flight, dispatchVars, hostPc, faults>>

(* dispatchBatch, for a batch listed earlier. *)
SweepDispatches(b) ==
    /\ b \in swept
    /\ swept' = swept \ {b}
    /\ IF dispatchJob[b] = "ABSENT"
       THEN /\ dispatchJob' = [dispatchJob EXCEPT ![b] = "WAITING"]
            /\ UNCHANGED dispatchTries
       ELSE RetryIfFailed(b)
    /\ UNCHANGED <<messageVars, webhookVars, batchVars, accepted,
                   sendQueueVars, flight, dispatchPc, dispatchIds,
                   exhaustions, dispatchReplays, hostPc, faults>>

-----------------------------------------------------------------------------
(* Worker: the dispatch job.                                               *)

(* prepareBatchDispatch; the first one also starts the fence. *)
PrepareBatchDispatch(b) ==
    LET open == batchStatus[b] \in OpenBatch IN
    /\ dispatchJob[b] = "WAITING"
    /\ dispatchJob' = [dispatchJob EXCEPT ![b] = "ACTIVE"]
    /\ dispatchPc' = [dispatchPc EXCEPT ![b] = "PREPARED"]
    /\ dispatchIds' = [dispatchIds EXCEPT ![b] =
                          {m \in Members(b) : open /\ status[m] = "QUEUED"}]
    /\ batchStatus' = [batchStatus EXCEPT ![b] = IF open THEN "DISPATCHING" ELSE @]
    /\ dispatchFence' = [dispatchFence EXCEPT ![b] =
                            IF open /\ @ = 0 THEN exhaustions[b] + 1 ELSE @]
    /\ UNCHANGED <<messageVars, webhookVars, accepted, sendQueueVars, flight,
                   dispatchTries, exhaustions, dispatchReplays, recoveryVars,
                   faults>>

(* enqueueMessages: a job whose deterministic id is retained in the queue, *)
(* in whatever state, swallows the addition.                               *)
EnqueueMessages(b) ==
    /\ dispatchPc[b] = "PREPARED"
    /\ dispatchPc' = [dispatchPc EXCEPT ![b] = "ENQUEUED"]
    /\ sendJob' = [m \in Messages |->
                      IF m \in dispatchIds[b] /\ sendJob[m] = "ABSENT"
                      THEN "WAITING" ELSE sendJob[m]]
    /\ UNCHANGED <<messageVars, webhookVars, batchVars, accepted, sendTries,
                   sendHolder, sendReplay, flight, dispatchJob, dispatchTries,
                   dispatchIds, exhaustions, dispatchReplays, recoveryVars, faults>>

(* Mutant of MarkedDispatched: a batch that already finished is reopened. *)
MarkedDispatchedAlways(st) == "IN_PROGRESS"

MarkedDispatched(st) ==
    IF st \in {"QUEUED", "DISPATCHING"} THEN "IN_PROGRESS" ELSE st

MarkBatchDispatched(b) ==
    /\ dispatchPc[b] = "ENQUEUED"
    /\ batchStatus' = [batchStatus EXCEPT ![b] = MarkedDispatched(@)]
    /\ dispatchPc' = [dispatchPc EXCEPT ![b] = "IDLE"]
    /\ dispatchIds' = [dispatchIds EXCEPT ![b] = {}]
    /\ dispatchJob' = [dispatchJob EXCEPT ![b] = "COMPLETED"]
    /\ UNCHANGED <<messageVars, webhookVars, dispatchFence, accepted,
                   sendQueueVars, flight, dispatchTries, exhaustions,
                   dispatchReplays, recoveryVars, faults>>

(* Any step of the dispatch job throws: BullMQ retries the whole job, and  *)
(* after the last attempt the failure handler has bookkeeping to write.    *)
DispatchJobFails(b) ==
    LET exhausted == dispatchTries[b] + 1 >= DispatchAttempts IN
    /\ dispatchJob[b] \in {"WAITING", "ACTIVE"}
    /\ Fault
    /\ dispatchTries' = [dispatchTries EXCEPT ![b] = @ + 1]
    /\ dispatchJob' = [dispatchJob EXCEPT ![b] =
                          IF exhausted THEN "FAILED" ELSE "WAITING"]
    /\ dispatchPc' = [dispatchPc EXCEPT ![b] = "IDLE"]
    /\ dispatchIds' = [dispatchIds EXCEPT ![b] = {}]
    /\ exhaustions' = [exhaustions EXCEPT ![b] = IF exhausted THEN @ + 1 ELSE @]
    /\ dispatchReplays' = [dispatchReplays EXCEPT ![b] =
                              IF exhausted THEN @ \cup {exhaustions[b] + 1} ELSE @]
    /\ UNCHANGED <<messageVars, webhookVars, batchVars, accepted,
                   sendQueueVars, flight, recoveryVars>>

(* Mutant of Fenced: bookkeeping is never stale. *)
FencedNever(b, k) == FALSE

(* The k-th exhaustion of b's job came before the last recovery. *)
Fenced(b, k) == dispatchFence[b] > k

(* recordExhaustedSendJob for a dispatch job, written by the failure       *)
(* handler or later by the recovery sweep.                                 *)
RecordExhaustedDispatch(b, k) ==
    LET stranded == {m \in Members(b) : status[m] = "QUEUED" /\ attemptCount[m] = 0}
    IN
    /\ k \in dispatchReplays[b]
    /\ dispatchReplays' = [dispatchReplays EXCEPT ![b] = @ \ {k}]
    /\ IF Fenced(b, k)
       THEN UNCHANGED <<status, failureClass, failureCode, batchStatus>>
       ELSE /\ status' = [m \in Messages |->
                             IF m \in stranded THEN "FAILED" ELSE status[m]]
            /\ failureClass' = [m \in Messages |->
                   IF m \in stranded THEN "TRANSIENT" ELSE failureClass[m]]
            /\ failureCode' = [m \in Messages |->
                   IF m \in stranded THEN "DISPATCH_RETRY_EXHAUSTED"
                                     ELSE failureCode[m]]
            /\ UpdateBatchState(b)
    /\ UNCHANGED <<attemptCount, providerMessageId, predecessor, attempt,
                   webhookVars, dispatchFence, accepted, sendQueueVars, flight,
                   dispatchJob, dispatchTries, dispatchPc, dispatchIds,
                   exhaustions, recoveryVars, faults>>

(* The failure handler's write fails, and the recovery sweep passes the    *)
(* exhaustion over: the job is no longer failed, or its id was reconciled  *)
(* after an earlier exhaustion.                                            *)
ExhaustedDispatchUnrecorded(b, k) ==
    /\ k \in dispatchReplays[b]
    /\ dispatchJob[b] # "FAILED" \/ exhaustions[b] > 1
    /\ Fault
    /\ dispatchReplays' = [dispatchReplays EXCEPT ![b] = @ \ {k}]
    /\ UNCHANGED <<messageVars, webhookVars, batchVars, accepted,
                   sendQueueVars, flight, dispatchJob, dispatchTries,
                   dispatchPc, dispatchIds, exhaustions, recoveryVars>>

-----------------------------------------------------------------------------
(* Worker: the send job, up to the call of the provider.                   *)

CompleteSendJob(m) ==
    /\ sendJob' = [sendJob EXCEPT ![m] = "COMPLETED"]
    /\ sendHolder' = [sendHolder EXCEPT ![m] = 0]

(* Mutant of FailSendJob: nobody records that the attempts are used up. *)
FailSendJobUnrecorded(m) ==
    LET exhausted == sendTries[m] + 1 >= MaxAttempts IN
    /\ sendTries' = [sendTries EXCEPT ![m] = @ + 1]
    /\ sendJob' = [sendJob EXCEPT ![m] = IF exhausted THEN "FAILED" ELSE "WAITING"]
    /\ sendHolder' = [sendHolder EXCEPT ![m] = 0]
    /\ UNCHANGED sendReplay

(* The job's processor throws: BullMQ counts the attempt, retries the job  *)
(* or retains it as failed with bookkeeping to write.                      *)
FailSendJob(m) ==
    LET exhausted == sendTries[m] + 1 >= MaxAttempts IN
    /\ sendTries' = [sendTries EXCEPT ![m] = @ + 1]
    /\ sendJob' = [sendJob EXCEPT ![m] = IF exhausted THEN "FAILED" ELSE "WAITING"]
    /\ sendHolder' = [sendHolder EXCEPT ![m] = 0]
    /\ sendReplay' = [sendReplay EXCEPT ![m] = @ \/ exhausted]

(* claimMessage on a message another execution left SENDING. *)
ClaimInterrupted(m) ==
    /\ sendJob[m] = "WAITING"
    /\ status[m] = "SENDING"
    /\ FailAsAmbiguous(m, "WORKER_INTERRUPTED")
    /\ CompleteSendJob(m)
    /\ UNCHANGED <<attemptCount, providerMessageId, predecessor, webhookVars,
                   dispatchFence, accepted, sendTries, sendReplay, flight,
                   dispatchVars, recoveryVars, faults>>

(* claimMessage on a message that is no longer QUEUED. *)
ClaimSkipped(m) ==
    /\ sendJob[m] = "WAITING"
    /\ status[m] \notin Active
    /\ CompleteSendJob(m)
    /\ UNCHANGED <<messageVars, webhookVars, batchVars, accepted, sendTries,
                   sendReplay, flight, dispatchVars, recoveryVars, faults>>

Claimable(m) == status[m] = "QUEUED"

(* claimMessage on a QUEUED message: the next attempt starts, unless the   *)
(* limit is reached.                                                       *)
ClaimQueued(m) ==
    LET n == attemptCount[m] + 1 IN
    /\ sendJob[m] = "WAITING"
    /\ Claimable(m)
    /\ IF n > MaxAttempts
       THEN /\ Fail(m, "TRANSIENT", "RETRY_LIMIT_REACHED")
            /\ CompleteSendJob(m)
            /\ UNCHANGED <<attemptCount, attempt, flight>>
       ELSE /\ status' = [status EXCEPT ![m] = "SENDING"]
            /\ attemptCount' = [attemptCount EXCEPT ![m] = n]
            /\ attempt' = [attempt EXCEPT ![m][n] = "STARTED"]
            /\ failureClass' = [failureClass EXCEPT ![m] = None]
            /\ failureCode' = [failureCode EXCEPT ![m] = None]
            /\ flight' = [flight EXCEPT ![m][n] = "CALLING"]
            /\ sendJob' = [sendJob EXCEPT ![m] = "ACTIVE"]
            /\ sendHolder' = [sendHolder EXCEPT ![m] = n]
            /\ UNCHANGED batchStatus
    /\ UNCHANGED <<providerMessageId, predecessor, webhookVars, dispatchFence,
                   accepted, sendTries, sendReplay, dispatchVars, recoveryVars,
                   faults>>

(* The claim itself throws: the database is away. *)
ClaimFails(m) ==
    /\ sendJob[m] = "WAITING"
    /\ Fault
    /\ FailSendJob(m)
    /\ UNCHANGED <<messageVars, webhookVars, batchVars, accepted, flight,
                   dispatchVars, recoveryVars>>

(* The job's lock expires while its worker is still busy. *)
JobStalls(m) ==
    /\ sendJob[m] = "ACTIVE"
    /\ Fault
    /\ sendJob' = [sendJob EXCEPT ![m] = "WAITING"]
    /\ sendHolder' = [sendHolder EXCEPT ![m] = 0]
    /\ UNCHANGED <<messageVars, webhookVars, batchVars, accepted, sendTries,
                   sendReplay, flight, dispatchVars, recoveryVars>>

(* The worker dies; a request it had sent may still reach the provider. *)
WorkerCrash(m, n) ==
    /\ flight[m][n] # "IDLE"
    /\ Fault
    /\ flight' = [flight EXCEPT ![m][n] = "IDLE"]
    /\ \/ UNCHANGED accepted
       \/ /\ flight[m][n] = "CALLING"
          /\ accepted' = [accepted EXCEPT ![m] = @ \cup {n}]
    /\ IF sendHolder[m] = n
       THEN /\ sendJob' = [sendJob EXCEPT ![m] = "WAITING"]
            /\ sendHolder' = [sendHolder EXCEPT ![m] = 0]
       ELSE UNCHANGED <<sendJob, sendHolder>>
    /\ UNCHANGED <<messageVars, webhookVars, batchVars, sendTries, sendReplay,
                   dispatchVars, recoveryVars>>

-----------------------------------------------------------------------------
(* The provider answers, or the answer is lost.                            *)

(* Meta accepts the message; the worker learns of it unless the response   *)
(* is lost, malformed or late.                                             *)
ProviderAccepts(m, n) ==
    /\ flight[m][n] = "CALLING"
    /\ accepted' = [accepted EXCEPT ![m] = @ \cup {n}]
    /\ \E answer \in {"OK", "AMBIGUOUS"} : flight' = [flight EXCEPT ![m][n] = answer]
    /\ UNCHANGED <<messageVars, webhookVars, batchVars, sendQueueVars,
                   dispatchVars, recoveryVars, faults>>

(* Meta refuses it, in a way the worker can classify, or is not reached. *)
ProviderRefuses(m, n) ==
    /\ flight[m][n] = "CALLING"
    /\ \E class \in FailureClass : flight' = [flight EXCEPT ![m][n] = class]
    /\ UNCHANGED <<messageVars, webhookVars, batchVars, accepted,
                   sendQueueVars, dispatchVars, recoveryVars, faults>>

-----------------------------------------------------------------------------
(* Worker: the send job, once the provider has answered.                   *)

Land(m, n) == flight' = [flight EXCEPT ![m][n] = "IDLE"]

(* An execution that lost its job's lock cannot finish the job. *)
FinishSendJob(m, n) ==
    IF sendHolder[m] = n THEN CompleteSendJob(m) ELSE UNCHANGED <<sendJob, sendHolder>>

RecordAccepted(m, n) ==
    LET reduced == Reduce(status[m], "SENT")
        correlates == /\ providerMessageId[m] \in {0, n}
                      /\ attemptCount[m] = n
        closes == status[m] # "SENDING" \/ attempt[m][n] = "STARTED"
    IN
    /\ flight[m][n] = "OK"
    /\ Land(m, n)
    /\ FinishSendJob(m, n)
    /\ IF correlates
       THEN attempt' = [attempt EXCEPT ![m][n] =
                           IF @ = "STARTED" THEN "ACCEPTED" ELSE @]
       ELSE UNCHANGED attempt
    /\ IF correlates /\ closes
       THEN /\ providerMessageId' = [providerMessageId EXCEPT ![m] = n]
            /\ status' = [status EXCEPT ![m] = reduced]
            /\ failureClass' = [failureClass EXCEPT ![m] =
                                   IF reduced = "FAILED" THEN @ ELSE None]
            /\ failureCode' = [failureCode EXCEPT ![m] =
                                   IF reduced = "FAILED" THEN @ ELSE None]
            /\ UpdateBatchState(BatchOf[m])
       ELSE UNCHANGED <<providerMessageId, status, failureClass, failureCode,
                        batchStatus>>
    /\ UNCHANGED <<attemptCount, predecessor, webhookVars, dispatchFence,
                   accepted, sendTries, sendReplay, dispatchVars, recoveryVars,
                   faults>>

(* The transaction that records the acceptance aborts: the processor's     *)
(* catch takes the exception for an unknown provider outcome.              *)
RecordAcceptedAborts(m, n) ==
    /\ flight[m][n] = "OK"
    /\ Fault
    /\ flight' = [flight EXCEPT ![m][n] = "AMBIGUOUS"]
    /\ UNCHANGED <<messageVars, webhookVars, batchVars, accepted,
                   sendQueueVars, dispatchVars, recoveryVars>>

(* What becomes of the job after recordFailure: done, or thrown back; a    *)
(* rate-limited job goes back without spending an attempt.                 *)
SettleSendJob(m, n, retry) ==
    \/ sendHolder[m] # n /\ UNCHANGED sendQueueVars
    \/ /\ sendHolder[m] = n /\ ~retry
       /\ CompleteSendJob(m)
       /\ UNCHANGED <<sendTries, sendReplay>>
    \/ /\ sendHolder[m] = n /\ retry
       /\ FailSendJob(m)
    \/ /\ sendHolder[m] = n /\ retry
       /\ sendJob' = [sendJob EXCEPT ![m] = "WAITING"]
       /\ sendHolder' = [sendHolder EXCEPT ![m] = 0]
       /\ UNCHANGED <<sendTries, sendReplay>>

RecordFailure(m, n) ==
    LET class == flight[m][n]
        retry == Retryable(class, n, MaxAttempts)
        open == attempt[m][n] = "STARTED"
        activeClaim == status[m] = "SENDING" /\ attemptCount[m] = n
    IN
    /\ class \in FailureClass
    /\ Land(m, n)
    /\ SettleSendJob(m, n, retry)
    /\ IF open
       THEN attempt' = [attempt EXCEPT ![m][n] = AttemptVerdict(class, retry)]
       ELSE UNCHANGED attempt
    /\ IF open /\ activeClaim
       THEN /\ status' = [status EXCEPT ![m] = IF retry THEN "QUEUED" ELSE "FAILED"]
            /\ failureClass' = [failureClass EXCEPT ![m] = class]
            /\ failureCode' = [failureCode EXCEPT ![m] = "PROVIDER"]
            /\ UpdateBatchState(BatchOf[m])
       ELSE UNCHANGED <<status, failureClass, failureCode, batchStatus>>
    /\ UNCHANGED <<attemptCount, providerMessageId, predecessor, webhookVars,
                   dispatchFence, accepted, dispatchVars, recoveryVars, faults>>

(* recordFailure itself throws, and with it the job. *)
RecordFailureAborts(m, n) ==
    /\ flight[m][n] \in FailureClass
    /\ Fault
    /\ Land(m, n)
    /\ IF sendHolder[m] = n THEN FailSendJob(m) ELSE UNCHANGED sendQueueVars
    /\ UNCHANGED <<messageVars, webhookVars, batchVars, accepted,
                   dispatchVars, recoveryVars>>

(* recordExhaustedSendJob for a send job. *)
RecordExhaustedSend(m) ==
    /\ sendReplay[m]
    /\ sendReplay' = [sendReplay EXCEPT ![m] = FALSE]
    /\ \/ /\ status[m] = "SENDING"
          /\ FailAsAmbiguous(m, "JOB_RETRY_EXHAUSTED")
       \/ /\ status[m] = "QUEUED"
          /\ Fail(m, "TRANSIENT", "JOB_RETRY_EXHAUSTED")
          /\ UNCHANGED attempt
       \/ /\ status[m] \notin Active
          /\ UNCHANGED <<status, failureClass, failureCode, attempt, batchStatus>>
    /\ UNCHANGED <<attemptCount, providerMessageId, predecessor, webhookVars,
                   dispatchFence, accepted, sendJob, sendTries, sendHolder,
                   flight, dispatchVars, recoveryVars, faults>>

(* A restarted worker has forgotten which bookkeeping it wrote, and its    *)
(* sweep picks up every job still retained as failed.                      *)
SweepAfterRestart ==
    /\ Fault
    /\ sendReplay' = [m \in Messages |-> sendReplay[m] \/ sendJob[m] = "FAILED"]
    /\ dispatchReplays' = [b \in Batches |->
                              dispatchReplays[b] \cup
                              (IF dispatchJob[b] = "FAILED" THEN {exhaustions[b]} ELSE {})]
    /\ UNCHANGED <<messageVars, webhookVars, batchVars, accepted, sendJob,
                   sendTries, sendHolder, flight, dispatchJob, dispatchTries,
                   dispatchPc, dispatchIds, exhaustions, recoveryVars>>

-----------------------------------------------------------------------------
(* BullMQ drops a completed job a day or a thousand later jobs after it    *)
(* finished; its id is free again.                                         *)

DispatchJobRemoved(b) ==
    /\ dispatchJob[b] = "COMPLETED"
    /\ Fault
    /\ dispatchJob' = [dispatchJob EXCEPT ![b] = "ABSENT"]
    /\ dispatchTries' = [dispatchTries EXCEPT ![b] = 0]
    /\ UNCHANGED <<messageVars, webhookVars, batchVars, accepted,
                   sendQueueVars, flight, dispatchPc, dispatchIds,
                   exhaustions, dispatchReplays, recoveryVars>>

SendJobRemoved(m) ==
    /\ sendJob[m] = "COMPLETED"
    /\ Fault
    /\ sendJob' = [sendJob EXCEPT ![m] = "ABSENT"]
    /\ sendTries' = [sendTries EXCEPT ![m] = 0]
    /\ UNCHANGED <<messageVars, webhookVars, batchVars, accepted, sendHolder,
                   sendReplay, flight, dispatchVars, recoveryVars>>

-----------------------------------------------------------------------------
(* Webhooks.                                                               *)

(* A status report finds its message by provider id, or by the logical id  *)
(* it carries while no provider id is recorded; a reply only by the        *)
(* provider id of the message it answers.                                  *)
Correlates(m, n, e) ==
    \/ providerMessageId[m] = n
    \/ providerMessageId[m] = 0 /\ e # "RESPONDED"

(* The provider id an applied report leaves on its message. *)
CorrelationId(m, n) == IF providerMessageId[m] = 0 THEN n ELSE providerMessageId[m]

(* applyWebhook, once per webhook event. *)
ApplyWebhook(m, e) ==
    \E n \in accepted[m] :
    LET reduced == Reduce(status[m], e) IN
    /\ e \notin seen[m]
    /\ seen' = [seen EXCEPT ![m] = @ \cup {e}]
    /\ IF Correlates(m, n, e)
       THEN /\ applied' = [applied EXCEPT ![m] = @ \cup {e}]
            /\ providerMessageId' = [providerMessageId EXCEPT ![m] = CorrelationId(m, n)]
            /\ status' = [status EXCEPT ![m] = reduced]
            /\ failureClass' = [failureClass EXCEPT ![m] =
                   IF reduced # "FAILED" THEN IF status[m] = "FAILED" THEN None ELSE @
                   ELSE IF e = "FAILED" THEN "PERMANENT" ELSE @]
            /\ failureCode' = [failureCode EXCEPT ![m] =
                   IF reduced # "FAILED" THEN IF status[m] = "FAILED" THEN None ELSE @
                   ELSE IF e = "FAILED" THEN "PROVIDER" ELSE @]
            /\ UpdateBatchState(BatchOf[m])
       ELSE UNCHANGED <<applied, providerMessageId, status, failureClass,
                        failureCode, batchStatus>>
    /\ UNCHANGED <<attemptCount, predecessor, attempt, dispatchFence, accepted,
                   sendQueueVars, flight, dispatchVars, recoveryVars, faults>>

-----------------------------------------------------------------------------
HostStep(b) ==
    \/ CreateBatch(b)
    \/ EnqueueDispatch(b)
    \/ ReplayFindsFailed(b)
    \/ RecoverExhaustedDispatch(b)
    \/ RetryDispatchJob(b)
    \/ ReplayInterrupted(b)

SweepStep == SweepLists \/ \E b \in Batches : SweepDispatches(b)

DispatchStep(b) ==
    \/ PrepareBatchDispatch(b)
    \/ EnqueueMessages(b)
    \/ MarkBatchDispatched(b)

BookkeepingStep(b) ==
    \E k \in dispatchReplays[b] : \/ RecordExhaustedDispatch(b, k)
                                 \/ ExhaustedDispatchUnrecorded(b, k)

RemovalStep == \/ \E b \in Batches : DispatchJobRemoved(b)
               \/ \E m \in Messages : SendJobRemoved(m)

ClaimStep(m) == ClaimInterrupted(m) \/ ClaimSkipped(m) \/ ClaimQueued(m)

AnswerStep(m, n) == ProviderAccepts(m, n) \/ ProviderRefuses(m, n)

RecordStep(m, n) == RecordAccepted(m, n) \/ RecordFailure(m, n)

Next ==
    \/ \E b \in Batches : \/ HostStep(b)
                         \/ DispatchStep(b)
                         \/ DispatchJobFails(b)
                         \/ BookkeepingStep(b)
    \/ SweepStep
    \/ \E p, m \in Messages : Resend(p, m)
    \/ \E m \in Messages : \/ ClaimStep(m)
                          \/ ClaimFails(m)
                          \/ JobStalls(m)
                          \/ RecordExhaustedSend(m)
                          \/ \E e \in WebhookEvidence : ApplyWebhook(m, e)
    \/ \E m \in Messages, n \in Attempts :
          \/ AnswerStep(m, n)
          \/ RecordStep(m, n)
          \/ WorkerCrash(m, n)
          \/ RecordAcceptedAborts(m, n)
          \/ RecordFailureAborts(m, n)
    \/ SweepAfterRestart
    \/ RemovalStep

Spec == Init /\ [][Next]_vars

(* Workers keep taking jobs, a request ends by its timeout at the latest,  *)
(* and the failure handler or the sweep writes the bookkeeping.  Nothing   *)
(* obliges the host to replay a request or the provider to send a webhook. *)
Fairness ==
    /\ WF_vars(SweepLists) /\ \A b \in Batches : WF_vars(SweepDispatches(b))
    /\ \A b \in Batches : WF_vars(DispatchStep(b)) /\ WF_vars(BookkeepingStep(b))
    /\ \A m \in Messages : WF_vars(ClaimStep(m)) /\ WF_vars(RecordExhaustedSend(m))
    /\ \A m \in Messages, n \in Attempts :
          WF_vars(AnswerStep(m, n)) /\ WF_vars(RecordStep(m, n))

FairSpec == Spec /\ Fairness

-----------------------------------------------------------------------------
(* Properties.                                                             *)

(* What the tables' CHECK constraints demand of a message row: a claim has *)
(* an attempt, a sent message a provider id, a failure its reason.         *)
RowConstraints(m) ==
    /\ status[m] = "SENDING" => attemptCount[m] > 0
    /\ status[m] \in Proven \cup {"SENT"} => providerMessageId[m] # 0
    /\ status[m] = "FAILED" => failureClass[m] # None /\ failureCode[m] # None

MessageTypes ==
    /\ status \in [Messages -> MessageStatus \cup {"ABSENT"}]
    /\ attemptCount \in [Messages -> 0..MaxAttempts]
    /\ failureClass \in [Messages -> FailureClass \cup {None}]
    /\ failureCode \in [Messages -> {None, "PROVIDER", "WORKER_INTERRUPTED",
                                    "RETRY_LIMIT_REACHED", "JOB_RETRY_EXHAUSTED",
                                    "DISPATCH_RETRY_EXHAUSTED"}]
    /\ providerMessageId \in [Messages -> 0..MaxAttempts]
    /\ predecessor \in [Messages -> SUBSET Messages]
    /\ attempt \in [Messages -> [Attempts -> AttemptStatus]]
    /\ seen \in [Messages -> SUBSET WebhookEvidence]
    /\ applied \in [Messages -> SUBSET WebhookEvidence]
    /\ accepted \in [Messages -> SUBSET Attempts]

SendTypes ==
    /\ sendJob \in [Messages -> JobState]
    /\ sendTries \in [Messages -> Nat]
    /\ sendHolder \in [Messages -> 0..MaxAttempts]
    /\ sendReplay \in [Messages -> BOOLEAN]
    /\ flight \in [Messages -> [Attempts -> Flight]]

BatchTypes ==
    /\ batchStatus \in [Batches -> TerminalBatch \cup OpenBatch \cup {"ABSENT"}]
    /\ dispatchFence \in [Batches -> Nat]
    /\ dispatchJob \in [Batches -> JobState]
    /\ dispatchTries \in [Batches -> Nat]
    /\ dispatchPc \in [Batches -> {"IDLE", "PREPARED", "ENQUEUED"}]
    /\ dispatchIds \in [Batches -> SUBSET Messages]
    /\ exhaustions \in [Batches -> Nat]
    /\ dispatchReplays \in [Batches -> SUBSET Nat]
    /\ hostPc \in [Batches -> {"IDLE", "FOUND", "RECOVERED"}]
    /\ swept \subseteq Batches
    /\ faults \in 0..MaxFaults

(* Every variable holds a value its column, queue state or process can     *)
(* hold, and no transaction writes a row the database would refuse.        *)
TypeOK ==
    /\ \A m \in Messages : RowConstraints(m)
    /\ MessageTypes
    /\ SendTypes
    /\ BatchTypes

(* The provider accepts a logical message at most once, whatever crashes,  *)
(* stalls, lost answers and retries happen: "a second job skips a message  *)
(* that is no longer QUEUED" and an uncertain outcome is never retried.    *)
NoDuplicateSend ==
    \A m \in Messages : \A i, j \in accepted[m] : i = j

(* An attempt follows only attempts the provider refused for the moment:   *)
(* never one that was accepted, interrupted, refused for good or left open.*)
RetryOnlyAfterRefusal ==
    \A m \in Messages : \A n \in 1..attemptCount[m] :
        n < attemptCount[m] => attempt[m][n] = "RETRYABLE_FAILURE"

(* A message the provider accepted is never presented as a failure that is *)
(* safe to send again, unless the provider itself reported the failure.    *)
AcceptedNeverSafelyFailed ==
    \A m \in Messages :
        accepted[m] # {} /\ status[m] = "FAILED" =>
            failureClass[m] = "AMBIGUOUS" \/ "FAILED" \in applied[m]

(* The status is the one the evidence applied so far calls for, in         *)
(* whatever order it arrived and however it interleaved with the worker:   *)
(* the furthest proof of delivery, else a reported failure, else (only     *)
(* SENT reported) acceptance or a failure recorded locally.                *)
StatusReflectsEvidence ==
    \A m \in Messages :
        LET proof == applied[m] \cap Proven IN
        /\ proof # {} => /\ status[m] \in proof
                         /\ \A e \in proof : Rank[e] <= Rank[status[m]]
        /\ proof = {} => status[m] \notin Proven
        /\ proof = {} /\ "FAILED" \in applied[m] =>
               status[m] = "FAILED" /\ failureClass[m] = "PERMANENT"
        /\ applied[m] = {"SENT"} => status[m] \in {"SENT", "FAILED"}

(* A batch is reported finished exactly when none of its messages can move *)
(* by itself, and then with the verdict its messages deserve, although     *)
(* dispatch, claims, failures and webhooks recount it concurrently.        *)
BatchAgreesWithMessages ==
    \A b \in Batches : batchStatus[b] # "ABSENT" =>
        IF batchStatus[b] \in TerminalBatch
        THEN batchStatus[b] = BatchVerdict(Members(b), status)
        ELSE \E m \in Members(b) : status[m] \in Active

(* "The host's retry fences out a stale replay": a message is failed for   *)
(* an exhausted dispatch only if the dispatch job exhausted its attempts   *)
(* after the last time the host recovered the batch.                       *)
StaleExhaustionFenced ==
    [][\A m \in Messages :
          /\ failureCode[m] # "DISPATCH_RETRY_EXHAUSTED"
          /\ failureCode'[m] = "DISPATCH_RETRY_EXHAUSTED"
          => exhaustions[BatchOf[m]] >= dispatchFence[BatchOf[m]]]_vars

(* Whatever a step links a new message to as its predecessor was not       *)
(* accepted and is not being sent, or the provider reported it as failed.  *)
LinksOnlyUnsent ==
    \A m \in Messages : \A p \in predecessor'[m] \ predecessor[m] :
        \/ /\ accepted[p] = {}
           /\ \A n \in Attempts : flight[p][n] # "CALLING"
        \/ "FAILED" \in applied[p]

(* A resend starts only from a message the provider did not accept, or     *)
(* reported as failed: at that moment no copy of it is on its way.         *)
ResendOnlyOfUnsent == [][LinksOnlyUnsent]_vars

(* A send job that is waiting in the queue brings its message to an end:   *)
(* sent, failed visibly, or cancelled.                                     *)
WaitingJobSettles ==
    \A m \in Messages :
        sendJob[m] = "WAITING" ~> status[m] \notin Active

(* "Without this sweep such a batch stays queued forever": with it, every  *)
(* message of a saved batch gets its send job, whatever crash lost the     *)
(* first enqueue or failed the dispatch job, or is failed visibly.  It     *)
(* holds until the host replays an exhausted dispatch (MaxRecoveries = 0). *)
QueuedMessageGetsJob ==
    \A m \in Messages :
        status[m] = "QUEUED" /\ sendJob[m] = "ABSENT"
            ~> status[m] # "QUEUED" \/ sendJob[m] # "ABSENT"
=============================================================================
