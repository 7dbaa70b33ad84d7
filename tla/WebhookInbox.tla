---------------------------- MODULE WebhookInbox ----------------------------
(***************************************************************************)
(* The durable inbox of provider webhooks.  Meta delivers an event until   *)
(* it has an acknowledgement; the API stores it and enqueues a job under a *)
(* deterministic id; workers claim the event and apply it; a sweep of the  *)
(* worker process heals what a spent job or a dead worker left behind.     *)
(*                                                                         *)
(* One action per database transaction or Redis command.  Ages ("older     *)
(* than five minutes") are left open: a step that needs one may happen at  *)
(* any time, early or late.                                                *)
(***************************************************************************)
EXTENDS Naturals, FiniteSets

CONSTANTS
    Events,        \* provider events, by provider_event_id
    Workers,       \* concurrent executions of webhook jobs
    NoWorker,
    MaxAttempts,   \* defaultJobOptions.attempts
    MaxFaults      \* bound: crashes, stalls, failed calls, lost answers

ASSUME InboxAssumption ==
    /\ NoWorker \notin Workers
    /\ MaxAttempts \in Nat \ {0}
    /\ MaxFaults \in Nat

VARIABLES
    status,    \* webhook_events.status
    meta,      \* whether Meta still delivers the event
    api,       \* how far the API's handling of the delivery has come
    job,       \* the event's job in the webhook queue
    worker,    \* what each execution is doing, and for which event
    sweep,     \* how far recoverWebhooks has come with the event
    applied,   \* how often the event's effect was committed
    faults

vars == <<status, meta, api, job, worker, sweep, applied, faults>>

Settled == {"PROCESSED", "IGNORED"}
Status == {"ABSENT", "RECEIVED", "QUEUED", "PROCESSING", "FAILED"} \cup Settled
JobRow == [state : {"ABSENT", "WAITING", "ACTIVE", "COMPLETED", "FAILED"},
           tries : 0..MaxAttempts, holder : Workers \cup {NoWorker}]
Step == {"STARTED", "CLAIMED", "FAILING", "OK", "ERROR"}
Idle == [step |-> "IDLE"]

Init ==
    /\ status = [e \in Events |-> "ABSENT"]
    /\ meta = [e \in Events |-> "DELIVERING"]
    /\ api = [e \in Events |-> "IDLE"]
    /\ job = [e \in Events |->
                 [state |-> "ABSENT", tries |-> 0, holder |-> NoWorker]]
    /\ worker = [w \in Workers |-> Idle]
    /\ sweep = [e \in Events |-> "IDLE"]
    /\ applied = [e \in Events |-> 0]
    /\ faults = 0

Fault == faults < MaxFaults /\ faults' = faults + 1

-----------------------------------------------------------------------------
(* Jobs, by deterministic id.                                              *)

(* Adding a job whose id is retained changes nothing. *)
Added(row) ==
    IF row.state = "ABSENT"
    THEN [state |-> "WAITING", tries |-> 0, holder |-> NoWorker] ELSE row

(* job.retry("failed"): a retained failed job starts over. *)
Retried(row) ==
    IF row.state = "FAILED"
    THEN [state |-> "WAITING", tries |-> 0, holder |-> NoWorker] ELSE row

(* Queue retention forgets a finished job. *)
EvictJob(e) ==
    /\ job[e].state \in {"COMPLETED", "FAILED"}
    /\ job' = [job EXCEPT ![e].state = "ABSENT"]
    /\ UNCHANGED <<status, meta, api, worker, sweep, applied, faults>>

-----------------------------------------------------------------------------
(* The API: WhatsappWebhookService.ingest.                                 *)

(* createMany(skipDuplicates). *)
IngestCreate(e) ==
    /\ meta[e] = "DELIVERING" /\ api[e] = "IDLE"
    /\ status' = [status EXCEPT ![e] = IF @ = "ABSENT" THEN "RECEIVED" ELSE @]
    /\ api' = [api EXCEPT ![e] = "CREATED"]
    /\ UNCHANGED <<meta, job, worker, sweep, applied, faults>>

(* findMany: what a job may still be needed for; a settled event, or one   *)
(* claimed recently, is acknowledged at once.                              *)
IngestFind(e) ==
    /\ api[e] = "CREATED"
    /\ \/ /\ status[e] \notin Settled
          /\ api' = [api EXCEPT ![e] = "FOUND"]
          /\ UNCHANGED meta
       \/ /\ status[e] \in Settled \cup {"PROCESSING"}
          /\ api' = [api EXCEPT ![e] = "IDLE"]
          /\ meta' = [meta EXCEPT ![e] = "ACKED"]
    /\ UNCHANGED <<status, job, worker, sweep, applied, faults>>

(* updateMany to QUEUED, with the predicate repeated; a PROCESSING event   *)
(* only if it is stale.                                                    *)
IngestQueue(e) ==
    /\ api[e] = "FOUND"
    /\ api' = [api EXCEPT ![e] = "ENQUEUE"]
    /\ \/ /\ status[e] \in {"RECEIVED", "FAILED", "PROCESSING"}
          /\ status' = [status EXCEPT ![e] = "QUEUED"]
       \/ /\ status[e] \notin {"RECEIVED", "FAILED"}
          /\ UNCHANGED status
    /\ UNCHANGED <<meta, job, worker, sweep, applied, faults>>

(* enqueueWebhooks, then the acknowledgement, which may be lost. *)
IngestEnqueue(e) ==
    /\ api[e] = "ENQUEUE"
    /\ job' = [job EXCEPT ![e] = Retried(Added(@))]
    /\ api' = [api EXCEPT ![e] = "IDLE"]
    /\ \/ meta' = [meta EXCEPT ![e] = "ACKED"] /\ UNCHANGED faults
       \/ UNCHANGED meta /\ Fault
    /\ UNCHANGED <<status, worker, sweep, applied>>

(* The queue is unreachable, which is answered with 503, or the API dies:  *)
(* Meta delivers again.                                                    *)
IngestAborted(e) ==
    /\ api[e] # "IDLE"
    /\ Fault
    /\ api' = [api EXCEPT ![e] = "IDLE"]
    /\ UNCHANGED <<status, meta, job, worker, sweep, applied>>

-----------------------------------------------------------------------------
(* The worker: createWhatsappWebhookProcessor.                             *)

At(w, step) == worker[w].step = step
Of(w) == worker[w].event
Go(w, step) == worker' = [worker EXCEPT ![w].step = step]

StartJob(w, e) ==
    /\ job[e].state = "WAITING" /\ worker[w] = Idle
    /\ job' = [job EXCEPT ![e] = [state |-> "ACTIVE", holder |-> w,
                                  tries |-> IF @.tries < MaxAttempts
                                            THEN @.tries + 1 ELSE @.tries]]
    /\ worker' = [worker EXCEPT ![w] = [step |-> "STARTED", event |-> e]]
    /\ UNCHANGED <<status, meta, api, sweep, applied, faults>>

ClaimSkips(s) == s \in Settled

(* claimWebhook: even an event another execution holds is claimed. *)
ClaimWebhook(w) ==
    /\ At(w, "STARTED")
    /\ \/ /\ ClaimSkips(status[Of(w)])
          /\ Go(w, "OK")
          /\ UNCHANGED status
       \/ /\ ~ClaimSkips(status[Of(w)])
          /\ status' = [status EXCEPT ![Of(w)] = "PROCESSING"]
          /\ Go(w, "CLAIMED")
    /\ UNCHANGED <<meta, api, job, sweep, applied, faults>>

(* Mutant of StillOpen: the application trusts the claim before it. *)
StillOpenSinceClaim(s) == TRUE

(* The application looks at the event again, under its lock. *)
StillOpen(s) == s \notin Settled

(* applyWebhook: the effect commits with the event's settlement; an event  *)
(* with nothing to apply to is ignored for good.                           *)
ApplyWebhook(w) ==
    /\ At(w, "CLAIMED")
    /\ IF StillOpen(status[Of(w)])
       THEN \/ /\ status' = [status EXCEPT ![Of(w)] = "PROCESSED"]
               /\ applied' = [applied EXCEPT ![Of(w)] = IF @ < 2 THEN @ + 1 ELSE @]
            \/ /\ status' = [status EXCEPT ![Of(w)] = "IGNORED"]
               /\ UNCHANGED applied
       ELSE UNCHANGED <<status, applied>>
    /\ Go(w, "OK")
    /\ UNCHANGED <<meta, api, job, sweep, faults>>

(* A transaction of the execution fails: only a failed application is      *)
(* recorded before the error is thrown.                                    *)
TransactionFails(w) ==
    /\ Fault
    /\ \/ At(w, "STARTED") /\ Go(w, "ERROR")
       \/ At(w, "CLAIMED") /\ Go(w, "FAILING")
       \/ At(w, "FAILING") /\ Go(w, "ERROR")
    /\ UNCHANGED <<status, meta, api, job, sweep, applied>>

(* recordWebhookFailure marks only an event still in processing. *)
FailureNoted(s) == IF s = "PROCESSING" THEN "FAILED" ELSE s

RecordWebhookFailure(w) ==
    /\ At(w, "FAILING")
    /\ status' = [status EXCEPT ![Of(w)] = FailureNoted(@)]
    /\ Go(w, "ERROR")
    /\ UNCHANGED <<meta, api, job, sweep, applied, faults>>

(* The execution's result reaches the queue, if it still holds the job. *)
FinishJob(w) ==
    /\ worker[w] # Idle /\ worker[w].step \in {"OK", "ERROR"}
    /\ worker' = [worker EXCEPT ![w] = Idle]
    /\ IF job[Of(w)].holder = w
       THEN job' = [job EXCEPT ![Of(w)].holder = NoWorker,
                               ![Of(w)].state =
                IF At(w, "OK") THEN "COMPLETED"
                ELSE IF job[Of(w)].tries < MaxAttempts THEN "WAITING" ELSE "FAILED"]
       ELSE UNCHANGED job
    /\ UNCHANGED <<status, meta, api, sweep, applied, faults>>

(* The worker process dies; its job stays active until found stalled. *)
Crash(w) ==
    /\ worker[w] # Idle
    /\ Fault
    /\ worker' = [worker EXCEPT ![w] = Idle]
    /\ job' = [e \in Events |->
                  IF job[e].holder = w THEN [job[e] EXCEPT !.holder = NoWorker]
                                       ELSE job[e]]
    /\ UNCHANGED <<status, meta, api, sweep, applied>>

(* The lock of a running execution expires; the execution goes on. *)
LoseLock(e) ==
    /\ job[e].state = "ACTIVE" /\ job[e].holder # NoWorker
    /\ Fault
    /\ job' = [job EXCEPT ![e].holder = NoWorker]
    /\ UNCHANGED <<status, meta, api, worker, sweep, applied>>

(* The stalled check returns an unlocked job to the queue, or fails one    *)
(* that stalls repeatedly.                                                 *)
CheckStalled(e) ==
    /\ job[e].state = "ACTIVE" /\ job[e].holder = NoWorker
    /\ \E s \in {"WAITING", "FAILED"} : job' = [job EXCEPT ![e].state = s]
    /\ UNCHANGED <<status, meta, api, worker, sweep, applied, faults>>

-----------------------------------------------------------------------------
(* The recovery sweep: recoverWebhooks.                                    *)

(* Mutant of Recoverable: a recorded failure is left to the queue's tries. *)
RecoverableUnlessFailed(s) == s \in {"RECEIVED", "QUEUED", "PROCESSING"}

Recoverable(s) == s \in {"RECEIVED", "QUEUED", "FAILED", "PROCESSING"}

(* requeueStalledWebhooks; an event a live job claimed since the listing   *)
(* keeps its status, and is returned all the same.                         *)
SweepMark(e) ==
    /\ sweep[e] = "IDLE" /\ Recoverable(status[e])
    /\ sweep' = [sweep EXCEPT ![e] = "ADD"]
    /\ \/ status' = [status EXCEPT ![e] = "QUEUED"]
       \/ status[e] = "PROCESSING" /\ UNCHANGED status
    /\ UNCHANGED <<meta, api, job, worker, applied, faults>>

SweepAdd(e) ==
    /\ sweep[e] = "ADD"
    /\ job' = [job EXCEPT ![e] = Added(@)]
    /\ sweep' = [sweep EXCEPT ![e] = "CHECK"]
    /\ UNCHANGED <<status, meta, api, worker, applied, faults>>

(* A retained failed job is retried, a retained completed one is removed   *)
(* so that it cannot swallow the addition that follows.                    *)
SweepCheck(e) ==
    /\ sweep[e] = "CHECK"
    /\ \/ /\ job[e].state = "COMPLETED"
          /\ job' = [job EXCEPT ![e].state = "ABSENT"]
          /\ sweep' = [sweep EXCEPT ![e] = "READD"]
       \/ /\ job[e].state # "COMPLETED"
          /\ job' = [job EXCEPT ![e] = Retried(@)]
          /\ sweep' = [sweep EXCEPT ![e] = "IDLE"]
    /\ UNCHANGED <<status, meta, api, worker, applied, faults>>

SweepReAdd(e) ==
    /\ sweep[e] = "READD"
    /\ job' = [job EXCEPT ![e] = Added(@)]
    /\ sweep' = [sweep EXCEPT ![e] = "IDLE"]
    /\ UNCHANGED <<status, meta, api, worker, applied, faults>>

(* The sweeping process dies, or loses Redis. *)
SweepAborted(e) ==
    /\ sweep[e] # "IDLE"
    /\ Fault
    /\ sweep' = [sweep EXCEPT ![e] = "IDLE"]
    /\ UNCHANGED <<status, meta, api, job, worker, applied>>

-----------------------------------------------------------------------------
EventStep(e) ==
    \/ IngestCreate(e) \/ IngestFind(e) \/ IngestQueue(e) \/ IngestEnqueue(e)
    \/ IngestAborted(e) \/ EvictJob(e) \/ LoseLock(e) \/ CheckStalled(e)
    \/ SweepMark(e) \/ SweepAdd(e) \/ SweepCheck(e) \/ SweepReAdd(e)
    \/ SweepAborted(e)

WorkerStep(w) ==
    \/ \E e \in Events : StartJob(w, e)
    \/ ClaimWebhook(w) \/ ApplyWebhook(w) \/ TransactionFails(w)
    \/ RecordWebhookFailure(w) \/ FinishJob(w) \/ Crash(w)

Next == (\E e \in Events : EventStep(e)) \/ (\E w \in Workers : WorkerStep(w))

Spec == Init /\ [][Next]_vars

(* Meta keeps delivering, the API finishes what it started, the queue runs *)
(* its jobs and finds stalled ones, workers go on, the sweep comes round.  *)
Fairness ==
    /\ \A e \in Events :
          /\ WF_vars(IngestCreate(e)) /\ WF_vars(IngestFind(e))
          /\ WF_vars(IngestQueue(e)) /\ WF_vars(IngestEnqueue(e))
          /\ WF_vars(\E w \in Workers : StartJob(w, e))
          /\ WF_vars(CheckStalled(e))
          /\ WF_vars(SweepMark(e)) /\ WF_vars(SweepAdd(e))
          /\ WF_vars(SweepCheck(e)) /\ WF_vars(SweepReAdd(e))
    /\ \A w \in Workers :
          WF_vars(ClaimWebhook(w) \/ ApplyWebhook(w)
                     \/ RecordWebhookFailure(w) \/ FinishJob(w))

FairSpec == Spec /\ Fairness

-----------------------------------------------------------------------------
(* Every variable has its type. *)
TypeOK ==
    /\ status \in [Events -> Status]
    /\ meta \in [Events -> {"DELIVERING", "ACKED"}]
    /\ api \in [Events -> {"IDLE", "CREATED", "FOUND", "ENQUEUE"}]
    /\ job \in [Events -> JobRow]
    /\ worker \in [Workers -> {Idle} \cup [step : Step, event : Events]]
    /\ sweep \in [Events -> {"IDLE", "ADD", "CHECK", "READD"}]
    /\ applied \in [Events -> 0..2]
    /\ faults \in 0..MaxFaults

(* However often an event is delivered, claimed and retried, by executions *)
(* that overlap when a job stalls, its effect is committed at most once,   *)
(* and only by the application that settles it; no late failure record,    *)
(* redelivery or sweep reopens the event afterwards.                       *)
AppliedOnce ==
    \A e \in Events : applied[e] = (IF status[e] = "PROCESSED" THEN 1 ELSE 0)

(* A job is completed only when its event is settled, so a completed job   *)
(* that the queue retains never stands in the way of unfinished work.      *)
CompletedIsSettled ==
    \A e \in Events : job[e].state = "COMPLETED" => status[e] \in Settled

(* The queue and the table agree: typed rows, one application of a         *)
(* processed event and none of another, and no completed job in the way of *)
(* an unsettled one.                                                       *)
StateOK == TypeOK /\ AppliedOnce /\ CompletedIsSettled

(* Every event Meta delivers is settled, whatever outage spends its job:   *)
(* the sweep makes up for the deliveries Meta no longer repeats.           *)
EventSettles ==
    \A e \in Events : <>(status[e] \in Settled)
=============================================================================
