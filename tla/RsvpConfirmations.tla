------------------------- MODULE RsvpConfirmations -------------------------
(***************************************************************************)
(* The confirmation outbox of one invitation.  Every changed answer leaves *)
(* a confirmation row, in the transaction that stores the answer; jobs of  *)
(* the send queue deliver them, one at a time, through the provider.  The  *)
(* rows are numbered by their sequence; only the newest is worth sending.  *)
(*                                                                         *)
(* Claims and answers lock the invitation, outcomes only the confirmation; *)
(* each of these transactions is one action.  Between two of them the      *)
(* worker may die, lose its job's lock or fail to write.                   *)
(***************************************************************************)
EXTENDS MessageDelivery, Sequences, FiniteSets

CONSTANTS
    MaxAnswers,    \* bound: changed answers, hence confirmations
    MaxAttempts,   \* META_WHATSAPP_MAX_ATTEMPTS, of the row and of its job
    MaxFaults      \* bound: crashes, stalls, job removals, aborted writes

ASSUME ConfirmationAssumption ==
    /\ MaxAnswers \in Nat
    /\ MaxAttempts \in Nat \ {0}
    /\ MaxFaults \in Nat

VARIABLES
    confirmation,  \* rsvp_confirmations, by sequence
    job,           \* the confirmation's job in the send queue
    flight,        \* the executions of that job, by attempt
    accepted,      \* <<confirmation, attempt>> the provider accepted, in order
    due,           \* confirmations the API or the sweep is about to enqueue
    faults

vars == <<confirmation, job, flight, accepted, due, faults>>

Confirmations == 1..MaxAnswers
Attempts == 1..MaxAttempts
None == "NONE"

Status == {"ABSENT", "QUEUED", "SENDING", "SENT", "FAILED"}
Code == {None, "SUPERSEDED_BY_NEWER_RESPONSE", "WORKER_INTERRUPTED",
         "RETRY_LIMIT_REACHED", "JOB_RETRY_EXHAUSTED", "PROVIDER"}
JobState == {"ABSENT", "WAITING", "ACTIVE", "COMPLETED", "FAILED"}

(* An execution waits for the provider, or holds its answer. *)
Flight == {"IDLE", "CALLING", "OK"} \cup FailureClass

Row == [status : Status, attempts : 0..MaxAttempts,
        class : FailureClass \cup {None}, code : Code]

(* A job knows its tries, the attempt whose execution holds its lock, and  *)
(* whether the failure handler still owes the row its exhaustion.          *)
JobRow == [state : JobState, tries : 0..MaxAttempts,
           holder : 0..MaxAttempts, owes : BOOLEAN]

Init ==
    /\ confirmation = [c \in Confirmations |->
           [status |-> "ABSENT", attempts |-> 0, class |-> None, code |-> None]]
    /\ job = [c \in Confirmations |->
           [state |-> "ABSENT", tries |-> 0, holder |-> 0, owes |-> FALSE]]
    /\ flight = [c \in Confirmations |-> [n \in Attempts |-> "IDLE"]]
    /\ accepted = <<>>
    /\ due = {}
    /\ faults = 0

Fault == faults < MaxFaults /\ faults' = faults + 1

Exists(c) == confirmation[c].status # "ABSENT"
Unsent(c) == confirmation[c].status = "QUEUED"
Newer(c) == \E d \in Confirmations : d > c /\ Exists(d)
EarlierSending(c) ==
    \E d \in Confirmations : d < c /\ confirmation[d].status = "SENDING"

Failed(row, class, code) ==
    [row EXCEPT !.status = "FAILED", !.class = class, !.code = code]

Superseded(row) == Failed(row, "PERMANENT", "SUPERSEDED_BY_NEWER_RESPONSE")

Fail(c, class, code) ==
    confirmation' = [confirmation EXCEPT ![c] = Failed(@, class, code)]

-----------------------------------------------------------------------------
(* A changed answer, and the enqueueing of its confirmation.               *)

(* Mutant of Replaced: every open confirmation is superseded, sent or not. *)
ReplacedWhileOpen(row) ==
    IF row.status \in Active THEN Superseded(row) ELSE row

(* What a new answer makes of an older confirmation. *)
Replaced(row) == IF row.status = "QUEUED" THEN Superseded(row) ELSE row

(* applyRsvp, applyWhatsappRsvp: the answer's confirmation replaces those  *)
(* not started yet.  The API enqueues the confirmation of its own answers  *)
(* at once; a WhatsApp reply, an API that dies before it does, or one that *)
(* cannot reach Redis, leaves it to the sweep.                             *)
ChangedAnswer(c) ==
    /\ ~Exists(c)
    /\ \A d \in 1..(c - 1) : Exists(d)
    /\ confirmation' = [d \in Confirmations |->
           IF d = c THEN [confirmation[d] EXCEPT !.status = "QUEUED"]
                    ELSE Replaced(confirmation[d])]
    /\ \/ due' = due \cup {c}
       \/ UNCHANGED due
    /\ UNCHANGED <<job, flight, accepted, faults>>

(* Adding a job under a deterministic id: a retained one swallows the      *)
(* addition, and is retried from the start if it is retained as failed.    *)
AddOrRetry(c) ==
    job' = [job EXCEPT ![c] =
               IF @.state \in {"ABSENT", "FAILED"}
               THEN [@ EXCEPT !.state = "WAITING", !.tries = 0] ELSE @]

(* Mutant of Listable: the sweep lists only what was never attempted. *)
ListableIfNew(c) == Unsent(c) /\ confirmation[c].attempts = 0

(* listQueuedRsvpConfirmationIds. *)
Listable(c) == Unsent(c)

(* sweepRsvpConfirmations lists first and acts on the list later. *)
SweepLists ==
    /\ due' = due \cup {c \in Confirmations : Listable(c)}
    /\ due' # due
    /\ UNCHANGED <<confirmation, job, flight, accepted, faults>>

(* enqueueConfirmation after the commit, or the sweep's addBulk: the same  *)
(* commands under the same id.                                             *)
Enqueue(c) ==
    /\ c \in due
    /\ due' = due \ {c}
    /\ AddOrRetry(c)
    /\ UNCHANGED <<confirmation, flight, accepted, faults>>

-----------------------------------------------------------------------------
(* Worker: the job, up to the call of the provider.                        *)

CompleteJob(c) == job' = [job EXCEPT ![c].state = "COMPLETED", ![c].holder = 0]

(* The processor throws: one try less, or the job is retained as failed    *)
(* and its failure handler has the exhaustion to record.                   *)
FailJob(c) ==
    LET exhausted == job[c].tries + 1 >= MaxAttempts IN
    job' = [job EXCEPT ![c] =
        [state  |-> IF exhausted THEN "FAILED" ELSE "WAITING",
         tries  |-> @.tries + 1,
         holder |-> 0,
         owes   |-> @.owes \/ exhausted]]

(* claimRsvpConfirmation, branch by branch, in the order of the code.      *)
ClaimInterrupted(c) ==
    /\ job[c].state = "WAITING"
    /\ confirmation[c].status = "SENDING"
    /\ Fail(c, "AMBIGUOUS", "WORKER_INTERRUPTED")
    /\ CompleteJob(c)
    /\ UNCHANGED <<flight, accepted, due, faults>>

ClaimSkipped(c) ==
    /\ job[c].state = "WAITING"
    /\ confirmation[c].status \notin Active
    /\ CompleteJob(c)
    /\ UNCHANGED <<confirmation, flight, accepted, due, faults>>

ClaimSuperseded(c) ==
    /\ job[c].state = "WAITING"
    /\ Unsent(c)
    /\ Newer(c)
    /\ confirmation' = [confirmation EXCEPT ![c] = Superseded(@)]
    /\ CompleteJob(c)
    /\ UNCHANGED <<flight, accepted, due, faults>>

(* Mutant of MayOvertake: only an unfinished claim of its own defers one. *)
MayOvertakeAlways(c) == TRUE

(* An earlier confirmation that has been started goes first. *)
MayOvertake(c) == ~EarlierSending(c)

(* DEFER is thrown as a retryable error, so waiting costs the job a try.   *)
ClaimDeferred(c) ==
    /\ job[c].state = "WAITING"
    /\ Unsent(c)
    /\ ~Newer(c)
    /\ ~MayOvertake(c)
    /\ FailJob(c)
    /\ UNCHANGED <<confirmation, flight, accepted, due, faults>>

(* RETRY_LIMIT_REACHED cannot happen: a failure that leaves a confirmation *)
(* waiting has left it an attempt.                                         *)
ClaimToSend(c) ==
    LET n == confirmation[c].attempts + 1 IN
    /\ job[c].state = "WAITING"
    /\ Unsent(c)
    /\ ~Newer(c)
    /\ MayOvertake(c)
    /\ n <= MaxAttempts
    /\ confirmation' = [confirmation EXCEPT ![c] =
           [status |-> "SENDING", attempts |-> n, class |-> None, code |-> None]]
    /\ flight' = [flight EXCEPT ![c][n] = "CALLING"]
    /\ job' = [job EXCEPT ![c].state = "ACTIVE", ![c].holder = n]
    /\ UNCHANGED <<accepted, due, faults>>

(* The claim throws: the database is away. *)
ClaimFails(c) ==
    /\ job[c].state = "WAITING"
    /\ Fault
    /\ FailJob(c)
    /\ UNCHANGED <<confirmation, flight, accepted, due>>

(* The job's lock expires: it is taken back to the queue, or, when that    *)
(* has happened before, failed with tries left, which the failure handler  *)
(* ignores.                                                                *)
JobStalls(c) ==
    /\ job[c].state = "ACTIVE"
    /\ Fault
    /\ \E state \in {"WAITING", "FAILED"} :
          job' = [job EXCEPT ![c].state = state, ![c].holder = 0]
    /\ UNCHANGED <<confirmation, flight, accepted, due>>

(* The worker dies; its request may have reached the provider.  The stall  *)
(* check finds the job later.                                              *)
WorkerCrash(c, n) ==
    /\ flight[c][n] # "IDLE"
    /\ Fault
    /\ flight' = [flight EXCEPT ![c][n] = "IDLE"]
    /\ \/ UNCHANGED accepted
       \/ flight[c][n] = "CALLING" /\ accepted' = Append(accepted, <<c, n>>)
    /\ IF job[c].holder = n
       THEN job' = [job EXCEPT ![c].state = "WAITING", ![c].holder = 0]
       ELSE UNCHANGED job
    /\ UNCHANGED <<confirmation, due>>

-----------------------------------------------------------------------------
(* The provider's answer, and what the worker records of it.               *)

ProviderAccepts(c, n) ==
    /\ flight[c][n] = "CALLING"
    /\ accepted' = Append(accepted, <<c, n>>)
    /\ \E answer \in {"OK", "AMBIGUOUS"} :
          flight' = [flight EXCEPT ![c][n] = answer]
    /\ UNCHANGED <<confirmation, job, due, faults>>

ProviderRefuses(c, n) ==
    /\ flight[c][n] = "CALLING"
    /\ \E class \in FailureClass : flight' = [flight EXCEPT ![c][n] = class]
    /\ UNCHANGED <<confirmation, job, accepted, due, faults>>

(* Both outcomes are dropped unless the row still waits for this attempt.  *)
StillClaimed(c, n) ==
    confirmation[c].status = "SENDING" /\ confirmation[c].attempts = n

Land(c, n) == flight' = [flight EXCEPT ![c][n] = "IDLE"]

(* recordRsvpConfirmationAccepted; an execution that has lost its job's    *)
(* lock cannot finish the job.                                             *)
RecordAccepted(c, n) ==
    /\ flight[c][n] = "OK"
    /\ Land(c, n)
    /\ IF StillClaimed(c, n)
       THEN confirmation' = [confirmation EXCEPT ![c] =
                [@ EXCEPT !.status = "SENT", !.class = None, !.code = None]]
       ELSE UNCHANGED confirmation
    /\ IF job[c].holder = n THEN CompleteJob(c) ELSE UNCHANGED job
    /\ UNCHANGED <<accepted, due, faults>>

(* It aborts: the processor takes the exception for an unknown outcome. *)
RecordAcceptedAborts(c, n) ==
    /\ flight[c][n] = "OK"
    /\ Fault
    /\ flight' = [flight EXCEPT ![c][n] = "AMBIGUOUS"]
    /\ UNCHANGED <<confirmation, job, accepted, due>>

(* What becomes of the job: done, thrown back with one try less, or thrown *)
(* back for free because the provider asked for a pause.                   *)
SettleJob(c, n, retry) ==
    \/ job[c].holder # n /\ UNCHANGED job
    \/ job[c].holder = n /\ ~retry /\ CompleteJob(c)
    \/ job[c].holder = n /\ retry /\ FailJob(c)
    \/ /\ job[c].holder = n /\ retry
       /\ job' = [job EXCEPT ![c].state = "WAITING", ![c].holder = 0]

RecordFailure(c, n) ==
    LET class == flight[c][n]
        retry == Retryable(class, n, MaxAttempts)
    IN
    /\ class \in FailureClass
    /\ Land(c, n)
    /\ IF StillClaimed(c, n)
       THEN confirmation' = [confirmation EXCEPT ![c] =
                [@ EXCEPT !.status = IF retry THEN "QUEUED" ELSE "FAILED",
                          !.class = class, !.code = "PROVIDER"]]
       ELSE UNCHANGED confirmation
    /\ SettleJob(c, n, retry)
    /\ UNCHANGED <<accepted, due, faults>>

(* The write throws, and with it the job. *)
RecordFailureAborts(c, n) ==
    /\ flight[c][n] \in FailureClass
    /\ Fault
    /\ Land(c, n)
    /\ IF job[c].holder = n THEN FailJob(c) ELSE UNCHANGED job
    /\ UNCHANGED <<confirmation, accepted, due>>

ExhaustedClass(c) ==
    IF confirmation[c].status = "SENDING" THEN "AMBIGUOUS" ELSE "TRANSIENT"

(* recordExhaustedSendJob, called by the failure handler. *)
RecordExhausted(c) ==
    /\ job[c].owes
    /\ job' = [job EXCEPT ![c].owes = FALSE]
    /\ IF confirmation[c].status \in Active
       THEN Fail(c, ExhaustedClass(c), "JOB_RETRY_EXHAUSTED")
       ELSE UNCHANGED confirmation
    /\ UNCHANGED <<flight, accepted, due, faults>>

(* That write is lost: reconcileExhaustedSends passes confirmations over.  *)
ExhaustionLost(c) ==
    /\ job[c].owes
    /\ Fault
    /\ job' = [job EXCEPT ![c].owes = FALSE]
    /\ UNCHANGED <<confirmation, flight, accepted, due>>

(* The queue drops a completed job; its id is free again. *)
JobRemoved(c) ==
    /\ job[c].state = "COMPLETED"
    /\ Fault
    /\ job' = [job EXCEPT ![c].state = "ABSENT", ![c].tries = 0]
    /\ UNCHANGED <<confirmation, flight, accepted, due>>

-----------------------------------------------------------------------------
Claim(c) ==
    \/ ClaimInterrupted(c)
    \/ ClaimSkipped(c)
    \/ ClaimSuperseded(c)
    \/ ClaimDeferred(c)
    \/ ClaimToSend(c)

Answer(c, n) == ProviderAccepts(c, n) \/ ProviderRefuses(c, n)

Record(c, n) == RecordAccepted(c, n) \/ RecordFailure(c, n)

Next ==
    \/ \E c \in Confirmations :
          \/ ChangedAnswer(c)
          \/ Enqueue(c)
          \/ Claim(c)
          \/ ClaimFails(c)
          \/ JobStalls(c)
          \/ RecordExhausted(c)
          \/ ExhaustionLost(c)
          \/ JobRemoved(c)
    \/ \E c \in Confirmations, n \in Attempts :
          \/ Answer(c, n)
          \/ Record(c, n)
          \/ WorkerCrash(c, n)
          \/ RecordAcceptedAborts(c, n)
          \/ RecordFailureAborts(c, n)
    \/ SweepLists

Spec == Init /\ [][Next]_vars

(* The sweep runs every half minute, workers take jobs, requests time out  *)
(* and their outcome is recorded, the failure handler writes.  Nobody is   *)
(* obliged to answer, and no enqueueing by the API is relied on.           *)
Fairness ==
    /\ WF_vars(SweepLists)
    /\ \A c \in Confirmations :
          /\ WF_vars(Enqueue(c))
          /\ WF_vars(Claim(c))
          /\ WF_vars(RecordExhausted(c))
    /\ \A c \in Confirmations, n \in Attempts :
          WF_vars(Answer(c, n)) /\ WF_vars(Record(c, n))

FairSpec == Spec /\ Fairness

-----------------------------------------------------------------------------
(* Properties.                                                             *)

(* Every variable has its type; a row that is being sent has an attempt,   *)
(* a failed one its reason, and a running job an execution.                *)
TypeOK ==
    /\ confirmation \in [Confirmations -> Row]
    /\ job \in [Confirmations -> JobRow]
    /\ flight \in [Confirmations -> [Attempts -> Flight]]
    /\ accepted \in Seq(Confirmations \X Attempts)
    /\ due \subseteq Confirmations
    /\ faults \in 0..MaxFaults
    /\ \A c \in Confirmations :
          /\ confirmation[c].status = "SENDING" => confirmation[c].attempts > 0
          /\ confirmation[c].status = "FAILED" => confirmation[c].code # None
          /\ job[c].state = "ACTIVE" => job[c].holder # 0

(* Whatever the sweep, the API, retries and crashes do to its job, the     *)
(* provider accepts a confirmation at most once.                           *)
ConfirmedOnce ==
    \A i, j \in 1..Len(accepted) : accepted[i][1] = accepted[j][1] => i = j

(* A confirmation recorded as superseded was never accepted and no request *)
(* for it is under way: the guest is not told of the replaced answer.      *)
SupersededNeverSent ==
    \A c \in Confirmations :
        confirmation[c].code = "SUPERSEDED_BY_NEWER_RESPONSE" =>
            /\ \A i \in 1..Len(accepted) : accepted[i][1] # c
            /\ \A n \in Attempts : flight[c][n] # "CALLING"

(* "An already-started confirmation serializes later sends": the guest     *)
(* gets an older answer's confirmation after a newer one's only if the     *)
(* older was given up as uncertain.                                        *)
OvertakenOnlyIfUncertain ==
    \A i, j \in 1..Len(accepted) :
        i < j /\ accepted[i][1] > accepted[j][1] =>
            LET late == confirmation[accepted[j][1]] IN
            late.status = "FAILED" /\ late.class = "AMBIGUOUS"

(* A confirmation that reached the provider is SENT, still SENDING, or     *)
(* failed as uncertain, never as something that did not happen.            *)
AcceptedNotDenied ==
    \A i \in 1..Len(accepted) :
        LET row == confirmation[accepted[i][1]] IN
        \/ row.status \in {"SENDING", "SENT"}
        \/ row.status = "FAILED" /\ row.class = "AMBIGUOUS"

(* What the outbox tells of a confirmation is true: one it calls           *)
(* superseded stays unsent, and one that was accepted is not denied.       *)
StateOK == TypeOK /\ SupersededNeverSent /\ AcceptedNotDenied

(* The durable outbox retries: a confirmation that is waiting gets sent or *)
(* is failed, or it was started and the only job that could finish it has  *)
(* been retained as failed.                                                *)
WaitingConfirmationSettles ==
    \A c \in Confirmations :
        Unsent(c) ~>
            \/ confirmation[c].status \in {"SENT", "FAILED"}
            \/ confirmation[c].status = "SENDING" /\ job[c].state = "FAILED"
=============================================================================
