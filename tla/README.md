# Verification of the invitation platform

TLA+ specifications of the event-invitation platform in this repository,
checked with TLC and, where a theorem is worth it, proved with TLAPS. The
modules are translated from the source; `PROJECT.json` names, for every
definition, the lines it stands for.

## The system

A host prepares invitations in the web application, the API commits them to
PostgreSQL and enqueues BullMQ jobs in Redis, a worker runs the jobs against
Meta's WhatsApp API, and webhooks bring delivery reports and guest replies back.

| Component | State it keeps | Operations | Interacts through | Correct when |
| --- | --- | --- | --- | --- |
| invitation batches (`apps/api/src/messaging`) | `send_batches`, `messages` | createBatch, resend, replay of a request, recovery of an exhausted dispatch | dispatch jobs, the rows the worker moves | a request that is replayed creates nothing new; a resend never duplicates a message that may have been sent |
| send worker (`apps/worker/src/whatsapp-send-processor.ts`, `prisma-messaging-repository.ts`) | `message_attempts`, message status, job state | dispatch, claim, accepted, failed, exhausted, recount of the batch | provider, queue, webhooks | a logical message is accepted at most once; uncertain outcomes are never retried; every message ends visibly |
| webhook inbox (`whatsapp-webhook.*`) | `webhook_events` | receive, claim, apply, fail, requeue | message rows, RSVP | evidence in any order folds into the same status; no reply is lost |
| RSVP responses and confirmations (`rsvp.service.ts`, `applyWhatsappRsvp`) | `rsvps`, history, submissions, `rsvp_confirmations` | web, host and WhatsApp answers; confirmation jobs | send queue, check-in | the newest answer wins; one confirmation per answer, never two sends of it |
| credit ledger (`credit-ledger*.ts`) | accounts, ledger entries, reservations | reserve, charge, refund, settle, purchase | the transactions of the send worker | balance covers what is reserved; one charge per accepted message |
| reminders | rules, runs, recipient states | sweep, scheduled run, manual run, claim-time check | send pipeline, RSVP, credits | cooldown and maximum hold across all runs |
| check-in | passes, `check_in_states`, records | issue, resolve, check in | RSVP, devices that retry | every arrival counted once, never beyond the confirmed party |
| imports | job and rows with a revision | upload, parse, map, correct, validate, confirm, cancel | their queue, invitations created by hand | a stale result is never stored; what is imported is what the host saw |
| exports | job rows, artifacts | create, claim, complete, fail | their queue, object storage | each job ends |
| team and permissions | invitations, memberships | invite, resend, revoke, accept | every permission check | a revoked token grants nothing; ownership is never replaced |
| templates, snapshots and assets (`preparation`, `assets`) | image rows and files, template versions, snapshots | upload, archive, create, edit, approve, snapshot | batches, resends, edits by hosts | a launch sends exactly what was confirmed and is current; a snapshot keeps its image |
| sign-in codes | `otp_delivery_attempts` | claim, complete | provider, redelivered hooks | a code is sent at most once per hook |
| events, invitation groups, reports, notifications, web application, adapters, observability | – | – | – | see `PROJECT.json` for what of them is modelled, and why the rest is outside |

What is hard everywhere is the same: the database, the queue and the provider
are three systems without a common transaction, jobs are delivered at least
once, a worker may die or lose its job's lock between any two steps and keep
running, retained job ids swallow additions, and the provider's answer and its
webhooks race each other. `PROJECT.json` lists the hazards with their lines.

## Modules

| Module | What it is |
| --- | --- |
| `MessageDelivery` | Pure rules: `Reduce` (reduceMessageDeliveryStatus), `Retryable` (classifyMessagingRetry), `AttemptVerdict`, `BatchVerdict`. |
| `SendPipeline` | The state machine of the pipeline: API, dispatch and send jobs, worker, provider, webhooks. |
| `LogicalSend`, `SendRefinement` | What the pipeline promises of a message, and the mapping under which `SendPipeline` implements it. |
| `SendPipelineProofs` | The inductive invariant of the pipeline, its theorems and the proof of the refinement. |
| `CreditLedger` | The credits of one event, statement by statement where transactions can interleave. |
| `RsvpConfirmations`, `RsvpConfirmationsProofs` | The outbox of confirmations of one guest's answers; its invariant and theorems. |
| `WebhookInbox`, `WebhookInboxProofs` | Receiving, queueing, applying and recovering provider events; its invariant and theorems. |
| `RsvpResponses` | The answer of one invitation, by web page, host and WhatsApp. |
| `CheckIn`, `CheckInProofs` | Event-day arrivals of one party and its entry pass; its invariant and theorems. |
| `Reminders`, `RemindersProofs` | Reminders for one guest, by rule and by hand; its invariant and theorems. |
| `Imports` | Guest-list imports from upload to confirmation. |
| `TeamAccess` | Memberships, team invitations and permissions of one event. |
| `Exports` | Guest-list exports from the request to the published file. |
| `Preparation` | Images, template versions and snapshots, and the launches and resends made of them. |
| `LaunchProofs` | What a launch charges and what it sends: the invariants and theorems of `CreditLedger` and `Preparation`. |
| `GuestListProofs` | What is written to the guest list: the invariants and theorems of `RsvpResponses` and `Imports`. |
| `MemberProofs` | What members may do and ask for: the invariants and theorems of `TeamAccess` and `Exports`. |
| `MC...` | Instances of each for TLC. |

`SendPipeline`, `CreditLedger` and `RsvpConfirmations` share `MessageDelivery`.
The first two meet in the worker's transactions: `SendPipeline` has billing off,
every fault of the queue and every retry; `CreditLedger` has billing on and one
attempt per message, since a retry touches no credit, and looks inside the
transactions instead. `WebhookInbox` is how an event reaches the transaction
whose effect is `ApplyWebhook` in `SendPipeline` and `ApplyReply` in
`RsvpResponses`; `RsvpResponses` decides the answers that `RsvpConfirmations`
takes as its input `ChangedAnswer`, that `Reminders` sees as `answered` and
`CheckIn` as `expected`. `Preparation` decides which messages `CreateBatch` and
`Resend` of `SendPipeline` create. They are separate modules because they share one row
each and no further state, and a composition would multiply their interleavings.

### The send pipeline

`SendPipeline` describes initial-invitation batches with billing off (the
default). One action is one database transaction, one queue command or one
answer of the provider:

- **API** – `CreateBatch`, `Resend`, `EnqueueDispatch` and the three steps of a
  replay, `ReplayFindsFailed`, `RecoverExhaustedDispatch`, `RetryDispatchJob`
  (`ReplayInterrupted` anywhere between). The API commits first and enqueues
  afterwards, so a batch may exist without a job.
- **Dispatch job** – `PrepareBatchDispatch`, `EnqueueMessages`,
  `MarkBatchDispatched`; `DispatchJobFails` at any point. `SweepLists` and
  `SweepDispatches` are the periodic sweep, which reads the pending batches
  and acts on the list later.
- **Send job** – `ClaimQueued`, `ClaimInterrupted`, `ClaimSkipped` are the
  branches of claimMessage; `ProviderAccepts` and `ProviderRefuses` choose the
  provider's answer and what the worker learns of it; `RecordAccepted` and
  `RecordFailure` record it. `flight[m][n]` is the execution of attempt `n`:
  it lives on when the job's lock has expired (`JobStalls`), so an old and a
  new execution of one job run side by side, and `sendHolder` says which of
  them may still finish the job.
- **Faults** – `WorkerCrash` (with a request under way the provider may accept
  or never see), `JobStalls`, `ClaimFails`, `RecordAcceptedAborts`,
  `RecordFailureAborts`, `DispatchJobFails`, lost exhaustion bookkeeping, a
  restarted worker that replays all of it (`SweepAfterRestart`), and removal of
  completed jobs by the queue's retention.
- **Webhooks** – `ApplyWebhook` with any evidence about an accepted attempt,
  once per kind, in any order, also before the worker recorded the acceptance.

Abstractions: timestamps appear only where code compares them (the dispatch
fence, counted in exhaustions of the dispatch job); provider message ids are
attempt numbers; failure reasons are the codes a property tells apart; audit
rows, notifications, media, templates and message text are left out; the
check of reminder eligibility at the claim is in `Reminders`. Jobs retained as failed are not
evicted (a week or five thousand failures). A replayed request is only
interesting when the dispatch job failed; the other cases add nothing to
`EnqueueDispatch`.

### The promise of the pipeline

`LogicalSend` says what a host may rely on for each message, without batches,
jobs, attempts or workers: the provider takes at most one copy (`Take`), the host
is told "not sent" only if none was taken and none will be (`GiveUp`), is told of
doubt where it cannot be known (`Doubt`), and later words come from the provider
and only move forward (`Confirm`). `SendRefinement` maps the message row onto it:
`told` is the status, with a failure split by its class and by whether the
provider reported it, and `copies` counts the attempts the provider accepted.
`ImplementsLogicalSend` is `Logical!Spec`: every step of the pipeline is a step
of the promise or a stutter.

### The credit ledger

`CreditLedger` describes one event that has an account. PostgreSQL runs the
transactions under READ COMMITTED, so a statement sees what is committed when it
starts, and only row locks keep transactions apart:

- **Under the account's lock from the first statement** – `Launch`
  (reserveForSendBatch, reserveSendBatch), `RecordPurchase` and
  `RecordDeduction`; one step each. A launch the service or the guard refuses
  leaves nothing behind, so it is no step. `ServiceAdmits` is the service's own
  computation, which leaves out expired reservations, `DatabaseAdmits` the
  trigger's, which does not.
- **A transaction that moves a message** – recordAccepted, recordFailure,
  applyWebhook and the interrupted claim each take the message's row lock and
  then several steps: `Begin` reads the reservation without a lock and decides,
  `Hold` writes back the row it has read, less one unit, under the row lock,
  the state check and the reservation guard, `Enter` inserts the entries under
  the account lock and the balance guard, `Commit` recounts the batch, settles
  it and makes everything visible. `txn[m]` is what the transaction holding the
  row of `m` has decided; `LocksReservation` and `LocksAccount` say which other
  locks it has by then. Any of them may `Abort`: a refusal by a guard or check
  (`RollBack` in `Hold` and `Enter`), a deadlock, a dead worker.
- **Worker and provider** – `Claim`, `ProviderAccepts`, `ProviderRefuses`,
  `FailureTooLate`. The worker may never learn of an acceptance, or die
  knowing it; then the interrupted claim fails the message and the webhooks
  that arrive later move it on.
- **Dispatch** – `DispatchExhausted` fails the unclaimed messages and settles
  the batch, `RecoverExhaustedDispatch` queues them again.
- **Time** – `ReservationExpires`: a day passes; no code writes EXPIRED.

Abstractions: every message costs one unit, as the code creates it; ledger
entries of a message are the sets `charged` and `refunded`, since their unique
reference admits one of each; the batch lock and the settlement, the last
statements of every such transaction, are merged with its commit; lock orders
that end in a deadlock end in an `Abort`. An event without an account is not
modelled: nothing is reserved or charged for it.

### RSVP confirmations

A changed answer inserts a confirmation row in the transaction that stores the
answer, and supersedes those still `QUEUED` (`Replaced`, in `ChangedAnswer`);
both ways of answering do. The API enqueues a job per row afterwards
(`Enqueue`), and the sweep lists the waiting rows and does the same later
(`SweepLists`, a list it acts on one by one). A job's claim has the branches of
claimRsvpConfirmation: `ClaimInterrupted` (an earlier attempt was started, so its
outcome is unknown), `ClaimSkipped`, `ClaimSuperseded` (a newer row exists),
`ClaimDeferred` (an older one is `SENDING`; the job comes back and the deferral
uses up one of its tries) and `ClaimToSend`; its sixth, a spent row that is
still waiting, cannot be reached while the attempt limit stays the same. Outcomes lock the
confirmation only (`RecordAccepted`, `RecordFailure`, both guarded by
`StillClaimed`), and may abort; `WorkerCrash` and `JobStalls` leave an execution
behind that may still be waiting for the provider; `RecordExhausted` is the
failure handler, which `ExhaustionLost` may never run.

### Webhook inbox

An event passes `IngestCreate`, `IngestFind`, `IngestQueue` and `IngestEnqueue`,
each a statement of its own, and Meta repeats the delivery until it is
acknowledged (`IngestAborted` at any point). A worker starts its job, claims,
applies and finishes it, or notes the failure (`StartJob`, `ClaimWebhook`,
`ApplyWebhook`, `RecordWebhookFailure`, `FinishJob`); a transaction may fail
(`TransactionFails`), the process die (`Crash`), the job's lock expire under a
running execution (`LoseLock`, then `CheckStalled`). The recovery sweep is
`SweepMark`, `SweepAdd`, `SweepCheck` and `SweepReAdd`, interruptible by
`SweepAborted`. Ages are left open: whatever the code does after five minutes may
happen at any time. The window of 72 hours after which the recovery gives an
event up is not modelled.

### RSVP responses

The guest's page looks its link up (`OpenRequest`) before the transaction that
locks the invitation, validates the link again and writes (`SubmitGuest`); hosts
write by `SubmitHost`; both replay a submission key they know (`Replay`) and a
response may be lost (`LoseResponse`), after which the page sends the same key
again. A WhatsApp tap is stamped in whole seconds (`TapReply`), stored with an
ingestion sequence in any order (`StoreReply`) and applied in any order
(`ApplyReply`), where `OlderThanStored` decides. Around them hosts rotate and
revoke the link, read and later commit an edit of the party (`ReadForEdit`,
`CommitEdit` under the deferred aggregate trigger), cancel, and archive or
recover the event. A confirmation of the answer is the input of
`RsvpConfirmations`.

### Check-in

Every operation is a SERIALIZABLE transaction of two actions: its beginning
takes the snapshot, its end decides and commits, unless a row it locks or writes
was written since (`PartyLocked`, `StateWritable`, `KeyUnique`), when it is
aborted and tried again until its tries are spent (`AbortCheckIn`, `Contended`).
`EndCheckIn` is recordCheckIn in the order of the code: replay of a key, reuse of
a key for something else, the record under the same key, eligibility, a full
party, capacity, and the arrival. `BeginPass` and `EndPass` issue the entry pass.
The answer, a cancellation and the event's status change in between. Passes,
devices and codes are numbers; the audit record of a duplicate is left out.

### Reminders

One guest, one rule, the hosts' requests. `Sweep` lists due rules and pending
batches and enqueues them; a run of the rule reads the clock (`StartRun`), waits
for the event's lock and is `RunReplayed`, `RunSkipped`, `RunQueues` or
`RunExcludes`; then it dispatches. Its job may be executed by two workers, and
`WorkerCrash` puts it back. A host reviews (`Review`, which makes the token),
then `SendReplayed`, `SendStale`, `SendRefused` or `Send`, and the enqueueing
that may fail (`EnqueueFails`), after which the same key is used again. The claim
of a reminder is `ClaimAtLimit`, `ClaimCancels` or `ClaimSends`; the provider and
the record of its answer are one guest's part of `SendPipeline`. The conditions
on a guest besides the answer are one flag, `remindable`, that comes and goes.

### Imports

The API's operations and the worker's transactions on the job row, each guarded
by the status and revision the code compares: `Upload`, `MapColumns`,
`CorrectRow`, `Cancel`; `TakeParse`, `TakeValidation`, `ReadRows`,
`CompleteParse`, `CompleteValidation`, `FailForGood`. Enqueueing follows the
commit and may be refused (`MarkQueueFailure`), an execution may be lost and its
job run again (`ExecutionLost`). Confirmation is three actions, since its
snapshot comes before its phone locks: `BeginConfirm`, `LockPhones`,
`CommitConfirm` or `RefuseConfirm`; PostgreSQL refuses the commit when a row it
read was written since (`Unserializable`). A row is its phone cell; `Verdict`
says what validation makes of it. A row the parser itself complains of is one with an
unreadable cell; that the code marks it `INVALID` as soon as it is parsed, and the
model when it is validated, is left out: no operation asks for it in between.
Deleting stored objects is left out.

### Team and permissions

Each operation of a member begins with two statements: `LockMembership` takes a
share lock on the member's own row if the member is active, and `ReadPermissions`
reads the row whether it was locked or not. It ends with its change, which
locks what it writes; creating an invitation has a step in between
(`SeekMember`). `AcceptInvitation` and `AcceptanceRefused` are the two ends of
acceptance. `FallDue` is the passage of seven days. A role with its custom
document is the set of permissions in effect, as effectivePermissions computes
it; tokens that a resend replaced are found by nobody and left out.

### Exports

`Create` and `Enqueue` are the API's transaction and the queue command after it,
which may throw with or without its job added (`EnqueueThrows`, then
`MarkQueueFailure`). An execution starts (`Start`), may lose its job to another
one (`JobStalls`), and has the branches of the claim (`ClaimSkipped`,
`ClaimRevoked`, `Claim`); it reads the guests page by page (`ListPage`), stores the
file (`StoreFile`), and publishes it (`Complete`) or is refused and cleans up
(`CompleteRefused`, `CompleteThrows`, `Discard`). Failing a request is a read
(`ReadToFail`) and a later write (`MarkFailed`) under the database's check of the
status. Guests answer, appear and cancel between two pages, and the requester's
access changes. A file is its rows and whether it shows phone numbers, and
stands for the digest that names its object.

### Preparation

Images, one template family and the invitations of one event. An image
is a file first and a row afterwards (`UploadFile`, `RecordUpload`, `UploadThrows`,
`UndoUpload`), and in the opposite order when it is archived (`ArchiveAsset`,
`DeleteFile`). `ReadForCreate` and `BeginUpdate` check the image of a new version,
`CreateTemplate` and `EndUpdate` insert it; updates hold the family's advisory lock
in between (`FamilyFree`). A preparation is SERIALIZABLE: `BeginPrepare` is its
snapshot, and it ends in `EndPrepare` unless a row it locks was written since
(`Unserializable`, `AbortPrepare`). `Review` makes the selection whose digest is
the confirmation token. A launch takes its locks one after another:
`BeginLaunch` (the event, read and held in share mode), `LockTemplate`,
`ReadSelection` (the rows of the invitations, the selection again and the
comparison), `CreateBatch` (the messages). A resend takes all its locks and
evaluates again in `ReadResend`, and inserts its message in `Resend`. Edits wait for
the locks that are held (`EventFree`, `Writable`, `InvitationFree`) and happen
otherwise; `EditMembers`, an edit of an invitation's members alone, waits for
none, since their rows are locked by preparations only and it does not write the
invitation's. A source stands for its digest, a text and the members are each one of
two, so that an edit may be taken back.

Abstractions: a selection is of all invitations; the expiry of a token drops a
launch and is left out; a preparation or review that could add or send nothing is
left out.

## Runs

| Run | Instance | Shows |
| --- | --- | --- |
| `send` | 1 message, 2 attempts, 1 dispatch attempt, 4 kinds of evidence, 2 faults, fair | `NoDuplicateSend`, `StatusReflectsEvidence`, `QueuedMessageGetsJob`, `WaitingJobSettles`, `ImplementsLogicalSend` |
| `pair` | 2 messages of one batch and a resend of either, 2 attempts, failure reports, 1 fault, 1 replay | `BatchAgreesWithMessages`, `StaleExhaustionFenced`, `ResendOnlyOfUnsent` |
| `credits` | a batch of 2 messages and a batch of 1, 3 credits, 2 kinds of evidence | `BalanceCoversReserved`, `HoldCoversOwed`, `TerminalBatchHoldsNothing`, `EntriesFollowFacts`, `SentIsChargedWhileHeld` |
| `outbox` | 2 answers, 2 attempts, 2 faults, fair | `StateOK`, `ConfirmedOnce`, `OvertakenOnlyIfUncertain`, `WaitingConfirmationSettles` |
| `inbox` | 1 event, 2 executions, 2 attempts, 3 faults, fair | `StateOK` (with `AppliedOnce`), `EventSettles` |
| `replies` | 2 replies, a request of the guest's page and one of a host's, 2 links, 3 half seconds, 2 changes | `StateOK` (with `AnswerFitsInvitation`), `YoungestAnswerStands`, `NoAnswerThroughDeadLink` |
| `checkin` | 2 requests, 2 keys, a party of 2, 2 pages, 2 tries, 2 changes | `StateOK`, `KeyCountsOnce`, `ResultIsTrue` |
| `reminders` | 1 rule, 2 executions, 1 host request, 3 reminders, 2 slots, 2 changes or 1 change and 1 fault | `StateOK`, `RemindersSpaced`, `OnlyWantedRemindersLeave` |
| `imports` | 2 imports of one phone, one with it twice, 2 executions, 1 fault or 1 invitation by hand | `ImportsOK`, `ImportsSeeEachOther`, `HostSawWhatIsImported` |
| `access` | the owner, 2 people, 2 invitations, 2 permissions, 2 requests at once | `TeamOK`, `NoGrantBeyondGranter` |
| `exports` | 2 requests of different presets, 2 guests, pages of 1, 2 executions, 2 attempts, 2 changes, 1 fault | `ExportsOK` (with `NoFileLeftBehind`), `ListsEachGuestOnce`, `RequesterHearsTheOutcome` |
| `prepare` | 1 image, 2 versions, 2 invitations, 2 requests at once, 2 messages each, edits and 1 fault | `PreparationOK`, `SnapshotImageStays`, `LaunchSendsWhatIsCurrent`, `HostSawWhatIsSent` |

`StateOK`, `TeamOK`, `ImportsOK`, `ExportsOK` and `PreparationOK` are each a module's type invariant together
with the relations between its tables that the module's text names. `TypeOK`, `RetryOnlyAfterRefusal` and
`AcceptedNeverSafelyFailed` of `SendPipeline`, and `TypeOK` and `NoReservationRevived` of
`CreditLedger`, are proved and need no run.

### Bounds

`MaxFaults` bounds everything that goes wrong except a host's interrupted replay,
which costs nothing; `MaxRecoveries` bounds the host's replays
of an exhausted dispatch per batch, `MaxChanges` what hosts do besides the
operations at hand; `MaxAttempts`, `DispatchAttempts` and `MaxTries` are the
configured limits made small.

- `send` and `outbox`: two faults give an execution that stalls while its
  successor dies or its write aborts; two attempts give a first and a last one. `outbox` needs
  two answers for an older and a newer confirmation.
- `pair`: a batch's verdict only asks whether some or all of its messages are
  active or failed, so two are enough, and a third in a batch of its own is the
  resend. `ResendRests` stops the resend once it exists: from there on its batch
  is one of the batches of this run and of `send`. `PairSymmetry` exchanges the two
  messages of one batch.
- `credits`: two messages of one batch for a stale read that meets a settlement
  or another charge, a second batch for a guard that has to count the other's
  reservation. `FewAtATime` admits two overlapping transactions and, for the batch
  of two, one webhook or the expiry of its reservation. `MaxGranted`
  bounds the credits; every number up to it occurs with every launch.
- `inbox`: events do not touch each other, so one is enough; three faults spend both
  attempts of its job and disturb the recovery.
- `replies`: two replies for one that is late; a second and a half, so that a
  tap, stamped in whole seconds, and an answer of the page fall into one second
  or two, before and after the deadline.
- `checkin`: two requests, with the same key or not, and two pages for the same
  pass. `PassesApart` keeps a page's transaction and a check-in's from overlapping:
  they share the invitation's row and neither writes it.
- `reminders`: two slots are less than the rule's cooldown and equal to the
  host's, so both a spaced and a refused reminder occur; three reminders let a
  cancelled one stand between two others. That takes two changes (`remindable`
  goes and comes back). To keep the run small `FewDisturbances` admits two changes
  only without a fault and while the rule is as it was (`Unedited`); the theorems
  have no such limit.
- `imports`: `PreparedOneAtATime` has one import in parsing or validation at a
  time, by executions that may overlap, since imports meet only in the
  invitations they create; `OneDisturbance` a fault or an invitation by hand.
  The first import can be corrected and validated again, the second is mapped once.
- `access`: two people and two invitations give a manager, a member who becomes
  one, and a second invitation of either.
- `exports`: pages of one guest put every change between two pages; two presets
  keep the two files apart: equal ones are the third disagreement below.
- `prepare`: two requests for every pair of operations that overlap; the second
  version lets an edit supersede what is being sent. `FewDisturbances` admits two
  edits or one fault with one version, and with two one edit, while a single message
  has been sent: edits of the event and of the template meet a launch by different
  locks, and one message shows what a later version does to what is under way.

Interchangeable people, replies, workers, pages and messages are symmetric, except
in runs with liveness properties. Runs do not check for deadlock: when
everything is delivered and nobody does anything the system rests.

### Fairness

- `send`: workers keep taking jobs, so dispatch and claim steps are weakly fair;
  a provider request ends by its timeout at the latest, so an attempt is answered
  and its outcome recorded; the failure handler or the recovery sweep writes the
  bookkeeping of an exhausted job; the sweep runs periodically. Nothing is assumed
  of the host or of webhooks.
- `outbox`: the same of jobs, answers and records, and of the sweep over
  waiting confirmations. Guests need never answer.
- `inbox`: Meta repeats a delivery until it is acknowledged, the API finishes what
  it started, BullMQ runs jobs and finds stalled ones, workers go on, and the sweep
  comes round.

Every fault may happen instead of a fair step as long as the bound admits it.

## Disagreements found

Each follows from steps of the models; the state or the step that shows it is
named. No run states them, and the properties that would be false without it name
the exception.

1. **Two charges release one unit** (`CreditLedger`). A charge reads the reservation
   without a lock and writes back an absolute value (`credit-ledger.ts:141`).
   Of two charges with the same reading the second releases nothing; when the
   whole balance is reserved, its ledger entry is refused and the record of an
   accepted send is rolled back, which `docs/reports-exports-checkin-stage9.md:72-73`
   excludes. It takes three messages of one reservation: a transaction that charges is at
   `ENTER`, nobody holds the account, and `EntriesAdmitted` is false. The lost
   update is never in the other direction: `HoldCoversOwed` holds.
2. **A member who was revoked cannot come back** (`TeamAccess`). Acceptance
   reactivates the membership and links the invitation to it
   (`team.service.ts:574`), but the link is unique and the first invitation keeps
   its own, so the transaction fails and the member stays revoked;
   `docs/architecture/data-model.md:15-16` says acceptance "creates or
   reactivates" a membership. The step is `AcceptanceRefused`.
3. **Two exports of the same rows destroy a finished file** (`Exports`). An object
   is named by its event and the digest of its bytes (`export-processor.ts:180`), and
   the name is unique (`schema.prisma:487`). The second export fails to insert its
   asset, and its error handler deletes the object (`export-processor.ts:238`): the
   first is `COMPLETED` and cannot be downloaded, the second stays `PROCESSING`;
   `load/README.md:243-245` calls either a failure. It takes two requests of
   the same preset; `Taken` then holds for the second file.
4. **A template with an archived image** (`Preparation`). createTemplate checks the image
   before its transaction (`preparation.service.ts:118`), updateTemplate without a
   lock (`preparation.service.ts:233`); archiving in between finds no template that
   uses it, and the trigger on templates asks for the kind of the image only.
   `docs/invitation-preparation-stage5.md:64-65` says only a ready image can be
   attached. Nothing is sent with it: every preparation is blocked
   (`SnapshotImageStays`).

5. **A cancelled reminder forgets the one before it** (`Reminders`). The claim that
   cancels a reminder deletes the guest's record
   (`prisma-messaging-repository.ts:178`), and with it the time of an earlier
   reminder that did arrive: the next one is queued whatever its own cooldown
   asks for. `docs/business/business-rules.md:35-36` says that a reminder
   is sent outside the configured cooldown, `docs/production-release-plan.md:418`
   that recently reminded guests are never targeted. The steps: `RunQueues` and
   `ClaimSends` for the rule; `Send` by a host, whose cooldown is shorter; the event
   stops allowing reminders, `ClaimCancels`, and it allows them again; then
   `RunQueues`. Hence `RemindersSpaced` speaks of reminders with no cancelled one
   between them.
6. **A grant by a member that is none any more** (`TeamAccess`). resolve share-locks
   the caller's active membership, does not look at what it locked, and reads the
   membership in a second READ COMMITTED statement (`event-access.service.ts:103-116`).
   A person who accepts an invitation between the two is authorised without a lock;
   it may be lowered or revoked before its request hands the permission out.
   `docs/security/security-model.md:8-9` says "team managers cannot delegate or renew
   a capability they do not hold". The steps: `LockMembership(p)`, which locks
   nothing; `AcceptInvitation(p, k)`; `ReadPermissions(p)`; `RevokeMembership` or
   `UpdateMembership` by the owner; `SeekMember(p)` and `CreateInvitation(p, j)`.
   `NoGrantBeyondGranter` asks of such a request only that it hands out what it
   read (`HeldBy`), and of every other that its caller still holds it.
7. **An edit of the members passes a launch** (`Preparation`). A launch and a resend
   share-lock the rows of `invitation_groups`, not those of `guest_members`
   (`messaging.service.ts:399-415`, `558-580`), as createSnapshots does
   (`preparation.service.ts:608-613`). An edit that names members only deletes and
   creates their rows and updates the group with an empty `data`
   (`invitations.service.ts:263-303`), for which no UPDATE is issued; the foreign key
   takes a lock that is compatible with the launch's. It may be committed between
   the reading of the members, which are part of the source, and the insertion of the
   messages, and the guest is sent what is no longer current.
   `docs/whatsapp-messaging-stage6.md:27-28` says "Batch creation re-runs readiness
   under database locks, so a stale confirmation cannot send changed content", and
   `:174-178` that a resend needs a snapshot that matches the current invitation. The steps: `Review`,
   `BeginLaunch`, `LockTemplate`, `ReadSelection`, `EditMembers`, `CreateBatch`.
   `LaunchSendsWhatIsCurrent` therefore compares everything but the members.

## Behaviours a reader may not expect

These are steps of the passing runs, or follow from the code where a model leaves
it out; no property is stated against them.

Sending:

- A replay of a request requeues a failed message that a resend has replaced
  (`messaging.service.ts:889`), and the guest is invited twice, although
  `docs/whatsapp-messaging-stage6.md:60-63` calls the replay safe.
- When the fan-out had added a send job before the dispatch job failed, that job
  completes by skipping the failed message; after a replay its retained id swallows
  the new job (`main.ts:185`) and the message stays `QUEUED` until the retention
  drops the old one.
- The sweep retries an exhausted dispatch job without the recovery the API does
  (`main.ts:243`). If the exhaustion is recorded in between, the job completes
  with nothing to do and a replay of the request finds no failed job to recover.

Credits:

- A failure report that is applied before the worker records the acceptance finds
  no charge to refund; the record then charges the failed message for good
  (`prisma-messaging-repository.ts:296`).
- Expired reservations are left out by the service (`credits.ts:104`) and counted
  by the guard, and no code marks them: a launch the service admits may be refused.
- An exhausted dispatch ends its batch and releases the reservation; the recovery
  queues the messages again and reserves nothing, so they are sent uncharged.
- applyWebhook refunds whenever the resulting status is `FAILED`: a message failed
  as ambiguous that a SENT report proves sent is charged and refunded in one
  transaction, and stays free when it is delivered afterwards.

Answers and confirmations:

- A deferred confirmation uses up tries of its job, so the newest one can fail as
  exhausted while an older one is being sent; an older one whose job failed with
  its exhaustion unrecorded stays `SENDING` and defers every newer one.
- A tap is stamped in whole seconds: one that follows a web answer within the same
  second is judged stale (`prisma-messaging-repository.ts:1130`).
- A reply to a message whose provider id is not recorded yet is ignored for good
  (`prisma-messaging-repository.ts:843`).
- An edit of the party that began before the first answer may be committed after
  it, if the answer fits (`invitations.service.ts:544`).

Check-in:

- An answer lowered after part of the party has been admitted leaves the count
  above the expected attendance, which `docs/reports-exports-checkin-stage9.md:121-123`
  says the database refuses: the guard looks at check-ins only.
- The web client draws a fresh key for each press of the button
  (`event-check-in.tsx:101-122`), so a press after a lost answer is a new request.
- The idempotency record of a check-in expires after seven days
  (`check-ins.service.ts:46`), those of launches, resends and reminders after one;
  a later retry is a new request too, unless a check-in record holds the key.

Reminders:

- A rule's maximum counts what is known to have been sent when the run decides,
  not what is queued or uncertain.

Imports:

- A confirmation's snapshot precedes its phone locks, and the manual creation runs
  at READ COMMITTED: an invitation created by hand in between is imported a second
  time without a review (`imports.service.ts:498`), although
  `docs/invitation-preparation-stage5.md:50-53` speaks of the same phone locks.
- A parse or validation job whose attempts are spent without `FailForGood` leaves
  its import in `PARSING` or `VALIDATING` until the host cancels it.

Team:

- An `EXPIRED` invitation cannot be revoked, because a trigger refuses it; it can
  be resent, unless a newer one is pending.
- An invitation keeps the permissions of a manager who has been lowered since.

Exports:

- A claimed export whose execution throws or dies stays `PROCESSING`: the retried
  job finds it is not `QUEUED` and skips it (`prisma-export-repository.ts:51`).

Preparation:

- An upload whose commit succeeded and whose answer was lost deletes its file
  (`assets.service.ts:183`), although its row is `READY` and may be attached and
  prepared; `SnapshotImageStays` names this exception (`disowned`).
- Archiving the latest version ends its family: only the latest one can be edited,
  and not when it is archived (`preparation.service.ts:205`).
- A version that was approved can be launched after a newer one was written.

## Proofs

### The send pipeline

`SendPipelineProofs` proves, for every set of messages and batches and every
attempt limit and bound, from the two assumptions `BatchAssumption` (each
message has a batch) and `BoundAssumption` (the limits are natural numbers):

| Theorem | Statement |
| --- | --- |
| `Invariance` | `Spec => []IInv` |
| `TypeCorrect` | `Spec => []TypeOK` |
| `AtMostOneAcceptance` | `Spec => []NoDuplicateSend` |
| `AttemptsFollowRefusals` | `Spec => []RetryOnlyAfterRefusal` |
| `AcceptedIsMarked` | `Spec => []AcceptedNeverSafelyFailed` |
| `ResendsAreSafe` | `Spec => ResendOnlyOfUnsent` |

None of the safety properties is inductive alone. That a message is accepted
once depends on what every earlier attempt knows: `IInv` adds, per attempt,
that an attempt beyond `attemptCount` has not been started and is not in
flight (`NotStarted`), that every attempt before the last one was refused
(`EarlierRefused`), that a refused attempt is over, neither accepted nor on its way
(`RefusedIsOver`), and that an attempt still waiting for its answer has not
been accepted (`UnansweredNotAccepted`); and, per message, what its status says
about its attempts: a `QUEUED` message has only refused ones behind it
(`QueuedIsClean`), a `FAILED` message with an accepted or unanswered attempt is
marked ambiguous or was reported failed by the provider (`UncertainIsMarked`),
and a message exists only in a batch that does (`ExistsWithBatch`). The argument has one step per
action and, below it, one per conjunct the action can disturb; the verdict
operators are dealt with in the lemmas `ReduceResult`, `BatchVerdictResult` and
`AttemptVerdictResult`. `TypeStep` and `SendStep` are the two halves of the
inductive step.

The rows need a second invariant, `RowsInv`, on top of the first: a status of
a sent message rests on an acceptance, as does all evidence (`Founded`), the status
is what the applied evidence calls for (`Reflects`), and a replay under way
remembers an exhaustion that has happened (`ReplaysArePast`), which is what
makes the fence work. A batch agrees with its messages because every action that
moves one recounts the batch; `RowStep` sums up what an action may do to one row.
`EvidenceCommutes` rests on `ReduceIsTheStronger`: there is one total order of
statuses, `Strength`, and `Reduce` keeps the stronger of its arguments.

| Theorem | Statement |
| --- | --- |
| `EvidenceCommutes` | `Reduce` of two pieces of evidence, in either order; `Reduce` of one piece twice |
| `RowsInvariance` | `Spec => []RowsInv` |
| `StatusIsTrue` | `Spec => []StatusReflectsEvidence` |
| `BatchesAgree` | `Spec => []BatchAgreesWithMessages` |
| `StaleExhaustionsAreFenced` | `Spec => StaleExhaustionFenced` |
| `PipelineImplementsLogicalSend` | `Spec => ImplementsLogicalSend` |

The refinement is proved action by action: the initial rows are told nothing and
have no copy, and under `IInv` and `RowsInv` each kind of row step is, for its
message, `Take`, `GiveUp`, `Doubt` or `Confirm` of the promise or leaves what the
host is told alone. The invariants are needed where the promise forbids
something: no copy is taken after `GiveUp`, since by `UncertainIsMarked` a
failed message with an attempt still calling is told as doubt, and no second copy is
ever taken, since by `EarlierRefused` and `RefusedIsOver` a new attempt follows refusals only.

Only model-checked: `QueuedMessageGetsJob` and `WaitingJobSettles`, since
liveness under fairness is outside the prover.

### The credit ledger

`LaunchProofs` proves, for every finite set of messages and batches, every
assignment of messages to batches, any subset of the evidence and any bound
(`CreditAssumption`):

| Theorem | Statement |
| --- | --- |
| `LedgerInvariance` | `Spec => []IInv` |
| `LedgerTypeCorrect` | `Spec => []TypeOK` |
| `EntriesAreFounded` | `Spec => []EntriesFollowFacts` |
| `SentIsCharged` | `Spec => []SentIsChargedWhileHeld` |
| `TerminalReservationsStay` | `Spec => NoReservationRevived` |
| `FinishedBatchesHoldNothing` | `Spec => []TerminalBatchHoldsNothing` |
| `HoldsCoverOwed` | `Spec => []HoldCoversOwed` |
| `BalanceIsEnough` | `Spec => []BalanceCoversReserved` |

What a transaction decided when it began must still be right when it commits,
although others have committed meanwhile. `IInv` says so: a message that has
moved belongs to a launched batch (`Launched`), a running transaction charges
only what the provider has accepted and refunds only what is or will be charged
(`Decided`), a reservation row has one writer, who found it active or as he
leaves it (`Exclusive`), and a message with a sentAt is charged or its
reservation is gone (`Paid`). `Paid` survives because reservations only end,
which is the lemma `ReservationKept`, proved of every step and the whole content
of `TerminalReservationsStay`. `BeginResult` and `OwnStep` carry the two kinds of
transaction step that change nothing but the transaction; `Commit` is proved
conjunct by conjunct.

Counting needs two more invariants. `HoldInv` says of a charge under way that
what it will write back, however old its reading, still pays for every other
message of the batch (`Backed`): others' charges only lower what is owed, so the
stale write errs on the side of holding too much. `FundInv` says that one
transaction at a time is at the account (`OneAtTheAccount`) and that the balance
covers what it will leave (`Funded`). The units held are counted as a set of
pairs of a batch and a number (`HeldUnits`), not as a sum over a fold, so that
the library's facts about finite sets apply: a row that is replaced changes the
count by no more than the units it gains.

### Confirmations

`RsvpConfirmationsProofs`, from `ConfirmationAssumption` (the bounds are numbers, and
there is an attempt):

| Theorem | Statement |
| --- | --- |
| `OutboxInvariance` | `Spec => []IInv` |
| `ConfirmationsAreSingle` | `Spec => []ConfirmedOnce` |
| `ConfirmationsStayInOrder` | `Spec => []OvertakenOnlyIfUncertain` |
| `OutboxIsTrue` | `Spec => []StateOK` |

`IInv` adds that only the last attempt of a confirmation may be under way or
accepted, and only while its row is being sent or says that the outcome is
unknown (`FlightInv`, `AcceptInv`), and that no newer confirmation has been
started while an older one is `SENDING` (`Serial`); order and uniqueness of the
acceptances follow from the two. `StepEffect` reduces the actions to what they do
to one row, and `RowsStep` and `OrderStep` argue about those.

### The webhook inbox

`WebhookInboxProofs`, from `InboxAssumption`:

| Theorem | Statement |
| --- | --- |
| `InboxInvariance` | `Spec => []IInv` |
| `InboxIsTrue` | `Spec => []StateOK` |
| `SettledIsFinal` | `Spec => [][...]_vars`: a settled event keeps its status and its effect |

`StateOK` is inductive once it is said that an execution about to report success
has seen its event settled (`SuccessIsSettled`), which stays so because settled is
final.

### RSVP responses

`GuestListProofs`, from `ResponsesAssumption`: the numbers are numbers, the
submission keys of guests, those of hosts and the replies are different things
(a submission is unique by its source and key, `schema.prisma:1084`, and replies
have a table of their own), and there are finitely many replies, since each has an
ingestion sequence.

| Theorem | Statement |
| --- | --- |
| `ResponsesInvariance` | `Spec => []IInv` |
| `AnswersAreTrue` | `Spec => []StateOK` |
| `YoungestStands` | `Spec => []YoungestAnswerStands` |
| `LiveLinksOnly` | `Spec => NoAnswerThroughDeadLink` |

Staleness is decided against the stored answer only, so `IInv` has to say that
the stored answer stands for all before it: it is the last that was written,
none that was written or found stale was said after it (`WritesInv`, `ReplyInv`),
and each write belongs to one key or one reply (`WritesDiffer`, `StoredAnswer`).
That `NotBefore` is transitive is `OrderOfAnswers`. The links need that only the
youngest can be active (`LinksInv`).

### Check-in

`CheckInProofs`, from `CheckInAssumption`:

| Theorem | Statement |
| --- | --- |
| `CheckInInvariance` | `Spec => []IInv` |
| `KeysCountOnce` | `Spec => []KeyCountsOnce` |
| `CheckInIsTrue` | `Spec => []StateOK` |
| `StoredResultsAreTrue` | `Spec => ResultIsTrue` |

A transaction decides on its snapshot and commits later. `Snapshot` says what
the snapshot is worth: what it saw of the invitation and of the count is still
so unless it is marked stale, in which case the commit is refused where it would
matter, and a result it found under its key is the result that is stored.

### Reminders

`RemindersProofs`, from `RemindersAssumption`:

| Theorem | Statement |
| --- | --- |
| `RemindersInvariance` | `Spec => []IInv` |
| `RemindersAreTrue` | `Spec => []StateOK` |
| `RemindersAreSpaced` | `Spec => []RemindersSpaced` |
| `OnlyWantedLeave` | `Spec => OnlyWantedRemindersLeave` |

The code compares the cooldown with the guest's record only, so the record must
name the youngest reminder, or that reminder was cancelled and took the record with
it (`RecordOK`). `Spaced` is stated of all reminders, since a later one is spaced
from a queued one that may or may not reach the guest. An earlier form of the
property, which asked for the shorter of two cooldowns between any two reminders,
could not be strengthened to an inductive one, and TLC finds it violated with two
changes: it is the fifth disagreement above.

### Team and permissions

`MemberProofs`, from `TeamAssumption`:

| Theorem | Statement |
| --- | --- |
| `TeamInvariance` | `Spec => []IInv` |
| `TeamIsTrue` | `Spec => []TeamOK` |
| `GrantsStayWithinGranter` | `Spec => NoGrantBeyondGranter` |

`Holds` is the share lock: while a request that has locked its caller's row runs, the
caller is an active member, and once it has read them, with the permissions that
were read (`LockStep`, `ReadStep`). A request that locked nothing has only what it
read, which is all that `HandedIsHeld` gives for it. The owner always has its row to
lock: it is never written (`OwnerStands`), and a pending invitation is its person's only one (`OnePending`).

### Imports

`GuestListProofs`, from `ImportAssumption`: a file has rows, a cell that cannot be
read is not a phone, and the bounds are numbers.

| Theorem | Statement |
| --- | --- |
| `ImportInvariant` | `ImportSpec => []ImportInv` |
| `ImportsAreOK` | `ImportSpec => []ImportsOK` |
| `ImportsKnowEachOther` | `ImportSpec => []ImportsSeeEachOther` |
| `HostSawItsImport` | `ImportSpec => HostSawWhatIsImported` |

Everything rests on the revision. A job, an execution, a page and a confirmation's
snapshot each remember one, and `ImportInv` says that as long as it is the
import's, what they hold is what the import holds: `JobOK`, `ExecutionOK` (what was
judged are the verdicts of the rows as they are), `PageOK`, `ConfirmOK`. A step
that changes rows or mapping raises the revision, so it owes nothing to what others
remember of the old one. `ImportsSeeEachOther` is part of the invariant: an
invitation of the phone that was there at a confirmation's snapshot makes a row that
does not say so be validated again (`NeedsRevalidation`), and one that came after it
makes PostgreSQL refuse the commit (`Unserializable`).

### Exports

`MemberProofs`, from `ExportAssumption`: finitely many guests, numbered in the
order of the code's cursor, pages of at least one row and at least one attempt.

| Theorem | Statement |
| --- | --- |
| `ExportInvariant` | `ExportSpec => []ExportInv` |
| `ExportsAreOK` | `ExportSpec => []ExportsOK` |
| `FilesListEachGuestOnce` | `ExportSpec => []ListsEachGuestOnce` |
| `RequestersHearTheOutcome` | `ExportSpec => []RequesterHearsTheOutcome` |

`ListingOK` is the loop invariant of the pages: no guest twice, nobody beyond the
cursor, and every guest who was to be listed all the while, up to the cursor. A page
keeps it because the guests it takes are the first of those after the cursor, which
is counted: `Rank` is the number of guests of a set up to one, and the sequence of a
set in order is where ranks and positions agree. `OneBuilder` says that one
execution at a time is past the claim of a request, although an execution that lost
its job goes on: the claim finds the status `QUEUED` and leaves it for good.
`RequestOK` ties the notices to the status.

### Preparation

`LaunchProofs`, from `PreparationAssumption`: the bounds are numbers, and "no
image" is not one.

| Theorem | Statement |
| --- | --- |
| `PrepareInvariant` | `PrepareSpec => []PrepareInv` |
| `PreparationIsOK` | `PrepareSpec => []PreparationOK` |
| `SnapshotImagesStay` | `PrepareSpec => []SnapshotImageStays` |
| `ReadersAreUpheld` | `PrepareSpec => []UpheldInv` |
| `LaunchesSendWhatIsCurrent` | `PrepareSpec => LaunchSendsWhatIsCurrent` |
| `HostsSawWhatIsSent` | `PrepareSpec => HostSawWhatIsSent` |

`PrepareInv` says of each request what it may rely on of what it has read.
`ImageOp`: an upload has its image to itself, an archiving has made its row
`DELETED` before it touches the file, and a preparation's image is ready unless the
preparation has been told that its row was written; then it cannot commit, so no
snapshot of an archived image appears. `VersionOp`: the holder of the family's lock
knows the latest version and its status, and the sources of a preparation are of a
version that is not a draft. `LaunchOp`: the event that a launch has read is the
event, since the launch holds it in share mode, and what it has read to send has one
source of an invitation and is what the host confirmed. `UpheldInv` is about the time
between that reading and the insertion: of everything in the sources but the members
(`StillTrue`) the locks of the event, of the version and of the invitations' rows
keep it true, step by step, and it is what `LaunchesSendWhatIsCurrent` needs. `SameWork`
compares what a request does before and after a step of another one, which can only
tell it of more rows; the lemmas `ImagesRest`, `VersionsRest` and `MessagesRest`
carry each part of the invariant over every step that leaves that part alone.
`SendsOneEach` is about `Sends`: of snapshots with one of an invitation at most,
each comes last in its invitation and the others get nothing.

### Only model-checked

Liveness: `QueuedMessageGetsJob`, `WaitingJobSettles`, `WaitingConfirmationSettles`
and `EventSettles`. The prover has no rule for fairness and `ENABLED`. Every other
property of the runs is stated by a theorem.

## Plan

The properties of the runs are proved, except liveness. What would come next is
more of the system: the parts that `PROJECT.json` notes as missing from components
that are modelled in part, first the retention of export files and the cooldowns of
several guests in one run of reminders.

## Not modelled

- **Sign-in codes**: a row that is claimed by one insert and finished by one update,
  with no interleaving that a property could be about.
- **Parts of modelled components**: default templates and locales, XLSX exports and
  the retention of files, cooldowns of several guests in one run; the notes in
  `PROJECT.json` say which, component by component.
- **Reading**: lists, dashboards, reports, search, the credit position, the
  resolution of an entry pass. They change nothing.
- **Data work**: parsing and writing CSV and XLSX, image sanitising, phone and
  name normalisation, template rendering, hashing. Where a decision depends on
  one, the model has its outcome (`Verdict`, `Selection`, a request's size).
- **I/O and wiring**: provider adapters, object storage, logging, metrics,
  probes, configuration, contracts and the generated API client.
- **The web application and the design prototype**, the larger half of the
  repository by lines: they render what the API answers. Only what their clients
  do to the API is modelled: retries with the same key, lost responses, double
  presses.
- **Several events and tenants**: every row belongs to one event, and every
  operation checks the caller's membership first.
- **Idempotency records' expiry, the 72 hours after which the recovery gives a
  webhook up, rate limits, audit rows, and notifications except those of exports**.
