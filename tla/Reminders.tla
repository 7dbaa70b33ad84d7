----------------------------- MODULE Reminders -----------------------------
(***************************************************************************)
(* RSVP reminders for one guest: a rule evaluated once per slot by the     *)
(* worker's sweep, a host who reviews and sends reminders by hand, and the *)
(* claim that judges each reminder again before it is sent.                *)
(*                                                                         *)
(* Both ways of making reminders run under the advisory lock of the event  *)
(* and lock the invitation, as do the guest's answer and the claim: each   *)
(* transaction is one action.  A run of the rule reads the clock before it *)
(* waits for the lock, and its job may be executed twice.                  *)
(*                                                                         *)
(* A tick of the clock is one evaluation slot.  What makes a guest         *)
(* remindable besides the RSVP (the event's status, an approved template,  *)
(* a current snapshot, a successful initial invitation) is folded into one *)
(* flag that can be lost and regained.                                     *)
(***************************************************************************)
EXTENDS Integers, Sequences, FiniteSets

CONSTANTS
    Workers,        \* executions of reminder jobs
    Requests,       \* idempotency keys of the host
    RuleCooldown,   \* reminder_rules.cooldown_minutes, in slots
    HostCooldown,   \* cooldownHours of the host's requests, in slots
    MaxReminders,   \* reminder_rules.maximum_reminders
    MaxTries,       \* META_WHATSAPP_MAX_ATTEMPTS
    MaxTime,        \* bound: slots
    MaxMessages,    \* bound: reminders made
    MaxChanges,     \* bound: edits of the rule and changes of the event
    MaxFaults       \* bound: crashes and refusals of Redis

ASSUME RemindersAssumption ==
    /\ {RuleCooldown, HostCooldown, MaxReminders, MaxTries} \subseteq Nat \ {0}
    /\ {MaxTime, MaxMessages, MaxChanges, MaxFaults} \subseteq Nat

VARIABLES
    now,
    answered,   \* the RSVP is no longer pending, or the invitation cancelled
    remindable, \* event, template and initial invitation allow reminders
    rule,       \* reminder_rules: enabled, updated_at, last_evaluated_at
    ran,        \* reminder_runs of the rule, by schedule key
    jobs,       \* run jobs in the reminder queue
    worker,     \* what an execution of a run job is about to do
    request,    \* the host's page: what was reviewed, what was answered
    kept,       \* idempotency_records: the reminder a key made
    message,    \* reminders, in order of creation
    last,       \* reminder_recipient_states.last_reminder_message_id, or 0
    changes, faults

clock == <<now, answered, remindable, changes>>
schedule == <<rule, ran, jobs, worker>>
page == <<request, kept>>
outbox == <<message, last>>
vars == <<clock, schedule, page, outbox, faults>>

Slots == 0..MaxTime
Never == -1
Idle == [step |-> "IDLE"]
Fresh == [step |-> "IDLE", answer |-> "NONE", made |-> 0]

Init ==
    /\ now = 0 /\ answered = FALSE /\ remindable = TRUE
    /\ rule = [enabled |-> TRUE, updated |-> 0, evaluated |-> Never]
    /\ ran = {} /\ jobs = {}
    /\ worker = [w \in Workers |-> Idle]
    /\ request = [k \in Requests |-> Fresh]
    /\ kept = [k \in Requests |-> 0]
    /\ message = <<>> /\ last = 0
    /\ changes = 0 /\ faults = 0

Fault == faults < MaxFaults /\ faults' = faults + 1

-----------------------------------------------------------------------------
(* Eligibility.                                                            *)

(* Mutant of Recent: the cooldown starts when a reminder is known sent. *)
RecentSinceSent(at, cooldown) ==
    last # 0 /\ message[last].status = "SENT" /\ at - message[last].queued < cooldown

(* COOLDOWN_ACTIVE: measured from the queueing of the reminder on record.  *)
Recent(at, cooldown) == last # 0 /\ at - message[last].queued < cooldown

(* What evaluateReminderEligibility asks of a rule and of a host alike. *)
Eligible(at, cooldown) ==
    /\ remindable /\ ~answered
    /\ ~Recent(at, cooldown)

(* Reminders of the rule that are known to have reached the guest. *)
SentByRule == {i \in DOMAIN message : message[i].by = "RULE"
                                      /\ message[i].status = "SENT"}

(* The batch, the message, the run and the recipient's state.              *)
Queue(by, at) ==
    /\ Len(message) < MaxMessages
    /\ message' = Append(message,
           [by |-> by, queued |-> at, status |-> "QUEUED", tries |-> 0,
            reached |-> FALSE, dispatched |-> FALSE])
    /\ last' = Len(message) + 1

Dispatched(i) == message' = [message EXCEPT ![i].dispatched = TRUE]

-----------------------------------------------------------------------------
(* The worker's sweep and the rule's runs.                                 *)

(* listDueRuleRuns: the key names the rule as it stands and the slot. *)
DueKeys == {key \in [updated : {rule.updated}, slot : {now}] :
               rule.enabled /\ remindable /\ rule.evaluated < now}

(* listPendingBatchIds *)
Pending(i) == message[i].status = "QUEUED"

Sweep ==
    /\ \/ DueKeys \ jobs # {}
       \/ \E i \in DOMAIN message : Pending(i) /\ ~message[i].dispatched
    /\ jobs' = jobs \cup DueKeys
    /\ message' = [i \in DOMAIN message |->
           [message[i] EXCEPT !.dispatched = @ \/ Pending(i)]]
    /\ UNCHANGED <<clock, rule, ran, worker, page, last, faults>>

(* Two executions of one job are possible: the lock of the first was lost. *)
StartRun(w, key) ==
    /\ key \in jobs /\ worker[w] = Idle
    /\ worker' = [worker EXCEPT ![w] = [step |-> "RUN", key |-> key, at |-> now]]
    /\ UNCHANGED <<clock, rule, ran, jobs, page, outbox, faults>>

(* runScheduledRule is over: the batch is dispatched next, or nothing is. *)
Finish(w, i) ==
    /\ worker' = [worker EXCEPT ![w] =
           IF i = 0 THEN Idle ELSE [step |-> "DISPATCH", made |-> i, key |-> @.key]]
    /\ jobs' = IF i = 0 THEN jobs \ {worker[w].key} ELSE jobs

Ran(key) == {run \in ran : run.key = key}

(* REPLAYED *)
RunReplayed(w) ==
    /\ worker[w].step = "RUN"
    /\ \E run \in Ran(worker[w].key) : Finish(w, run.made)
    /\ UNCHANGED <<clock, rule, ran, page, outbox, faults>>

(* SKIPPED: the rule was disabled, or edited since the sweep listed it. *)
RunSkipped(w) ==
    /\ worker[w].step = "RUN" /\ Ran(worker[w].key) = {}
    /\ ~rule.enabled \/ rule.updated # worker[w].key.updated
    /\ Finish(w, 0)
    /\ UNCHANGED <<clock, rule, ran, page, outbox, faults>>

(* The run is recorded with its decision; writing last_evaluated_at makes  *)
(* the rule a new row version.                                             *)
Evaluated(w, i) ==
    /\ ran' = ran \cup {[key |-> worker[w].key, made |-> i]}
    /\ rule' = [rule EXCEPT !.evaluated = worker[w].at, !.updated = @ + 1]
    /\ Finish(w, i)
    /\ UNCHANGED <<clock, page, faults>>

Runs(w) ==
    /\ worker[w].step = "RUN" /\ Ran(worker[w].key) = {}
    /\ rule.enabled /\ rule.updated = worker[w].key.updated

RuleSelects(w) ==
    /\ Eligible(worker[w].at, RuleCooldown)
    /\ Cardinality(SentByRule) < MaxReminders

RunQueues(w) ==
    /\ Runs(w) /\ RuleSelects(w)
    /\ Queue("RULE", worker[w].at)
    /\ Evaluated(w, Len(message) + 1)

(* Nobody is eligible, or the event cannot pay for the run. *)
RunExcludes(w) == Runs(w) /\ Evaluated(w, 0) /\ UNCHANGED outbox

DispatchRun(w) ==
    /\ worker[w].step = "DISPATCH"
    /\ Dispatched(worker[w].made)
    /\ worker' = [worker EXCEPT ![w] = Idle]
    /\ jobs' = jobs \ {worker[w].key}
    /\ UNCHANGED <<clock, rule, ran, page, last, faults>>

(* An execution dies, and its job may be tried again. *)
WorkerCrash(w) ==
    /\ worker[w] # Idle
    /\ Fault
    /\ worker' = [worker EXCEPT ![w] = Idle]
    /\ UNCHANGED <<clock, rule, ran, jobs, page, outbox>>

-----------------------------------------------------------------------------
(* The host's own reminders.                                               *)

(* What the confirmation token is a hash of. *)
Selection ==
    [remindable |-> remindable, answered |-> answered,
     last |-> IF last = 0 THEN Never ELSE message[last].queued,
     recent |-> Recent(now, HostCooldown)]

Review(k) ==
    /\ request[k].step = "IDLE"
    /\ request' = [request EXCEPT ![k] =
           [step |-> "REVIEWED", seen |-> Selection, at |-> now,
            answer |-> "NONE", made |-> 0]]
    /\ UNCHANGED <<clock, schedule, kept, outbox, faults>>

Answered(k, answer) ==
    request' = [request EXCEPT ![k].step = "ANSWERED", ![k].answer = answer]

(* Mutant of Known: the token is judged before the key is looked up. *)
KnownIfCurrent(k) == kept[k] # 0 /\ request[k].seen = Selection

(* The key's record exists. *)
Known(k) == kept[k] # 0

(* The run that the key made is dispatched again. *)
SendReplayed(k) ==
    /\ request[k].step = "REVIEWED" /\ Known(k)
    /\ request' = [request EXCEPT ![k].step = "COMMITTED", ![k].made = kept[k]]
    /\ UNCHANGED <<clock, schedule, kept, outbox, faults>>

(* The token is for another state, or older than its ten minutes. *)
SendStale(k) ==
    /\ request[k].step = "REVIEWED" /\ ~Known(k)
    /\ request[k].seen # Selection \/ request[k].at < now
    /\ Answered(k, "REMINDER_CONFIRMATION_STALE")
    /\ UNCHANGED <<clock, schedule, kept, outbox, faults>>

SendRefused(k) ==
    /\ request[k].step = "REVIEWED" /\ ~Known(k) /\ request[k].seen = Selection
    /\ ~Eligible(now, HostCooldown)
    /\ Answered(k, "NO_ELIGIBLE_REMINDERS")
    /\ UNCHANGED <<clock, schedule, kept, outbox, faults>>

Send(k) ==
    /\ request[k].step = "REVIEWED" /\ ~Known(k) /\ request[k].seen = Selection
    /\ Eligible(now, HostCooldown)
    /\ Queue("HOST", now)
    /\ kept' = [kept EXCEPT ![k] = Len(message) + 1]
    /\ request' = [request EXCEPT ![k].step = "COMMITTED",
                                  ![k].made = Len(message) + 1]
    /\ UNCHANGED <<clock, schedule, faults>>

(* enqueueDurableBatch *)
Enqueue(k) ==
    /\ request[k].step = "COMMITTED"
    /\ Dispatched(request[k].made)
    /\ Answered(k, "QUEUED")
    /\ UNCHANGED <<clock, schedule, kept, last, faults>>

(* Redis refuses, or the API dies: the host tries again with the same key, *)
(* or leaves it at that.                                                   *)
EnqueueFails(k) ==
    /\ request[k].step = "COMMITTED"
    /\ Fault
    /\ request' = [request EXCEPT ![k].step = "REVIEWED"]
    /\ UNCHANGED <<clock, schedule, kept, outbox>>

-----------------------------------------------------------------------------
(* The send job of a reminder: the claim, the provider, the record.        *)

Claimable(i) == message[i].dispatched /\ message[i].status = "QUEUED"

ClaimAtLimit(i) ==
    /\ Claimable(i) /\ message[i].tries = MaxTries
    /\ message' = [message EXCEPT ![i].status = "FAILED"]
    /\ UNCHANGED <<clock, schedule, page, last, faults>>

(* Mutant of StillWanted: eligibility is a matter of the queueing alone. *)
StillWantedOnceQueued == remindable

(* reminderClaimIneligibility: the guest and the event, as they are now. *)
StillWanted == remindable /\ ~answered

(* The recipient's state still names this reminder. *)
Newest(i) == last = i

RecordAfterCancel(i) == IF last = i THEN 0 ELSE last

(* An ineligible reminder is cancelled, and takes the record of it along. *)
ClaimCancels(i) ==
    /\ Claimable(i) /\ message[i].tries < MaxTries
    /\ ~StillWanted \/ ~Newest(i)
    /\ message' = [message EXCEPT ![i].status = "CANCELLED"]
    /\ last' = RecordAfterCancel(i)
    /\ UNCHANGED <<clock, schedule, page, faults>>

ClaimSends(i) ==
    /\ Claimable(i) /\ message[i].tries < MaxTries
    /\ StillWanted /\ Newest(i)
    /\ message' = [message EXCEPT ![i].status = "SENDING", ![i].tries = @ + 1]
    /\ UNCHANGED <<clock, schedule, page, last, faults>>

ProviderAccepts(i) ==
    /\ message[i].status = "SENDING" /\ ~message[i].reached
    /\ message' = [message EXCEPT ![i].reached = TRUE]
    /\ UNCHANGED <<clock, schedule, page, last, faults>>

(* The answer is recorded: accepted; refused for now, or for good. *)
Record(i) ==
    /\ message[i].status = "SENDING"
    /\ \E status \in IF message[i].reached THEN {"SENT"} ELSE {"QUEUED", "FAILED"} :
           message' = [message EXCEPT ![i].status = status]
    /\ UNCHANGED <<clock, schedule, page, last, faults>>

(* The answer, or the worker, is lost: an ambiguous failure. *)
AnswerLost(i) ==
    /\ message[i].status = "SENDING"
    /\ Fault
    /\ message' = [message EXCEPT ![i].status = "FAILED"]
    /\ UNCHANGED <<clock, schedule, page, last>>

(* A webhook proves the delivery of a reminder that was given up. *)
Reported(i) ==
    /\ message[i].reached /\ message[i].status = "FAILED"
    /\ message' = [message EXCEPT ![i].status = "SENT"]
    /\ UNCHANGED <<clock, schedule, page, last, faults>>

-----------------------------------------------------------------------------
(* The surroundings.                                                       *)

Tick ==
    /\ now < MaxTime /\ now' = now + 1
    /\ UNCHANGED <<answered, remindable, changes, schedule, page, outbox,
                   faults>>

GuestAnswers ==
    /\ ~answered /\ answered' = TRUE
    /\ UNCHANGED <<now, remindable, changes, schedule, page, outbox, faults>>

Change == changes < MaxChanges /\ changes' = changes + 1

(* The event closes or reopens, a template loses or regains its approval,  *)
(* the initial invitation fails late or is sent again.                     *)
EventChanges ==
    /\ Change
    /\ remindable' = ~remindable
    /\ UNCHANGED <<now, answered, schedule, page, outbox, faults>>

(* updateRule *)
EditRule(on) ==
    /\ Change
    /\ rule' = [rule EXCEPT !.enabled = on, !.updated = @ + 1]
    /\ UNCHANGED <<now, answered, remindable, ran, jobs, worker, page,
                   outbox, faults>>

-----------------------------------------------------------------------------
WorkerStep(w) ==
    \/ RunReplayed(w) \/ RunSkipped(w) \/ RunQueues(w) \/ RunExcludes(w)
    \/ DispatchRun(w)

ClaimStep(i) == ClaimAtLimit(i) \/ ClaimCancels(i) \/ ClaimSends(i)

Next ==
    \/ Sweep
    \/ \E w \in Workers : \/ WorkerStep(w) \/ WorkerCrash(w)
                         \/ \E key \in jobs : StartRun(w, key)
    \/ \E k \in Requests : \/ Review(k) \/ SendReplayed(k) \/ SendStale(k)
                          \/ SendRefused(k) \/ Send(k) \/ Enqueue(k)
                          \/ EnqueueFails(k)
    \/ \E i \in DOMAIN message : \/ ClaimStep(i) \/ ProviderAccepts(i)
                                \/ Record(i) \/ AnswerLost(i) \/ Reported(i)
    \/ Tick \/ GuestAnswers \/ EventChanges
    \/ \E on \in BOOLEAN : EditRule(on)

Spec == Init /\ [][Next]_vars

-----------------------------------------------------------------------------
Status == {"QUEUED", "SENDING", "SENT", "FAILED", "CANCELLED"}
Key == [updated : Nat, slot : Slots]

(* Every table, job and page holds the values its code gives it; the       *)
(* reminder on a guest's record is one that was made and not cancelled.    *)
TypeOK ==
    /\ now \in Slots /\ changes \in 0..MaxChanges /\ faults \in 0..MaxFaults
    /\ answered \in BOOLEAN /\ remindable \in BOOLEAN
    /\ rule \in [enabled : BOOLEAN, updated : Nat, evaluated : {Never} \cup Slots]
    /\ \A run \in ran : run.key \in Key /\ run.made \in 0..Len(message)
    /\ jobs \subseteq Key
    /\ \A w \in Workers : worker[w].step \in {"IDLE", "RUN", "DISPATCH"}
    /\ \A k \in Requests : /\ request[k].step \in {"IDLE", "REVIEWED", "COMMITTED", "ANSWERED"}
                           /\ kept[k] \in 0..Len(message)
    /\ \A i \in DOMAIN message :
           message[i] \in [by : {"RULE", "HOST"}, queued : Slots,
                           status : Status, tries : 0..MaxTries,
                           reached : BOOLEAN, dispatched : BOOLEAN]
    /\ last \in 0..Len(message)
    /\ last # 0 => message[last].status # "CANCELLED"

Cooldown(i) == IF message[i].by = "RULE" THEN RuleCooldown ELSE HostCooldown

(* Two reminders that reach a guest were queued apart by the cooldown of   *)
(* whoever made the later one, however long they waited for a worker or a  *)
(* provider (evaluateReminderEligibility, the advisory lock).  A reminder  *)
(* that is cancelled takes the record with it, so one queued after it may  *)
(* come soon after those before it.                                        *)
RemindersSpaced ==
    \A i, j \in DOMAIN message :
        /\ i < j /\ message[i].reached /\ message[j].reached
        /\ \A m \in i + 1 .. j - 1 : message[m].status # "CANCELLED"
        => message[j].queued - message[i].queued >= Cooldown(j)

(* However long it was queued, a reminder leaves only while it is still    *)
(* wanted: not for a guest who has answered, whose invitation is cancelled *)
(* or whose event has closed, and not once a newer reminder exists, not    *)
(* even if the newer one was cancelled (SUPERSEDED_BY_NEWER_REMINDER,      *)
(* REMINDER_STATE_MISSING).  One that had left may still arrive.           *)
OnlyWantedRemindersLeave ==
    [][\A i \in DOMAIN message :
          message[i].status = "QUEUED" /\ message'[i].status = "SENDING"
              => ~answered /\ remindable /\ i = Len(message')]_vars

(* A host whose retried request is refused was right to be told so: no     *)
(* reminder was made under its key (idempotentReplay comes first).         *)
RefusalMeansNothingMade ==
    \A k \in Requests :
        request[k].answer \in {"REMINDER_CONFIRMATION_STALE", "NO_ELIGIBLE_REMINDERS"}
            => kept[k] = 0

(* The tables agree with each other, and with what a host was told.        *)
StateOK == TypeOK /\ RefusalMeansNothingMade
=============================================================================
