-------------------------- MODULE RemindersProofs --------------------------
(***************************************************************************)
(* Proofs about Reminders, for any executions, requests, cooldowns, limits *)
(* and any length of time: reminders that reach a guest are spaced, none   *)
(* leaves that is no longer wanted, and the tables agree with what a host  *)
(* was told.                                                               *)
(***************************************************************************)
EXTENDS Reminders, TLAPS

MessageRow == [by : {"RULE", "HOST"}, queued : Slots, status : Status, tries : 0..MaxTries,
               reached : BOOLEAN, dispatched : BOOLEAN]
RunRow == [step : {"RUN"}, key : Key, at : Slots]
DispatchRow == [step : {"DISPATCH"}, made : Nat, key : Key]
Refusals == {"REMINDER_CONFIRMATION_STALE", "NO_ELIGIBLE_REMINDERS"}
PageRow == [step : {"IDLE", "REVIEWED", "COMMITTED", "ANSWERED"},
            seen : [remindable : BOOLEAN, answered : BOOLEAN,
                    last : {Never} \cup Slots, recent : BOOLEAN],
            at : Slots, answer : {"NONE", "QUEUED"} \cup Refusals, made : Nat]

-----------------------------------------------------------------------------
(* The inductive invariant, in four parts. *)
EnvOK ==
    /\ now \in Slots /\ changes \in 0..MaxChanges /\ faults \in 0..MaxFaults
    /\ answered \in BOOLEAN /\ remindable \in BOOLEAN

(* A run that is about to dispatch has made a reminder. *)
ScheduleOK ==
    /\ rule \in [enabled : BOOLEAN, updated : Nat, evaluated : {Never} \cup Slots]
    /\ \A run \in ran : run.key \in Key /\ run.made \in 0..Len(message)
    /\ jobs \subseteq Key
    /\ worker \in [Workers -> {Idle} \cup RunRow \cup DispatchRow]
    /\ \A w \in Workers : worker[w].step = "DISPATCH" => worker[w].made \in 1..Len(message)

(* A key is judged once: a refusal is final for the page that sent it. *)
PageOK ==
    /\ request \in [Requests -> {Fresh} \cup PageRow]
    /\ kept \in [Requests -> Nat]
    /\ \A k \in Requests :
           /\ kept[k] \in 0..Len(message)
           /\ request[k].step = "COMMITTED" => request[k].made \in 1..Len(message)
           /\ request[k].answer \in Refusals => request[k].step = "ANSWERED" /\ kept[k] = 0

(* The guest's record names the youngest reminder, or that one was         *)
(* cancelled and took the record with it.                                  *)
RecordOK ==
    /\ last \in {0, Len(message)}
    /\ last # 0 => message[last].status # "CANCELLED"
    /\ last = 0 /\ message # <<>> => message[Len(message)].status = "CANCELLED"

(* Only reminders that were sent or tried have reached the guest. *)
ReachedOK ==
    \A i \in 1..Len(message) :
        message[i].reached => message[i].status \in {"SENDING", "SENT", "FAILED"}

(* A reminder is spaced from all before it back to the last that was       *)
(* cancelled, whether or not it reaches the guest.                         *)
Spaced ==
    \A i, j \in 1..Len(message) :
        i < j /\ (\A m \in i .. j - 1 : message[m].status # "CANCELLED")
            => message[j].queued - message[i].queued >= Cooldown(j)

OutboxOK == message \in Seq(MessageRow) /\ RecordOK /\ ReachedOK /\ Spaced

IInv == EnvOK /\ ScheduleOK /\ PageOK /\ OutboxOK

-----------------------------------------------------------------------------
(* The outbox.                                                             *)

(* The slots and the cooldowns are numbers. *)
LEMMA Numbers ==
    ASSUME RemindersAssumption
    PROVE  /\ Slots \subseteq Nat /\ 0 \in Slots
           /\ RuleCooldown \in Nat \ {0} /\ HostCooldown \in Nat \ {0} /\ MaxTries \in Nat \ {0}
           /\ MaxChanges \in Nat /\ MaxFaults \in Nat
BY DEF RemindersAssumption, Slots

(* The rows stay what they were made as, a cancelled one stays cancelled,  *)
(* and the record stays or goes with its reminder.                         *)
LEMMA RowsStay ==
    ASSUME OutboxOK, message' \in Seq(MessageRow), Len(message') = Len(message),
           \A i \in 1..Len(message) :
               /\ message'[i].by = message[i].by /\ message'[i].queued = message[i].queued
               /\ message[i].status = "CANCELLED" => message'[i].status = "CANCELLED"
               /\ message'[i].reached => message'[i].status \in {"SENDING", "SENT", "FAILED"},
           \/ last' = last /\ (last # 0 => message'[last].status # "CANCELLED")
           \/ last' = 0 /\ message'[Len(message)].status = "CANCELLED"
    PROVE  OutboxOK'
<1>1. Len(message) \in Nat /\ (message' # <<>> => message # <<>>)
    BY DEF OutboxOK
<1>2. RecordOK'
    <2>1. message # <<>> => Len(message) \in 1..Len(message)
        BY DEF OutboxOK
    <2>. QED BY <1>1, <2>1 DEF OutboxOK, RecordOK
<1>3. ReachedOK'
    BY DEF ReachedOK
<1>4. Spaced'
    <2>1. SUFFICES ASSUME NEW i \in 1..Len(message), NEW j \in 1..Len(message), i < j,
                          \A m \in i .. j - 1 : message'[m].status # "CANCELLED"
                   PROVE  message'[j].queued - message'[i].queued >= Cooldown(j)'
        BY DEF Spaced
    <2>2. \A m \in i .. j - 1 : message[m].status # "CANCELLED"
        BY <1>1, <2>1
    <2>3. message[j].queued - message[i].queued >= Cooldown(j)
        BY <2>1, <2>2 DEF OutboxOK, Spaced
    <2>4. Cooldown(j)' = Cooldown(j)
        BY DEF Cooldown
    <2>. QED BY <2>3, <2>4
<1>. QED BY <1>2, <1>3, <1>4 DEF OutboxOK

(* One row is set. *)
LEMMA RowSet ==
    ASSUME OutboxOK, NEW i \in 1..Len(message), NEW row \in MessageRow,
           message' = [message EXCEPT ![i] = row],
           row.by = message[i].by, row.queued = message[i].queued,
           row.reached => row.status \in {"SENDING", "SENT", "FAILED"},
           message[i].status = "CANCELLED" => row.status = "CANCELLED",
           \/ last' = last /\ (row.status = "CANCELLED" => last # i)
           \/ row.status = "CANCELLED" /\ last' = RecordAfterCancel(i)
    PROVE  OutboxOK' /\ Len(message') = Len(message)
<1>1. /\ message' \in Seq(MessageRow) /\ Len(message') = Len(message) /\ message'[i] = row
      /\ \A j \in 1..Len(message) \ {i} : message'[j] = message[j]
    BY DEF OutboxOK
<1>2. \A j \in 1..Len(message) :
          /\ message'[j].by = message[j].by /\ message'[j].queued = message[j].queued
          /\ message[j].status = "CANCELLED" => message'[j].status = "CANCELLED"
          /\ message'[j].reached => message'[j].status \in {"SENDING", "SENT", "FAILED"}
    BY <1>1 DEF OutboxOK, ReachedOK
<1>3. \/ last' = last /\ (last # 0 => message'[last].status # "CANCELLED")
      \/ last' = 0 /\ message'[Len(message)].status = "CANCELLED"
    <2>1. last = 0 \/ (last = Len(message) /\ last \in 1..Len(message) /\ message[last].status # "CANCELLED")
        BY DEF OutboxOK, RecordOK
    <2>2. CASE last = i /\ row.status = "CANCELLED"
        BY <1>1, <2>1, <2>2 DEF RecordAfterCancel
    <2>3. CASE ~(last = i /\ row.status = "CANCELLED")
        BY <1>1, <2>1, <2>3 DEF RecordAfterCancel
    <2>. QED BY <2>2, <2>3
<1>4. OutboxOK'
    BY <1>1, <1>2, <1>3, RowsStay
<1>. QED BY <1>1, <1>4

(* A reminder is queued outside the cooldown of whoever queues it. *)
LEMMA RowQueued ==
    ASSUME RemindersAssumption, OutboxOK, NEW by \in {"RULE", "HOST"}, NEW at \in Slots,
           Queue(by, at),
           ~Recent(at, IF by = "RULE" THEN RuleCooldown ELSE HostCooldown)
    PROVE  OutboxOK' /\ Len(message') = Len(message) + 1
<1>. DEFINE row == [by |-> by, queued |-> at, status |-> "QUEUED", tries |-> 0,
                    reached |-> FALSE, dispatched |-> FALSE]
            new == Len(message) + 1
            cooldown == IF by = "RULE" THEN RuleCooldown ELSE HostCooldown
<1>1. message' = Append(message, row) /\ last' = new
    BY DEF Queue
<1>2. /\ row \in MessageRow /\ row.by = by /\ row.queued = at /\ row.status = "QUEUED"
      /\ row.reached = FALSE
    BY Numbers DEF MessageRow, Status
<1>3. cooldown \in Nat \ {0} /\ ~Recent(at, cooldown) /\ at \in Nat
    BY Numbers
<1>. HIDE DEF row, cooldown
<1>4. /\ message' \in Seq(MessageRow) /\ Len(message') = new /\ Len(message) \in Nat
      /\ message'[new] = row /\ \A i \in 1..Len(message) : message'[i] = message[i]
      /\ \A i \in 1..Len(message) : message[i].queued \in Nat
    <2>1. message \in Seq(MessageRow) /\ \A i \in 1..Len(message) : message[i] \in MessageRow
        BY DEF OutboxOK
    <2>2. \A m \in MessageRow : m.queued \in Nat
        BY Numbers DEF MessageRow
    <2>. QED BY <1>1, <1>2, <2>1, <2>2
<1>5. RecordOK'
    BY <1>1, <1>2, <1>4 DEF RecordOK
<1>6. ReachedOK'
    BY <1>2, <1>4 DEF ReachedOK, OutboxOK
<1>7. Spaced'
    <2>1. SUFFICES ASSUME NEW i \in 1..new, NEW j \in 1..new, i < j,
                          \A m \in i .. j - 1 : message'[m].status # "CANCELLED"
                   PROVE  message'[j].queued - message'[i].queued >= Cooldown(j)'
        BY <1>4 DEF Spaced
    <2>2. i \in 1..Len(message) /\ \A m \in i .. j - 1 : message[m].status # "CANCELLED"
        <3>1. i \in 1..Len(message) /\ \A m \in i .. j - 1 : m \in 1..Len(message)
            BY <1>4, <2>1
        <3>2. \A m \in i .. j - 1 : message'[m] = message[m]
            BY <1>4, <3>1
        <3>. QED BY <2>1, <3>1, <3>2
    <2>3. CASE j # new
        <3>1. j \in 1..Len(message)
            BY <1>4, <2>3
        <3>2. message[j].queued - message[i].queued >= Cooldown(j)
            BY <2>1, <2>2, <3>1 DEF OutboxOK, Spaced
        <3>3. Cooldown(j)' = Cooldown(j)
            BY <1>4, <3>1 DEF Cooldown
        <3>. QED BY <1>4, <2>2, <3>1, <3>2, <3>3
    <2>4. CASE j = new
        <3>1. Len(message) \in i .. j - 1
            BY <1>4, <2>2, <2>4
        <3>2. last = Len(message) /\ last # 0
            <4>1. message[Len(message)].status # "CANCELLED" /\ message # <<>>
                BY <2>2, <3>1
            <4>. QED BY <2>2, <4>1 DEF OutboxOK, RecordOK
        <3>. DEFINE before == message[Len(message)].queued
                    first == message[i].queued
        <3>3. before \in Nat /\ first \in Nat /\ cooldown \in Nat /\ at \in Nat
            BY <1>3, <1>4, <2>2, <3>1
        <3>4. ~(at - before < cooldown)
            BY <1>3, <3>2 DEF Recent
        <3>5. before >= first
            <4>1. CASE i = Len(message)
                BY <3>3, <4>1
            <4>2. CASE i # Len(message)
                <5>1. /\ Len(message) \in 1..Len(message) /\ i < Len(message)
                      /\ \A m \in i .. Len(message) - 1 : message[m].status # "CANCELLED"
                    BY <1>4, <2>2, <2>4, <4>2
                <5>2. before - first >= Cooldown(Len(message))
                    BY <2>2, <5>1 DEF OutboxOK, Spaced
                <5>3. Cooldown(Len(message)) \in Nat
                    BY Numbers DEF Cooldown
                <5>. HIDE DEF before, first
                <5>. QED BY <3>3, <5>2, <5>3
            <4>. QED BY <4>1, <4>2
        <3>6. /\ Cooldown(j)' = cooldown
              /\ message'[j].queued = at /\ message'[i].queued = first
            BY <1>2, <1>4, <2>2, <2>4 DEF Cooldown, cooldown
        <3>. HIDE DEF before, first
        <3>7. at - first >= cooldown
            BY <3>3, <3>4, <3>5
        <3>. QED BY <3>6, <3>7
    <2>. QED BY <2>3, <2>4
<1>. QED BY <1>4, <1>5, <1>6, <1>7 DEF OutboxOK

-----------------------------------------------------------------------------
(* What a step of one part leaves of the others.                           *)

(* The rule's tables and its executions know the reminders there are. *)
LEMMA ScheduleStays ==
    ASSUME ScheduleOK, UNCHANGED schedule, Len(message) \in Nat, Len(message') \in Nat,
           Len(message') >= Len(message)
    PROVE  ScheduleOK'
<1>1. /\ 0..Len(message) \subseteq 0..Len(message') /\ 1..Len(message) \subseteq 1..Len(message')
    OBVIOUS
<1>2. rule' = rule /\ ran' = ran /\ jobs' = jobs /\ worker' = worker
    BY DEF schedule
<1>. QED BY <1>1, <1>2 DEF ScheduleOK

(* So do the pages. *)
LEMMA PageStays ==
    ASSUME PageOK, UNCHANGED page, Len(message) \in Nat, Len(message') \in Nat,
           Len(message') >= Len(message)
    PROVE  PageOK'
<1>1. /\ 0..Len(message) \subseteq 0..Len(message') /\ 1..Len(message) \subseteq 1..Len(message')
    OBVIOUS
<1>2. request' = request /\ kept' = kept
    BY DEF page
<1>. QED BY <1>1, <1>2 DEF PageOK

(* A reminder's row with its dispatch noted. *)
LEMMA RowDispatched ==
    ASSUME OutboxOK, NEW i \in 1..Len(message), Dispatched(i), UNCHANGED last
    PROVE  OutboxOK' /\ Len(message') = Len(message)
<1>. DEFINE row == [message[i] EXCEPT !.dispatched = TRUE]
<1>1. message[i] \in MessageRow
    BY DEF OutboxOK
<1>2. /\ row \in MessageRow /\ row.by = message[i].by /\ row.queued = message[i].queued
      /\ row.status = message[i].status /\ row.reached = message[i].reached
    BY <1>1 DEF MessageRow
<1>3. message' = [message EXCEPT ![i] = row] /\ last' = last
    BY DEF Dispatched
<1>. HIDE DEF row
<1>4. row.reached => row.status \in {"SENDING", "SENT", "FAILED"}
    BY <1>2 DEF OutboxOK, ReachedOK
<1>5. row.status = "CANCELLED" => last # i
    <2>1. last = i => last # 0
        OBVIOUS
    <2>2. last # 0 => message[last].status # "CANCELLED"
        BY DEF OutboxOK, RecordOK
    <2>. QED BY <1>2, <2>1, <2>2
<1>. QED BY <1>2, <1>3, <1>4, <1>5, RowSet

(* The outbox stays if nothing is written to it. *)
LEMMA OutboxStays ==
    ASSUME OutboxOK, UNCHANGED outbox
    PROVE  OutboxOK' /\ Len(message') = Len(message) /\ Len(message) \in Nat
BY DEF OutboxOK, outbox, RecordOK, ReachedOK, Spaced, Cooldown

-----------------------------------------------------------------------------
(* The rule's runs.                                                        *)

(* A row of an execution, by its step. *)
LEMMA WorkerRows ==
    ASSUME ScheduleOK, NEW w \in Workers
    PROVE  /\ worker[w].step = "RUN" => worker[w] \in RunRow
           /\ worker[w].step = "DISPATCH" =>
                  worker[w] \in DispatchRow /\ worker[w].made \in 1..Len(message)
<1>1. worker[w] \in {Idle} \cup RunRow \cup DispatchRow
    BY DEF ScheduleOK
<1>2. Idle.step = "IDLE" /\ (\A row \in RunRow : row.step = "RUN")
      /\ (\A row \in DispatchRow : row.step = "DISPATCH")
    BY DEF Idle, RunRow, DispatchRow
<1>. QED BY <1>1, <1>2 DEF ScheduleOK

(* An execution that finishes a run has its reminder to dispatch, if any. *)
LEMMA RunFinished ==
    ASSUME ScheduleOK, NEW w \in Workers, worker[w].step = "RUN",
           NEW i \in 0..Len(message'), Finish(w, i),
           Len(message) \in Nat, Len(message') \in Nat, Len(message') >= Len(message),
           rule' \in [enabled : BOOLEAN, updated : Nat, evaluated : {Never} \cup Slots],
           ran' \subseteq ran \cup {[key |-> worker[w].key, made |-> i]}
    PROVE  ScheduleOK'
<1>. DEFINE next == [step |-> "DISPATCH", made |-> i, key |-> worker[w].key]
            row == IF i = 0 THEN Idle ELSE next
<1>1. worker[w] \in RunRow /\ worker \in [Workers -> {Idle} \cup RunRow \cup DispatchRow]
    BY WorkerRows DEF ScheduleOK
<1>2. worker[w].key \in Key
    BY <1>1 DEF RunRow
<1>3. next \in DispatchRow /\ next.made = i
    BY <1>2 DEF DispatchRow
<1>4. worker' = [worker EXCEPT ![w] = row] /\ jobs' \subseteq jobs
    BY DEF Finish
<1>5. row \in {Idle} \cup DispatchRow /\ (row.step = "DISPATCH" => row.made \in 1..Len(message'))
    <2>1. CASE i = 0
        BY <2>1 DEF Idle
    <2>2. CASE i # 0
        BY <1>3, <2>2
    <2>. QED BY <2>1, <2>2
<1>. HIDE DEF row, next
<1>6. worker' \in [Workers -> {Idle} \cup RunRow \cup DispatchRow]
    BY <1>1, <1>4, <1>5
<1>7. ASSUME NEW x \in Workers, worker'[x].step = "DISPATCH"
      PROVE  worker'[x].made \in 1..Len(message')
    <2>1. CASE x = w
        BY <1>1, <1>4, <1>5, <1>7, <2>1
    <2>2. CASE x # w
        <3>1. worker'[x] = worker[x]
            BY <1>1, <1>4, <2>2
        <3>2. worker[x].made \in 1..Len(message)
            BY <1>7, <3>1 DEF ScheduleOK
        <3>. QED BY <3>1, <3>2
    <2>. QED BY <2>1, <2>2
<1>8. ASSUME NEW run \in ran' PROVE run.key \in Key /\ run.made \in 0..Len(message')
    <2>1. CASE run \in ran
        BY <2>1 DEF ScheduleOK
    <2>2. CASE run = [key |-> worker[w].key, made |-> i]
        BY <1>2, <2>2
    <2>. QED BY <1>8, <2>1, <2>2
<1>. QED BY <1>4, <1>6, <1>7, <1>8 DEF ScheduleOK

(* The row of an execution that is idle again, or starts a run. *)
LEMMA WorkerSet ==
    ASSUME ScheduleOK, NEW w \in Workers, NEW row \in {Idle} \cup RunRow,
           worker' = [worker EXCEPT ![w] = row], jobs' \subseteq Key,
           UNCHANGED <<rule, ran>>, Len(message') = Len(message)
    PROVE  ScheduleOK'
<1>1. row.step # "DISPATCH"
    BY DEF Idle, RunRow
<1>2. \A x \in Workers : worker'[x].step = "DISPATCH" => worker'[x] = worker[x]
    BY <1>1 DEF ScheduleOK
<1>. QED BY <1>2 DEF ScheduleOK

(* The steps of an execution keep the invariant. *)
LEMMA WorkerKeeps ==
    ASSUME RemindersAssumption, IInv, NEW w \in Workers,
           \/ WorkerStep(w) \/ WorkerCrash(w)
           \/ \E key \in jobs : StartRun(w, key)
    PROVE  IInv'
<1>. USE DEF IInv
<1>1. Len(message) \in Nat
    BY DEF OutboxOK
<1>2. ASSUME UNCHANGED <<clock, page>>, faults' \in 0..MaxFaults, OutboxOK',
             Len(message') \in Nat, Len(message') >= Len(message), ScheduleOK'
      PROVE  IInv'
    <2>1. EnvOK'
        BY <1>2 DEF EnvOK, clock
    <2>. QED BY <1>1, <1>2, <2>1, PageStays
<1>3. ASSUME worker[w].step = "RUN", UNCHANGED <<clock, rule, page, outbox, faults>>,
             NEW i \in 0..Len(message), Finish(w, i), ran' = ran
      PROVE  IInv'
    <2>1. OutboxOK' /\ Len(message') = Len(message)
        BY <1>3, OutboxStays
    <2>2. rule' \in [enabled : BOOLEAN, updated : Nat, evaluated : {Never} \cup Slots]
        BY <1>3 DEF ScheduleOK
    <2>3. ScheduleOK'
        BY <1>1, <1>3, <2>1, <2>2, RunFinished
    <2>. QED BY <1>1, <1>2, <1>3, <2>1, <2>3 DEF EnvOK
<1>4. ASSUME RunReplayed(w) PROVE IInv'
    <2>1. PICK run \in Ran(worker[w].key) : Finish(w, run.made)
        BY <1>4 DEF RunReplayed
    <2>2. run.made \in 0..Len(message)
        BY <2>1 DEF Ran, ScheduleOK
    <2>. QED BY <1>3, <1>4, <2>1, <2>2 DEF RunReplayed
<1>5. ASSUME RunSkipped(w) PROVE IInv'
    BY <1>1, <1>3, <1>5 DEF RunSkipped
<1>6. ASSUME NEW i \in 0..Len(message'), Runs(w), Evaluated(w, i), OutboxOK',
             Len(message') \in Nat, Len(message') >= Len(message)
      PROVE  IInv'
    <2>1. worker[w] \in RunRow /\ worker[w].step = "RUN"
        BY <1>6, WorkerRows DEF Runs
    <2>2. worker[w].at \in Slots
        BY <2>1 DEF RunRow
    <2>3. rule' \in [enabled : BOOLEAN, updated : Nat, evaluated : {Never} \cup Slots]
        <3>1. rule \in [enabled : BOOLEAN, updated : Nat, evaluated : {Never} \cup Slots]
            BY DEF ScheduleOK
        <3>2. rule' = [rule EXCEPT !.evaluated = worker[w].at, !.updated = @ + 1]
            BY <1>6 DEF Evaluated
        <3>. DEFINE version == rule.updated + 1
        <3>3. version \in Nat
            BY <3>1
        <3>4. rule' = [rule EXCEPT !.evaluated = worker[w].at, !.updated = version]
            BY <3>2
        <3>. HIDE DEF version
        <3>. QED BY <2>2, <3>1, <3>3, <3>4
    <2>4. ScheduleOK'
        BY <1>1, <1>6, <2>1, <2>3, RunFinished DEF Evaluated
    <2>. QED BY <1>2, <1>6, <2>4 DEF Evaluated, EnvOK
<1>7. ASSUME RunQueues(w) PROVE IInv'
    <2>1. worker[w].at \in Slots
        BY <1>7, WorkerRows DEF RunQueues, Runs, RunRow
    <2>2. Queue("RULE", worker[w].at) /\ ~Recent(worker[w].at, RuleCooldown)
        BY <1>7 DEF RunQueues, RuleSelects, Eligible
    <2>3. OutboxOK' /\ Len(message') = Len(message) + 1
        BY <2>1, <2>2, RowQueued
    <2>4. Len(message) + 1 \in 0..Len(message')
        BY <1>1, <2>3
    <2>. QED BY <1>1, <1>6, <1>7, <2>3, <2>4 DEF RunQueues
<1>8. ASSUME RunExcludes(w) PROVE IInv'
    <2>1. OutboxOK' /\ Len(message') = Len(message)
        BY <1>8, OutboxStays DEF RunExcludes
    <2>. QED BY <1>1, <1>6, <1>8, <2>1 DEF RunExcludes
<1>9. ASSUME DispatchRun(w) PROVE IInv'
    <2>1. worker[w].made \in 1..Len(message)
        BY <1>9, WorkerRows DEF DispatchRun
    <2>2. OutboxOK' /\ Len(message') = Len(message)
        BY <1>9, <2>1, RowDispatched DEF DispatchRun
    <2>3. ScheduleOK'
        BY <1>9, <2>2, WorkerSet DEF DispatchRun, ScheduleOK
    <2>. QED BY <1>1, <1>2, <1>9, <2>2, <2>3 DEF DispatchRun, EnvOK
<1>10. ASSUME WorkerCrash(w) PROVE IInv'
    <2>1. OutboxOK' /\ Len(message') = Len(message)
        BY <1>10, OutboxStays DEF WorkerCrash
    <2>2. ScheduleOK'
        BY <1>10, <2>1, WorkerSet DEF WorkerCrash, ScheduleOK
    <2>3. faults' \in 0..MaxFaults
        BY <1>10, Numbers DEF WorkerCrash, Fault, EnvOK
    <2>. QED BY <1>1, <1>2, <1>10, <2>1, <2>2, <2>3 DEF WorkerCrash
<1>11. ASSUME NEW key \in jobs, StartRun(w, key) PROVE IInv'
    <2>1. OutboxOK' /\ Len(message') = Len(message)
        BY <1>11, OutboxStays DEF StartRun
    <2>2. [step |-> "RUN", key |-> key, at |-> now] \in RunRow
        BY DEF RunRow, ScheduleOK, EnvOK
    <2>3. ScheduleOK'
        BY <1>11, <2>1, <2>2, WorkerSet DEF StartRun, ScheduleOK
    <2>. QED BY <1>1, <1>2, <1>11, <2>1, <2>3 DEF StartRun, EnvOK
<1>. QED BY <1>4, <1>5, <1>7, <1>8, <1>9, <1>10, <1>11 DEF WorkerStep

-----------------------------------------------------------------------------
(* The host's pages.                                                       *)

(* What a page may have seen. *)
LEMMA Selections ==
    ASSUME RemindersAssumption, EnvOK, OutboxOK
    PROVE  Selection \in [remindable : BOOLEAN, answered : BOOLEAN,
                          last : {Never} \cup Slots, recent : BOOLEAN]
<1>1. last # 0 => message[last].queued \in Slots
    <2>1. last # 0 => last \in 1..Len(message)
        BY DEF OutboxOK, RecordOK
    <2>2. \A i \in 1..Len(message) : message[i] \in MessageRow
        BY DEF OutboxOK
    <2>. QED BY <2>1, <2>2 DEF MessageRow
<1>2. Recent(now, HostCooldown) \in BOOLEAN
    BY DEF Recent
<1>. QED BY <1>1, <1>2 DEF Selection, EnvOK

(* A page's row is set; its key, if it made a reminder, was not judged. *)
LEMMA PageSet ==
    ASSUME PageOK, NEW k \in Requests, NEW row \in PageRow,
           request' = [request EXCEPT ![k] = row],
           Len(message) \in Nat, Len(message') \in Nat, Len(message') >= Len(message),
           row.step = "COMMITTED" => row.made \in 1..Len(message'),
           row.answer \in Refusals => row.step = "ANSWERED" /\ kept'[k] = 0,
           \/ kept' = kept
           \/ kept' = [kept EXCEPT ![k] = Len(message')]
    PROVE  PageOK'
<1>1. /\ request'[k] = row /\ \A x \in Requests \ {k} : request'[x] = request[x]
      /\ request' \in [Requests -> {Fresh} \cup PageRow]
    BY DEF PageOK
<1>2. /\ kept' \in [Requests -> Nat] /\ kept'[k] \in 0..Len(message')
      /\ \A x \in Requests \ {k} : kept'[x] = kept[x]
    BY DEF PageOK
<1>3. ASSUME NEW x \in Requests
      PROVE  /\ kept'[x] \in 0..Len(message')
             /\ request'[x].step = "COMMITTED" => request'[x].made \in 1..Len(message')
             /\ request'[x].answer \in Refusals => request'[x].step = "ANSWERED" /\ kept'[x] = 0
    <2>1. CASE x = k
        BY <1>1, <1>2, <2>1
    <2>2. CASE x # k
        <3>1. request'[x] = request[x] /\ kept'[x] = kept[x]
            BY <1>1, <1>2, <2>2
        <3>2. /\ kept[x] \in 0..Len(message)
              /\ request[x].step = "COMMITTED" => request[x].made \in 1..Len(message)
              /\ request[x].answer \in Refusals => request[x].step = "ANSWERED" /\ kept[x] = 0
            BY DEF PageOK
        <3>. QED BY <3>1, <3>2
    <2>. QED BY <2>1, <2>2
<1>. QED BY <1>1, <1>2, <1>3 DEF PageOK

(* A page that has reviewed or sent holds a row of its own. *)
LEMMA PageRows ==
    ASSUME PageOK, NEW k \in Requests, request[k].step \in {"REVIEWED", "COMMITTED"}
    PROVE  /\ request[k] \in PageRow /\ request[k].answer \notin Refusals
           /\ kept[k] \in 0..Len(message)
<1>1. request[k] # Fresh
    BY DEF Fresh
<1>. QED BY <1>1 DEF PageOK

(* A page's row with the reminder it made. *)
LEMMA RowMade ==
    ASSUME NEW page1 \in PageRow, NEW i \in Nat
    PROVE  LET row == [page1 EXCEPT !.step = "COMMITTED", !.made = i] IN
           /\ row \in PageRow /\ row.step = "COMMITTED" /\ row.made = i
           /\ row.answer = page1.answer
BY DEF PageRow

(* The answer of a page. *)
LEMMA PageAnswered ==
    ASSUME PageOK, NEW k \in Requests, request[k].step \in {"REVIEWED", "COMMITTED"},
           NEW answer \in {"QUEUED"} \cup Refusals, Answered(k, answer),
           answer \in Refusals => kept[k] = 0, UNCHANGED kept,
           Len(message) \in Nat, Len(message') = Len(message)
    PROVE  PageOK'
<1>. DEFINE row == [request[k] EXCEPT !.step = "ANSWERED", !.answer = answer]
<1>1. request[k] \in PageRow
    BY PageRows
<1>2. row \in PageRow /\ row.step = "ANSWERED" /\ row.answer = answer
    BY <1>1 DEF PageRow
<1>3. request' = [request EXCEPT ![k] = row]
    BY DEF Answered, PageOK
<1>. HIDE DEF row
<1>4. Len(message') \in Nat /\ Len(message') >= Len(message)
    OBVIOUS
<1>5. row.step = "COMMITTED" => row.made \in 1..Len(message')
    BY <1>2
<1>6. row.answer \in Refusals => row.step = "ANSWERED" /\ kept'[k] = 0
    BY <1>2
<1>. QED BY <1>2, <1>3, <1>4, <1>5, <1>6, PageSet

(* The steps of a page keep the invariant. *)
LEMMA PageKeeps ==
    ASSUME RemindersAssumption, IInv, NEW k \in Requests,
           \/ Review(k) \/ SendReplayed(k) \/ SendStale(k)
           \/ SendRefused(k) \/ Send(k) \/ Enqueue(k) \/ EnqueueFails(k)
    PROVE  IInv'
<1>. USE DEF IInv
<1>1. Len(message) \in Nat
    BY DEF OutboxOK
<1>2. ASSUME UNCHANGED <<clock, schedule>>, faults' \in 0..MaxFaults, OutboxOK',
             Len(message') \in Nat, Len(message') >= Len(message), PageOK'
      PROVE  IInv'
    <2>1. EnvOK'
        BY <1>2 DEF EnvOK, clock
    <2>. QED BY <1>1, <1>2, <2>1, ScheduleStays
<1>3. ASSUME UNCHANGED outbox PROVE OutboxOK' /\ Len(message') = Len(message)
    BY <1>3, OutboxStays
<1>4. ASSUME Review(k) PROVE IInv'
    <2>. DEFINE row == [step |-> "REVIEWED", seen |-> Selection, at |-> now,
                        answer |-> "NONE", made |-> 0]
    <2>1. request' = [request EXCEPT ![k] = row]
        BY <1>4 DEF Review
    <2>2. row \in PageRow /\ row.step = "REVIEWED" /\ row.answer \notin Refusals
        <3>1. now \in Slots
            BY DEF EnvOK
        <3>. HIDE DEF IInv
        <3>2. Selection \in [remindable : BOOLEAN, answered : BOOLEAN,
                             last : {Never} \cup Slots, recent : BOOLEAN]
            BY Selections DEF IInv
        <3>. QED BY <3>1, <3>2 DEF PageRow, Refusals
    <2>. HIDE DEF row
    <2>3. PageOK'
        <3>1. Len(message') \in Nat /\ Len(message') >= Len(message)
            BY <1>1, <1>3, <1>4 DEF Review
        <3>2. row.step = "COMMITTED" => row.made \in 1..Len(message')
            BY <2>2
        <3>3. row.answer \in Refusals => row.step = "ANSWERED" /\ kept'[k] = 0
            BY <2>2
        <3>. QED BY <1>1, <1>4, <2>1, <2>2, <3>1, <3>2, <3>3, PageSet DEF Review
    <2>. QED BY <1>1, <1>2, <1>3, <1>4, <2>3 DEF Review, EnvOK
<1>5. ASSUME SendReplayed(k) PROVE IInv'
    <2>. DEFINE row == [request[k] EXCEPT !.step = "COMMITTED", !.made = kept[k]]
    <2>1. request[k] \in PageRow /\ request[k].answer \notin Refusals /\ kept[k] \in 1..Len(message)
        BY <1>1, <1>5, PageRows DEF SendReplayed, Known
    <2>2. /\ row \in PageRow /\ row.step = "COMMITTED" /\ row.answer = request[k].answer
          /\ row.made = kept[k]
        <3>1. kept[k] \in Nat
            BY <2>1
        <3>. QED BY <2>1, <3>1, RowMade
    <2>3. request' = [request EXCEPT ![k] = row]
        BY <1>5 DEF SendReplayed, PageOK
    <2>. HIDE DEF row
    <2>4. PageOK'
        <3>1. Len(message') \in Nat /\ Len(message') >= Len(message)
            BY <1>1, <1>3, <1>5 DEF SendReplayed
        <3>2. row.step = "COMMITTED" => row.made \in 1..Len(message')
            BY <1>3, <1>5, <2>1, <2>2 DEF SendReplayed
        <3>3. row.answer \in Refusals => row.step = "ANSWERED" /\ kept'[k] = 0
            BY <2>1, <2>2
        <3>. QED BY <1>1, <1>5, <2>2, <2>3, <3>1, <3>2, <3>3, PageSet DEF SendReplayed
    <2>. QED BY <1>1, <1>2, <1>3, <1>5, <2>4 DEF SendReplayed, EnvOK
<1>6. ASSUME SendStale(k) PROVE IInv'
    <2>1. PageOK'
        BY <1>1, <1>3, <1>6, PageAnswered DEF SendStale, Known, Refusals
    <2>. QED BY <1>1, <1>2, <1>3, <1>6, <2>1 DEF SendStale, EnvOK
<1>7. ASSUME SendRefused(k) PROVE IInv'
    <2>1. PageOK'
        BY <1>1, <1>3, <1>7, PageAnswered DEF SendRefused, Known, Refusals
    <2>. QED BY <1>1, <1>2, <1>3, <1>7, <2>1 DEF SendRefused, EnvOK
<1>8. ASSUME Send(k) PROVE IInv'
    <2>. DEFINE row == [request[k] EXCEPT !.step = "COMMITTED", !.made = Len(message) + 1]
    <2>1. OutboxOK' /\ Len(message') = Len(message) + 1
        <3>1. Queue("HOST", now) /\ ~Recent(now, HostCooldown) /\ now \in Slots
            BY <1>8 DEF Send, Eligible, EnvOK
        <3>. QED BY <3>1, RowQueued
    <2>2. request[k] \in PageRow /\ request[k].answer \notin Refusals
        BY <1>8, PageRows DEF Send
    <2>3. /\ row \in PageRow /\ row.step = "COMMITTED" /\ row.answer = request[k].answer
          /\ row.made = Len(message) + 1
        <3>1. Len(message) + 1 \in Nat
            BY <1>1
        <3>. QED BY <2>2, <3>1, RowMade
    <2>4. request' = [request EXCEPT ![k] = row] /\ kept' = [kept EXCEPT ![k] = Len(message')]
        BY <1>8, <2>1 DEF Send, PageOK
    <2>. HIDE DEF row
    <2>5. PageOK'
        <3>1. Len(message') \in Nat /\ Len(message') >= Len(message)
            BY <1>1, <2>1
        <3>2. row.step = "COMMITTED" => row.made \in 1..Len(message')
            BY <1>1, <2>1, <2>3
        <3>3. row.answer \in Refusals => row.step = "ANSWERED" /\ kept'[k] = 0
            BY <2>2, <2>3
        <3>. QED BY <1>1, <2>3, <2>4, <3>1, <3>2, <3>3, PageSet
    <2>. QED BY <1>1, <1>2, <1>8, <2>1, <2>5 DEF Send, EnvOK
<1>9. ASSUME Enqueue(k) PROVE IInv'
    <2>1. request[k].made \in 1..Len(message)
        BY <1>9 DEF Enqueue, PageOK
    <2>2. OutboxOK' /\ Len(message') = Len(message)
        BY <1>9, <2>1, RowDispatched DEF Enqueue
    <2>3. PageOK'
        BY <1>1, <1>9, <2>2, PageAnswered DEF Enqueue, Refusals
    <2>. QED BY <1>1, <1>2, <1>9, <2>2, <2>3 DEF Enqueue, EnvOK
<1>10. ASSUME EnqueueFails(k) PROVE IInv'
    <2>. DEFINE row == [request[k] EXCEPT !.step = "REVIEWED"]
    <2>1. request[k] \in PageRow /\ request[k].answer \notin Refusals
        BY <1>10, PageRows DEF EnqueueFails
    <2>2. row \in PageRow /\ row.step = "REVIEWED" /\ row.answer = request[k].answer
        BY <2>1 DEF PageRow
    <2>3. request' = [request EXCEPT ![k] = row]
        BY <1>10 DEF EnqueueFails, PageOK
    <2>. HIDE DEF row
    <2>4. PageOK'
        <3>1. Len(message') \in Nat /\ Len(message') >= Len(message)
            BY <1>1, <1>3, <1>10 DEF EnqueueFails
        <3>2. row.step = "COMMITTED" => row.made \in 1..Len(message')
            BY <2>2
        <3>3. row.answer \in Refusals => row.step = "ANSWERED" /\ kept'[k] = 0
            BY <2>1, <2>2
        <3>. QED BY <1>1, <1>10, <2>2, <2>3, <3>1, <3>2, <3>3, PageSet DEF EnqueueFails
    <2>5. faults' \in 0..MaxFaults
        BY <1>10, Numbers DEF EnqueueFails, Fault, EnvOK
    <2>. QED BY <1>1, <1>2, <1>3, <1>10, <2>4, <2>5 DEF EnqueueFails
<1>. QED BY <1>4, <1>5, <1>6, <1>7, <1>8, <1>9, <1>10

-----------------------------------------------------------------------------
(* The claim, the provider and the surroundings.                           *)

(* The steps of a reminder's send job keep the invariant. *)
LEMMA SendKeeps ==
    ASSUME RemindersAssumption, IInv, NEW i \in 1..Len(message),
           ClaimStep(i) \/ ProviderAccepts(i) \/ Record(i) \/ AnswerLost(i) \/ Reported(i)
    PROVE  IInv'
<1>. USE DEF IInv
<1>1. Len(message) \in Nat /\ message[i] \in MessageRow
    BY DEF OutboxOK
<1>2. UNCHANGED <<clock, schedule, page>> /\ faults' \in 0..MaxFaults
    BY Numbers DEF ClaimStep, ClaimAtLimit, ClaimCancels, ClaimSends, ProviderAccepts, Record,
       AnswerLost, Reported, Fault, EnvOK
<1>3. ASSUME NEW row \in MessageRow, message' = [message EXCEPT ![i] = row],
             row.by = message[i].by, row.queued = message[i].queued,
             row.reached => row.status \in {"SENDING", "SENT", "FAILED"},
             message[i].status # "CANCELLED",
             \/ last' = last /\ row.status # "CANCELLED"
             \/ row.status = "CANCELLED" /\ last' = RecordAfterCancel(i)
      PROVE  IInv'
    <2>1. OutboxOK' /\ Len(message') = Len(message)
        BY <1>3, RowSet
    <2>2. EnvOK'
        BY <1>2 DEF EnvOK, clock
    <2>. QED BY <1>1, <1>2, <2>1, <2>2, ScheduleStays, PageStays
<1>4. ASSUME NEW status \in Status, message' = [message EXCEPT ![i].status = status],
             message[i].reached => status \in {"SENDING", "SENT", "FAILED"},
             message[i].status # "CANCELLED",
             \/ last' = last /\ status # "CANCELLED"
             \/ status = "CANCELLED" /\ last' = RecordAfterCancel(i)
      PROVE  IInv'
    <2>. DEFINE row == [message[i] EXCEPT !.status = status]
    <2>1. /\ row \in MessageRow /\ row.status = status /\ row.reached = message[i].reached
          /\ row.by = message[i].by /\ row.queued = message[i].queued
        BY <1>1 DEF MessageRow
    <2>2. message' = [message EXCEPT ![i] = row]
        BY <1>4
    <2>. HIDE DEF row
    <2>. QED BY <1>3, <1>4, <2>1, <2>2
<1>5. message[i].reached => message[i].status \in {"SENDING", "SENT", "FAILED"}
    BY DEF OutboxOK, ReachedOK
<1>6. CASE ClaimAtLimit(i)
    BY <1>4, <1>5, <1>6 DEF ClaimAtLimit, Claimable, Status
<1>7. CASE ClaimCancels(i)
    BY <1>4, <1>5, <1>7 DEF ClaimCancels, Claimable, Status
<1>8. CASE ClaimSends(i)
    <2>. DEFINE tries == message[i].tries + 1
                row == [message[i] EXCEPT !.status = "SENDING", !.tries = tries]
    <2>1. tries \in 0..MaxTries
        <3>1. message[i].tries \in 0..MaxTries /\ message[i].tries < MaxTries
            BY <1>1, <1>8 DEF ClaimSends, MessageRow
        <3>. QED BY <3>1, Numbers
    <2>2. message' = [message EXCEPT ![i] = row]
        BY <1>8 DEF ClaimSends
    <2>. HIDE DEF tries
    <2>3. /\ row \in MessageRow /\ row.status = "SENDING"
          /\ row.by = message[i].by /\ row.queued = message[i].queued
        BY <1>1, <2>1 DEF MessageRow, Status
    <2>. HIDE DEF row
    <2>. QED BY <1>3, <1>8, <2>2, <2>3 DEF ClaimSends, Claimable
<1>9. CASE ProviderAccepts(i)
    <2>. DEFINE row == [message[i] EXCEPT !.reached = TRUE]
    <2>1. /\ row \in MessageRow /\ row.status = message[i].status
          /\ row.by = message[i].by /\ row.queued = message[i].queued
        BY <1>1 DEF MessageRow
    <2>2. message' = [message EXCEPT ![i] = row] /\ message[i].status = "SENDING" /\ last' = last
        BY <1>9 DEF ProviderAccepts
    <2>. HIDE DEF row
    <2>. QED BY <1>3, <2>1, <2>2
<1>10. CASE Record(i)
    <2>1. PICK status \in IF message[i].reached THEN {"SENT"} ELSE {"QUEUED", "FAILED"} :
              message' = [message EXCEPT ![i].status = status]
        BY <1>10 DEF Record
    <2>. QED BY <1>4, <1>10, <2>1 DEF Record, Status
<1>11. CASE AnswerLost(i)
    BY <1>4, <1>11 DEF AnswerLost, Status
<1>12. CASE Reported(i)
    BY <1>4, <1>12 DEF Reported, Status
<1>. QED BY <1>6, <1>7, <1>8, <1>9, <1>10, <1>11, <1>12 DEF ClaimStep

(* The sweep keeps the invariant. *)
LEMMA SweepKeeps ==
    ASSUME RemindersAssumption, IInv, Sweep
    PROVE  IInv'
<1>. USE DEF IInv
<1>1. Len(message) \in Nat /\ message \in Seq(MessageRow) /\ DOMAIN message = 1..Len(message)
    BY DEF OutboxOK
<1>. DEFINE row(i) == [message[i] EXCEPT !.dispatched = message[i].dispatched \/ Pending(i)]
<1>2. message' = [i \in 1..Len(message) |-> row(i)]
    BY <1>1 DEF Sweep
<1>3. ASSUME NEW i \in 1..Len(message)
      PROVE  /\ row(i) \in MessageRow /\ row(i).status = message[i].status
             /\ row(i).by = message[i].by /\ row(i).queued = message[i].queued
             /\ row(i).reached = message[i].reached
    <2>1. message[i] \in MessageRow
        BY <1>1
    <2>2. (message[i].dispatched \/ Pending(i)) \in BOOLEAN
        BY <2>1 DEF Pending
    <2>. QED BY <2>1, <2>2 DEF MessageRow
<1>. HIDE DEF row
<1>4. message' \in Seq(MessageRow) /\ Len(message') = Len(message)
    <2>1. message' \in [1..Len(message) -> MessageRow]
        BY <1>2, <1>3
    <2>. QED BY <1>1, <2>1
<1>5. \A i \in 1..Len(message) :
          /\ message'[i].by = message[i].by /\ message'[i].queued = message[i].queued
          /\ message[i].status = "CANCELLED" => message'[i].status = "CANCELLED"
          /\ message'[i].reached => message'[i].status \in {"SENDING", "SENT", "FAILED"}
    BY <1>2, <1>3 DEF OutboxOK, ReachedOK
<1>6. last' = last /\ (last # 0 => message'[last].status # "CANCELLED")
    <2>1. last \in {0, Len(message)} /\ (last # 0 => message[last].status # "CANCELLED")
        BY DEF OutboxOK, RecordOK
    <2>2. last # 0 => last \in 1..Len(message)
        BY <1>1, <2>1
    <2>. QED BY <1>2, <1>3, <2>1, <2>2 DEF Sweep
<1>7. OutboxOK'
    BY <1>4, <1>5, <1>6, RowsStay
<1>8. ScheduleOK'
    <2>1. DueKeys \subseteq Key
        BY DEF DueKeys, Key, ScheduleOK, EnvOK
    <2>. QED BY <1>4, <2>1 DEF Sweep, ScheduleOK
<1>9. EnvOK' /\ PageOK'
    BY <1>1, <1>4, PageStays DEF Sweep, EnvOK, clock
<1>. QED BY <1>7, <1>8, <1>9

(* Time, the guest, the event and the rule's edits keep the invariant. *)
LEMMA SurroundingsKeep ==
    ASSUME RemindersAssumption, IInv,
           Tick \/ GuestAnswers \/ EventChanges \/ \E on \in BOOLEAN : EditRule(on)
    PROVE  IInv'
<1>. USE DEF IInv
<1>1. UNCHANGED <<page, outbox, faults>>
    BY DEF Tick, GuestAnswers, EventChanges, EditRule
<1>2. OutboxOK' /\ Len(message') = Len(message) /\ Len(message) \in Nat
    BY <1>1, OutboxStays
<1>3. PageOK'
    BY <1>1, <1>2, PageStays
<1>4. EnvOK'
    <2>1. /\ now \in 0..MaxTime /\ changes \in 0..MaxChanges /\ faults \in 0..MaxFaults
          /\ answered \in BOOLEAN /\ remindable \in BOOLEAN
          /\ MaxTime \in Nat /\ MaxChanges \in Nat
        BY DEF EnvOK, Slots, RemindersAssumption
    <2>2. Change => changes' \in 0..MaxChanges
        BY <2>1 DEF Change
    <2>3. now < MaxTime => now + 1 \in 0..MaxTime
        BY <2>1
    <2>4. now' \in 0..MaxTime /\ changes' \in 0..MaxChanges
        BY <2>1, <2>2, <2>3 DEF Tick, GuestAnswers, EventChanges, EditRule
    <2>5. answered' \in BOOLEAN /\ remindable' \in BOOLEAN
        BY <2>1 DEF Tick, GuestAnswers, EventChanges, EditRule
    <2>. QED BY <1>1, <2>1, <2>4, <2>5 DEF EnvOK, Slots
<1>5. ScheduleOK'
    <2>1. CASE UNCHANGED schedule
        BY <1>2, <2>1, ScheduleStays
    <2>2. CASE \E on \in BOOLEAN : EditRule(on)
        <3>1. PICK on \in BOOLEAN : EditRule(on)
            BY <2>2
        <3>. DEFINE version == rule.updated + 1
        <3>2. rule' = [rule EXCEPT !.enabled = on, !.updated = version]
            BY <3>1 DEF EditRule
        <3>3. version \in Nat /\ rule \in [enabled : BOOLEAN, updated : Nat,
                                           evaluated : {Never} \cup Slots]
            BY DEF ScheduleOK
        <3>. HIDE DEF version
        <3>4. rule' \in [enabled : BOOLEAN, updated : Nat, evaluated : {Never} \cup Slots]
            BY <3>2, <3>3
        <3>. QED BY <1>2, <3>1, <3>4 DEF EditRule, ScheduleOK
    <2>. QED BY <2>1, <2>2 DEF Tick, GuestAnswers, EventChanges
<1>. QED BY <1>2, <1>3, <1>4, <1>5

-----------------------------------------------------------------------------
(* The first state satisfies the invariant. *)
LEMMA InitInvariant ==
    ASSUME RemindersAssumption, Init
    PROVE  IInv
<1>1. EnvOK
    <2>1. 0 \in Slots /\ 0 \in 0..MaxChanges /\ 0 \in 0..MaxFaults
        BY Numbers
    <2>. QED BY <2>1 DEF Init, EnvOK
<1>2. message \in Seq(MessageRow) /\ Len(message) = 0
    BY DEF Init
<1>3. ScheduleOK
    BY DEF Init, ScheduleOK, Idle
<1>4. PageOK
    <2>1. /\ \A k \in Requests : kept[k] = 0 /\ request[k] = Fresh
          /\ request \in [Requests -> {Fresh} \cup PageRow] /\ kept \in [Requests -> Nat]
        BY DEF Init
    <2>2. Fresh.step = "IDLE" /\ Fresh.answer \notin Refusals
        BY DEF Fresh, Refusals
    <2>3. 0 \in 0..Len(message)
        BY <1>2
    <2>. QED BY <2>1, <2>2, <2>3 DEF PageOK
<1>5. OutboxOK
    BY <1>2 DEF Init, OutboxOK, RecordOK, ReachedOK, Spaced
<1>. QED BY <1>1, <1>3, <1>4, <1>5 DEF IInv

(* Every step keeps the invariant. *)
LEMMA StepInvariant ==
    ASSUME RemindersAssumption, IInv, [Next]_vars
    PROVE  IInv'
<1>1. CASE UNCHANGED vars
    <2>1. OutboxOK' /\ Len(message') = Len(message) /\ Len(message) \in Nat
        BY <1>1, OutboxStays DEF vars, IInv
    <2>2. EnvOK'
        BY <1>1 DEF vars, clock, EnvOK, IInv
    <2>. QED BY <1>1, <2>1, <2>2, ScheduleStays, PageStays DEF vars, IInv
<1>2. CASE Next
    <2>1. DOMAIN message = 1..Len(message)
        BY DEF IInv, OutboxOK
    <2>. QED BY <1>2, <2>1, WorkerKeeps, PageKeeps, SendKeeps, SweepKeeps, SurroundingsKeep DEF Next
<1>. QED BY <1>1, <1>2

(* The invariant holds in every reachable state. *)
THEOREM RemindersInvariance == Spec => []IInv
<1>1. Init => IInv
    BY InitInvariant, RemindersAssumption
<1>2. IInv /\ [Next]_vars => IInv'
    BY StepInvariant, RemindersAssumption
<1>. QED BY <1>1, <1>2, PTL DEF Spec

-----------------------------------------------------------------------------
(* The rows are typed, the guest's record names a reminder that was made    *)
(* and not cancelled, and a host whose retried request is refused was right *)
(* to be told so.                                                           *)
THEOREM RemindersAreTrue == Spec => []StateOK
<1>1. ASSUME IInv PROVE TypeOK
    <2>1. EnvOK /\ ScheduleOK /\ PageOK /\ OutboxOK
        BY <1>1 DEF IInv
    <2>2. \A w \in Workers : worker[w].step \in {"IDLE", "RUN", "DISPATCH"}
        BY <2>1 DEF ScheduleOK, Idle, RunRow, DispatchRow
    <2>3. \A k \in Requests :
              /\ request[k].step \in {"IDLE", "REVIEWED", "COMMITTED", "ANSWERED"}
              /\ kept[k] \in 0..Len(message)
        BY <2>1 DEF PageOK, PageRow, Fresh
    <2>4. \A i \in DOMAIN message : message[i] \in MessageRow
        BY <2>1 DEF OutboxOK
    <2>5. last \in 0..Len(message) /\ (last # 0 => message[last].status # "CANCELLED")
        BY <2>1 DEF OutboxOK, RecordOK
    <2>. QED BY <2>1, <2>2, <2>3, <2>4, <2>5 DEF TypeOK, EnvOK, ScheduleOK, MessageRow
<1>2. IInv => RefusalMeansNothingMade
    BY DEF IInv, PageOK, Refusals, RefusalMeansNothingMade
<1>3. IInv => StateOK
    BY <1>1, <1>2 DEF StateOK
<1>. QED BY <1>3, RemindersInvariance, PTL

(* Two reminders that reach the guest are spaced by the cooldown of whoever *)
(* made the later one, unless one between them was cancelled.               *)
THEOREM RemindersAreSpaced == Spec => []RemindersSpaced
<1>1. ASSUME IInv PROVE RemindersSpaced
    <2>1. DOMAIN message = 1..Len(message) /\ Len(message) \in Nat /\ ReachedOK /\ Spaced
        BY <1>1 DEF IInv, OutboxOK
    <2>2. SUFFICES ASSUME NEW i \in 1..Len(message), NEW j \in 1..Len(message), i < j,
                          message[i].reached,
                          \A m \in i + 1 .. j - 1 : message[m].status # "CANCELLED"
                   PROVE  message[j].queued - message[i].queued >= Cooldown(j)
        BY <2>1 DEF RemindersSpaced
    <2>3. message[i].status # "CANCELLED"
        BY <2>1, <2>2 DEF ReachedOK
    <2>4. \A m \in i .. j - 1 : m = i \/ m \in i + 1 .. j - 1
        BY <2>1
    <2>5. \A m \in i .. j - 1 : message[m].status # "CANCELLED"
        BY <2>2, <2>3, <2>4
    <2>. QED BY <2>1, <2>2, <2>5 DEF Spaced
<1>. QED BY <1>1, RemindersInvariance, PTL

(* A reminder leaves only for a guest who has not answered and may be       *)
(* reminded, and only if no younger reminder exists.                        *)
THEOREM OnlyWantedLeave == Spec => OnlyWantedRemindersLeave
<1>. DEFINE Wanted(i) == message[i].status = "QUEUED" /\ message'[i].status = "SENDING"
                             => ~answered /\ remindable /\ i = Len(message')
<1>1. ASSUME IInv, [Next]_vars, NEW i \in DOMAIN message PROVE Wanted(i)
    <2>. DEFINE Leaves == message[i].status = "QUEUED" /\ message'[i].status = "SENDING"
    <2>1. message \in Seq(MessageRow) /\ DOMAIN message = 1..Len(message) /\ i \in 1..Len(message)
        BY <1>1 DEF IInv, OutboxOK
    <2>2. CASE UNCHANGED message
        BY <2>2
    <2>3. ASSUME NEW by, NEW at, Queue(by, at) PROVE ~Leaves
        <3>1. message'[i] = message[i]
            BY <2>1, <2>3 DEF Queue
        <3>. QED BY <3>1
    <2>4. ASSUME NEW j, Dispatched(j) PROVE ~Leaves
        <3>1. message'[i].status = message[i].status
            <4>1. message[i] \in MessageRow
                BY <2>1
            <4>2. message' = [message EXCEPT ![j] = [message[j] EXCEPT !.dispatched = TRUE]]
                BY <2>4 DEF Dispatched
            <4>3. message'[i] = IF i = j THEN [message[i] EXCEPT !.dispatched = TRUE] ELSE message[i]
                BY <2>1, <4>2
            <4>. QED BY <4>1, <4>3 DEF MessageRow
        <3>. QED BY <3>1
    <2>5. CASE Sweep
        <3>1. /\ message'[i] = [message[i] EXCEPT !.dispatched = @ \/ Pending(i)]
              /\ message[i] \in MessageRow
            BY <2>1, <2>5 DEF Sweep
        <3>2. message'[i].status = message[i].status
            BY <3>1 DEF MessageRow
        <3>. QED BY <3>2
    <2>6. ASSUME NEW j \in 1..Len(message), ClaimStep(j) \/ ProviderAccepts(j) \/ Record(j)
                     \/ AnswerLost(j) \/ Reported(j),
                 ~ClaimSends(j)
          PROVE  ~Leaves
        <3>1. message[j] \in MessageRow /\ message[i] \in MessageRow
            BY <2>1
        <3>2. CASE ProviderAccepts(j)
            <4>1. message[j].status = "SENDING"
                BY <3>2 DEF ProviderAccepts
            <4>2. i # j => message'[i] = message[i]
                BY <2>1, <3>2 DEF ProviderAccepts
            <4>. QED BY <4>1, <4>2
        <3>3. CASE ~ProviderAccepts(j)
            <4>1. PICK status \in {"FAILED", "CANCELLED", "SENT", "QUEUED"} :
                      message' = [message EXCEPT ![j].status = status]
                BY <2>6, <3>3 DEF ClaimStep, ClaimAtLimit, ClaimCancels, Record, AnswerLost, Reported
            <4>2. i = j => message'[i].status = status
                BY <2>1, <3>1, <4>1 DEF MessageRow
            <4>3. i # j => message'[i] = message[i]
                BY <2>1, <4>1
            <4>. QED BY <4>2, <4>3
        <3>. QED BY <3>2, <3>3
    <2>7. ASSUME NEW j \in 1..Len(message), ClaimSends(j) PROVE Wanted(i)
        <3>1. /\ StillWanted /\ last = j
              /\ message' = [message EXCEPT ![j].status = "SENDING", ![j].tries = @ + 1]
            BY <2>7 DEF ClaimSends, Newest
        <3>2. i # j => message'[i] = message[i]
            BY <2>1, <3>1
        <3>3. Len(message') = Len(message)
            BY <2>1, <3>1
        <3>4. j = Len(message)
            BY <1>1, <2>1, <2>7, <3>1 DEF IInv, OutboxOK, RecordOK
        <3>. QED BY <3>1, <3>2, <3>3, <3>4 DEF StillWanted
    <2>8. CASE \E w \in Workers : WorkerStep(w) \/ WorkerCrash(w) \/ \E key \in jobs : StartRun(w, key)
        BY <2>2, <2>3, <2>4, <2>8
           DEF WorkerStep, RunReplayed, RunSkipped, RunQueues, RunExcludes, DispatchRun, WorkerCrash,
               StartRun, outbox
    <2>9. CASE \E k \in Requests : \/ Review(k) \/ SendReplayed(k) \/ SendStale(k)
                                  \/ SendRefused(k) \/ Send(k) \/ Enqueue(k) \/ EnqueueFails(k)
        BY <2>2, <2>3, <2>4, <2>9
           DEF Review, SendReplayed, SendStale, SendRefused, Send, Enqueue, EnqueueFails, outbox
    <2>10. CASE Tick \/ GuestAnswers \/ EventChanges \/ (\E on \in BOOLEAN : EditRule(on))
                \/ UNCHANGED vars
        BY <2>2, <2>10 DEF Tick, GuestAnswers, EventChanges, EditRule, vars, outbox
    <2>11. CASE \E j \in 1..Len(message) : ClaimStep(j) \/ ProviderAccepts(j) \/ Record(j)
                    \/ AnswerLost(j) \/ Reported(j)
        BY <2>6, <2>7, <2>11
    <2>. QED BY <1>1, <2>1, <2>5, <2>8, <2>9, <2>10, <2>11 DEF Next
<1>2. IInv /\ [Next]_vars => \A i \in DOMAIN message : Wanted(i)
    BY <1>1
<1>. QED BY <1>2, RemindersInvariance, PTL DEF Spec, OnlyWantedRemindersLeave
=============================================================================
