------------------------- MODULE WebhookInboxProofs -------------------------
(***************************************************************************)
(* Proofs about WebhookInbox, for any number of events, executions, tries  *)
(* and faults: an event is applied at most once and stays settled, and a   *)
(* completed job never hides an event that is not.                         *)
(***************************************************************************)
EXTENDS WebhookInbox, TLAPS

WorkerRow == {Idle} \cup [step : Step, event : Events]

(* An execution that is about to report success has seen its event settled. *)
SuccessIsSettled ==
    \A w \in Workers : At(w, "OK") => status[Of(w)] \in Settled

(* The inductive invariant. *)
IInv == StateOK /\ SuccessIsSettled

-----------------------------------------------------------------------------
(* What a step may do to an event's row: nothing, move an event that is    *)
(* not settled, or settle it, with its effect or without.                  *)
Moves(e) == status[e] \notin Settled /\ status'[e] \in Status \ {"PROCESSED"} /\ applied'[e] = applied[e]
Applies(e) == /\ status[e] \notin Settled /\ status'[e] = "PROCESSED"
              /\ applied'[e] = IF applied[e] < 2 THEN applied[e] + 1 ELSE applied[e]
EventEffect(e) == (status'[e] = status[e] /\ applied'[e] = applied[e]) \/ Moves(e) \/ Applies(e)

(* To its job: it is completed only by an execution that reports success.  *)
JobEffect(e) ==
    /\ job'[e] \in JobRow
    /\ job'[e].state = "COMPLETED" =>
          \/ job[e].state = "COMPLETED"
          \/ \E w \in Workers : At(w, "OK") /\ Of(w) = e

(* To an execution: it comes to success only when its event is settled. *)
WorkerEffect(w) ==
    /\ worker'[w] \in WorkerRow
    /\ worker'[w].step = "OK" => worker'[w] = worker[w] \/ status'[worker'[w].event] \in Settled

Effects ==
    /\ \A e \in Events : EventEffect(e) /\ JobEffect(e)
    /\ \A w \in Workers : WorkerEffect(w)
    /\ status' = [e \in Events |-> status'[e]] /\ applied' = [e \in Events |-> applied'[e]]
    /\ job' = [e \in Events |-> job'[e]] /\ worker' = [w \in Workers |-> worker'[w]]
    /\ meta' \in [Events -> {"DELIVERING", "ACKED"}]
    /\ api' \in [Events -> {"IDLE", "CREATED", "FOUND", "ENQUEUE"}]
    /\ sweep' \in [Events -> {"IDLE", "ADD", "CHECK", "READD"}]
    /\ faults' \in 0..MaxFaults

(* The three parts of a step that are left alone. *)
LEMMA Quiet ==
    ASSUME TypeOK
    PROVE  /\ UNCHANGED <<status, applied>> =>
                 /\ \A e \in Events : EventEffect(e)
                 /\ status' = [e \in Events |-> status'[e]]
                 /\ applied' = [e \in Events |-> applied'[e]]
           /\ UNCHANGED job =>
                 (\A e \in Events : JobEffect(e)) /\ job' = [e \in Events |-> job'[e]]
           /\ UNCHANGED worker =>
                 (\A w \in Workers : WorkerEffect(w)) /\ worker' = [w \in Workers |-> worker'[w]]
<1>1. UNCHANGED <<status, applied>> =>
         /\ \A e \in Events : EventEffect(e)
         /\ status' = [e \in Events |-> status'[e]] /\ applied' = [e \in Events |-> applied'[e]]
    BY DEF TypeOK, EventEffect
<1>2. UNCHANGED job =>
         (\A e \in Events : JobEffect(e)) /\ job' = [e \in Events |-> job'[e]]
    BY DEF TypeOK, JobEffect
<1>3. UNCHANGED worker =>
         (\A w \in Workers : WorkerEffect(w)) /\ worker' = [w \in Workers |-> worker'[w]]
    BY DEF TypeOK, WorkerEffect, WorkerRow
<1>. QED BY <1>1, <1>2, <1>3

(* One event's status is set, and nothing else in the table. *)
LEMMA StatusSet ==
    ASSUME TypeOK, NEW e \in Events, status[e] \notin Settled, NEW s \in Status \ {"PROCESSED"},
           status' = [status EXCEPT ![e] = s], UNCHANGED applied
    PROVE  /\ \A x \in Events : EventEffect(x)
           /\ status' = [x \in Events |-> status'[x]]
           /\ applied' = [x \in Events |-> applied'[x]]
           /\ status'[e] = s
<1>1. status'[e] = s /\ \A x \in Events \ {e} : status'[x] = status[x]
    BY DEF TypeOK
<1>2. EventEffect(e) /\ \A x \in Events \ {e} : EventEffect(x)
    BY <1>1 DEF EventEffect, Moves
<1>. QED BY <1>1, <1>2 DEF TypeOK

(* One job's row is set to one that is not completed, unless it was. *)
LEMMA JobSet ==
    ASSUME TypeOK, NEW e \in Events, NEW row \in JobRow, job' = [job EXCEPT ![e] = row],
           row.state = "COMPLETED" =>
              job[e].state = "COMPLETED" \/ \E w \in Workers : At(w, "OK") /\ Of(w) = e
    PROVE  (\A x \in Events : JobEffect(x)) /\ job' = [x \in Events |-> job'[x]]
<1>1. job'[e] = row /\ \A x \in Events \ {e} : job'[x] = job[x] /\ job[x] \in JobRow
    BY DEF TypeOK
<1>2. JobEffect(e) /\ \A x \in Events \ {e} : JobEffect(x)
    BY <1>1 DEF JobEffect
<1>. QED BY <1>2 DEF TypeOK

(* One execution's row is set. *)
LEMMA WorkerSet ==
    ASSUME TypeOK, NEW w \in Workers, NEW row \in WorkerRow, worker' = [worker EXCEPT ![w] = row],
           row.step = "OK" => status'[row.event] \in Settled
    PROVE  (\A x \in Workers : WorkerEffect(x)) /\ worker' = [x \in Workers |-> worker'[x]]
<1>1. worker'[w] = row /\ \A x \in Workers \ {w} : worker'[x] = worker[x] /\ worker[x] \in WorkerRow
    BY DEF TypeOK, WorkerRow
<1>2. WorkerEffect(w) /\ \A x \in Workers \ {w} : WorkerEffect(x)
    BY <1>1 DEF WorkerEffect
<1>. QED BY <1>2 DEF TypeOK

(* A row of a job with another state, and with another holder. *)
LEMMA JobRows ==
    ASSUME TypeOK, InboxAssumption, NEW e \in Events
    PROVE  /\ job[e] \in JobRow
           /\ Added(job[e]) \in JobRow /\ Retried(Added(job[e])) \in JobRow
           /\ Retried(job[e]) \in JobRow
           /\ Added(job[e]).state = "COMPLETED" => job[e].state = "COMPLETED"
           /\ Retried(job[e]).state = "COMPLETED" => job[e].state = "COMPLETED"
           /\ Retried(Added(job[e])).state = "COMPLETED" => job[e].state = "COMPLETED"
<1>. DEFINE fresh == [state |-> "WAITING", tries |-> 0, holder |-> NoWorker]
<1>1. job[e] \in JobRow /\ fresh \in JobRow /\ fresh.state = "WAITING"
    BY DEF TypeOK, JobRow, InboxAssumption
<1>. HIDE DEF fresh
<1>2. \A row \in JobRow :
         /\ Added(row) \in JobRow /\ Retried(row) \in JobRow
         /\ Added(row).state = "COMPLETED" => row.state = "COMPLETED"
         /\ Retried(row).state = "COMPLETED" => row.state = "COMPLETED"
    BY <1>1 DEF Added, Retried, fresh
<1>. QED BY <1>1, <1>2

(* An execution that is at work has a row of its own. *)
LEMMA WorkerRows ==
    ASSUME TypeOK, NEW w \in Workers
    PROVE  /\ worker[w] # Idle => worker[w] \in [step : Step, event : Events] /\ Of(w) \in Events
           /\ worker[w] = Idle => ~\E step \in Step : At(w, step)
           /\ worker[w] # Idle =>
                 \A step \in Step :
                    /\ [worker[w] EXCEPT !.step = step] \in WorkerRow
                    /\ [worker[w] EXCEPT !.step = step].step = step
                    /\ [worker[w] EXCEPT !.step = step].event = Of(w)
<1>1. worker[w] \in {Idle} \cup [step : Step, event : Events]
    BY DEF TypeOK
<1>2. ASSUME worker[w] = Idle PROVE ~\E step \in Step : At(w, step)
    <2>1. worker[w].step = "IDLE"
        BY <1>2 DEF Idle
    <2>. QED BY <2>1 DEF At, Step
<1>3. ASSUME worker[w] # Idle
      PROVE  /\ worker[w] \in [step : Step, event : Events] /\ Of(w) \in Events
             /\ \A step \in Step :
                    /\ [worker[w] EXCEPT !.step = step] \in WorkerRow
                    /\ [worker[w] EXCEPT !.step = step].step = step
                    /\ [worker[w] EXCEPT !.step = step].event = Of(w)
    BY <1>1, <1>3 DEF Of, WorkerRow
<1>. QED BY <1>2, <1>3

-----------------------------------------------------------------------------
(* The steps that write neither the table's event nor an execution. *)

TableKept == /\ \A e \in Events : EventEffect(e)
             /\ status' = [e \in Events |-> status'[e]]
             /\ applied' = [e \in Events |-> applied'[e]]
JobsKept == (\A e \in Events : JobEffect(e)) /\ job' = [e \in Events |-> job'[e]]
WorkersKept == (\A w \in Workers : WorkerEffect(w)) /\ worker' = [w \in Workers |-> worker'[w]]
OthersTyped ==
    /\ meta' \in [Events -> {"DELIVERING", "ACKED"}]
    /\ api' \in [Events -> {"IDLE", "CREATED", "FOUND", "ENQUEUE"}]
    /\ sweep' \in [Events -> {"IDLE", "ADD", "CHECK", "READD"}]
    /\ faults' \in 0..MaxFaults

(* The steps of Meta, the API, the sweep and the queue have these effects. *)
LEMMA EventEffects ==
    ASSUME TypeOK, InboxAssumption, NEW e \in Events, EventStep(e) PROVE Effects
<1>. USE DEF TableKept, JobsKept, WorkersKept
<1>1. SUFFICES TableKept /\ JobsKept /\ WorkersKept /\ OthersTyped
    BY DEF Effects, OthersTyped
<1>2. Fault => faults' \in 0..MaxFaults
    BY DEF Fault, TypeOK, InboxAssumption
<1>3. OthersTyped
    <2>1. faults' \in 0..MaxFaults
        BY <1>2 DEF EventStep, TypeOK, IngestCreate, IngestFind, IngestQueue, IngestEnqueue,
           IngestAborted, EvictJob, LoseLock, CheckStalled, SweepMark, SweepAdd, SweepCheck,
           SweepReAdd, SweepAborted
    <2>2. meta' \in [Events -> {"DELIVERING", "ACKED"}]
        BY DEF EventStep, TypeOK, IngestCreate, IngestFind, IngestQueue, IngestEnqueue,
           IngestAborted, EvictJob, LoseLock, CheckStalled, SweepMark, SweepAdd, SweepCheck,
           SweepReAdd, SweepAborted
    <2>3. api' \in [Events -> {"IDLE", "CREATED", "FOUND", "ENQUEUE"}]
        BY DEF EventStep, TypeOK, IngestCreate, IngestFind, IngestQueue, IngestEnqueue,
           IngestAborted, EvictJob, LoseLock, CheckStalled, SweepMark, SweepAdd, SweepCheck,
           SweepReAdd, SweepAborted
    <2>4. sweep' \in [Events -> {"IDLE", "ADD", "CHECK", "READD"}]
        BY DEF EventStep, TypeOK, IngestCreate, IngestFind, IngestQueue, IngestEnqueue,
           IngestAborted, EvictJob, LoseLock, CheckStalled, SweepMark, SweepAdd, SweepCheck,
           SweepReAdd, SweepAborted
    <2>. QED BY <2>1, <2>2, <2>3, <2>4 DEF OthersTyped
<1>4. WorkersKept
    BY Quiet DEF EventStep, IngestCreate, IngestFind, IngestQueue, IngestEnqueue,
       IngestAborted, EvictJob, LoseLock, CheckStalled, SweepMark, SweepAdd, SweepCheck,
       SweepReAdd, SweepAborted
<1>5. TableKept
    <2>1. CASE IngestCreate(e)
        <3>1. CASE status[e] = "ABSENT"
            BY <2>1, <3>1, StatusSet DEF IngestCreate, Settled, Status
        <3>2. CASE status[e] # "ABSENT"
            BY <2>1, <3>2, Quiet DEF IngestCreate, TypeOK
        <3>. QED BY <3>1, <3>2
    <2>2. CASE IngestQueue(e) /\ status' # status
        <3>1. /\ status[e] \in {"RECEIVED", "FAILED", "PROCESSING"}
              /\ status' = [status EXCEPT ![e] = "QUEUED"] /\ UNCHANGED applied
            BY <2>2 DEF IngestQueue
        <3>. QED BY <3>1, StatusSet DEF Settled, Status
    <2>3. CASE SweepMark(e) /\ status' # status
        <3>1. /\ status[e] \in {"RECEIVED", "QUEUED", "FAILED", "PROCESSING"}
              /\ status' = [status EXCEPT ![e] = "QUEUED"] /\ UNCHANGED applied
            BY <2>3 DEF SweepMark, Recoverable
        <3>. QED BY <3>1, StatusSet DEF Settled, Status
    <2>4. IngestCreate(e) \/ (IngestQueue(e) /\ status' # status) \/ (SweepMark(e) /\ status' # status)
             \/ UNCHANGED <<status, applied>>
        BY DEF EventStep, IngestFind, IngestQueue, IngestEnqueue,
           IngestAborted, EvictJob, LoseLock, CheckStalled, SweepMark, SweepAdd, SweepCheck,
           SweepReAdd, SweepAborted
    <2>. QED BY <2>1, <2>2, <2>3, <2>4, Quiet
<1>6. JobsKept
    <2>1. SUFFICES ASSUME job' # job
                   PROVE  \E row \in JobRow :
                             /\ job' = [job EXCEPT ![e] = row]
                             /\ row.state = "COMPLETED" => job[e].state = "COMPLETED"
        BY Quiet, JobSet
    <2>2. job[e] \in JobRow
        BY JobRows
    <2>3. ASSUME NEW s \in {"ABSENT", "WAITING", "FAILED"}
          PROVE  /\ [job[e] EXCEPT !.state = s] \in JobRow
                 /\ [job[e] EXCEPT !.state = s].state = s
        BY <2>2 DEF JobRow
    <2>4. CASE IngestEnqueue(e)
        BY <2>4, JobRows DEF IngestEnqueue
    <2>5. CASE SweepAdd(e) \/ SweepReAdd(e)
        BY <2>5, JobRows DEF SweepAdd, SweepReAdd
    <2>6. CASE EvictJob(e)
        BY <2>3, <2>6 DEF EvictJob
    <2>7. CASE LoseLock(e)
        <3>1. [job[e] EXCEPT !.holder = NoWorker] \in JobRow
            BY <2>2 DEF JobRow
        <3>2. [job[e] EXCEPT !.holder = NoWorker].state = job[e].state
            BY <2>2 DEF JobRow
        <3>. QED BY <2>7, <3>1, <3>2 DEF LoseLock
    <2>8. CASE CheckStalled(e)
        <3>1. PICK s \in {"WAITING", "FAILED"} : job' = [job EXCEPT ![e].state = s]
            BY <2>8 DEF CheckStalled
        <3>. QED BY <2>3, <3>1
    <2>9. CASE SweepCheck(e)
        <3>1. CASE job' = [job EXCEPT ![e].state = "ABSENT"]
            BY <2>3, <3>1
        <3>2. CASE job' = [job EXCEPT ![e] = Retried(@)]
            BY <3>2, JobRows
        <3>. QED BY <2>9, <3>1, <3>2 DEF SweepCheck
    <2>. QED BY <2>1, <2>4, <2>5, <2>6, <2>7, <2>8, <2>9 DEF EventStep, IngestCreate, IngestFind,
            IngestQueue, IngestAborted, SweepMark, SweepAborted
<1>. QED BY <1>3, <1>4, <1>5, <1>6

(* The steps of a worker have these effects. *)
LEMMA WorkerEffects ==
    ASSUME TypeOK, InboxAssumption, NEW w \in Workers, WorkerStep(w) PROVE Effects
<1>. USE DEF TableKept, JobsKept, WorkersKept
<1>1. SUFFICES TableKept /\ JobsKept /\ WorkersKept /\ OthersTyped
    BY DEF Effects, OthersTyped
<1>2. OthersTyped
    <2>1. Fault => faults' \in 0..MaxFaults
        BY DEF Fault, TypeOK, InboxAssumption
    <2>2. UNCHANGED <<meta, api, sweep>> /\ (Fault \/ UNCHANGED faults)
        BY DEF WorkerStep, StartJob, ClaimWebhook, ApplyWebhook, TransactionFails,
           RecordWebhookFailure, FinishJob, Crash
    <2>. QED BY <2>1, <2>2 DEF TypeOK, OthersTyped
<1>3. ASSUME NEW step \in Step, NEW next \in Step, At(w, step), Go(w, next),
             next = "OK" => status'[Of(w)] \in Settled
      PROVE  WorkersKept
    <2>. DEFINE row == [worker[w] EXCEPT !.step = next]
    <2>1. row \in WorkerRow /\ row.step = next /\ row.event = Of(w)
        BY <1>3, WorkerRows
    <2>2. worker' = [worker EXCEPT ![w] = row]
        BY <1>3 DEF Go
    <2>. HIDE DEF row
    <2>. QED BY <1>3, <2>1, <2>2, WorkerSet
<1>4. ASSUME worker' = [worker EXCEPT ![w] = Idle] PROVE WorkersKept
    <2>1. Idle \in WorkerRow /\ Idle.step # "OK"
        BY DEF Idle, WorkerRow
    <2>. QED BY <1>4, <2>1, WorkerSet
<1>5. {"STARTED", "CLAIMED", "FAILING", "OK", "ERROR"} \subseteq Step
    BY DEF Step
<1>6. ASSUME NEW step \in Step, At(w, step) PROVE Of(w) \in Events
    BY <1>6, WorkerRows
<1>7. ASSUME NEW e \in Events, StartJob(w, e)
      PROVE  TableKept /\ JobsKept /\ WorkersKept
    <2>. DEFINE row == [state |-> "ACTIVE", holder |-> w,
                        tries |-> IF job[e].tries < MaxAttempts
                                  THEN job[e].tries + 1 ELSE job[e].tries]
                run == [step |-> "STARTED", event |-> e]
    <2>1. UNCHANGED <<status, applied>> /\ job' = [job EXCEPT ![e] = row]
          /\ worker' = [worker EXCEPT ![w] = run]
        BY <1>7 DEF StartJob
    <2>2. row \in JobRow /\ row.state = "ACTIVE"
        <3>1. job[e] \in JobRow
            BY JobRows
        <3>2. job[e].tries \in 0..MaxAttempts /\ MaxAttempts \in Nat
            BY <3>1 DEF JobRow, InboxAssumption
        <3>. QED BY <3>2 DEF JobRow
    <2>3. run \in WorkerRow /\ run.step = "STARTED"
        BY DEF WorkerRow, Step
    <2>. HIDE DEF row, run
    <2>. QED BY <2>1, <2>2, <2>3, Quiet, JobSet, WorkerSet
<1>8. CASE ClaimWebhook(w)
    <2>1. At(w, "STARTED") /\ UNCHANGED <<job, applied>> /\ Of(w) \in Events
        BY <1>5, <1>6, <1>8 DEF ClaimWebhook
    <2>2. CASE status[Of(w)] \in Settled
        <3>1. UNCHANGED status /\ Go(w, "OK")
            BY <1>8, <2>2 DEF ClaimWebhook, ClaimSkips
        <3>. QED BY <1>1, <1>2, <1>3, <1>5, <2>1, <2>2, <3>1, Quiet
    <2>3. CASE status[Of(w)] \notin Settled
        <3>1. status' = [status EXCEPT ![Of(w)] = "PROCESSING"] /\ Go(w, "CLAIMED")
            BY <1>8, <2>3 DEF ClaimWebhook, ClaimSkips
        <3>2. WorkersKept
            BY <1>3, <1>5, <2>1, <3>1
        <3>3. "PROCESSING" \in Status \ {"PROCESSED"}
            BY DEF Status
        <3>4. TableKept
            BY <2>1, <2>3, <3>1, <3>3, StatusSet
        <3>. QED BY <1>2, <2>1, <3>2, <3>4, Quiet
    <2>. QED BY <2>2, <2>3
<1>9. CASE ApplyWebhook(w)
    <2>1. At(w, "CLAIMED") /\ UNCHANGED job /\ Go(w, "OK") /\ Of(w) \in Events
        BY <1>5, <1>6, <1>9 DEF ApplyWebhook
    <2>2. CASE status[Of(w)] \in Settled
        <3>1. UNCHANGED <<status, applied>>
            BY <1>9, <2>2 DEF ApplyWebhook, StillOpen
        <3>. QED BY <1>2, <1>3, <1>5, <2>1, <2>2, <3>1, Quiet
    <2>3. CASE status[Of(w)] \notin Settled
        <3>1. CASE status' = [status EXCEPT ![Of(w)] = "IGNORED"] /\ UNCHANGED applied
            <4>1. "IGNORED" \in Status \ {"PROCESSED"} /\ "IGNORED" \in Settled
                BY DEF Status, Settled
            <4>2. TableKept /\ status'[Of(w)] = "IGNORED"
                BY <2>1, <2>3, <3>1, <4>1, StatusSet
            <4>. QED BY <1>2, <1>3, <1>5, <2>1, <4>1, <4>2, Quiet
        <3>2. CASE /\ status' = [status EXCEPT ![Of(w)] = "PROCESSED"]
                   /\ applied' = [applied EXCEPT ![Of(w)] = IF @ < 2 THEN @ + 1 ELSE @]
            <4>1. /\ status'[Of(w)] = "PROCESSED"
                  /\ applied'[Of(w)] = IF applied[Of(w)] < 2 THEN applied[Of(w)] + 1
                                       ELSE applied[Of(w)]
                  /\ \A e \in Events \ {Of(w)} : status'[e] = status[e] /\ applied'[e] = applied[e]
                BY <2>1, <3>2 DEF TypeOK
            <4>2. \A e \in Events : EventEffect(e)
                BY <2>3, <4>1 DEF EventEffect, Applies
            <4>3. TableKept
                BY <3>2, <4>2 DEF TypeOK
            <4>4. "PROCESSED" \in Settled
                BY DEF Settled
            <4>. QED BY <1>2, <1>3, <1>5, <2>1, <4>1, <4>3, <4>4, Quiet
        <3>. QED BY <1>9, <2>3, <3>1, <3>2 DEF ApplyWebhook, StillOpen
    <2>. QED BY <2>2, <2>3
<1>10. CASE TransactionFails(w)
    <2>1. UNCHANGED <<status, applied, job>>
        BY <1>10 DEF TransactionFails
    <2>2. \E step \in Step, next \in Step : next # "OK" /\ At(w, step) /\ Go(w, next)
        BY <1>10 DEF TransactionFails, Step
    <2>. QED BY <1>2, <1>3, <2>1, <2>2, Quiet
<1>11. CASE RecordWebhookFailure(w)
    <2>1. /\ At(w, "FAILING") /\ UNCHANGED <<job, applied>> /\ Of(w) \in Events /\ Go(w, "ERROR")
          /\ status' = [status EXCEPT ![Of(w)] = FailureNoted(@)]
        BY <1>5, <1>6, <1>11 DEF RecordWebhookFailure
    <2>2. WorkersKept
        BY <1>3, <1>5, <2>1
    <2>3. CASE status[Of(w)] = "PROCESSING"
        <3>1. status' = [status EXCEPT ![Of(w)] = "FAILED"]
            BY <2>1, <2>3 DEF FailureNoted
        <3>2. "FAILED" \in Status \ {"PROCESSED"} /\ status[Of(w)] \notin Settled
            BY <2>3 DEF Status, Settled
        <3>3. TableKept
            BY <2>1, <3>1, <3>2, StatusSet
        <3>. QED BY <1>2, <2>1, <2>2, <3>3, Quiet
    <2>4. CASE status[Of(w)] # "PROCESSING"
        <3>1. status' = status
            BY <2>1, <2>4 DEF FailureNoted, TypeOK
        <3>. QED BY <1>2, <2>1, <2>2, <3>1, Quiet
    <2>. QED BY <2>3, <2>4
<1>12. CASE FinishJob(w)
    <2>1. /\ UNCHANGED <<status, applied>> /\ worker' = [worker EXCEPT ![w] = Idle]
          /\ worker[w] # Idle
        BY <1>12 DEF FinishJob
    <2>2. Of(w) \in Events
        BY <2>1, WorkerRows
    <2>3. CASE UNCHANGED job
        BY <1>2, <1>4, <2>1, <2>3, Quiet
    <2>4. CASE job' # job
        <3>. DEFINE s == IF At(w, "OK") THEN "COMPLETED"
                         ELSE IF job[Of(w)].tries < MaxAttempts THEN "WAITING" ELSE "FAILED"
                    row == [job[Of(w)] EXCEPT !.holder = NoWorker, !.state = s]
        <3>1. job' = [job EXCEPT ![Of(w)] = row]
            <4>1. job' = [job EXCEPT ![Of(w)].holder = NoWorker, ![Of(w)].state = s]
                BY <1>12, <2>4 DEF FinishJob
            <4>2. s \in {"COMPLETED", "WAITING", "FAILED"}
                OBVIOUS
            <4>. HIDE DEF s
            <4>. QED BY <2>2, <4>1 DEF TypeOK
        <3>2. s \in {"COMPLETED", "WAITING", "FAILED"} /\ (s = "COMPLETED" => At(w, "OK"))
            OBVIOUS
        <3>. HIDE DEF s
        <3>3. row \in JobRow /\ row.state = s
            BY <2>2, <3>2, JobRows DEF JobRow
        <3>. HIDE DEF row
        <3>. QED BY <1>2, <1>4, <2>1, <2>2, <3>1, <3>2, <3>3, Quiet, JobSet
    <2>. QED BY <2>3, <2>4
<1>13. CASE Crash(w)
    <2>1. /\ UNCHANGED <<status, applied>> /\ worker' = [worker EXCEPT ![w] = Idle]
          /\ job' = [e \in Events |->
                        IF job[e].holder = w THEN [job[e] EXCEPT !.holder = NoWorker] ELSE job[e]]
        BY <1>13 DEF Crash
    <2>2. ASSUME NEW e \in Events PROVE JobEffect(e)
        <3>1. job[e] \in JobRow
            BY JobRows
        <3>2. /\ [job[e] EXCEPT !.holder = NoWorker] \in JobRow
              /\ [job[e] EXCEPT !.holder = NoWorker].state = job[e].state
            BY <3>1 DEF JobRow
        <3>3. job'[e] \in JobRow /\ job'[e].state = job[e].state
            BY <2>1, <3>1, <3>2
        <3>. QED BY <3>3 DEF JobEffect
    <2>3. job' = [e \in Events |-> job'[e]]
        BY <2>1
    <2>. QED BY <1>2, <1>4, <2>1, <2>2, <2>3, Quiet
<1>. QED BY <1>2, <1>7, <1>8, <1>9, <1>10, <1>11, <1>12, <1>13 DEF WorkerStep

-----------------------------------------------------------------------------
(* The first state has the invariant. *)
LEMMA InitInvariant == ASSUME InboxAssumption, Init PROVE IInv
<1>1. TypeOK
    <2>1. /\ status \in [Events -> Status] /\ meta \in [Events -> {"DELIVERING", "ACKED"}]
          /\ api \in [Events -> {"IDLE", "CREATED", "FOUND", "ENQUEUE"}]
          /\ sweep \in [Events -> {"IDLE", "ADD", "CHECK", "READD"}]
          /\ applied \in [Events -> 0..2] /\ faults \in 0..MaxFaults
        BY DEF Init, Status, InboxAssumption
    <2>2. job \in [Events -> JobRow]
        BY DEF Init, JobRow, InboxAssumption
    <2>3. worker \in [Workers -> {Idle} \cup [step : Step, event : Events]]
        BY DEF Init
    <2>. QED BY <2>1, <2>2, <2>3 DEF TypeOK
<1>2. AppliedOnce /\ CompletedIsSettled
    BY DEF Init, AppliedOnce, CompletedIsSettled
<1>3. SuccessIsSettled
    BY DEF Init, SuccessIsSettled, At, Idle
<1>. QED BY <1>1, <1>2, <1>3 DEF IInv, StateOK

(* The steps keep it: nothing leaves a settled event's row, so what was    *)
(* settled when an execution looked is settled when it reports success.    *)
LEMMA StepInvariant == ASSUME InboxAssumption, IInv, [Next]_vars PROVE IInv'
<1>1. TypeOK /\ AppliedOnce /\ CompletedIsSettled /\ SuccessIsSettled
    BY DEF IInv, StateOK
<1>2. CASE UNCHANGED vars
    BY <1>1, <1>2 DEF vars, IInv, StateOK, TypeOK, AppliedOnce, CompletedIsSettled,
       SuccessIsSettled, At, Of
<1>3. CASE Next
    <2>1. Effects
        BY <1>1, <1>3, EventEffects, WorkerEffects DEF Next
    <2>2. ASSUME NEW e \in Events
          PROVE  /\ status'[e] \in Status /\ applied'[e] \in 0..2
                 /\ applied'[e] = (IF status'[e] = "PROCESSED" THEN 1 ELSE 0)
                 /\ status[e] \in Settled => status'[e] = status[e]
        <3>1. /\ status[e] \in Status /\ EventEffect(e)
              /\ applied[e] = (IF status[e] = "PROCESSED" THEN 1 ELSE 0)
            BY <1>1, <2>1 DEF TypeOK, AppliedOnce, Effects
        <3>2. CASE status'[e] = status[e] /\ applied'[e] = applied[e]
            BY <3>1, <3>2
        <3>3. CASE Moves(e)
            BY <3>1, <3>3 DEF Moves, Settled
        <3>4. CASE Applies(e)
            BY <3>1, <3>4 DEF Applies, Settled, Status
        <3>. QED BY <3>1, <3>2, <3>3, <3>4 DEF EventEffect
    <2>3. ASSUME NEW e \in Events, job'[e].state = "COMPLETED" PROVE status'[e] \in Settled
        <3>1. status[e] \in Settled
            BY <1>1, <2>1, <2>3 DEF Effects, JobEffect, CompletedIsSettled, SuccessIsSettled
        <3>. QED BY <2>2, <3>1
    <2>4. ASSUME NEW w \in Workers, worker'[w].step = "OK"
          PROVE  status'[worker'[w].event] \in Settled
        <3>1. CASE worker'[w] = worker[w]
            <4>1. At(w, "OK") /\ status[Of(w)] \in Settled /\ Of(w) \in Events
                BY <1>1, <2>4, <3>1, WorkerRows DEF At, SuccessIsSettled, Step, Idle
            <4>. QED BY <2>2, <3>1, <4>1 DEF Of
        <3>. QED BY <2>1, <2>4, <3>1 DEF Effects, WorkerEffect
    <2>5. TypeOK'
        BY <2>1, <2>2 DEF Effects, JobEffect, WorkerEffect, WorkerRow, TypeOK
    <2>. QED BY <2>2, <2>3, <2>4, <2>5 DEF IInv, StateOK, AppliedOnce, CompletedIsSettled,
            SuccessIsSettled, At, Of
<1>. QED BY <1>2, <1>3

(* The invariant, and with it what follows, holds in every behaviour. *)
THEOREM InboxInvariance == Spec => []IInv
<1>1. Init => IInv
    BY InitInvariant, InboxAssumption
<1>2. IInv /\ [Next]_vars => IInv'
    BY StepInvariant, InboxAssumption
<1>. QED BY <1>1, <1>2, PTL DEF Spec

(* An event's effect is committed once if it is processed and never        *)
(* otherwise, and a completed job never stands in the way of an event that *)
(* is not settled.                                                         *)
THEOREM InboxIsTrue == Spec => []StateOK
<1>1. IInv => StateOK
    BY DEF IInv
<1>. QED BY <1>1, InboxInvariance, PTL

(* A settled event stays as it is: no redelivery, no overlapping execution,*)
(* no late failure record and no sweep reopens it or applies it again.     *)
THEOREM SettledIsFinal ==
    Spec => [][\A e \in Events : status[e] \in Settled =>
                  status'[e] = status[e] /\ applied'[e] = applied[e]]_vars
<1>. DEFINE Final == \A e \in Events : status[e] \in Settled =>
                        status'[e] = status[e] /\ applied'[e] = applied[e]
<1>1. IInv /\ [Next]_vars => [Final]_vars
    <2>1. SUFFICES ASSUME IInv, Next PROVE Final
        OBVIOUS
    <2>2. Effects
        BY <2>1, EventEffects, WorkerEffects, InboxAssumption DEF Next, IInv, StateOK
    <2>. QED BY <2>2 DEF Effects, EventEffect, Moves, Applies
<1>. QED BY <1>1, InboxInvariance, PTL DEF Spec
=============================================================================
