------------------------------ MODULE Exports ------------------------------
(***************************************************************************)
(* Guest-list exports: a member asks for a file, the API saves the request *)
(* and enqueues a job, and a worker claims the request, reads the guests   *)
(* page by page, stores the file and publishes it.  The queue may deliver  *)
(* the job again while an execution of it is still running.                *)
(*                                                                         *)
(* All exports are of one event and in CSV, whose bytes are determined by  *)
(* the rows: a file is the sequence of its rows and whether it has the     *)
(* column of phone numbers.  Its object is named by the digest of these    *)
(* bytes, so a file stands for its own key here.                           *)
(*                                                                         *)
(* apps/api/src/exports/exports.service.ts, the worker's                   *)
(* export-processor.ts and prisma-export-repository.ts.                    *)
(***************************************************************************)
EXTENDS Naturals, Sequences, FiniteSets

CONSTANTS Jobs,           \* export requests
          PresetOf,       \* job -> the preset it asks for
          Guests,         \* invitations in the order of (createdAt, id): 1..n
          PageSize,       \* rows a page holds
          Workers,        \* executions of queue jobs that may overlap
          Attempts,       \* attempts of a queue job
          None,           \* no file, nobody
          MaxChanges,     \* bound: changes of guests and of the requester's access
          MaxFaults       \* bound: refused enqueues, deaths, stalls, errors

Answers == {"ABSENT", "PENDING", "ACCEPTED", "DECLINED", "CANCELLED"}

\* A row has a guest that has been invited and not cancelled.
File == [phones: BOOLEAN,
         rows: Seq([guest: Guests, answer: Answers \ {"ABSENT", "CANCELLED"}])]

ASSUME ExportAssumption ==
    /\ PresetOf \in [Jobs -> {"FULL_GUEST_LIST", "CONFIRMED_ATTENDANCE"}]
    /\ IsFiniteSet(Guests) /\ Guests = 1..Cardinality(Guests)
    /\ {PageSize, Attempts} \subseteq Nat \ {0}
    /\ {MaxChanges, MaxFaults} \subseteq Nat
    /\ None \notin Workers \union File

VARIABLES job,        \* job -> the status and the output asset of its row
          api,        \* job -> what the request that created it still has to do
          notices,    \* job -> the notifications its requester has
          objects,    \* files in the private bucket
          answer,     \* guest -> its answer
          access,     \* what the requester may export
          queue,      \* job -> the state, attempts, stall and holder of its queue job
          exec,       \* worker -> the execution it runs; steady is history
          strays,     \* history: files an error or a death left behind
          changes, faults

exportVars == <<job, api, notices, objects, answer, access, queue, exec, strays,
                changes, faults>>

Statuses == {"ABSENT", "QUEUED", "PROCESSING", "COMPLETED", "FAILED"}
Access   == {"NONE", "EXPORT", "EXPORT_WITH_PHONES"}

Idle == [step |-> "IDLE"]

ExportInit ==
    /\ job = [j \in Jobs |-> [status |-> "ABSENT", asset |-> None]]
    /\ api = [j \in Jobs |-> "DONE"]
    /\ notices = [j \in Jobs |-> {}]
    /\ objects = {}
    /\ answer \in [Guests -> {"ABSENT", "PENDING", "ACCEPTED"}]
    /\ access = "EXPORT_WITH_PHONES"
    /\ queue = [j \in Jobs |-> [state |-> "ABSENT", tries |-> 0,
                                stalled |-> FALSE, holder |-> None]]
    /\ exec = [w \in Workers |-> Idle]
    /\ strays = {}
    /\ changes = 0
    /\ faults = 0

Fault == /\ faults < MaxFaults
         /\ faults' = faults + 1

Assets == {job[j].asset : j \in Jobs} \ {None}

-----------------------------------------------------------------------------
(* The API *)

\* create: the request, by a member who may export.
Create(j) ==
    /\ job[j].status = "ABSENT"
    /\ access # "NONE"
    /\ job' = [job EXCEPT ![j].status = "QUEUED"]
    /\ api' = [api EXCEPT ![j] = "ENQUEUE"]
    /\ UNCHANGED <<notices, objects, answer, access, queue, exec, strays, changes, faults>>

Added(j) == queue' = [queue EXCEPT ![j].state = "WAITING"]

Enqueue(j) ==
    /\ api[j] = "ENQUEUE"
    /\ Added(j)
    /\ api' = [api EXCEPT ![j] = "DONE"]
    /\ UNCHANGED <<job, notices, objects, answer, access, exec, strays,
                   changes, faults>>

\* The add throws, Redis having taken the job or not.
EnqueueThrows(j) ==
    /\ api[j] = "ENQUEUE"
    /\ Fault
    /\ Added(j) \/ UNCHANGED queue
    /\ api' = [api EXCEPT ![j] = "MARK"]
    /\ UNCHANGED <<job, notices, objects, answer, access, exec, strays,
                   changes>>

\* Only a request that is still queued fails, and nobody is notified: the
\* requester has the error response.
MarkQueueFailure(j) ==
    /\ api[j] = "MARK"
    /\ job' = IF job[j].status = "QUEUED"
              THEN [job EXCEPT ![j].status = "FAILED"] ELSE job
    /\ api' = [api EXCEPT ![j] = "DONE"]
    /\ UNCHANGED <<notices, objects, answer, access, queue, exec, strays, changes, faults>>

\* The API process dies before it has enqueued or marked: nothing does it later.
ApiDies(j) ==
    /\ api[j] # "DONE"
    /\ Fault
    /\ api' = [api EXCEPT ![j] = "DONE"]
    /\ UNCHANGED <<job, notices, objects, answer, access, queue, exec, strays, changes>>

-----------------------------------------------------------------------------
(* The queue *)

HoldsLock(w, j) == queue[j].holder = w

\* An execution ends well: the queue job of a worker that lost its lock is not
\* its own any more.
Finished(w, q) ==
    LET j == exec[w].job
    IN  IF HoldsLock(w, j) THEN [q EXCEPT ![j].state = "DONE", ![j].holder = None] ELSE q

\* It throws: the job waits for its next attempt while it has one.
Thrown(w, q) ==
    LET j == exec[w].job
    IN  IF HoldsLock(w, j)
        THEN [q EXCEPT ![j].tries = @ + 1, ![j].holder = None,
                       ![j].state = IF q[j].tries + 1 < Attempts THEN "WAITING" ELSE "DONE"]
        ELSE q

Ends(w)   == queue' = Finished(w, queue) /\ exec' = [exec EXCEPT ![w] = Idle]
Throws(w) == queue' = Thrown(w, queue) /\ exec' = [exec EXCEPT ![w] = Idle]

Start(w, j) ==
    /\ queue[j].state = "WAITING"
    /\ exec[w] = Idle
    /\ queue' = [queue EXCEPT ![j].state = "ACTIVE", ![j].holder = w]
    /\ exec' = [exec EXCEPT ![w] = [step |-> "CLAIM", job |-> j]]
    /\ UNCHANGED <<job, api, notices, objects, answer, access, strays,
                   changes, faults>>

\* The lock of an active job lapses: its worker is dead, or alive and late.  The
\* job is delivered again once; the second time it is given up.
JobStalls(j) ==
    LET w == queue[j].holder
    IN  /\ queue[j].state = "ACTIVE"
        /\ IF \/ exec[w] = Idle
              \/ exec[w].job # j
           THEN UNCHANGED faults ELSE Fault
        /\ queue' = [queue EXCEPT ![j].holder = None, ![j].stalled = TRUE,
                        ![j].state = IF queue[j].stalled THEN "DONE" ELSE "WAITING"]
        /\ UNCHANGED <<job, api, notices, objects, answer, access, exec, strays, changes>>

-----------------------------------------------------------------------------
(* The worker *)

Lists(preset, a) ==
    \/ a = "ACCEPTED"
    \/ a \in {"PENDING", "DECLINED"} /\ preset = "FULL_GUEST_LIST"

Listable(j) == {g \in Guests : Lists(PresetOf[j], answer[g])}

\* Mutant: a request that is under way is claimed again.
ClaimableUntilDone(j) == job[j].status \in {"QUEUED", "PROCESSING"}

\* The status claim compares under the row lock.
Claimable(j) == job[j].status = "QUEUED"

ClaimSkipped(w) ==
    /\ exec[w].step = "CLAIM"
    /\ ~Claimable(exec[w].job)
    /\ Ends(w)
    /\ UNCHANGED <<job, api, notices, objects, answer, access, strays,
                   changes, faults>>

\* The requester may not export any more.  The claim writes nothing; markFailed
\* is another transaction.
ClaimRevoked(w) ==
    /\ exec[w].step = "CLAIM"
    /\ Claimable(exec[w].job)
    /\ access = "NONE"
    /\ exec' = [exec EXCEPT ![w].step = "REVOKED"]
    /\ UNCHANGED <<job, api, notices, objects, answer, access, queue, strays, changes, faults>>

Claim(w) ==
    LET j == exec[w].job
    IN  /\ exec[w].step = "CLAIM"
        /\ Claimable(j)
        /\ access # "NONE"
        /\ job' = [job EXCEPT ![j].status = "PROCESSING"]
        /\ exec' = [exec EXCEPT ![w] =
               [step |-> "LIST", job |-> j, cursor |-> 0,
                steady |-> Listable(j),
                file |-> [phones |-> access = "EXPORT_WITH_PHONES", rows |-> <<>>]]]
        /\ UNCHANGED <<api, notices, objects, answer, access, queue, strays,
                       changes, faults>>

\* Mutant: pages by offset.
AfterSkipping(j, cursor, listed) ==
    {g \in Listable(j) : Cardinality({h \in Listable(j) : h < g}) >= listed}

\* The guests a page is taken from: those past the cursor, whatever was listed.
After(j, cursor, listed) == {g \in Listable(j) : g > cursor}

\* The first PageSize of them.
Page(j, cursor, listed) ==
    {g \in After(j, cursor, listed) :
        Cardinality({h \in After(j, cursor, listed) : h <= g}) <= PageSize}

InOrder(S) == [n \in 1..Cardinality(S) |->
                  CHOOSE g \in S : Cardinality({h \in S : h <= g}) = n]

\* listRows: one query.  A short page is the last.
ListPage(w) ==
    LET x    == exec[w]
        page == InOrder(Page(x.job, x.cursor, Len(x.file.rows)))
        rows == [n \in DOMAIN page |-> [guest |-> page[n], answer |-> answer[page[n]]]]
    IN  /\ x.step = "LIST"
        /\ exec' = [exec EXCEPT
               ![w].file.rows = @ \o rows,
               ![w].cursor = IF page = <<>> THEN @ ELSE page[Len(page)],
               ![w].step = IF Len(page) < PageSize THEN "STORE" ELSE "LIST"]
        /\ UNCHANGED <<job, api, notices, objects, answer, access, queue, strays, changes, faults>>

\* putObject and the check of what is stored.
StoreFile(w) ==
    /\ exec[w].step = "STORE"
    /\ objects' = objects \union {exec[w].file}
    /\ exec' = [exec EXCEPT ![w].step = "PUBLISH"]
    /\ UNCHANGED <<job, api, notices, answer, access, queue, strays,
                   changes, faults>>

\* The upload or the check fails.  A file that fails the check is deleted, which
\* may fail too.
StoreFails(w) ==
    /\ exec[w].step = "STORE"
    /\ Fault
    /\ Throws(w)
    /\ \/ UNCHANGED <<objects, strays>>
       \/ /\ objects' = objects \union {exec[w].file}
          /\ strays' = strays \union {exec[w].file}
       \/ /\ objects' = objects \ {exec[w].file}
          /\ UNCHANGED strays
    /\ UNCHANGED <<job, api, notices, answer, access, changes>>

\* The unique key of stored_assets: bucket and object.
Taken(file) == file \in Assets

\* complete, in one transaction: the asset, the status and the notification.
Publish(w) ==
    LET j == exec[w].job
    IN  /\ job[j].status = "PROCESSING"
        /\ ~Taken(exec[w].file)
        /\ job' = [job EXCEPT ![j] = [status |-> "COMPLETED", asset |-> exec[w].file]]
        /\ notices' = [notices EXCEPT ![j] = @ \union {"EXPORT_READY"}]

Complete(w) ==
    /\ exec[w].step = "PUBLISH"
    /\ Publish(w)
    /\ Ends(w)
    /\ UNCHANGED <<api, objects, answer, access, strays, changes, faults>>

\* Whether the file of an execution that does not publish is deleted: whenever
\* the request does not retain it.
Discards(j) == job[j].status # "COMPLETED"

\* The request was failed meanwhile, so completion is rejected, or the insert of
\* the asset meets the one another request has of the same bytes and throws.
CompleteRefused(w) ==
    LET j == exec[w].job
    IN  /\ exec[w].step = "PUBLISH"
        /\ \/ job[j].status # "PROCESSING"
           \/ Taken(exec[w].file)
        /\ IF Discards(j)
           THEN /\ exec' = [exec EXCEPT ![w].step =
                       IF job[j].status = "PROCESSING" THEN "DISCARD_AND_THROW" ELSE "DISCARD"]
                /\ UNCHANGED queue
           ELSE Ends(w)
        /\ UNCHANGED <<job, api, notices, objects, answer, access, strays, changes, faults>>

\* The transaction fails, or commits and its answer is lost: either way the
\* error deletes the file.
CompleteThrows(w) ==
    /\ exec[w].step = "PUBLISH"
    /\ Fault
    /\ Publish(w) \/ UNCHANGED <<job, notices>>
    /\ exec' = [exec EXCEPT ![w].step = "DISCARD_AND_THROW"]
    /\ UNCHANGED <<api, objects, answer, access, queue, strays, changes>>

\* safelyDelete: an error of the storage is swallowed.
Discard(w) ==
    /\ exec[w].step \in {"DISCARD", "DISCARD_AND_THROW"}
    /\ IF exec[w].step = "DISCARD" THEN Ends(w) ELSE Throws(w)
    /\ \/ /\ objects' = objects \ {exec[w].file}
          /\ UNCHANGED <<strays, faults>>
       \/ /\ Fault
          /\ strays' = strays \union {exec[w].file}
          /\ UNCHANGED objects
    /\ UNCHANGED <<job, api, notices, answer, access, changes>>

\* markFailed reads the request without a lock; one that is over stays as it is.
ReadToFail(w) ==
    /\ exec[w].step = "REVOKED"
    /\ IF job[exec[w].job].status \in {"COMPLETED", "FAILED"}
       THEN Ends(w)
       ELSE /\ exec' = [exec EXCEPT ![w].step = "FAIL"]
            /\ UNCHANGED queue
    /\ UNCHANGED <<job, api, notices, objects, answer, access, strays,
                   changes, faults>>

\* Mutant: export_jobs_terminal_state_check is missing.
MayFailAlways(j) == TRUE

\* export_jobs_terminal_state_check: a failed request has no output asset.
MayFail(j) == job[j].asset = None

\* Its update, by id alone, and the notification, unique by request and kind.
MarkFailed(w) ==
    LET j == exec[w].job
    IN  /\ exec[w].step = "FAIL"
        /\ IF MayFail(j) /\ "EXPORT_FAILED" \notin notices[j]
           THEN /\ job' = [job EXCEPT ![j].status = "FAILED"]
                /\ notices' = [notices EXCEPT ![j] = @ \union {"EXPORT_FAILED"}]
                /\ Ends(w)
           ELSE /\ Throws(w)
                /\ UNCHANGED <<job, notices>>
        /\ UNCHANGED <<api, objects, answer, access, strays, changes, faults>>

\* A query outside complete fails; the claim of the request is not undone.
QueryFails(w) ==
    /\ exec[w].step \in {"CLAIM", "LIST", "REVOKED", "FAIL"}
    /\ Fault
    /\ Throws(w)
    /\ UNCHANGED <<job, api, notices, objects, answer, access, strays, changes>>

WorkerDies(w) ==
    /\ exec[w] # Idle
    /\ Fault
    /\ exec' = [exec EXCEPT ![w] = Idle]
    /\ strays' = IF exec[w].step \in {"PUBLISH", "DISCARD", "DISCARD_AND_THROW"}
                 THEN strays \union {exec[w].file} ELSE strays
    /\ UNCHANGED <<job, api, notices, objects, answer, access, queue, changes>>

-----------------------------------------------------------------------------
(* What changes meanwhile *)

Change == /\ changes < MaxChanges
          /\ changes' = changes + 1

\* A guest is created, answers, answers differently or is cancelled.
Becomes(a) ==
    CASE a = "ABSENT" -> {"PENDING"}
      [] a = "PENDING" -> {"ACCEPTED", "DECLINED", "CANCELLED"}
      [] a = "CANCELLED" -> {}
      [] OTHER -> {"ACCEPTED", "DECLINED", "CANCELLED"} \ {a}

\* An execution that lists guests has seen one throughout only while its preset
\* lists it.
GuestChanges(g) ==
    /\ Change
    /\ \E a \in Becomes(answer[g]) : answer' = [answer EXCEPT ![g] = a]
    /\ exec' = [w \in Workers |->
           IF exec[w].step = "LIST" /\ ~Lists(PresetOf[exec[w].job], answer'[g])
           THEN [exec[w] EXCEPT !.steady = @ \ {g}] ELSE exec[w]]
    /\ UNCHANGED <<job, api, notices, objects, access, queue, strays, faults>>

\* The requester's membership or permissions change.
AccessChanges ==
    /\ Change
    /\ access' \in Access \ {access}
    /\ UNCHANGED <<job, api, notices, objects, answer, queue, exec, strays, faults>>

-----------------------------------------------------------------------------
RequestStep(j) == \/ Create(j) \/ Enqueue(j) \/ EnqueueThrows(j)
                  \/ MarkQueueFailure(j) \/ ApiDies(j)

WorkStep(w) ==
    \/ ClaimSkipped(w) \/ ClaimRevoked(w) \/ Claim(w) \/ ListPage(w)
    \/ StoreFile(w) \/ Complete(w) \/ CompleteRefused(w)
    \/ Discard(w) \/ ReadToFail(w) \/ MarkFailed(w)

FailStep(w) == StoreFails(w) \/ CompleteThrows(w) \/ QueryFails(w) \/ WorkerDies(w)

ExportNext ==
    \/ \E j \in Jobs : RequestStep(j) \/ JobStalls(j)
    \/ \E w \in Workers, j \in Jobs : Start(w, j)
    \/ \E w \in Workers : WorkStep(w) \/ FailStep(w)
    \/ \E g \in Guests : GuestChanges(g)
    \/ AccessChanges

ExportSpec == ExportInit /\ [][ExportNext]_exportVars

-----------------------------------------------------------------------------
(* Properties *)

\* The steps of an execution that has claimed its request.
Claimed(w) == exec[w].step \in {"LIST", "STORE", "PUBLISH", "DISCARD", "DISCARD_AND_THROW"}

HasFile(w) == exec[w].step \in {"PUBLISH", "DISCARD", "DISCARD_AND_THROW"}

\* A file in the bucket is published, or an execution still holds it, or an
\* error or a death left it: completion that is refused deletes it.
NoFileLeftBehind ==
    \A f \in objects : \/ f \in Assets \union strays
                       \/ \E w \in Workers : HasFile(w) /\ exec[w].file = f

\* The types, and what holds between the tables and the executions: a request is
\* completed exactly when it has its own asset, only an active job has a holder,
\* a request is built by one execution at most, and no file is left behind (claim,
\* export_jobs, complete).
ExportsOK ==
    /\ \A j \in Jobs :
          /\ job[j].status \in Statuses
          /\ (job[j].status = "COMPLETED") <=> (job[j].asset # None)
          /\ job[j].asset \in File \union {None}
          /\ api[j] \in {"ENQUEUE", "MARK", "DONE"}
          /\ notices[j] \subseteq {"EXPORT_READY", "EXPORT_FAILED"}
          /\ queue[j].state \in {"ABSENT", "WAITING", "ACTIVE", "DONE"}
          /\ queue[j].tries \in 0..Attempts
          /\ (queue[j].holder # None) <=> (queue[j].state = "ACTIVE")
    /\ \A i, j \in Jobs : i # j /\ job[i].asset = job[j].asset => job[i].asset = None
    /\ \A v, w \in Workers : /\ v # w /\ Claimed(v) /\ Claimed(w)
                             => exec[v].job # exec[w].job
    /\ NoFileLeftBehind
    /\ objects \union strays \subseteq File
    /\ answer \in [Guests -> Answers]
    /\ access \in Access
    /\ changes \in 0..MaxChanges
    /\ faults \in 0..MaxFaults

\* A file has every guest that its preset listed from the claim to the last page
\* exactly once, and no guest twice, whatever is created, answered or cancelled
\* between two pages (listRows and the cursor of the processor).
ListsEachGuestOnce ==
    \A w \in Workers : exec[w].step = "STORE" =>
        LET rows  == exec[w].file.rows
            At(g) == {n \in DOMAIN rows : rows[n].guest = g}
        IN  /\ \A g \in Guests : Cardinality(At(g)) <= 1
            /\ \A g \in exec[w].steady : At(g) # {}

\* The notifications of a request tell its outcome, and only one: READY exactly
\* when it is completed, FAILED only when it failed (complete, markFailed), even
\* when an execution that was refused reads the request, and another that was
\* admitted completes it before the first one writes.
RequesterHearsTheOutcome ==
    \A j \in Jobs : /\ "EXPORT_READY" \in notices[j] <=> job[j].status = "COMPLETED"
                    /\ "EXPORT_FAILED" \in notices[j] => job[j].status = "FAILED"
=============================================================================
