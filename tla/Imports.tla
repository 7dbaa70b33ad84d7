------------------------------ MODULE Imports ------------------------------
(***************************************************************************)
(* Guest-list imports: a host uploads a file, the worker parses it, the    *)
(* host maps its columns and corrects rows, the worker validates them, and *)
(* the host confirms.  Every stage is tied to the job's revision, which    *)
(* the API and the worker compare and increase with each change.           *)
(*                                                                         *)
(* Confirmation is one serializable transaction of the API.  Its snapshot  *)
(* is taken by its first query, before it waits for the phone locks it     *)
(* shares with the manual creation of invitations, which runs at read      *)
(* committed.  Its beginning, its locks and its commit are three actions.  *)
(*                                                                         *)
(* A row is reduced to its phone number, what duplicates are decided by;   *)
(* Unreadable stands for a row that validation rejects.  The API's         *)
(* apps/api/src/imports/imports.service.ts, the worker's                   *)
(* import-processor.ts and prisma-import-repository.ts.                    *)
(***************************************************************************)
EXTENDS Naturals, Sequences, FiniteSets

CONSTANTS Imports,        \* import jobs of one event
          Phones,         \* phone numbers
          Workers,        \* executions of import queue jobs that may overlap
          FileOf,         \* the phone cells of the file each import uploads
          Unreadable,     \* a cell that validation rejects
          Blank,           \* no mapping, no correction, no phone, no import
          MaxRevision,    \* bound, by import: its host changes it below this revision
          MaxByHand,      \* bound: invitations created by hand
          MaxFaults       \* bound: refused enqueues, lost executions, aborts, cancellations

ASSUME ImportAssumption ==
    /\ FileOf \in [Imports -> Seq(Phones \union {Unreadable}) \ {<<>>}]
    /\ Blank \notin Phones \union {Unreadable} \union Imports
    /\ Unreadable \notin Phones
    /\ MaxRevision \in [Imports -> Nat]
    /\ {MaxByHand, MaxFaults} \subseteq Nat

Mappings == {"PHONE_COLUMN", "OTHER_COLUMN"}
Cells    == Phones \union {Unreadable}
Verdicts == {"UNMAPPED", "INVALID", "VALID", "DUPLICATE", "IMPORTED", "SKIPPED"}
Row      == [fix: Cells \union {Blank}, status: Verdicts, phone: Phones \union {Blank}]

Statuses == {"ABSENT", "UPLOADED", "PARSING", "AWAITING_MAPPING", "VALIDATING",
             "REVIEWING", "READY", "COMPLETED", "CANCELLED", "FAILED"}

Job == [op: {"PARSE", "VALIDATE"}, import: Imports, revision: Nat \ {0}]

VARIABLES job,          \* import -> status, revision, mapping and rows
          groups,       \* active invitations: phone, origin, number, reviewed
          page,         \* import -> the revision and rows a host has on screen
          unmarked,     \* jobs whose add threw, the import not yet marked FAILED
          queue,        \* import queue jobs not finished
          exec,         \* worker -> the execution it runs
          confirm,      \* import -> the confirmation transaction in progress
          faults

importVars == <<job, groups, page, unmarked, queue, exec, confirm, faults>>

NoExec    == [step |-> "IDLE"]
NoConfirm == [step |-> "NONE"]

Fresh == [fix |-> Blank, status |-> "UNMAPPED", phone |-> Blank]

ImportInit ==
    /\ job = [i \in Imports |-> [status |-> "ABSENT", revision |-> 0,
                                 mapping |-> Blank, rows |-> <<>>]]
    /\ groups = {}
    /\ page = [i \in Imports |-> [revision |-> 0, rows |-> <<>>]]
    /\ unmarked = {}
    /\ queue = {}
    /\ exec = [w \in Workers |-> NoExec]
    /\ confirm = [i \in Imports |-> NoConfirm]
    /\ faults = 0

Fault == /\ faults < MaxFaults
         /\ faults' = faults + 1

-----------------------------------------------------------------------------
(* What validation says of the rows of an import *)

\* The phone a row is read with: a correction is laid over the mapped cell.
Reading(i, rows, mapping, n) ==
    IF rows[n].fix # Blank THEN rows[n].fix
    ELSE IF mapping = "PHONE_COLUMN" THEN FileOf[i][n] ELSE Unreadable

\* validateRow and detectDuplicates: only the first row of a phone can be
\* VALID, and only when no active invitation has that phone.
Verdict(i, rows, mapping, existing, n) ==
    LET Phone(k) == Reading(i, rows, mapping, k)
    IN  IF Phone(n) = Unreadable THEN "INVALID"
        ELSE IF \/ \E k \in 1..(n - 1) : Phone(k) = Phone(n)
                \/ Phone(n) \in existing
             THEN "DUPLICATE" ELSE "VALID"

Validated(i, rows, mapping, existing) ==
    [n \in DOMAIN rows |->
        LET v == Verdict(i, rows, mapping, existing, n)
        IN  [rows[n] EXCEPT !.status = v,
                            !.phone = IF v = "INVALID" THEN Blank
                                      ELSE Reading(i, rows, mapping, n)]]

\* The job is READY when no row is invalid, REVIEWING otherwise.
Outcome(rows) ==
    IF \E n \in DOMAIN rows : rows[n].status = "INVALID" THEN "REVIEWING" ELSE "READY"

ActivePhones(gs) == {g.phone : g \in gs}

-----------------------------------------------------------------------------
(* Enqueueing *)

\* After its transaction the API adds the job of the revision it wrote.  The add
\* may throw, Redis having taken the job or not, and the API marks the import
\* FAILED next; or the API process dies first, and nothing enqueues it later.
Enqueue(i, op) ==
    LET j == [op |-> op, import |-> i, revision |-> job'[i].revision]
    IN  \/ /\ queue' = queue \union {j}
           /\ UNCHANGED <<unmarked, faults>>
        \/ /\ Fault
           /\ unmarked' = unmarked \union {j}
           /\ \/ queue' = queue \union {j}
              \/ UNCHANGED queue
        \/ /\ Fault
           /\ UNCHANGED <<queue, unmarked>>

\* markQueueFailure: one conditional update on the revision alone.
MarkQueueFailure(j) ==
    /\ j \in unmarked
    /\ unmarked' = unmarked \ {j}
    /\ job' = IF job[j.import].revision = j.revision
              THEN [job EXCEPT ![j.import].status = "FAILED"] ELSE job
    /\ UNCHANGED <<groups, page, queue, exec, confirm, faults>>

-----------------------------------------------------------------------------
(* The host's operations *)

\* upload, after the file is stored.
Upload(i) ==
    /\ job[i].status = "ABSENT"
    /\ job' = [job EXCEPT ![i].status = "UPLOADED", ![i].revision = 1]
    /\ Enqueue(i, "PARSE")
    /\ UNCHANGED <<groups, page, exec, confirm>>

\* A host's page shows the rows to confirm as they are now.
Load(i) ==
    /\ job[i].status = "READY"
    /\ page' = [page EXCEPT ![i] = [revision |-> job[i].revision, rows |-> job[i].rows]]
    /\ page' # page
    /\ UNCHANGED <<job, groups, unmarked, queue, exec, confirm, faults>>

\* updateMapping, on the revision the host names: another one is refused with no
\* effect.  Without parsed headers every mapping is refused.
MapColumns(i, mapping) ==
    /\ job[i].status \in {"AWAITING_MAPPING", "REVIEWING", "READY", "FAILED"}
    /\ job[i].rows # <<>>
    /\ job[i].revision < MaxRevision[i]
    /\ job' = [job EXCEPT ![i].mapping = mapping, ![i].status = "VALIDATING",
                          ![i].revision = @ + 1]
    /\ Enqueue(i, "VALIDATE")
    /\ UNCHANGED <<groups, page, exec, confirm>>

\* updateRow: the correction is kept apart from the source cell and the row's
\* verdict is withdrawn.
CorrectRow(i, n, cell) ==
    /\ job[i].status \in {"REVIEWING", "READY", "FAILED"}
    /\ job[i].mapping # Blank
    /\ job[i].revision < MaxRevision[i]
    /\ job' = [job EXCEPT ![i].rows[n].fix = cell,
                          ![i].rows[n].status = "UNMAPPED",
                          ![i].status = "VALIDATING",
                          ![i].revision = @ + 1]
    /\ Enqueue(i, "VALIDATE")
    /\ UNCHANGED <<groups, page, exec, confirm>>

\* cancel: from every state that is not final, whatever the worker is doing.
\* The row lock of a confirmation's own update holds it back until that commits.
Cancel(i) ==
    /\ job[i].status \notin {"ABSENT", "COMPLETED", "CANCELLED"}
    /\ Fault
    /\ job' = [job EXCEPT ![i].status = "CANCELLED", ![i].revision = @ + 1]
    /\ UNCHANGED <<groups, page, unmarked, queue, exec, confirm>>

-----------------------------------------------------------------------------
(* The worker *)

\* An execution starts, again for a job that stalled or was retried: findJob,
\* skipReason and, for a parse, markParsing, which repeats the conditions.
Runnable(j) ==
    /\ job[j.import].revision = j.revision
    /\ job[j.import].status \in (IF j.op = "PARSE" THEN {"UPLOADED", "PARSING"}
                                 ELSE {"AWAITING_MAPPING", "VALIDATING",
                                       "REVIEWING", "READY"})

TakeParse(w, j) ==
    /\ exec[w] = NoExec
    /\ j \in queue
    /\ j.op = "PARSE"
    /\ Runnable(j)
    /\ job' = [job EXCEPT ![j.import].status = "PARSING"]
    /\ exec' = [exec EXCEPT ![w] = [step |-> "PARSE", job |-> j]]
    /\ UNCHANGED <<groups, page, unmarked, queue, confirm, faults>>

TakeValidation(w, j) ==
    /\ exec[w] = NoExec
    /\ j \in queue
    /\ j.op = "VALIDATE"
    /\ Runnable(j)
    /\ exec' = [exec EXCEPT ![w] = [step |-> "READ", job |-> j,
                                    mapping |-> job[j.import].mapping]]
    /\ UNCHANGED <<job, groups, page, unmarked, queue, confirm, faults>>

\* The job is stale or already done: it completes without effect.
SkipJob(j) ==
    /\ j \in queue
    /\ ~Runnable(j)
    /\ queue' = queue \ {j}
    /\ UNCHANGED <<job, groups, page, unmarked, exec, confirm, faults>>

Finish(w) == /\ exec' = [exec EXCEPT ![w] = NoExec]
             /\ queue' = queue \ {exec[w].job}

\* completeParse: the rows replace any earlier ones.
CompleteParse(w) ==
    LET j == exec[w].job  i == j.import
    IN  /\ exec[w].step = "PARSE"
        /\ Finish(w)
        /\ job' = IF job[i].revision = j.revision /\ job[i].status = "PARSING"
                  THEN [job EXCEPT ![i] = [status |-> "AWAITING_MAPPING",
                                           revision |-> j.revision + 1,
                                           mapping |-> Blank,
                                           rows |-> [n \in DOMAIN FileOf[i] |-> Fresh]]]
                  ELSE job
        /\ UNCHANGED <<groups, page, unmarked, confirm, faults>>

\* listRows, the verdicts, and findActiveInvitationsByPhone.  markValidating is
\* never needed: a revision that has a validation job is VALIDATING or past it.
ReadRows(w) ==
    LET i == exec[w].job.import
    IN  /\ exec[w].step = "READ"
        /\ exec' = [exec EXCEPT ![w] =
               [step |-> "COMPLETE", job |-> exec[w].job,
                rows |-> Validated(i, job[i].rows, exec[w].mapping, ActivePhones(groups))]]
        /\ UNCHANGED <<job, groups, page, unmarked, queue, confirm, faults>>

\* Mutant: the status alone.
StillValidatingAnyRevision(j) == job[j.import].status = "VALIDATING"

\* The condition completeValidation puts on its writes.
StillValidating(j) ==
    /\ job[j.import].revision = j.revision
    /\ job[j.import].status = "VALIDATING"

\* completeValidation: verdicts are written to the rows, corrections untouched.
CompleteValidation(w) ==
    LET j == exec[w].job  i == j.import
        judged == [n \in DOMAIN job[i].rows |->
                      [exec[w].rows[n] EXCEPT !.fix = job[i].rows[n].fix]]
    IN  /\ exec[w].step = "COMPLETE"
        /\ Finish(w)
        /\ job' = IF StillValidating(j)
                  THEN [job EXCEPT ![i].rows = judged, ![i].status = Outcome(judged),
                                   ![i].revision = @ + 1]
                  ELSE job
        /\ UNCHANGED <<groups, page, unmarked, confirm, faults>>

\* A permanent error (a bad file, a missing object): markFailed.
FailForGood(w) ==
    LET j == exec[w].job  i == j.import
    IN  /\ exec[w] # NoExec
        /\ Fault
        /\ Finish(w)
        /\ job' = IF job[i].revision = j.revision
                     /\ job[i].status \notin {"CANCELLED", "COMPLETED", "FAILED"}
                  THEN [job EXCEPT ![i].status = "FAILED", ![i].revision = @ + 1]
                  ELSE job
        /\ UNCHANGED <<groups, page, unmarked, confirm>>

\* Any other error, or the worker's death: the job is delivered again, or its
\* attempts are spent, which nothing handles.
ExecutionLost(w) ==
    /\ exec[w] # NoExec
    /\ Fault
    /\ exec' = [exec EXCEPT ![w] = NoExec]
    /\ \/ UNCHANGED queue
       \/ queue' = queue \ {exec[w].job}
    /\ UNCHANGED <<job, groups, page, unmarked, confirm>>

-----------------------------------------------------------------------------
(* Confirmation and creation by hand *)

\* The first query of confirm: all its reads see the database of this moment.
\* Its advisory lock admits one confirmation of an import at a time.  The policy
\* the host names matters to an import with duplicates only.
BeginConfirm(i, policy) ==
    /\ confirm[i] = NoConfirm
    /\ page[i].revision > 0
    /\ job[i].status = "READY"
    /\ policy = "IMPORT" => \E n \in DOMAIN job[i].rows : job[i].rows[n].status = "DUPLICATE"
    /\ confirm' = [confirm EXCEPT ![i] =
           [step |-> "LOCK", policy |-> policy, version |-> page[i].revision,
            seen |-> page[i].rows, job |-> job[i], groups |-> groups]]
    /\ UNCHANGED <<job, groups, page, unmarked, queue, exec, faults>>

\* The rows the policy imports, of the snapshot.
Candidates(c) ==
    {n \in DOMAIN c.job.rows : \/ c.job.rows[n].status = "VALID"
                               \/ c.policy = "IMPORT"}

CandidatePhones(c) == {c.job.rows[n].phone : n \in Candidates(c)}

\* The phone locks of a confirmation between locking and commit.
Locked(p) == \E i \in Imports : /\ confirm[i].step = "COMMIT"
                                /\ p \in CandidatePhones(confirm[i])

\* Mutant: the revision the host names is not compared.
ConfirmableAtAnyVersion(c) ==
    /\ c.job.status = "READY"
    /\ \A n \in DOMAIN c.job.rows : c.job.rows[n].status \in {"VALID", "DUPLICATE"}

\* The checks on the job and its rows.
Confirmable(c) ==
    /\ c.version = c.job.revision
    /\ c.job.status = "READY"
    /\ \A n \in DOMAIN c.job.rows : c.job.rows[n].status \in {"VALID", "DUPLICATE"}

\* The phone locks, taken in sorted order: no confirmation waits for another
\* that waits for it, so they are taken as one step.
LockPhones(i) ==
    /\ confirm[i].step = "LOCK"
    /\ Confirmable(confirm[i])
    /\ \A p \in CandidatePhones(confirm[i]) : ~Locked(p)
    /\ confirm' = [confirm EXCEPT ![i].step = "COMMIT"]
    /\ UNCHANGED <<job, groups, page, unmarked, queue, exec, faults>>

\* A VALID row whose phone an invitation of the snapshot has: validate again.
NeedsRevalidation(c) ==
    \E n \in Candidates(c) : /\ c.job.rows[n].status = "VALID"
                             /\ c.job.rows[n].phone \in ActivePhones(c.groups)

\* Mutant: repeatable read, which only sees the job row change.
UnserializableOnJobOnly(i, c) == job[i] # c.job

\* PostgreSQL refuses to serialize the transaction: the job row was changed
\* since its snapshot, or another confirmation, serializable too, has since
\* inserted a phone this one looked for.  Writers at read committed do not count.
Unserializable(i, c) ==
    \/ job[i] # c.job
    \/ \E g \in groups \ c.groups : /\ g.by \in Imports
                                    /\ g.phone \in CandidatePhones(c)

\* One invitation for each candidate row; reviewed when the host's policy chose
\* to import a duplicate.
InvitationsOf(i, c) ==
    {[phone |-> c.job.rows[n].phone, by |-> i, number |-> n,
      reviewed |-> c.job.rows[n].status = "DUPLICATE"] : n \in Candidates(c)}

CommitConfirm(i) ==
    LET c == confirm[i]
    IN  /\ c.step = "COMMIT"
        /\ ~NeedsRevalidation(c)
        /\ ~Unserializable(i, c)
        /\ groups' = groups \union InvitationsOf(i, c)
        /\ job' = [job EXCEPT ![i].status = "COMPLETED", ![i].revision = @ + 1,
                              ![i].rows = [n \in DOMAIN c.job.rows |->
                                  [c.job.rows[n] EXCEPT !.status =
                                      IF n \in Candidates(c) THEN "IMPORTED" ELSE "SKIPPED"]]]
        /\ confirm' = [confirm EXCEPT ![i] = NoConfirm]
        /\ UNCHANGED <<page, unmarked, queue, exec, faults>>

\* The transaction is refused: a check fails, it cannot be serialized, or, as a
\* fault, its connection or its timeout ends it.
RefuseConfirm(i) ==
    LET c == confirm[i]
    IN  /\ c # NoConfirm
        /\ \/ /\ c.step = "LOCK"
              /\ ~Confirmable(c)
              /\ UNCHANGED faults
           \/ /\ c.step = "COMMIT"
              /\ NeedsRevalidation(c) \/ Unserializable(i, c)
              /\ UNCHANGED faults
           \/ Fault
        /\ confirm' = [confirm EXCEPT ![i] = NoConfirm]
        /\ UNCHANGED <<job, groups, page, unmarked, queue, exec>>

ByHand == {g \in groups : g.by = Blank}

\* InvitationsService.create: under the phone's lock it sees every committed
\* invitation of that phone, and asks the host to override when there is one.
CreateByHand(p) ==
    /\ Cardinality(ByHand) < MaxByHand
    /\ ~Locked(p)
    /\ groups' = groups \union {[phone |-> p, by |-> Blank,
                                 number |-> Cardinality(ByHand) + 1,
                                 reviewed |-> p \in ActivePhones(groups)]}
    /\ UNCHANGED <<job, page, unmarked, queue, exec, confirm, faults>>

-----------------------------------------------------------------------------
ImportNext ==
    \/ \E i \in Imports :
          \/ Upload(i)
          \/ Load(i)
          \/ \E m \in Mappings : MapColumns(i, m)
          \/ \E n \in DOMAIN job[i].rows, cell \in Cells : CorrectRow(i, n, cell)
          \/ Cancel(i)
          \/ \E policy \in {"SKIP", "IMPORT"} : BeginConfirm(i, policy)
          \/ LockPhones(i)
          \/ CommitConfirm(i)
          \/ RefuseConfirm(i)
    \/ \E j \in unmarked : MarkQueueFailure(j)
    \/ \E j \in queue : SkipJob(j)
    \/ \E w \in Workers, j \in queue : TakeParse(w, j) \/ TakeValidation(w, j)
    \/ \E w \in Workers : \/ CompleteParse(w) \/ ReadRows(w) \/ CompleteValidation(w)
                          \/ FailForGood(w) \/ ExecutionLost(w)
    \/ \E p \in Phones : CreateByHand(p)

ImportSpec == ImportInit /\ [][ImportNext]_importVars

-----------------------------------------------------------------------------
(* Properties *)

ImportTypeOK ==
    /\ \A i \in Imports :
          /\ job[i].status \in Statuses
          /\ job[i].revision \in 0..(MaxRevision[i] + 3)
          /\ job[i].mapping \in Mappings \union {Blank}
          /\ \A n \in DOMAIN job[i].rows : job[i].rows[n] \in Row
          /\ job[i].rows # <<>> => DOMAIN job[i].rows = DOMAIN FileOf[i]
    /\ \A g \in groups : g.phone \in Phones /\ g.by \in Imports \union {Blank}
    /\ unmarked \union queue \subseteq Job
    /\ faults \in 0..MaxFaults

\* The rows a host reviews or confirms carry the verdicts of their present
\* corrections and mapping: no stalled or retried validation overwrote them.
ReadyMeansValidated ==
    \A i \in Imports : job[i].status \in {"REVIEWING", "READY"} =>
        \E existing \in SUBSET Phones :
            job[i].rows = Validated(i, job[i].rows, job[i].mapping, existing)

\* An import has created nothing before it is completed, and then exactly one
\* invitation for each imported row: never a part, never after a cancellation.
ImportedWhole ==
    \A i \in Imports :
        {g.number : g \in {h \in groups : h.by = i}} =
            {n \in DOMAIN job[i].rows : /\ job[i].status = "COMPLETED"
                                        /\ job[i].rows[n].status = "IMPORTED"}

\* What an import's row says of it is true: its rows are validated when it is
\* ready, and its invitations exist exactly if it is completed.
ImportsOK == ImportTypeOK /\ ReadyMeansValidated /\ ImportedWhole

\* Two imports of one phone: the second to be confirmed was shown the first as a
\* duplicate, however the two confirmations overlap.
ImportsSeeEachOther ==
    \A g, h \in groups :
        (g # h /\ g.phone = h.phone /\ g.by \in Imports /\ h.by \in Imports)
            => g.reviewed \/ h.reviewed

\* The rows a confirmation imports are those its host had on screen, whatever was
\* corrected or validated since: the revision it names stands for them.
HostSawWhatIsImported ==
    [][\A i \in Imports :
          (job[i].status # "COMPLETED" /\ job'[i].status = "COMPLETED")
              => confirm[i].seen = job[i].rows]_importVars

=============================================================================
