------------------------------ MODULE CheckIn ------------------------------
(***************************************************************************)
(* Event-day check-in of one party, and its entry pass.  Scanning devices  *)
(* call the API concurrently, some of them twice with the same idempotency *)
(* key, while the guest's answer changes, the invitation is cancelled or   *)
(* the event leaves event-day mode.                                        *)
(*                                                                         *)
(* Every operation runs in a SERIALIZABLE transaction: it sees the rows as *)
(* they were when it began, and cannot commit once a row it locks or       *)
(* writes, or a unique key it inserts, was written by another since.  A    *)
(* transaction is two actions, its beginning and its end.                  *)
(***************************************************************************)
EXTENDS Integers, Sequences, FiniteSets

CONSTANTS
    Calls,          \* check-in requests; some share a key
    Keys,           \* idempotency keys
    Pages,          \* public pages that ask for the entry pass
    MaxParty,       \* bound: expected attendees
    MaxTries,       \* MAX_TRANSACTION_ATTEMPTS
    MaxPasses,      \* bound: entry passes issued
    MaxChanges      \* bound: changes of the invitation and the event

ASSUME CheckInAssumption ==
    /\ MaxParty \in Nat /\ MaxTries \in Nat \ {0}
    /\ MaxPasses \in Nat /\ MaxChanges \in Nat

VARIABLES
    expected,   \* invitation_groups.expected_attendees
    cancelled,  \* invitation_groups.cancelled_at is set
    eventDay,   \* the event is in event-day mode, with check-in enabled
    count,      \* check_in_states.checked_in_count
    records,    \* check_in_records, in order of creation
    stored,     \* completed idempotency_records, by key
    call,       \* a request: its key, its size, how far it has come
    txn,        \* the open transaction of a request
    pass,       \* entry_passes, in order of creation
    page,       \* the open transaction of a page, and the pass it was given
    changes

vars == <<expected, cancelled, eventDay, count, records, stored, call, txn,
          pass, page, changes>>

Parties == 0..MaxParty
Closed == [open |-> FALSE]
Nothing == [outcome |-> "NONE", size |-> 0, of |-> 0, total |-> 0]

Recorded == {"CHECKED_IN", "PARTIALLY_CHECKED_IN", "ALREADY_CHECKED_IN"}
Outcome == Recorded \cup
    {"NONE", "CHECK_IN_EVENT_NOT_ACTIVE", "IDEMPOTENCY_KEY_REUSED",
     "CHECK_IN_NOT_ELIGIBLE", "CHECK_IN_CAPACITY_EXCEEDED", "CHECK_IN_CONTENDED"}

(* An answer: what happened to a request of that size, out of how many     *)
(* expected, and the party's total after it.                               *)
AnswerRow == [outcome : Outcome, size : Parties, of : Parties, total : Parties]

Init ==
    /\ expected \in Parties /\ cancelled = FALSE /\ eventDay = TRUE
    /\ count = 0 /\ records = <<>>
    /\ stored = [k \in Keys |-> Nothing]
    /\ call = [c \in Calls |-> [step |-> "IDLE"]]
    /\ txn = [c \in Calls |-> Closed]
    /\ pass = <<>>
    /\ page = [p \in Pages |-> [seen |-> -1, given |-> 0]]
    /\ changes = 0

(* Rows written by one transaction make the snapshots of the others stale. *)
Touch(rows) ==
    [d \in Calls |->
        IF txn[d].open THEN [txn[d] EXCEPT !.stale = @ \cup rows] ELSE txn[d]]

Passes == <<pass, page>>
Invitation == <<expected, cancelled, eventDay, changes>>

-----------------------------------------------------------------------------
(* One request: recordCheckIn within withSerializableRetry.                *)

Request(c, k, n) ==
    /\ call[c].step = "IDLE"
    /\ call' = [call EXCEPT ![c] = [step |-> "CALLED", key |-> k, size |-> n,
                                    tries |-> 0, answer |-> Nothing]]
    /\ UNCHANGED <<Invitation, count, records, stored, txn, Passes>>

BeginCheckIn(c) ==
    /\ call[c].step = "CALLED" /\ ~txn[c].open /\ call[c].tries < MaxTries
    /\ call' = [call EXCEPT ![c].tries = @ + 1]
    /\ txn' = [txn EXCEPT ![c] =
           [open |-> TRUE, expected |-> expected, cancelled |-> cancelled,
            eventDay |-> eventDay, count |-> count,
            stored |-> stored[call[c].key], stale |-> {}]]
    /\ UNCHANGED <<Invitation, count, records, stored, Passes>>

(* The transaction is aborted: by a conflict, or by one the database       *)
(* suspects.                                                               *)
AbortCheckIn(c) ==
    /\ txn[c].open
    /\ txn' = [txn EXCEPT ![c] = Closed]
    /\ UNCHANGED <<Invitation, count, records, stored, call, Passes>>

(* A request whose tries are spent is told to come back with its key. *)
Contended(c) ==
    /\ call[c].step = "CALLED" /\ ~txn[c].open /\ call[c].tries = MaxTries
    /\ call' = [call EXCEPT ![c].step = "ANSWERED",
                            ![c].answer.outcome = "CHECK_IN_CONTENDED"]
    /\ UNCHANGED <<Invitation, count, records, stored, txn, Passes>>

Answer(c, answer) ==
    call' = [call EXCEPT ![c].step = "ANSWERED", ![c].answer = answer]

Refusal(c, outcome) == [Nothing EXCEPT !.outcome = outcome, !.size = call[c].size]

(* The transaction ends without writing. *)
Reject(c, outcome) ==
    /\ Answer(c, Refusal(c, outcome))
    /\ txn' = [txn EXCEPT ![c] = Closed]
    /\ UNCHANGED <<count, records, stored>>

(* Mutant of SameRequest: the stored request is not compared. *)
SameRequestAlways(c) == TRUE

(* The request's fingerprint is the stored one. *)
SameRequest(c) == txn[c].stored.size = call[c].size

(* A key with a stored result: the same request gets it again, another one *)
(* is refused.                                                             *)
ReplayResult(c) ==
    /\ IF SameRequest(c)
       THEN Answer(c, txn[c].stored)
       ELSE Answer(c, Refusal(c, "IDEMPOTENCY_KEY_REUSED"))
    /\ txn' = [txn EXCEPT ![c] = Closed]
    /\ UNCHANGED <<count, records, stored>>

Complete(c, result, rows) ==
    /\ stored' = [stored EXCEPT ![call[c].key] = result]
    /\ Answer(c, result)
    /\ txn' = [Touch(rows) EXCEPT ![c] = Closed]

(* Inserting the key's record conflicts with one inserted since. *)
KeyUnique(c) == stored[call[c].key] = Nothing

(* Mutant of PartyLocked: the invitation is read without its lock. *)
PartyLockedNever(c) == TRUE

(* FOR UPDATE fails on an invitation changed since the snapshot. *)
PartyLocked(c) == "INVITATION" \notin txn[c].stale

(* Mutant of StateWritable: the transaction is READ COMMITTED, without a   *)
(* lock of the state.                                                      *)
StateWritableAlways(c) == TRUE

(* Writing the state fails if another wrote it since the snapshot. *)
StateWritable(c) == "STATE" \notin txn[c].stale

(* enforce_check_in_capacity, on the row as it is. *)
CapacityGuard(total) == ~cancelled /\ total <= expected

(* isInvitationEligible; an answer expects somebody unless it declines. *)
Eligible(c) == ~txn[c].cancelled /\ txn[c].expected > 0

DuplicateAttempt(c) ==
    /\ Complete(c, [outcome |-> "ALREADY_CHECKED_IN", size |-> call[c].size,
                    of |-> txn[c].expected, total |-> txn[c].count], {})
    /\ UNCHANGED <<count, records>>

(* calculateCheckInIncrement, the state, the record and the result. *)
RecordArrival(c) ==
    LET total == txn[c].count + call[c].size IN
    /\ StateWritable(c) /\ CapacityGuard(total)
    /\ count' = total
    /\ records' = Append(records, [key |-> call[c].key, size |-> call[c].size,
                                   before |-> txn[c].count, after |-> total])
    /\ Complete(c, [outcome |-> IF total = txn[c].expected THEN "CHECKED_IN"
                                ELSE "PARTIALLY_CHECKED_IN",
                    size |-> call[c].size, of |-> txn[c].expected, total |-> total],
                {"STATE"})

EndCheckIn(c) ==
    /\ txn[c].open
    /\ IF ~txn[c].eventDay THEN Reject(c, "CHECK_IN_EVENT_NOT_ACTIVE")
       ELSE IF txn[c].stored # Nothing THEN ReplayResult(c)
       ELSE /\ KeyUnique(c) /\ PartyLocked(c)
            /\ IF ~Eligible(c) THEN Reject(c, "CHECK_IN_NOT_ELIGIBLE")
               ELSE IF txn[c].count >= txn[c].expected THEN DuplicateAttempt(c)
               ELSE IF txn[c].count + call[c].size > txn[c].expected
               THEN Reject(c, "CHECK_IN_CAPACITY_EXCEEDED")
               ELSE RecordArrival(c)
    /\ UNCHANGED <<Invitation, Passes>>

-----------------------------------------------------------------------------
(* The entry pass: issuePublicEntryPass.                                   *)

Checking == <<count, records, stored, call>>
Live(s) == s \in {"ACTIVE", "EXPIRED"}       \* not revoked

(* The snapshot of a page that asks for its pass: the passes it sees. *)
BeginPass(p) ==
    /\ page[p].seen = -1 /\ ~cancelled /\ expected > 0
    /\ page' = [page EXCEPT ![p].seen = Len(pass)]
    /\ UNCHANGED <<Invitation, Checking, txn, pass>>

(* The transaction fails; the page asks again. *)
AbortPass(p) ==
    /\ page[p].seen # -1
    /\ page' = [page EXCEPT ![p].seen = -1]
    /\ UNCHANGED <<Invitation, Checking, txn, pass>>

(* The partial unique index on passes not revoked: a pass issued since the *)
(* snapshot conflicts with this one.  The lock alone would not help, for   *)
(* issuing a pass leaves the invitation's row as it was.                   *)
OnePerInvitation(p) == Len(pass) = page[p].seen

(* A valid pass is given again; an expired one is revoked and replaced. *)
EndPass(p) ==
    LET last == page[p].seen
        found == IF last > 0 THEN pass[last] ELSE "NONE"
    IN
    /\ last # -1 /\ ~cancelled /\ expected > 0
    /\ \/ /\ found = "ACTIVE"
          /\ page' = [page EXCEPT ![p] = [seen |-> -1, given |-> last]]
          /\ UNCHANGED pass
       \/ /\ found \in {"NONE", "EXPIRED"}
          /\ OnePerInvitation(p) /\ Len(pass) < MaxPasses
          /\ pass' = Append([q \in DOMAIN pass |->
                                IF q = last THEN "REVOKED" ELSE pass[q]], "ACTIVE")
          /\ page' = [page EXCEPT ![p] = [seen |-> -1, given |-> Len(pass) + 1]]
    /\ UNCHANGED <<Invitation, Checking, txn>>

PassExpires(q) ==
    /\ q \in DOMAIN pass /\ pass[q] = "ACTIVE"
    /\ pass' = [pass EXCEPT ![q] = "EXPIRED"]
    /\ UNCHANGED <<Invitation, Checking, txn, page>>

-----------------------------------------------------------------------------
(* The other operations on the invitation and the event.                   *)

Change == changes < MaxChanges /\ changes' = changes + 1

(* applyRsvp and applyWhatsappRsvp ask nothing of the check-in state. *)
ChangeAnswer(n) ==
    /\ Change /\ ~cancelled /\ n # expected
    /\ expected' = n
    /\ txn' = Touch({"INVITATION"})
    /\ UNCHANGED <<cancelled, eventDay, Checking, Passes>>

CancelInvitation ==
    /\ Change /\ ~cancelled
    /\ cancelled' = TRUE
    /\ txn' = Touch({"INVITATION"})
    /\ UNCHANGED <<expected, eventDay, Checking, Passes>>

UpdateEvent ==
    /\ Change
    /\ eventDay' = ~eventDay
    /\ UNCHANGED <<expected, cancelled, Checking, txn, Passes>>

Next ==
    \/ \E c \in Calls :
          \/ \E k \in Keys, n \in 1..MaxParty : Request(c, k, n)
          \/ BeginCheckIn(c) \/ AbortCheckIn(c) \/ EndCheckIn(c) \/ Contended(c)
    \/ \E p \in Pages : BeginPass(p) \/ AbortPass(p) \/ EndPass(p)
    \/ \E q \in 1..MaxPasses : PassExpires(q)
    \/ \E n \in Parties : ChangeAnswer(n)
    \/ CancelInvitation \/ UpdateEvent

Spec == Init /\ [][Next]_vars

-----------------------------------------------------------------------------
(* Every variable has its type. *)
TypeOK ==
    /\ expected \in Parties /\ cancelled \in BOOLEAN /\ eventDay \in BOOLEAN
    /\ count \in Parties
    /\ records \in Seq([key : Keys, size : Parties, before : Parties, after : Parties])
    /\ stored \in [Keys -> AnswerRow]
    /\ call \in [Calls -> {[step |-> "IDLE"]} \cup
          [step : {"CALLED", "ANSWERED"}, key : Keys, size : 1..MaxParty,
           tries : 0..MaxTries, answer : AnswerRow]]
    /\ txn \in [Calls -> {Closed} \cup
          [open : {TRUE}, expected : Parties, cancelled : BOOLEAN,
           eventDay : BOOLEAN, count : Parties, stored : AnswerRow,
           stale : SUBSET {"INVITATION", "STATE"}]]
    /\ pass \in Seq({"ACTIVE", "EXPIRED", "REVOKED"}) /\ Len(pass) <= MaxPasses
    /\ page \in [Pages -> [seen : -1..MaxPasses, given : 0..MaxPasses]]
    /\ changes \in 0..MaxChanges

(* No arrival is lost or counted from a stale total: the records form one  *)
(* unbroken chain from zero to the stored count.                           *)
RecordsAreAChain ==
    /\ count = IF records = <<>> THEN 0 ELSE records[Len(records)].after
    /\ \A i \in 1..Len(records) :
          /\ records[i].after = records[i].before + records[i].size
          /\ records[i].before = IF i = 1 THEN 0 ELSE records[i - 1].after

(* An idempotency key counts once, however many requests carry it and      *)
(* however they overlap, and every request that is answered with a result  *)
(* is answered with the key's only one, for what it asked.                 *)
KeyCountsOnce ==
    /\ \A i, j \in 1..Len(records) : records[i].key = records[j].key => i = j
    /\ \A c \in Calls :
          call[c].step = "ANSWERED" /\ call[c].answer.outcome \in Recorded =>
             call[c].answer = stored[call[c].key] /\ call[c].answer.size = call[c].size

(* A result that is stored is true when it is stored, of the invitation as *)
(* it is then and not as the transaction found it: within the confirmed    *)
(* attendance, complete exactly if nobody is missing, never for a party    *)
(* that has been cancelled or has declined.                                *)
ResultIsTrue ==
    [][\A k \in Keys : stored'[k] # stored[k] =>
          LET result == stored'[k] IN
          /\ ~cancelled /\ expected > 0
          /\ result.of = expected /\ result.total = count'
          /\ (result.outcome = "PARTIALLY_CHECKED_IN") = (count' < expected)
          /\ count' # count => count' <= expected]_vars

(* At most one entry pass of an invitation is not revoked, though two      *)
(* pages may ask for the first one at once.                                *)
OneLivePass == Cardinality({q \in DOMAIN pass : Live(pass[q])}) <= 1

(* The rows are typed, and neither an arrival nor a pass is there twice.   *)
StateOK == TypeOK /\ RecordsAreAChain /\ OneLivePass
=============================================================================
