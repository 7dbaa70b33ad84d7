---------------------------- MODULE CreditLedger ----------------------------
(***************************************************************************)
(* The credits of one event with billing on: what a launch reserves, what  *)
(* an accepted message is charged, what a failed one is refunded and what  *)
(* a finished batch gives back.                                            *)
(*                                                                         *)
(* PostgreSQL runs these transactions under READ COMMITTED: a statement    *)
(* sees what was committed when it started, and only locks keep the rest   *)
(* apart.  A transaction that moves a message therefore is several steps,  *)
(* one for each statement another transaction can come between:            *)
(*                                                                         *)
(*   Begin   locks the message and reads, without a lock, the reservation  *)
(*   Hold    writes back the reservation it has read, less one unit        *)
(*   Enter   inserts the ledger entries; their guard locks the account     *)
(*   Commit  recounts the batch under its lock, settles, makes all visible *)
(*                                                                         *)
(* The messages go through one attempt each; SendPipeline has the retries, *)
(* which touch no credit.                                                  *)
(***************************************************************************)
EXTENDS MessageDelivery, Integers, FiniteSets

CONSTANTS
    Messages,         \* logical messages, of one credit unit each
    Batches,          \* send batches of the event
    BatchOf,          \* the batch each message belongs to
    WebhookEvidence,  \* the kinds of evidence the provider may report
    MaxGranted        \* bound: credits bought, less those taken back

Members(b) == {m \in Messages : BatchOf[m] = b}

ASSUME CreditAssumption ==
    /\ IsFiniteSet(Messages) /\ IsFiniteSet(Batches)
    /\ BatchOf \in [Messages -> Batches]
    /\ WebhookEvidence \subseteq Evidence
    /\ MaxGranted \in Nat

VARIABLES
    status,       \* messages: "ABSENT" before the batch is launched
    exhausted,    \* messages failed because their dispatch was exhausted
    sent,         \* messages with a sentAt
    applied,      \* evidence the processed webhooks brought
    accepted,     \* messages the provider has accepted
    flight,       \* the worker sending the message
    granted,      \* sum of the purchases and manual adjustments
    charged,      \* messages with a SEND_USAGE entry
    refunded,     \* messages with a REFUND entry
    reservation,  \* the reservation row of each batch
    expired,      \* batches whose reservation is past its expiresAt
    txn           \* the transaction holding the lock on the message's row

pipelineVars == <<status, exhausted, sent, applied>>
providerVars == <<accepted, flight>>
ledgerVars == <<granted, charged, refunded, reservation>>
vars == <<pipelineVars, providerVars, ledgerVars, expired, txn>>

None == "NONE"
ReservationStatus == {None, "ACTIVE", "CONSUMED", "RELEASED"}
Reservation == [status : ReservationStatus, units : Nat]
NoReservation == [status |-> None, units |-> 0]

(* Waiting for the provider, told of the acceptance, or left with an       *)
(* outcome to record as a failure.                                         *)
Flight == {"IDLE", "CALLING", "OK", "FAILED", "DONE"}

(* What a transaction has decided and written so far. *)
Kind == {None, "ACCEPTED", "FAILURE", "INTERRUPTED"} \cup Evidence
Transaction ==
    [pc : {"IDLE", "HOLD", "ENTER", "COMMIT"}, kind : Kind,
     status : MessageStatus, sent : BOOLEAN, charge : BOOLEAN,
     refund : BOOLEAN, hold : Reservation]
Idle == [pc |-> "IDLE", kind |-> None, status |-> "QUEUED", sent |-> FALSE,
         charge |-> FALSE, refund |-> FALSE, hold |-> NoReservation]

Init ==
    /\ status = [m \in Messages |-> "ABSENT"]
    /\ exhausted = {}
    /\ sent = {}
    /\ applied = [m \in Messages |-> {}]
    /\ accepted = {}
    /\ flight = [m \in Messages |-> "IDLE"]
    /\ granted = 0
    /\ charged = {}
    /\ refunded = {}
    /\ reservation = [b \in Batches |-> NoReservation]
    /\ expired = {}
    /\ txn = [m \in Messages |-> Idle]

-----------------------------------------------------------------------------
(* Locks.                                                                  *)

(* m's transaction has updated the reservation row of its batch. *)
LocksReservation(m) == txn[m].charge /\ txn[m].pc \in {"ENTER", "COMMIT"}
ReservationFree(b) == \A m \in Members(b) : ~LocksReservation(m)

(* The guards lock the account for a reservation that stays active and for *)
(* every ledger entry.                                                     *)
LocksAccount(m) ==
    \/ txn[m].pc = "ENTER" /\ txn[m].charge /\ txn[m].hold.status = "ACTIVE"
    \/ txn[m].pc = "COMMIT" /\ (txn[m].charge \/ txn[m].refund)
AccountFree(others) == \A m \in others : ~LocksAccount(m)

-----------------------------------------------------------------------------
(* Balance and guards.                                                     *)

Balance == granted - Cardinality(charged) + Cardinality(refunded)

(* The units these reservations of the given batches hold, one by one. *)
UnitsOf(b, n) == {b} \X (1 .. n)
HeldUnits(rows, batches) ==
    UNION {UnitsOf(b, rows[b].units) : b \in {c \in batches : rows[c].status = "ACTIVE"}}
UnitsHeld(rows, batches) == Cardinality(HeldUnits(rows, batches))
Reserved == UnitsHeld(reservation, Batches)

(* calculateCreditPosition: an expired reservation no longer counts. *)
Available == Balance - UnitsHeld(reservation, Batches \ expired)

(* Mutant of GuardAdmits: what is reserved is left out. *)
GuardAdmitsBalance(units, reserved) == Balance + units >= 0

(* enforce_credit_account_nonnegative, enforce_credit_reservation_available. *)
GuardAdmits(units, reserved) == Balance + units >= reserved

(* credit_reservations_state_check: releasedAt and consumedAt stay set, so *)
(* a row that has one of them admits no other status.                      *)
StateCheckAdmits(old, new) == old \in {"ACTIVE", new}

-----------------------------------------------------------------------------
(* Launches and grants, under the account's lock from the first statement. *)

Launchable(b) ==
    /\ Members(b) # {}
    /\ \A m \in Members(b) : status[m] = "ABSENT"

ServiceAdmits(b) == Available >= Cardinality(Members(b))
DatabaseAdmits(b) == GuardAdmits(0, Reserved + Cardinality(Members(b)))

(* createBatch, resend, a reminder run: reserveForSendBatch or             *)
(* reserveSendBatch in the transaction that creates the messages.  Refused *)
(* by the service or by the guard, the launch leaves nothing behind.       *)
Launch(b) ==
    /\ Launchable(b)
    /\ AccountFree(Messages)
    /\ ServiceAdmits(b)
    /\ DatabaseAdmits(b)
    /\ reservation' = [reservation EXCEPT ![b] =
           [status |-> "ACTIVE", units |-> Cardinality(Members(b))]]
    /\ status' = [m \in Messages |->
                     IF BatchOf[m] = b THEN "QUEUED" ELSE status[m]]
    /\ UNCHANGED <<exhausted, sent, applied, providerVars, granted, charged,
                   refunded, expired, txn>>

(* recordPurchase *)
RecordPurchase ==
    /\ AccountFree(Messages)
    /\ granted < MaxGranted
    /\ granted' = granted + 1
    /\ UNCHANGED <<pipelineVars, providerVars, charged, refunded, reservation,
                   expired, txn>>

(* recordManualAdjustment, of one unit less. *)
RecordDeduction ==
    /\ AccountFree(Messages)
    /\ Available >= 1
    /\ GuardAdmits(-1, Reserved)
    /\ granted' = granted - 1
    /\ UNCHANGED <<pipelineVars, providerVars, charged, refunded, reservation,
                   expired, txn>>

(* A day passes since the launch; no code marks the reservation EXPIRED. *)
ReservationExpires(b) ==
    /\ reservation[b].status = "ACTIVE"
    /\ b \notin expired
    /\ expired' = expired \cup {b}
    /\ UNCHANGED <<pipelineVars, providerVars, ledgerVars, txn>>

-----------------------------------------------------------------------------
(* The worker and the provider.                                            *)

(* claimMessage, and the call of the provider. *)
Claim(m) ==
    /\ status[m] = "QUEUED"
    /\ txn[m] = Idle
    /\ status' = [status EXCEPT ![m] = "SENDING"]
    /\ flight' = [flight EXCEPT ![m] = "CALLING"]
    /\ UNCHANGED <<exhausted, sent, applied, accepted, ledgerVars, expired, txn>>

(* The provider accepts; the worker may not learn of it, or not live to.   *)
ProviderAccepts(m) ==
    /\ flight[m] = "CALLING"
    /\ accepted' = accepted \cup {m}
    /\ \E answer \in {"OK", "FAILED", "DONE"} : flight' = [flight EXCEPT ![m] = answer]
    /\ UNCHANGED <<pipelineVars, ledgerVars, expired, txn>>

ProviderRefuses(m) ==
    /\ flight[m] = "CALLING"
    /\ \E answer \in {"FAILED", "DONE"} : flight' = [flight EXCEPT ![m] = answer]
    /\ UNCHANGED <<pipelineVars, accepted, ledgerVars, expired, txn>>

-----------------------------------------------------------------------------
(* A transaction that moves a message.                                     *)

(* Mutant of Chargeable: a hold past its day pays for nothing any more. *)
ChargeableInTime(m) ==
    /\ m \notin charged
    /\ reservation[BatchOf[m]].status = "ACTIVE"
    /\ BatchOf[m] \notin expired

(* chargeSendUsage, up to its read of the reservation. *)
Chargeable(m) ==
    /\ m \notin charged
    /\ reservation[BatchOf[m]].status = "ACTIVE"
    /\ reservation[BatchOf[m]].units >= 1

(* Mutant of Charged: the last unit but one already ends the reservation. *)
ChargedEarly(row) ==
    IF row.units <= 2 THEN [row EXCEPT !.status = "CONSUMED"]
                      ELSE [row EXCEPT !.units = @ - 1]

(* chargeReservation: the last unit stays on the consumed row. *)
Charged(row) ==
    IF row.units = 1 THEN [row EXCEPT !.status = "CONSUMED"]
                     ELSE [row EXCEPT !.units = @ - 1]

(* Mutant of Refundable: the refund does not look for its charge. *)
RefundableUncharged(m, charge) == m \notin refunded

(* refundSendUsage: against a charge, also one of the same transaction. *)
Refundable(m, charge) == (m \in charged \/ charge) /\ m \notin refunded

(* The message's row is locked and read, and what is to be written of it   *)
(* is decided: its status, its sentAt, whether a charge or a refund is due *)
(* and possible.                                                           *)
Begin(m, kind, newStatus, nowSent, chargeDue, refundDue) ==
    LET charge == chargeDue /\ Chargeable(m)
        refund == refundDue /\ Refundable(m, charge)
    IN
    /\ txn[m] = Idle
    /\ txn' = [txn EXCEPT ![m] =
           [pc |-> IF charge THEN "HOLD" ELSE IF refund THEN "ENTER" ELSE "COMMIT",
            kind |-> kind, status |-> newStatus, sent |-> nowSent,
            charge |-> charge, refund |-> refund,
            hold |-> IF charge THEN Charged(reservation[BatchOf[m]])
                               ELSE NoReservation]]
    /\ UNCHANGED <<pipelineVars, providerVars, ledgerVars, expired>>

(* recordAccepted: charged whatever the status, never refunded. *)
BeginAccepted(m) ==
    /\ flight[m] = "OK"
    /\ Begin(m, "ACCEPTED", Reduce(status[m], "SENT"), TRUE, TRUE, FALSE)

(* recordFailure, final, on an active claim. *)
BeginFailure(m) ==
    /\ flight[m] = "FAILED"
    /\ status[m] = "SENDING"
    /\ Begin(m, "FAILURE", "FAILED", m \in sent, FALSE, TRUE)

(* recordFailure on a message that has moved on writes the attempt only. *)
FailureTooLate(m) ==
    /\ flight[m] = "FAILED"
    /\ status[m] # "SENDING"
    /\ txn[m] = Idle
    /\ flight' = [flight EXCEPT ![m] = "DONE"]
    /\ UNCHANGED <<pipelineVars, accepted, ledgerVars, expired, txn>>

(* claimMessage finds the message claimed or out of attempts, or           *)
(* recordExhaustedSendJob finds it unfinished: failed, without a refund.   *)
BeginInterrupted(m) ==
    /\ status[m] \in Active
    /\ Begin(m, "INTERRUPTED", "FAILED", m \in sent, FALSE, FALSE)

(* A webhook charges the message once it has, or brings, a sentAt. *)
ChargeDueOn(m, e) == m \in sent \/ e = "SENT"

(* applyWebhook *)
BeginWebhook(m, e) ==
    LET reduced == Reduce(status[m], e) IN
    /\ m \in accepted
    /\ e \notin applied[m]
    /\ Begin(m, e, reduced, m \in sent \/ e = "SENT", ChargeDueOn(m, e),
             reduced = "FAILED")

(* The transaction rolls back: a guard or constraint refused it, it lost a *)
(* deadlock, or its connection or its worker died.  An acceptance whose    *)
(* record is lost is taken for an unknown outcome; a failure's is left to  *)
(* the interrupted claim; a webhook stays stored and is applied again.     *)
RollBack(m) ==
    /\ txn' = [txn EXCEPT ![m] = Idle]
    /\ \/ txn[m].kind = "ACCEPTED" /\ flight' = [flight EXCEPT ![m] = "FAILED"]
       \/ txn[m].kind \in {"ACCEPTED", "FAILURE"} /\ flight' = [flight EXCEPT ![m] = "DONE"]
       \/ txn[m].kind \notin {"ACCEPTED", "FAILURE"} /\ UNCHANGED flight
    /\ UNCHANGED <<pipelineVars, accepted, ledgerVars, expired>>

Abort(m) == txn[m] # Idle /\ RollBack(m)

(* The reservation row as it was read, less one unit, is written back      *)
(* whatever it holds by now; its guard and its state check may object.     *)
HoldAdmitted(m) ==
    LET b == BatchOf[m]
        new == txn[m].hold
    IN
    /\ StateCheckAdmits(reservation[b].status, new.status)
    /\ new.status = "ACTIVE" =>
           GuardAdmits(0, UnitsHeld([reservation EXCEPT ![b] = new], Batches))

Hold(m) ==
    /\ txn[m].pc = "HOLD"
    /\ ReservationFree(BatchOf[m])
    /\ txn[m].hold.status = "ACTIVE" => AccountFree(Messages)
    /\ IF HoldAdmitted(m)
       THEN /\ txn' = [txn EXCEPT ![m].pc = "ENTER"]
            /\ UNCHANGED <<pipelineVars, providerVars, ledgerVars, expired>>
       ELSE RollBack(m)

(* The reservations as m's own transaction sees them. *)
SeenBy(m) ==
    IF txn[m].charge THEN [reservation EXCEPT ![BatchOf[m]] = txn[m].hold]
                     ELSE reservation

(* The guard on the first entry, the charge if there is one; a refund that *)
(* follows only adds.                                                      *)
EntriesAdmitted(m) ==
    GuardAdmits(IF txn[m].charge THEN -1 ELSE 1, UnitsHeld(SeenBy(m), Batches))

Enter(m) ==
    /\ txn[m].pc = "ENTER"
    /\ AccountFree(Messages \ {m})
    /\ IF EntriesAdmitted(m)
       THEN /\ txn' = [txn EXCEPT ![m].pc = "COMMIT"]
            /\ UNCHANGED <<pipelineVars, providerVars, ledgerVars, expired>>
       ELSE RollBack(m)

(* Mutant of Settled: a batch with a failed message keeps its hold. *)
SettledIfAllSent(row, members, st) ==
    IF row.status = "ACTIVE" /\ \A m \in members : st[m] \notin Active \cup {"FAILED"}
    THEN [row EXCEPT !.status = "RELEASED"] ELSE row

(* updateBatchState with settleSendBatchReservation: when no message can   *)
(* move again, what is still held is released.                             *)
Settled(row, members, st) ==
    IF row.status = "ACTIVE" /\ \A m \in members : st[m] \notin Active
    THEN [row EXCEPT !.status = "RELEASED"] ELSE row

Commit(m) ==
    LET b == BatchOf[m]
        t == txn[m]
        settled == Settled(SeenBy(m)[b], Members(b), status')
    IN
    /\ t.pc = "COMMIT"
    /\ status' = [status EXCEPT ![m] = t.status]
    /\ LocksReservation(m) \/ settled = reservation[b] \/ ReservationFree(b)
    /\ reservation' = [reservation EXCEPT ![b] = settled]
    /\ charged' = IF t.charge THEN charged \cup {m} ELSE charged
    /\ refunded' = IF t.refund THEN refunded \cup {m} ELSE refunded
    /\ sent' = IF t.sent THEN sent \cup {m} ELSE sent
    /\ applied' = [applied EXCEPT ![m] = @ \cup ({t.kind} \cap Evidence)]
    /\ flight' = [flight EXCEPT ![m] =
                     IF t.kind \in {"ACCEPTED", "FAILURE"} THEN "DONE" ELSE @]
    /\ txn' = [txn EXCEPT ![m] = Idle]
    /\ UNCHANGED <<exhausted, accepted, granted, expired>>

-----------------------------------------------------------------------------
(* A dispatch that is exhausted, and the replay of its batch.              *)

(* recordExhaustedSendJob for a dispatch job: the messages no worker has   *)
(* claimed are failed, and with the last of them the batch is settled.     *)
DispatchExhausted(b) ==
    LET stranded == {m \in Members(b) : status[m] = "QUEUED"} IN
    /\ stranded # {}
    /\ \A m \in stranded : txn[m] = Idle
    /\ status' = [m \in Messages |-> IF m \in stranded THEN "FAILED" ELSE status[m]]
    /\ exhausted' = exhausted \cup stranded
    /\ reservation' = [reservation EXCEPT ![b] = Settled(@, Members(b), status')]
    /\ reservation' = reservation \/ ReservationFree(b)
    /\ UNCHANGED <<sent, applied, providerVars, granted, charged, refunded,
                   expired, txn>>

(* recoverExhaustedDispatch: they are queued again. *)
RecoverExhaustedDispatch(b) ==
    LET recovered == {m \in Members(b) \cap exhausted : status[m] = "FAILED"} IN
    /\ recovered # {}
    /\ \A m \in recovered : txn[m] = Idle
    /\ status' = [m \in Messages |-> IF m \in recovered THEN "QUEUED" ELSE status[m]]
    /\ exhausted' = exhausted \ recovered
    /\ UNCHANGED <<sent, applied, providerVars, ledgerVars, expired, txn>>

-----------------------------------------------------------------------------
BatchStep(b) ==
    \/ Launch(b)
    \/ ReservationExpires(b)
    \/ DispatchExhausted(b)
    \/ RecoverExhaustedDispatch(b)

WorkerStep(m) ==
    \/ Claim(m)
    \/ ProviderAccepts(m)
    \/ ProviderRefuses(m)
    \/ FailureTooLate(m)

BeginStep(m) ==
    \/ BeginAccepted(m)
    \/ BeginFailure(m)
    \/ BeginInterrupted(m)
    \/ \E e \in WebhookEvidence : BeginWebhook(m, e)

TransactionStep(m) == BeginStep(m) \/ Hold(m) \/ Enter(m) \/ Commit(m) \/ Abort(m)

Next ==
    \/ RecordPurchase
    \/ RecordDeduction
    \/ \E b \in Batches : BatchStep(b)
    \/ \E m \in Messages : WorkerStep(m) \/ TransactionStep(m)

Spec == Init /\ [][Next]_vars

-----------------------------------------------------------------------------
(* Properties.                                                             *)

(* Types, and the row constraints of a reservation: units are positive.    *)
TypeOK ==
    /\ status \in [Messages -> MessageStatus \cup {"ABSENT"}]
    /\ exhausted \subseteq Messages
    /\ sent \subseteq Messages
    /\ applied \in [Messages -> SUBSET WebhookEvidence]
    /\ accepted \subseteq Messages
    /\ flight \in [Messages -> Flight]
    /\ granted \in Int
    /\ charged \subseteq Messages
    /\ refunded \subseteq Messages
    /\ reservation \in [Batches -> Reservation]
    /\ \A b \in Batches : reservation[b].status # None => reservation[b].units > 0
    /\ expired \subseteq Batches
    /\ txn \in [Messages -> Transaction]

(* The balance always covers what the active reservations hold, however    *)
(* launches, charges, refunds and deductions interleave: the two database  *)
(* guards are enough under READ COMMITTED.                                 *)
BalanceCoversReserved == Balance >= Reserved

(* A reservation never holds less than its batch may still owe: a charge   *)
(* written from a stale read cannot take another message's unit, and a     *)
(* reservation is consumed only when every message has been charged.       *)
HoldCoversOwed ==
    \A b \in Batches :
        LET owed == Members(b) \ charged IN
        /\ reservation[b].status = "ACTIVE" => reservation[b].units >= Cardinality(owed)
        /\ reservation[b].status = "CONSUMED" => owed = {}

(* A batch in which no message can move again holds nothing back, although *)
(* a charge that began before the settlement may still be under way.       *)
TerminalBatchHoldsNothing ==
    \A b \in Batches :
        (\A m \in Members(b) : status[m] \notin Active \cup {"ABSENT"}) =>
            reservation[b].status # "ACTIVE"

(* A refund answers a charge, and a charge an acceptance by the provider.  *)
EntriesFollowFacts == refunded \subseteq charged /\ charged \subseteq accepted

(* A message known to be sent has been charged, unless its reservation was *)
(* gone: nothing else may leave a send unpaid.                             *)
SentIsChargedWhileHeld ==
    \A m \in sent : reservation[BatchOf[m]].status = "ACTIVE" => m \in charged

(* A reservation that was consumed or released stays so. *)
NoReservationRevived ==
    [][\A b \in Batches :
          reservation[b].status \in {"CONSUMED", "RELEASED"} =>
              reservation'[b].status = reservation[b].status]_vars
=============================================================================
