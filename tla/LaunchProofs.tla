---------------------------- MODULE LaunchProofs ----------------------------
(***************************************************************************)
(* Proofs about what a launch charges and what it sends.                   *)
(*                                                                         *)
(* CreditLedger, for any finite sets of messages and batches: its types,   *)
(* that a reservation never comes back to life, that entries follow facts, *)
(* that a sent message is charged while its batch holds a reservation,     *)
(* that a finished batch holds nothing, that a hold covers what its batch  *)
(* owes, and the balance what all batches hold.                            *)
(*                                                                         *)
(* Preparation, for any images, invitations and requests: what each of     *)
(* the requests that overlap may rely on, that the image of a snapshot     *)
(* stays, and that a launch or a resend sends what is current but for the  *)
(* members, what the host has seen, and nothing to an invitation that is   *)
(* cancelled.                                                              *)
(***************************************************************************)
EXTENDS CreditLedger, Preparation, FiniteSetTheorems, TLAPS

-----------------------------------------------------------------------------
(* CreditLedger: reservations and messages. *)

(* The inductive invariant.  Before its launch a message has no history;   *)
(* with the launch its batch gets a reservation row for good.              *)
Launched(m) ==
    /\ status[m] # "ABSENT" <=> reservation[BatchOf[m]].status # None
    /\ status[m] = "ABSENT" => /\ m \notin accepted \cup sent
                               /\ flight[m] = "IDLE"
                               /\ txn[m] = Idle
    /\ flight[m] = "OK" => m \in accepted

(* The message is charged, or its reservation is gone. *)
Paid(m) ==
    m \in charged \/ reservation[BatchOf[m]].status \in {"CONSUMED", "RELEASED"}

(* What a transaction has decided stays right until it ends. *)
Decided(m) ==
    /\ txn[m].charge => /\ m \in accepted
                        /\ txn[m].hold.status \in {"ACTIVE", "CONSUMED"}
                        /\ txn[m].hold.units > 0
    /\ txn[m].refund => m \in charged \/ txn[m].charge
    /\ txn[m].sent => txn[m].charge \/ Paid(m)
    /\ txn[m].pc = "HOLD" => txn[m].charge
    /\ txn[m].kind \in Evidence => txn[m].kind \in WebhookEvidence

(* A reservation row has one writer, and what he found there allows what   *)
(* he has written.                                                         *)
Exclusive(m) ==
    LocksReservation(m) =>
        /\ reservation[BatchOf[m]].status \in {"ACTIVE", txn[m].hold.status}
        /\ \A o \in Members(BatchOf[m]) : LocksReservation(o) => o = m

LedgerInv ==
    /\ \A m \in Messages : Launched(m) /\ Decided(m) /\ Exclusive(m)
    /\ \A m \in sent : Paid(m)
    /\ EntriesFollowFacts

IInv == TypeOK /\ LedgerInv

-----------------------------------------------------------------------------
(* Facts about the operators. *)

(* Reduce yields a status. *)
LEMMA ReduceIsStatus ==
    ASSUME NEW s \in MessageStatus, NEW e \in Evidence
    PROVE  Reduce(s, e) \in MessageStatus
BY DEF Reduce, Rank, MessageStatus, Evidence, Active, Proven

(* A charge leaves an active reservation active or consumed, with units. *)
LEMMA ChargedResult ==
    ASSUME NEW row \in Reservation, row.units > 0, row.status = "ACTIVE"
    PROVE  /\ Charged(row) \in Reservation
           /\ Charged(row).status \in {"ACTIVE", "CONSUMED"}
           /\ Charged(row).units > 0
BY DEF Charged, Reservation, ReservationStatus

(* Settling touches nothing but the status of an active reservation. *)
LEMMA SettledResult ==
    ASSUME NEW row \in Reservation, NEW S, NEW st
    PROVE  /\ Settled(row, S, st) \in Reservation
           /\ Settled(row, S, st).units = row.units
           /\ row.status # "ACTIVE" => Settled(row, S, st) = row
           /\ row.status = "ACTIVE" => Settled(row, S, st).status \in {"ACTIVE", "RELEASED"}
BY DEF Settled, Reservation, ReservationStatus

(* A batch with messages reserves at least one unit. *)
LEMMA LaunchUnits ==
    ASSUME NEW b \in Batches, Members(b) # {}
    PROVE  Cardinality(Members(b)) \in Nat /\ Cardinality(Members(b)) > 0
<1>1. IsFiniteSet(Members(b))
    BY CreditAssumption, FS_Subset DEF Members
<1>. QED BY <1>1, FS_CardinalityType, FS_EmptySet

-----------------------------------------------------------------------------
(* The invariant holds before the first launch. *)
LEMMA InitInvariant == Init => IInv
<1> SUFFICES ASSUME Init PROVE IInv
    OBVIOUS
<1> USE CreditAssumption DEF Init
<1>1. TypeOK
    BY DEF TypeOK, Flight, Reservation, ReservationStatus, NoReservation, None,
           Transaction, Idle, Kind, MessageStatus, Active
<1>2. LedgerInv
    BY DEF LedgerInv, Launched, Decided, Exclusive, EntriesFollowFacts,
           LocksReservation, Idle, NoReservation, None, Evidence, Proven
<1>. QED BY <1>1, <1>2 DEF IInv

(* The row a transaction sees is a reservation with units, and if it has a *)
(* terminal status it has the one the table shows.                         *)
LEMMA SeenResult ==
    ASSUME IInv, NEW m \in Messages, txn[m].pc = "COMMIT",
           reservation[BatchOf[m]].status # None
    PROVE  LET row == SeenBy(m)[BatchOf[m]] IN
           /\ row \in Reservation
           /\ row.units > 0
           /\ row.status # None
           /\ reservation[BatchOf[m]].status \in {"CONSUMED", "RELEASED"} =>
                  row.status = reservation[BatchOf[m]].status
<1>1. /\ BatchOf[m] \in Batches
      /\ reservation \in [Batches -> Reservation]
      /\ reservation[BatchOf[m]].units > 0
      /\ txn[m].hold \in Reservation
    BY CreditAssumption DEF IInv, TypeOK, Transaction
<1>2. /\ txn[m].charge => LocksReservation(m)
      /\ Decided(m)
      /\ Exclusive(m)
    BY DEF IInv, LedgerInv, LocksReservation
<1>. QED BY <1>1, <1>2 DEF SeenBy, Decided, Exclusive, None

(* No step takes a reservation row away, or a terminal status off it.      *)
LEMMA ReservationKept ==
    ASSUME IInv, [Next]_vars, NEW b \in Batches
    PROVE  /\ reservation[b].status # None => reservation'[b].status # None
           /\ reservation[b].status \in {"CONSUMED", "RELEASED"} =>
                  reservation'[b].status = reservation[b].status
<1> DEFINE Kept == /\ reservation[b].status # None => reservation'[b].status # None
                   /\ reservation[b].status \in {"CONSUMED", "RELEASED"} =>
                          reservation'[b].status = reservation[b].status
<1>t. reservation \in [Batches -> Reservation]
    BY DEF IInv, TypeOK
<1>1. ASSUME NEW c \in Batches, Launch(c) PROVE Kept
    <2>1. PICK m \in Members(c) : status[m] = "ABSENT"
        BY <1>1 DEF Launch, Launchable
    <2>2. reservation[c].status = None
        BY <2>1, CreditAssumption DEF Members, IInv, LedgerInv, Launched
    <2>3. reservation' = [reservation EXCEPT ![c] =
               [status |-> "ACTIVE", units |-> Cardinality(Members(c))]]
        BY <1>1 DEF Launch
    <2>. QED BY <1>t, <2>2, <2>3 DEF None
<1>2. ASSUME NEW c \in Batches, DispatchExhausted(c) PROVE Kept
    <2>1. reservation' = [reservation EXCEPT ![c] =
                             Settled(reservation[c], Members(c), status')]
        BY <1>2 DEF DispatchExhausted
    <2>. QED BY <1>t, <2>1, SettledResult DEF None
<1>3. ASSUME NEW m \in Messages, Commit(m) PROVE Kept
    <2> DEFINE row == SeenBy(m)[BatchOf[m]]
    <2>1. reservation' = [reservation EXCEPT ![BatchOf[m]] =
                             Settled(row, Members(BatchOf[m]), status')]
        BY <1>3 DEF Commit
    <2>2. CASE b = BatchOf[m] /\ reservation[b].status # None
        <3>1. /\ row \in Reservation /\ row.status # None
              /\ reservation[b].status \in {"CONSUMED", "RELEASED"} =>
                     row.status = reservation[b].status
            BY <1>3, <2>2, SeenResult DEF Commit
        <3>2. reservation'[b] = Settled(row, Members(b), status')
            BY <1>t, <2>1, <2>2
        <3>. QED BY <2>2, <3>1, <3>2, SettledResult DEF None
    <2>3. CASE b # BatchOf[m]
        BY <1>t, <2>1, <2>3
    <2>. QED BY <2>2, <2>3 DEF None
<1>4. CASE UNCHANGED reservation
    BY <1>4
<1>5. \/ \E c \in Batches : Launch(c) \/ DispatchExhausted(c)
      \/ \E m \in Messages : Commit(m)
      \/ UNCHANGED reservation
    <2>1. CASE RecordPurchase \/ RecordDeduction \/ UNCHANGED vars
        BY <2>1, Zenon DEF RecordPurchase, RecordDeduction, vars, ledgerVars
    <2>2. ASSUME NEW c \in Batches, BatchStep(c)
          PROVE  Launch(c) \/ DispatchExhausted(c) \/ UNCHANGED reservation
        BY <2>2, Zenon DEF BatchStep, ReservationExpires, RecoverExhaustedDispatch, ledgerVars
    <2>3. ASSUME NEW m \in Messages, WorkerStep(m) PROVE UNCHANGED reservation
        BY <2>3, Zenon DEF WorkerStep, Claim, ProviderAccepts, ProviderRefuses, FailureTooLate, ledgerVars
    <2>4. ASSUME NEW m \in Messages, TransactionStep(m) PROVE Commit(m) \/ UNCHANGED reservation
        <3>1. CASE BeginStep(m)
            BY <3>1, Zenon DEF BeginStep, BeginAccepted, BeginFailure, BeginInterrupted, BeginWebhook,
                               Begin, ledgerVars
        <3>2. CASE Hold(m) \/ Enter(m) \/ Abort(m)
            BY <3>2, Zenon DEF Hold, Enter, Abort, RollBack, ledgerVars
        <3>. QED BY <2>4, <3>1, <3>2, Zenon DEF TransactionStep
    <2>. QED BY <2>1, <2>2, <2>3, <2>4, Zenon DEF Next
<1>. QED BY <1>1, <1>2, <1>3, <1>4, <1>5

-----------------------------------------------------------------------------
(* The steps of a transaction, as the rest of the proof sees them.         *)

(* What Begin decides: the record is a transaction, and right. *)
LEMMA BeginResult ==
    ASSUME IInv, NEW m \in Messages, NEW kind \in Kind,
           NEW newStatus \in MessageStatus, NEW nowSent \in BOOLEAN,
           NEW chargeDue \in BOOLEAN, NEW refundDue \in BOOLEAN,
           status[m] # "ABSENT",
           chargeDue => m \in accepted,
           nowSent => chargeDue \/ m \in sent,
           kind \in Evidence => kind \in WebhookEvidence,
           Begin(m, kind, newStatus, nowSent, chargeDue, refundDue)
    PROVE  /\ \E t \in Transaction : txn' = [txn EXCEPT ![m] = t]
           /\ Decided(m)'
           /\ ~LocksReservation(m)'
<1> DEFINE row == reservation[BatchOf[m]]
           charge == chargeDue /\ Chargeable(m)
           refund == refundDue /\ Refundable(m, charge)
           t == [pc |-> IF charge THEN "HOLD" ELSE IF refund THEN "ENTER" ELSE "COMMIT",
                 kind |-> kind, status |-> newStatus, sent |-> nowSent,
                 charge |-> charge, refund |-> refund,
                 hold |-> IF charge THEN Charged(row) ELSE NoReservation]
<1>1. /\ txn' = [txn EXCEPT ![m] = t]
      /\ UNCHANGED <<accepted, charged, reservation>>
    BY DEF Begin, ledgerVars, providerVars
<1>2. /\ row \in Reservation
      /\ row.status # None
      /\ row.units > 0
      /\ txn \in [Messages -> Transaction]
    BY CreditAssumption DEF IInv, TypeOK, LedgerInv, Launched
<1>3. charge => /\ Charged(row) \in Reservation
                /\ Charged(row).status \in {"ACTIVE", "CONSUMED"}
                /\ Charged(row).units > 0
    BY <1>2, ChargedResult DEF Chargeable
<1>4. charge \in BOOLEAN /\ refund \in BOOLEAN
    BY DEF Chargeable, Refundable
<1>5. NoReservation \in Reservation
    BY DEF NoReservation, Reservation, ReservationStatus
<1>6. t \in Transaction
    <2> HIDE DEF charge, refund, row
    <2>. QED BY <1>3, <1>4, <1>5 DEF Transaction
<1>7. txn'[m] = t
    BY <1>1, <1>2
<1>8. chargeDue => charge \/ Paid(m)
    <2>1. row.units >= 1
        BY <1>2 DEF Reservation
    <2>. QED BY <1>2, <2>1 DEF Chargeable, Paid, Reservation, ReservationStatus
<1>9. m \in sent => Paid(m)
    BY DEF IInv, LedgerInv
<1>10. refund => m \in charged \/ charge
    BY DEF Refundable
<1>11. Decided(m)'
    <2> HIDE DEF charge, refund, row
    <2>1. /\ t.charge = charge /\ t.refund = refund /\ t.sent = nowSent
          /\ t.kind = kind
          /\ charge => t.hold = Charged(row)
          /\ t.pc = "HOLD" => charge
        OBVIOUS
    <2> HIDE DEF t
    <2>. QED BY <1>1, <1>3, <1>7, <1>8, <1>9, <1>10, <2>1 DEF Decided, Paid, charge
<1>12. ~LocksReservation(m)'
    <2>1. t.charge => t.pc = "HOLD"
        OBVIOUS
    <2> HIDE DEF t
    <2>. QED BY <1>7, <2>1 DEF LocksReservation
<1>. QED BY <1>1, <1>6, <1>11, <1>12

(* A step inside m's transaction: nothing is visible yet but a lock, which *)
(* it had before or found free, and the end of the worker's execution.     *)
LEMMA OwnStep ==
    ASSUME IInv, NEW m \in Messages, NEW t \in Transaction,
           status[m] # "ABSENT",
           txn' = [txn EXCEPT ![m] = t],
           UNCHANGED <<pipelineVars, accepted, ledgerVars, expired>>,
           NEW f \in {flight[m], "FAILED", "DONE"},
           flight' = [flight EXCEPT ![m] = f],
           Decided(m)',
           LocksReservation(m)' =>
               /\ reservation[BatchOf[m]].status \in {"ACTIVE", t.hold.status}
               /\ LocksReservation(m) \/ ReservationFree(BatchOf[m])
    PROVE  IInv'
<1> USE CreditAssumption
<1>1. TypeOK /\ LedgerInv
    BY DEF IInv
<1>2. TypeOK'
    BY <1>1 DEF TypeOK, pipelineVars, ledgerVars, Flight
<1>3. UNCHANGED <<status, sent, accepted, charged, refunded, reservation>>
    BY DEF pipelineVars, ledgerVars
<1>4. \A o \in Messages : o # m => txn'[o] = txn[o] /\ flight'[o] = flight[o]
    BY <1>1 DEF TypeOK
<1>5. txn'[m] = t /\ flight'[m] = f
    BY <1>1 DEF TypeOK
<1>6. ASSUME NEW o \in Messages PROVE Launched(o)'
    BY <1>1, <1>3, <1>4, <1>5 DEF LedgerInv, Launched
<1>7. ASSUME NEW o \in Messages PROVE Decided(o)'
    <2>1. CASE o = m
        BY <2>1
    <2>2. CASE o # m
        BY <1>1, <1>3, <1>4, <2>2 DEF LedgerInv, Decided, Paid
    <2>. QED BY <2>1, <2>2
<1>8. ASSUME NEW o \in Messages PROVE Exclusive(o)'
    <2>1. \A q \in Messages : q # m => (LocksReservation(q)' <=> LocksReservation(q))
        BY <1>4 DEF LocksReservation
    <2>2. \A q \in Messages : Exclusive(q)
        BY <1>1 DEF LedgerInv
    <2>. QED BY <1>3, <1>4, <1>5, <2>1, <2>2 DEF Exclusive, ReservationFree, Members
<1>9. \A o \in sent' : Paid(o)'
    BY <1>1, <1>3 DEF LedgerInv, Paid
<1>10. EntriesFollowFacts'
    BY <1>1, <1>3 DEF LedgerInv, EntriesFollowFacts
<1>. QED BY <1>2, <1>6, <1>7, <1>8, <1>9, <1>10 DEF IInv, LedgerInv

(* Idle is a transaction that has decided nothing. *)
LEMMA IdleResult ==
    /\ Idle \in Transaction
    /\ ~Idle.charge /\ ~Idle.refund /\ ~Idle.sent /\ Idle.pc # "HOLD"
    /\ Idle.kind \notin Evidence
BY DEF Idle, Evidence, Proven, Transaction, Kind, MessageStatus, Active, NoReservation,
       Reservation, ReservationStatus, None

(* Beginning a transaction, on whichever path, keeps the invariant. *)
LEMMA BeginKeeps ==
    ASSUME IInv, NEW m \in Messages, BeginStep(m)
    PROVE  IInv'
<1>1. TypeOK /\ LedgerInv /\ Launched(m)
    BY DEF IInv, LedgerInv
<1>2. ASSUME NEW kind \in Kind, NEW newStatus \in MessageStatus,
             NEW nowSent \in BOOLEAN, NEW chargeDue \in BOOLEAN,
             NEW refundDue \in BOOLEAN, status[m] # "ABSENT",
             chargeDue => m \in accepted, nowSent => chargeDue \/ m \in sent,
             kind \in Evidence => kind \in WebhookEvidence,
             Begin(m, kind, newStatus, nowSent, chargeDue, refundDue)
      PROVE  IInv'
    <2>1. /\ \E t \in Transaction : txn' = [txn EXCEPT ![m] = t]
          /\ Decided(m)'
          /\ ~LocksReservation(m)'
        BY <1>2, BeginResult
    <2>2. /\ UNCHANGED <<pipelineVars, accepted, ledgerVars, expired>>
          /\ flight' = [flight EXCEPT ![m] = flight[m]]
        BY <1>1, <1>2 DEF Begin, providerVars, TypeOK
    <2>. QED BY <1>2, <2>1, <2>2, OwnStep
<1>3. status[m] # "ABSENT" => status[m] \in MessageStatus
    BY <1>1 DEF TypeOK
<1>4. CASE BeginAccepted(m)
    <2>1. /\ status[m] # "ABSENT" /\ m \in accepted
        BY <1>1, <1>4 DEF BeginAccepted, Launched
    <2>2. /\ Reduce(status[m], "SENT") \in MessageStatus
          /\ "ACCEPTED" \in Kind \ Evidence
        BY <1>3, <2>1, ReduceIsStatus DEF Evidence, Kind, Proven
    <2>. QED BY <1>2, <1>4, <2>1, <2>2 DEF BeginAccepted
<1>5. CASE BeginFailure(m)
    <2>1. status[m] # "ABSENT"
        BY <1>5 DEF BeginFailure
    <2>2. "FAILED" \in MessageStatus /\ "FAILURE" \in Kind \ Evidence
        BY DEF MessageStatus, Kind, Evidence, Proven
    <2>3. Begin(m, "FAILURE", "FAILED", m \in sent, FALSE, TRUE)
        BY <1>5 DEF BeginFailure
    <2>4. (m \in sent) \in BOOLEAN /\ FALSE \in BOOLEAN /\ TRUE \in BOOLEAN
        OBVIOUS
    <2>. QED BY <1>2, <2>1, <2>2, <2>3, <2>4
<1>6. CASE BeginInterrupted(m)
    <2>1. status[m] # "ABSENT"
        BY <1>6 DEF BeginInterrupted, Active
    <2>2. "FAILED" \in MessageStatus /\ "INTERRUPTED" \in Kind \ Evidence
        BY DEF MessageStatus, Kind, Evidence, Proven
    <2>3. Begin(m, "INTERRUPTED", "FAILED", m \in sent, FALSE, FALSE)
        BY <1>6 DEF BeginInterrupted
    <2>4. (m \in sent) \in BOOLEAN /\ FALSE \in BOOLEAN /\ TRUE \in BOOLEAN
        OBVIOUS
    <2>. QED BY <1>2, <2>1, <2>2, <2>3, <2>4
<1>7. ASSUME NEW e \in WebhookEvidence, BeginWebhook(m, e) PROVE IInv'
    <2>1. m \in accepted /\ status[m] # "ABSENT" /\ e \in Evidence
        BY <1>1, <1>7, CreditAssumption DEF BeginWebhook, Launched
    <2>2. Reduce(status[m], e) \in MessageStatus /\ e \in Kind
        BY <1>3, <2>1, ReduceIsStatus DEF Kind
    <2>. QED BY <1>2, <1>7, <2>1, <2>2 DEF BeginWebhook, ChargeDueOn
<1>. QED BY <1>4, <1>5, <1>6, <1>7 DEF BeginStep

(* So does rolling it back. *)
LEMMA RollBackKeeps ==
    ASSUME IInv, NEW m \in Messages, txn[m] # Idle, RollBack(m)
    PROVE  IInv'
<1>1. TypeOK /\ Launched(m)
    BY DEF IInv, LedgerInv
<1>2. txn'[m] = Idle /\ status[m] # "ABSENT"
    BY <1>1 DEF RollBack, TypeOK, Launched
<1>3. Decided(m)' /\ ~LocksReservation(m)'
    BY <1>2, IdleResult DEF Decided, LocksReservation
<1>4. \E f \in {flight[m], "FAILED", "DONE"} : flight' = [flight EXCEPT ![m] = f]
    BY <1>1 DEF RollBack, TypeOK
<1>. QED BY <1>2, <1>3, <1>4, IdleResult, OwnStep DEF RollBack

(* And writing the reservation, and the ledger entries. *)
LEMMA HoldEnterKeep ==
    ASSUME IInv, NEW m \in Messages, Hold(m) \/ Enter(m)
    PROVE  IInv'
<1>1. TypeOK /\ Launched(m) /\ Decided(m) /\ Exclusive(m)
    BY DEF IInv, LedgerInv
<1>2. txn[m] # Idle /\ status[m] # "ABSENT"
    BY <1>1 DEF Hold, Enter, Idle, Launched
<1>3. CASE RollBack(m)
    BY <1>2, <1>3, RollBackKeeps
<1>4. CASE /\ Hold(m) /\ HoldAdmitted(m)
           /\ txn' = [txn EXCEPT ![m].pc = "ENTER"]
           /\ UNCHANGED <<pipelineVars, providerVars, ledgerVars, expired>>
    <2> DEFINE t == [txn[m] EXCEPT !.pc = "ENTER"]
    <2>1. /\ t \in Transaction
          /\ txn' = [txn EXCEPT ![m] = t]
          /\ txn'[m] = t
          /\ t.pc = "ENTER" /\ t.charge = txn[m].charge /\ t.hold = txn[m].hold
          /\ t.refund = txn[m].refund /\ t.sent = txn[m].sent
          /\ t.kind = txn[m].kind
        BY <1>1, <1>4 DEF TypeOK, Transaction
    <2>2. Decided(m)'
        BY <1>1, <1>4, <2>1 DEF Decided, Paid, providerVars, ledgerVars
    <2>3. /\ reservation[BatchOf[m]].status \in {"ACTIVE", t.hold.status}
          /\ ReservationFree(BatchOf[m])
        BY <1>4, <2>1 DEF Hold, HoldAdmitted, StateCheckAdmits
    <2>4. /\ UNCHANGED <<pipelineVars, accepted, ledgerVars, expired>>
          /\ flight' = [flight EXCEPT ![m] = flight[m]]
        BY <1>1, <1>4 DEF providerVars, TypeOK
    <2>. QED BY <1>2, <2>1, <2>2, <2>3, <2>4, OwnStep
<1>5. CASE /\ Enter(m)
           /\ txn' = [txn EXCEPT ![m].pc = "COMMIT"]
           /\ UNCHANGED <<pipelineVars, providerVars, ledgerVars, expired>>
    <2> DEFINE t == [txn[m] EXCEPT !.pc = "COMMIT"]
    <2>1. /\ t \in Transaction
          /\ txn' = [txn EXCEPT ![m] = t]
          /\ txn'[m] = t
          /\ t.pc = "COMMIT" /\ t.charge = txn[m].charge /\ t.hold = txn[m].hold
          /\ t.refund = txn[m].refund /\ t.sent = txn[m].sent
          /\ t.kind = txn[m].kind
        BY <1>1, <1>5 DEF TypeOK, Transaction
    <2>2. Decided(m)'
        BY <1>1, <1>5, <2>1 DEF Decided, Paid, providerVars, ledgerVars
    <2>3. LocksReservation(m)' => LocksReservation(m)
        BY <1>5, <2>1 DEF LocksReservation, Enter
    <2>4. /\ UNCHANGED <<pipelineVars, accepted, ledgerVars, expired>>
          /\ flight' = [flight EXCEPT ![m] = flight[m]]
        BY <1>1, <1>5 DEF providerVars, TypeOK
    <2>. QED BY <1>1, <1>2, <2>1, <2>2, <2>3, <2>4, OwnStep DEF Exclusive
<1>. QED BY <1>3, <1>4, <1>5 DEF Hold, Enter

-----------------------------------------------------------------------------
(* The end of a transaction. *)

(* With its end a transaction makes visible what it decided. *)
LEMMA CommitKeeps ==
    ASSUME IInv, [Next]_vars, NEW m \in Messages, Commit(m)
    PROVE  IInv'
<1> USE CreditAssumption
<1> DEFINE b == BatchOf[m]
           row == SeenBy(m)[b]
           done == Settled(row, Members(b), status')
<1>1. TypeOK /\ LedgerInv /\ Launched(m) /\ Decided(m) /\ Exclusive(m)
    BY DEF IInv, LedgerInv
<1>2. /\ txn[m] \in Transaction
      /\ txn[m].pc = "COMMIT"
      /\ b \in Batches
    BY <1>1 DEF Commit, TypeOK
<1>3. /\ status[m] # "ABSENT"
      /\ reservation[b].status # None
    BY <1>1, <1>2, IdleResult DEF Launched, Idle
<1>4. /\ row \in Reservation
      /\ row.units > 0
      /\ row.status # None
      /\ reservation[b].status \in {"CONSUMED", "RELEASED"} =>
             row.status = reservation[b].status
    BY <1>2, <1>3, SeenResult
<1>5. /\ done \in Reservation
      /\ done.units > 0
      /\ done.status # None
    BY <1>4, SettledResult DEF None
<1>6. /\ status' = [status EXCEPT ![m] = txn[m].status]
      /\ reservation' = [reservation EXCEPT ![b] = done]
      /\ LocksReservation(m) \/ done = reservation[b] \/ ReservationFree(b)
      /\ charged' = IF txn[m].charge THEN charged \cup {m} ELSE charged
      /\ refunded' = IF txn[m].refund THEN refunded \cup {m} ELSE refunded
      /\ sent' = IF txn[m].sent THEN sent \cup {m} ELSE sent
      /\ applied' = [applied EXCEPT ![m] = @ \cup ({txn[m].kind} \cap Evidence)]
      /\ flight' = [flight EXCEPT ![m] =
                       IF txn[m].kind \in {"ACCEPTED", "FAILURE"} THEN "DONE" ELSE @]
      /\ txn' = [txn EXCEPT ![m] = Idle]
      /\ UNCHANGED <<exhausted, accepted, granted, expired>>
    BY DEF Commit
<1>k. txn[m].kind \in Evidence => txn[m].kind \in WebhookEvidence
    BY <1>1 DEF Decided
<1>7. TypeOK'
    <2> HIDE DEF done, row
    <2>1. /\ txn[m].status \in MessageStatus
          /\ Idle \in Transaction
        BY <1>2, IdleResult DEF Transaction
    <2>2. /\ status' \in [Messages -> MessageStatus \cup {"ABSENT"}]
          /\ reservation' \in [Batches -> Reservation]
          /\ \A c \in Batches : reservation'[c].status # None => reservation'[c].units > 0
          /\ txn' \in [Messages -> Transaction]
        BY <1>1, <1>2, <1>5, <1>6, <2>1 DEF TypeOK
    <2>3. /\ charged' \subseteq Messages
          /\ refunded' \subseteq Messages
          /\ sent' \subseteq Messages
          /\ flight' \in [Messages -> Flight]
          /\ applied' \in [Messages -> SUBSET WebhookEvidence]
        BY <1>1, <1>6, <1>k DEF TypeOK, Flight
    <2>. QED BY <1>1, <1>6, <2>2, <2>3 DEF TypeOK
<1>8. \A c \in Batches :
         /\ reservation[c].status # None => reservation'[c].status # None
         /\ reservation[c].status \in {"CONSUMED", "RELEASED"} =>
                reservation'[c].status = reservation[c].status
    BY ReservationKept
<1>9. \A o \in Messages : Paid(o) => Paid(o)'
    BY <1>1, <1>6, <1>8 DEF Paid, TypeOK
<1>10. txn[m].charge => m \in charged'
    BY <1>6
<1>11. \A o \in Messages : o # m => /\ txn'[o] = txn[o]
                                    /\ status'[o] = status[o]
                                    /\ flight'[o] = flight[o]
                                    /\ o \in sent' <=> o \in sent
    BY <1>1, <1>6 DEF TypeOK
<1>12. /\ txn'[m] = Idle
       /\ status'[m] # "ABSENT"
       /\ flight'[m] = "OK" => flight[m] = "OK"
    <2>1. txn[m].status # "ABSENT"
        BY <1>2 DEF Transaction, MessageStatus, Active, Proven
    <2>. QED BY <1>1, <1>6, <2>1 DEF TypeOK
<1>13. ASSUME NEW o \in Messages PROVE Launched(o)'
    <2>1. reservation'[BatchOf[o]].status # None <=> reservation[BatchOf[o]].status # None
        <3> HIDE DEF done, row
        <3>. QED BY <1>1, <1>3, <1>5, <1>6, <1>8 DEF TypeOK
    <2>. QED BY <1>1, <1>3, <1>6, <1>11, <1>12, <2>1 DEF LedgerInv, Launched
<1>14. ASSUME NEW o \in Messages PROVE Decided(o)'
    <2>1. CASE o = m
        BY <1>12, <2>1, IdleResult DEF Decided, Idle
    <2>2. CASE o # m
        BY <1>1, <1>6, <1>9, <1>11, <2>2 DEF LedgerInv, Decided
    <2>. QED BY <2>1, <2>2
<1>15. ASSUME NEW o \in Messages PROVE Exclusive(o)'
    <2>1. ~LocksReservation(m)'
        BY <1>12, IdleResult DEF LocksReservation
    <2>2. \A q \in Messages : q # m => (LocksReservation(q)' <=> LocksReservation(q))
        BY <1>11 DEF LocksReservation
    <2>3. CASE BatchOf[o] = b /\ o # m /\ LocksReservation(o)
        <3>1. ~LocksReservation(m)
            BY <1>1, <1>2, <2>3 DEF LedgerInv, Exclusive, Members
        <3>2. ~ReservationFree(b)
            BY <2>3 DEF ReservationFree, Members
        <3>3. reservation'[b] = reservation[b]
            BY <1>1, <1>2, <1>6, <3>1, <3>2 DEF TypeOK
        <3>. QED BY <1>1, <1>11, <2>1, <2>2, <2>3, <3>3 DEF LedgerInv, Exclusive, Members
    <2>4. CASE BatchOf[o] # b
        <3>1. reservation'[BatchOf[o]] = reservation[BatchOf[o]]
            BY <1>1, <1>6, <2>4 DEF TypeOK
        <3>. QED BY <1>1, <1>11, <2>1, <2>2, <2>4, <3>1 DEF LedgerInv, Exclusive, Members
    <2>5. CASE o = m \/ ~LocksReservation(o)
        BY <2>1, <2>2, <2>5 DEF Exclusive
    <2>. QED BY <2>3, <2>4, <2>5
<1>16. \A o \in sent' : Paid(o)'
    <2>1. txn[m].sent => Paid(m)'
        BY <1>1, <1>9, <1>10 DEF Decided, Paid
    <2>. QED BY <1>1, <1>6, <1>9, <2>1 DEF LedgerInv, TypeOK
<1>17. EntriesFollowFacts'
    BY <1>1, <1>6 DEF LedgerInv, Decided, EntriesFollowFacts
<1>. QED BY <1>7, <1>13, <1>14, <1>15, <1>16, <1>17 DEF IInv, LedgerInv

-----------------------------------------------------------------------------
(* Steps outside the transactions. *)

(* A step that leaves transactions, sentAt and ledger entries alone keeps  *)
(* the invariant when it keeps what each message and row is known for.     *)
LEMMA OutsideStep ==
    ASSUME IInv, [Next]_vars, TypeOK',
           UNCHANGED <<sent, charged, refunded, txn>>,
           accepted \subseteq accepted',
           \A o \in Messages : Launched(o)',
           \A o \in Messages : LocksReservation(o) =>
               reservation'[BatchOf[o]].status = reservation[BatchOf[o]].status
    PROVE  IInv'
<1> USE CreditAssumption
<1>1. TypeOK /\ LedgerInv
    BY DEF IInv
<1>2. \A c \in Batches :
         reservation[c].status \in {"CONSUMED", "RELEASED"} =>
             reservation'[c].status = reservation[c].status
    BY ReservationKept
<1>3. \A o \in Messages : Paid(o) => Paid(o)'
    BY <1>2 DEF Paid
<1>4. ASSUME NEW o \in Messages PROVE Decided(o)'
    BY <1>1, <1>3 DEF LedgerInv, Decided
<1>5. ASSUME NEW o \in Messages PROVE Exclusive(o)'
    <2>1. \A q \in Messages : LocksReservation(q)' <=> LocksReservation(q)
        BY DEF LocksReservation
    <2>. QED BY <1>1, <2>1 DEF LedgerInv, Exclusive, Members
<1>6. (\A o \in sent : Paid(o)) /\ sent \subseteq Messages
    BY <1>1 DEF LedgerInv, TypeOK
<1>7. EntriesFollowFacts'
    BY <1>1 DEF LedgerInv, EntriesFollowFacts
<1>. QED BY <1>3, <1>4, <1>5, <1>6, <1>7 DEF IInv, LedgerInv

(* The worker and the provider. *)
LEMMA WorkerKeeps ==
    ASSUME IInv, [Next]_vars, NEW m \in Messages, WorkerStep(m)
    PROVE  IInv'
<1>1. TypeOK /\ \A o \in Messages : Launched(o)
    BY DEF IInv, LedgerInv
<1>2. /\ UNCHANGED <<exhausted, sent, applied, ledgerVars, expired, txn>>
      /\ accepted \subseteq accepted' /\ accepted' \subseteq Messages
    BY <1>1 DEF WorkerStep, Claim, ProviderAccepts, ProviderRefuses,
                FailureTooLate, pipelineVars, TypeOK
<1>3. UNCHANGED <<granted, charged, refunded, reservation>>
    BY <1>2 DEF ledgerVars
<1>4. CASE Claim(m)
    <2>1. /\ status' = [status EXCEPT ![m] = "SENDING"]
          /\ flight' = [flight EXCEPT ![m] = "CALLING"]
          /\ status[m] = "QUEUED"
          /\ UNCHANGED accepted
        BY <1>4 DEF Claim
    <2>2. TypeOK'
        BY <1>1, <1>2, <1>3, <2>1 DEF TypeOK, MessageStatus, Active, Flight
    <2>3. \A o \in Messages : Launched(o)'
        BY <1>1, <1>2, <1>3, <2>1 DEF Launched, TypeOK
    <2>. QED BY <1>2, <1>3, <2>2, <2>3, OutsideStep
<1>5. CASE ProviderAccepts(m) \/ ProviderRefuses(m) \/ FailureTooLate(m)
    <2>1. /\ UNCHANGED status
          /\ flight[m] # "IDLE"
          /\ accepted' \in {accepted, accepted \cup {m}}
          /\ \E f \in {"OK", "FAILED", "DONE"} :
                /\ flight' = [flight EXCEPT ![m] = f]
                /\ f = "OK" => m \in accepted'
        BY <1>5 DEF ProviderAccepts, ProviderRefuses, FailureTooLate, pipelineVars
    <2>2. TypeOK'
        BY <1>1, <1>2, <1>3, <2>1 DEF TypeOK, Flight
    <2>3. \A o \in Messages : Launched(o)'
        BY <1>1, <1>2, <1>3, <2>1 DEF Launched, TypeOK
    <2>. QED BY <1>2, <1>3, <2>2, <2>3, OutsideStep
<1>. QED BY <1>4, <1>5 DEF WorkerStep

(* Launches, expiry, exhausted dispatches and their replay. *)
LEMMA BatchKeeps ==
    ASSUME IInv, [Next]_vars, NEW b \in Batches, BatchStep(b)
    PROVE  IInv'
<1> USE CreditAssumption
<1>1. TypeOK /\ \A o \in Messages : Launched(o)
    BY DEF IInv, LedgerInv
<1>2. CASE Launch(b)
    <2> DEFINE row == [status |-> "ACTIVE", units |-> Cardinality(Members(b))]
    <2>1. /\ reservation' = [reservation EXCEPT ![b] = row]
          /\ status' = [m \in Messages |->
                           IF BatchOf[m] = b THEN "QUEUED" ELSE status[m]]
          /\ UNCHANGED <<exhausted, sent, applied, accepted, flight, granted,
                         charged, refunded, expired, txn>>
          /\ Members(b) # {}
          /\ \A m \in Members(b) : status[m] = "ABSENT"
        BY <1>2 DEF Launch, Launchable, providerVars
    <2>2. row \in Reservation /\ row.units > 0
        BY <2>1, LaunchUnits DEF Reservation, ReservationStatus
    <2>3. row.status = "ACTIVE"
        OBVIOUS
    <2> HIDE DEF row
    <2>4. TypeOK'
        BY <1>1, <2>1, <2>2 DEF TypeOK, MessageStatus, Active
    <2>5. \A o \in Messages : Launched(o)'
        BY <1>1, <2>1, <2>3 DEF Launched, TypeOK, Members, None
    <2>6. \A o \in Messages : LocksReservation(o) =>
              reservation'[BatchOf[o]].status = reservation[BatchOf[o]].status
        BY <1>1, <2>1, IdleResult DEF Launched, TypeOK, Members, LocksReservation
    <2>. QED BY <2>1, <2>4, <2>5, <2>6, OutsideStep
<1>3. CASE ReservationExpires(b)
    <2>1. /\ expired' = expired \cup {b}
          /\ UNCHANGED <<status, exhausted, sent, applied, accepted, flight,
                         granted, charged, refunded, reservation, txn>>
        BY <1>3 DEF ReservationExpires, pipelineVars, providerVars, ledgerVars
    <2>2. TypeOK'
        BY <1>1, <2>1 DEF TypeOK
    <2>3. \A o \in Messages : Launched(o)'
        BY <1>1, <2>1 DEF Launched
    <2>. QED BY <2>1, <2>2, <2>3, OutsideStep
<1>4. CASE DispatchExhausted(b)
    <2> DEFINE stranded == {m \in Members(b) : status[m] = "QUEUED"}
               row == Settled(reservation[b], Members(b), status')
    <2>1. /\ status' = [m \in Messages |-> IF m \in stranded THEN "FAILED" ELSE status[m]]
          /\ exhausted' = exhausted \cup stranded
          /\ reservation' = [reservation EXCEPT ![b] = row]
          /\ reservation' = reservation \/ ReservationFree(b)
          /\ UNCHANGED <<sent, applied, accepted, flight, granted, charged,
                         refunded, expired, txn>>
        BY <1>4 DEF DispatchExhausted, providerVars
    <2>2. stranded \subseteq Messages
        BY DEF Members
    <2>3. /\ row \in Reservation
          /\ row.units = reservation[b].units
          /\ row.status # None <=> reservation[b].status # None
        BY <1>1, SettledResult DEF TypeOK, None
    <2>4. \A o \in stranded : status[o] # "ABSENT"
        OBVIOUS
    <2> HIDE DEF row, stranded
    <2>5. TypeOK'
        BY <1>1, <2>1, <2>2, <2>3 DEF TypeOK, MessageStatus
    <2>6. \A o \in Messages : Launched(o)'
        BY <1>1, <2>1, <2>3, <2>4 DEF Launched, TypeOK
    <2>7. \A o \in Messages : LocksReservation(o) =>
              reservation'[BatchOf[o]].status = reservation[BatchOf[o]].status
        BY <1>1, <2>1 DEF ReservationFree, Members, TypeOK
    <2>. QED BY <2>1, <2>5, <2>6, <2>7, OutsideStep
<1>5. CASE RecoverExhaustedDispatch(b)
    <2> DEFINE recovered == {m \in Members(b) \cap exhausted : status[m] = "FAILED"}
    <2>1. /\ status' = [m \in Messages |-> IF m \in recovered THEN "QUEUED" ELSE status[m]]
          /\ exhausted' = exhausted \ recovered
          /\ UNCHANGED <<sent, applied, accepted, flight, granted, charged,
                         refunded, reservation, expired, txn>>
        BY <1>5 DEF RecoverExhaustedDispatch, providerVars, ledgerVars
    <2>2. TypeOK'
        BY <1>1, <2>1 DEF TypeOK, MessageStatus, Active
    <2>3. \A o \in Messages : Launched(o)'
        BY <1>1, <2>1 DEF Launched
    <2>. QED BY <2>1, <2>2, <2>3, OutsideStep
<1>. QED BY <1>2, <1>3, <1>4, <1>5 DEF BatchStep

(* Purchases and deductions. *)
LEMMA GrantKeeps ==
    ASSUME IInv, [Next]_vars, RecordPurchase \/ RecordDeduction
    PROVE  IInv'
<1>1. TypeOK /\ \A o \in Messages : Launched(o)
    BY DEF IInv, LedgerInv
<1>2. /\ granted' \in {granted + 1, granted - 1}
      /\ UNCHANGED <<status, exhausted, sent, applied, accepted, flight,
                     charged, refunded, reservation, expired, txn>>
    BY DEF RecordPurchase, RecordDeduction, pipelineVars, providerVars
<1>3. TypeOK'
    BY <1>1, <1>2 DEF TypeOK
<1>4. \A o \in Messages : Launched(o)'
    BY <1>1, <1>2 DEF Launched
<1>. QED BY <1>2, <1>3, <1>4, OutsideStep

-----------------------------------------------------------------------------
(* Theorems. *)

(* The inductive invariant holds in every reachable state of the ledger.   *)
THEOREM LedgerInvariance == Spec => []IInv
<1>1. IInv /\ [Next]_vars => IInv'
    <2> SUFFICES ASSUME IInv, [Next]_vars PROVE IInv'
        OBVIOUS
    <2>1. CASE UNCHANGED vars
        <3>1. TypeOK'
            BY <2>1 DEF IInv, TypeOK, vars, pipelineVars, providerVars, ledgerVars
        <3>2. \A o \in Messages : Launched(o)'
            BY <2>1 DEF IInv, LedgerInv, Launched, vars, pipelineVars,
                        providerVars, ledgerVars
        <3>. QED BY <2>1, <3>1, <3>2, OutsideStep
                 DEF vars, pipelineVars, providerVars, ledgerVars
    <2>2. ASSUME NEW m \in Messages, TransactionStep(m) PROVE IInv'
        <3>1. CASE Abort(m)
            BY <3>1, RollBackKeeps DEF Abort
        <3>. QED BY <2>2, <3>1, BeginKeeps, HoldEnterKeep, CommitKeeps
                 DEF TransactionStep
    <2>3. ASSUME NEW m \in Messages, WorkerStep(m) PROVE IInv'
        BY <2>3, WorkerKeeps
    <2>4. ASSUME NEW b \in Batches, BatchStep(b) PROVE IInv'
        BY <2>4, BatchKeeps
    <2>5. CASE RecordPurchase \/ RecordDeduction
        BY <2>5, GrantKeeps
    <2>. QED BY <2>1, <2>2, <2>3, <2>4, <2>5 DEF Next
<1>. QED BY <1>1, InitInvariant, PTL DEF Spec

(* Every variable keeps its type, and no reservation row ever holds zero   *)
(* units: chargeReservation leaves the last one on the consumed row.       *)
THEOREM LedgerTypeCorrect == Spec => []TypeOK
<1>1. IInv => TypeOK
    BY DEF IInv
<1>. QED BY <1>1, LedgerInvariance, PTL

(* However charges, settlements and roll-backs interleave on stale reads,  *)
(* refunds answer charges and charges answer acceptances.                  *)
THEOREM EntriesAreFounded == Spec => []EntriesFollowFacts
<1>1. IInv => EntriesFollowFacts
    BY DEF IInv, LedgerInv
<1>. QED BY <1>1, LedgerInvariance, PTL

(* A message with a sentAt is charged unless its reservation had ended, on *)
(* the worker's path as on the webhook's.                                  *)
THEOREM SentIsCharged == Spec => []SentIsChargedWhileHeld
<1>1. IInv => SentIsChargedWhileHeld
    BY DEF IInv, LedgerInv, Paid, SentIsChargedWhileHeld
<1>. QED BY <1>1, LedgerInvariance, PTL

(* A stale write of chargeSendUsage never revives a reservation that       *)
(* another transaction consumed or released: the row's state check and the *)
(* row lock see to it.                                                     *)
THEOREM TerminalReservationsStay == Spec => NoReservationRevived
<1>1. IInv /\ [Next]_vars =>
          [\A b \in Batches :
              reservation[b].status \in {"CONSUMED", "RELEASED"} =>
                  reservation'[b].status = reservation[b].status]_vars
    BY ReservationKept
<1>. QED BY <1>1, LedgerInvariance, PTL DEF Spec, NoReservationRevived

-----------------------------------------------------------------------------
(* Steps, by what they make visible.                                       *)

(* A step inside a transaction shows nobody anything. *)
Inside(m) == BeginStep(m) \/ Hold(m) \/ Enter(m) \/ Abort(m)

(* Such a step writes neither a status nor the ledger. *)
LEMMA InsideResult ==
    ASSUME NEW m \in Messages, Inside(m)
    PROVE  UNCHANGED <<status, ledgerVars>>
<1>1. CASE RollBack(m)
    BY <1>1 DEF RollBack, pipelineVars
<1>2. CASE BeginStep(m)
    BY <1>2 DEF BeginStep, BeginAccepted, BeginFailure, BeginInterrupted,
                BeginWebhook, Begin, pipelineVars
<1>3. CASE Hold(m) \/ Enter(m)
    BY <1>1, <1>3 DEF Hold, Enter, pipelineVars
<1>. QED BY <1>1, <1>2, <1>3 DEF Inside, Abort

(* Every step writes the tables in one of these ways, or not at all. *)
LEMMA StepKinds ==
    ASSUME [Next]_vars
    PROVE  \/ RecordPurchase \/ RecordDeduction
           \/ \E b \in Batches : Launch(b) \/ DispatchExhausted(b)
                                           \/ RecoverExhaustedDispatch(b)
           \/ \E m \in Messages : Claim(m) \/ Commit(m) \/ Inside(m)
           \/ UNCHANGED <<status, ledgerVars, txn>>
<1>1. CASE UNCHANGED vars
    BY <1>1 DEF vars, pipelineVars
<1>2. ASSUME NEW b \in Batches, ReservationExpires(b)
      PROVE  UNCHANGED <<status, ledgerVars, txn>>
    BY <1>2 DEF ReservationExpires, pipelineVars
<1>3. ASSUME NEW m \in Messages,
             ProviderAccepts(m) \/ ProviderRefuses(m) \/ FailureTooLate(m)
      PROVE  UNCHANGED <<status, ledgerVars, txn>>
    BY <1>3 DEF ProviderAccepts, ProviderRefuses, FailureTooLate, pipelineVars
<1>. QED BY <1>1, <1>2, <1>3
         DEF Next, BatchStep, WorkerStep, TransactionStep, Inside

-----------------------------------------------------------------------------
(* A finished batch holds nothing.                                         *)

(* Settling a batch in which no message can move leaves no active row. *)
LEMMA SettledWhenDone ==
    ASSUME NEW row \in Reservation, NEW S, NEW st, \A m \in S : st[m] \notin Active
    PROVE  Settled(row, S, st).status # "ACTIVE"
BY DEF Settled, Reservation, ReservationStatus

(* Every step that may finish a batch settles it in the same transaction;  *)
(* one that gives a message something to do leaves the batch unfinished.   *)
LEMMA TerminalKept ==
    ASSUME IInv, [Next]_vars, TerminalBatchHoldsNothing
    PROVE  TerminalBatchHoldsNothing'
<1> USE CreditAssumption
<1>1. /\ status \in [Messages -> MessageStatus \cup {"ABSENT"}]
      /\ reservation \in [Batches -> Reservation]
      /\ txn \in [Messages -> Transaction]
      /\ \A m \in Messages : Launched(m)
    BY DEF IInv, TypeOK, LedgerInv
<1>2. ASSUME NEW b \in Batches,
             \A m \in Members(b) : status'[m] \notin Active \cup {"ABSENT"}
      PROVE  reservation'[b].status # "ACTIVE"
    <2>1. CASE UNCHANGED <<status, reservation>>
        BY <1>2, <2>1 DEF TerminalBatchHoldsNothing
    <2>2. ASSUME NEW c \in Batches, Launch(c) PROVE reservation'[b].status # "ACTIVE"
        <3>1. /\ status' = [m \in Messages |->
                               IF BatchOf[m] = c THEN "QUEUED" ELSE status[m]]
              /\ \E row : reservation' = [reservation EXCEPT ![c] = row]
              /\ \E m \in Messages : BatchOf[m] = c
            BY <2>2 DEF Launch, Launchable, Members
        <3>2. b # c
            BY <1>2, <3>1 DEF Members, Active
        <3>. QED BY <1>1, <1>2, <3>1, <3>2 DEF Members, TerminalBatchHoldsNothing
    <2>3. ASSUME NEW m \in Messages, Claim(m) PROVE reservation'[b].status # "ACTIVE"
        <3>1. /\ status' = [status EXCEPT ![m] = "SENDING"]
              /\ UNCHANGED reservation
            BY <2>3 DEF Claim, ledgerVars
        <3>2. m \notin Members(b)
            BY <1>1, <1>2, <3>1 DEF Members, Active
        <3>. QED BY <1>1, <1>2, <3>1, <3>2 DEF Members, TerminalBatchHoldsNothing
    <2>4. ASSUME NEW c \in Batches, RecoverExhaustedDispatch(c)
          PROVE  reservation'[b].status # "ACTIVE"
        <3> DEFINE recovered == {m \in Members(c) \cap exhausted : status[m] = "FAILED"}
        <3>1. /\ recovered # {}
              /\ status' = [m \in Messages |->
                               IF m \in recovered THEN "QUEUED" ELSE status[m]]
              /\ UNCHANGED reservation
            BY <2>4 DEF RecoverExhaustedDispatch, ledgerVars
        <3>2. \A m \in Members(b) : m \notin recovered
            <4> HIDE DEF recovered
            <4>. QED BY <1>2, <3>1 DEF Members, Active
        <3> HIDE DEF recovered
        <3>. QED BY <1>2, <3>1, <3>2 DEF Members, TerminalBatchHoldsNothing
    <2>5. ASSUME NEW c \in Batches, DispatchExhausted(c)
          PROVE  reservation'[b].status # "ACTIVE"
        <3> DEFINE stranded == {m \in Members(c) : status[m] = "QUEUED"}
        <3>1. /\ status' = [m \in Messages |->
                               IF m \in stranded THEN "FAILED" ELSE status[m]]
              /\ reservation' = [reservation EXCEPT ![c] =
                                    Settled(reservation[c], Members(c), status')]
            BY <2>5 DEF DispatchExhausted
        <3>2. CASE b = c
            BY <1>1, <1>2, <3>1, <3>2, SettledWhenDone
        <3>3. CASE b # c
            <4>1. \A m \in Members(b) : status'[m] = status[m]
                BY <3>1, <3>3 DEF Members
            <4>. QED BY <1>1, <1>2, <3>1, <3>3, <4>1 DEF TerminalBatchHoldsNothing
        <3>. QED BY <3>2, <3>3
    <2>6. ASSUME NEW m \in Messages, Commit(m) PROVE reservation'[b].status # "ACTIVE"
        <3> DEFINE c == BatchOf[m]
                   row == SeenBy(m)[c]
        <3>1. /\ status' = [status EXCEPT ![m] = txn[m].status]
              /\ reservation' = [reservation EXCEPT ![c] = Settled(row, Members(c), status')]
              /\ c \in Batches
              /\ row \in Reservation
            <4>1. txn[m].pc = "COMMIT" /\ reservation[c].status # None
                BY <1>1, <2>6, IdleResult DEF Commit, Launched, Idle
            <4>. QED BY <2>6, <4>1, SeenResult DEF Commit
        <3>2. CASE b = c
            BY <1>1, <1>2, <3>1, <3>2, SettledWhenDone
        <3>3. CASE b # c
            <4>1. \A o \in Members(b) : status'[o] = status[o]
                BY <1>1, <3>1, <3>3 DEF Members
            <4>. QED BY <1>1, <1>2, <3>1, <3>3, <4>1 DEF TerminalBatchHoldsNothing
        <3>. QED BY <3>2, <3>3
    <2>7. UNCHANGED <<status, ledgerVars>> => reservation'[b].status # "ACTIVE"
        BY <2>1 DEF ledgerVars
    <2>8. \A m \in Messages : Inside(m) => UNCHANGED <<status, ledgerVars>>
        BY InsideResult
    <2>9. RecordPurchase \/ RecordDeduction => UNCHANGED <<status, reservation>>
        BY DEF RecordPurchase, RecordDeduction, pipelineVars
    <2>. QED BY <2>1, <2>2, <2>3, <2>4, <2>5, <2>6, <2>7, <2>8, <2>9, StepKinds
<1>. QED BY <1>2 DEF TerminalBatchHoldsNothing

(* A batch in which no message can move again holds no credits back: the   *)
(* transaction that finishes it releases what is left, whatever charges    *)
(* read before.                                                            *)
THEOREM FinishedBatchesHoldNothing == Spec => []TerminalBatchHoldsNothing
<1>1. Init => TerminalBatchHoldsNothing
    BY DEF Init, TerminalBatchHoldsNothing, NoReservation, None
<1>2. IInv /\ TerminalBatchHoldsNothing /\ [Next]_vars => TerminalBatchHoldsNothing'
    BY TerminalKept
<1>. QED BY <1>1, <1>2, LedgerInvariance, PTL DEF Spec

-----------------------------------------------------------------------------
(* A hold covers what its batch may still owe.                             *)

Owed(b) == Members(b) \ charged

(* What a charge under way writes back on the row, read however long ago,  *)
(* pays for the other messages: charges made meanwhile only lower what the *)
(* batch owes.                                                             *)
Backed(m) ==
    txn[m].charge =>
        /\ m \notin charged
        /\ txn[m].hold.status = "ACTIVE" =>
               txn[m].hold.units >= Cardinality(Owed(BatchOf[m]) \ {m})
        /\ txn[m].hold.status = "CONSUMED" => Owed(BatchOf[m]) \subseteq {m}

(* HoldCoversOwed, batch by batch. *)
Covered(b) ==
    /\ reservation[b].status = "ACTIVE" => reservation[b].units >= Cardinality(Owed(b))
    /\ reservation[b].status = "CONSUMED" => Owed(b) = {}

HoldInv ==
    /\ \A b \in Batches : Covered(b)
    /\ \A m \in Messages : Backed(m)

(* What a batch owes is finite, and so are its parts. *)
LEMMA OwedFinite ==
    ASSUME NEW b \in Batches, NEW S \in SUBSET Owed(b)
    PROVE  /\ IsFiniteSet(S)
           /\ Cardinality(S) \in Nat
           /\ Cardinality(S) =< Cardinality(Owed(b))
           /\ Cardinality(Owed(b)) \in Nat
           /\ Cardinality(Owed(b)) =< Cardinality(Members(b))
           /\ Cardinality(Members(b)) \in Nat
<1>1. IsFiniteSet(Members(b))
    BY CreditAssumption, FS_Subset DEF Members
<1>2. IsFiniteSet(Owed(b)) /\ Cardinality(Owed(b)) =< Cardinality(Members(b))
    BY <1>1, FS_Subset DEF Owed
<1>3. IsFiniteSet(S) /\ Cardinality(S) =< Cardinality(Owed(b))
    BY <1>2, FS_Subset
<1>. QED BY <1>1, <1>2, <1>3, FS_CardinalityType

(* Messages are charged one by one and for good. *)
LEMMA OwedShrinks ==
    ASSUME IInv, [Next]_vars
    PROVE  /\ charged \subseteq charged'
           /\ \A b \in Batches : Owed(b)' \subseteq Owed(b)
<1>1. charged \subseteq charged'
    BY StepKinds, InsideResult
       DEF RecordPurchase, RecordDeduction, Launch, DispatchExhausted,
           RecoverExhaustedDispatch, Claim, Commit, ledgerVars
<1>. QED BY <1>1 DEF Owed, Members

(* What holds of the row that was read holds, less one message, of the row *)
(* a charge writes back.                                                   *)
LEMMA BeginBacked ==
    ASSUME IInv, HoldInv, NEW m \in Messages, BeginStep(m)
    PROVE  Backed(m)'
<1> USE CreditAssumption
<1> DEFINE b == BatchOf[m]
           row == reservation[b]
<1>1. /\ UNCHANGED <<charged, reservation>>
      /\ txn'[m].charge => Chargeable(m) /\ txn'[m].hold = Charged(row)
    <2>1. txn \in [Messages -> Transaction]
        BY DEF IInv, TypeOK
    <2>2. ASSUME NEW kind, NEW newStatus, NEW nowSent, NEW chargeDue, NEW refundDue,
                 Begin(m, kind, newStatus, nowSent, chargeDue, refundDue)
          PROVE  /\ UNCHANGED <<charged, reservation>>
                 /\ txn'[m].charge => Chargeable(m) /\ txn'[m].hold = Charged(row)
        BY <2>1, <2>2 DEF Begin, ledgerVars
    <2>. QED BY <2>2 DEF BeginStep, BeginAccepted, BeginFailure, BeginInterrupted,
                         BeginWebhook
<1>2. b \in Batches /\ row \in Reservation
    BY DEF IInv, TypeOK
<1>3. UNCHANGED Owed(b)
    BY <1>1 DEF Owed, Members
<1>4. ASSUME txn'[m].charge
      PROVE  /\ m \notin charged
             /\ Charged(row).status = "ACTIVE" =>
                    Charged(row).units >= Cardinality(Owed(b) \ {m})
             /\ Charged(row).status = "CONSUMED" => Owed(b) \subseteq {m}
    <2>1. /\ m \notin charged
          /\ row.status = "ACTIVE"
          /\ row.units \in Nat
          /\ row.units >= Cardinality(Owed(b))
        BY <1>1, <1>2, <1>4 DEF Chargeable, HoldInv, Covered, Reservation
    <2>2. m \in Owed(b)
        BY <2>1 DEF Owed, Members
    <2>3. /\ IsFiniteSet(Owed(b)) /\ IsFiniteSet(Owed(b) \ {m})
          /\ Cardinality(Owed(b)) \in Nat
        BY <1>2, OwedFinite
    <2>4. Cardinality(Owed(b) \ {m}) = Cardinality(Owed(b)) - 1
        BY <2>2, <2>3, FS_RemoveElement
    <2>5. CASE row.units = 1
        <3>1. Charged(row).status = "CONSUMED"
            BY <1>2, <2>5 DEF Charged, Reservation
        <3>2. Cardinality(Owed(b) \ {m}) = 0
            BY <2>1, <2>2, <2>3, <2>4, <2>5, FS_EmptySet, FS_CardinalityType
        <3>3. Owed(b) \ {m} = {}
            BY <2>3, <3>2, FS_EmptySet
        <3>. QED BY <2>1, <3>1, <3>3
    <2>6. CASE row.units # 1
        <3>1. Charged(row).status = "ACTIVE" /\ Charged(row).units = row.units - 1
            BY <1>2, <2>1, <2>6 DEF Charged, Reservation
        <3>. QED BY <2>1, <2>3, <2>4, <3>1
    <2>. QED BY <2>5, <2>6
<1>. QED BY <1>1, <1>3, <1>4 DEF Backed

(* A charge that is decided stays backed until its transaction ends. *)
LEMMA BackedStays ==
    ASSUME IInv, [Next]_vars, NEW m \in Messages, Backed(m),
           txn'[m].charge =>
               /\ txn[m].charge /\ txn'[m].hold = txn[m].hold
               /\ m \notin charged'
    PROVE  Backed(m)'
<1> DEFINE b == BatchOf[m]
<1>1. b \in Batches /\ Owed(b)' \subseteq Owed(b)
    BY OwedShrinks, CreditAssumption
<1>2. txn[m].hold \in Reservation
    BY DEF IInv, TypeOK, Transaction
<1>3. Owed(b) \ {m} \in SUBSET Owed(b) /\ Owed(b)' \ {m} \in SUBSET (Owed(b) \ {m})
    BY <1>1
<1>4. /\ Cardinality(Owed(b)' \ {m}) =< Cardinality(Owed(b) \ {m})
      /\ Cardinality(Owed(b)' \ {m}) \in Nat /\ Cardinality(Owed(b) \ {m}) \in Nat
    <2>1. IsFiniteSet(Owed(b) \ {m}) /\ Cardinality(Owed(b) \ {m}) \in Nat
        BY <1>1, <1>3, OwedFinite
    <2>. QED BY <1>3, <2>1, FS_Subset, FS_CardinalityType
<1>5. (Owed(b) \ {m})' = Owed(b)' \ {m}
    OBVIOUS
<1>. QED BY <1>1, <1>2, <1>4, <1>5 DEF Backed, Reservation

(* A transaction writes its hold, or what it finds, and charges at most    *)
(* its message.                                                            *)
LEMMA CommitResult ==
    ASSUME IInv, NEW m \in Messages, Commit(m)
    PROVE  LET b == BatchOf[m]
               row == SeenBy(m)[b]
           IN
           /\ b \in Batches
           /\ row \in Reservation
           /\ row = IF txn[m].charge THEN txn[m].hold ELSE reservation[b]
           /\ reservation' = [reservation EXCEPT ![b] = Settled(row, Members(b), status')]
           /\ charged' = IF txn[m].charge THEN charged \cup {m} ELSE charged
           /\ refunded' = IF txn[m].refund THEN refunded \cup {m} ELSE refunded
           /\ txn' = [txn EXCEPT ![m] = Idle]
           /\ granted' = granted
<1> DEFINE b == BatchOf[m]
           row == SeenBy(m)[b]
<1>1. /\ b \in Batches
      /\ reservation \in [Batches -> Reservation]
      /\ Launched(m)
    BY CreditAssumption DEF IInv, TypeOK, LedgerInv
<1>2. txn[m].pc = "COMMIT" /\ reservation[b].status # None
    BY <1>1, IdleResult DEF Commit, Launched, Idle
<1>3. row \in Reservation
    BY <1>2, SeenResult
<1>4. row = IF txn[m].charge THEN txn[m].hold ELSE reservation[b]
    BY <1>1 DEF SeenBy
<1>. QED BY <1>1, <1>3, <1>4 DEF Commit

(* Every step keeps the holds sufficient. *)
LEMMA HoldKept ==
    ASSUME IInv, [Next]_vars, HoldInv
    PROVE  HoldInv'
<1> USE CreditAssumption
<1>1. /\ reservation \in [Batches -> Reservation]
      /\ txn \in [Messages -> Transaction]
      /\ \A b \in Batches : Covered(b)
      /\ \A m \in Messages : Backed(m)
    BY DEF IInv, TypeOK, HoldInv
<1>2. ASSUME NEW b \in Batches
      PROVE  /\ Owed(b)' \subseteq Owed(b)
             /\ Cardinality(Owed(b)') \in Nat /\ Cardinality(Owed(b)) \in Nat
             /\ Cardinality(Owed(b)') =< Cardinality(Owed(b))
    BY OwedShrinks, OwedFinite
(* A row that keeps its units and status, or holds nothing any more. *)
<1>3. ASSUME NEW b \in Batches,
             \/ reservation'[b] = reservation[b]
             \/ reservation'[b].status \notin {"ACTIVE", "CONSUMED"}
      PROVE  Covered(b)'
    <2>1. CASE reservation'[b] = reservation[b]
        <3>1. reservation[b].units \in Nat /\ Covered(b)
            BY <1>1 DEF Reservation
        <3>. QED BY <1>2, <2>1, <3>1 DEF Covered
    <2>2. CASE reservation'[b].status \notin {"ACTIVE", "CONSUMED"}
        BY <2>2 DEF Covered
    <2>. QED BY <1>3, <2>1, <2>2
<1>4. ASSUME NEW b \in Batches, reservation'[b] = Settled(reservation[b], Members(b), status')
      PROVE  Covered(b)'
    <2>1. \/ reservation'[b] = reservation[b]
          \/ reservation'[b].status \notin {"ACTIVE", "CONSUMED"}
        BY <1>1, <1>4 DEF Settled, Reservation
    <2>. QED BY <1>3, <2>1
<1>5. ASSUME NEW m \in Messages, Commit(m) PROVE HoldInv'
    <2> DEFINE b == BatchOf[m]
               row == SeenBy(m)[b]
    <2>1. /\ b \in Batches
          /\ row \in Reservation
          /\ row = IF txn[m].charge THEN txn[m].hold ELSE reservation[b]
          /\ reservation' = [reservation EXCEPT ![b] = Settled(row, Members(b), status')]
          /\ charged' = IF txn[m].charge THEN charged \cup {m} ELSE charged
          /\ txn' = [txn EXCEPT ![m] = Idle]
        BY <1>5, CommitResult
    <2> HIDE DEF row
    <2>2. /\ \A c \in Batches : c # b => reservation'[c] = reservation[c]
          /\ reservation'[b] = Settled(row, Members(b), status')
        BY <1>1, <2>1
    <2>3. CASE txn[m].charge
        <3>1. /\ charged' = charged \cup {m}
              /\ Owed(b)' = Owed(b) \ {m}
            BY <2>1, <2>3 DEF Owed, Members
        <3>2. /\ row.status = "ACTIVE" => row.units >= Cardinality(Owed(b))'
              /\ row.status = "CONSUMED" => Owed(b)' = {}
            BY <1>1, <2>1, <2>3, <3>1 DEF Backed
        <3>3. \/ reservation'[b] = row
              \/ reservation'[b].status \notin {"ACTIVE", "CONSUMED"}
            BY <2>1, <2>2 DEF Settled, Reservation
        <3>4. ASSUME NEW c \in Batches PROVE Covered(c)'
            <4>1. CASE c = b /\ reservation'[b] = row
                BY <3>2, <4>1 DEF Covered
            <4>2. CASE c # b \/ reservation'[b].status \notin {"ACTIVE", "CONSUMED"}
                BY <1>3, <2>2, <4>2
            <4>. QED BY <3>3, <4>1, <4>2
        <3>5. ASSUME NEW o \in Messages PROVE Backed(o)'
            <4>1. CASE o = m
                BY <1>1, <2>1, <4>1, IdleResult DEF Backed
            <4>2. CASE o # m
                BY <1>1, <2>1, <3>1, <4>2, BackedStays DEF Backed
            <4>. QED BY <4>1, <4>2
        <3>. QED BY <3>4, <3>5 DEF HoldInv
    <2>4. CASE ~txn[m].charge
        <3>1. ASSUME NEW c \in Batches PROVE Covered(c)'
            BY <1>3, <1>4, <2>1, <2>2, <2>4
        <3>2. ASSUME NEW o \in Messages PROVE Backed(o)'
            <4>1. CASE o = m
                BY <1>1, <2>1, <4>1, IdleResult DEF Backed
            <4>2. CASE o # m
                BY <1>1, <2>1, <2>4, <4>2, BackedStays DEF Backed
            <4>. QED BY <4>1, <4>2
        <3>. QED BY <3>1, <3>2 DEF HoldInv
    <2>. QED BY <2>3, <2>4
(* Elsewhere nothing is charged: a step that leaves the transactions alone *)
(* or moves one of them on leaves every charge backed.                     *)
<1>6. ASSUME UNCHANGED charged,
             \A m \in Messages : txn'[m].charge => /\ txn[m].charge
                                                   /\ txn'[m].hold = txn[m].hold
      PROVE  \A m \in Messages : Backed(m)'
    BY <1>1, <1>6, BackedStays DEF Backed
<1>7. ASSUME NEW b \in Batches, Launch(b) PROVE HoldInv'
    <2>1. /\ reservation' = [reservation EXCEPT ![b] =
                 [status |-> "ACTIVE", units |-> Cardinality(Members(b))]]
          /\ UNCHANGED <<charged, txn>>
        BY <1>7 DEF Launch
    <2>2. ASSUME NEW c \in Batches PROVE Covered(c)'
        <3>1. Cardinality(Owed(b)) =< Cardinality(Members(b)) /\ Cardinality(Members(b)) \in Nat
            BY OwedFinite
        <3>2. UNCHANGED Owed(b)
            BY <2>1 DEF Owed, Members
        <3>3. reservation'[b] = [status |-> "ACTIVE", units |-> Cardinality(Members(b))]
            BY <1>1, <2>1
        <3>4. CASE c = b
            BY <3>1, <3>2, <3>3, <3>4 DEF Covered
        <3>5. CASE c # b
            BY <1>1, <1>3, <2>1, <3>5
        <3>. QED BY <3>4, <3>5
    <2>. QED BY <1>6, <2>1, <2>2 DEF HoldInv
<1>8. ASSUME NEW b \in Batches, DispatchExhausted(b) PROVE HoldInv'
    <2>1. /\ reservation' = [reservation EXCEPT ![b] =
                                Settled(reservation[b], Members(b), status')]
          /\ UNCHANGED <<charged, txn>>
        BY <1>8 DEF DispatchExhausted
    <2>2. /\ reservation'[b] = Settled(reservation[b], Members(b), status')
          /\ \A c \in Batches : c # b => reservation'[c] = reservation[c]
        BY <1>1, <2>1
    <2>3. ASSUME NEW c \in Batches PROVE Covered(c)'
        BY <1>3, <1>4, <2>2
    <2>. QED BY <1>6, <2>1, <2>3 DEF HoldInv
<1>9. ASSUME UNCHANGED <<charged, reservation>>,
             \A m \in Messages : Backed(m)'
      PROVE  HoldInv'
    BY <1>3, <1>9 DEF HoldInv
<1>10. ASSUME NEW m \in Messages, Inside(m) PROVE HoldInv'
    <2>1. UNCHANGED <<charged, reservation>>
        BY <1>10, InsideResult DEF ledgerVars
    <2>2. CASE BeginStep(m)
        <3>1. \A o \in Messages : o # m => txn'[o] = txn[o]
            BY <1>1, <2>2 DEF BeginStep, BeginAccepted, BeginFailure,
                              BeginInterrupted, BeginWebhook, Begin
        <3>2. Backed(m)'
            BY <1>1, <2>2, BeginBacked
        <3>3. \A o \in Messages : o # m => Backed(o)'
            BY <1>1, <2>1, <3>1, BackedStays DEF Backed
        <3>. QED BY <1>9, <2>1, <3>2, <3>3
    <2>3. CASE Hold(m) \/ Enter(m) \/ Abort(m)
        <3>1. txn' \in {[txn EXCEPT ![m].pc = "ENTER"], [txn EXCEPT ![m].pc = "COMMIT"],
                        [txn EXCEPT ![m] = Idle]}
            BY <2>3 DEF Hold, Enter, Abort, RollBack
        <3>2. \A o \in Messages : txn'[o].charge => /\ txn[o].charge
                                                    /\ txn'[o].hold = txn[o].hold
            BY <1>1, <3>1, IdleResult DEF Transaction
        <3>. QED BY <1>6, <1>9, <2>1, <3>2
    <2>. QED BY <1>10, <2>2, <2>3 DEF Inside
<1>11. ASSUME UNCHANGED <<charged, reservation, txn>> PROVE HoldInv'
    BY <1>6, <1>9, <1>11
<1>12. RecordPurchase \/ RecordDeduction => UNCHANGED <<charged, reservation, txn>>
    BY DEF RecordPurchase, RecordDeduction
<1>13. \A b \in Batches : RecoverExhaustedDispatch(b) =>
           UNCHANGED <<charged, reservation, txn>>
    BY DEF RecoverExhaustedDispatch, ledgerVars
<1>14. \A m \in Messages : Claim(m) => UNCHANGED <<charged, reservation, txn>>
    BY DEF Claim, ledgerVars
<1>15. UNCHANGED <<status, ledgerVars, txn>> => UNCHANGED <<charged, reservation, txn>>
    BY DEF ledgerVars
<1>. QED BY <1>5, <1>7, <1>8, <1>10, <1>11, <1>12, <1>13, <1>14, <1>15, StepKinds

(* However stale the reservation a charge has read, its write leaves the   *)
(* hold sufficient for every message of the batch not charged yet, and the *)
(* row is consumed only with the last of them.                             *)
THEOREM HoldsCoverOwed == Spec => []HoldCoversOwed
<1>1. Init => HoldInv
    BY DEF Init, HoldInv, Covered, Backed, NoReservation, None, Idle
<1>2. IInv /\ HoldInv /\ [Next]_vars => HoldInv'
    BY HoldKept
<1>3. HoldInv => HoldCoversOwed
    BY DEF HoldInv, Covered, HoldCoversOwed, Owed
<1>. QED BY <1>1, <1>2, <1>3, LedgerInvariance, PTL DEF Spec

-----------------------------------------------------------------------------
(* The balance covers what is reserved.                                    *)

(* A row that holds units. *)
Holding(rows, b) == rows[b].status = "ACTIVE"

(* The units of the rows are finitely many. *)
LEMMA HeldFinite ==
    ASSUME NEW rows \in [Batches -> Reservation]
    PROVE  /\ IsFiniteSet(HeldUnits(rows, Batches))
           /\ UnitsHeld(rows, Batches) \in Nat
<1> DEFINE B == {b \in Batches : rows[b].status = "ACTIVE"}
           f == [b \in B |-> UnitsOf(b, rows[b].units)]
           T == {UnitsOf(b, rows[b].units) : b \in B}
<1>1. IsFiniteSet(B)
    BY CreditAssumption, FS_Subset
<1>2. f \in Surjection(B, T)
    BY DEF Surjection
<1>3. IsFiniteSet(T)
    BY <1>1, <1>2, FS_Surjection
<1>4. ASSUME NEW b \in B PROVE IsFiniteSet(UnitsOf(b, rows[b].units))
    <2>1. rows[b].units \in Int
        BY DEF Reservation
    <2>2. \A k \in Int : IsFiniteSet(1 .. k)
        BY FS_Interval
    <2>3. IsFiniteSet({b})
        BY FS_Singleton
    <2>. QED BY <2>1, <2>2, <2>3, FS_Product DEF UnitsOf
<1>5. IsFiniteSet(UNION T)
    BY <1>3, <1>4, FS_UNION
<1>6. HeldUnits(rows, Batches) = UNION T
    BY DEF HeldUnits
<1>. QED BY <1>5, <1>6, FS_CardinalityType DEF UnitsHeld

(* Rows that hold less count less. *)
LEMMA HeldLess ==
    ASSUME NEW rows \in [Batches -> Reservation], NEW less \in [Batches -> Reservation],
           \A b \in Batches : Holding(less, b) =>
               Holding(rows, b) /\ less[b].units =< rows[b].units
    PROVE  UnitsHeld(less, Batches) =< UnitsHeld(rows, Batches)
<1>1. HeldUnits(less, Batches) \subseteq HeldUnits(rows, Batches)
    <2> SUFFICES ASSUME NEW u \in HeldUnits(less, Batches)
                 PROVE  u \in HeldUnits(rows, Batches)
        OBVIOUS
    <2>1. PICK b \in Batches : Holding(less, b) /\ u \in UnitsOf(b, less[b].units)
        BY DEF HeldUnits, Holding
    <2>2. less[b].units \in Nat /\ rows[b].units \in Nat
        BY DEF Reservation
    <2>3. Holding(rows, b) /\ less[b].units =< rows[b].units
        BY <2>1
    <2>4. 1 .. less[b].units \subseteq 1 .. rows[b].units
        BY <2>2, <2>3
    <2>5. u \in UnitsOf(b, rows[b].units)
        BY <2>1, <2>4 DEF UnitsOf
    <2>. QED BY <2>3, <2>5 DEF HeldUnits, Holding
<1>. QED BY <1>1, HeldFinite, FS_Subset DEF UnitsHeld

(* A new row adds its units. *)
LEMMA HeldMore ==
    ASSUME NEW rows \in [Batches -> Reservation], NEW b \in Batches,
           NEW row \in Reservation
    PROVE  UnitsHeld([rows EXCEPT ![b] = row], Batches)
               =< UnitsHeld(rows, Batches) + row.units
<1> DEFINE new == [rows EXCEPT ![b] = row]
<1>1. HeldUnits(new, Batches) \subseteq HeldUnits(rows, Batches) \cup UnitsOf(b, row.units)
    BY DEF HeldUnits
<1>2. /\ IsFiniteSet(UnitsOf(b, row.units))
      /\ Cardinality(UnitsOf(b, row.units)) = row.units
    <2>1. row.units \in Nat
        BY DEF Reservation
    <2>2. /\ IsFiniteSet(1 .. row.units)
          /\ Cardinality(1 .. row.units) = row.units
        <3>1. PICK n \in Nat : n = row.units
            BY <2>1
        <3>2. 1 \in Int /\ n \in Int /\ (IF 1 > n THEN 0 ELSE n - 1 + 1) = n
            OBVIOUS
        <3>3. IsFiniteSet(1 .. n) /\ Cardinality(1 .. n) = n
            BY <3>2, FS_Interval, Zenon
        <3>. QED BY <3>1, <3>3, Zenon
    <2>3. IsFiniteSet({b}) /\ Cardinality({b}) = 1
        BY FS_Singleton
    <2>4. Cardinality({b} \X (1 .. row.units)) = row.units
        <3>1. Cardinality({b} \X (1 .. row.units)) =
                  Cardinality({b}) * Cardinality(1 .. row.units)
            BY <2>2, <2>3, FS_Product
        <3>2. 1 * row.units = row.units
            BY <2>1
        <3>. QED BY <2>2, <2>3, <3>1, <3>2
    <2>. QED BY <2>1, <2>2, <2>3, <2>4, FS_Product DEF UnitsOf
<1>3. /\ IsFiniteSet(HeldUnits(rows, Batches))
      /\ UnitsHeld(rows, Batches) \in Nat
    BY HeldFinite
<1>4. /\ IsFiniteSet(HeldUnits(rows, Batches) \cup UnitsOf(b, row.units))
      /\ Cardinality(HeldUnits(rows, Batches) \cup UnitsOf(b, row.units))
             =< UnitsHeld(rows, Batches) + row.units
    <2>1. IsFiniteSet(HeldUnits(rows, Batches) \cap UnitsOf(b, row.units))
        BY <1>3, FS_Intersection
    <2>2. Cardinality(HeldUnits(rows, Batches) \cap UnitsOf(b, row.units)) \in Nat
        BY <2>1, FS_CardinalityType
    <2>3. row.units \in Nat
        BY DEF Reservation
    <2>4. /\ IsFiniteSet(HeldUnits(rows, Batches) \cup UnitsOf(b, row.units))
          /\ Cardinality(HeldUnits(rows, Batches) \cup UnitsOf(b, row.units)) =
                 Cardinality(HeldUnits(rows, Batches)) + Cardinality(UnitsOf(b, row.units))
                     - Cardinality(HeldUnits(rows, Batches) \cap UnitsOf(b, row.units))
        BY <1>2, <1>3, FS_Union
    <2>. QED BY <1>2, <1>3, <2>2, <2>3, <2>4 DEF UnitsHeld
<1>5. /\ Cardinality(HeldUnits(new, Batches))
             =< Cardinality(HeldUnits(rows, Batches) \cup UnitsOf(b, row.units))
      /\ Cardinality(HeldUnits(new, Batches)) \in Nat
      /\ Cardinality(HeldUnits(rows, Batches) \cup UnitsOf(b, row.units)) \in Nat
    BY <1>1, <1>4, FS_Subset, FS_CardinalityType
<1>6. row.units \in Nat
    BY DEF Reservation
<1>. QED BY <1>3, <1>4, <1>5, <1>6 DEF UnitsHeld

-----------------------------------------------------------------------------
(* A transaction about to commit a charge holds the account's lock, and    *)
(* the balance covers what it will leave.                                  *)
Funded(m) ==
    txn[m].pc = "COMMIT" /\ txn[m].charge =>
        Balance - 1 >= UnitsHeld(SeenBy(m), Batches)

(* The guards lock the account for one transaction at a time. *)
OneAtTheAccount ==
    \A m, o \in Messages : LocksAccount(m) /\ LocksAccount(o) => m = o

FundInv ==
    /\ BalanceCoversReserved
    /\ OneAtTheAccount
    /\ \A m \in Messages : Funded(m)

(* The balance is a number. *)
LEMMA BalanceType ==
    ASSUME TypeOK
    PROVE  /\ Balance \in Int
           /\ Cardinality(charged) \in Nat /\ IsFiniteSet(charged)
           /\ Cardinality(refunded) \in Nat /\ IsFiniteSet(refunded)
           /\ granted \in Int
<1>1. IsFiniteSet(charged) /\ IsFiniteSet(refunded)
    BY CreditAssumption, FS_Subset DEF TypeOK
<1>2. Cardinality(charged) \in Nat /\ Cardinality(refunded) \in Nat
    BY <1>1, FS_CardinalityType
<1>3. granted \in Int
    BY DEF TypeOK
<1>. QED BY <1>1, <1>2, <1>3 DEF Balance

(* What a transaction sees are reservation rows. *)
LEMMA SeenType ==
    ASSUME TypeOK, NEW m \in Messages
    PROVE  SeenBy(m) \in [Batches -> Reservation]
BY CreditAssumption DEF TypeOK, SeenBy, Transaction

(* A step that changes neither entries nor grants, raises no hold and      *)
(* moves no transaction to its entries or its commit keeps the balance     *)
(* covering what is reserved and about to be.                              *)
LEMMA QuietKeepsFunds ==
    ASSUME TypeOK, TypeOK', FundInv, UNCHANGED <<granted, charged, refunded>>,
           \A b \in Batches : Holding(reservation', b) =>
               /\ Holding(reservation, b)
               /\ reservation'[b].units =< reservation[b].units,
           \A m \in Messages : txn'[m] = txn[m] \/ txn'[m].pc \in {"IDLE", "HOLD"}
                                  \/ /\ txn'[m].pc = "COMMIT"
                                     /\ ~txn'[m].charge /\ ~txn'[m].refund
    PROVE  FundInv'
<1> USE CreditAssumption
<1>1. /\ reservation \in [Batches -> Reservation]
      /\ reservation' \in [Batches -> Reservation]
      /\ txn \in [Messages -> Transaction]
      /\ txn' \in [Messages -> Transaction]
    BY DEF TypeOK
<1>2. UNCHANGED Balance /\ Balance \in Int
    BY BalanceType DEF Balance
<1>3. BalanceCoversReserved'
    <2>1. UnitsHeld(reservation', Batches) =< UnitsHeld(reservation, Batches)
        BY <1>1, HeldLess
    <2>2. /\ UnitsHeld(reservation, Batches) \in Nat
          /\ UnitsHeld(reservation', Batches) \in Nat
        BY <1>1, HeldFinite
    <2>3. Balance >= UnitsHeld(reservation, Batches)
        BY DEF FundInv, BalanceCoversReserved, Reserved
    <2>4. Balance' >= UnitsHeld(reservation', Batches)
        BY <1>2, <2>1, <2>2, <2>3
    <2>. QED BY <2>4 DEF BalanceCoversReserved, Reserved, UnitsHeld, HeldUnits
<1>4. \A m \in Messages : LocksAccount(m)' => LocksAccount(m)
    BY <1>1 DEF LocksAccount, Transaction
<1>5. OneAtTheAccount'
    BY <1>4 DEF FundInv, OneAtTheAccount
<1>6. ASSUME NEW m \in Messages PROVE Funded(m)'
    <2>1. CASE txn'[m] = txn[m] /\ txn[m].pc = "COMMIT" /\ txn[m].charge
        <3>1. Balance - 1 >= UnitsHeld(SeenBy(m), Batches)
            BY <2>1 DEF FundInv, Funded
        <3>2. /\ SeenBy(m) = [reservation EXCEPT ![BatchOf[m]] = txn[m].hold]
              /\ SeenBy(m)' = [reservation' EXCEPT ![BatchOf[m]] = txn[m].hold]
            BY <2>1 DEF SeenBy
        <3>3. SeenBy(m) \in [Batches -> Reservation] /\ SeenBy(m)' \in [Batches -> Reservation]
            BY <1>1, <2>1, <3>2 DEF Transaction
        <3>4. \A b \in Batches : Holding(SeenBy(m)', b) =>
                  /\ Holding(SeenBy(m), b)
                  /\ SeenBy(m)'[b].units =< SeenBy(m)[b].units
            <4>1. txn[m].hold.units =< txn[m].hold.units
                BY <1>1 DEF Transaction, Reservation
            <4>. QED BY <1>1, <3>2, <4>1 DEF Holding
        <3>5. /\ UnitsHeld(SeenBy(m)', Batches) =< UnitsHeld(SeenBy(m), Batches)
              /\ UnitsHeld(SeenBy(m), Batches) \in Nat
              /\ UnitsHeld(SeenBy(m)', Batches) \in Nat
            BY <3>3, <3>4, HeldLess, HeldFinite
        <3>6. Balance' - 1 >= UnitsHeld(SeenBy(m)', Batches)
            BY <1>2, <3>1, <3>5
        <3>. QED BY <3>6 DEF Funded, UnitsHeld, HeldUnits
    <2>2. CASE ~(txn'[m].pc = "COMMIT" /\ txn'[m].charge)
        BY <2>2 DEF Funded
    <2>. QED BY <1>1, <2>1, <2>2 DEF Transaction
<1>. QED BY <1>3, <1>5, <1>6 DEF FundInv

(* The account's lock admits one transaction, and the guard on its first   *)
(* entry leaves it funded.                                                 *)
LEMMA HoldEnterFunds ==
    ASSUME IInv, TypeOK', FundInv, NEW m \in Messages, Hold(m) \/ Enter(m)
    PROVE  FundInv'
<1>1. TypeOK /\ txn \in [Messages -> Transaction] /\ Decided(m)
    BY DEF IInv, TypeOK, LedgerInv
<1>2. CASE RollBack(m)
    <2>1. /\ txn' = [txn EXCEPT ![m] = Idle]
          /\ UNCHANGED <<granted, charged, refunded, reservation>>
        BY <1>2 DEF RollBack, ledgerVars
    <2>2. \A b \in Batches : reservation[b].units =< reservation[b].units
        BY <1>1 DEF TypeOK, Reservation
    <2>3. \A o \in Messages : txn'[o] = txn[o] \/ txn'[o].pc \in {"IDLE", "HOLD"}
        BY <1>1, <2>1 DEF Idle
    <2>. QED BY <1>1, <2>1, <2>2, <2>3, QuietKeepsFunds DEF Holding
<1>3. ASSUME UNCHANGED ledgerVars,
             NEW pc \in {"ENTER", "COMMIT"}, txn' = [txn EXCEPT ![m].pc = pc],
             LocksAccount(m)' => AccountFree(Messages \ {m}),
             Funded(m)'
      PROVE  FundInv'
    <2>1. UNCHANGED <<granted, charged, refunded, reservation>>
        BY <1>3 DEF ledgerVars
    <2>2. \A o \in Messages : o # m => txn'[o] = txn[o]
        BY <1>1, <1>3
    <2>3. BalanceCoversReserved'
        BY <2>1 DEF FundInv, BalanceCoversReserved, Reserved, Balance, UnitsHeld, HeldUnits
    <2>4. OneAtTheAccount'
        <3>1. \A o \in Messages : o # m => (LocksAccount(o)' <=> LocksAccount(o))
            BY <2>2 DEF LocksAccount
        <3>2. LocksAccount(m)' => \A o \in Messages : o # m => ~LocksAccount(o)
            BY <1>3 DEF AccountFree
        <3>. QED BY <3>1, <3>2 DEF FundInv, OneAtTheAccount
    <2>5. ASSUME NEW o \in Messages PROVE Funded(o)'
        <3>1. CASE o = m
            BY <1>3, <3>1
        <3>2. CASE o # m
            <4>1. SeenBy(o)' = SeenBy(o) /\ UNCHANGED Balance /\ txn'[o] = txn[o]
                BY <2>1, <2>2, <3>2 DEF SeenBy, Balance
            <4>. QED BY <4>1 DEF FundInv, Funded, UnitsHeld, HeldUnits
        <3>. QED BY <3>1, <3>2
    <2>. QED BY <2>3, <2>4, <2>5 DEF FundInv
<1>4. CASE Hold(m) /\ ~RollBack(m)
    <2>1. /\ txn' = [txn EXCEPT ![m].pc = "ENTER"]
          /\ UNCHANGED ledgerVars
          /\ txn[m].hold.status = "ACTIVE" => AccountFree(Messages)
        BY <1>4 DEF Hold
    <2>2. txn'[m] = [txn[m] EXCEPT !.pc = "ENTER"]
        BY <1>1, <2>1
    <2>3. LocksAccount(m)' => AccountFree(Messages \ {m})
        BY <1>1, <2>1, <2>2 DEF LocksAccount, AccountFree, Transaction
    <2>4. Funded(m)'
        BY <1>1, <2>2 DEF Funded, Transaction
    <2>. QED BY <1>3, <2>1, <2>3, <2>4
<1>5. CASE Enter(m) /\ ~RollBack(m)
    <2>1. /\ txn' = [txn EXCEPT ![m].pc = "COMMIT"]
          /\ UNCHANGED ledgerVars
          /\ AccountFree(Messages \ {m})
          /\ EntriesAdmitted(m)
        BY <1>5 DEF Enter
    <2>2. txn'[m] = [txn[m] EXCEPT !.pc = "COMMIT"]
        BY <1>1, <2>1
    <2>3. SeenBy(m)' = SeenBy(m) /\ UNCHANGED Balance
        BY <1>1, <2>1, <2>2 DEF SeenBy, Balance, ledgerVars, Transaction
    <2>4. ASSUME txn[m].charge PROVE Balance - 1 >= UnitsHeld(SeenBy(m), Batches)
        <3>1. Balance + (-1) >= UnitsHeld(SeenBy(m), Batches)
            BY <2>1, <2>4 DEF EntriesAdmitted, GuardAdmits
        <3>. QED BY <1>1, <3>1, BalanceType
    <2>5. Funded(m)'
        <3>1. txn'[m].charge = txn[m].charge
            BY <1>1, <2>2 DEF Transaction
        <3>. QED BY <2>3, <2>4, <3>1 DEF Funded, UnitsHeld, HeldUnits
    <2>. QED BY <1>3, <2>1, <2>5
<1>. QED BY <1>2, <1>4, <1>5

(* With its commit a transaction makes its charge count, which was covered,*)
(* and its refund; what it settles lowers what is held.                    *)
LEMMA CommitFunds ==
    ASSUME IInv, TypeOK', FundInv, NEW m \in Messages, Commit(m)
    PROVE  FundInv'
<1> USE CreditAssumption
<1> DEFINE b == BatchOf[m]
           row == SeenBy(m)[b]
<1>1. /\ b \in Batches
      /\ row \in Reservation
      /\ row = IF txn[m].charge THEN txn[m].hold ELSE reservation[b]
      /\ reservation' = [reservation EXCEPT ![b] = Settled(row, Members(b), status')]
      /\ charged' = IF txn[m].charge THEN charged \cup {m} ELSE charged
      /\ refunded' = IF txn[m].refund THEN refunded \cup {m} ELSE refunded
      /\ txn' = [txn EXCEPT ![m] = Idle]
      /\ granted' = granted
      /\ txn[m].pc = "COMMIT"
    BY CommitResult DEF Commit
<1>2. /\ TypeOK
      /\ reservation \in [Batches -> Reservation]
      /\ reservation' \in [Batches -> Reservation]
      /\ txn \in [Messages -> Transaction]
    BY DEF IInv, TypeOK
<1>3. /\ Settled(row, Members(b), status').units =< row.units
      /\ Settled(row, Members(b), status').status = "ACTIVE" => row.status = "ACTIVE"
    BY <1>1 DEF Settled, Reservation
<1>4. CASE ~txn[m].charge /\ ~txn[m].refund
    <2>1. UNCHANGED <<granted, charged, refunded>>
        BY <1>1, <1>4
    <2>2. \A c \in Batches : Holding(reservation', c) =>
              /\ Holding(reservation, c)
              /\ reservation'[c].units =< reservation[c].units
        <3> HIDE DEF row
        <3>. QED BY <1>1, <1>2, <1>3, <1>4 DEF Holding, Reservation
    <2>3. \A o \in Messages : txn'[o] = txn[o] \/ txn'[o].pc \in {"IDLE", "HOLD"}
        BY <1>1, <1>2 DEF Idle
    <2>. QED BY <1>2, <2>1, <2>2, <2>3, QuietKeepsFunds
<1>5. CASE txn[m].charge \/ txn[m].refund
    <2>1. LocksAccount(m)
        BY <1>1, <1>5 DEF LocksAccount
    <2>2. \A o \in Messages : o # m => txn'[o] = txn[o] /\ ~LocksAccount(o)
        BY <1>1, <1>2, <2>1 DEF FundInv, OneAtTheAccount
    <2>3. \A o \in Messages : ~LocksAccount(o)'
        <3>1. ~LocksAccount(m)'
            BY <1>1, <1>2 DEF LocksAccount, Idle
        <3>. QED BY <2>2, <3>1 DEF LocksAccount
    <2>4. \A o \in Messages : Funded(o)'
        BY <2>3 DEF Funded, LocksAccount
    <2>5. BalanceCoversReserved'
        <3>1. /\ UnitsHeld(reservation', Batches) =< UnitsHeld(SeenBy(m), Batches)
              /\ UnitsHeld(reservation', Batches) \in Nat
              /\ UnitsHeld(SeenBy(m), Batches) \in Nat
            <4>1. SeenBy(m) \in [Batches -> Reservation]
                BY <1>2, SeenType
            <4>2. \A c \in Batches : c # b => SeenBy(m)[c] = reservation[c]
                BY <1>1, <1>2 DEF SeenBy
            <4>3. /\ reservation'[b] = Settled(row, Members(b), status')
                  /\ \A c \in Batches : c # b => reservation'[c] = reservation[c]
                BY <1>1, <1>2
            <4>4. \A c \in Batches : reservation[c].units =< reservation[c].units
                BY <1>2 DEF Reservation
            <4>5. \A c \in Batches : Holding(reservation', c) =>
                      /\ Holding(SeenBy(m), c)
                      /\ reservation'[c].units =< SeenBy(m)[c].units
                BY <1>3, <4>2, <4>3, <4>4 DEF Holding
            <4>. QED BY <1>2, <4>1, <4>5, HeldLess, HeldFinite
        <3>2. /\ Balance \in Int
              /\ Cardinality(charged) \in Nat /\ Cardinality(refunded) \in Nat
              /\ IsFiniteSet(charged) /\ IsFiniteSet(refunded)
              /\ granted \in Int
            BY <1>2, BalanceType
        <3>3. /\ Cardinality(charged') \in Nat /\ Cardinality(refunded') \in Nat
              /\ Cardinality(charged') =< Cardinality(charged) + 1
              /\ ~txn[m].charge => Cardinality(charged') = Cardinality(charged)
              /\ Cardinality(refunded') >= Cardinality(refunded)
            <4>1. /\ Cardinality(charged \cup {m}) \in Nat
                  /\ Cardinality(charged \cup {m}) =< Cardinality(charged) + 1
                <5>1. /\ IsFiniteSet(charged \cup {m})
                      /\ Cardinality(charged \cup {m}) =
                             IF m \in charged THEN Cardinality(charged)
                                              ELSE Cardinality(charged) + 1
                    BY <3>2, FS_AddElement
                <5>. QED BY <3>2, <5>1
            <4>2. /\ Cardinality(refunded \cup {m}) \in Nat
                  /\ Cardinality(refunded \cup {m}) >= Cardinality(refunded)
                <5>1. /\ IsFiniteSet(refunded \cup {m})
                      /\ Cardinality(refunded \cup {m}) =
                             IF m \in refunded THEN Cardinality(refunded)
                                               ELSE Cardinality(refunded) + 1
                    BY <3>2, FS_AddElement
                <5>. QED BY <3>2, <5>1
            <4>. QED BY <1>1, <3>2, <4>1, <4>2
        <3>4. granted' - Cardinality(charged') + Cardinality(refunded')
                  >= UnitsHeld(reservation', Batches)
            <4>1. CASE txn[m].charge
                <5>1. txn[m].pc = "COMMIT"
                    BY <1>1
                <5>2. Balance - 1 >= UnitsHeld(SeenBy(m), Batches)
                    BY <4>1, <5>1 DEF FundInv, Funded
                <5>. QED BY <1>1, <3>1, <3>2, <3>3, <5>2 DEF Balance
            <4>2. CASE ~txn[m].charge
                <5>1. granted - Cardinality(charged) + Cardinality(refunded)
                          >= UnitsHeld(SeenBy(m), Batches)
                    BY <4>2 DEF FundInv, BalanceCoversReserved, Reserved, Balance, SeenBy
                <5>. QED BY <1>1, <3>1, <3>2, <3>3, <4>2, <5>1
            <4>. QED BY <4>1, <4>2
        <3>. QED BY <3>4 DEF BalanceCoversReserved, Reserved, Balance, UnitsHeld, HeldUnits
    <2>. QED BY <2>3, <2>4, <2>5 DEF FundInv, OneAtTheAccount
<1>. QED BY <1>4, <1>5

(* Launches and grants find the account free and leave it covered.         *)
LEMMA AccountFunds ==
    ASSUME TypeOK, FundInv, AccountFree(Messages), UNCHANGED <<charged, refunded, txn>>,
           Balance' >= UnitsHeld(reservation', Batches)
    PROVE  FundInv'
<1>1. \A m \in Messages : ~LocksAccount(m)'
    BY DEF AccountFree, LocksAccount
<1>2. BalanceCoversReserved'
    BY DEF BalanceCoversReserved, Reserved, UnitsHeld, HeldUnits
<1>3. OneAtTheAccount' /\ \A m \in Messages : Funded(m)'
    BY <1>1 DEF OneAtTheAccount, Funded, LocksAccount
<1>. QED BY <1>2, <1>3 DEF FundInv

(* Every step keeps the balance covering what is reserved. *)
LEMMA FundKept ==
    ASSUME IInv, IInv', [Next]_vars, FundInv
    PROVE  FundInv'
<1>1. /\ TypeOK /\ TypeOK'
      /\ reservation \in [Batches -> Reservation]
      /\ reservation' \in [Batches -> Reservation]
      /\ txn \in [Messages -> Transaction]
    BY DEF IInv, TypeOK
<1>2. /\ Balance \in Int
      /\ UnitsHeld(reservation, Batches) \in Nat
      /\ UnitsHeld(reservation', Batches) \in Nat
      /\ Cardinality(charged) \in Nat /\ Cardinality(refunded) \in Nat
      /\ granted \in Int
    BY <1>1, HeldFinite, BalanceType
<1>3. Balance >= UnitsHeld(reservation, Batches)
    BY DEF FundInv, BalanceCoversReserved, Reserved
<1>4. ASSUME RecordPurchase PROVE FundInv'
    <2>1. /\ AccountFree(Messages)
          /\ granted' = granted + 1
          /\ UNCHANGED <<charged, refunded, reservation, txn>>
        BY <1>4 DEF RecordPurchase
    <2>2. Balance' >= UnitsHeld(reservation', Batches)
        BY <1>2, <1>3, <2>1 DEF Balance
    <2>. QED BY <1>1, <2>1, <2>2, AccountFunds
<1>5. ASSUME RecordDeduction PROVE FundInv'
    <2>1. /\ AccountFree(Messages)
          /\ granted' = granted - 1
          /\ Balance + (-1) >= UnitsHeld(reservation, Batches)
          /\ UNCHANGED <<charged, refunded, reservation, txn>>
        BY <1>5 DEF RecordDeduction, GuardAdmits, Reserved
    <2>2. Balance' >= UnitsHeld(reservation', Batches)
        BY <1>2, <2>1 DEF Balance
    <2>. QED BY <1>1, <2>1, <2>2, AccountFunds
<1>6. ASSUME NEW b \in Batches, Launch(b) PROVE FundInv'
    <2> DEFINE row == [status |-> "ACTIVE", units |-> Cardinality(Members(b))]
    <2>1. /\ AccountFree(Messages)
          /\ Balance + 0 >= UnitsHeld(reservation, Batches) + Cardinality(Members(b))
          /\ reservation' = [reservation EXCEPT ![b] = row]
          /\ UNCHANGED <<granted, charged, refunded, txn>>
          /\ Members(b) # {}
        BY <1>6 DEF Launch, Launchable, DatabaseAdmits, GuardAdmits, Reserved
    <2>2. row \in Reservation /\ row.units = Cardinality(Members(b))
        BY <2>1, LaunchUnits DEF Reservation, ReservationStatus
    <2>3. UnitsHeld(reservation', Batches)
              =< UnitsHeld(reservation, Batches) + Cardinality(Members(b))
        <3> HIDE DEF row
        <3>. QED BY <1>1, <2>1, <2>2, HeldMore
    <2>4. UNCHANGED Balance /\ Cardinality(Members(b)) \in Nat
        BY <2>1, LaunchUnits DEF Balance
    <2>5. Balance' >= UnitsHeld(reservation', Batches)
        BY <1>2, <2>1, <2>3, <2>4
    <2>. QED BY <1>1, <2>1, <2>5, AccountFunds
(* The other steps neither lock the account nor raise a hold. *)
<1>7. ASSUME UNCHANGED <<granted, charged, refunded>>,
             \A b \in Batches : reservation'[b] = reservation[b]
                                  \/ reservation'[b].status # "ACTIVE",
             \A m \in Messages : txn'[m] = txn[m] \/ txn'[m].pc \in {"IDLE", "HOLD"}
                                  \/ /\ txn'[m].pc = "COMMIT"
                                     /\ ~txn'[m].charge /\ ~txn'[m].refund
      PROVE  FundInv'
    <2>1. \A b \in Batches : reservation[b].units =< reservation[b].units
        BY <1>1 DEF Reservation
    <2>2. \A b \in Batches : Holding(reservation', b) =>
              /\ Holding(reservation, b)
              /\ reservation'[b].units =< reservation[b].units
        BY <1>7, <2>1 DEF Holding
    <2>. QED BY <1>1, <1>7, <2>2, QuietKeepsFunds
<1>8. ASSUME UNCHANGED <<granted, charged, refunded, txn>>,
             \A b \in Batches : reservation'[b] = reservation[b]
                                  \/ reservation'[b].status # "ACTIVE"
      PROVE  FundInv'
    BY <1>7, <1>8
<1>9. ASSUME NEW b \in Batches, DispatchExhausted(b) PROVE FundInv'
    <2>1. /\ reservation' = [reservation EXCEPT ![b] =
                                Settled(reservation[b], Members(b), status')]
          /\ UNCHANGED <<granted, charged, refunded, txn>>
        BY <1>9 DEF DispatchExhausted
    <2>2. \A c \in Batches : reservation'[c] = reservation[c]
                                \/ reservation'[c].status # "ACTIVE"
        BY <1>1, <2>1 DEF Settled, Reservation
    <2>. QED BY <1>8, <2>1, <2>2
<1>10. ASSUME NEW m \in Messages, Inside(m) PROVE FundInv'
    <2>1. UNCHANGED <<granted, charged, refunded, reservation>>
        BY <1>10, InsideResult DEF ledgerVars
    <2>2. CASE Hold(m) \/ Enter(m)
        BY <1>1, <2>2, HoldEnterFunds
    <2>3. CASE Abort(m)
        <3>1. txn' = [txn EXCEPT ![m] = Idle]
            BY <2>3 DEF Abort, RollBack
        <3>2. \A o \in Messages : txn'[o] = txn[o] \/ txn'[o].pc \in {"IDLE", "HOLD"}
            BY <1>1, <3>1 DEF Idle
        <3>. QED BY <1>7, <2>1, <3>2
    <2>4. CASE BeginStep(m)
        (* A refund without a charge goes to its entry, and locks nothing yet. *)
        <3>1. /\ \A o \in Messages : o # m => txn'[o] = txn[o]
              /\ ~LocksAccount(m)' /\ ~(txn'[m].pc = "COMMIT" /\ txn'[m].charge)
            <4>1. ASSUME NEW kind, NEW newStatus, NEW nowSent, NEW chargeDue, NEW refundDue,
                         Begin(m, kind, newStatus, nowSent, chargeDue, refundDue)
                  PROVE  /\ \A o \in Messages : o # m => txn'[o] = txn[o]
                         /\ ~LocksAccount(m)'
                         /\ ~(txn'[m].pc = "COMMIT" /\ txn'[m].charge)
                BY <1>1, <4>1 DEF Begin, LocksAccount
            <4>. QED BY <2>4, <4>1 DEF BeginStep, BeginAccepted, BeginFailure,
                                       BeginInterrupted, BeginWebhook
        <3>2. BalanceCoversReserved'
            BY <2>1 DEF FundInv, BalanceCoversReserved, Reserved, Balance, UnitsHeld, HeldUnits
        <3>3. OneAtTheAccount'
            BY <3>1 DEF FundInv, OneAtTheAccount, LocksAccount
        <3>4. ASSUME NEW o \in Messages PROVE Funded(o)'
            <4>1. CASE o = m
                BY <3>1, <4>1 DEF Funded
            <4>2. CASE o # m
                <5>1. SeenBy(o)' = SeenBy(o) /\ UNCHANGED Balance /\ txn'[o] = txn[o]
                    BY <2>1, <3>1, <4>2 DEF SeenBy, Balance
                <5>. QED BY <5>1 DEF FundInv, Funded, UnitsHeld, HeldUnits
            <4>. QED BY <4>1, <4>2
        <3>. QED BY <3>2, <3>3, <3>4 DEF FundInv
    <2>. QED BY <1>10, <2>2, <2>3, <2>4 DEF Inside
<1>11. \A b \in Batches : RecoverExhaustedDispatch(b) =>
           UNCHANGED <<granted, charged, refunded, reservation, txn>>
    BY DEF RecoverExhaustedDispatch, ledgerVars
<1>12. \A m \in Messages : Claim(m) =>
           UNCHANGED <<granted, charged, refunded, reservation, txn>>
    BY DEF Claim, ledgerVars
<1>13. UNCHANGED <<status, ledgerVars, txn>> =>
           UNCHANGED <<granted, charged, refunded, reservation, txn>>
    BY DEF ledgerVars
<1>14. ASSUME NEW m \in Messages, Commit(m) PROVE FundInv'
    BY <1>1, <1>14, CommitFunds
<1>. QED BY <1>4, <1>5, <1>6, <1>8, <1>9, <1>10, <1>11, <1>12, <1>13, <1>14, StepKinds

(* The balance always covers what the active reservations hold: launches   *)
(* and deductions under the account's lock, and the two database guards in *)
(* the charging and refunding transactions, are enough under READ          *)
(* COMMITTED, for any number of messages and batches.                      *)
THEOREM BalanceIsEnough == Spec => []BalanceCoversReserved
<1>1. Init => FundInv
    <2> SUFFICES ASSUME Init PROVE FundInv
        OBVIOUS
    <2>1. /\ granted = 0 /\ charged = {} /\ refunded = {}
          /\ reservation = [b \in Batches |-> NoReservation]
          /\ \A m \in Messages : txn[m] = Idle
        BY DEF Init
    <2>2. HeldUnits(reservation, Batches) = {}
        BY <2>1 DEF HeldUnits, NoReservation, None
    <2>3. BalanceCoversReserved
        BY <2>1, <2>2, FS_EmptySet DEF BalanceCoversReserved, Balance, Reserved, UnitsHeld
    <2>. QED BY <2>1, <2>3 DEF FundInv, OneAtTheAccount, Funded, LocksAccount, Idle
<1>2. IInv /\ IInv' /\ FundInv /\ [Next]_vars => FundInv'
    BY FundKept
<1>3. FundInv => BalanceCoversReserved
    BY DEF FundInv
<1>. QED BY <1>1, <1>2, <1>3, LedgerInvariance, PTL DEF Spec

-----------------------------------------------------------------------------
(* Preparation: what its tables and its requests are. *)

Version   == [status : {"DRAFT", "APPROVED", "ARCHIVED"}, asset : Assets \cup {Nil}]
SourceRow == [invitation : Invitations, text : Texts, members : Texts, cancelled : BOOLEAN,
              event : Texts, version : Nat, asset : Assets \cup {Nil}]

(* The operations that keep some of what they are while others write. *)
Notes == {"event", "template", "asset", "invitation"} \X (Nat \cup Assets \cup Invitations \cup {Nil})

UploadRow  == [op : {"UPLOAD", "UNDO_UPLOAD"}, asset : Assets]
PrepareRow == [op : {"PREPARE"}, version : Nat, asset : Assets \cup {Nil},
               sources : SUBSET SourceRow, written : SUBSET Notes]

Uploading == {"UPLOAD", "UNDO_UPLOAD"}
Entering  == {"LAUNCH", "LAUNCH_LOCKED"}

(* What an operation on images knows of its image, and a preparation until *)
(* the row of its image is written.                                        *)
ImageOp(x) ==
    /\ x.op \in Uploading => x \in UploadRow
    /\ x.op = "UPLOAD" => asset[x.asset] = "ABSENT" /\ x.asset \in objects
    /\ x.op = "UNDO_UPLOAD" => x.asset \in disowned
    /\ x.op = "DELETE" => x.asset \in Assets /\ asset[x.asset] = "DELETED"
    /\ (x.op = "PREPARE" /\ x.asset # Nil /\ <<"asset", x.asset>> \notin x.written) =>
          asset[x.asset] = "READY"

ImagesInv ==
    /\ asset \in [Assets -> {"ABSENT", "READY", "DELETED"}]
    /\ objects \subseteq Assets /\ disowned \subseteq Assets
    /\ \A a \in Assets : asset[a] = "READY" => a \in objects \cup disowned
    /\ \A s \in snapshots : s.asset # Nil => asset[s.asset] = "READY"
    /\ \A r \in Requests : ImageOp(doing[r])
    /\ \A q, r \in Requests : (q # r /\ doing[q].op \in Uploading /\ doing[r].op \in Uploading) =>
                                 doing[q].asset # doing[r].asset

(* A source of a version that is not a draft any more. *)
SourceOK(s) ==
    /\ s \in SourceRow /\ s.cancelled = FALSE
    /\ s.version \in DOMAIN templates
    /\ s.asset = templates[s.version].asset /\ templates[s.version].status # "DRAFT"

(* What an operation on versions knows of them while it holds the lock of  *)
(* the family, and a preparation of its sources.                           *)
VersionOp(x) ==
    /\ x.op = "CREATE" => templates = <<>> /\ x.asset \in Assets \cup {Nil}
    /\ x.op = "UPDATE" => /\ x.version \in DOMAIN templates /\ x.version = Len(templates)
                          /\ x.asset \in Assets \cup {Nil}
                          /\ x.draft <=> templates[x.version].status = "DRAFT"
    /\ x.op = "PREPARE" => x \in PrepareRow /\ \A s \in x.sources : SourceOK(s) /\ s.asset = x.asset

VersionsInv ==
    /\ templates \in Seq(Version)
    /\ \A n \in DOMAIN templates : templates[n].status = "DRAFT" => n = Len(templates)
    /\ \A s \in snapshots : SourceOK(s)
    /\ \A r \in Requests : VersionOp(doing[r])
    /\ \A q, r \in Requests : (doing[q].op = "CREATE" /\ doing[r].op = "CREATE") => q = r
    /\ \A q, r \in Requests : (doing[q].op = "UPDATE" /\ doing[r].op = "UPDATE") => q = r

(* What a step may send: snapshots, at most one of an invitation. *)
OneEach(S) == S \subseteq snapshots /\ \A s, t \in S : s.invitation = t.invitation => s = t

(* The event a launch has read is still what it was: it holds the row.     *)
(* What a launch or a resend is about to send is what was confirmed.       *)
LaunchOp(x) ==
    /\ x.op \in Entering => x = [op |-> x.op, token |-> x.token, event |-> event]
    /\ x.op \in HasRead => OneEach(x.sources) /\ x.sources = x.token.sources

MessagesInv ==
    /\ event \in Texts
    /\ invitation \in [Invitations -> [text : Texts, members : Texts, cancelled : BOOLEAN]]
    /\ messages \in [Invitations -> Seq(SourceRow)]
    /\ \A i \in Invitations : \A k \in DOMAIN messages[i] :
          messages[i][k] \in snapshots /\ messages[i][k].invitation = i
    /\ \A i \in failed : i \in Invitations /\ messages[i] # <<>>
    /\ \A r \in Requests : LaunchOp(doing[r])

PrepareInv ==
    /\ DOMAIN doing = Requests
    /\ ImagesInv /\ VersionsInv /\ MessagesInv
    /\ changes \in 0..MaxChanges /\ faults \in 0..MaxFaults

-----------------------------------------------------------------------------
(* What a step leaves as it is. *)

(* What a request does once the row has been written: *)
Noted(x, row) == IF x.op = "PREPARE" THEN [x EXCEPT !.written = x.written \cup {row}] ELSE x

(* the same, knowing of more rows at most.                                 *)
SameWork(y, x) ==
    \/ y = x
    \/ /\ x \in PrepareRow /\ y \in PrepareRow /\ x.op = "PREPARE" /\ y.op = "PREPARE"
       /\ y.asset = x.asset /\ y.sources = x.sources /\ x.written \subseteq y.written

(* A preparation is told of a row. *)
LEMMA NotedKeeps ==
    ASSUME NEW x \in PrepareRow, NEW row \in Notes
    PROVE  SameWork(Noted(x, row), x) /\ row \in Noted(x, row).written
<1>. DEFINE y == [x EXCEPT !.written = x.written \cup {row}]
<1>1. Noted(x, row) = y
    BY DEF Noted, PrepareRow
<1>2. x.written \cup {row} \in SUBSET Notes
    BY DEF PrepareRow
<1>3. /\ y \in PrepareRow /\ y.op = "PREPARE" /\ x.op = "PREPARE"
      /\ y.asset = x.asset /\ y.sources = x.sources
      /\ y.written = x.written \cup {row}
    BY <1>2 DEF PrepareRow
<1>. HIDE DEF y
<1>. QED BY <1>1, <1>3 DEF SameWork

(* A request goes on as it was, told of the row. *)
LEMMA NotingKeeps ==
    ASSUME PrepareInv, NEW t, NEW row \in Notes, doing' = Noting(t, row)
    PROVE  /\ DOMAIN doing' = Requests
           /\ \A q \in Requests : doing'[q] = Noted(t[q], row)
           /\ \A q \in Requests : t[q] = doing[q] => /\ SameWork(doing'[q], doing[q])
                                                     /\ doing'[q].op = "PREPARE" => row \in doing'[q].written
<1>1. DOMAIN doing' = Requests /\ \A q \in Requests : doing'[q] = Noted(t[q], row)
    BY DEF Noting, Noted
<1>2. ASSUME NEW q \in Requests, t[q] = doing[q]
      PROVE  SameWork(doing'[q], doing[q]) /\ (doing'[q].op = "PREPARE" => row \in doing'[q].written)
    <2>1. CASE doing[q].op = "PREPARE"
        <3>1. doing[q] \in PrepareRow
            BY <2>1 DEF PrepareInv, VersionsInv, VersionOp
        <3>. QED BY <1>1, <1>2, <3>1, NotedKeeps
    <2>2. CASE doing[q].op # "PREPARE"
        BY <1>1, <1>2, <2>2 DEF Noted, SameWork
    <2>. QED BY <2>1, <2>2
<1>. QED BY <1>1, <1>2

(* One request changes what it does. *)
LEMMA OneDoes ==
    ASSUME PrepareInv, NEW r \in Requests, NEW x, doing' = [doing EXCEPT ![r] = x]
    PROVE  /\ DOMAIN doing' = Requests /\ doing'[r] = x
           /\ \A q \in Requests \ {r} : doing'[q] = doing[q] /\ SameWork(doing'[q], doing[q])
BY DEF PrepareInv, SameWork

(* Operations on images go on while no image changes. *)
LEMMA ImagesRest ==
    ASSUME PrepareInv, UNCHANGED <<asset, objects, disowned>>,
           \A s \in snapshots' : s.asset # Nil => asset[s.asset] = "READY",
           NEW W \in SUBSET Requests, \A q \in Requests \ W : SameWork(doing'[q], doing[q]),
           \A q \in W : ImageOp(doing[q])' /\ doing'[q].op \notin Uploading
    PROVE  ImagesInv'
<1>0. ImagesInv
    BY DEF PrepareInv
<1>1. ASSUME NEW q \in Requests PROVE ImageOp(doing[q])'
    <2>1. CASE q \in W
        BY <2>1
    <2>2. CASE q \notin W
        <3>1. ImageOp(doing[q]) /\ SameWork(doing'[q], doing[q])
            BY <1>0, <2>2 DEF ImagesInv
        <3>2. CASE doing'[q] = doing[q]
            BY <3>1, <3>2 DEF ImageOp
        <3>3. CASE doing'[q] # doing[q]
            BY <3>1, <3>3 DEF ImageOp, SameWork, Uploading
        <3>. QED BY <3>2, <3>3
    <2>. QED BY <2>1, <2>2
<1>2. \A q \in Requests : doing'[q].op \in Uploading => doing'[q] = doing[q]
    BY DEF SameWork, Uploading
<1>. QED BY <1>0, <1>1, <1>2 DEF ImagesInv

(* Later versions leave what sources refer to. *)
Grow == \A n \in DOMAIN templates :
            /\ n \in DOMAIN templates' /\ templates'[n].asset = templates[n].asset
            /\ templates[n].status # "DRAFT" => templates'[n].status # "DRAFT"

(* Operations on versions go on. *)
LEMMA VersionsRest ==
    ASSUME PrepareInv, templates' \in Seq(Version), Grow,
           \A n \in DOMAIN templates' : templates'[n].status = "DRAFT" => n = Len(templates'),
           \A s \in snapshots' : s \in snapshots \/ SourceOK(s),
           NEW W \in SUBSET Requests, \A q \in Requests \ W : SameWork(doing'[q], doing[q]),
           \/ templates' = templates
           \/ \A q \in Requests \ W : doing[q].op \notin {"CREATE", "UPDATE"},
           \A q \in W : VersionOp(doing[q])' /\ doing'[q].op \notin {"CREATE", "UPDATE"}
    PROVE  VersionsInv'
<1>0. VersionsInv
    BY DEF PrepareInv
<1>1. ASSUME NEW s, SourceOK(s) PROVE SourceOK(s)'
    BY <1>1 DEF SourceOK, Grow
<1>2. \A s \in snapshots' : SourceOK(s)'
    BY <1>0, <1>1 DEF VersionsInv
<1>3. ASSUME NEW q \in Requests PROVE VersionOp(doing[q])'
    <2>1. CASE q \in W
        BY <2>1
    <2>2. CASE q \notin W
        <3>1. VersionOp(doing[q]) /\ SameWork(doing'[q], doing[q])
            BY <1>0, <2>2 DEF VersionsInv
        <3>2. doing'[q].op = "PREPARE" =>
                  /\ doing'[q] \in PrepareRow
                  /\ \A s \in doing'[q].sources : SourceOK(s)' /\ s.asset = doing'[q].asset
            BY <1>1, <3>1 DEF VersionOp, SameWork
        <3>3. doing'[q].op \in {"CREATE", "UPDATE"} => doing'[q] = doing[q] /\ templates' = templates
            BY <2>2, <3>1 DEF SameWork
        <3>. QED BY <3>1, <3>2, <3>3 DEF VersionOp
    <2>. QED BY <2>1, <2>2
<1>4. \A q \in Requests : doing'[q].op \in {"CREATE", "UPDATE"} => doing'[q] = doing[q]
    BY DEF SameWork
<1>. QED BY <1>0, <1>2, <1>3, <1>4 DEF VersionsInv

(* No version changes. *)
LEMMA VersionsStay ==
    ASSUME PrepareInv, UNCHANGED <<templates, snapshots>>,
           NEW W \in SUBSET Requests, \A q \in Requests \ W : SameWork(doing'[q], doing[q]),
           \A q \in W : VersionOp(doing[q])' /\ doing'[q].op \notin {"CREATE", "UPDATE"}
    PROVE  VersionsInv'
<1>1. Grow
    BY DEF Grow
<1>2. /\ templates' \in Seq(Version)
      /\ \A n \in DOMAIN templates' : templates'[n].status = "DRAFT" => n = Len(templates')
    BY DEF PrepareInv, VersionsInv
<1>. QED BY <1>1, <1>2, VersionsRest

(* Nothing is sent, and no launch begins. *)
LEMMA MessagesRest ==
    ASSUME PrepareInv, UNCHANGED <<event, invitation, messages, failed>>, snapshots \subseteq snapshots',
           NEW W \in SUBSET Requests, \A q \in Requests \ W : SameWork(doing'[q], doing[q]),
           \A q \in W : LaunchOp(doing[q])'
    PROVE  MessagesInv'
<1>0. MessagesInv
    BY DEF PrepareInv
<1>1. ASSUME NEW q \in Requests PROVE LaunchOp(doing[q])'
    <2>1. CASE q \in W
        BY <2>1
    <2>2. CASE q \notin W
        <3>1. LaunchOp(doing[q]) /\ SameWork(doing'[q], doing[q])
            BY <1>0, <2>2 DEF MessagesInv
        <3>2. doing'[q].op \in Entering \cup HasRead => doing'[q] = doing[q]
            BY <3>1 DEF SameWork, Entering, HasRead
        <3>. QED BY <3>1, <3>2 DEF LaunchOp, OneEach
    <2>. QED BY <2>1, <2>2
<1>. QED BY <1>0, <1>1 DEF MessagesInv

(* An idle request, or one that only reads, knows nothing that may change. *)
LEMMA KnowsNothing ==
    ASSUME NEW r \in Requests
    PROVE  /\ doing'[r].op \in {"IDLE", "CREATE", "UPDATE", "REVIEWED", "RESEND", "LAUNCH",
                                "LAUNCH_LOCKED", "LAUNCH_READ", "RESEND_READ"} =>
                  ImageOp(doing[r])' /\ doing'[r].op \notin Uploading
           /\ doing'[r].op \in {"IDLE", "UPLOAD", "UNDO_UPLOAD", "DELETE", "REVIEWED", "RESEND", "LAUNCH",
                                "LAUNCH_LOCKED", "LAUNCH_READ", "RESEND_READ"} =>
                  VersionOp(doing[r])' /\ doing'[r].op \notin {"CREATE", "UPDATE"}
           /\ doing'[r].op \in {"IDLE", "UPLOAD", "UNDO_UPLOAD", "DELETE", "CREATE", "UPDATE", "PREPARE",
                                "REVIEWED", "RESEND"} =>
                  LaunchOp(doing[r])'
BY DEF ImageOp, VersionOp, LaunchOp, Uploading, Entering, HasRead

(* A request ends. *)
LEMMA Ended ==
    ASSUME PrepareInv, NEW r \in Requests, doing' = Ends(r)
    PROVE  /\ DOMAIN doing' = Requests /\ doing'[r] = Nothing
           /\ \A q \in Requests \ {r} : doing'[q] = doing[q] /\ SameWork(doing'[q], doing[q])
           /\ ImageOp(doing[r])' /\ doing'[r].op \notin Uploading
           /\ VersionOp(doing[r])' /\ doing'[r].op \notin {"CREATE", "UPDATE"}
           /\ LaunchOp(doing[r])'
<1>1. /\ DOMAIN doing' = Requests /\ doing'[r] = Nothing
      /\ \A q \in Requests \ {r} : doing'[q] = doing[q] /\ SameWork(doing'[q], doing[q])
    BY OneDoes DEF Ends
<1>2. doing'[r].op = "IDLE"
    BY <1>1 DEF Nothing
<1>. QED BY <1>1, <1>2, KnowsNothing

-----------------------------------------------------------------------------
(* Images. *)

(* What the other requests know of an image is so after a step of request r. *)
OthersAside(r, a) ==
    \A q \in Requests \ {r} :
        /\ SameWork(doing'[q], doing[q])
        /\ doing'[q].op = "UPLOAD" => doing'[q].asset # a
        /\ (doing'[q].op = "DELETE" /\ doing'[q].asset = a) => asset'[a] = "DELETED"
        /\ (doing'[q].op = "PREPARE" /\ doing'[q].asset = a /\ asset[a] = "READY" /\ asset'[a] # "READY") =>
               <<"asset", a>> \in doing'[q].written
        /\ doing'[r].op \in Uploading /\ doing'[q].op \in Uploading => doing'[q].asset # doing'[r].asset

(* The row, the file or the disowning of one image changes. *)
ImageChanges(a) ==
    /\ asset' \in [Assets -> {"ABSENT", "READY", "DELETED"}] /\ objects' \subseteq Assets
    /\ disowned' \subseteq Assets /\ disowned \subseteq disowned'
    /\ \A b \in Assets \ {a} : asset'[b] = asset[b] /\ (b \in objects' <=> b \in objects)
    /\ asset'[a] = "READY" => a \in objects' \cup disowned'
    /\ asset[a] = "READY" => asset'[a] = "READY" \/ \A s \in snapshots : s.asset # a

(* One request changes one image: what is known of the images is still so. *)
LEMMA ImagesChange ==
    ASSUME PrepareInv, UNCHANGED snapshots, NEW r \in Requests, NEW a \in Assets,
           ImageChanges(a), OthersAside(r, a), ImageOp(doing[r])'
    PROVE  ImagesInv'
<1>0. ImagesInv
    BY DEF PrepareInv
<1>a. /\ asset' \in [Assets -> {"ABSENT", "READY", "DELETED"}] /\ objects' \subseteq Assets
      /\ disowned' \subseteq Assets /\ disowned \subseteq disowned'
      /\ \A b \in Assets \ {a} : asset'[b] = asset[b] /\ (b \in objects' <=> b \in objects)
      /\ asset'[a] = "READY" => a \in objects' \cup disowned'
      /\ asset[a] = "READY" => asset'[a] = "READY" \/ \A s \in snapshots : s.asset # a
    BY DEF ImageChanges
<1>b. \A q \in Requests \ {r} :
        /\ SameWork(doing'[q], doing[q])
        /\ doing'[q].op = "UPLOAD" => doing'[q].asset # a
        /\ (doing'[q].op = "DELETE" /\ doing'[q].asset = a) => asset'[a] = "DELETED"
        /\ (doing'[q].op = "PREPARE" /\ doing'[q].asset = a /\ asset[a] = "READY" /\ asset'[a] # "READY") =>
               <<"asset", a>> \in doing'[q].written
        /\ doing'[r].op \in Uploading /\ doing'[q].op \in Uploading => doing'[q].asset # doing'[r].asset
    BY DEF OthersAside
<1>1. \A b \in Assets : asset'[b] = "READY" => b \in objects' \cup disowned'
    <2>. TAKE b \in Assets
    <2>1. CASE b = a
        BY <1>a, <1>b, <2>1
    <2>2. CASE b # a
        BY <1>a, <1>b, <1>0, <2>2 DEF ImagesInv
    <2>. QED BY <1>a, <1>b, <2>1, <2>2
<1>2. ASSUME NEW s \in snapshots', s.asset # Nil PROVE asset'[s.asset] = "READY"
    <2>1. s.asset \in Assets /\ asset[s.asset] = "READY"
        BY <1>a, <1>b, <1>0, <1>2 DEF ImagesInv, PrepareInv, VersionsInv, SourceOK, SourceRow
    <2>. QED BY <1>a, <1>b, <1>2, <2>1
<1>3. ASSUME NEW q \in Requests \ {r} PROVE ImageOp(doing[q])'
    <2>1. ImageOp(doing[q]) /\ SameWork(doing'[q], doing[q]) /\ VersionOp(doing[q])
        BY <1>a, <1>b, <1>0 DEF ImagesInv, PrepareInv, VersionsInv
    <2>2. CASE doing'[q].op = "PREPARE"
        <3>1. doing'[q].asset = doing[q].asset /\ doing[q].op = "PREPARE" /\ doing[q] \in PrepareRow
              /\ doing[q].written \subseteq doing'[q].written
            BY <1>a, <1>b, <2>1, <2>2 DEF SameWork, VersionOp
        <3>2. doing[q].asset \in Assets \cup {Nil}
            BY <1>a, <1>b, <3>1 DEF PrepareRow
        <3>. QED BY <1>a, <1>b, <2>1, <2>2, <3>1, <3>2 DEF ImageOp, Uploading
    <2>3. CASE doing'[q].op # "PREPARE"
        <3>1. doing'[q] = doing[q]
            BY <1>a, <1>b, <2>1, <2>3 DEF SameWork
        <3>2. doing[q].op \in Uploading => doing[q].asset \in Assets
            BY <1>a, <1>b, <2>1 DEF ImageOp, UploadRow
        <3>3. doing[q].op = "UPLOAD" => asset'[doing[q].asset] = "ABSENT" /\ doing[q].asset \in objects'
            BY <1>a, <1>b, <2>1, <3>1, <3>2 DEF ImageOp, Uploading
        <3>4. doing[q].op = "DELETE" => asset'[doing[q].asset] = "DELETED"
            BY <1>a, <1>b, <2>1, <3>1 DEF ImageOp
        <3>. QED BY <1>a, <1>b, <2>1, <2>3, <3>1, <3>3, <3>4 DEF ImageOp
    <2>. QED BY <1>a, <1>b, <2>2, <2>3
<1>4. \A q \in Requests \ {r} : doing'[q].op \in Uploading => doing'[q] = doing[q]
    BY <1>b DEF SameWork, Uploading
<1>5. ASSUME NEW p \in Requests, NEW q \in Requests, p # q,
             doing'[p].op \in Uploading, doing'[q].op \in Uploading
      PROVE  doing'[p].asset # doing'[q].asset
    <2>1. CASE p # r /\ q # r
        BY <1>a, <1>b, <1>0, <1>4, <1>5, <2>1 DEF ImagesInv
    <2>2. CASE p = r \/ q = r
        BY <1>a, <1>b, <1>5, <2>2
    <2>. QED BY <1>a, <1>b, <2>1, <2>2
<1>6. \A q \in Requests : ImageOp(doing[q])'
    BY <1>a, <1>b, <1>3
<1>. QED BY <1>a, <1>1, <1>2, <1>5, <1>6 DEF ImagesInv

(* What is known of the images when one request changes one. *)
ImagesTyped(r) ==
    /\ asset \in [Assets -> {"ABSENT", "READY", "DELETED"}]
    /\ objects \subseteq Assets /\ disowned \subseteq Assets
    /\ \A a \in Assets : asset[a] = "READY" => a \in objects \cup disowned
    /\ ImageOp(doing[r])
    /\ \A q \in Requests \ {r} :
          /\ doing[q].op = "UPLOAD" => asset[doing[q].asset] = "ABSENT"
          /\ doing[q].op = "DELETE" => asset[doing[q].asset] = "DELETED"
          /\ doing[q].op \in Uploading /\ doing[r].op \in Uploading => doing[q].asset # doing[r].asset

(* It is part of the invariant. *)
LEMMA Images == ASSUME PrepareInv, NEW r \in Requests PROVE ImagesTyped(r)
BY DEF PrepareInv, ImagesInv, ImagesTyped, ImageOp

(* Neither the versions nor the messages change when a request on images ends. *)
LEMMA ImageStepEnds ==
    ASSUME PrepareInv, NEW r \in Requests, doing' = Ends(r), ImagesInv', changes' = changes,
           faults' \in 0..MaxFaults, UNCHANGED <<event, invitation, templates, snapshots, messages, failed>>
    PROVE  PrepareInv'
<1>1. /\ DOMAIN doing' = Requests
      /\ \A q \in Requests \ {r} : SameWork(doing'[q], doing[q])
      /\ VersionOp(doing[r])' /\ doing'[r].op \notin {"CREATE", "UPDATE"} /\ LaunchOp(doing[r])'
    BY Ended
<1>. DEFINE W == {r}
<1>2. W \in SUBSET Requests /\ \A q \in Requests \ W : q \in Requests \ {r}
    OBVIOUS
<1>3. \A q \in W : q = r
    OBVIOUS
<1>. HIDE DEF W
<1>4. VersionsInv'
    BY <1>1, <1>2, <1>3, VersionsStay
<1>5. MessagesInv'
    BY <1>1, <1>2, <1>3, MessagesRest
<1>. QED BY <1>1, <1>4, <1>5 DEF PrepareInv

(* The file of an image is put. *)
LEMMA UploadFileStep ==
    ASSUME PreparationAssumption, PrepareInv, NEW r \in Requests, NEW a \in Assets, UploadFile(r, a)
    PROVE  PrepareInv'
<1>. DEFINE x == [op |-> "UPLOAD", asset |-> a]
<1>0. /\ ImagesTyped(r) /\ asset[a] = "ABSENT" /\ objects' = objects \cup {a}
      /\ UNCHANGED <<asset, disowned, snapshots>>
    BY Images DEF UploadFile
<1>1. doing' = [doing EXCEPT ![r] = x]
    BY DEF UploadFile
<1>2. x \in UploadRow /\ x.op = "UPLOAD" /\ x.asset = a
    BY DEF UploadRow
<1>. HIDE DEF x
<1>3. /\ DOMAIN doing' = Requests /\ doing'[r] = x
      /\ \A q \in Requests \ {r} : doing'[q] = doing[q] /\ SameWork(doing'[q], doing[q])
    BY <1>1, OneDoes
<1>4. ImagesInv'
    <2>1. ImageOp(doing[r])'
        BY <1>2, <1>3 DEF ImageOp, UploadFile
    <2>2. \A q \in Requests \ {r} : /\ doing'[q].op \in Uploading => doing'[q].asset # a
                                    /\ doing'[q].op = "DELETE" => doing'[q].asset # a
        BY <1>0, <1>3 DEF UploadFile, Uploading, ImagesTyped
    <2>3. \A q \in Requests \ {r} : doing'[q].op = "UPLOAD" => doing'[q].op \in Uploading
        BY DEF Uploading
    <2>4. /\ asset' \in [Assets -> {"ABSENT", "READY", "DELETED"}] /\ objects' \subseteq Assets
          /\ disowned' \subseteq Assets /\ disowned \subseteq disowned'
          /\ \A b \in Assets \ {a} : asset'[b] = asset[b] /\ (b \in objects' <=> b \in objects)
          /\ asset'[a] # "READY" /\ asset[a] # "READY"
        BY <1>0 DEF ImagesTyped
    <2>5. ImageChanges(a)
        BY <1>0, <2>4 DEF ImageChanges
    <2>6. OthersAside(r, a)
        BY <1>0, <1>2, <1>3, <2>2, <2>3, <2>4 DEF OthersAside
    <2>. QED BY <1>0, <2>1, <2>5, <2>6, ImagesChange
<1>5. VersionsInv'
    BY <1>2, <1>3, KnowsNothing, VersionsStay, {r} \in SUBSET Requests DEF UploadFile
<1>6. MessagesInv'
    BY <1>2, <1>3, KnowsNothing, MessagesRest, {r} \in SUBSET Requests DEF UploadFile
<1>. QED BY <1>3, <1>4, <1>5, <1>6 DEF UploadFile, PrepareInv

(* Its row follows. *)
LEMMA RecordUploadStep ==
    ASSUME PreparationAssumption, PrepareInv, NEW r \in Requests, RecordUpload(r)
    PROVE  PrepareInv'
<1>. PICK a : a = doing[r].asset
    OBVIOUS
<1>0. /\ ImagesTyped(r) /\ a \in Assets /\ asset[a] = "ABSENT" /\ a \in objects
      /\ asset' = [asset EXCEPT ![a] = "READY"] /\ UNCHANGED <<objects, disowned, snapshots>>
      /\ doing' = Ends(r) /\ doing[r].op \in Uploading
    BY Images DEF RecordUpload, ImagesTyped, ImageOp, UploadRow, Uploading
<1>1. /\ doing'[r] = Nothing /\ ImageOp(doing[r])' /\ doing'[r].op \notin Uploading
      /\ \A q \in Requests \ {r} : doing'[q] = doing[q] /\ SameWork(doing'[q], doing[q])
    BY <1>0, Ended
<1>2. /\ asset' \in [Assets -> {"ABSENT", "READY", "DELETED"}] /\ objects' \subseteq Assets
      /\ disowned' \subseteq Assets /\ disowned \subseteq disowned'
      /\ \A b \in Assets \ {a} : asset'[b] = asset[b] /\ (b \in objects' <=> b \in objects)
      /\ asset'[a] = "READY" /\ a \in objects'
    BY <1>0 DEF ImagesTyped
<1>3. \A q \in Requests \ {r} : /\ doing'[q].op = "UPLOAD" => doing'[q].asset # a
                                /\ doing'[q].op = "DELETE" => doing'[q].asset # a
    BY <1>0, <1>1 DEF ImagesTyped, Uploading
<1>4. ImagesInv'
    <2>1. ImageChanges(a)
        BY <1>0, <1>2 DEF ImageChanges
    <2>2. OthersAside(r, a)
        BY <1>0, <1>1, <1>2, <1>3 DEF OthersAside
    <2>. QED BY <1>0, <1>1, <2>1, <2>2, ImagesChange
<1>. QED BY <1>0, <1>4, ImageStepEnds DEF RecordUpload, PrepareInv

(* The transaction of an upload fails, or its answer is lost. *)
LEMMA UploadThrowsStep ==
    ASSUME PreparationAssumption, PrepareInv, NEW r \in Requests, UploadThrows(r)
    PROVE  PrepareInv'
<1>. PICK a, x, y : a = doing[r].asset /\ x = doing[r] /\ y = [doing[r] EXCEPT !.op = "UNDO_UPLOAD"]
    OBVIOUS
<1>0. /\ ImagesTyped(r) /\ a \in Assets /\ asset[a] = "ABSENT" /\ a \in objects /\ x \in UploadRow
      /\ UNCHANGED <<objects, snapshots>> /\ disowned' = disowned \cup {a}
      /\ doing' = [doing EXCEPT ![r] = y] /\ doing[r].op \in Uploading
    BY Images DEF UploadThrows, ImagesTyped, ImageOp, UploadRow, Uploading
<1>1. y \in UploadRow /\ y.op = "UNDO_UPLOAD" /\ y.asset = a
    BY <1>0 DEF UploadRow
<1>2. /\ DOMAIN doing' = Requests /\ doing'[r] = y
      /\ \A q \in Requests \ {r} : doing'[q] = doing[q] /\ SameWork(doing'[q], doing[q])
    BY <1>0, OneDoes
<1>3. asset' = [asset EXCEPT ![a] = "READY"] \/ asset' = asset
    BY DEF UploadThrows
<1>4. /\ asset' \in [Assets -> {"ABSENT", "READY", "DELETED"}] /\ objects' \subseteq Assets
      /\ disowned' \subseteq Assets /\ disowned \subseteq disowned'
      /\ \A b \in Assets \ {a} : asset'[b] = asset[b] /\ (b \in objects' <=> b \in objects)
      /\ a \in disowned'
    BY <1>0, <1>3 DEF ImagesTyped
<1>5. \A q \in Requests \ {r} : /\ doing'[q].op \in Uploading => doing'[q].asset # a
                                /\ doing'[q].op = "DELETE" => doing'[q].asset # a
    BY <1>0, <1>2 DEF ImagesTyped
<1>6. \A q \in Requests \ {r} : doing'[q].op = "UPLOAD" => doing'[q].op \in Uploading
    BY DEF Uploading
<1>7. ImageOp(doing[r])'
    BY <1>1, <1>2, <1>4 DEF ImageOp
<1>8. ImagesInv'
    <2>1. ImageChanges(a)
        BY <1>0, <1>4 DEF ImageChanges
    <2>2. OthersAside(r, a)
        BY <1>0, <1>1, <1>2, <1>4, <1>5, <1>6 DEF OthersAside
    <2>. QED BY <1>0, <1>7, <2>1, <2>2, ImagesChange
<1>9. VersionsInv' /\ MessagesInv'
    BY <1>1, <1>2, KnowsNothing, VersionsStay, MessagesRest, {r} \in SUBSET Requests DEF UploadThrows
<1>10. faults' \in 0..MaxFaults
    BY DEF UploadThrows, Fault, PrepareInv, PreparationAssumption
<1>. QED BY <1>2, <1>8, <1>9, <1>10 DEF UploadThrows, PrepareInv

(* The file of an upload that failed is deleted. *)
LEMMA UndoUploadStep ==
    ASSUME PreparationAssumption, PrepareInv, NEW r \in Requests, UndoUpload(r)
    PROVE  PrepareInv'
<1>. PICK a : a = doing[r].asset
    OBVIOUS
<1>0. /\ ImagesTyped(r) /\ a \in Assets /\ a \in disowned
      /\ objects' = objects \ {a} /\ UNCHANGED <<asset, disowned, snapshots>>
      /\ doing' = Ends(r) /\ doing[r].op \in Uploading
    BY Images DEF UndoUpload, ImagesTyped, ImageOp, UploadRow, Uploading
<1>1. /\ doing'[r] = Nothing /\ ImageOp(doing[r])' /\ doing'[r].op \notin Uploading
      /\ \A q \in Requests \ {r} : doing'[q] = doing[q] /\ SameWork(doing'[q], doing[q])
    BY <1>0, Ended
<1>2. /\ asset' \in [Assets -> {"ABSENT", "READY", "DELETED"}] /\ objects' \subseteq Assets
      /\ disowned' \subseteq Assets /\ disowned \subseteq disowned'
      /\ \A b \in Assets \ {a} : asset'[b] = asset[b] /\ (b \in objects' <=> b \in objects)
      /\ asset'[a] = asset[a] /\ a \in disowned'
    BY <1>0 DEF ImagesTyped
<1>3. \A q \in Requests \ {r} : /\ doing'[q].op = "UPLOAD" => doing'[q].asset # a
                                /\ doing'[q].op = "DELETE" => asset'[doing'[q].asset] = "DELETED"
    BY <1>0, <1>1 DEF ImagesTyped, Uploading
<1>4. ImagesInv'
    <2>1. ImageChanges(a)
        BY <1>0, <1>2 DEF ImageChanges
    <2>2. OthersAside(r, a)
        BY <1>0, <1>1, <1>2, <1>3 DEF OthersAside
    <2>. QED BY <1>0, <1>1, <2>1, <2>2, ImagesChange
<1>. QED BY <1>0, <1>4, ImageStepEnds DEF UndoUpload, PrepareInv

(* The file of an image that is archived is deleted, or stays. *)
LEMMA DeleteFileStep ==
    ASSUME PreparationAssumption, PrepareInv, NEW r \in Requests, DeleteFile(r)
    PROVE  PrepareInv'
<1>. PICK a : a = doing[r].asset
    OBVIOUS
<1>0. /\ ImagesTyped(r) /\ a \in Assets /\ asset[a] = "DELETED"
      /\ objects' \in {objects, objects \ {a}} /\ UNCHANGED <<asset, disowned, snapshots>>
      /\ doing' = Ends(r)
    BY Images DEF DeleteFile, ImagesTyped, ImageOp
<1>1. /\ doing'[r] = Nothing /\ ImageOp(doing[r])' /\ doing'[r].op \notin Uploading
      /\ \A q \in Requests \ {r} : doing'[q] = doing[q] /\ SameWork(doing'[q], doing[q])
    BY <1>0, Ended
<1>2. /\ asset' \in [Assets -> {"ABSENT", "READY", "DELETED"}] /\ objects' \subseteq Assets
      /\ disowned' \subseteq Assets /\ disowned \subseteq disowned'
      /\ \A b \in Assets \ {a} : asset'[b] = asset[b] /\ (b \in objects' <=> b \in objects)
      /\ asset'[a] = "DELETED"
    BY <1>0 DEF ImagesTyped
<1>3. \A q \in Requests \ {r} : doing'[q].op = "UPLOAD" => doing'[q].asset # a
    BY <1>0, <1>1 DEF ImagesTyped
<1>4. ImagesInv'
    <2>1. ImageChanges(a)
        BY <1>0, <1>2 DEF ImageChanges
    <2>2. OthersAside(r, a)
        BY <1>0, <1>1, <1>2, <1>3 DEF OthersAside
    <2>. QED BY <1>0, <1>1, <2>1, <2>2, ImagesChange
<1>5. faults' \in 0..MaxFaults
    BY DEF DeleteFile, Fault, PrepareInv, PreparationAssumption
<1>. QED BY <1>0, <1>4, <1>5, ImageStepEnds DEF DeleteFile

(* An image that nothing uses is archived; preparations are told. *)
LEMMA ArchiveAssetStep ==
    ASSUME PreparationAssumption, PrepareInv, NEW r \in Requests, NEW a \in Assets, ArchiveAsset(r, a)
    PROVE  PrepareInv'
<1>p. PICK x, t, row : /\ x = [op |-> "DELETE", asset |-> a]
                       /\ t = [doing EXCEPT ![r] = x] /\ row = <<"asset", a>>
    OBVIOUS
<1>0. /\ ImagesTyped(r) /\ asset[a] = "READY" /\ ~InUse(a)
      /\ asset' = [asset EXCEPT ![a] = "DELETED"] /\ UNCHANGED <<objects, disowned, snapshots>>
      /\ doing' = Noting(t, row)
    BY <1>p, Images DEF ArchiveAsset
<1>1. x.op = "DELETE" /\ x.asset = a /\ row \in Notes
    BY <1>p DEF Notes
<1>2. t[r] = x /\ \A q \in Requests \ {r} : t[q] = doing[q]
    BY <1>p DEF PrepareInv
<1>. DEFINE W == {r}
<1>3. W \in SUBSET Requests /\ \A q \in Requests \ W : q \in Requests \ {r}
    OBVIOUS
<1>4. \A q \in W : q = r
    OBVIOUS
<1>5. \A q \in Requests \ {r} : q \in Requests \ W
    OBVIOUS
<1>. HIDE DEF W
<1>6. /\ DOMAIN doing' = Requests /\ doing'[r] = Noted(t[r], row)
      /\ \A q \in Requests \ {r} : /\ SameWork(doing'[q], doing[q])
                                   /\ doing'[q].op = "PREPARE" => row \in doing'[q].written
    <2>1. row \in Notes /\ doing' = Noting(t, row)
        BY <1>0, <1>1
    <2>2. /\ DOMAIN doing' = Requests
          /\ \A q \in Requests : doing'[q] = Noted(t[q], row)
          /\ \A q \in Requests : t[q] = doing[q] => /\ SameWork(doing'[q], doing[q])
                                                    /\ doing'[q].op = "PREPARE" => row \in doing'[q].written
        BY <2>1, NotingKeeps
    <2>. QED BY <1>2, <2>2
<1>7. doing'[r] = x
    BY <1>1, <1>2, <1>6 DEF Noted
<1>8. /\ asset' \in [Assets -> {"ABSENT", "READY", "DELETED"}] /\ objects' \subseteq Assets
      /\ disowned' \subseteq Assets /\ disowned \subseteq disowned'
      /\ \A b \in Assets \ {a} : asset'[b] = asset[b] /\ (b \in objects' <=> b \in objects)
      /\ asset'[a] = "DELETED"
    BY <1>0 DEF ImagesTyped
<1>9. \A s \in snapshots : s.asset # a
    BY <1>0 DEF InUse, HasSnapshot
<1>10. \A q \in Requests \ {r} : doing'[q].op = "UPLOAD" => doing'[q].asset # a
    <2>. TAKE q \in Requests \ {r}
    <2>1. doing'[q].op = "UPLOAD" => doing'[q] = doing[q]
        BY <1>6 DEF SameWork
    <2>. QED BY <1>0, <2>1 DEF ImagesTyped
<1>11. ImageOp(doing[r])' /\ doing'[r].op \notin Uploading
    BY <1>1, <1>7, <1>8 DEF ImageOp, Uploading
<1>12. ImagesInv'
    <2>1. ImageChanges(a)
        BY <1>0, <1>8, <1>9 DEF ImageChanges
    <2>2. OthersAside(r, a)
        <3>. USE DEF OthersAside
        <3>. TAKE q \in Requests \ {r}
        <3>1. row = <<"asset", a>> /\ asset'[a] = "DELETED" /\ doing'[r].op \notin Uploading
            BY <1>p, <1>8, <1>11
        <3>2. /\ SameWork(doing'[q], doing[q]) /\ (doing'[q].op = "UPLOAD" => doing'[q].asset # a)
              /\ doing'[q].op = "PREPARE" => row \in doing'[q].written
            BY <1>6, <1>10
        <3>. QED BY <3>1, <3>2, Zenon
    <2>. QED BY <1>0, <1>11, <2>1, <2>2, ImagesChange
<1>13. \A q \in Requests \ W : SameWork(doing'[q], doing[q])
    BY <1>3, <1>6
<1>14. \A q \in W : /\ VersionOp(doing[q])' /\ doing'[q].op \notin {"CREATE", "UPDATE"}
                    /\ LaunchOp(doing[q])'
    BY <1>1, <1>4, <1>7, KnowsNothing
<1>15. VersionsInv'
    BY <1>3, <1>13, <1>14, VersionsStay DEF ArchiveAsset
<1>16. MessagesInv'
    BY <1>3, <1>13, <1>14, MessagesRest DEF ArchiveAsset
<1>. QED BY <1>6, <1>12, <1>15, <1>16 DEF ArchiveAsset, PrepareInv

-----------------------------------------------------------------------------
(* Templates. *)

(* Neither the images nor the messages change when a request works on versions. *)
LEMMA VersionStepRest ==
    ASSUME PrepareInv, NEW r \in Requests,
           \A q \in Requests \ {r} : SameWork(doing'[q], doing[q]),
           doing'[r].op \in {"IDLE", "CREATE", "UPDATE", "REVIEWED", "RESEND"},
           UNCHANGED <<event, invitation, asset, objects, snapshots, messages, failed, disowned>>
    PROVE  ImagesInv' /\ MessagesInv'
<1>. DEFINE W == {r}
<1>1. W \in SUBSET Requests /\ \A q \in Requests \ W : SameWork(doing'[q], doing[q])
    OBVIOUS
<1>2. \A q \in W : ImageOp(doing[q])' /\ doing'[q].op \notin Uploading /\ LaunchOp(doing[q])'
    BY KnowsNothing
<1>3. \A s \in snapshots' : s.asset # Nil => asset[s.asset] = "READY"
    BY DEF PrepareInv, ImagesInv
<1>. HIDE DEF W
<1>4. ImagesInv'
    BY <1>1, <1>2, <1>3, ImagesRest
<1>5. MessagesInv'
    BY <1>1, <1>2, MessagesRest
<1>. QED BY <1>4, <1>5

(* A request begins to work on versions, alone in its way. *)
LEMMA VersionsBegin ==
    ASSUME PrepareInv, UNCHANGED <<templates, snapshots>>, NEW r \in Requests,
           \A q \in Requests \ {r} : doing'[q] = doing[q], VersionOp(doing[r])',
           \A q \in Requests \ {r} : doing[q].op = doing'[r].op => doing[q].op \notin {"CREATE", "UPDATE"}
    PROVE  VersionsInv'
<1>0. VersionsInv
    BY DEF PrepareInv
<1>1. \A s \in snapshots' : SourceOK(s)'
    BY <1>0 DEF VersionsInv, SourceOK
<1>2. ASSUME NEW q \in Requests PROVE VersionOp(doing[q])'
    <2>1. CASE q = r
        BY <2>1
    <2>2. CASE q # r
        <3>1. VersionOp(doing[q]) /\ doing'[q] = doing[q]
            BY <1>0, <2>2 DEF VersionsInv
        <3>. QED BY <3>1 DEF VersionOp, SourceOK
    <2>. QED BY <2>1, <2>2
<1>. QED BY <1>0, <1>1, <1>2 DEF VersionsInv

(* The image of the first version is read. *)
LEMMA ReadForCreateStep ==
    ASSUME PreparationAssumption, PrepareInv, NEW r \in Requests, NEW a \in Assets \cup {Nil},
           ReadForCreate(r, a)
    PROVE  PrepareInv'
<1>1. /\ DOMAIN doing' = Requests /\ doing'[r] = [op |-> "CREATE", asset |-> a]
      /\ \A q \in Requests \ {r} : doing'[q] = doing[q] /\ SameWork(doing'[q], doing[q])
    BY OneDoes DEF ReadForCreate
<1>2. VersionOp(doing[r])' /\ doing'[r].op = "CREATE"
    BY <1>1 DEF VersionOp, ReadForCreate
<1>3. VersionsInv'
    BY <1>1, <1>2, VersionsBegin DEF ReadForCreate
<1>4. ImagesInv' /\ MessagesInv'
    BY <1>1, <1>2, VersionStepRest DEF ReadForCreate
<1>. QED BY <1>1, <1>3, <1>4 DEF ReadForCreate, PrepareInv

(* An update locks the family and reads the latest version. *)
LEMMA BeginUpdateStep ==
    ASSUME PreparationAssumption, PrepareInv, NEW r \in Requests, NEW a \in Assets \cup {Nil},
           BeginUpdate(r, a)
    PROVE  PrepareInv'
<1>p. PICK n, d : n = Len(templates) /\ d = (templates[n].status = "DRAFT")
    OBVIOUS
<1>1. /\ DOMAIN doing' = Requests
      /\ doing'[r] = [op |-> "UPDATE", version |-> n, asset |-> a, draft |-> d]
      /\ \A q \in Requests \ {r} : doing'[q] = doing[q] /\ SameWork(doing'[q], doing[q])
    BY <1>p, OneDoes DEF BeginUpdate
<1>2. n \in DOMAIN templates
    <2>1. n \in 1..(MaxVersions - 1) /\ n = Len(templates) /\ templates \in Seq(Version)
        BY <1>p DEF BeginUpdate, PrepareInv, VersionsInv
    <2>2. n \in 1..Len(templates)
        BY <2>1, MaxVersions \in Nat DEF PreparationAssumption
    <2>. QED BY <2>1, <2>2
<1>3. /\ doing'[r].op = "UPDATE" /\ doing'[r].version = n /\ doing'[r].asset = a
      /\ doing'[r].draft <=> templates[n].status = "DRAFT"
    <2>1. /\ doing'[r].op = "UPDATE" /\ doing'[r].version = n /\ doing'[r].asset = a /\ doing'[r].draft = d
        BY <1>1
    <2>2. d <=> templates[n].status = "DRAFT"
        BY <1>p, Zenon
    <2>. QED BY <2>1, <2>2
<1>4. VersionOp(doing[r])'
    BY <1>p, <1>2, <1>3 DEF VersionOp, BeginUpdate
<1>5. VersionsInv'
    <2>1. \A q \in Requests \ {r} : doing[q].op # doing'[r].op
        BY <1>3 DEF BeginUpdate, FamilyFree
    <2>. QED BY <1>1, <1>4, <2>1, VersionsBegin DEF BeginUpdate
<1>6. ImagesInv' /\ MessagesInv'
    BY <1>1, <1>3, VersionStepRest DEF BeginUpdate
<1>. QED BY <1>1, <1>5, <1>6 DEF BeginUpdate, PrepareInv

(* The first version is created: nothing refers to another. *)
LEMMA CreateTemplateStep ==
    ASSUME PreparationAssumption, PrepareInv, NEW r \in Requests, CreateTemplate(r)
    PROVE  PrepareInv'
<1>1. /\ DOMAIN doing' = Requests /\ doing'[r] = Nothing
      /\ \A q \in Requests \ {r} : doing'[q] = doing[q] /\ SameWork(doing'[q], doing[q])
      /\ VersionOp(doing[r])' /\ doing'[r].op \notin {"CREATE", "UPDATE"}
    BY Ended DEF CreateTemplate
<1>. PICK a, v : a = doing[r].asset /\ v = Draft(a)
    OBVIOUS
<1>2. templates = <<>> /\ v \in Version /\ templates' = <<v>>
    BY DEF CreateTemplate, Draft, Version, PrepareInv, VersionsInv, VersionOp
<1>3. /\ templates' \in Seq(Version) /\ Grow
      /\ \A n \in DOMAIN templates' : templates'[n].status = "DRAFT" => n = Len(templates')
    BY <1>2 DEF Grow
<1>4. ASSUME NEW q \in Requests \ {r} PROVE doing[q].op \notin {"CREATE", "UPDATE"}
    <2>1. VersionOp(doing[q]) /\ doing[q].op # "CREATE"
        BY DEF CreateTemplate, PrepareInv, VersionsInv
    <2>2. DOMAIN templates = {}
        BY <1>2
    <2>. QED BY <2>1, <2>2 DEF VersionOp
<1>. DEFINE W == {r}
<1>5. /\ W \in SUBSET Requests /\ \A q \in Requests \ W : SameWork(doing'[q], doing[q])
      /\ \A q \in Requests \ W : doing[q].op \notin {"CREATE", "UPDATE"}
      /\ \A q \in W : VersionOp(doing[q])' /\ doing'[q].op \notin {"CREATE", "UPDATE"}
    BY <1>1, <1>4
<1>6. \A s \in snapshots' : s \in snapshots \/ SourceOK(s)
    BY DEF CreateTemplate
<1>. HIDE DEF W
<1>7. VersionsInv'
    BY <1>3, <1>5, <1>6, VersionsRest
<1>8. ImagesInv' /\ MessagesInv'
    BY <1>1, VersionStepRest DEF CreateTemplate, Nothing
<1>. QED BY <1>1, <1>7, <1>8 DEF CreateTemplate, PrepareInv

(* A version that gets a status *)
WithStatus(n, s) == [templates EXCEPT ![n].status = s]

(* keeps its image, and the others keep theirs and their status. *)
LEMMA StatusSet ==
    ASSUME templates \in Seq(Version), NEW n \in DOMAIN templates, NEW s \in {"DRAFT", "APPROVED", "ARCHIVED"}
    PROVE  /\ WithStatus(n, s) \in Seq(Version) /\ Len(WithStatus(n, s)) = Len(templates)
           /\ DOMAIN WithStatus(n, s) = DOMAIN templates
           /\ WithStatus(n, s)[n].status = s
           /\ \A m \in DOMAIN templates : /\ WithStatus(n, s)[m].asset = templates[m].asset
                                          /\ m # n => WithStatus(n, s)[m] = templates[m]
<1>. PICK v, new : new = [templates[n] EXCEPT !.status = s] /\ v = WithStatus(n, s)
    OBVIOUS
<1>1. v = [templates EXCEPT ![n] = new]
    BY DEF WithStatus
<1>2. templates[n] \in Version
    OBVIOUS
<1>3. new \in Version /\ new.status = s /\ new.asset = templates[n].asset
    BY <1>2 DEF Version
<1>4. /\ v \in Seq(Version) /\ Len(v) = Len(templates) /\ DOMAIN v = DOMAIN templates /\ v[n] = new
      /\ \A m \in DOMAIN templates : m # n => v[m] = templates[m]
    BY <1>1, <1>3
<1>. QED BY <1>3, <1>4

(* Every request is told that a version is written. *)
LEMMA VersionWritten ==
    ASSUME PrepareInv, NEW n \in Nat, NEW t, doing' = Noting(t, <<"template", n>>),
           NEW W \in SUBSET Requests, \A q \in Requests \ W : t[q] = doing[q], \A q \in W : t[q] = Nothing,
           UNCHANGED <<event, invitation, asset, objects, snapshots, messages, failed, disowned>>
    PROVE  /\ ImagesInv' /\ MessagesInv' /\ DOMAIN doing' = Requests
           /\ \A q \in Requests \ W : SameWork(doing'[q], doing[q])
           /\ \A q \in W : VersionOp(doing[q])' /\ doing'[q].op \notin {"CREATE", "UPDATE"}
<1>1. <<"template", n>> \in Notes
    BY DEF Notes
<1>2. /\ DOMAIN doing' = Requests /\ \A q \in Requests : doing'[q] = Noted(t[q], <<"template", n>>)
      /\ \A q \in Requests : t[q] = doing[q] => SameWork(doing'[q], doing[q])
    BY <1>1, NotingKeeps
<1>3. \A q \in Requests \ W : SameWork(doing'[q], doing[q])
    BY <1>2
<1>4. \A q \in W : doing'[q].op = "IDLE"
    BY <1>2 DEF Noted, Nothing
<1>5. \A q \in W : /\ ImageOp(doing[q])' /\ doing'[q].op \notin Uploading /\ LaunchOp(doing[q])'
                   /\ VersionOp(doing[q])' /\ doing'[q].op \notin {"CREATE", "UPDATE"}
    BY <1>4, KnowsNothing
<1>6. \A s \in snapshots' : s.asset # Nil => asset[s.asset] = "READY"
    BY DEF PrepareInv, ImagesInv
<1>7. ImagesInv'
    BY <1>3, <1>5, <1>6, ImagesRest
<1>8. MessagesInv'
    BY <1>3, <1>5, MessagesRest
<1>. QED BY <1>2, <1>3, <1>5, <1>7, <1>8

(* The next version is written: the one before is not a draft any more. *)
LEMMA EndUpdateStep ==
    ASSUME PreparationAssumption, PrepareInv, NEW r \in Requests, EndUpdate(r)
    PROVE  PrepareInv'
<1>p. PICK n, a, d, t : n = doing[r].version /\ a = doing[r].asset /\ d = Draft(a) /\ t = Ends(r)
    OBVIOUS
<1>q. PICK base : base = IF doing[r].draft THEN WithStatus(n, "ARCHIVED") ELSE templates
    OBVIOUS
<1>0. /\ VersionsInv /\ doing[r].op = "UPDATE" /\ templates \in Seq(Version)
      /\ n \in DOMAIN templates /\ n = Len(templates) /\ a \in Assets \cup {Nil}
      /\ doing[r].draft <=> templates[n].status = "DRAFT"
      /\ \A m \in DOMAIN templates : templates[m].status = "DRAFT" => m = n
    BY <1>p DEF EndUpdate, PrepareInv, VersionsInv, VersionOp
<1>1. /\ base \in Seq(Version) /\ Len(base) = n /\ DOMAIN base = DOMAIN templates
      /\ \A m \in DOMAIN templates : /\ base[m].status # "DRAFT" /\ base[m].asset = templates[m].asset
    <2>1. CASE doing[r].draft
        <3>1. base = WithStatus(n, "ARCHIVED")
            BY <1>q, <2>1
        <3>. QED BY <1>0, <3>1, StatusSet
    <2>2. CASE ~doing[r].draft
        BY <1>0, <1>q, <2>2
    <2>. QED BY <2>1, <2>2
<1>2. d \in Version /\ templates' = Append(base, d)
    BY <1>p, <1>q, <1>0 DEF Draft, Version, EndUpdate, WithStatus
<1>3. /\ templates' \in Seq(Version) /\ Len(templates') = n + 1 /\ n \in Nat
      /\ \A m \in DOMAIN base : m \in DOMAIN templates' /\ templates'[m] = base[m]
      /\ \A m \in DOMAIN templates' : m \in DOMAIN base \/ m = n + 1
    BY <1>0, <1>1, <1>2
<1>4. Grow /\ \A m \in DOMAIN templates' : templates'[m].status = "DRAFT" => m = Len(templates')
    BY <1>0, <1>1, <1>3 DEF Grow
<1>. DEFINE W == {r}
<1>5. /\ W \in SUBSET Requests /\ \A q \in Requests \ W : t[q] = doing[q]
      /\ \A q \in W : t[q] = Nothing
    BY <1>p DEF Ends, PrepareInv
<1>6. \A q \in Requests \ W : doing[q].op \notin {"CREATE", "UPDATE"}
    <2>. TAKE q \in Requests \ W
    <2>1. VersionOp(doing[q]) /\ (doing[q].op = "UPDATE" => q = r)
        BY <1>0 DEF VersionsInv
    <2>2. templates # <<>>
        BY <1>0
    <2>. QED BY <2>1, <2>2 DEF VersionOp
<1>. HIDE DEF W
<1>7. doing' = Noting(t, <<"template", n>>) \/ doing' = Ends(r)
    BY <1>p DEF EndUpdate
<1>8. /\ ImagesInv' /\ MessagesInv' /\ DOMAIN doing' = Requests
      /\ \A q \in Requests \ W : SameWork(doing'[q], doing[q])
      /\ \A q \in W : VersionOp(doing[q])' /\ doing'[q].op \notin {"CREATE", "UPDATE"}
    <2>1. CASE doing' = Noting(t, <<"template", n>>)
        BY <1>3, <1>5, <2>1, VersionWritten DEF EndUpdate
    <2>2. CASE doing' = Ends(r)
        <3>1. /\ DOMAIN doing' = Requests /\ doing'[r] = Nothing
              /\ \A q \in Requests \ {r} : SameWork(doing'[q], doing[q])
              /\ VersionOp(doing[r])' /\ doing'[r].op \notin {"CREATE", "UPDATE"}
            BY <2>2, Ended
        <3>2. UNCHANGED <<event, invitation, asset, objects, snapshots, messages, failed, disowned>>
            BY DEF EndUpdate
        <3>3. doing'[r].op = "IDLE"
            BY <3>1 DEF Nothing
        <3>4. ImagesInv' /\ MessagesInv'
            BY <3>1, <3>2, <3>3, VersionStepRest
        <3>. QED BY <3>1, <3>4 DEF W
    <2>. QED BY <1>7, <2>1, <2>2
<1>9. \A s \in snapshots' : s \in snapshots \/ SourceOK(s)
    BY DEF EndUpdate
<1>10. VersionsInv'
    BY <1>3, <1>4, <1>5, <1>6, <1>8, <1>9, VersionsRest
<1>. QED BY <1>8, <1>10 DEF EndUpdate, PrepareInv

(* A version is approved or archived, while no update holds the family. *)
LEMMA StatusStep ==
    ASSUME PreparationAssumption, PrepareInv, NEW n \in DOMAIN templates, Approve(n) \/ ArchiveTemplate(n)
    PROVE  PrepareInv'
<1>s. PICK s \in {"APPROVED", "ARCHIVED"} : templates' = WithStatus(n, s)
    BY DEF Approve, ArchiveTemplate, WithStatus
<1>t. PICK t : t = doing
    OBVIOUS
<1>0. VersionsInv /\ templates \in Seq(Version) /\ n \in Nat
    BY DEF PrepareInv, VersionsInv
<1>1. /\ templates' \in Seq(Version) /\ Len(templates') = Len(templates) /\ DOMAIN templates' = DOMAIN templates
      /\ templates'[n].status = s
      /\ \A m \in DOMAIN templates : /\ templates'[m].asset = templates[m].asset
                                     /\ m # n => templates'[m] = templates[m]
    BY <1>s, <1>0, StatusSet
<1>2. Grow /\ \A m \in DOMAIN templates' : templates'[m].status = "DRAFT" => m = Len(templates')
    BY <1>s, <1>0, <1>1 DEF Grow, VersionsInv
<1>. DEFINE W == {}
<1>3. W \in SUBSET Requests /\ (\A q \in Requests \ W : t[q] = doing[q]) /\ (\A q \in W : t[q] = Nothing)
    BY <1>t
<1>4. \A q \in Requests \ W : doing[q].op \notin {"CREATE", "UPDATE"}
    <2>. TAKE q \in Requests \ W
    <2>1. VersionOp(doing[q]) /\ doing[q].op # "UPDATE" /\ templates # <<>>
        BY <1>0 DEF VersionsInv, FamilyFree, Approve, ArchiveTemplate
    <2>. QED BY <2>1 DEF VersionOp
<1>. HIDE DEF W
<1>5. doing' = Noting(t, <<"template", n>>)
    BY <1>t DEF Approve, ArchiveTemplate
<1>6. /\ ImagesInv' /\ MessagesInv' /\ DOMAIN doing' = Requests
      /\ \A q \in Requests \ W : SameWork(doing'[q], doing[q])
      /\ \A q \in W : VersionOp(doing[q])' /\ doing'[q].op \notin {"CREATE", "UPDATE"}
    BY <1>0, <1>3, <1>5, VersionWritten DEF Approve, ArchiveTemplate
<1>7. \A x \in snapshots' : x \in snapshots \/ SourceOK(x)
    BY DEF Approve, ArchiveTemplate
<1>8. VersionsInv'
    BY <1>1, <1>2, <1>3, <1>4, <1>6, <1>7, VersionsRest
<1>. QED BY <1>6, <1>8 DEF Approve, ArchiveTemplate, PrepareInv

-----------------------------------------------------------------------------
(* Snapshots. *)

(* A preparation reads an approved version and what is current of the invitations. *)
LEMMA BeginPrepareStep ==
    ASSUME PreparationAssumption, PrepareInv, NEW r \in Requests, NEW n \in DOMAIN templates,
           BeginPrepare(r, n)
    PROVE  PrepareInv'
<1>p. PICK a, S, x :
          /\ a = templates[n].asset
          /\ S = {Source(event, invitation, i, n, a) : i \in {j \in Invitations : ~invitation[j].cancelled}}
          /\ x = [op |-> "PREPARE", version |-> n, asset |-> a, sources |-> S, written |-> {}]
    OBVIOUS
<1>u. /\ templates[n].status = "APPROVED" /\ (a # Nil => asset[a] = "READY")
      /\ doing' = [doing EXCEPT ![r] = x]
      /\ UNCHANGED <<event, invitation, asset, objects, templates, snapshots,
                     messages, failed, disowned, changes, faults>>
    BY <1>p, Zenon DEF BeginPrepare
<1>0. /\ templates \in Seq(Version) /\ n \in Nat /\ event \in Texts
      /\ invitation \in [Invitations -> [text : Texts, members : Texts, cancelled : BOOLEAN]]
    BY DEF PrepareInv, VersionsInv, MessagesInv
<1>1. a \in Assets \cup {Nil}
    <2>1. templates[n] \in Version
        BY <1>0
    <2>. QED BY <1>p, <2>1 DEF Version
<1>2. \A s \in S : SourceOK(s) /\ s.asset = a
    <2>1. ASSUME NEW i \in Invitations, ~invitation[i].cancelled, NEW s,
                 s = Source(event, invitation, i, n, a)
          PROVE  SourceOK(s) /\ s.asset = a
        <3>1. invitation[i] \in [text : Texts, members : Texts, cancelled : BOOLEAN]
            BY <1>0
        <3>2. /\ invitation[i].text \in Texts /\ invitation[i].members \in Texts
              /\ invitation[i].cancelled = FALSE
            BY <2>1, <3>1
        <3>3. s \in SourceRow /\ s.cancelled = FALSE /\ s.version = n /\ s.asset = a
            BY <1>0, <1>1, <2>1, <3>2 DEF Source, SourceRow
        <3>. QED BY <1>p, <1>u, <3>3 DEF SourceOK
    <2>. QED BY <1>p, <2>1
<1>3. /\ x \in PrepareRow /\ x.op = "PREPARE" /\ x.asset = a /\ x.sources = S /\ x.written = {}
    BY <1>p, <1>0, <1>1, <1>2 DEF PrepareRow, SourceOK
<1>4. doing' = [doing EXCEPT ![r] = x]
    BY <1>u
<1>5. /\ DOMAIN doing' = Requests /\ doing'[r] = x
      /\ \A q \in Requests \ {r} : doing'[q] = doing[q] /\ SameWork(doing'[q], doing[q])
    BY <1>4, OneDoes
<1>6. VersionOp(doing[r])'
    BY <1>2, <1>3, <1>5, <1>u DEF VersionOp, SourceOK
<1>7. VersionsInv'
    BY <1>3, <1>5, <1>6, <1>u, VersionsBegin
<1>. DEFINE W == {r}
<1>8. W \in SUBSET Requests /\ \A q \in Requests \ W : SameWork(doing'[q], doing[q])
    BY <1>5
<1>9. \A q \in W : ImageOp(doing[q])' /\ doing'[q].op \notin Uploading /\ LaunchOp(doing[q])'
    BY <1>3, <1>5, <1>u DEF ImageOp, LaunchOp, Uploading, Entering, HasRead
<1>. HIDE DEF W
<1>10. \A s \in snapshots' : s.asset # Nil => asset[s.asset] = "READY"
    BY <1>u DEF PrepareInv, ImagesInv
<1>11. ImagesInv'
    BY <1>8, <1>9, <1>10, <1>u, ImagesRest
<1>12. MessagesInv'
    BY <1>8, <1>9, <1>u, MessagesRest
<1>. QED BY <1>5, <1>7, <1>11, <1>12, <1>u DEF PrepareInv

(* Its snapshots are saved: nobody has archived their image meanwhile. *)
LEMMA EndPrepareStep ==
    ASSUME PreparationAssumption, PrepareInv, NEW r \in Requests, EndPrepare(r)
    PROVE  PrepareInv'
<1>. PICK S, a : S = doing[r].sources /\ a = doing[r].asset
    OBVIOUS
<1>0. /\ VersionOp(doing[r]) /\ ImageOp(doing[r]) /\ doing[r].op = "PREPARE" /\ doing' = Ends(r)
      /\ snapshots' = snapshots \cup S
    BY DEF EndPrepare, PrepareInv, VersionsInv, ImagesInv
<1>1. \A s \in S : SourceOK(s) /\ s.asset = a
    BY <1>0 DEF VersionOp
<1>2. a # Nil => asset[a] = "READY"
    BY <1>0 DEF ImageOp, EndPrepare, Unserializable
<1>. DEFINE W == {r}
<1>3. /\ DOMAIN doing' = Requests /\ W \in SUBSET Requests
      /\ \A q \in Requests \ W : SameWork(doing'[q], doing[q])
      /\ \A q \in W : ImageOp(doing[q])' /\ doing'[q].op \notin Uploading
      /\ \A q \in W : VersionOp(doing[q])' /\ doing'[q].op \notin {"CREATE", "UPDATE"}
      /\ \A q \in W : LaunchOp(doing[q])'
    BY <1>0, Ended
<1>. HIDE DEF W
<1>4. \A s \in snapshots' : s.asset # Nil => asset[s.asset] = "READY"
    BY <1>0, <1>1, <1>2 DEF PrepareInv, ImagesInv
<1>5. ImagesInv'
    BY <1>3, <1>4, ImagesRest DEF EndPrepare
<1>6. VersionsInv'
    <2>1. Grow /\ templates' = templates
        BY DEF EndPrepare, Grow
    <2>2. /\ templates' \in Seq(Version)
          /\ \A n \in DOMAIN templates' : templates'[n].status = "DRAFT" => n = Len(templates')
        BY <2>1 DEF PrepareInv, VersionsInv
    <2>3. \A s \in snapshots' : s \in snapshots \/ SourceOK(s)
        BY <1>0, <1>1
    <2>. QED BY <1>3, <2>1, <2>2, <2>3, VersionsRest
<1>7. MessagesInv'
    BY <1>0, <1>3, MessagesRest DEF EndPrepare
<1>. QED BY <1>3, <1>5, <1>6, <1>7 DEF EndPrepare, PrepareInv

(* A preparation that cannot be serialized adds nothing. *)
LEMMA AbortPrepareStep ==
    ASSUME PreparationAssumption, PrepareInv, NEW r \in Requests, AbortPrepare(r)
    PROVE  PrepareInv'
<1>1. /\ DOMAIN doing' = Requests /\ doing'[r] = Nothing
      /\ \A q \in Requests \ {r} : SameWork(doing'[q], doing[q])
      /\ VersionOp(doing[r])' /\ doing'[r].op \notin {"CREATE", "UPDATE"}
    BY Ended DEF AbortPrepare
<1>. DEFINE W == {r}
<1>2. /\ W \in SUBSET Requests /\ \A q \in Requests \ W : SameWork(doing'[q], doing[q])
      /\ \A q \in W : VersionOp(doing[q])' /\ doing'[q].op \notin {"CREATE", "UPDATE"}
    BY <1>1
<1>. HIDE DEF W
<1>3. VersionsInv'
    BY <1>2, VersionsStay DEF AbortPrepare
<1>4. ImagesInv' /\ MessagesInv'
    BY <1>1, VersionStepRest DEF AbortPrepare, Nothing
<1>. QED BY <1>1, <1>3, <1>4 DEF AbortPrepare, PrepareInv

-----------------------------------------------------------------------------
(* Launching and resending. *)

(* A request that reviews, or that launches, writes nothing. *)
LEMMA OnlyReads ==
    ASSUME PrepareInv, NEW r \in Requests, NEW x, doing' = [doing EXCEPT ![r] = x],
           x.op \in {"REVIEWED", "RESEND", "LAUNCH", "LAUNCH_LOCKED", "LAUNCH_READ", "RESEND_READ"},
           LaunchOp(x),
           UNCHANGED <<event, invitation, asset, objects, templates, snapshots, messages, failed, disowned,
                       changes, faults>>
    PROVE  PrepareInv'
<1>1. /\ DOMAIN doing' = Requests /\ doing'[r] = x
      /\ \A q \in Requests \ {r} : SameWork(doing'[q], doing[q])
    BY OneDoes
<1>2. /\ ImageOp(doing[r])' /\ doing'[r].op \notin Uploading
      /\ VersionOp(doing[r])' /\ doing'[r].op \notin {"CREATE", "UPDATE"}
    BY <1>1, KnowsNothing
<1>3. LaunchOp(doing[r])'
    BY <1>1 DEF LaunchOp, OneEach
<1>. DEFINE W == {r}
<1>4. /\ W \in SUBSET Requests /\ \A q \in Requests \ W : SameWork(doing'[q], doing[q])
      /\ \A q \in W : ImageOp(doing[q])' /\ doing'[q].op \notin Uploading
      /\ \A q \in W : VersionOp(doing[q])' /\ doing'[q].op \notin {"CREATE", "UPDATE"}
      /\ \A q \in W : LaunchOp(doing[q])'
    BY <1>1, <1>2, <1>3
<1>. HIDE DEF W
<1>5. \A s \in snapshots' : s.asset # Nil => asset[s.asset] = "READY"
    BY DEF PrepareInv, ImagesInv
<1>6. ImagesInv'
    BY <1>4, <1>5, ImagesRest
<1>7. VersionsInv'
    BY <1>4, VersionsStay
<1>8. MessagesInv'
    BY <1>4, MessagesRest
<1>. QED BY <1>1, <1>6, <1>7, <1>8 DEF PrepareInv

(* The host reviews a launch or a resend. *)
LEMMA ReviewStep ==
    ASSUME PrepareInv, NEW r \in Requests,
           \/ \E n \in DOMAIN templates : Review(r, n)
           \/ \E i \in Invitations : \E k \in DOMAIN messages[i] : ReviewResend(r, i, k)
    PROVE  PrepareInv'
<1>1. PICK x : doing' = [doing EXCEPT ![r] = x] /\ x.op \in {"REVIEWED", "RESEND"}
    <2>1. CASE \E n \in DOMAIN templates : Review(r, n)
        <3>0. PICK n \in DOMAIN templates : Review(r, n)
            BY <2>1
        <3>1. PICK y : y = [op |-> "REVIEWED", token |-> Selection(event, n)]
            OBVIOUS
        <3>2. y.op = "REVIEWED"
            BY <3>1
        <3>3. doing' = [doing EXCEPT ![r] = y]
            BY <3>0, <3>1 DEF Review
        <3>. QED BY <3>2, <3>3
    <2>2. CASE \E i \in Invitations : \E k \in DOMAIN messages[i] : ReviewResend(r, i, k)
        <3>0. PICK i \in Invitations : \E k \in DOMAIN messages[i] : ReviewResend(r, i, k)
            BY <2>2
        <3>k. PICK k \in DOMAIN messages[i] : ReviewResend(r, i, k)
            BY <3>0
        <3>1. PICK y : y = [op |-> "RESEND", invitation |-> i, message |-> k,
                            token |-> [sources |-> Resendable(i, k)]]
            OBVIOUS
        <3>2. y.op = "RESEND"
            BY <3>1
        <3>3. doing' = [doing EXCEPT ![r] = y]
            BY <3>k, <3>1 DEF ReviewResend
        <3>. QED BY <3>2, <3>3
    <2>. QED BY <2>1, <2>2
<1>2. UNCHANGED <<event, invitation, asset, objects, templates, snapshots, messages, failed, disowned,
                  changes, faults>>
    BY DEF Review, ReviewResend
<1>3. LaunchOp(x)
    BY <1>1 DEF LaunchOp, Entering, HasRead
<1>. QED BY <1>1, <1>2, <1>3, OnlyReads

(* A launch locks the event, *)
LEMMA BeginLaunchStep ==
    ASSUME PrepareInv, NEW r \in Requests, BeginLaunch(r)
    PROVE  PrepareInv'
<1>1. PICK x, t : t = doing[r].token /\ x = [op |-> "LAUNCH", token |-> t, event |-> event]
    OBVIOUS
<1>2. LaunchOp(x) /\ x.op = "LAUNCH"
    BY <1>1 DEF LaunchOp, HasRead
<1>3. doing' = [doing EXCEPT ![r] = x]
    BY <1>1 DEF BeginLaunch
<1>. QED BY <1>2, <1>3, OnlyReads DEF BeginLaunch

(* and then the template. *)
LEMMA LockTemplateStep ==
    ASSUME PrepareInv, NEW r \in Requests, LockTemplate(r)
    PROVE  PrepareInv'
<1>1. PICK x, y, t : y = doing[r] /\ t = y.token /\ x = [y EXCEPT !.op = "LAUNCH_LOCKED"]
    OBVIOUS
<1>2. y = [op |-> "LAUNCH", token |-> t, event |-> event]
    BY <1>1 DEF LockTemplate, PrepareInv, MessagesInv, LaunchOp, Entering
<1>3. x = [op |-> "LAUNCH_LOCKED", token |-> t, event |-> event]
    BY <1>1, <1>2
<1>4. LaunchOp(x) /\ x.op = "LAUNCH_LOCKED"
    BY <1>3 DEF LaunchOp, HasRead
<1>5. doing' = [doing EXCEPT ![r] = x]
    BY <1>1 DEF LockTemplate
<1>. QED BY <1>4, <1>5, OnlyReads DEF LockTemplate

(* The sequence of no source, and of one. *)
LEMMA Singles ==
    /\ SetToSeq({}) = <<>>
    /\ \A x : SetToSeq({x}) = <<x>>
<1>1. SetToSeq({}) = <<>>
    <2>1. Cardinality({}) = 0
        BY FS_EmptySet
    <2>2. 1..0 = {}
        OBVIOUS
    <2>3. \A f \in [{} -> {}] : f = <<>>
        OBVIOUS
    <2>4. \E f \in [1..Cardinality({}) -> {}] : IsInjective(f)
        <3>1. <<>> \in [{} -> {}] /\ IsInjective(<<>>)
            BY DEF IsInjective
        <3>. QED BY <2>1, <2>2, <3>1
    <2>5. SetToSeq({}) \in [1..Cardinality({}) -> {}]
        BY <2>4 DEF SetToSeq
    <2>. QED BY <2>1, <2>2, <2>3, <2>5
<1>2. ASSUME NEW x PROVE SetToSeq({x}) = <<x>>
    <2>1. Cardinality({x}) = 1
        BY FS_Singleton
    <2>2. 1..1 = {1}
        OBVIOUS
    <2>3. <<x>> \in [1..1 -> {x}] /\ IsInjective(<<x>>)
        BY <2>2 DEF IsInjective
    <2>4. SetToSeq({x}) \in [1..1 -> {x}]
        BY <2>1, <2>3 DEF SetToSeq
    <2>. QED BY <2>2, <2>4
<1>. QED BY <1>1, <1>2

(* What is sent comes last in its invitation, and the others get nothing. *)
Delivered(S) ==
    /\ \A i \in Invitations : messages'[i] # messages[i] => \E s \in S : s.invitation = i
    /\ \A s \in S : /\ s.invitation \in Invitations
                    /\ messages'[s.invitation] # messages[s.invitation]
                    /\ messages'[s.invitation] = Append(messages[s.invitation], s)
                    /\ Last(messages'[s.invitation]) = s

(* A step that sends does so, and every message is still of a snapshot. *)
LEMMA SendsOneEach ==
    ASSUME PrepareInv, NEW S, OneEach(S), Sends(S), UNCHANGED snapshots
    PROVE  /\ Delivered(S)
           /\ messages' \in [Invitations -> Seq(SourceRow)]
           /\ \A i \in Invitations : \A k \in DOMAIN messages'[i] :
                 messages'[i][k] \in snapshots' /\ messages'[i][k].invitation = i
           /\ \A i \in Invitations : messages[i] # <<>> => messages'[i] # <<>>
<1>0. /\ messages \in [Invitations -> Seq(SourceRow)]
      /\ \A i \in Invitations : \A k \in DOMAIN messages[i] :
            messages[i][k] \in snapshots /\ messages[i][k].invitation = i
    BY DEF PrepareInv, MessagesInv
<1>1. \A s \in S : s \in snapshots /\ s \in SourceRow /\ s.invitation \in Invitations
    BY DEF OneEach, PrepareInv, VersionsInv, SourceOK, SourceRow
<1>2. /\ DOMAIN messages' = Invitations
      /\ \A i \in Invitations : messages'[i] = messages[i] \o SetToSeq({s \in S : s.invitation = i})
    BY DEF Sends
<1>3. ASSUME NEW i \in Invitations, \A s \in S : s.invitation # i
      PROVE  messages'[i] = messages[i]
    <2>1. {s \in S : s.invitation = i} = {}
        BY <1>3
    <2>2. messages'[i] = messages[i] \o <<>>
        BY <1>2, <2>1, Singles
    <2>. QED BY <1>0, <2>2
<1>4. ASSUME NEW s \in S
      PROVE  messages'[s.invitation] = Append(messages[s.invitation], s)
    <2>1. {t \in S : t.invitation = s.invitation} = {s}
        BY DEF OneEach
    <2>2. messages'[s.invitation] = messages[s.invitation] \o <<s>>
        BY <1>1, <1>2, <2>1, Singles
    <2>3. messages[s.invitation] \in Seq(SourceRow) /\ s \in SourceRow
        BY <1>0, <1>1
    <2>. QED BY <2>2, <2>3
<1>5. ASSUME NEW i \in Invitations
      PROVE  \/ messages'[i] = messages[i]
             \/ \E s \in S : s.invitation = i /\ messages'[i] = Append(messages[i], s)
    BY <1>3, <1>4
<1>6. ASSUME NEW i \in Invitations
      PROVE  /\ messages'[i] \in Seq(SourceRow)
             /\ \A k \in DOMAIN messages'[i] : messages'[i][k] \in snapshots' /\ messages'[i][k].invitation = i
             /\ messages[i] # <<>> => messages'[i] # <<>>
    <2>1. messages[i] \in Seq(SourceRow)
        BY <1>0
    <2>2. CASE messages'[i] = messages[i]
        BY <1>0, <2>1, <2>2
    <2>3. ASSUME NEW s \in S, s.invitation = i, messages'[i] = Append(messages[i], s)
          PROVE  /\ messages'[i] \in Seq(SourceRow) /\ messages'[i] # <<>>
                 /\ \A k \in DOMAIN messages'[i] : messages'[i][k] \in snapshots' /\ messages'[i][k].invitation = i
        <3>1. s \in SourceRow /\ s \in snapshots'
            BY <1>1
        <3>2. messages'[i] \in Seq(SourceRow) /\ messages'[i] # <<>>
            BY <2>1, <2>3, <3>1
        <3>3. \A k \in DOMAIN messages'[i] : \/ messages'[i][k] = s
                                             \/ k \in DOMAIN messages[i] /\ messages'[i][k] = messages[i][k]
            BY <2>1, <2>3, <3>1
        <3>. QED BY <1>0, <2>3, <3>1, <3>2, <3>3
    <2>. QED BY <1>5, <2>2, <2>3
<1>7. ASSUME NEW s \in S
      PROVE  messages'[s.invitation] # messages[s.invitation] /\ Last(messages'[s.invitation]) = s
    <2>1. messages[s.invitation] \in Seq(SourceRow) /\ s \in SourceRow
        BY <1>0, <1>1
    <2>. QED BY <1>4, <2>1 DEF Last
<1>8. Delivered(S)
    BY <1>1, <1>3, <1>4, <1>7 DEF Delivered
<1>9. messages' \in [Invitations -> Seq(SourceRow)]
    BY <1>2, <1>6 DEF Sends
<1>. QED BY <1>6, <1>8, <1>9

(* The sources of a selection are current, of invitations that were sent nothing. *)
LEMMA Selected ==
    ASSUME NEW text, NEW n, NEW S, S = Selection(text, n).sources
    PROVE  /\ OneEach(S)
           /\ \A s \in S : /\ s.invitation \in Invitations /\ ~invitation[s.invitation].cancelled
                           /\ s.version = n /\ templates[n].status = "APPROVED"
                           /\ s = Current(text, s.invitation, n)
<1>1. /\ S \subseteq snapshots
      /\ \A s \in S : /\ templates[n].status = "APPROVED"
                      /\ \E i \in Invitations : ~invitation[i].cancelled /\ s = Current(text, i, n)
    BY DEF Selection
<1>2. \A i \in Invitations : /\ Current(text, i, n).invitation = i
                             /\ Current(text, i, n).version = n
    BY DEF Current, Source
<1>. QED BY <1>1, <1>2 DEF OneEach

(* What a resend sends is current and of a snapshot, so of an invitation that *)
(* is not cancelled.                                                       *)
LEMMA ResendableIs ==
    ASSUME PrepareInv, NEW i, NEW k, NEW S, S = Resendable(i, k)
    PROVE  /\ OneEach(S)
           /\ \A s \in S : /\ s.invitation = i /\ i \in Invitations /\ ~invitation[i].cancelled
                           /\ templates[s.version].status = "APPROVED"
                           /\ s.version = messages[i][k].version
                           /\ s = Current(event, i, s.version)
<1>. PICK n, c : n = messages[i][k].version /\ c = Current(event, i, n)
    OBVIOUS
<1>1. /\ c.invitation = i /\ c.version = n /\ c.cancelled = invitation[i].cancelled
    BY DEF Current, Source
<1>2. S \subseteq {c} \cap snapshots /\ (S # {} => templates[n].status = "APPROVED")
    BY DEF Resendable
<1>3. \A s \in snapshots : s.cancelled = FALSE /\ s.invitation \in Invitations
    BY DEF PrepareInv, VersionsInv, SourceOK, SourceRow
<1>. QED BY <1>1, <1>2, <1>3 DEF OneEach

(* A source is what the row of its invitation, the event and an approved   *)
(* version say; what the members are is not asked.                         *)
StillTrue(s) ==
    /\ s.text = invitation[s.invitation].text
    /\ invitation[s.invitation].cancelled = FALSE
    /\ s.event = event
    /\ templates[s.version].status = "APPROVED"

(* What is about to be sent is so, and it is of rows that are locked. *)
Upheld(x) == \A s \in x.sources :
    s.invitation \in x.locked /\ s.version = x.version /\ StillTrue(s)

(* A launch reads what it will send, if that is what the host confirmed:   *)
(* the event is the one it has read.                                       *)
LEMMA SelectionIsRead ==
    ASSUME PrepareInv, NEW r \in Requests, ReadSelection(r)
    PROVE  /\ DOMAIN doing' = Requests
           /\ \A q \in Requests \ {r} : SameWork(doing'[q], doing[q])
           /\ \/ doing' = Ends(r)
              \/ \E x : /\ doing' = [doing EXCEPT ![r] = x] /\ x.op = "LAUNCH_READ"
                        /\ LaunchOp(x) /\ Upheld(x)
<1>p. PICK text, n, token, chosen, S, x :
          /\ text = doing[r].event /\ token = doing[r].token /\ n = doing[r].token.version
          /\ chosen = Selection(text, n) /\ S = chosen.sources
          /\ x = [op |-> "LAUNCH_READ", token |-> token, version |-> n, locked |-> chosen.live,
                  sources |-> S]
    OBVIOUS
<1>u. /\ doing[r].op = "LAUNCH_LOCKED"
      /\ doing' = Ends(r) \/ (token = chosen /\ doing' = [doing EXCEPT ![r] = x])
    BY <1>p DEF ReadSelection, Confirmed
<1>1. text = event
    BY <1>p, <1>u DEF PrepareInv, MessagesInv, LaunchOp, Entering
<1>2. /\ OneEach(S)
      /\ \A s \in S : /\ s.invitation \in Invitations /\ ~invitation[s.invitation].cancelled
                      /\ s.version = n /\ templates[n].status = "APPROVED"
                      /\ s = Current(text, s.invitation, n)
    BY <1>p, Selected
<1>3. /\ x.op = "LAUNCH_READ" /\ x.token = token /\ x.version = n /\ x.sources = S
      /\ x.locked = chosen.live
    BY <1>p
<1>4. chosen.live = {i \in Invitations : ~invitation[i].cancelled}
    BY <1>p DEF Selection
<1>5. ASSUME token = chosen PROVE LaunchOp(x)
    <2>1. x.sources = x.token.sources
        BY <1>p, <1>3, <1>5
    <2>. QED BY <1>2, <1>3, <2>1 DEF LaunchOp, Entering, HasRead
<1>6. Upheld(x)
    <2>1. ASSUME NEW s \in S
          PROVE  s.invitation \in x.locked /\ s.version = x.version /\ StillTrue(s)
        <3>1. /\ s.text = invitation[s.invitation].text /\ s.event = event
              /\ s.cancelled = invitation[s.invitation].cancelled
            BY <1>1, <1>2 DEF Current, Source
        <3>2. s.cancelled = FALSE
            BY <1>2 DEF OneEach, PrepareInv, VersionsInv, SourceOK
        <3>. QED BY <1>2, <1>3, <1>4, <3>1, <3>2 DEF StillTrue
    <2>. QED BY <1>3, <2>1 DEF Upheld
<1>7. /\ DOMAIN doing' = Requests
      /\ \A q \in Requests \ {r} : SameWork(doing'[q], doing[q])
    BY <1>u, OneDoes, Ended
<1>. QED BY <1>u, <1>3, <1>5, <1>6, <1>7

(* So does a resend. *)
LEMMA ResendIsRead ==
    ASSUME PrepareInv, NEW r \in Requests, ReadResend(r)
    PROVE  /\ DOMAIN doing' = Requests
           /\ \A q \in Requests \ {r} : SameWork(doing'[q], doing[q])
           /\ \/ doing' = Ends(r)
              \/ \E x : /\ doing' = [doing EXCEPT ![r] = x] /\ x.op = "RESEND_READ"
                        /\ LaunchOp(x) /\ Upheld(x)
<1>p. PICK i, k, n, token, S, x :
          /\ i = doing[r].invitation /\ k = doing[r].message /\ n = messages[i][k].version
          /\ token = doing[r].token /\ S = Resendable(i, k)
          /\ x = [op |-> "RESEND_READ", invitation |-> i, message |-> k, token |-> token,
                  version |-> n, locked |-> {i}, sources |-> S]
    OBVIOUS
<1>u. doing' = Ends(r) \/ (token.sources = S /\ doing' = [doing EXCEPT ![r] = x])
    BY <1>p DEF ReadResend, Confirmed
<1>2. /\ OneEach(S)
      /\ \A s \in S : /\ s.invitation = i /\ i \in Invitations /\ ~invitation[i].cancelled
                      /\ templates[s.version].status = "APPROVED" /\ s.version = n
                      /\ s = Current(event, i, s.version)
    BY <1>p, ResendableIs
<1>3. /\ x.op = "RESEND_READ" /\ x.token = token /\ x.version = n /\ x.sources = S
      /\ x.locked = {i}
    BY <1>p
<1>5. ASSUME token.sources = S PROVE LaunchOp(x)
    BY <1>2, <1>3, <1>5 DEF LaunchOp, Entering, HasRead
<1>6. Upheld(x)
    <2>1. ASSUME NEW s \in S
          PROVE  s.invitation \in x.locked /\ s.version = x.version /\ StillTrue(s)
        <3>1. /\ s.text = invitation[s.invitation].text /\ s.event = event
              /\ s.cancelled = invitation[s.invitation].cancelled
            BY <1>2 DEF Current, Source
        <3>2. s.cancelled = FALSE
            BY <1>2 DEF OneEach, PrepareInv, VersionsInv, SourceOK
        <3>. QED BY <1>2, <1>3, <3>1, <3>2 DEF StillTrue
    <2>. QED BY <1>3, <2>1 DEF Upheld
<1>7. /\ DOMAIN doing' = Requests
      /\ \A q \in Requests \ {r} : SameWork(doing'[q], doing[q])
    BY <1>u, OneDoes, Ended
<1>. QED BY <1>u, <1>3, <1>5, <1>6, <1>7

(* A request that reads what it sends writes nothing; one that is refused  *)
(* ends.                                                                   *)
LEMMA ReadStep ==
    ASSUME PrepareInv, NEW r \in Requests, ReadSelection(r) \/ ReadResend(r)
    PROVE  PrepareInv'
<1>1. UNCHANGED <<event, invitation, asset, objects, templates, snapshots, messages, failed, disowned,
                  changes, faults>>
    BY Zenon DEF ReadSelection, ReadResend
<1>2. CASE doing' = Ends(r)
    <2>1. ImagesInv'
        <3>1. \A q \in {r} : ImageOp(doing[q])' /\ doing'[q].op \notin Uploading
            BY <1>2, Ended
        <3>2. \A q \in Requests \ {r} : SameWork(doing'[q], doing[q])
            BY <1>2, Ended
        <3>3. \A s \in snapshots' : s.asset # Nil => asset[s.asset] = "READY"
            BY <1>1 DEF PrepareInv, ImagesInv
        <3>. QED BY <1>1, <3>1, <3>2, <3>3, ImagesRest, {r} \in SUBSET Requests
    <2>2. faults' \in 0..MaxFaults
        BY <1>1 DEF PrepareInv
    <2>. QED BY <1>1, <1>2, <2>1, <2>2, ImageStepEnds
<1>3. CASE \E x : /\ doing' = [doing EXCEPT ![r] = x] /\ x.op \in {"LAUNCH_READ", "RESEND_READ"}
                  /\ LaunchOp(x)
    BY <1>1, <1>3, OnlyReads
<1>. QED BY <1>2, <1>3, SelectionIsRead, ResendIsRead

(* The request of a launch or a resend ends with its messages. *)
LEMMA SendingStep ==
    ASSUME PrepareInv, NEW r \in Requests, CreateBatch(r) \/ Resend(r)
    PROVE  PrepareInv'
<1>0. MessagesInv /\ doing' = Ends(r) /\ failed' \subseteq failed
      /\ UNCHANGED <<event, invitation, asset, objects, templates, snapshots, disowned, changes, faults>>
      /\ doing[r].op \in HasRead /\ Sends(doing[r].sources)
    BY DEF CreateBatch, Resend, PrepareInv, HasRead
<1>1. /\ DOMAIN doing' = Requests /\ doing'[r] = Nothing
      /\ \A q \in Requests \ {r} : SameWork(doing'[q], doing[q]) /\ doing'[q] = doing[q]
      /\ ImageOp(doing[r])' /\ doing'[r].op \notin Uploading
      /\ VersionOp(doing[r])' /\ doing'[r].op \notin {"CREATE", "UPDATE"}
      /\ LaunchOp(doing[r])'
    BY <1>0, Ended
<1>. DEFINE W == {r}
<1>2. /\ W \in SUBSET Requests /\ \A q \in Requests \ W : SameWork(doing'[q], doing[q])
      /\ \A q \in W : ImageOp(doing[q])' /\ doing'[q].op \notin Uploading
      /\ \A q \in W : VersionOp(doing[q])' /\ doing'[q].op \notin {"CREATE", "UPDATE"}
    BY <1>1
<1>. HIDE DEF W
<1>3. \A s \in snapshots' : s.asset # Nil => asset[s.asset] = "READY"
    BY <1>0 DEF PrepareInv, ImagesInv
<1>4. ImagesInv'
    BY <1>0, <1>2, <1>3, ImagesRest
<1>5. VersionsInv'
    BY <1>0, <1>2, VersionsStay
<1>6. \A q \in Requests : LaunchOp(doing[q])'
    <2>1. ASSUME NEW q \in Requests, q # r PROVE LaunchOp(doing[q])'
        <3>1. doing'[q] = doing[q] /\ event' = event
            BY <1>0, <1>1, <2>1
        <3>2. LaunchOp(doing[q])
            BY <1>0 DEF MessagesInv
        <3>. QED BY <1>0, <3>1, <3>2 DEF LaunchOp, OneEach
    <2>. QED BY <1>1, <2>1
<1>7. /\ messages' \in [Invitations -> Seq(SourceRow)]
      /\ \A i \in Invitations : \A k \in DOMAIN messages'[i] :
            messages'[i][k] \in snapshots' /\ messages'[i][k].invitation = i
      /\ \A i \in Invitations : messages[i] # <<>> => messages'[i] # <<>>
    <2>1. OneEach(doing[r].sources)
        BY <1>0 DEF MessagesInv, LaunchOp
    <2>. QED BY <1>0, <2>1, SendsOneEach
<1>8. MessagesInv'
    BY <1>0, <1>6, <1>7 DEF MessagesInv
<1>. QED BY <1>0, <1>1, <1>4, <1>5, <1>8 DEF PrepareInv

(* A message fails for good. *)
LEMMA MessageFailsStep ==
    ASSUME PreparationAssumption, PrepareInv, NEW i \in Invitations, MessageFails(i)
    PROVE  PrepareInv'
<1>1. messages[i] # <<>>
    <2>1. Len(messages[i]) \in 1..(MaxMessages - 1)
        BY DEF MessageFails
    <2>. QED BY <2>1, MaxMessages \in Nat DEF PreparationAssumption
<1>2. ImagesInv' /\ VersionsInv'
    BY DEF MessageFails, PrepareInv, ImagesInv, VersionsInv, ImageOp, VersionOp, SourceOK
<1>3. MessagesInv'
    BY <1>1 DEF MessageFails, PrepareInv, MessagesInv, LaunchOp, OneEach
<1>. QED BY <1>2, <1>3 DEF MessageFails, PrepareInv

-----------------------------------------------------------------------------
(* Edits. *)

(* Every preparation is told of the edit; no launch has read what it changes. *)
LEMMA EditStep ==
    ASSUME PreparationAssumption, PrepareInv,
           ChangeEvent \/ \E i \in Invitations : EditInvitation(i) \/ EditMembers(i) \/ CancelInvitation(i)
    PROVE  PrepareInv'
<1>t. PICK t : t = doing
    OBVIOUS
<1>p. PICK row \in Notes : doing' = Noting(t, row)
    BY <1>t DEF ChangeEvent, EditInvitation, EditMembers, CancelInvitation, Notes
<1>0. /\ MessagesInv /\ changes' \in 0..MaxChanges
      /\ UNCHANGED <<asset, objects, templates, snapshots, messages, failed, disowned, faults>>
    <2>1. changes \in 0..MaxChanges /\ changes < MaxChanges /\ changes' = changes + 1 /\ MaxChanges \in Nat
        BY DEF ChangeEvent, EditInvitation, EditMembers, CancelInvitation, Change, PrepareInv, PreparationAssumption
    <2>2. /\ MessagesInv
          /\ UNCHANGED <<asset, objects, templates, snapshots, messages, failed, disowned, faults>>
        BY DEF ChangeEvent, EditInvitation, EditMembers, CancelInvitation, PrepareInv
    <2>. QED BY <2>1, <2>2
<1>1. DOMAIN doing' = Requests /\ \A q \in Requests : SameWork(doing'[q], doing[q])
    BY <1>p, <1>t, NotingKeeps
<1>. DEFINE W == {}
<1>2. /\ W \in SUBSET Requests /\ \A q \in Requests \ W : SameWork(doing'[q], doing[q])
      /\ \A q \in W : ImageOp(doing[q])' /\ doing'[q].op \notin Uploading
      /\ \A q \in W : VersionOp(doing[q])' /\ doing'[q].op \notin {"CREATE", "UPDATE"}
    BY <1>1
<1>. HIDE DEF W
<1>3. \A s \in snapshots' : s.asset # Nil => asset[s.asset] = "READY"
    BY <1>0 DEF PrepareInv, ImagesInv
<1>4. ImagesInv'
    BY <1>0, <1>2, <1>3, ImagesRest
<1>5. VersionsInv'
    BY <1>0, <1>2, VersionsStay
<1>6. event' \in Texts /\ invitation' \in [Invitations -> [text : Texts, members : Texts, cancelled : BOOLEAN]]
    <2>1. /\ event \in {0, 1}
          /\ invitation \in [Invitations -> [text : {0, 1}, members : {0, 1}, cancelled : BOOLEAN]]
        BY <1>0 DEF MessagesInv, Texts
    <2>2. CASE ChangeEvent
        BY <2>1, <2>2 DEF ChangeEvent, Texts
    <2>3. ASSUME NEW i \in Invitations, EditInvitation(i) \/ EditMembers(i) \/ CancelInvitation(i)
          PROVE  event' \in Texts /\ invitation' \in [Invitations -> [text : Texts, members : Texts, cancelled : BOOLEAN]]
        <3>1. PICK x : x = invitation[i]
            OBVIOUS
        <3>x. /\ x \in [text : {0, 1}, members : {0, 1}, cancelled : BOOLEAN]
              /\ 1 - x.text \in {0, 1} /\ 1 - x.members \in {0, 1}
            BY <2>1, <3>1
        <3>2. PICK y \in [text : {0, 1}, members : {0, 1}, cancelled : BOOLEAN] :
                  invitation' = [invitation EXCEPT ![i] = y]
            <4>1. CASE EditInvitation(i)
                <5>1. PICK m \in {0, 1} :
                          invitation' = [invitation EXCEPT ![i] = [x EXCEPT !.text = 1 - x.text, !.members = m]]
                    BY <3>1, <4>1 DEF EditInvitation, Texts
                <5>. QED BY <3>x, <5>1
            <4>2. CASE EditMembers(i)
                <5>1. invitation' = [invitation EXCEPT ![i] = [x EXCEPT !.members = 1 - x.members]]
                    BY <3>1, <4>2 DEF EditMembers
                <5>. QED BY <3>x, <5>1
            <4>3. CASE CancelInvitation(i)
                <5>1. invitation' = [invitation EXCEPT ![i] = [x EXCEPT !.cancelled = TRUE]]
                    BY <3>1, <4>3 DEF CancelInvitation
                <5>. QED BY <3>x, <5>1
            <4>. QED BY <2>3, <4>1, <4>2, <4>3
        <3>3. event' = event
            BY <2>3 DEF EditInvitation, EditMembers, CancelInvitation
        <3>. QED BY <2>1, <3>2, <3>3 DEF Texts
    <2>. QED BY <2>2, <2>3
<1>7. ASSUME NEW q \in Requests PROVE LaunchOp(doing[q])'
    <2>1. LaunchOp(doing[q]) /\ SameWork(doing'[q], doing[q])
        BY <1>0, <1>1 DEF MessagesInv
    <2>2. doing'[q].op \in Entering \cup HasRead => doing'[q] = doing[q]
        BY <2>1 DEF SameWork, Entering, HasRead
    <2>3. doing[q].op \in Entering => event' = event
        BY DEF ChangeEvent, EditInvitation, EditMembers, CancelInvitation, EventFree, Launching, Entering
    <2>. QED BY <1>0, <2>1, <2>2, <2>3 DEF LaunchOp, OneEach
<1>8. MessagesInv'
    BY <1>0, <1>6, <1>7 DEF MessagesInv
<1>. QED BY <1>0, <1>1, <1>4, <1>5, <1>8 DEF PrepareInv

-----------------------------------------------------------------------------
(* The theorems. *)

(* Nothing is uploaded, written or sent yet. *)
LEMMA PrepareInitially == ASSUME PreparationAssumption, PrepareInit PROVE PrepareInv
<1>1. \A r \in Requests : doing[r].op = "IDLE"
    BY DEF PrepareInit, Nothing
<1>2. \A r \in Requests : ImageOp(doing[r]) /\ VersionOp(doing[r]) /\ LaunchOp(doing[r])
    BY <1>1 DEF ImageOp, VersionOp, LaunchOp, Uploading, Entering, HasRead
<1>3. ImagesInv
    BY <1>1, <1>2 DEF ImagesInv, PrepareInit, Uploading
<1>4. VersionsInv
    BY <1>1, <1>2 DEF VersionsInv, PrepareInit
<1>5. MessagesInv
    <2>1. \A i \in Invitations : invitation[i] \in [text : Texts, members : Texts, cancelled : BOOLEAN]
        BY DEF PrepareInit, Texts
    <2>2. invitation \in [Invitations -> [text : Texts, members : Texts, cancelled : BOOLEAN]]
        BY <2>1 DEF PrepareInit
    <2>3. messages \in [Invitations -> Seq(SourceRow)] /\ \A i \in Invitations : DOMAIN messages[i] = {}
        BY DEF PrepareInit
    <2>. QED BY <1>2, <2>2, <2>3 DEF MessagesInv, PrepareInit, Texts
<1>. QED BY <1>3, <1>4, <1>5 DEF PrepareInv, PrepareInit, PreparationAssumption

(* What holds of the variables holds while they stay. *)
LEMMA PrepareStutters == ASSUME PrepareInv, UNCHANGED prepareVars PROVE PrepareInv'
BY DEF PrepareInv, prepareVars, ImagesInv, VersionsInv, MessagesInv, ImageOp, VersionOp, LaunchOp, OneEach,
       SourceOK

(* Every step keeps it. *)
LEMMA PrepareSteps == ASSUME PreparationAssumption, PrepareInv, PrepareNext PROVE PrepareInv'
<1>1. ASSUME NEW r \in Requests, AssetStep(r) PROVE PrepareInv'
    BY <1>1, UploadFileStep, ArchiveAssetStep, RecordUploadStep, UploadThrowsStep, UndoUploadStep,
       DeleteFileStep DEF AssetStep
<1>2. ASSUME NEW r \in Requests, PrepareStep(r) PROVE PrepareInv'
    BY <1>2, BeginPrepareStep, EndPrepareStep, AbortPrepareStep DEF PrepareStep
<1>3. ASSUME NEW r \in Requests, SendStep(r) PROVE PrepareInv'
    BY <1>3, ReviewStep, BeginLaunchStep, LockTemplateStep, ReadStep, SendingStep DEF SendStep
<1>4. ASSUME TemplateStep PROVE PrepareInv'
    BY <1>4, ReadForCreateStep, BeginUpdateStep, CreateTemplateStep, EndUpdateStep, StatusStep DEF TemplateStep
<1>. QED BY <1>1, <1>2, <1>3, <1>4, EditStep, MessageFailsStep DEF PrepareNext

(* The inductive invariant: what each request knows, from the locks it holds or    *)
(* from being told of what others write, is still so when it acts on it.           *)
THEOREM PrepareInvariant == ASSUME PreparationAssumption PROVE PrepareSpec => []PrepareInv
<1>1. PrepareInit => PrepareInv
    BY PrepareInitially
<1>2. PrepareInv /\ [PrepareNext]_prepareVars => PrepareInv'
    BY PrepareSteps, PrepareStutters
<1>. QED BY <1>1, <1>2, PTL DEF PrepareSpec

(* Only the latest version of a template is ever a draft, a snapshot is of a       *)
(* version that was approved, and every message has its snapshot.                  *)
THEOREM PreparationIsOK == ASSUME PreparationAssumption PROVE PrepareSpec => []PreparationOK
<1>1. ASSUME PrepareInv PROVE PreparationOK
    <2>1. \A s \in snapshots : IsSource(s) /\ templates[s.version].status # "DRAFT"
        BY <1>1 DEF PrepareInv, VersionsInv, SourceOK, SourceRow, IsSource
    <2>2. templates \in Seq([status : {"DRAFT", "APPROVED", "ARCHIVED"}, asset : Assets \cup {Nil}])
        BY <1>1 DEF PrepareInv, VersionsInv, Version
    <2>. QED BY <1>1, <2>1, <2>2 DEF PreparationOK, PrepareInv, ImagesInv, VersionsInv, MessagesInv
<1>. QED BY <1>1, PrepareInvariant, PTL

(* No image of a snapshot is archived or deleted, however uploads, archivings and  *)
(* preparations overlap.                                                           *)
THEOREM SnapshotImagesStay == ASSUME PreparationAssumption PROVE PrepareSpec => []SnapshotImageStays
<1>1. ASSUME PrepareInv PROVE SnapshotImageStays
    <2>1. \A s \in snapshots : s.asset # Nil => asset[s.asset] = "READY" /\ s.asset \in Assets
        BY <1>1 DEF PrepareInv, ImagesInv, VersionsInv, SourceOK, SourceRow
    <2>. QED BY <1>1, <2>1 DEF PrepareInv, ImagesInv, SnapshotImageStays
<1>. QED BY <1>1, PrepareInvariant, PTL

-----------------------------------------------------------------------------
(* What a launch or a resend has read until it sends. *)

(* The locks keep it so. *)
UpheldInv == \A q \in Requests : doing[q].op \in HasRead => Upheld(doing[q])

(* A step leaves every request that has read its sources as it is. *)
ReadersStay == \A q \in Requests : doing'[q].op \in HasRead => doing'[q] = doing[q]

(* If the step leaves the sources true as well, the locks have done so. *)
LEMMA UpheldKept ==
    ASSUME UpheldInv, ReadersStay,
           \A q \in Requests : doing[q].op \in HasRead =>
               \A s \in doing[q].sources :
                   StillTrue(s) /\ s.invitation \in doing[q].locked /\ s.version = doing[q].version
                      => StillTrue(s)'
    PROVE  UpheldInv'
<1>1. ASSUME NEW q \in Requests, doing'[q].op \in HasRead PROVE Upheld(doing[q])'
    <2>1. doing'[q] = doing[q] /\ Upheld(doing[q])
        BY <1>1 DEF UpheldInv, ReadersStay
    <2>. QED BY <1>1, <2>1 DEF Upheld
<1>. QED BY <1>1 DEF UpheldInv, HasRead

(* It does if it writes neither the event, nor an invitation, nor a version. *)
LEMMA UpheldRests ==
    ASSUME UpheldInv, ReadersStay, UNCHANGED <<event, invitation, templates>> PROVE UpheldInv'
<1>1. \A s : StillTrue(s) => StillTrue(s)'
    BY DEF StillTrue
<1>. QED BY <1>1, UpheldKept

(* A request does something else than to read what it sends, *)
LEMMA OneStays ==
    ASSUME PrepareInv, NEW r \in Requests, NEW x, doing' = [doing EXCEPT ![r] = x], x.op \notin HasRead
    PROVE  ReadersStay
BY OneDoes DEF ReadersStay

(* or ends, *)
LEMMA EndStays == ASSUME PrepareInv, NEW r \in Requests, doing' = Ends(r) PROVE ReadersStay
<1>1. Nothing.op \notin HasRead
    BY DEF Nothing, HasRead
<1>. QED BY <1>1, OneStays DEF Ends

(* and the preparations are told of a row. *)
LEMMA NotingStays ==
    ASSUME PrepareInv, NEW t, NEW row \in Notes, doing' = Noting(t, row),
           \A q \in Requests : t[q] = doing[q] \/ t[q].op \notin HasRead \cup {"PREPARE"}
    PROVE  ReadersStay
<1>1. ASSUME NEW q \in Requests, doing'[q].op \in HasRead PROVE doing'[q] = doing[q]
    <2>1. CASE t[q] = doing[q]
        <3>1. SameWork(doing'[q], doing[q])
            BY <2>1, NotingKeeps
        <3>. QED BY <1>1, <3>1 DEF SameWork, HasRead
    <2>2. CASE t[q].op \notin HasRead \cup {"PREPARE"}
        <3>1. doing'[q] = t[q]
            BY <2>2, NotingKeeps DEF Noted
        <3>. QED BY <1>1, <2>2, <3>1
    <2>. QED BY <2>1, <2>2
<1>. QED BY <1>1 DEF ReadersStay

(* Steps on images do not matter to what has been read, *)
LEMMA ReadersAtAssets ==
    ASSUME PrepareInv, UpheldInv, NEW r \in Requests, AssetStep(r) PROVE UpheldInv'
<1>1. UNCHANGED <<event, invitation, templates>>
    BY Zenon DEF AssetStep, UploadFile, ArchiveAsset, RecordUpload, UploadThrows, UndoUpload, DeleteFile
<1>2. ASSUME NEW a \in Assets, UploadFile(r, a) PROVE ReadersStay
    <2>1. PICK x : x = [op |-> "UPLOAD", asset |-> a]
        OBVIOUS
    <2>2. doing' = [doing EXCEPT ![r] = x]
        BY <1>2, <2>1 DEF UploadFile
    <2>3. x.op \notin HasRead
        BY <2>1 DEF HasRead
    <2>. QED BY <2>2, <2>3, OneStays
<1>3. ASSUME NEW a \in Assets, ArchiveAsset(r, a) PROVE ReadersStay
    <2>1. PICK x, t, row : /\ x = [op |-> "DELETE", asset |-> a]
                           /\ t = [doing EXCEPT ![r] = x] /\ row = <<"asset", a>>
        OBVIOUS
    <2>2. doing' = Noting(t, row)
        BY <1>3, <2>1 DEF ArchiveAsset
    <2>3. x.op \notin HasRead \cup {"PREPARE"}
        BY <2>1 DEF HasRead
    <2>4. \A q \in Requests : t[q] = doing[q] \/ t[q] = x
        BY <2>1 DEF PrepareInv
    <2>5. row \in Notes
        BY <2>1 DEF Notes
    <2>. QED BY <2>2, <2>3, <2>4, <2>5, NotingStays
<1>4. ASSUME UploadThrows(r) PROVE ReadersStay
    <2>1. PICK x : x = [doing[r] EXCEPT !.op = "UNDO_UPLOAD"]
        OBVIOUS
    <2>2. doing' = [doing EXCEPT ![r] = x] /\ doing[r] \in UploadRow
        BY <1>4, <2>1 DEF UploadThrows, PrepareInv, ImagesInv, ImageOp, Uploading
    <2>3. x.op \notin HasRead
        BY <2>1, <2>2 DEF HasRead, UploadRow
    <2>. QED BY <2>2, <2>3, OneStays
<1>5. ASSUME RecordUpload(r) \/ UndoUpload(r) \/ DeleteFile(r) PROVE ReadersStay
    <2>1. doing' = Ends(r)
        BY <1>5 DEF RecordUpload, UndoUpload, DeleteFile
    <2>. QED BY <2>1, EndStays
<1>6. ReadersStay
    BY <1>2, <1>3, <1>4, <1>5 DEF AssetStep
<1>. QED BY <1>1, <1>6, UpheldRests

(* nor do preparations and reviews. *)
LEMMA ReadersAtPreparations ==
    ASSUME PrepareInv, UpheldInv, NEW r \in Requests,
           \/ PrepareStep(r)
           \/ \E n \in DOMAIN templates : Review(r, n)
           \/ BeginLaunch(r) \/ LockTemplate(r)
           \/ \E i \in Invitations : \E k \in DOMAIN messages[i] : ReviewResend(r, i, k)
    PROVE  UpheldInv'
<1>1. UNCHANGED <<event, invitation, templates>>
    BY Zenon DEF PrepareStep, BeginPrepare, EndPrepare, AbortPrepare, Review, BeginLaunch, LockTemplate, ReviewResend
<1>2. \/ doing' = Ends(r)
      \/ \E x : doing' = [doing EXCEPT ![r] = x] /\ x.op \notin HasRead
    <2>1. CASE \E n \in DOMAIN templates : BeginPrepare(r, n)
        <3>1. PICK n \in DOMAIN templates : BeginPrepare(r, n)
            BY <2>1
        <3>2. PICK x, a, S : /\ a = templates[n].asset
                             /\ S = {Source(event, invitation, i, n, a) :
                                        i \in {j \in Invitations : ~invitation[j].cancelled}}
                             /\ x = [op |-> "PREPARE", version |-> n, asset |-> a, sources |-> S, written |-> {}]
            OBVIOUS
        <3>3. doing' = [doing EXCEPT ![r] = x]
            BY <3>1, <3>2, Zenon DEF BeginPrepare
        <3>4. x.op \notin HasRead
            BY <3>2 DEF HasRead
        <3>. QED BY <3>3, <3>4
    <2>2. CASE EndPrepare(r) \/ AbortPrepare(r)
        BY <2>2 DEF EndPrepare, AbortPrepare
    <2>3. CASE \E n \in DOMAIN templates : Review(r, n)
        <3>1. PICK n \in DOMAIN templates : Review(r, n)
            BY <2>3
        <3>2. PICK x, S : S = Selection(event, n) /\ x = [op |-> "REVIEWED", token |-> S]
            OBVIOUS
        <3>3. doing' = [doing EXCEPT ![r] = x]
            BY <3>1, <3>2, Zenon DEF Review
        <3>4. x.op \notin HasRead
            BY <3>2 DEF HasRead
        <3>. QED BY <3>3, <3>4
    <2>4. CASE BeginLaunch(r)
        <3>1. PICK x, y : y = doing[r].token /\ x = [op |-> "LAUNCH", token |-> y, event |-> event]
            OBVIOUS
        <3>2. doing' = [doing EXCEPT ![r] = x]
            BY <2>4, <3>1 DEF BeginLaunch
        <3>3. x.op \notin HasRead
            BY <3>1 DEF HasRead
        <3>. QED BY <3>2, <3>3
    <2>5. CASE LockTemplate(r)
        <3>1. PICK x, y, token : y = doing[r] /\ token = y.token /\ x = [y EXCEPT !.op = "LAUNCH_LOCKED"]
            OBVIOUS
        <3>2. y = [op |-> "LAUNCH", token |-> token, event |-> event]
            BY <2>5, <3>1 DEF LockTemplate, PrepareInv, MessagesInv, LaunchOp, Entering
        <3>3. x.op \notin HasRead
            BY <3>1, <3>2 DEF HasRead
        <3>4. doing' = [doing EXCEPT ![r] = x]
            BY <2>5, <3>1 DEF LockTemplate
        <3>. QED BY <3>3, <3>4
    <2>6. ASSUME NEW i \in Invitations, NEW k \in DOMAIN messages[i], ReviewResend(r, i, k)
          PROVE  \E x : doing' = [doing EXCEPT ![r] = x] /\ x.op \notin HasRead
        <3>1. PICK x, S : /\ S = Resendable(i, k)
                          /\ x = [op |-> "RESEND", invitation |-> i, message |-> k, token |-> [sources |-> S]]
            OBVIOUS
        <3>2. doing' = [doing EXCEPT ![r] = x]
            BY <2>6, <3>1, Zenon DEF ReviewResend
        <3>3. x.op \notin HasRead
            BY <3>1 DEF HasRead
        <3>. QED BY <3>2, <3>3
    <2>. QED BY <2>1, <2>2, <2>3, <2>4, <2>5, <2>6 DEF PrepareStep
<1>3. ReadersStay
    BY <1>2, OneStays, EndStays
<1>. QED BY <1>1, <1>3, UpheldRests

(* What is read is true when it is read; what is sent is nobody's any more. *)
LEMMA ReadersAtSending ==
    ASSUME PrepareInv, UpheldInv, NEW r \in Requests,
           ReadSelection(r) \/ ReadResend(r) \/ CreateBatch(r) \/ Resend(r)
    PROVE  UpheldInv'
<1>1. UNCHANGED <<event, invitation, templates>>
    BY Zenon DEF ReadSelection, ReadResend, CreateBatch, Resend
<1>2. CASE doing' = Ends(r)
    BY <1>1, <1>2, EndStays, UpheldRests
<1>3. ASSUME NEW x, doing' = [doing EXCEPT ![r] = x], Upheld(x) PROVE UpheldInv'
    <2>1. doing'[r] = x /\ \A q \in Requests \ {r} : doing'[q] = doing[q]
        BY <1>3, OneDoes
    <2>2. \A s : StillTrue(s) => StillTrue(s)'
        BY <1>1 DEF StillTrue
    <2>3. Upheld(doing[r])'
        BY <1>3, <2>1, <2>2 DEF Upheld
    <2>4. ASSUME NEW q \in Requests \ {r}, doing'[q].op \in HasRead PROVE Upheld(doing[q])'
        <3>1. doing'[q] = doing[q] /\ Upheld(doing[q])
            BY <2>1, <2>4 DEF UpheldInv
        <3>. QED BY <2>2, <3>1 DEF Upheld
    <2>. QED BY <2>3, <2>4 DEF UpheldInv, HasRead
<1>4. CASE CreateBatch(r) \/ Resend(r)
    BY <1>2, <1>4 DEF CreateBatch, Resend
<1>. QED BY <1>2, <1>3, <1>4, SelectionIsRead, ResendIsRead

(* The version of what is sent stays approved. *)
LEMMA ReadersAtTemplates == ASSUME PrepareInv, UpheldInv, TemplateStep PROVE UpheldInv'
<1>. DEFINE Kept == \A q \in Requests : doing[q].op \in HasRead =>
                       \A s \in doing[q].sources :
                           StillTrue(s) /\ s.invitation \in doing[q].locked /\ s.version = doing[q].version
                              => StillTrue(s)'
<1>1. ASSUME NEW q \in Requests, doing[q].op \in HasRead, NEW s \in doing[q].sources
      PROVE  s.version \in DOMAIN templates
    <2>1. s \in snapshots
        BY <1>1 DEF PrepareInv, MessagesInv, LaunchOp, OneEach
    <2>. QED BY <2>1 DEF PrepareInv, VersionsInv, SourceOK
<1>2. ASSUME NEW r \in Requests, NEW a \in Assets \cup {Nil}, ReadForCreate(r, a) \/ BeginUpdate(r, a)
      PROVE  UpheldInv'
    <2>1. PICK x, y, n, d :
              /\ n = Len(templates) /\ d = (templates[n].status = "DRAFT")
              /\ x = [op |-> "CREATE", asset |-> a]
              /\ y = [op |-> "UPDATE", version |-> n, asset |-> a, draft |-> d]
        OBVIOUS
    <2>2. doing' = [doing EXCEPT ![r] = x] \/ doing' = [doing EXCEPT ![r] = y]
        BY <1>2, <2>1, Zenon DEF ReadForCreate, BeginUpdate
    <2>3. x.op \notin HasRead /\ y.op \notin HasRead
        BY <2>1 DEF HasRead
    <2>4. UNCHANGED <<event, invitation, templates>>
        BY <1>2, Zenon DEF ReadForCreate, BeginUpdate
    <2>. QED BY <2>2, <2>3, <2>4, OneStays, UpheldRests
<1>3. ASSUME NEW r \in Requests, CreateTemplate(r) PROVE UpheldInv'
    <2>1. doing' = Ends(r) /\ templates = <<>>
        BY <1>3 DEF CreateTemplate, PrepareInv, VersionsInv, VersionOp
    <2>2. DOMAIN templates = {}
        BY <2>1
    <2>3. Kept
        BY <1>1, <2>2
    <2>. QED BY <2>1, <2>3, EndStays, UpheldKept
<1>4. ASSUME NEW r \in Requests, EndUpdate(r) PROVE UpheldInv'
    <2>p. PICK n, d, base, t :
              /\ n = doing[r].version /\ d = Draft(doing[r].asset) /\ t = Ends(r)
              /\ base = IF doing[r].draft THEN WithStatus(n, "ARCHIVED") ELSE templates
        OBVIOUS
    <2>0. /\ templates \in Seq(Version) /\ n \in DOMAIN templates
          /\ doing[r].draft <=> templates[n].status = "DRAFT"
        BY <1>4, <2>p DEF EndUpdate, PrepareInv, VersionsInv, VersionOp
    <2>u. /\ templates' = Append(base, d) /\ UNCHANGED <<event, invitation>>
          /\ doing' = Noting(t, <<"template", n>>) \/ doing' = Ends(r)
        BY <1>4, <2>p DEF EndUpdate, WithStatus
    <2>1. /\ base \in Seq(Version) /\ DOMAIN base = DOMAIN templates
          /\ \A m \in DOMAIN templates : templates[m].status = "APPROVED" => base[m].status = "APPROVED"
        <3>1. CASE doing[r].draft
            <4>1. base = WithStatus(n, "ARCHIVED")
                BY <2>p, <3>1
            <4>. QED BY <2>0, <3>1, <4>1, StatusSet
        <3>2. CASE ~doing[r].draft
            BY <2>p, <2>0, <3>2
        <3>. QED BY <3>1, <3>2
    <2>2. \A m \in DOMAIN templates : templates'[m] = base[m]
        BY <2>0, <2>1, <2>u
    <2>3. Kept
        BY <1>1, <2>1, <2>2, <2>u DEF StillTrue
    <2>4. ReadersStay
        <3>1. <<"template", n>> \in Notes
            BY <2>0 DEF Notes
        <3>2. \A q \in Requests : t[q] = doing[q] \/ t[q] = Nothing
            BY <2>p DEF Ends, PrepareInv
        <3>3. Nothing.op \notin HasRead \cup {"PREPARE"}
            BY DEF Nothing, HasRead
        <3>4. CASE doing' = Noting(t, <<"template", n>>)
            BY <3>1, <3>2, <3>3, <3>4, NotingStays
        <3>5. CASE doing' = Ends(r)
            BY <3>5, EndStays
        <3>. QED BY <2>u, <3>4, <3>5
    <2>. QED BY <2>3, <2>4, UpheldKept
<1>5. ASSUME NEW n \in DOMAIN templates, Approve(n) \/ ArchiveTemplate(n) PROVE UpheldInv'
    <2>0. templates \in Seq(Version) /\ n \in Nat
        BY DEF PrepareInv, VersionsInv
    <2>1. /\ UNCHANGED <<event, invitation>>
          /\ doing' = Noting(doing, <<"template", n>>)
          /\ \/ templates' = WithStatus(n, "APPROVED")
             \/ templates' = WithStatus(n, "ARCHIVED") /\ Writable(n)
        BY <1>5, Zenon DEF Approve, ArchiveTemplate, WithStatus
    <2>2. \A m \in DOMAIN templates \ {n} : templates'[m] = templates[m]
        BY <2>0, <2>1, StatusSet
    <2>3. templates' = WithStatus(n, "APPROVED") => templates'[n].status = "APPROVED"
        BY <2>0, StatusSet
    <2>4. \A q \in Requests : doing[q].op \in HasRead =>
              doing[q].version # n \/ templates'[n].status = "APPROVED"
        BY <2>1, <2>3 DEF Writable
    <2>5. Kept
        BY <1>1, <2>1, <2>2, <2>4 DEF StillTrue
    <2>6. <<"template", n>> \in Notes
        BY <2>0 DEF Notes
    <2>7. ReadersStay
        BY <2>1, <2>6, NotingStays
    <2>. QED BY <2>5, <2>7, UpheldKept
<1>. HIDE DEF Kept
<1>. QED BY <1>2, <1>3, <1>4, <1>5 DEF TemplateStep

(* An edit waits for the locks; one of the members alone does not, and      *)
(* leaves all else.                                                         *)
LEMMA ReadersAtEdits ==
    ASSUME PrepareInv, UpheldInv,
           ChangeEvent \/ \E i \in Invitations : EditInvitation(i) \/ EditMembers(i) \/ CancelInvitation(i)
    PROVE  UpheldInv'
<1>1. PICK row \in Notes : doing' = Noting(doing, row)
    BY DEF ChangeEvent, EditInvitation, EditMembers, CancelInvitation, Notes
<1>2. ReadersStay
    BY <1>1, NotingStays
<1>3. CASE ChangeEvent
    <2>1. \A q \in Requests : doing[q].op \notin HasRead
        BY <1>3 DEF ChangeEvent, EventFree
    <2>. QED BY <1>2, <2>1, UpheldKept
<1>4. ASSUME NEW i \in Invitations, EditInvitation(i) \/ EditMembers(i) \/ CancelInvitation(i)
      PROVE  UpheldInv'
    <2>1. UNCHANGED <<event, templates>>
        BY <1>4, Zenon DEF EditInvitation, EditMembers, CancelInvitation
    <2>2. invitation \in [Invitations -> [text : Texts, members : Texts, cancelled : BOOLEAN]]
        BY DEF PrepareInv, MessagesInv
    <2>3. ASSUME NEW j \in Invitations, j # i PROVE invitation'[j] = invitation[j]
        BY <1>4, <2>2, <2>3 DEF EditInvitation, EditMembers, CancelInvitation
    <2>4. ASSUME EditMembers(i)
          PROVE  invitation'[i].text = invitation[i].text /\ invitation'[i].cancelled = invitation[i].cancelled
        <3>1. PICK x : x = [invitation[i] EXCEPT !.members = 1 - invitation[i].members]
            OBVIOUS
        <3>2. invitation' = [invitation EXCEPT ![i] = x]
            BY <2>4, <3>1 DEF EditMembers
        <3>3. invitation'[i] = x /\ invitation[i] \in [text : Texts, members : Texts, cancelled : BOOLEAN]
            BY <2>2, <3>2
        <3>. QED BY <3>1, <3>3
    <2>5. EditMembers(i) \/ \A q \in Requests : doing[q].op \in HasRead => i \notin doing[q].locked
        BY <1>4 DEF EditInvitation, CancelInvitation, InvitationFree
    <2>6. ASSUME NEW q \in Requests, doing[q].op \in HasRead, NEW s \in doing[q].sources,
                 StillTrue(s), s.invitation \in doing[q].locked
          PROVE  StillTrue(s)'
        <3>1. s.invitation \in Invitations
            BY <2>6 DEF PrepareInv, MessagesInv, LaunchOp, OneEach, VersionsInv, SourceOK, SourceRow
        <3>2. /\ invitation'[s.invitation].text = invitation[s.invitation].text
              /\ invitation'[s.invitation].cancelled = invitation[s.invitation].cancelled
            BY <2>3, <2>4, <2>5, <2>6, <3>1
        <3>. QED BY <2>1, <2>6, <3>2 DEF StillTrue
    <2>. QED BY <1>2, <2>6, UpheldKept
<1>. QED BY <1>3, <1>4

(* From the reading to the sending nothing that is locked changes: the text of an  *)
(* invitation, its cancellation, the event and the version's status.               *)
THEOREM ReadersAreUpheld == ASSUME PreparationAssumption PROVE PrepareSpec => []UpheldInv
<1>1. PrepareInit => UpheldInv
    <2>1. PrepareInit => \A r \in Requests : doing[r] = Nothing
        BY DEF PrepareInit
    <2>. QED BY <2>1 DEF UpheldInv, HasRead, Nothing
<1>2. PrepareInv /\ UpheldInv /\ [PrepareNext]_prepareVars => UpheldInv'
    <2>1. ASSUME PrepareInv, UpheldInv, UNCHANGED prepareVars PROVE UpheldInv'
        BY <2>1 DEF prepareVars, UpheldInv, Upheld, StillTrue
    <2>2. ASSUME PrepareInv, UpheldInv, PrepareNext PROVE UpheldInv'
        <3>1. ASSUME NEW r \in Requests, AssetStep(r) \/ PrepareStep(r) \/ SendStep(r) PROVE UpheldInv'
            BY <2>2, <3>1, ReadersAtAssets, ReadersAtPreparations, ReadersAtSending DEF SendStep
        <3>2. ASSUME NEW i \in Invitations, MessageFails(i) PROVE UpheldInv'
            BY <2>2, <3>2 DEF MessageFails, UpheldInv, Upheld, StillTrue
        <3>. QED BY <2>2, <3>1, <3>2, ReadersAtTemplates, ReadersAtEdits DEF PrepareNext
    <2>. QED BY <2>1, <2>2
<1>. QED BY <1>1, <1>2, PrepareInvariant, PTL DEF PrepareSpec

(* Only launches and resends create messages, and of what they have read. *)
LEMMA WhoSends ==
    ASSUME PrepareInv, PrepareNext, messages' # messages
    PROVE  \E r \in Requests : /\ doing[r].op \in HasRead /\ doing'[r] = Nothing
                               /\ Sends(doing[r].sources) /\ OneEach(doing[r].sources)
                               /\ doing[r].sources = doing[r].token.sources
                               /\ UNCHANGED snapshots
<1>1. ASSUME NEW r \in Requests, AssetStep(r) PROVE FALSE
    BY <1>1 DEF AssetStep, UploadFile, ArchiveAsset, RecordUpload, UploadThrows, UndoUpload, DeleteFile
<1>2. ASSUME NEW r \in Requests, PrepareStep(r) PROVE FALSE
    BY <1>2 DEF PrepareStep, BeginPrepare, EndPrepare, AbortPrepare
<1>3. ASSUME TemplateStep PROVE FALSE
    BY <1>3 DEF TemplateStep, ReadForCreate, BeginUpdate, CreateTemplate, EndUpdate, Approve, ArchiveTemplate
<1>4. ASSUME NEW r \in Requests, SendStep(r) PROVE CreateBatch(r) \/ Resend(r)
    <2>1. ASSUME ReadSelection(r) \/ ReadResend(r) PROVE UNCHANGED messages
        BY <2>1, Zenon DEF ReadSelection, ReadResend
    <2>. QED BY <1>4, <2>1 DEF SendStep, Review, ReviewResend, BeginLaunch, LockTemplate
<1>5. PICK r \in Requests : CreateBatch(r) \/ Resend(r)
    BY <1>1, <1>2, <1>3, <1>4
    DEF PrepareNext, ChangeEvent, EditInvitation, EditMembers, CancelInvitation, MessageFails
<1>6. /\ doing' = Ends(r) /\ doing[r].op \in HasRead /\ Sends(doing[r].sources)
      /\ UNCHANGED snapshots
    BY <1>5 DEF CreateBatch, Resend, HasRead
<1>7. OneEach(doing[r].sources) /\ doing[r].sources = doing[r].token.sources
    BY <1>6 DEF PrepareInv, MessagesInv, LaunchOp
<1>8. doing'[r] = Nothing
    BY <1>6, Ended
<1>. QED BY <1>6, <1>7, <1>8

(* What a step that creates messages has done: *)
SentCurrent ==
    \A i \in Invitations : messages'[i] # messages[i] =>
        LET s == Last(messages'[i])
        IN  /\ [s EXCEPT !.members = invitation[i].members] = Current(event, i, s.version)
            /\ templates[s.version].status = "APPROVED"
            /\ ~invitation[i].cancelled

SentConfirmed ==
    messages' # messages =>
        \E r \in Requests :
            /\ doing[r].op \in HasRead /\ doing'[r] = Nothing
            /\ {Last(messages'[i]) : i \in {j \in Invitations : messages'[j] # messages[j]}}
                  = doing[r].token.sources

(* the sources it has read come last, each in its invitation, and no others do.    *)
LEMMA ConfirmedIsSent ==
    ASSUME PrepareInv, PrepareNext
    PROVE  /\ SentConfirmed
           /\ UpheldInv => SentCurrent
<1>1. CASE messages' = messages
    BY <1>1 DEF SentCurrent, SentConfirmed
<1>2. CASE messages' # messages
    <2>0. PICK r \in Requests : /\ doing[r].op \in HasRead /\ doing'[r] = Nothing
                                /\ Sends(doing[r].sources) /\ OneEach(doing[r].sources)
                                /\ doing[r].sources = doing[r].token.sources
                                /\ UNCHANGED snapshots
        BY <1>2, WhoSends
    <2>1. PICK S : S = doing[r].sources
        OBVIOUS
    <2>2. Delivered(S)
        BY <2>0, <2>1, SendsOneEach
    <2>3. /\ \A i \in Invitations : messages'[i] # messages[i] => \E s \in S : s.invitation = i
          /\ \A s \in S : /\ s.invitation \in Invitations /\ messages'[s.invitation] # messages[s.invitation]
                          /\ Last(messages'[s.invitation]) = s
        BY <2>2 DEF Delivered
    <2>4. ASSUME UpheldInv, NEW s \in S
          PROVE  /\ [s EXCEPT !.members = invitation[s.invitation].members]
                        = Current(event, s.invitation, s.version)
                 /\ templates[s.version].status = "APPROVED" /\ ~invitation[s.invitation].cancelled
        <3>1. /\ s.text = invitation[s.invitation].text /\ invitation[s.invitation].cancelled = FALSE
              /\ s.event = event /\ templates[s.version].status = "APPROVED"
            BY <2>0, <2>1, <2>4 DEF UpheldInv, Upheld, StillTrue
        <3>2. s \in SourceRow /\ s.cancelled = FALSE /\ s.asset = templates[s.version].asset
            BY <2>0, <2>1 DEF OneEach, PrepareInv, VersionsInv, SourceOK
        <3>3. PICK y, m, c : /\ m = invitation[s.invitation].members /\ y = [s EXCEPT !.members = m]
                             /\ c = Current(event, s.invitation, s.version)
            OBVIOUS
        <3>4. y = [invitation |-> s.invitation, text |-> s.text, members |-> m, cancelled |-> s.cancelled,
                   event |-> s.event, version |-> s.version, asset |-> s.asset]
            BY <3>2, <3>3 DEF SourceRow
        <3>5. c = [invitation |-> s.invitation, text |-> s.text, members |-> m, cancelled |-> s.cancelled,
                   event |-> s.event, version |-> s.version, asset |-> s.asset]
            BY <3>1, <3>2, <3>3 DEF Current, Source
        <3>. QED BY <3>1, <3>3, <3>4, <3>5
    <2>5. UpheldInv => SentCurrent
        BY <2>3, <2>4 DEF SentCurrent
    <2>6. {Last(messages'[i]) : i \in {j \in Invitations : messages'[j] # messages[j]}} = S
        BY <2>3
    <2>. QED BY <2>0, <2>1, <2>5, <2>6 DEF SentConfirmed
<1>. QED BY <1>1, <1>2

(* A message is created with what is current at that moment, but for the members,  *)
(* and for nobody whose invitation is cancelled, although a launch reads the       *)
(* event, the template and the invitations at different times and sends later.     *)
THEOREM LaunchesSendWhatIsCurrent ==
    ASSUME PreparationAssumption PROVE PrepareSpec => LaunchSendsWhatIsCurrent
<1>1. PrepareInv /\ UpheldInv /\ [PrepareNext]_prepareVars => [SentCurrent]_prepareVars
    BY ConfirmedIsSent
<1>2. PrepareSpec => [][SentCurrent]_prepareVars
    BY <1>1, PrepareInvariant, ReadersAreUpheld, PTL DEF PrepareSpec
<1>. QED BY <1>2 DEF LaunchSendsWhatIsCurrent, SentCurrent

(* Messages are created exactly for the sources that the host has seen.            *)
THEOREM HostsSawWhatIsSent == ASSUME PreparationAssumption PROVE PrepareSpec => HostSawWhatIsSent
<1>1. PrepareInv /\ [PrepareNext]_prepareVars => [SentConfirmed]_prepareVars
    BY ConfirmedIsSent
<1>2. PrepareSpec => [][SentConfirmed]_prepareVars
    BY <1>1, PrepareInvariant, PTL DEF PrepareSpec
<1>. QED BY <1>2 DEF HostSawWhatIsSent, SentConfirmed

=============================================================================
