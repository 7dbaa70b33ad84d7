---------------------- MODULE RsvpConfirmationsProofs ----------------------
(***************************************************************************)
(* Proofs about RsvpConfirmations, for any number of answers and attempts: *)
(* its types, that the provider accepts a confirmation at most once, that  *)
(* the outbox tells the truth of what was sent, and that a newer           *)
(* confirmation is overtaken only by one given up as uncertain.            *)
(***************************************************************************)
EXTENDS RsvpConfirmations, TLAPS

(* The inductive invariant. *)

Accepted(c, n) == \E i \in 1..Len(accepted) : accepted[i] = <<c, n>>

Uncertain(c) ==
    confirmation[c].status = "FAILED" /\ confirmation[c].class = "AMBIGUOUS"

InDoubt(c) == confirmation[c].status = "SENDING" \/ Uncertain(c)

(* A job in the queue has a try left; only a running one has a holder. *)
JobInv(c) ==
    /\ job[c].state \in {"WAITING", "ACTIVE"} => job[c].tries < MaxAttempts
    /\ job[c].holder # 0 => job[c].state = "ACTIVE"

(* A confirmation that does not exist has no attempt, and a superseded one *)
(* has failed for good.                                                    *)
RowInv(c) ==
    /\ confirmation[c].status = "ABSENT" => confirmation[c].attempts = 0
    /\ confirmation[c].code = "SUPERSEDED_BY_NEWER_RESPONSE" =>
           confirmation[c].status = "FAILED" /\ confirmation[c].class = "PERMANENT"

(* Only the last attempt may be under way, and only while the row is being *)
(* sent or has been given up as uncertain.                                 *)
FlightInv(c) ==
    \A n \in Attempts : flight[c][n] # "IDLE" =>
        n = confirmation[c].attempts /\ InDoubt(c)

(* Only the last attempt may have been accepted, and the row does not deny *)
(* it; an attempt still calling or refused was not.                        *)
AcceptInv(c) ==
    \A n \in Attempts : Accepted(c, n) =>
        /\ n = confirmation[c].attempts
        /\ InDoubt(c) \/ confirmation[c].status = "SENT"
        /\ flight[c][n] \in {"IDLE", "OK", "AMBIGUOUS"}

(* While a confirmation is being sent no newer one has been started. *)
Serial ==
    \A c, d \in Confirmations :
        confirmation[c].status = "SENDING" /\ d > c => confirmation[d].attempts = 0

RowsInv ==
    /\ \A c \in Confirmations : RowInv(c) /\ FlightInv(c) /\ AcceptInv(c)
    /\ Serial

IInv ==
    /\ TypeOK
    /\ \A c \in Confirmations : JobInv(c)
    /\ RowsInv
    /\ ConfirmedOnce
    /\ OvertakenOnlyIfUncertain

-----------------------------------------------------------------------------
(* What one transaction or answer makes of a confirmation: every action of *)
(* the outbox comes down to one of these for every confirmation.           *)

(* Nothing starts: an attempt under way ends, or gets its answer. *)
Lands(c) ==
    \A n \in Attempts :
        \/ flight'[c][n] = flight[c][n]
        \/ flight'[c][n] = "IDLE"
        \/ flight[c][n] # "IDLE" /\ flight'[c][n] = "AMBIGUOUS"
        \/ flight[c][n] = "CALLING" /\ flight'[c][n] \in FailureClass

Answered(c) ==
    /\ confirmation[c].status = "ABSENT"
    /\ confirmation'[c] = [confirmation[c] EXCEPT !.status = "QUEUED"]

Overridden(c) ==
    confirmation[c].status = "QUEUED" /\ confirmation'[c] = Superseded(confirmation[c])

Started(c) ==
    /\ Unsent(c) /\ ~Newer(c) /\ ~EarlierSending(c)
    /\ confirmation'[c] = [status |-> "SENDING", attempts |-> confirmation[c].attempts + 1,
                           class |-> None, code |-> None]
    /\ flight'[c] = [flight[c] EXCEPT ![confirmation[c].attempts + 1] = "CALLING"]

GivenUp(c) ==
    /\ confirmation[c].status \in Active
    /\ \E code \in {"WORKER_INTERRUPTED", "JOB_RETRY_EXHAUSTED"} :
           confirmation'[c] = Failed(confirmation[c], ExhaustedClass(c), code)

Sent(c) ==
    /\ confirmation[c].status = "SENDING"
    /\ confirmation'[c] = [confirmation[c] EXCEPT !.status = "SENT", !.class = None,
                                                  !.code = None]
    /\ flight[c][confirmation[c].attempts] = "OK"
    /\ flight'[c] = [flight[c] EXCEPT ![confirmation[c].attempts] = "IDLE"]

NotSent(c) ==
    LET n == confirmation[c].attempts
        class == flight[c][n]
    IN
    /\ confirmation[c].status = "SENDING"
    /\ class \in FailureClass
    /\ \E status \in {"QUEUED", "FAILED"} :
          /\ status = "QUEUED" => class = "TRANSIENT"
          /\ confirmation'[c] = [confirmation[c] EXCEPT !.status = status,
                                     !.class = class, !.code = "PROVIDER"]
    /\ flight'[c] = [flight[c] EXCEPT ![n] = "IDLE"]

RowStep(c) ==
    \/ UNCHANGED confirmation[c] /\ Lands(c)
    \/ UNCHANGED flight[c] /\ (Answered(c) \/ Overridden(c) \/ GivenUp(c))
    \/ Started(c)
    \/ Sent(c)
    \/ NotSent(c)

(* The provider accepts an attempt that is calling it. *)
Accepts ==
    \E c \in Confirmations, n \in Attempts :
        /\ flight[c][n] = "CALLING"
        /\ accepted' = Append(accepted, <<c, n>>)
        /\ \E answer \in {"IDLE", "OK", "AMBIGUOUS"} :
               flight' = [flight EXCEPT ![c][n] = answer]
        /\ UNCHANGED confirmation

Effect ==
    \/ Accepts
    \/ UNCHANGED accepted /\ \A c \in Confirmations : RowStep(c)

(* Every step is an acceptance by the provider or moves rows one by one. *)
LEMMA StepEffect ==
    ASSUME TypeOK, [Next]_vars
    PROVE  Effect
<1>t. /\ confirmation \in [Confirmations -> Row]
      /\ job \in [Confirmations -> JobRow]
      /\ flight \in [Confirmations -> [Attempts -> Flight]]
    BY DEF TypeOK
<1> USE ConfirmationAssumption
<1>u. ASSUME UNCHANGED <<confirmation, flight, accepted>> PROVE Effect
    BY <1>u DEF Effect, RowStep, Lands
<1>f. ASSUME NEW c \in Confirmations, NEW n \in Attempts, NEW f,
             flight' = [flight EXCEPT ![c][n] = f],
             UNCHANGED <<confirmation, accepted>>,
             \/ f = "IDLE"
             \/ f = "AMBIGUOUS" /\ flight[c][n] # "IDLE"
             \/ f \in FailureClass /\ flight[c][n] = "CALLING"
      PROVE  Effect
    <2>1. \A d \in Confirmations : Lands(d)
        BY <1>t, <1>f DEF Lands
    <2>. QED BY <1>f, <2>1 DEF Effect, RowStep
<1>r. ASSUME NEW c \in Confirmations, UNCHANGED accepted, RowStep(c),
             \A d \in Confirmations : d # c => UNCHANGED <<confirmation[d], flight[d]>>
      PROVE  Effect
    <2>1. ASSUME NEW d \in Confirmations PROVE RowStep(d)
        BY <1>r DEF RowStep, Lands
    <2>. QED BY <1>r, <2>1 DEF Effect
<1>w. ASSUME NEW c \in Confirmations, NEW row, UNCHANGED <<flight, accepted>>,
             confirmation' = [confirmation EXCEPT ![c] = row],
             confirmation'[c] = row => Answered(c) \/ Overridden(c) \/ GivenUp(c)
      PROVE  Effect
    <2>1. confirmation'[c] = row
        BY <1>t, <1>w
    <2>2. RowStep(c)
        BY <1>w, <2>1 DEF RowStep
    <2>3. \A d \in Confirmations : d # c => UNCHANGED <<confirmation[d], flight[d]>>
        BY <1>t, <1>w
    <2>. QED BY <1>r, <1>w, <2>2, <2>3
<1>1. ASSUME NEW c \in Confirmations, ChangedAnswer(c) PROVE Effect
    <2>1. ASSUME NEW d \in Confirmations PROVE RowStep(d)
        BY <1>1 DEF ChangedAnswer, RowStep, Exists, Replaced, Answered, Overridden, Lands
    <2>. QED BY <1>1, <2>1 DEF ChangedAnswer, Effect
<1>2. ASSUME NEW c \in Confirmations,
             \/ Enqueue(c) \/ ClaimSkipped(c) \/ ClaimDeferred(c) \/ ClaimFails(c)
             \/ JobStalls(c) \/ ExhaustionLost(c) \/ JobRemoved(c)
      PROVE  Effect
    BY <1>2, <1>u DEF Enqueue, ClaimSkipped, ClaimDeferred, ClaimFails, JobStalls,
           ExhaustionLost, JobRemoved
<1>3. ASSUME SweepLists PROVE Effect
    BY <1>3, <1>u DEF SweepLists
<1>4. ASSUME NEW c \in Confirmations, ClaimInterrupted(c) PROVE Effect
    BY <1>4, <1>w DEF ClaimInterrupted, Fail, GivenUp, ExhaustedClass, Active
<1>5. ASSUME NEW c \in Confirmations, ClaimSuperseded(c) PROVE Effect
    BY <1>5, <1>w DEF ClaimSuperseded, Unsent, Overridden
<1>6. ASSUME NEW c \in Confirmations, ClaimToSend(c) PROVE Effect
    <2> DEFINE n == confirmation[c].attempts + 1
    <2>1. /\ Unsent(c) /\ ~Newer(c) /\ ~EarlierSending(c)
          /\ confirmation' = [confirmation EXCEPT ![c] =
                 [status |-> "SENDING", attempts |-> n, class |-> None, code |-> None]]
          /\ flight' = [flight EXCEPT ![c][n] = "CALLING"]
          /\ UNCHANGED accepted
        BY <1>6 DEF ClaimToSend, MayOvertake
    <2>2. Started(c)
        BY <1>t, <2>1 DEF Started
    <2>3. \A d \in Confirmations : d # c => UNCHANGED <<confirmation[d], flight[d]>>
        BY <1>t, <2>1
    <2>. QED BY <1>r, <2>1, <2>2, <2>3 DEF RowStep
<1>7. ASSUME NEW c \in Confirmations, RecordExhausted(c) PROVE Effect
    <2>1. CASE confirmation[c].status \in Active
        BY <1>7, <1>w, <2>1 DEF RecordExhausted, Fail, GivenUp
    <2>2. CASE confirmation[c].status \notin Active
        BY <1>7, <1>u, <2>2 DEF RecordExhausted
    <2>. QED BY <2>1, <2>2
<1>8. ASSUME NEW c \in Confirmations, NEW n \in Attempts,
             ProviderAccepts(c, n) \/ WorkerCrash(c, n)
      PROVE  Effect
    <2>1. CASE ProviderAccepts(c, n)
        <3>1. PICK answer \in {"OK", "AMBIGUOUS"} : flight' = [flight EXCEPT ![c][n] = answer]
            BY <2>1 DEF ProviderAccepts
        <3>. QED BY <2>1, <3>1 DEF ProviderAccepts, Effect, Accepts
    <2>2. CASE WorkerCrash(c, n) /\ UNCHANGED accepted
        BY <1>f, <2>2 DEF WorkerCrash
    <2>3. CASE WorkerCrash(c, n) /\ ~UNCHANGED accepted
        BY <2>3 DEF WorkerCrash, Effect, Accepts
    <2>. QED BY <1>8, <2>1, <2>2, <2>3
<1>9. ASSUME NEW c \in Confirmations, NEW n \in Attempts,
             \/ ProviderRefuses(c, n) \/ RecordAcceptedAborts(c, n)
             \/ RecordFailureAborts(c, n)
      PROVE  Effect
    <2>1. CASE ProviderRefuses(c, n)
        <3>1. PICK f \in FailureClass : flight' = [flight EXCEPT ![c][n] = f]
            BY <2>1 DEF ProviderRefuses
        <3>. QED BY <1>f, <2>1, <3>1 DEF ProviderRefuses
    <2>2. CASE RecordAcceptedAborts(c, n)
        BY <1>f, <2>2 DEF RecordAcceptedAborts
    <2>3. CASE RecordFailureAborts(c, n)
        BY <1>f, <2>3 DEF RecordFailureAborts, Land
    <2>. QED BY <1>9, <2>1, <2>2, <2>3
<1>10. ASSUME NEW c \in Confirmations, NEW n \in Attempts, RecordAccepted(c, n)
       PROVE  Effect
    <2>1. CASE ~StillClaimed(c, n)
        BY <1>f, <1>10, <2>1 DEF RecordAccepted, Land
    <2>2. CASE StillClaimed(c, n)
        <3>1. /\ confirmation[c].status = "SENDING" /\ confirmation[c].attempts = n
              /\ flight[c][n] = "OK"
              /\ flight' = [flight EXCEPT ![c][n] = "IDLE"]
              /\ confirmation' = [confirmation EXCEPT ![c] =
                     [confirmation[c] EXCEPT !.status = "SENT", !.class = None, !.code = None]]
              /\ UNCHANGED accepted
            BY <1>10, <2>2 DEF RecordAccepted, Land, StillClaimed
        <3>2. Sent(c)
            BY <1>t, <3>1 DEF Sent
        <3>3. \A d \in Confirmations : d # c => UNCHANGED <<confirmation[d], flight[d]>>
            BY <1>t, <3>1
        <3>. QED BY <1>r, <3>1, <3>2, <3>3 DEF RowStep
    <2>. QED BY <2>1, <2>2
<1>11. ASSUME NEW c \in Confirmations, NEW n \in Attempts, RecordFailure(c, n)
       PROVE  Effect
    <2> DEFINE class == flight[c][n]
               retry == Retryable(class, n, MaxAttempts)
    <2>1. CASE ~StillClaimed(c, n)
        BY <1>f, <1>11, <2>1 DEF RecordFailure, Land
    <2>2. CASE StillClaimed(c, n)
        <3>1. /\ confirmation[c].status = "SENDING" /\ confirmation[c].attempts = n
              /\ class \in FailureClass
              /\ flight' = [flight EXCEPT ![c][n] = "IDLE"]
              /\ confirmation' = [confirmation EXCEPT ![c] =
                     [confirmation[c] EXCEPT !.status = IF retry THEN "QUEUED" ELSE "FAILED",
                                             !.class = class, !.code = "PROVIDER"]]
              /\ UNCHANGED accepted
            BY <1>11, <2>2 DEF RecordFailure, Land, StillClaimed
        <3>2. retry => class = "TRANSIENT"
            BY DEF Retryable
        <3> HIDE DEF retry
        <3>3. NotSent(c)
            BY <1>t, <3>1, <3>2 DEF NotSent
        <3>4. \A d \in Confirmations : d # c => UNCHANGED <<confirmation[d], flight[d]>>
            BY <1>t, <3>1
        <3>. QED BY <1>r, <3>1, <3>3, <3>4 DEF RowStep
    <2>. QED BY <2>1, <2>2
<1>12. CASE UNCHANGED vars
    BY <1>u, <1>12 DEF vars
<1>. QED
    BY <1>1, <1>2, <1>3, <1>4, <1>5, <1>6, <1>7, <1>8, <1>9, <1>10, <1>11, <1>12
       DEF Next, Claim, Answer, Record

-----------------------------------------------------------------------------
(* What a step keeps. *)

(* A step keeps the jobs typed, their tries bounded and their holders known. *)
LEMMA JobStep ==
    ASSUME TypeOK, \A c \in Confirmations : JobInv(c), [Next]_vars
    PROVE  /\ job' \in [Confirmations -> JobRow]
           /\ \A c \in Confirmations :
                 JobInv(c)' /\ (job'[c].state = "ACTIVE" => job'[c].holder # 0)
<1> DEFINE Fine(r) == /\ r \in JobRow
                      /\ r.state \in {"WAITING", "ACTIVE"} => r.tries < MaxAttempts
                      /\ r.holder # 0 => r.state = "ACTIVE"
                      /\ r.state = "ACTIVE" => r.holder # 0
           Good == /\ job' \in [Confirmations -> JobRow]
                   /\ \A c \in Confirmations : Fine(job'[c])
<1>t. /\ job \in [Confirmations -> JobRow]
      /\ \A c \in Confirmations : Fine(job[c])
    BY DEF TypeOK, JobInv
<1>a. /\ MaxAttempts \in Nat \ {0}
      /\ \A c \in Confirmations : confirmation[c].attempts \in 0..MaxAttempts
    BY ConfirmationAssumption DEF TypeOK, Row
<1> SUFFICES Good
    BY DEF JobInv
<1> USE DEF JobRow, JobState
<1>u. ASSUME UNCHANGED job PROVE Good
    BY <1>t, <1>u
<1>e. ASSUME NEW c \in Confirmations, NEW r,
             job' = [job EXCEPT ![c] = r], Fine(r)
      PROVE  Good
    BY <1>t, <1>e
<1>s. ASSUME NEW c \in Confirmations, NEW state \in {"WAITING", "FAILED", "COMPLETED"},
             job' = [job EXCEPT ![c].state = state, ![c].holder = 0],
             job[c].state \in {"WAITING", "ACTIVE"}
      PROVE  Good
    <2> DEFINE r == [job[c] EXCEPT !.state = state, !.holder = 0]
    <2>1. job' = [job EXCEPT ![c] = r]
        BY <1>t, <1>s
    <2>2. job[c] \in JobRow /\ job[c].tries < MaxAttempts /\ 0 \in 0..MaxAttempts
        BY <1>t, <1>a, <1>s
    <2>3. r \in JobRow /\ r.state = state /\ r.tries = job[c].tries /\ r.holder = 0
        BY <2>2
    <2>4. Fine(r)
        BY <1>s, <2>2, <2>3
    <2> HIDE DEF r, Fine
    <2>. QED BY <1>e, <2>1, <2>4
<1>f. ASSUME NEW c \in Confirmations, FailJob(c), job[c].state \in {"WAITING", "ACTIVE"}
      PROVE  Good
    <2> DEFINE exhausted == job[c].tries + 1 >= MaxAttempts
               r == [state  |-> IF exhausted THEN "FAILED" ELSE "WAITING",
                     tries  |-> job[c].tries + 1,
                     holder |-> 0,
                     owes   |-> job[c].owes \/ exhausted]
    <2>1. job' = [job EXCEPT ![c] = r]
        BY <1>f DEF FailJob
    <2>2. job[c].tries \in 0..MaxAttempts /\ job[c].tries < MaxAttempts
        BY <1>t, <1>f
    <2>3. r.tries \in 0..MaxAttempts /\ 0 \in 0..MaxAttempts
        BY <1>a, <2>2
    <2>4. r.state = "WAITING" => r.tries < MaxAttempts
        BY <1>a, <2>2
    <2>5. r.owes \in BOOLEAN /\ r.state \in {"FAILED", "WAITING"} /\ r.holder = 0
        BY <1>t
    <2>6. Fine(r)
        BY <2>3, <2>4, <2>5
    <2> HIDE DEF r, Fine
    <2>. QED BY <1>e, <2>1, <2>6
<1>h. \A c \in Confirmations, n \in Attempts : job[c].holder = n => job[c].state = "ACTIVE"
    BY <1>t, <1>a DEF Attempts
<1>1. ASSUME NEW c \in Confirmations, ChangedAnswer(c) PROVE Good
    BY <1>1, <1>u DEF ChangedAnswer
<1>2. ASSUME NEW c \in Confirmations, Enqueue(c) PROVE Good
    <2> DEFINE r == [job[c] EXCEPT !.state = "WAITING", !.tries = 0]
    <2>1. job' = [job EXCEPT ![c] =
                     IF job[c].state \in {"ABSENT", "FAILED"} THEN r ELSE job[c]]
        BY <1>2 DEF Enqueue, AddOrRetry
    <2>2. ASSUME job[c].state \in {"ABSENT", "FAILED"} PROVE Fine(r)
        <3>1. job[c] \in JobRow /\ job[c].holder = 0 /\ 0 \in 0..MaxAttempts
            BY <1>t, <1>a, <2>2
        <3>2. r \in JobRow /\ r.state = "WAITING" /\ r.tries = 0 /\ r.holder = 0
            BY <3>1
        <3>. QED BY <1>a, <3>2
    <2>3. Fine(job[c])
        BY <1>t
    <2> HIDE DEF r, Fine
    <2>. QED BY <1>e, <2>1, <2>2, <2>3
<1>3. ASSUME NEW c \in Confirmations,
             ClaimInterrupted(c) \/ ClaimSkipped(c) \/ ClaimSuperseded(c)
      PROVE  Good
    BY <1>3, <1>s DEF ClaimInterrupted, ClaimSkipped, ClaimSuperseded, CompleteJob
<1>4. ASSUME NEW c \in Confirmations, ClaimDeferred(c) \/ ClaimFails(c) PROVE Good
    BY <1>4, <1>f DEF ClaimDeferred, ClaimFails
<1>5. ASSUME NEW c \in Confirmations, ClaimToSend(c) PROVE Good
    <2> DEFINE n == confirmation[c].attempts + 1
               r == [job[c] EXCEPT !.state = "ACTIVE", !.holder = n]
    <2>1. /\ job' = [job EXCEPT ![c].state = "ACTIVE", ![c].holder = n]
          /\ job[c].state = "WAITING" /\ n <= MaxAttempts
        BY <1>5 DEF ClaimToSend
    <2>2. job' = [job EXCEPT ![c] = r]
        BY <1>t, <2>1
    <2>3. n \in 0..MaxAttempts /\ n # 0
        BY <1>a, <2>1
    <2> HIDE DEF n
    <2>4. Fine(r)
        BY <1>t, <2>1, <2>3
    <2> HIDE DEF r, Fine
    <2>. QED BY <1>e, <2>2, <2>4
<1>6. ASSUME NEW c \in Confirmations, JobStalls(c) PROVE Good
    <2>1. PICK state \in {"WAITING", "FAILED"} :
              job' = [job EXCEPT ![c].state = state, ![c].holder = 0]
        BY <1>6 DEF JobStalls
    <2>. QED BY <1>6, <1>s, <2>1 DEF JobStalls
<1>7. ASSUME NEW c \in Confirmations, RecordExhausted(c) \/ ExhaustionLost(c) PROVE Good
    <2> DEFINE r == [job[c] EXCEPT !.owes = FALSE]
    <2>1. job' = [job EXCEPT ![c] = r]
        BY <1>7, <1>t DEF RecordExhausted, ExhaustionLost
    <2>2. Fine(r)
        BY <1>t
    <2> HIDE DEF r, Fine
    <2>. QED BY <1>e, <2>1, <2>2
<1>8. ASSUME NEW c \in Confirmations, JobRemoved(c) PROVE Good
    <2> DEFINE r == [job[c] EXCEPT !.state = "ABSENT", !.tries = 0]
    <2>1. job' = [job EXCEPT ![c] = r] /\ job[c].state = "COMPLETED"
        BY <1>8, <1>t DEF JobRemoved
    <2>2. Fine(r)
        BY <1>t, <1>a, <2>1
    <2> HIDE DEF r, Fine
    <2>. QED BY <1>e, <2>1, <2>2
<1>9. ASSUME NEW c \in Confirmations, NEW n \in Attempts,
             Answer(c, n) \/ RecordAcceptedAborts(c, n)
      PROVE  Good
    BY <1>9, <1>u DEF Answer, ProviderAccepts, ProviderRefuses, RecordAcceptedAborts
<1>10. ASSUME NEW c \in Confirmations, NEW n \in Attempts,
              WorkerCrash(c, n) \/ RecordAccepted(c, n)
       PROVE  Good
    BY <1>10, <1>h, <1>s, <1>u DEF WorkerCrash, RecordAccepted, CompleteJob
<1>11. ASSUME NEW c \in Confirmations, NEW n \in Attempts, RecordFailureAborts(c, n)
       PROVE  Good
    BY <1>11, <1>h, <1>f, <1>u DEF RecordFailureAborts
<1>12. ASSUME NEW c \in Confirmations, NEW n \in Attempts, RecordFailure(c, n)
       PROVE  Good
    <2>1. \E retry \in BOOLEAN : SettleJob(c, n, retry)
        BY <1>12 DEF RecordFailure, Retryable
    <2>. QED BY <1>h, <1>f, <1>s, <1>u, <2>1 DEF SettleJob, CompleteJob
<1>13. ASSUME SweepLists \/ UNCHANGED vars PROVE Good
    BY <1>u, <1>13 DEF SweepLists, vars
<1> HIDE DEF Good
<1>. QED
    BY <1>1, <1>2, <1>3, <1>4, <1>5, <1>6, <1>7, <1>8, <1>9, <1>10, <1>11, <1>12, <1>13
       DEF Next, Claim, Record

(* The rows keep their type and their constraints. *)
LEMMA RowTypeStep ==
    ASSUME TypeOK, [Next]_vars
    PROVE  /\ confirmation' \in [Confirmations -> Row]
           /\ \A c \in Confirmations :
                 /\ confirmation'[c].status = "SENDING" => confirmation'[c].attempts > 0
                 /\ confirmation'[c].status = "FAILED" => confirmation'[c].code # None
<1> DEFINE Fine(r) == /\ r \in Row
                      /\ r.status = "SENDING" => r.attempts > 0
                      /\ r.status = "FAILED" => r.code # None
           Good == /\ confirmation' \in [Confirmations -> Row]
                   /\ \A c \in Confirmations : Fine(confirmation'[c])
<1>t. /\ confirmation \in [Confirmations -> Row]
      /\ \A c \in Confirmations : Fine(confirmation[c])
    BY DEF TypeOK
<1> SUFFICES Good
    OBVIOUS
<1>a. MaxAttempts \in Nat \ {0}
    BY ConfirmationAssumption
<1> USE DEF Row, Status, Code, None
<1>u. ASSUME UNCHANGED confirmation PROVE Good
    BY <1>t, <1>u
<1>e. ASSUME NEW c \in Confirmations, NEW r,
             confirmation' = [confirmation EXCEPT ![c] = r], Fine(r)
      PROVE  Good
    BY <1>t, <1>e
<1>f. ASSUME NEW c \in Confirmations, NEW class \in FailureClass, NEW code \in Code \ {None}
      PROVE  Fine(Failed(confirmation[c], class, code))
    BY <1>t DEF Failed
<1>g. ASSUME NEW c \in Confirmations, NEW class \in FailureClass, NEW code \in Code \ {None},
             Fail(c, class, code)
      PROVE  Good
    <2>1. Fine(Failed(confirmation[c], class, code))
        BY <1>f
    <2> HIDE DEF Fine
    <2>. QED BY <1>e, <1>g, <2>1 DEF Fail
<1>s. \A c \in Confirmations : Fine(Superseded(confirmation[c]))
    <2>1. "PERMANENT" \in FailureClass /\ "SUPERSEDED_BY_NEWER_RESPONSE" \in Code \ {None}
        BY DEF FailureClass
    <2> HIDE DEF Fine
    <2>. QED BY <1>f, <2>1 DEF Superseded
<1>1. ASSUME NEW c \in Confirmations, ChangedAnswer(c) PROVE Good
    <2> DEFINE q == [confirmation[c] EXCEPT !.status = "QUEUED"]
    <2>1. confirmation' = [d \in Confirmations |->
                              IF d = c THEN q ELSE Replaced(confirmation[d])]
        BY <1>1 DEF ChangedAnswer
    <2>2. Fine(q)
        BY <1>t
    <2> HIDE DEF q
    <2>3. \A d \in Confirmations : Fine(Replaced(confirmation[d]))
        BY <1>t, <1>s DEF Replaced
    <2>. QED BY <2>1, <2>2, <2>3
<1>2. ASSUME NEW c \in Confirmations, ClaimInterrupted(c) PROVE Good
    <2>1. "AMBIGUOUS" \in FailureClass /\ "WORKER_INTERRUPTED" \in Code \ {None}
        BY DEF FailureClass
    <2> HIDE DEF Good
    <2>. QED BY <1>2, <1>g, <2>1 DEF ClaimInterrupted
<1>3. ASSUME NEW c \in Confirmations, ClaimSuperseded(c) PROVE Good
    <2>1. confirmation' = [confirmation EXCEPT ![c] = Superseded(confirmation[c])]
        BY <1>3 DEF ClaimSuperseded
    <2> HIDE DEF Fine
    <2>. QED BY <1>e, <1>s, <2>1
<1>4. ASSUME NEW c \in Confirmations, ClaimToSend(c) PROVE Good
    <2> DEFINE n == confirmation[c].attempts + 1
               r == [status |-> "SENDING", attempts |-> n, class |-> None, code |-> None]
    <2>1. confirmation' = [confirmation EXCEPT ![c] = r] /\ n <= MaxAttempts
        BY <1>4 DEF ClaimToSend
    <2>2. n \in 0..MaxAttempts /\ n > 0
        BY <1>t, <1>a, <2>1
    <2> HIDE DEF n
    <2>3. Fine(r)
        BY <2>2
    <2> HIDE DEF r, Fine
    <2>. QED BY <1>e, <2>1, <2>3
<1>5. ASSUME NEW c \in Confirmations, RecordExhausted(c) PROVE Good
    <2>1. ExhaustedClass(c) \in FailureClass /\ "JOB_RETRY_EXHAUSTED" \in Code \ {None}
        BY DEF FailureClass, ExhaustedClass
    <2> HIDE DEF Good
    <2>. QED BY <1>5, <1>g, <1>u, <2>1 DEF RecordExhausted
<1>6. ASSUME NEW c \in Confirmations, NEW n \in Attempts, RecordAccepted(c, n) PROVE Good
    <2> DEFINE r == [confirmation[c] EXCEPT !.status = "SENT", !.class = None, !.code = None]
    <2>1. \/ confirmation' = [confirmation EXCEPT ![c] = r]
          \/ UNCHANGED confirmation
        BY <1>6 DEF RecordAccepted
    <2>2. Fine(r)
        BY <1>t
    <2> HIDE DEF r, Fine
    <2>. QED BY <1>e, <1>u, <2>1, <2>2
<1>7. ASSUME NEW c \in Confirmations, NEW n \in Attempts, RecordFailure(c, n) PROVE Good
    <2> DEFINE class == flight[c][n]
    <2>1. /\ class \in FailureClass
          /\ \/ UNCHANGED confirmation
             \/ \E st \in {"QUEUED", "FAILED"} : confirmation' = [confirmation EXCEPT ![c] =
                   [confirmation[c] EXCEPT !.status = st, !.class = class, !.code = "PROVIDER"]]
        <3> DEFINE st == IF Retryable(class, n, MaxAttempts) THEN "QUEUED" ELSE "FAILED"
        <3>1. /\ class \in FailureClass
              /\ \/ UNCHANGED confirmation
                 \/ confirmation' = [confirmation EXCEPT ![c] =
                   [confirmation[c] EXCEPT !.status = st, !.class = class, !.code = "PROVIDER"]]
            BY <1>7 DEF RecordFailure
        <3>2. st \in {"QUEUED", "FAILED"}
            OBVIOUS
        <3> HIDE DEF st
        <3>. QED BY <3>1, <3>2
    <2> HIDE DEF class
    <2>2. ASSUME NEW st \in {"QUEUED", "FAILED"}
          PROVE  Fine([confirmation[c] EXCEPT !.status = st, !.class = class,
                                              !.code = "PROVIDER"])
        BY <1>t, <2>1
    <2> HIDE DEF Fine
    <2>. QED BY <1>e, <1>u, <2>1, <2>2
<1>8. ASSUME NEW c \in Confirmations,
             \/ Enqueue(c) \/ ClaimSkipped(c) \/ ClaimDeferred(c) \/ ClaimFails(c)
             \/ JobStalls(c) \/ ExhaustionLost(c) \/ JobRemoved(c)
      PROVE  Good
    BY <1>8, <1>u DEF Enqueue, ClaimSkipped, ClaimDeferred, ClaimFails, JobStalls,
           ExhaustionLost, JobRemoved
<1>9. ASSUME NEW c \in Confirmations, NEW n \in Attempts,
             \/ Answer(c, n) \/ WorkerCrash(c, n) \/ RecordAcceptedAborts(c, n)
             \/ RecordFailureAborts(c, n)
      PROVE  Good
    BY <1>9, <1>u DEF Answer, ProviderAccepts, ProviderRefuses, WorkerCrash,
           RecordAcceptedAborts, RecordFailureAborts
<1>10. ASSUME SweepLists \/ UNCHANGED vars PROVE Good
    BY <1>u, <1>10 DEF SweepLists, vars
<1> HIDE DEF Good
<1>. QED BY <1>1, <1>2, <1>3, <1>4, <1>5, <1>6, <1>7, <1>8, <1>9, <1>10
       DEF Next, Claim, Record

(* And so do the executions, the provider's record and the rest. *)
LEMMA OtherTypeStep ==
    ASSUME TypeOK, [Next]_vars
    PROVE  /\ flight' \in [Confirmations -> [Attempts -> Flight]]
           /\ accepted' \in Seq(Confirmations \X Attempts)
           /\ due' \subseteq Confirmations
           /\ faults' \in 0..MaxFaults
<1> DEFINE Good == /\ flight' \in [Confirmations -> [Attempts -> Flight]]
                   /\ accepted' \in Seq(Confirmations \X Attempts)
                   /\ due' \subseteq Confirmations
                   /\ faults' \in 0..MaxFaults
<1>t. /\ flight \in [Confirmations -> [Attempts -> Flight]]
      /\ accepted \in Seq(Confirmations \X Attempts)
      /\ due \subseteq Confirmations
      /\ faults \in 0..MaxFaults
    BY DEF TypeOK
<1>f. Fault \/ UNCHANGED faults => faults' \in 0..MaxFaults
    BY <1>t, ConfirmationAssumption DEF Fault
<1>l. ASSUME NEW c \in Confirmations, NEW n, NEW f \in Flight,
             flight' = [flight EXCEPT ![c][n] = f]
      PROVE  flight' \in [Confirmations -> [Attempts -> Flight]]
    BY <1>t, <1>l
<1>a. ASSUME NEW c \in Confirmations, NEW n \in Attempts,
             accepted' = Append(accepted, <<c, n>>) \/ UNCHANGED accepted
      PROVE  accepted' \in Seq(Confirmations \X Attempts)
    <2>1. \A S : \A s \in Seq(S), e \in S : Append(s, e) \in Seq(S)
        OBVIOUS
    <2>2. <<c, n>> \in Confirmations \X Attempts
        OBVIOUS
    <2> DEFINE S == Confirmations \X Attempts
    <2> HIDE DEF S
    <2>3. accepted \in Seq(S) /\ <<c, n>> \in S
        BY <1>t, <2>2 DEF S
    <2>4. accepted' \in Seq(S)
        BY <1>a, <2>1, <2>3
    <2>. QED BY <2>4 DEF S
<1>i. {"IDLE", "CALLING", "OK", "AMBIGUOUS"} \cup FailureClass \subseteq Flight
    BY DEF Flight, FailureClass
<1>1. ASSUME NEW c \in Confirmations,
             ChangedAnswer(c) \/ Enqueue(c)
      PROVE  Good
    BY <1>t, <1>f, <1>1 DEF ChangedAnswer, Enqueue
<1>2. ASSUME NEW c \in Confirmations,
             \/ ClaimInterrupted(c) \/ ClaimSkipped(c) \/ ClaimSuperseded(c)
             \/ ClaimDeferred(c) \/ ClaimFails(c) \/ JobStalls(c)
             \/ RecordExhausted(c) \/ ExhaustionLost(c) \/ JobRemoved(c)
      PROVE  Good
    BY <1>t, <1>f, <1>2 DEF ClaimInterrupted, ClaimSkipped, ClaimSuperseded, ClaimDeferred,
           ClaimFails, JobStalls, RecordExhausted, ExhaustionLost, JobRemoved
<1>3. ASSUME NEW c \in Confirmations, ClaimToSend(c) PROVE Good
    BY <1>t, <1>f, <1>l, <1>i, <1>3 DEF ClaimToSend
<1>4. ASSUME NEW c \in Confirmations, NEW n \in Attempts,
             ProviderAccepts(c, n) \/ ProviderRefuses(c, n) \/ WorkerCrash(c, n)
      PROVE  Good
    <2>1. \E f \in Flight : flight' = [flight EXCEPT ![c][n] = f]
        BY <1>i, <1>4 DEF ProviderAccepts, ProviderRefuses, WorkerCrash
    <2>2. accepted' = Append(accepted, <<c, n>>) \/ UNCHANGED accepted
        BY <1>4 DEF ProviderAccepts, ProviderRefuses, WorkerCrash
    <2>. QED BY <1>t, <1>f, <1>l, <1>a, <1>4, <2>1, <2>2
             DEF ProviderAccepts, ProviderRefuses, WorkerCrash
<1>5. ASSUME NEW c \in Confirmations, NEW n \in Attempts,
             \/ RecordAccepted(c, n) \/ RecordFailure(c, n)
             \/ RecordAcceptedAborts(c, n) \/ RecordFailureAborts(c, n)
      PROVE  Good
    BY <1>t, <1>f, <1>l, <1>i, <1>5
       DEF RecordAccepted, RecordFailure, RecordAcceptedAborts, RecordFailureAborts, Land
<1>6. ASSUME UNCHANGED vars PROVE Good
    BY <1>t, <1>6 DEF vars
<1>7. ASSUME SweepLists PROVE Good
    BY <1>t, <1>f, <1>7 DEF SweepLists
<1> HIDE DEF Good
<1>8. Good
    BY <1>1, <1>2, <1>3, <1>4, <1>5, <1>6, <1>7 DEF Next, Claim, Answer, Record
<1>. QED BY <1>8 DEF Good

-----------------------------------------------------------------------------
(* The rows, the attempts under way and the acceptances stay in step. *)

(* An acceptance is one more entry in the order of acceptances. *)
LEMMA AcceptedGrows ==
    ASSUME TypeOK, NEW c \in Confirmations, NEW n \in Attempts,
           accepted' = Append(accepted, <<c, n>>)
    PROVE  /\ Len(accepted) \in Nat
           /\ Len(accepted') = Len(accepted) + 1
           /\ \A i \in 1..Len(accepted) : accepted'[i] = accepted[i]
           /\ accepted'[Len(accepted) + 1] = <<c, n>>
           /\ \A d, k : Accepted(d, k)' <=> Accepted(d, k) \/ <<d, k>> = <<c, n>>
<1> DEFINE S == Confirmations \X Attempts
<1>1. accepted \in Seq(S)
    BY DEF TypeOK
<1> HIDE DEF S
<1>2. /\ Len(accepted) \in Nat
      /\ Len(accepted') = Len(accepted) + 1
      /\ \A i \in 1..Len(accepted) : accepted'[i] = accepted[i]
      /\ accepted'[Len(accepted) + 1] = <<c, n>>
    BY <1>1
<1>3. ASSUME NEW d, NEW k
      PROVE  Accepted(d, k)' <=> Accepted(d, k) \/ <<d, k>> = <<c, n>>
    <2> DEFINE L == Len(accepted)
    <2>1. \A i : i \in 1..(L + 1) <=> i \in 1..L \/ i = L + 1
        BY <1>2
    <2> HIDE DEF L
    <2>2. Accepted(d, k)' <=> \E i \in 1..(L + 1) : accepted'[i] = <<d, k>>
        BY <1>2 DEF Accepted, L
    <2>. QED BY <1>2, <2>1, <2>2 DEF Accepted, L
<1>. QED BY <1>2, <1>3

(* Only a start begins an attempt, and an uncertain outcome is final. *)
LEMMA RowStepFacts ==
    ASSUME NEW c, confirmation[c] \in Row, RowStep(c)
    PROVE  /\ Started(c) \/ confirmation'[c].attempts = confirmation[c].attempts
           /\ confirmation'[c].status = "SENDING" =>
                  Started(c) \/ confirmation[c].status = "SENDING"
           /\ Uncertain(c) => Uncertain(c)'
<1>1. CASE UNCHANGED confirmation[c]
    BY <1>1 DEF Uncertain
<1>2. CASE Answered(c)
    BY <1>2 DEF Answered, Uncertain, Row
<1>3. CASE Overridden(c)
    BY <1>3 DEF Overridden, Superseded, Failed, Uncertain, Row
<1>4. CASE GivenUp(c)
    <2>1. PICK code : confirmation'[c] = Failed(confirmation[c], ExhaustedClass(c), code)
        BY <1>4 DEF GivenUp
    <2>2. confirmation'[c].attempts = confirmation[c].attempts
        BY <2>1 DEF Failed, Row
    <2>3. confirmation'[c].status = "FAILED" /\ ~Uncertain(c)
        BY <1>4, <2>1 DEF GivenUp, Failed, Row, Uncertain, Active
    <2>. QED BY <2>2, <2>3
<1>5. CASE Started(c)
    BY <1>5 DEF Started, Unsent, Uncertain
<1>6. CASE Sent(c)
    BY <1>6 DEF Sent, Uncertain, Row
<1>7. CASE NotSent(c)
    <2>1. confirmation[c].status = "SENDING"
        BY <1>7 DEF NotSent
    <2>2. confirmation'[c].attempts = confirmation[c].attempts
        BY <1>7 DEF NotSent, Row
    <2>. QED BY <2>1, <2>2 DEF Uncertain
<1>. QED BY <1>1, <1>2, <1>3, <1>4, <1>5, <1>6, <1>7 DEF RowStep

(* A step keeps rows, attempts and acceptances in step with one another. *)
LEMMA RowsStep ==
    ASSUME TypeOK, TypeOK', RowsInv, Effect
    PROVE  RowsInv'
<1>t. /\ confirmation \in [Confirmations -> Row]
      /\ flight \in [Confirmations -> [Attempts -> Flight]]
      /\ \A c \in Confirmations : confirmation[c].attempts \in Nat
    BY DEF TypeOK, Row
<1>i. \A c \in Confirmations : RowInv(c) /\ FlightInv(c) /\ AcceptInv(c)
    BY DEF RowsInv
<1>1. CASE Accepts
    <2>1. PICK c \in Confirmations, n \in Attempts :
              /\ flight[c][n] = "CALLING"
              /\ accepted' = Append(accepted, <<c, n>>)
              /\ \E answer \in {"IDLE", "OK", "AMBIGUOUS"} :
                     flight' = [flight EXCEPT ![c][n] = answer]
              /\ UNCHANGED confirmation
        BY <1>1 DEF Accepts
    <2>2. PICK answer \in {"IDLE", "OK", "AMBIGUOUS"} :
              flight' = [flight EXCEPT ![c][n] = answer]
        BY <2>1
    <2>3. ASSUME NEW d \in Confirmations, NEW k \in Attempts
          PROVE  Accepted(d, k)' <=> Accepted(d, k) \/ (d = c /\ k = n)
        BY <2>1, AcceptedGrows
    <2>4. ASSUME NEW d \in Confirmations, NEW k \in Attempts
          PROVE  flight'[d][k] = IF d = c /\ k = n THEN answer ELSE flight[d][k]
        BY <1>t, <2>2
    <2>5. n = confirmation[c].attempts /\ InDoubt(c)
        BY <1>i, <2>1 DEF FlightInv
    <2>6. ASSUME NEW d \in Confirmations PROVE (RowInv(d) /\ FlightInv(d) /\ AcceptInv(d))'
        <3>1. RowInv(d)'
            BY <1>i, <2>1 DEF RowInv
        <3>2. InDoubt(d)' <=> InDoubt(d)
            BY <2>1 DEF InDoubt, Uncertain
        <3>3. FlightInv(d)'
            BY <1>i, <2>1, <2>4, <2>5, <3>2 DEF FlightInv
        <3>4. AcceptInv(d)'
            BY <1>i, <2>1, <2>3, <2>4, <2>5, <3>2 DEF AcceptInv
        <3>. QED BY <3>1, <3>3, <3>4
    <2>7. Serial'
        BY <2>1 DEF RowsInv, Serial
    <2>. QED BY <2>6, <2>7 DEF RowsInv
<1>2. ASSUME UNCHANGED accepted, \A c \in Confirmations : RowStep(c)
      PROVE  RowsInv'
    <2>a. \A d, k : Accepted(d, k)' <=> Accepted(d, k)
        BY <1>2 DEF Accepted
    <2>1. ASSUME NEW c \in Confirmations PROVE (RowInv(c) /\ FlightInv(c) /\ AcceptInv(c))'
        <3>t. confirmation[c] \in Row /\ flight[c] \in [Attempts -> Flight]
            BY <1>t
        <3>i. RowInv(c) /\ FlightInv(c) /\ AcceptInv(c)
            BY <1>i
        <3>1. CASE UNCHANGED confirmation[c] /\ Lands(c)
            <4>1. RowInv(c)' /\ (InDoubt(c)' <=> InDoubt(c))
                BY <3>i, <3>1 DEF RowInv, InDoubt, Uncertain
            <4>2. FlightInv(c)'
                BY <3>i, <3>1, <4>1 DEF FlightInv, Lands
            <4>3. AcceptInv(c)'
                BY <3>i, <3>1, <4>1, <2>a DEF AcceptInv, Lands
            <4>. QED BY <4>1, <4>2, <4>3
        (* A row that waits, or does not exist yet, has left no trace. *)
        <3>q. confirmation[c].status \in {"ABSENT", "QUEUED"} =>
                  \A n \in Attempts : flight[c][n] = "IDLE" /\ ~Accepted(c, n)
            BY <3>i DEF FlightInv, AcceptInv, InDoubt, Uncertain
        <3>2. CASE UNCHANGED flight[c] /\ (Answered(c) \/ Overridden(c))
            <4>1. RowInv(c)'
                BY <3>t, <3>i, <3>2 DEF RowInv, Answered, Overridden, Superseded, Failed, Row
            <4>2. \A n \in Attempts : flight'[c][n] = "IDLE" /\ ~Accepted(c, n)'
                BY <2>a, <3>q, <3>2 DEF Answered, Overridden
            <4>. QED BY <4>1, <4>2 DEF FlightInv, AcceptInv
        <3>3. CASE UNCHANGED flight[c] /\ GivenUp(c)
            <4>1. PICK code \in {"WORKER_INTERRUPTED", "JOB_RETRY_EXHAUSTED"} :
                      confirmation'[c] = Failed(confirmation[c], ExhaustedClass(c), code)
                BY <3>3 DEF GivenUp
            <4>2. /\ confirmation'[c].status = "FAILED"
                  /\ confirmation'[c].class = ExhaustedClass(c)
                  /\ confirmation'[c].code = code
                  /\ confirmation'[c].attempts = confirmation[c].attempts
                BY <3>t, <4>1 DEF Failed, Row
            <4>3. RowInv(c)'
                BY <4>2 DEF RowInv
            <4>4. CASE confirmation[c].status = "SENDING"
                <5>1. InDoubt(c)'
                    BY <4>2, <4>4 DEF InDoubt, Uncertain, ExhaustedClass
                <5>2. FlightInv(c)' /\ AcceptInv(c)'
                    BY <2>a, <3>i, <3>3, <4>2, <5>1 DEF FlightInv, AcceptInv
                <5>. QED BY <4>3, <5>2
            <4>5. CASE confirmation[c].status = "QUEUED"
                <5>1. \A n \in Attempts : flight'[c][n] = "IDLE" /\ ~Accepted(c, n)'
                    BY <2>a, <3>q, <3>3, <4>5
                <5>. QED BY <4>3, <5>1 DEF FlightInv, AcceptInv
            <4>. QED BY <3>3, <4>4, <4>5 DEF GivenUp, Active
        <3>4. CASE Started(c)
            <4>1. /\ confirmation'[c].status = "SENDING"
                  /\ confirmation'[c].attempts = confirmation[c].attempts + 1
                  /\ confirmation'[c].code = None
                BY <3>4 DEF Started
            <4>2. \A n \in Attempts :
                      /\ ~Accepted(c, n)'
                      /\ flight'[c][n] # "IDLE" => n = confirmation[c].attempts + 1
                BY <2>a, <3>t, <3>q, <3>4 DEF Started, Unsent
            <4>3. RowInv(c)' /\ InDoubt(c)'
                BY <4>1 DEF RowInv, InDoubt, None
            <4>. QED BY <4>1, <4>2, <4>3 DEF FlightInv, AcceptInv
        <3>5. CASE Sent(c)
            <4>1. /\ confirmation'[c].status = "SENT"
                  /\ confirmation'[c].code = None
                  /\ confirmation'[c].attempts = confirmation[c].attempts
                BY <3>t, <3>5 DEF Sent, Row
            <4>2. \A n \in Attempts : flight'[c][n] = "IDLE"
                BY <3>t, <3>i, <3>5 DEF Sent, FlightInv
            <4>3. \A n \in Attempts : Accepted(c, n)' => n = confirmation[c].attempts
                BY <2>a, <3>i DEF AcceptInv
            <4>. QED BY <4>1, <4>2, <4>3 DEF RowInv, FlightInv, AcceptInv, None
        <3>6. CASE NotSent(c)
            <4> DEFINE n == confirmation[c].attempts
            <4>1. /\ flight[c][n] \in FailureClass
                  /\ confirmation'[c].status \in {"QUEUED", "FAILED"}
                  /\ confirmation'[c].status = "QUEUED" => flight[c][n] = "TRANSIENT"
                  /\ confirmation'[c].class = flight[c][n]
                  /\ confirmation'[c].code = "PROVIDER"
                  /\ confirmation'[c].attempts = n
                BY <3>t, <3>6 DEF NotSent, Row
            <4>2. \A k \in Attempts : flight'[c][k] = "IDLE"
                BY <3>t, <3>i, <3>6 DEF NotSent, FlightInv
            <4>3. \A k \in Attempts : Accepted(c, k) => k = n /\ flight[c][n] = "AMBIGUOUS"
                BY <3>i, <4>1 DEF AcceptInv, FailureClass
            <4>4. flight[c][n] = "AMBIGUOUS" => InDoubt(c)'
                BY <4>1 DEF InDoubt, Uncertain
            <4>. QED BY <2>a, <4>1, <4>2, <4>3, <4>4 DEF RowInv, FlightInv, AcceptInv
        <3>. QED BY <1>2, <3>1, <3>2, <3>3, <3>4, <3>5, <3>6 DEF RowStep
    <2>2. Serial'
        <3> SUFFICES ASSUME NEW c \in Confirmations, NEW d \in Confirmations, d > c,
                            confirmation'[c].status = "SENDING"
                     PROVE  confirmation'[d].attempts = 0
            BY DEF Serial
        <3>1. Started(d) \/ confirmation'[d].attempts = confirmation[d].attempts
            BY <1>2, <1>t, RowStepFacts
        <3>2. Started(c) \/ confirmation[c].status = "SENDING"
            BY <1>2, <1>t, RowStepFacts
        <3>3. CASE Started(c)
            <4>1. confirmation[d].status = "ABSENT"
                BY <3>3 DEF Started, Newer, Exists
            <4>2. confirmation[d].attempts = 0 /\ ~Started(d)
                BY <1>i, <4>1 DEF RowInv, Started, Unsent
            <4>. QED BY <3>1, <4>2
        <3>4. CASE confirmation[c].status = "SENDING"
            <4>1. EarlierSending(d)
                BY <3>4 DEF EarlierSending, Confirmations
            <4>2. ~Started(d) /\ confirmation[d].attempts = 0
                BY <3>4, <4>1 DEF RowsInv, Serial, Started
            <4>. QED BY <3>1, <4>2
        <3>. QED BY <3>2, <3>3, <3>4
    <2>. QED BY <2>1, <2>2 DEF RowsInv
<1>. QED BY <1>1, <1>2 DEF Effect

(* No acceptance repeats a confirmation, and one that comes after a newer  *)
(* confirmation's is of a confirmation already given up as uncertain.      *)
LEMMA OrderStep ==
    ASSUME TypeOK, RowsInv, ConfirmedOnce, OvertakenOnlyIfUncertain, Effect
    PROVE  ConfirmedOnce' /\ OvertakenOnlyIfUncertain'
<1>t. /\ confirmation \in [Confirmations -> Row]
      /\ \A i \in 1..Len(accepted) : accepted[i] \in Confirmations \X Attempts
    BY DEF TypeOK
<1>o. \A i, j \in 1..Len(accepted) :
          i < j /\ accepted[i][1] > accepted[j][1] => Uncertain(accepted[j][1])
    BY DEF OvertakenOnlyIfUncertain, Uncertain
<1>1. CASE Accepts
    <2>1. PICK c \in Confirmations, n \in Attempts :
              /\ flight[c][n] = "CALLING"
              /\ accepted' = Append(accepted, <<c, n>>)
              /\ UNCHANGED confirmation
        BY <1>1 DEF Accepts
    <2> DEFINE L == Len(accepted)
    <2>2. /\ L \in Nat
          /\ Len(accepted') = L + 1
          /\ \A i \in 1..L : accepted'[i] = accepted[i]
          /\ accepted'[L + 1] = <<c, n>>
        BY <2>1, AcceptedGrows
    <2>3. n = confirmation[c].attempts /\ InDoubt(c)
        BY <2>1 DEF RowsInv, FlightInv
    <2>4. ASSUME NEW i \in 1..L
          PROVE  /\ accepted[i][1] # c
                 /\ accepted[i][1] > c => Uncertain(c)
        <3>1. PICK d \in Confirmations, k \in Attempts : accepted[i] = <<d, k>>
            BY <1>t
        <3>2. Accepted(d, k)
            BY <3>1 DEF Accepted
        <3>3. k = confirmation[d].attempts /\ flight[d][k] # "CALLING"
            BY <3>2 DEF RowsInv, AcceptInv
        <3>4. d # c
            BY <2>1, <2>3, <3>3
        <3>5. ASSUME d > c PROVE Uncertain(c)
            <4>1. confirmation[d].attempts # 0
                BY <3>3 DEF Attempts
            <4>2. confirmation[c].status # "SENDING"
                BY <3>5, <4>1 DEF RowsInv, Serial
            <4>. QED BY <2>3, <4>2 DEF InDoubt
        <3>. QED BY <3>1, <3>4, <3>5
    <2>5. \A i : i \in 1..(L + 1) => i \in 1..L \/ i = L + 1
        BY <2>2
    <2> HIDE DEF L
    <2>6. ConfirmedOnce'
        <3> SUFFICES ASSUME NEW i \in 1..(L + 1), NEW j \in 1..(L + 1),
                            accepted'[i][1] = accepted'[j][1]
                     PROVE  i = j
            BY <2>2 DEF ConfirmedOnce
        <3>1. CASE i \in 1..L /\ j \in 1..L
            BY <2>2, <3>1 DEF ConfirmedOnce, L
        <3>2. CASE i = L + 1 /\ j \in 1..L
            BY <2>2, <2>4, <3>2
        <3>3. CASE i \in 1..L /\ j = L + 1
            BY <2>2, <2>4, <3>3
        <3>. QED BY <2>5, <3>1, <3>2, <3>3
    <2>7. OvertakenOnlyIfUncertain'
        <3> SUFFICES ASSUME NEW i \in 1..(L + 1), NEW j \in 1..(L + 1), i < j,
                            accepted'[i][1] > accepted'[j][1]
                     PROVE  Uncertain(accepted'[j][1])
            BY <2>1, <2>2 DEF OvertakenOnlyIfUncertain, Uncertain
        <3>1. i \in 1..L
            BY <2>2, <2>5
        <3>2. CASE j \in 1..L
            BY <1>o, <2>2, <3>1, <3>2 DEF L
        <3>3. CASE j = L + 1
            BY <2>2, <2>4, <3>1, <3>3
        <3>. QED BY <2>5, <3>2, <3>3
    <2>. QED BY <2>6, <2>7
<1>2. CASE UNCHANGED accepted /\ \A c \in Confirmations : RowStep(c)
    <2>1. ConfirmedOnce'
        BY <1>2 DEF ConfirmedOnce
    <2>2. \A c \in Confirmations : Uncertain(c) => Uncertain(c)'
        BY <1>t, <1>2, RowStepFacts
    <2>3. ASSUME NEW i \in 1..Len(accepted), NEW j \in 1..Len(accepted),
                 i < j, accepted[i][1] > accepted[j][1]
          PROVE  Uncertain(accepted[j][1])'
        <3>1. PICK c \in Confirmations : accepted[j][1] = c
            BY <1>t
        <3>2. Uncertain(c)'
            BY <1>o, <2>2, <2>3, <3>1
        <3>. QED BY <1>2, <3>1, <3>2 DEF Uncertain
    <2>4. OvertakenOnlyIfUncertain'
        BY <1>2, <2>3 DEF OvertakenOnlyIfUncertain, Uncertain
    <2>. QED BY <2>1, <2>4
<1>. QED BY <1>1, <1>2 DEF Effect

-----------------------------------------------------------------------------
(* The first state satisfies the invariant. *)
LEMMA InitInvariant == Init => IInv
<1> SUFFICES ASSUME Init PROVE IInv
    OBVIOUS
<1>1. TypeOK
    <2>1. accepted \in Seq(Confirmations \X Attempts)
        BY DEF Init
    <2>2. 0 \in 0..MaxAttempts /\ 0 \in 0..MaxFaults
        BY ConfirmationAssumption
    <2>. QED BY <2>1, <2>2
         DEF Init, TypeOK, Row, JobRow, Status, Code, JobState, Flight, None
<1>2. \A c \in Confirmations : JobInv(c) /\ RowInv(c) /\ FlightInv(c)
    BY DEF Init, JobInv, RowInv, FlightInv, None
<1>3. \A c, n : ~Accepted(c, n)
    BY DEF Init, Accepted
<1>4. Serial /\ ConfirmedOnce /\ OvertakenOnlyIfUncertain
    BY DEF Init, Serial, ConfirmedOnce, OvertakenOnlyIfUncertain
<1>. QED BY <1>1, <1>2, <1>3, <1>4 DEF IInv, RowsInv, AcceptInv

(* The strengthened invariant of the outbox holds in every reachable state.*)
THEOREM OutboxInvariance == Spec => []IInv
<1>1. IInv /\ [Next]_vars => IInv'
    <2> SUFFICES ASSUME IInv, [Next]_vars PROVE IInv'
        OBVIOUS
    <2>1. TypeOK' /\ \A c \in Confirmations : JobInv(c)'
        BY JobStep, RowTypeStep, OtherTypeStep DEF IInv, TypeOK
    <2>2. Effect
        BY StepEffect DEF IInv
    <2>3. RowsInv'
        BY <2>1, <2>2, RowsStep DEF IInv
    <2>4. ConfirmedOnce' /\ OvertakenOnlyIfUncertain'
        BY <2>2, OrderStep DEF IInv
    <2>. QED BY <2>1, <2>3, <2>4 DEF IInv
<1>. QED BY <1>1, InitInvariant, PTL DEF Spec

(* The sweep, the API, job retries and crashes never make the provider     *)
(* take a confirmation twice.                                              *)
THEOREM ConfirmationsAreSingle == Spec => []ConfirmedOnce
<1>1. IInv => ConfirmedOnce
    BY DEF IInv
<1>. QED BY <1>1, OutboxInvariance, PTL

(* claimRsvpConfirmation's serialization: the guest hears of an older      *)
(* answer after a newer one only if the older was given up as uncertain.   *)
THEOREM ConfirmationsStayInOrder == Spec => []OvertakenOnlyIfUncertain
<1>1. IInv => OvertakenOnlyIfUncertain
    BY DEF IInv
<1>. QED BY <1>1, OutboxInvariance, PTL

(* The outbox row is true: types and constraints hold, a superseded        *)
(* confirmation was never sent, an accepted one is never denied.           *)
THEOREM OutboxIsTrue == Spec => []StateOK
<1>1. ASSUME IInv PROVE StateOK
    <2>1. \A i \in 1..Len(accepted) : accepted[i] \in Confirmations \X Attempts
        BY <1>1 DEF IInv, TypeOK
    <2>2. ASSUME NEW i \in 1..Len(accepted)
          PROVE  LET c == accepted[i][1] IN
                 InDoubt(c) \/ confirmation[c].status = "SENT"
        <3>1. PICK c \in Confirmations, n \in Attempts : accepted[i] = <<c, n>>
            BY <2>1
        <3>2. Accepted(c, n)
            BY <3>1 DEF Accepted
        <3>. QED BY <1>1, <3>1, <3>2 DEF IInv, RowsInv, AcceptInv
    <2>3. AcceptedNotDenied
        BY <2>2 DEF AcceptedNotDenied, InDoubt, Uncertain
    <2>4. SupersededNeverSent
        <3> SUFFICES ASSUME NEW c \in Confirmations,
                            confirmation[c].code = "SUPERSEDED_BY_NEWER_RESPONSE"
                     PROVE  /\ \A i \in 1..Len(accepted) : accepted[i][1] # c
                            /\ \A n \in Attempts : flight[c][n] # "CALLING"
            BY DEF SupersededNeverSent
        <3>1. ~InDoubt(c) /\ confirmation[c].status # "SENT"
            BY <1>1 DEF IInv, RowsInv, RowInv, InDoubt, Uncertain
        <3>2. \A n \in Attempts : flight[c][n] = "IDLE"
            BY <1>1, <3>1 DEF IInv, RowsInv, FlightInv
        <3>. QED BY <2>2, <3>1, <3>2
    <2>. QED BY <1>1, <2>3, <2>4 DEF IInv, StateOK
<1>. QED BY <1>1, OutboxInvariance, PTL
=============================================================================
