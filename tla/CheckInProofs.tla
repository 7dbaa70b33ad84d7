--------------------------- MODULE CheckInProofs ---------------------------
(***************************************************************************)
(* Proofs about CheckIn, for any sets of requests, keys and pages, any     *)
(* party and any number of retries: its types, that the arrivals form one  *)
(* chain, that a key counts once, that a stored result is true when it is  *)
(* stored, and that at most one entry pass is not revoked.                 *)
(***************************************************************************)
EXTENDS CheckIn, FiniteSetTheorems, TLAPS

CallRow == [step : {"CALLED", "ANSWERED"}, key : Keys, size : 1..MaxParty,
            tries : 0..MaxTries, answer : AnswerRow]
TxnRow == [open : {TRUE}, expected : Parties, cancelled : BOOLEAN,
           eventDay : BOOLEAN, count : Parties, stored : AnswerRow,
           stale : SUBSET {"INVITATION", "STATE"}]
RecordRow == [key : Keys, size : Parties, before : Parties, after : Parties]

(* The inductive invariant. *)

(* Every pass but the youngest is revoked. *)
LastOnlyLive == \A q \in 1..(Len(pass) - 1) : pass[q] = "REVOKED"

(* A key holds nothing or a result, and every arrival's key holds one. *)
StoredInv ==
    /\ \A k \in Keys : stored[k] # Nothing => stored[k].outcome \in Recorded
    /\ \A i \in 1..Len(records) : stored[records[i].key] # Nothing

(* What an open transaction has seen is so, unless its snapshot is stale.  *)
(* While the invitation is unchanged, others may have recorded arrivals,   *)
(* but only within the party it expects.                                   *)
Snapshot(c) ==
    /\ call[c].step = "CALLED"
    /\ txn[c].stored # Nothing => txn[c].stored = stored[call[c].key]
    /\ "STATE" \notin txn[c].stale => txn[c].count = count
    /\ "INVITATION" \notin txn[c].stale =>
          /\ txn[c].expected = expected /\ txn[c].cancelled = cancelled
          /\ txn[c].count = count \/ (txn[c].count < count /\ count <= expected)

Answered(c) ==
    call[c].step = "ANSWERED" /\ call[c].answer.outcome \in Recorded =>
        call[c].answer = stored[call[c].key] /\ call[c].answer.size = call[c].size

KeysDiffer == \A i, j \in 1..Len(records) : records[i].key = records[j].key => i = j

CallsInv == \A c \in Calls : (txn[c].open => Snapshot(c)) /\ Answered(c)

IInv ==
    /\ TypeOK
    /\ RecordsAreAChain
    /\ KeysDiffer
    /\ StoredInv
    /\ CallsInv
    /\ LastOnlyLive

-----------------------------------------------------------------------------
(* A request that has been made, and a transaction that is open. *)
LEMMA RowsKnown ==
    ASSUME TypeOK, NEW c \in Calls
    PROVE  /\ call[c].step \in {"CALLED", "ANSWERED"} => call[c] \in CallRow
           /\ txn[c].open => txn[c] \in TxnRow
           /\ ~txn[c].open => txn[c] = Closed
           /\ call[c].step = "IDLE" => call[c] = [step |-> "IDLE"]
<1>1. call[c] \in {[step |-> "IDLE"]} \cup CallRow
    BY DEF TypeOK, CallRow
<1>2. txn[c] \in {Closed} \cup TxnRow
    BY DEF TypeOK, TxnRow
<1>3. [step |-> "IDLE"].step = "IDLE" /\ Closed.open = FALSE
    BY DEF Closed
<1>4. \A r \in CallRow : r.step \in {"CALLED", "ANSWERED"}
    BY DEF CallRow
<1>5. \A t \in TxnRow : t.open = TRUE
    BY DEF TxnRow
<1>6. /\ call[c].step \in {"CALLED", "ANSWERED"} => call[c] \in CallRow
      /\ call[c].step = "IDLE" => call[c] = [step |-> "IDLE"]
    BY <1>1, <1>3, <1>4
<1>7. /\ txn[c].open => txn[c] \in TxnRow
      /\ ~txn[c].open => txn[c] = Closed
    BY <1>2, <1>3, <1>5
<1>. QED BY <1>6, <1>7

(* Touch makes snapshots stale, and does nothing else. *)
LEMMA TouchResult ==
    ASSUME TypeOK, NEW rows \in SUBSET {"INVITATION", "STATE"}
    PROVE  /\ Touch(rows) \in [Calls -> {Closed} \cup TxnRow]
           /\ \A d \in Calls :
                 /\ ~txn[d].open => Touch(rows)[d] = Closed
                 /\ txn[d].open =>
                       /\ Touch(rows)[d] \in TxnRow
                       /\ Touch(rows)[d].expected = txn[d].expected
                       /\ Touch(rows)[d].cancelled = txn[d].cancelled
                       /\ Touch(rows)[d].count = txn[d].count
                       /\ Touch(rows)[d].stored = txn[d].stored
                       /\ Touch(rows)[d].stale = txn[d].stale \cup rows
<1>1. ASSUME NEW d \in Calls, txn[d].open
      PROVE  LET t == [txn[d] EXCEPT !.stale = @ \cup rows] IN
             /\ Touch(rows)[d] = t
             /\ t \in TxnRow
             /\ t.expected = txn[d].expected /\ t.cancelled = txn[d].cancelled
             /\ t.count = txn[d].count /\ t.stored = txn[d].stored
             /\ t.stale = txn[d].stale \cup rows
    <2>1. txn[d] \in TxnRow
        BY <1>1, RowsKnown
    <2>. QED BY <1>1, <2>1 DEF Touch, TxnRow
<1>2. ASSUME NEW d \in Calls, ~txn[d].open PROVE Touch(rows)[d] = Closed
    BY <1>2, RowsKnown DEF Touch
<1>3. Touch(rows) = [d \in Calls |-> Touch(rows)[d]]
    BY DEF Touch
<1>4. \A d \in Calls : Touch(rows)[d] \in {Closed} \cup TxnRow
    BY <1>1, <1>2
<1>. QED BY <1>1, <1>2, <1>3, <1>4

-----------------------------------------------------------------------------
(* The four ways a transaction of a check-in ends. *)

Ends(c, answer) ==
    /\ txn[c].open
    /\ call' = [call EXCEPT ![c].step = "ANSWERED", ![c].answer = answer]

Refused(c) ==
    /\ \E outcome \in Outcome \ Recorded : Ends(c, Refusal(c, outcome))
    /\ txn' = [txn EXCEPT ![c] = Closed]
    /\ UNCHANGED <<count, records, stored>>

Replayed(c) ==
    /\ Ends(c, txn[c].stored)
    /\ txn[c].stored # Nothing /\ txn[c].stored.size = call[c].size
    /\ txn' = [txn EXCEPT ![c] = Closed]
    /\ UNCHANGED <<count, records, stored>>

(* A result is stored only if nobody has stored one for its key since, and *)
(* the invitation is as the transaction found it.                          *)
Stores(c, outcome, total, rows) ==
    LET result == [outcome |-> outcome, size |-> call[c].size,
                   of |-> txn[c].expected, total |-> total]
    IN
    /\ Ends(c, result)
    /\ stored[call[c].key] = Nothing
    /\ "INVITATION" \notin txn[c].stale
    /\ ~txn[c].cancelled /\ txn[c].expected > 0
    /\ stored' = [stored EXCEPT ![call[c].key] = result]
    /\ txn' = [Touch(rows) EXCEPT ![c] = Closed]

Duplicate(c) ==
    /\ Stores(c, "ALREADY_CHECKED_IN", txn[c].count, {})
    /\ txn[c].count >= txn[c].expected
    /\ UNCHANGED <<count, records>>

Arrives(c) ==
    LET total == txn[c].count + call[c].size IN
    /\ Stores(c, IF total = txn[c].expected THEN "CHECKED_IN" ELSE "PARTIALLY_CHECKED_IN",
              total, {"STATE"})
    /\ "STATE" \notin txn[c].stale
    /\ total <= expected
    /\ count' = total
    /\ records' = Append(records, [key |-> call[c].key, size |-> call[c].size,
                                   before |-> txn[c].count, after |-> total])

(* The end of a check-in is a refusal, a replay, a duplicate or an arrival. *)
LEMMA EndResult ==
    ASSUME TypeOK, NEW c \in Calls, EndCheckIn(c)
    PROVE  Refused(c) \/ Replayed(c) \/ Duplicate(c) \/ Arrives(c)
<1>1. ASSUME NEW outcome \in Outcome \ Recorded, Reject(c, outcome) PROVE Refused(c)
    BY <1>1 DEF EndCheckIn, Reject, Answer, Refused, Ends
<1>o. {"CHECK_IN_EVENT_NOT_ACTIVE", "IDEMPOTENCY_KEY_REUSED", "CHECK_IN_NOT_ELIGIBLE",
       "CHECK_IN_CAPACITY_EXCEEDED"} \subseteq Outcome \ Recorded
    BY DEF Outcome, Recorded
<1>2. CASE ~txn[c].eventDay
    BY <1>1, <1>o, <1>2 DEF EndCheckIn
<1>3. CASE txn[c].eventDay /\ txn[c].stored # Nothing
    <2>1. ReplayResult(c)
        BY <1>3 DEF EndCheckIn
    <2>2. CASE SameRequest(c)
        BY <1>3, <2>1, <2>2 DEF EndCheckIn, ReplayResult, SameRequest, Answer, Replayed, Ends
    <2>3. CASE ~SameRequest(c)
        BY <1>o, <2>1, <2>3 DEF EndCheckIn, ReplayResult, Answer, Refused, Ends
    <2>. QED BY <2>2, <2>3
<1>4. CASE txn[c].eventDay /\ txn[c].stored = Nothing
    <2>1. /\ KeyUnique(c) /\ PartyLocked(c)
          /\ IF ~Eligible(c) THEN Reject(c, "CHECK_IN_NOT_ELIGIBLE")
             ELSE IF txn[c].count >= txn[c].expected THEN DuplicateAttempt(c)
             ELSE IF txn[c].count + call[c].size > txn[c].expected
             THEN Reject(c, "CHECK_IN_CAPACITY_EXCEEDED")
             ELSE RecordArrival(c)
        BY <1>4 DEF EndCheckIn
    <2>2. CASE Reject(c, "CHECK_IN_NOT_ELIGIBLE") \/ Reject(c, "CHECK_IN_CAPACITY_EXCEEDED")
        BY <1>1, <1>o, <2>2
    <2>3. CASE Eligible(c) /\ DuplicateAttempt(c) /\ txn[c].count >= txn[c].expected
        BY <2>1, <2>3 DEF EndCheckIn, KeyUnique, PartyLocked, Eligible, DuplicateAttempt,
               Complete, Answer, Duplicate, Stores, Ends
    <2>4. CASE Eligible(c) /\ RecordArrival(c)
        BY <2>1, <2>4 DEF EndCheckIn, KeyUnique, PartyLocked, Eligible, RecordArrival,
               StateWritable, CapacityGuard, Complete, Answer, Arrives, Stores, Ends
    <2>. QED BY <2>1, <2>2, <2>3, <2>4
<1>. QED BY <1>2, <1>3, <1>4

(* A refusal says nothing of the party. *)
LEMMA RefusalResult ==
    ASSUME CheckInAssumption, NEW c \in Calls, NEW outcome \in Outcome, call[c].size \in Parties
    PROVE  Refusal(c, outcome) \in AnswerRow /\ Refusal(c, outcome).outcome = outcome
<1>. DEFINE refused == [Nothing EXCEPT !.outcome = outcome]
<1>1. 0 \in Parties /\ "NONE" \in Outcome
    BY DEF Parties, CheckInAssumption, Outcome
<1>2. Nothing \in AnswerRow
    BY <1>1 DEF Nothing, AnswerRow
<1>3. refused \in AnswerRow /\ refused.outcome = outcome
    BY <1>2 DEF AnswerRow
<1>. HIDE DEF refused
<1>4. LET r == [refused EXCEPT !.size = call[c].size] IN r \in AnswerRow /\ r.outcome = outcome
    BY <1>3 DEF AnswerRow
<1>5. Refusal(c, outcome) = [refused EXCEPT !.size = call[c].size]
    BY DEF Refusal, refused
<1>. QED BY <1>4, <1>5

(* A request that has ended is answered, and is otherwise the same. *)
LEMMA EndedRow ==
    ASSUME TypeOK, NEW c \in Calls, call[c] \in CallRow,
           NEW answer \in AnswerRow, Ends(c, answer)
    PROVE  /\ call'[c] \in CallRow
           /\ call'[c].step = "ANSWERED" /\ call'[c].answer = answer
           /\ call'[c].key = call[c].key /\ call'[c].size = call[c].size
           /\ \A d \in Calls \ {c} : call'[d] = call[d]
           /\ call' \in [Calls -> {[step |-> "IDLE"]} \cup CallRow]
<1>1. call \in [Calls -> {[step |-> "IDLE"]} \cup CallRow]
    BY DEF TypeOK, CallRow
<1>. DEFINE row == [call[c] EXCEPT !.step = "ANSWERED", !.answer = answer]
<1>2. /\ row \in CallRow
      /\ row.step = "ANSWERED" /\ row.answer = answer
      /\ row.key = call[c].key /\ row.size = call[c].size
    BY DEF CallRow
<1>3. call' = [call EXCEPT ![c] = row]
    BY <1>1 DEF Ends
<1>. HIDE DEF row
<1>. QED BY <1>1, <1>2, <1>3

-----------------------------------------------------------------------------
(* Types. *)

(* The types of requests and of their transactions. *)
CallsTyped ==
    /\ call \in [Calls -> {[step |-> "IDLE"]} \cup CallRow]
    /\ txn \in [Calls -> {Closed} \cup TxnRow]

(* What the end of a check-in writes is typed: the total it stores is      *)
(* within the party, for the capacity guard has read the party as it is.   *)
LEMMA EndTypes ==
    ASSUME TypeOK, CheckInAssumption, NEW c \in Calls, EndCheckIn(c), call[c].step = "CALLED"
    PROVE  /\ CallsTyped'
           /\ count' \in Parties
           /\ records' \in Seq(RecordRow)
           /\ stored' \in [Keys -> AnswerRow]
<1>1. /\ call[c] \in CallRow
      /\ stored \in [Keys -> AnswerRow]
      /\ records \in Seq(RecordRow)
      /\ count \in Parties /\ expected \in Parties
      /\ txn \in [Calls -> {Closed} \cup TxnRow]
    BY RowsKnown DEF TypeOK, RecordRow, TxnRow
<1>2. txn[c].open /\ txn[c] \in TxnRow
    BY RowsKnown DEF EndCheckIn
<1>3. /\ call[c].key \in Keys /\ call[c].size \in 1..MaxParty
      /\ txn[c].expected \in Parties /\ txn[c].count \in Parties
      /\ txn[c].stored \in AnswerRow
    BY <1>1, <1>2 DEF CallRow, TxnRow
<1>4. 1..MaxParty \subseteq Parties /\ Parties \subseteq Int
    BY DEF Parties, CheckInAssumption
<1>5. \A outcome \in Outcome, n, m, k \in Parties :
         [outcome |-> outcome, size |-> n, of |-> m, total |-> k] \in AnswerRow
    BY DEF AnswerRow
<1>6. Recorded \subseteq Outcome
    BY DEF Outcome
<1>7. CASE Refused(c)
    <2>1. PICK outcome \in Outcome \ Recorded : Ends(c, Refusal(c, outcome))
        BY <1>7 DEF Refused
    <2>2. Refusal(c, outcome) \in AnswerRow
        BY <1>3, <1>4, RefusalResult
    <2>3. call' \in [Calls -> {[step |-> "IDLE"]} \cup CallRow]
        BY <1>1, <2>1, <2>2, EndedRow
    <2>. QED BY <1>1, <1>7, <2>3 DEF Refused, CallsTyped
<1>8. CASE Replayed(c)
    <2>1. call' \in [Calls -> {[step |-> "IDLE"]} \cup CallRow]
        BY <1>1, <1>3, <1>8, EndedRow DEF Replayed
    <2>. QED BY <1>1, <1>8, <2>1 DEF Replayed, CallsTyped
<1>9. ASSUME NEW outcome \in Recorded, NEW total \in Parties,
             NEW rows \in SUBSET {"INVITATION", "STATE"}, Stores(c, outcome, total, rows)
      PROVE  CallsTyped' /\ stored' \in [Keys -> AnswerRow]
    <2>. DEFINE result == [outcome |-> outcome, size |-> call[c].size,
                           of |-> txn[c].expected, total |-> total]
    <2>1. result \in AnswerRow
        BY <1>3, <1>4, <1>5, <1>6
    <2>2. Ends(c, result) /\ stored' = [stored EXCEPT ![call[c].key] = result]
        BY <1>9 DEF Stores
    <2>3. txn' = [Touch(rows) EXCEPT ![c] = Closed]
        BY <1>9 DEF Stores
    <2>. HIDE DEF result
    <2>4. stored' \in [Keys -> AnswerRow]
        BY <1>1, <1>3, <2>1, <2>2
    <2>5. call' \in [Calls -> {[step |-> "IDLE"]} \cup CallRow]
        BY <1>1, <2>1, <2>2, EndedRow
    <2>6. txn' \in [Calls -> {Closed} \cup TxnRow]
        BY <2>3, TouchResult
    <2>. QED BY <2>4, <2>5, <2>6 DEF CallsTyped
<1>10. CASE Duplicate(c)
    <2>1. CallsTyped' /\ stored' \in [Keys -> AnswerRow]
        BY <1>3, <1>9, <1>10 DEF Duplicate, Recorded
    <2>. QED BY <1>1, <1>10, <2>1 DEF Duplicate
<1>11. CASE Arrives(c)
    <2>. DEFINE total == txn[c].count + call[c].size
                record == [key |-> call[c].key, size |-> call[c].size,
                           before |-> txn[c].count, after |-> total]
    <2>1. total \in Parties
        BY <1>1, <1>3, <1>11 DEF Arrives, Parties, CheckInAssumption
    <2>2. CallsTyped' /\ stored' \in [Keys -> AnswerRow]
        <3>1. CASE total = txn[c].expected
            BY <1>9, <1>11, <2>1, <3>1 DEF Arrives, Recorded
        <3>2. CASE total # txn[c].expected
            BY <1>9, <1>11, <2>1, <3>2 DEF Arrives, Recorded
        <3>. QED BY <3>1, <3>2
    <2>3. record \in RecordRow
        BY <1>3, <1>4, <2>1 DEF RecordRow
    <2>4. count' = total /\ records' = Append(records, record)
        BY <1>11 DEF Arrives
    <2>. HIDE DEF total, record
    <2>. QED BY <1>1, <2>1, <2>2, <2>3, <2>4
<1>. QED BY <1>7, <1>8, <1>10, <1>11, EndResult

(* The entry passes and the pages that issue them are typed. *)
PassTyped ==
    /\ pass \in Seq({"ACTIVE", "EXPIRED", "REVOKED"}) /\ Len(pass) <= MaxPasses
    /\ page \in [Pages -> [seen : -1..MaxPasses, given : 0..MaxPasses]]

(* The steps of a page and of time keep them typed, and every pass but the *)
(* youngest revoked.                                                       *)
LEMMA PassStep ==
    ASSUME PassTyped, LastOnlyLive, CheckInAssumption,
           \/ \E p \in Pages : BeginPass(p) \/ AbortPass(p) \/ EndPass(p)
           \/ \E q \in 1..MaxPasses : PassExpires(q)
    PROVE  PassTyped' /\ LastOnlyLive'
<1>. DEFINE Kind == {"ACTIVE", "EXPIRED", "REVOKED"}
            Row == [seen : -1..MaxPasses, given : 0..MaxPasses]
<1>1. /\ pass \in Seq(Kind) /\ Len(pass) \in 0..MaxPasses
      /\ page \in [Pages -> Row]
      /\ pass \in [1..Len(pass) -> Kind]
    BY DEF PassTyped, CheckInAssumption
<1>2. \A n \in -1..MaxPasses, m \in 0..MaxPasses : [seen |-> n, given |-> m] \in Row
    OBVIOUS
<1>3. \A p \in Pages : page[p].seen \in -1..MaxPasses
    BY <1>1
<1>4. ASSUME NEW p \in Pages, BeginPass(p) \/ AbortPass(p)
      PROVE  PassTyped' /\ LastOnlyLive'
    <2>0. /\ BeginPass(p) => page' = [page EXCEPT ![p].seen = Len(pass)]
          /\ AbortPass(p) => page' = [page EXCEPT ![p].seen = -1]
          /\ Len(pass) \in -1..MaxPasses /\ -1 \in -1..MaxPasses
        BY <1>1, MaxPasses \in Nat DEF BeginPass, AbortPass, CheckInAssumption
    <2>1. \E n \in -1..MaxPasses : page' = [page EXCEPT ![p].seen = n]
        <3>1. CASE BeginPass(p)
            BY <2>0, <3>1
        <3>2. CASE AbortPass(p)
            BY <2>0, <3>2
        <3>. QED BY <1>4, <3>1, <3>2
    <2>. PICK n \in -1..MaxPasses : page' = [page EXCEPT ![p].seen = n]
        BY <2>1
    <2>2. [page[p] EXCEPT !.seen = n] \in Row
        BY <1>1
    <2>3. page' = [page EXCEPT ![p] = [page[p] EXCEPT !.seen = n]]
        BY <1>1
    <2>4. page' \in [Pages -> Row]
        BY <1>1, <2>2, <2>3
    <2>. QED BY <1>4, <2>4 DEF BeginPass, AbortPass, PassTyped, LastOnlyLive
<1>5. ASSUME NEW p \in Pages, EndPass(p) PROVE PassTyped' /\ LastOnlyLive'
    <2>. DEFINE last == page[p].seen
                others == [q \in DOMAIN pass |-> IF q = last THEN "REVOKED" ELSE pass[q]]
    <2>1. CASE UNCHANGED pass /\ page' = [page EXCEPT ![p] = [seen |-> -1, given |-> last]]
        <3>1. last \in 0..MaxPasses
            BY <1>3, <1>5, MaxPasses \in Nat DEF EndPass, CheckInAssumption
        <3>2. [seen |-> -1, given |-> last] \in Row
            BY <3>1, MaxPasses \in Nat DEF CheckInAssumption
        <3>. QED BY <1>1, <2>1, <3>2 DEF PassTyped, LastOnlyLive
    <2>2. CASE /\ OnePerInvitation(p) /\ Len(pass) < MaxPasses
               /\ pass' = Append(others, "ACTIVE")
               /\ page' = [page EXCEPT ![p] = [seen |-> -1, given |-> Len(pass) + 1]]
        <3>1. others \in [1..Len(pass) -> Kind]
            BY <1>1
        <3>2. others \in Seq(Kind) /\ Len(others) = Len(pass)
            BY <1>1, <3>1
        <3>3. \A q \in 1..Len(pass) : others[q] = "REVOKED"
            BY <1>1, <2>2 DEF OnePerInvitation, LastOnlyLive
        <3>. HIDE DEF others
        <3>4. /\ pass' \in Seq(Kind) /\ Len(pass') = Len(pass) + 1
              /\ \A q \in 1..Len(pass) : pass'[q] = "REVOKED"
            BY <1>1, <2>2, <3>2, <3>3
        <3>5. [seen |-> -1, given |-> Len(pass) + 1] \in Row
            BY <1>1, <2>2
        <3>6. page' \in [Pages -> Row]
            BY <1>1, <2>2, <3>5
        <3>. QED BY <1>1, <2>2, <3>4, <3>6 DEF PassTyped, LastOnlyLive
    <2>. QED BY <1>5, <2>1, <2>2 DEF EndPass
<1>6. ASSUME NEW q \in 1..MaxPasses, PassExpires(q) PROVE PassTyped' /\ LastOnlyLive'
    <2>1. /\ pass' = [pass EXCEPT ![q] = "EXPIRED"] /\ page' = page
          /\ q \in 1..Len(pass) /\ pass[q] = "ACTIVE"
        BY <1>1, <1>6 DEF PassExpires
    <2>2. pass' \in Seq(Kind) /\ Len(pass') = Len(pass)
        BY <1>1, <2>1
    <2>3. \A r \in 1..(Len(pass) - 1) : pass'[r] = "REVOKED"
        BY <1>1, <2>1 DEF LastOnlyLive
    <2>. QED BY <1>1, <2>1, <2>2, <2>3 DEF PassTyped, LastOnlyLive
<1>. QED BY <1>4, <1>5, <1>6

-----------------------------------------------------------------------------
(* Requests and their snapshots. *)

CallOK(d) == (txn[d].open => Snapshot(d)) /\ Answered(d)

StoredKept == \A k \in Keys : stored[k] # Nothing => stored'[k] = stored[k]

(* A request that takes no part in a step keeps what holds of it, if a     *)
(* stored result stays and its snapshot is made stale by a change of what  *)
(* it has seen.                                                            *)
LEMMA OtherCall ==
    ASSUME TypeOK, CallsInv, StoredKept, NEW d \in Calls,
           NEW rows \in SUBSET {"INVITATION", "STATE"},
           count' \in Parties,
           call'[d] = call[d],
           txn'[d].open =>
              /\ txn[d].open
              /\ txn'[d].expected = txn[d].expected /\ txn'[d].cancelled = txn[d].cancelled
              /\ txn'[d].count = txn[d].count /\ txn'[d].stored = txn[d].stored
              /\ txn'[d].stale = txn[d].stale \cup rows,
           "STATE" \in rows \/ count' = count,
           \/ "INVITATION" \in rows
           \/ /\ UNCHANGED <<expected, cancelled>>
              /\ count' = count \/ (count < count' /\ count' <= expected)
    PROVE  CallOK(d)'
<1>1. CallOK(d)
    BY DEF CallsInv, CallOK
<1>2. ASSUME call[d] \in CallRow, stored[call[d].key] # Nothing
      PROVE  stored'[call[d].key] = stored[call[d].key]
    BY <1>2 DEF StoredKept, CallRow
<1>3. ASSUME txn'[d].open PROVE Snapshot(d)'
    <2>1. Snapshot(d) /\ txn[d] \in TxnRow /\ call[d] \in CallRow
        BY <1>1, <1>3, RowsKnown DEF CallOK, Snapshot
    <2>2. txn[d].stored # Nothing => txn[d].stored = stored'[call[d].key]
        BY <1>2, <2>1 DEF Snapshot
    <2>3. count \in Int /\ count' \in Int /\ txn[d].count \in Int /\ expected \in Int
        BY <2>1 DEF TypeOK, Parties, TxnRow
    <2>4. call'[d].step = "CALLED" /\ call'[d].key = call[d].key
        BY <2>1 DEF Snapshot
    <2>5. "STATE" \notin txn'[d].stale => txn'[d].count = count'
        BY <1>3, <2>1 DEF Snapshot
    <2>6. ASSUME "INVITATION" \notin txn'[d].stale
          PROVE  /\ txn'[d].expected = expected' /\ txn'[d].cancelled = cancelled'
                 /\ \/ txn'[d].count = count'
                    \/ txn'[d].count < count' /\ count' <= expected'
        <3>1. "INVITATION" \notin txn[d].stale /\ "INVITATION" \notin rows
            BY <1>3, <2>6
        <3>2. /\ txn[d].expected = expected /\ txn[d].cancelled = cancelled
              /\ txn[d].count = count \/ (txn[d].count < count /\ count <= expected)
            BY <2>1, <3>1 DEF Snapshot
        <3>. QED BY <1>3, <2>3, <3>1, <3>2
    <2>. QED BY <1>3, <2>2, <2>4, <2>5, <2>6 DEF Snapshot
<1>4. Answered(d)'
    <2>. SUFFICES ASSUME call[d].step = "ANSWERED", call[d].answer.outcome \in Recorded
                  PROVE  /\ call[d].answer = stored'[call[d].key]
                         /\ call[d].answer.size = call[d].size
        BY DEF Answered
    <2>1. call[d].answer = stored[call[d].key] /\ call[d].answer.size = call[d].size
        BY <1>1 DEF CallOK, Answered
    <2>2. Nothing.outcome \notin Recorded
        BY DEF Nothing, Recorded
    <2>3. call[d] \in CallRow
        BY RowsKnown
    <2>. QED BY <1>2, <2>1, <2>2, <2>3
<1>. QED BY <1>3, <1>4 DEF CallOK

(* The other transactions stay as they are or are aborted, their snapshots *)
(* made stale by the rows.                                                 *)
OthersKept(c, rows) ==
    \A d \in Calls \ {c} : txn'[d].open =>
        /\ txn[d].open
        /\ txn'[d].expected = txn[d].expected /\ txn'[d].cancelled = txn[d].cancelled
        /\ txn'[d].count = txn[d].count /\ txn'[d].stored = txn[d].stored
        /\ txn'[d].stale = txn[d].stale \cup rows

(* An answer that is a result is the one its key holds. *)
TrueAnswer(c, answer) ==
    answer.outcome \in Recorded =>
        answer = stored'[call[c].key] /\ answer.size = call[c].size

(* The end of a check-in keeps what holds of every request. *)
LEMMA EndKeepsCalls ==
    ASSUME IInv, CheckInAssumption, NEW c \in Calls, EndCheckIn(c)
    PROVE  StoredKept /\ CallsInv'
<1>1. /\ TypeOK /\ CallsInv /\ txn[c].open /\ Snapshot(c)
      /\ call[c].step = "CALLED" /\ UNCHANGED <<expected, cancelled>>
    BY DEF IInv, CallsInv, EndCheckIn, Snapshot, Invitation
<1>2. call[c] \in CallRow /\ txn[c] \in TxnRow
    BY <1>1, RowsKnown
<1>3. /\ call[c].key \in Keys /\ call[c].size \in 1..MaxParty
      /\ txn[c].stored \in AnswerRow /\ txn[c].count \in Parties
      /\ call[c].size \in Parties /\ Parties \subseteq Int
    <2>1. /\ call[c].key \in Keys /\ call[c].size \in 1..MaxParty
          /\ txn[c].stored \in AnswerRow /\ txn[c].count \in Parties
        BY <1>2 DEF CallRow, TxnRow
    <2>2. 1..MaxParty \subseteq Parties /\ Parties \subseteq Int
        BY DEF Parties, CheckInAssumption
    <2>. QED BY <2>1, <2>2
<1>4. /\ CallsTyped' /\ count' \in Parties /\ count \in Parties
      /\ stored \in [Keys -> AnswerRow]
      /\ txn \in [Calls -> {Closed} \cup TxnRow]
    BY <1>1, EndTypes DEF TypeOK, TxnRow
<1>5. ~Closed.open /\ Closed \notin TxnRow
    BY DEF Closed, TxnRow
<1>6. ASSUME NEW answer \in AnswerRow, Ends(c, answer), ~txn'[c].open, StoredKept,
             NEW rows \in SUBSET {"INVITATION", "STATE"},
             TrueAnswer(c, answer), OthersKept(c, rows),
             "STATE" \in rows \/ count' = count,
             count' = count \/ (count < count' /\ count' <= expected)
      PROVE  CallsInv'
    <2>1. /\ call'[c].step = "ANSWERED" /\ call'[c].answer = answer
          /\ call'[c].key = call[c].key /\ call'[c].size = call[c].size
          /\ \A d \in Calls \ {c} : call'[d] = call[d]
        BY <1>1, <1>2, <1>6, EndedRow
    <2>2. CallOK(c)'
        BY <1>6, <2>1 DEF CallOK, Answered, TrueAnswer
    <2>3. \A d \in Calls \ {c} : CallOK(d)'
        BY <1>1, <1>4, <1>6, <2>1, OtherCall DEF OthersKept
    <2>. QED BY <2>2, <2>3 DEF CallsInv, CallOK
<1>7. ASSUME txn' = [txn EXCEPT ![c] = Closed] PROVE ~txn'[c].open /\ OthersKept(c, {})
    BY <1>4, <1>5, <1>7 DEF OthersKept
<1>8. ASSUME NEW rows \in SUBSET {"INVITATION", "STATE"},
             txn' = [Touch(rows) EXCEPT ![c] = Closed]
      PROVE  ~txn'[c].open /\ OthersKept(c, rows)
    BY <1>1, <1>5, <1>8, TouchResult DEF OthersKept
<1>9. CASE Refused(c)
    <2>1. PICK outcome \in Outcome \ Recorded : Ends(c, Refusal(c, outcome))
        BY <1>9 DEF Refused
    <2>2. Refusal(c, outcome) \in AnswerRow /\ Refusal(c, outcome).outcome \notin Recorded
        BY <1>3, RefusalResult
    <2>3. StoredKept /\ count' = count
        BY <1>9 DEF Refused, StoredKept
    <2>4. ~txn'[c].open /\ OthersKept(c, {})
        BY <1>7, <1>9 DEF Refused
    <2>5. TrueAnswer(c, Refusal(c, outcome))
        BY <2>2 DEF TrueAnswer
    <2>. QED BY <1>6, <2>1, <2>2, <2>3, <2>4, <2>5
<1>10. CASE Replayed(c)
    <2>1. StoredKept /\ count' = count /\ stored' = stored
        BY <1>10 DEF Replayed, StoredKept
    <2>2. txn[c].stored = stored[call[c].key] /\ txn[c].stored.size = call[c].size
        BY <1>1, <1>10 DEF Replayed, Snapshot
    <2>3. ~txn'[c].open /\ OthersKept(c, {})
        BY <1>7, <1>10 DEF Replayed
    <2>4. TrueAnswer(c, txn[c].stored) /\ Ends(c, txn[c].stored)
        BY <1>10, <2>1, <2>2 DEF Replayed, TrueAnswer
    <2>. QED BY <1>3, <1>6, <2>1, <2>3, <2>4
<1>11. ASSUME NEW outcome \in Recorded, NEW total \in Parties,
             NEW rows \in SUBSET {"INVITATION", "STATE"}, Stores(c, outcome, total, rows)
      PROVE  /\ StoredKept
             /\ \E answer \in AnswerRow : Ends(c, answer) /\ TrueAnswer(c, answer)
    <2>. DEFINE result == [outcome |-> outcome, size |-> call[c].size,
                           of |-> txn[c].expected, total |-> total]
    <2>1. result \in AnswerRow /\ result.size = call[c].size
        BY <1>2, <1>3 DEF AnswerRow, Outcome, TxnRow
    <2>2. /\ Ends(c, result) /\ stored[call[c].key] = Nothing
          /\ stored' = [stored EXCEPT ![call[c].key] = result]
        BY <1>11 DEF Stores
    <2>. HIDE DEF result
    <2>3. StoredKept
        BY <1>3, <1>4, <2>2 DEF StoredKept
    <2>4. TrueAnswer(c, result)
        BY <1>3, <1>4, <2>1, <2>2 DEF TrueAnswer
    <2>. QED BY <2>1, <2>2, <2>3, <2>4
<1>12. CASE Duplicate(c)
    <2>1. Stores(c, "ALREADY_CHECKED_IN", txn[c].count, {}) /\ count' = count
        BY <1>12 DEF Duplicate
    <2>2. "ALREADY_CHECKED_IN" \in Recorded /\ txn[c].count \in Parties
        BY <1>2 DEF Recorded, TxnRow
    <2>3. txn' = [Touch({}) EXCEPT ![c] = Closed]
        BY <2>1 DEF Stores
    <2>4. ~txn'[c].open /\ OthersKept(c, {})
        BY <1>8, <2>3
    <2>5. StoredKept /\ \E answer \in AnswerRow : Ends(c, answer) /\ TrueAnswer(c, answer)
        BY <1>11, <2>1, <2>2
    <2>. QED BY <1>6, <2>1, <2>4, <2>5
<1>13. CASE Arrives(c)
    <2>. DEFINE total == txn[c].count + call[c].size
                outcome == IF total = txn[c].expected THEN "CHECKED_IN"
                           ELSE "PARTIALLY_CHECKED_IN"
    <2>1. /\ Stores(c, outcome, total, {"STATE"})
          /\ "STATE" \notin txn[c].stale /\ total <= expected /\ count' = total
        BY <1>13 DEF Arrives
    <2>2. outcome \in Recorded /\ total \in Parties
        BY <1>4, <2>1 DEF Recorded
    <2>3. count < count' /\ count' <= expected
        <3>1. txn[c].count = count /\ count \in Int /\ call[c].size \in 1..MaxParty
            BY <1>1, <1>3, <1>4, <2>1 DEF Snapshot
        <3>2. count' = count + call[c].size /\ count' <= expected
            BY <2>1, <3>1
        <3>. QED BY <3>1, <3>2
    <2>. HIDE DEF total, outcome
    <2>4. txn' = [Touch({"STATE"}) EXCEPT ![c] = Closed]
        BY <2>1 DEF Stores
    <2>5. ~txn'[c].open /\ OthersKept(c, {"STATE"})
        BY <1>8, <2>4
    <2>6. StoredKept /\ \E answer \in AnswerRow : Ends(c, answer) /\ TrueAnswer(c, answer)
        BY <1>11, <2>1, <2>2
    <2>. QED BY <1>6, <2>3, <2>5, <2>6
<1>. QED BY <1>1, <1>9, <1>10, <1>12, <1>13, EndResult

(* The other steps keep what holds of every request, and its types. *)
LEMMA OthersKeepCalls ==
    ASSUME IInv, CheckInAssumption, NEW c \in Calls,
           \/ \E k \in Keys, n \in 1..MaxParty : Request(c, k, n)
           \/ BeginCheckIn(c) \/ AbortCheckIn(c) \/ Contended(c)
    PROVE  CallsTyped' /\ CallsInv'
<1>1. /\ TypeOK /\ CallsInv /\ CallsTyped /\ stored \in [Keys -> AnswerRow]
      /\ count \in Parties /\ expected \in Parties /\ cancelled \in BOOLEAN
      /\ eventDay \in BOOLEAN
    BY DEF IInv, TypeOK, CallsTyped, CallRow, TxnRow
<1>2. ~Closed.open /\ Closed \notin TxnRow
    BY DEF Closed, TxnRow
<1>3. StoredKept /\ UNCHANGED <<expected, cancelled, count, stored>>
    BY DEF StoredKept, Request, BeginCheckIn, AbortCheckIn, Contended, Invitation
<1>4. CallOK(c) /\ (txn[c].open => call[c].step = "CALLED")
    BY <1>1 DEF CallsInv, CallOK, Snapshot
<1>5. ASSUME \A d \in Calls \ {c} : call'[d] = call[d] /\ txn'[d] = txn[d], CallOK(c)'
      PROVE  CallsInv'
    <2>1. ASSUME NEW d \in Calls \ {c} PROVE CallOK(d)'
        <3>. DEFINE rows == {}
        <3>1. rows \in SUBSET {"INVITATION", "STATE"} /\ txn[d].stale = txn[d].stale \cup rows
            OBVIOUS
        <3>. HIDE DEF rows
        <3>2. call'[d] = call[d] /\ txn'[d] = txn[d] /\ count' \in Parties /\ count' = count
            BY <1>1, <1>3, <1>5
        <3>. QED BY <1>1, <1>3, <3>1, <3>2, OtherCall
    <2>. QED BY <1>5, <2>1 DEF CallsInv, CallOK
<1>6. ASSUME NEW k \in Keys, NEW n \in 1..MaxParty, Request(c, k, n)
      PROVE  CallsTyped' /\ CallsInv'
    <2>. DEFINE row == [step |-> "CALLED", key |-> k, size |-> n, tries |-> 0, answer |-> Nothing]
    <2>1. Nothing \in AnswerRow
        BY DEF Nothing, AnswerRow, Outcome, Parties, CheckInAssumption
    <2>2. row \in CallRow /\ row.step = "CALLED"
        BY <2>1 DEF CallRow, CheckInAssumption
    <2>3. call' = [call EXCEPT ![c] = row] /\ txn' = txn /\ ~txn[c].open
        BY <1>4, <1>6 DEF Request
    <2>. HIDE DEF row
    <2>4. call'[c] = row /\ \A d \in Calls \ {c} : call'[d] = call[d]
        BY <1>1, <2>3 DEF CallsTyped
    <2>5. CallOK(c)'
        BY <2>2, <2>3, <2>4 DEF CallOK, Answered
    <2>6. CallsInv'
        BY <1>5, <2>3, <2>4, <2>5
    <2>. QED BY <1>1, <2>2, <2>3, <2>6 DEF CallsTyped
<1>7. CASE BeginCheckIn(c)
    <2>. DEFINE row == [call[c] EXCEPT !.tries = @ + 1]
                open == [open |-> TRUE, expected |-> expected, cancelled |-> cancelled,
                         eventDay |-> eventDay, count |-> count,
                         stored |-> stored[call[c].key], stale |-> {}]
    <2>1. /\ call[c] \in CallRow /\ call[c].step = "CALLED" /\ call[c].tries < MaxTries
          /\ call' = [call EXCEPT ![c] = row] /\ txn' = [txn EXCEPT ![c] = open]
        BY <1>1, <1>7, RowsKnown DEF BeginCheckIn
    <2>2. /\ row \in CallRow /\ row.step = "CALLED" /\ row.key = call[c].key
          /\ call[c].key \in Keys
        BY <2>1 DEF CallRow, CheckInAssumption
    <2>3. /\ open \in TxnRow /\ open.stored = stored[call[c].key]
          /\ open.expected = expected /\ open.cancelled = cancelled /\ open.count = count
        BY <1>1, <2>2 DEF TxnRow
    <2>. HIDE DEF row, open
    <2>4. /\ call'[c] = row /\ txn'[c] = open
          /\ \A d \in Calls \ {c} : call'[d] = call[d] /\ txn'[d] = txn[d]
        BY <1>1, <2>1 DEF CallsTyped
    <2>5. Snapshot(c)' /\ Answered(c)'
        BY <1>3, <2>2, <2>3, <2>4 DEF Snapshot, Answered
    <2>6. CallsInv'
        BY <1>5, <2>4, <2>5 DEF CallOK
    <2>. QED BY <1>1, <2>1, <2>2, <2>3, <2>6 DEF CallsTyped
<1>8. CASE AbortCheckIn(c)
    <2>1. txn' = [txn EXCEPT ![c] = Closed] /\ call' = call
        BY <1>8 DEF AbortCheckIn
    <2>2. txn'[c] = Closed /\ \A d \in Calls \ {c} : txn'[d] = txn[d]
        BY <1>1, <2>1 DEF CallsTyped
    <2>3. CallOK(c)'
        BY <1>2, <1>3, <1>4, <2>1, <2>2 DEF CallOK, Answered
    <2>4. CallsInv'
        BY <1>5, <2>1, <2>2, <2>3
    <2>. QED BY <1>1, <2>1, <2>4 DEF CallsTyped
<1>9. CASE Contended(c)
    <2>. DEFINE answer == [call[c].answer EXCEPT !.outcome = "CHECK_IN_CONTENDED"]
                row == [call[c] EXCEPT !.step = "ANSWERED", !.answer = answer]
    <2>1. /\ call[c] \in CallRow /\ ~txn[c].open /\ txn' = txn
          /\ call' = [call EXCEPT ![c].step = "ANSWERED",
                                  ![c].answer.outcome = "CHECK_IN_CONTENDED"]
        BY <1>1, <1>9, RowsKnown DEF Contended
    <2>2. answer \in AnswerRow /\ answer.outcome \notin Recorded
        BY <2>1 DEF AnswerRow, CallRow, Outcome, Recorded
    <2>3. call' = [call EXCEPT ![c] = row]
        BY <1>1, <2>1 DEF CallsTyped
    <2>. HIDE DEF answer
    <2>4. row \in CallRow /\ row.answer = answer
        BY <2>1, <2>2 DEF CallRow
    <2>. HIDE DEF row
    <2>5. call'[c] = row /\ \A d \in Calls \ {c} : call'[d] = call[d]
        BY <1>1, <2>3 DEF CallsTyped
    <2>6. CallOK(c)'
        BY <2>1, <2>2, <2>4, <2>5 DEF CallOK, Answered
    <2>7. CallsInv'
        BY <1>5, <2>1, <2>5, <2>6
    <2>. QED BY <1>1, <2>1, <2>3, <2>4, <2>7 DEF CallsTyped
<1>. QED BY <1>6, <1>7, <1>8, <1>9

-----------------------------------------------------------------------------
(* Arrivals. *)

ArrivalsOK == RecordsAreAChain /\ KeysDiffer /\ StoredInv

(* Only the end of a check-in writes an arrival or a result.  An arrival   *)
(* is appended where the chain ends, under a key that had no result.       *)
LEMMA EndKeepsArrivals ==
    ASSUME IInv, CheckInAssumption, NEW c \in Calls, EndCheckIn(c)
    PROVE  ArrivalsOK'
<1>1. /\ TypeOK /\ CallsInv /\ txn[c].open /\ Snapshot(c)
      /\ RecordsAreAChain /\ KeysDiffer /\ StoredInv
      /\ call[c].step = "CALLED"
    BY DEF IInv, CallsInv, EndCheckIn, Snapshot
<1>2. call[c] \in CallRow /\ txn[c] \in TxnRow
    BY <1>1, RowsKnown
<1>3. /\ call[c].key \in Keys /\ call[c].size \in Int /\ txn[c].count \in Int
      /\ stored \in [Keys -> AnswerRow] /\ records \in Seq(RecordRow)
      /\ \A i \in 1..Len(records) : records[i].key \in Keys
    <2>1. /\ call[c].key \in Keys /\ call[c].size \in 1..MaxParty /\ txn[c].count \in 0..MaxParty
        BY <1>2 DEF CallRow, TxnRow, Parties
    <2>2. stored \in [Keys -> AnswerRow] /\ records \in Seq(RecordRow)
        BY <1>1 DEF TypeOK, RecordRow
    <2>3. \A r \in RecordRow : r.key \in Keys
        BY DEF RecordRow
    <2>4. \A i \in 1..Len(records) : records[i] \in RecordRow
        BY <2>2
    <2>. QED BY <2>1, <2>2, <2>3, <2>4
<1>4. ASSUME NEW outcome \in Recorded, NEW total, NEW rows, Stores(c, outcome, total, rows)
      PROVE  /\ \A k \in Keys : stored'[k] # Nothing => stored'[k].outcome \in Recorded
             /\ \A k \in Keys : stored[k] # Nothing => stored'[k] # Nothing
             /\ stored'[call[c].key] # Nothing
             /\ stored[call[c].key] = Nothing
    <2>. DEFINE result == [outcome |-> outcome, size |-> call[c].size,
                           of |-> txn[c].expected, total |-> total]
    <2>1. result.outcome = outcome /\ result # Nothing
        BY DEF Nothing, Recorded
    <2>2. stored' = [stored EXCEPT ![call[c].key] = result] /\ stored[call[c].key] = Nothing
        BY <1>4 DEF Stores
    <2>. HIDE DEF result
    <2>. QED BY <1>1, <1>3, <2>1, <2>2 DEF StoredInv
<1>5. CASE UNCHANGED <<count, records, stored>>
    BY <1>1, <1>5 DEF ArrivalsOK, RecordsAreAChain, KeysDiffer, StoredInv
<1>6. CASE Duplicate(c)
    <2>1. "ALREADY_CHECKED_IN" \in Recorded
        BY DEF Recorded
    <2>2. /\ \A k \in Keys : stored'[k] # Nothing => stored'[k].outcome \in Recorded
          /\ \A k \in Keys : stored[k] # Nothing => stored'[k] # Nothing
        BY <1>4, <1>6, <2>1 DEF Duplicate
    <2>3. UNCHANGED <<count, records>>
        BY <1>6 DEF Duplicate
    <2>. QED BY <1>1, <1>3, <2>2, <2>3 DEF ArrivalsOK, RecordsAreAChain, KeysDiffer, StoredInv
<1>7. CASE Arrives(c)
    <2>. DEFINE total == txn[c].count + call[c].size
                record == [key |-> call[c].key, size |-> call[c].size,
                           before |-> txn[c].count, after |-> total]
    <2>1. /\ \A k \in Keys : stored'[k] # Nothing => stored'[k].outcome \in Recorded
          /\ \A k \in Keys : stored[k] # Nothing => stored'[k] # Nothing
          /\ stored'[call[c].key] # Nothing /\ stored[call[c].key] = Nothing
        <3>1. CASE total = txn[c].expected
            BY <1>4, <1>7, <3>1 DEF Arrives, Recorded
        <3>2. CASE total # txn[c].expected
            BY <1>4, <1>7, <3>2 DEF Arrives, Recorded
        <3>. QED BY <3>1, <3>2
    <2>2. /\ count' = total /\ records' = Append(records, record) /\ txn[c].count = count
        BY <1>1, <1>7 DEF Arrives, Snapshot
    <2>3. /\ record.key = call[c].key /\ record.size = call[c].size
          /\ record.before = count /\ record.after = total /\ total = count + call[c].size
        BY <2>2
    <2>. HIDE DEF total, record
    <2>4. /\ Len(records') = Len(records) + 1 /\ Len(records) \in Nat
          /\ records'[Len(records) + 1] = record
          /\ \A i \in 1..Len(records) : records'[i] = records[i]
          /\ records' # <<>> /\ (records = <<>>) = (Len(records) = 0)
        BY <1>3, <2>2
    <2>5. RecordsAreAChain'
        <3>1. count' = IF records' = <<>> THEN 0 ELSE records'[Len(records')].after
            BY <2>2, <2>3, <2>4
        <3>2. ASSUME NEW i \in 1..Len(records')
              PROVE  /\ records'[i].after = records'[i].before + records'[i].size
                     /\ records'[i].before = IF i = 1 THEN 0 ELSE records'[i - 1].after
            <4>1. CASE i \in 1..Len(records)
                <5>1. /\ records[i].after = records[i].before + records[i].size
                      /\ records[i].before = IF i = 1 THEN 0 ELSE records[i - 1].after
                    BY <1>1, <4>1 DEF RecordsAreAChain
                <5>2. records'[i] = records[i] /\ (i # 1 => records'[i - 1] = records[i - 1])
                    BY <2>4, <4>1
                <5>. QED BY <5>1, <5>2
            <4>2. CASE i = Len(records) + 1
                <5>1. records'[i] = record
                    BY <2>4, <4>2
                <5>2. count = IF i = 1 THEN 0 ELSE records'[i - 1].after
                    BY <1>1, <2>4, <4>2 DEF RecordsAreAChain
                <5>. QED BY <2>3, <5>1, <5>2
            <4>. QED BY <2>4, <4>1, <4>2
        <3>. QED BY <3>1, <3>2 DEF RecordsAreAChain
    <2>6. KeysDiffer'
        <3>1. \A i \in 1..Len(records) : records[i].key # call[c].key
            BY <1>1, <2>1 DEF StoredInv
        <3>. QED BY <1>1, <2>3, <2>4, <3>1 DEF KeysDiffer
    <2>7. StoredInv'
        BY <1>1, <1>3, <2>1, <2>3, <2>4 DEF StoredInv
    <2>. QED BY <2>5, <2>6, <2>7 DEF ArrivalsOK
<1>8. Refused(c) \/ Replayed(c) => UNCHANGED <<count, records, stored>>
    BY DEF Refused, Replayed
<1>. QED BY <1>1, <1>5, <1>6, <1>7, <1>8, EndResult

-----------------------------------------------------------------------------
(* The first state satisfies the invariant. *)
LEMMA InitInvariant == ASSUME CheckInAssumption, Init PROVE IInv
<1>1. Nothing \in AnswerRow
    BY DEF Nothing, AnswerRow, Outcome, Parties, CheckInAssumption
<1>2. /\ records = <<>> /\ pass = <<>> /\ Len(records) = 0 /\ Len(pass) = 0
    BY DEF Init
<1>3. TypeOK
    <2>1. /\ expected \in Parties /\ cancelled \in BOOLEAN /\ eventDay \in BOOLEAN
          /\ count \in Parties /\ changes \in 0..MaxChanges
        <3>1. cancelled = FALSE /\ eventDay = TRUE /\ expected \in Parties
            BY DEF Init
        <3>2. count \in Parties /\ changes \in 0..MaxChanges
            BY DEF Init, Parties, CheckInAssumption
        <3>. QED BY <3>1, <3>2
    <2>2. /\ stored \in [Keys -> AnswerRow]
          /\ page \in [Pages -> [seen : -1..MaxPasses, given : 0..MaxPasses]]
        BY <1>1 DEF Init, CheckInAssumption
    <2>3. CallsTyped
        BY DEF Init, CallsTyped
    <2>4. /\ records \in Seq(RecordRow) /\ pass \in Seq({"ACTIVE", "EXPIRED", "REVOKED"})
          /\ Len(pass) <= MaxPasses
        BY <1>2 DEF CheckInAssumption
    <2>. QED BY <2>1, <2>2, <2>3, <2>4 DEF TypeOK, CallsTyped, CallRow, TxnRow, RecordRow
<1>4. RecordsAreAChain /\ KeysDiffer /\ StoredInv /\ LastOnlyLive
    BY <1>2 DEF Init, RecordsAreAChain, KeysDiffer, StoredInv, LastOnlyLive
<1>5. CallsInv
    <2>1. [step |-> "IDLE"].step # "ANSWERED" /\ ~Closed.open
        BY DEF Closed
    <2>. QED BY <2>1 DEF Init, CallsInv, Answered
<1>. QED BY <1>3, <1>4, <1>5 DEF IInv

(* The steps keep the invariant. *)
LEMMA StepInvariant == ASSUME CheckInAssumption, IInv, [Next]_vars PROVE IInv'
<1>1. /\ TypeOK /\ CallsInv /\ CallsTyped /\ PassTyped /\ LastOnlyLive /\ ArrivalsOK
      /\ changes \in 0..MaxChanges
      /\ expected \in Parties /\ cancelled \in BOOLEAN /\ eventDay \in BOOLEAN
      /\ count \in Parties
      /\ records \in Seq(RecordRow) /\ stored \in [Keys -> AnswerRow]
    BY DEF IInv, TypeOK, CallsTyped, CallRow, TxnRow, PassTyped, ArrivalsOK, RecordRow
<1>2. ASSUME CallsTyped', PassTyped', CallsInv', LastOnlyLive', ArrivalsOK',
             changes' \in 0..MaxChanges,
             expected' \in Parties, cancelled' \in BOOLEAN, eventDay' \in BOOLEAN,
             count' \in Parties, records' \in Seq(RecordRow), stored' \in [Keys -> AnswerRow]
      PROVE  IInv'
    BY <1>2 DEF IInv, TypeOK, CallsTyped, CallRow, TxnRow, PassTyped, ArrivalsOK, RecordRow
<1>3. ASSUME UNCHANGED <<count, records, stored>> PROVE ArrivalsOK' /\ StoredKept
    BY <1>1, <1>3 DEF ArrivalsOK, RecordsAreAChain, KeysDiffer, StoredInv, StoredKept
<1>4. ASSUME UNCHANGED Passes PROVE PassTyped' /\ LastOnlyLive'
    BY <1>1, <1>4 DEF Passes, PassTyped, LastOnlyLive
<1>5. ASSUME UNCHANGED <<call, txn, count, stored>>, UNCHANGED <<expected, cancelled>>
      PROVE  CallsTyped' /\ CallsInv'
    BY <1>1, <1>5 DEF CallsTyped, CallsInv, Snapshot, Answered
<1>6. ASSUME UNCHANGED Checking, txn' = Touch({"INVITATION"})
      PROVE  CallsTyped' /\ CallsInv'
    <2>. DEFINE rows == {"INVITATION"}
    <2>1. rows \in SUBSET {"INVITATION", "STATE"} /\ "INVITATION" \in rows /\ txn' = Touch(rows)
        BY <1>6
    <2>. HIDE DEF rows
    <2>2. call' = call /\ count' = count /\ StoredKept
        BY <1>3, <1>6 DEF Checking
    <2>3. ASSUME NEW d \in Calls PROVE CallOK(d)'
        <3>1. txn'[d].open =>
                 /\ txn[d].open
                 /\ txn'[d].expected = txn[d].expected /\ txn'[d].cancelled = txn[d].cancelled
                 /\ txn'[d].count = txn[d].count /\ txn'[d].stored = txn[d].stored
                 /\ txn'[d].stale = txn[d].stale \cup rows
            <4>1. ~Closed.open
                BY DEF Closed
            <4>. QED BY <1>1, <2>1, <4>1, TouchResult
        <3>. QED BY <1>1, <2>1, <2>2, <3>1, OtherCall
    <2>. QED BY <1>1, <2>1, <2>2, <2>3, TouchResult DEF CallsTyped, CallsInv, CallOK
<1>7. ASSUME NEW c \in Calls, EndCheckIn(c) PROVE IInv'
    <2>1. /\ CallsInv' /\ ArrivalsOK'
        BY <1>7, EndKeepsCalls, EndKeepsArrivals
    <2>2. /\ CallsTyped' /\ count' \in Parties
          /\ records' \in Seq(RecordRow) /\ stored' \in [Keys -> AnswerRow]
        <3>1. call[c].step = "CALLED"
            BY <1>1, <1>7 DEF EndCheckIn, CallsInv, Snapshot
        <3>. QED BY <1>1, <1>7, <3>1, EndTypes
    <2>3. UNCHANGED <<Invitation, Passes>>
        BY <1>7 DEF EndCheckIn
    <2>. QED BY <1>1, <1>2, <1>4, <2>1, <2>2, <2>3 DEF Invitation
<1>8. ASSUME NEW c \in Calls,
             \/ \E k \in Keys, n \in 1..MaxParty : Request(c, k, n)
             \/ BeginCheckIn(c) \/ AbortCheckIn(c) \/ Contended(c)
      PROVE  IInv'
    <2>1. UNCHANGED <<Invitation, count, records, stored, Passes>>
        BY <1>8 DEF Request, BeginCheckIn, AbortCheckIn, Contended
    <2>2. CallsTyped' /\ CallsInv'
        BY <1>8, OthersKeepCalls
    <2>. QED BY <1>1, <1>2, <1>3, <1>4, <2>1, <2>2 DEF Invitation
<1>9. CASE \/ \E p \in Pages : BeginPass(p) \/ AbortPass(p) \/ EndPass(p)
           \/ \E q \in 1..MaxPasses : PassExpires(q)
    <2>1. PassTyped' /\ LastOnlyLive'
        BY <1>1, <1>9, PassStep
    <2>2. UNCHANGED <<Invitation, Checking, txn>>
        BY <1>9 DEF BeginPass, AbortPass, EndPass, PassExpires
    <2>. QED BY <1>1, <1>2, <1>3, <1>5, <2>1, <2>2 DEF Invitation, Checking
<1>10. CASE (\E n \in Parties : ChangeAnswer(n)) \/ CancelInvitation
    <2>1. /\ UNCHANGED <<Checking, Passes, eventDay>> /\ txn' = Touch({"INVITATION"})
          /\ expected' \in Parties /\ cancelled' \in BOOLEAN /\ changes' \in 0..MaxChanges
        <3>1. changes < MaxChanges /\ changes' = changes + 1
            BY <1>10 DEF ChangeAnswer, CancelInvitation, Change
        <3>2. changes' \in 0..MaxChanges
            BY <1>1, <3>1 DEF CheckInAssumption
        <3>3. ASSUME NEW n \in Parties, ChangeAnswer(n)
              PROVE  /\ UNCHANGED <<Checking, Passes, eventDay, cancelled>>
                     /\ txn' = Touch({"INVITATION"}) /\ expected' = n
            BY <3>3 DEF ChangeAnswer
        <3>4. ASSUME CancelInvitation
              PROVE  /\ UNCHANGED <<Checking, Passes, eventDay, expected>>
                     /\ txn' = Touch({"INVITATION"}) /\ cancelled' = TRUE
            BY <3>4 DEF CancelInvitation
        <3>. QED BY <1>1, <1>10, <3>2, <3>3, <3>4
    <2>. QED BY <1>1, <1>2, <1>3, <1>4, <1>6, <2>1 DEF Checking
<1>11. CASE UpdateEvent
    <2>1. /\ UNCHANGED <<expected, cancelled, Checking, txn, Passes>>
          /\ eventDay' \in BOOLEAN /\ changes' \in 0..MaxChanges
        BY <1>1, <1>11 DEF UpdateEvent, Change, CheckInAssumption
    <2>. QED BY <1>1, <1>2, <1>3, <1>4, <1>5, <2>1 DEF Checking
<1>12. CASE UNCHANGED vars
    BY <1>1, <1>2, <1>3, <1>4, <1>5, <1>12 DEF vars, Passes
<1>. QED BY <1>7, <1>8, <1>9, <1>10, <1>11, <1>12 DEF Next

-----------------------------------------------------------------------------
(* Every invariant below is a part of this one, or follows from it. *)
THEOREM CheckInInvariance == Spec => []IInv
<1>1. Init => IInv
    BY InitInvariant, CheckInAssumption
<1>2. IInv /\ [Next]_vars => IInv'
    BY StepInvariant, CheckInAssumption
<1>. QED BY <1>1, <1>2, PTL DEF Spec

(* An idempotency key counts once, however many requests carry it and      *)
(* however their transactions overlap.                                     *)
THEOREM KeysCountOnce == Spec => []KeyCountsOnce
<1>1. IInv => KeyCountsOnce
    BY DEF IInv, KeysDiffer, CallsInv, Answered, KeyCountsOnce
<1>. QED BY <1>1, CheckInInvariance, PTL

(* The rows are typed, the arrivals form one chain up to the stored count, *)
(* and at most one entry pass is not revoked.                              *)
THEOREM CheckInIsTrue == Spec => []StateOK
<1>1. ASSUME IInv PROVE OneLivePass
    <2>. DEFINE live == {q \in DOMAIN pass : Live(pass[q])}
    <2>1. /\ DOMAIN pass = 1..Len(pass) /\ Len(pass) \in Nat
          /\ \A q \in 1..(Len(pass) - 1) : ~Live(pass[q])
        <3>1. pass \in Seq({"ACTIVE", "EXPIRED", "REVOKED"})
            BY <1>1 DEF IInv, TypeOK
        <3>2. \A q \in 1..(Len(pass) - 1) : ~Live(pass[q])
            BY <1>1 DEF IInv, LastOnlyLive, Live
        <3>. QED BY <3>1, <3>2
    <2>2. live \subseteq {Len(pass)}
        BY <2>1
    <2>3. live = {} \/ live = {Len(pass)}
        BY <2>2
    <2>. HIDE DEF live
    <2>4. Cardinality(live) <= 1
        <3>1. Cardinality({}) = 0 /\ Cardinality({Len(pass)}) = 1
            BY FS_EmptySet, FS_Singleton
        <3>2. Cardinality(live) = 0 \/ Cardinality(live) = 1
            BY <2>3, <3>1
        <3>. QED BY <3>2
    <2>. QED BY <2>4 DEF OneLivePass, live
<1>2. IInv => StateOK
    BY <1>1 DEF IInv, StateOK
<1>. QED BY <1>2, CheckInInvariance, PTL

(* A result is stored only if it is true of the invitation as it is then:  *)
(* the lock and the write fail on a snapshot that is stale.                *)
THEOREM StoredResultsAreTrue == Spec => ResultIsTrue
<1>. DEFINE True(k) == LET result == stored'[k] IN
                       /\ ~cancelled /\ expected > 0
                       /\ result.of = expected /\ result.total = count'
                       /\ (result.outcome = "PARTIALLY_CHECKED_IN") = (count' < expected)
                       /\ count' # count => count' <= expected
            Truth == \A k \in Keys : stored'[k] # stored[k] => True(k)
<1>1. ASSUME IInv, NEW c \in Calls, EndCheckIn(c), NEW k \in Keys, stored'[k] # stored[k]
      PROVE  True(k)
    <2>1. /\ TypeOK /\ txn[c].open /\ Snapshot(c)
          /\ txn[c] \in TxnRow /\ call[c] \in CallRow /\ stored \in [Keys -> AnswerRow]
        BY <1>1, RowsKnown DEF IInv, CallsInv, EndCheckIn, Snapshot, TypeOK
    <2>2. /\ txn[c].count \in Int /\ txn[c].expected \in Int /\ count \in Int /\ expected \in Int
          /\ call[c].size \in Int /\ call[c].size > 0
        <3>1. txn[c].count \in 0..MaxParty /\ txn[c].expected \in 0..MaxParty
            BY <2>1 DEF TxnRow, Parties
        <3>2. call[c].size \in 1..MaxParty
            BY <2>1 DEF CallRow
        <3>3. count \in 0..MaxParty /\ expected \in 0..MaxParty
            BY <2>1 DEF TypeOK, Parties
        <3>. QED BY <3>1, <3>2, <3>3, CheckInAssumption DEF CheckInAssumption
    <2>3. ASSUME NEW outcome, NEW total, NEW rows, Stores(c, outcome, total, rows)
          PROVE  /\ ~cancelled /\ expected > 0 /\ txn[c].expected = expected
                 /\ txn[c].count = count \/ (txn[c].count < count /\ count <= expected)
                 /\ stored'[k].outcome = outcome /\ stored'[k].total = total
                 /\ stored'[k].of = expected
        <3>. DEFINE result == [outcome |-> outcome, size |-> call[c].size,
                               of |-> txn[c].expected, total |-> total]
        <3>1. stored' = [stored EXCEPT ![call[c].key] = result]
            BY <2>3 DEF Stores
        <3>2. result.outcome = outcome /\ result.total = total /\ result.of = txn[c].expected
            OBVIOUS
        <3>3. /\ ~cancelled /\ expected > 0 /\ txn[c].expected = expected
              /\ txn[c].count = count \/ (txn[c].count < count /\ count <= expected)
            BY <2>1, <2>3 DEF Stores, Snapshot
        <3>. HIDE DEF result
        <3>4. stored'[k] = result
            BY <1>1, <2>1, <3>1
        <3>. QED BY <3>2, <3>3, <3>4
    <2>4. CASE Duplicate(c)
        <3>1. /\ Stores(c, "ALREADY_CHECKED_IN", txn[c].count, {})
              /\ txn[c].count >= txn[c].expected /\ count' = count
            BY <2>4 DEF Duplicate
        <3>2. txn[c].count = count /\ count >= expected
            BY <2>2, <2>3, <3>1
        <3>. QED BY <2>2, <2>3, <3>1, <3>2
    <2>5. CASE Arrives(c)
        <3>. DEFINE total == txn[c].count + call[c].size
        <3>1. /\ Stores(c, IF total = txn[c].expected THEN "CHECKED_IN" ELSE "PARTIALLY_CHECKED_IN",
                        total, {"STATE"})
              /\ total <= expected /\ count' = total
            BY <2>5 DEF Arrives
        <3>. HIDE DEF total
        <3>2. total \in Int
            BY <2>2 DEF total
        <3>3. /\ ~cancelled /\ expected > 0 /\ txn[c].expected = expected
              /\ stored'[k].outcome = IF total = txn[c].expected THEN "CHECKED_IN"
                                      ELSE "PARTIALLY_CHECKED_IN"
              /\ stored'[k].total = total /\ stored'[k].of = expected
            BY <2>3, <3>1
        <3>. QED BY <2>2, <3>1, <3>2, <3>3
    <2>6. ~Refused(c) /\ ~Replayed(c)
        BY <1>1 DEF Refused, Replayed
    <2>. QED BY <1>1, <2>1, <2>4, <2>5, <2>6, EndResult
<1>2. ASSUME IInv, [Next]_vars, ~\E c \in Calls : EndCheckIn(c) PROVE stored' = stored
    BY <1>2 DEF Next, vars, Request, BeginCheckIn, AbortCheckIn, Contended, BeginPass, AbortPass,
       EndPass, PassExpires, ChangeAnswer, CancelInvitation, UpdateEvent, Checking
<1>3. IInv /\ [Next]_vars => [Truth]_vars
    BY <1>1, <1>2
<1>. QED BY <1>3, CheckInInvariance, PTL DEF Spec, ResultIsTrue
=============================================================================
