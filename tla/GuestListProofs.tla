-------------------------- MODULE GuestListProofs --------------------------
(***************************************************************************)
(* Proofs about the two components that write the guest list.              *)
(*                                                                         *)
(* RsvpResponses, for any keys, replies, links, parties and any length of  *)
(* time: the stored answer is the youngest, fits its invitation, is        *)
(* written once for a key or a reply, and never through a link that is     *)
(* dead.                                                                   *)
(*                                                                         *)
(* Imports, for any imports, files, phones, workers and any number of      *)
(* faults: rows that are ready carry the verdicts of what they hold, an    *)
(* import has created all of its invitations or none, its host has seen    *)
(* them, and two imports of one phone know of each other.                  *)
(***************************************************************************)
EXTENDS RsvpResponses, Imports, FiniteSetTheorems, TLAPS

-----------------------------------------------------------------------------
(* Answers: the invariant of RsvpResponses. *)

WriteRow == [by : Keys \cup Replies, answer : Answer]

(* The stored answer is the last that was written. *)
StoredIsLast ==
    /\ Answered = (writes # <<>>)
    /\ writes # <<>> => rsvp = writes[Len(writes)].answer

(* A write knows who made it: a reply that was applied, in its delivery,   *)
(* or a key whose answer is stored.                                        *)
WriteOf(write) ==
    /\ write.answer.at <= now
    /\ NotBefore(rsvp, write.answer)
    /\ IF write.by \in Replies
       THEN reply[write.by].step = "APPLIED" /\ reply[write.by].seq = write.answer.seq
       ELSE write.answer.seq = None /\ submission[write.by] = write.answer.party

WritesInv == \A i \in 1..Len(writes) : WriteOf(writes[i])
WritesDiffer == \A i, j \in 1..Len(writes) : writes[i].by = writes[j].by => i = j

(* A stored answer was written. *)
StoredAnswer(k) ==
    submission[k] # None =>
        \E i \in 1..Len(writes) : writes[i].by = k /\ writes[i].answer.party = submission[k]

(* A page that is told its answer is stored has it stored; a guest's page  *)
(* came by a link.                                                         *)
RequestInv(k) ==
    /\ request[k].step = "DONE" => submission[k] = request[k].party
    /\ k \in GuestKeys /\ request[k].step = "SENT" => request[k].link \in 1..Len(capability)

(* A reply that has been applied or found stale was not said after the     *)
(* answer that is stored.                                                  *)
ReplyInv(r) ==
    /\ (reply[r].seq = None) = (reply[r].step \in {"UNTAPPED", "TAPPED"})
    /\ reply[r].at <= now /\ reply[r].party \in {None, InitialLimit}
    /\ reply[r].step \in {"STALE", "APPLIED"} => Answered /\ NotBefore(rsvp, reply[r])

(* Only the youngest link can be active. *)
LinksInv == \A c \in 1..Len(capability) : capability[c] = "ACTIVE" => c = Len(capability)

RequestRow == [step : {"IDLE", "SENT", "DONE", "REFUSED", "LOST"},
               party : Parties, link : 0..MaxCapabilities]
ReplyRow == [step : {"UNTAPPED", "TAPPED", "STORED", "UNUSABLE", "STALE", "REFUSED", "APPLIED"},
             party : Parties \cup {None}, at : Times, seq : {None} \cup 1..Cardinality(Replies)]

(* The inductive invariant, in four parts. *)
EnvOK ==
    /\ now \in Times /\ event \in EventStatus /\ cancelled \in BOOLEAN
    /\ limit \in 1..MaxLimit /\ edit \in {None} \cup 1..MaxLimit
    /\ changes \in 0..MaxChanges
    /\ capability \in Seq({"ACTIVE", "REVOKED"}) /\ Len(capability) <= MaxCapabilities
    /\ LinksInv
AnswersOK ==
    /\ rsvp \in Answer \cup {NoAnswer}
    /\ submission \in [Keys -> Parties \cup {None}]
    /\ writes \in Seq(WriteRow)
    /\ StoredIsLast /\ WritesInv /\ WritesDiffer
    /\ \A k \in Keys : StoredAnswer(k)
RequestsOK == request \in [Keys -> RequestRow] /\ \A k \in Keys : RequestInv(k)
RepliesOK == reply \in [Replies -> ReplyRow] /\ \A r \in Replies : ReplyInv(r)

IInv == EnvOK /\ AnswersOK /\ RequestsOK /\ RepliesOK /\ AnswerFitsInvitation

-----------------------------------------------------------------------------
(* The order of answers. *)

Dated(a) == a.at \in Int /\ a.seq \in {None} \cup Nat

(* Answers are ordered by when they were said. *)
LEMMA OrderOfAnswers ==
    ASSUME NEW a, NEW b, NEW c, Dated(a), Dated(b), Dated(c)
    PROVE  /\ NotBefore(a, a)
           /\ NotBefore(a, b) /\ NotBefore(b, c) => NotBefore(a, c)
BY DEF Dated, NotBefore, None

(* The answers and replies on record are dated, and an answer is one. *)
LEMMA Dates ==
    ASSUME ResponsesAssumption
    PROVE  /\ \A a \in Answer : Dated(a) /\ a.party \in Parties /\ a # NoAnswer
           /\ \A r \in ReplyRow : Dated(r)
           /\ Parties \subseteq Nat /\ None \notin Parties /\ NoAnswer \notin Answer
<1>1. Cardinality(Replies) \in Nat
    BY FS_CardinalityType DEF ResponsesAssumption
<1>2. Parties \subseteq Nat /\ Times \subseteq Int /\ None \notin Parties
    BY DEF Parties, Times, ResponsesAssumption, None
<1>3. {None} \cup 1..Cardinality(Replies) \subseteq {None} \cup Nat
    BY <1>1
<1>4. \A a \in Answer : Dated(a) /\ a.party \in Parties
    BY <1>2, <1>3 DEF Answer, Dated
<1>5. NoAnswer.party = None
    BY DEF NoAnswer
<1>6. NoAnswer \notin Answer
    BY <1>2, <1>4, <1>5
<1>7. \A r \in ReplyRow : Dated(r)
    BY <1>2, <1>3 DEF ReplyRow, Dated
<1>. QED BY <1>2, <1>4, <1>6, <1>7

-----------------------------------------------------------------------------
(* What is written. *)

(* Without a write, time passes, and replies that were applied stay so. *)
LEMMA NothingWritten ==
    ASSUME ResponsesAssumption, EnvOK, EnvOK', AnswersOK, UNCHANGED <<rsvp, submission, writes>>,
           now <= now',
           \A r \in Replies : reply[r].step = "APPLIED" => reply'[r] = reply[r]
    PROVE  AnswersOK'
<1>1. /\ writes \in Seq(WriteRow) /\ now \in Int /\ now' \in Int
      /\ \A i \in 1..Len(writes) : writes[i].answer \in Answer
    <2>1. writes \in Seq(WriteRow) /\ now \in Int /\ now' \in Int
        BY DEF AnswersOK, EnvOK, Times
    <2>2. \A i \in 1..Len(writes) : writes[i] \in WriteRow
        BY <2>1
    <2>. QED BY <2>1, <2>2 DEF WriteRow
<1>2. \A i \in 1..Len(writes) : WriteOf(writes[i])'
    <2>1. SUFFICES ASSUME NEW i \in 1..Len(writes) PROVE WriteOf(writes[i])'
        OBVIOUS
    <2>2. WriteOf(writes[i]) /\ writes[i].answer.at \in Int
        BY <1>1, Dates DEF AnswersOK, WritesInv, Dated
    <2>3. /\ rsvp' = rsvp /\ writes' = writes /\ submission' = submission
          /\ writes[i].answer.at <= now'
        BY <1>1, <2>2 DEF WriteOf
    <2>. QED BY <2>2, <2>3 DEF WriteOf, NotBefore
<1>. QED BY <1>2 DEF AnswersOK, WritesInv, StoredIsLast, WritesDiffer, StoredAnswer, Answered

(* An answer that is not before the one that stood, by a key or a reply    *)
(* that wrote none before.                                                 *)
LEMMA Written ==
    ASSUME ResponsesAssumption, EnvOK, AnswersOK, now' = now,
           NEW by \in Keys \cup Replies, NEW answer \in Answer, Write(answer, by),
           answer.at <= now,
           Answered => NotBefore(answer, rsvp),
           \A i \in 1..Len(writes) : writes[i].by # by,
           \/ /\ by \in Keys /\ answer.seq = None /\ submission[by] = None
              /\ submission' = [submission EXCEPT ![by] = answer.party] /\ UNCHANGED reply
           \/ /\ by \in Replies /\ UNCHANGED submission
              /\ reply'[by].step = "APPLIED" /\ reply'[by].seq = answer.seq
              /\ \A r \in Replies \ {by} : reply'[r] = reply[r]
    PROVE  AnswersOK' /\ Answered' /\ rsvp' = answer
<1>. DEFINE write == [by |-> by, answer |-> answer]
<1>1. /\ writes \in Seq(WriteRow) /\ submission \in [Keys -> Parties \cup {None}]
      /\ \A i \in 1..Len(writes) : writes[i] \in WriteRow
      /\ rsvp' = answer /\ writes' = Append(writes, write)
    BY DEF AnswersOK, Write
<1>2. write \in WriteRow /\ write.by = by /\ write.answer = answer
    BY DEF WriteRow
<1>. HIDE DEF write
<1>3. /\ writes' \in Seq(WriteRow) /\ Len(writes') = Len(writes) + 1 /\ Len(writes) \in Nat
      /\ writes'[Len(writes) + 1] = write /\ writes' # <<>>
      /\ \A i \in 1..Len(writes) : writes'[i] = writes[i]
    BY <1>1, <1>2
<1>4. Answered' /\ StoredIsLast'
    BY <1>1, <1>2, <1>3, Dates DEF Answered, StoredIsLast, Answer
<1>5. Dated(answer) /\ answer.party \in Parties /\ None \notin Parties
    BY Dates
<1>6. Keys \cap Replies = {}
    BY DEF ResponsesAssumption, Keys
<1>7. ASSUME NEW i \in 1..Len(writes) PROVE WriteOf(writes[i])'
    <2>1. /\ WriteOf(writes[i]) /\ writes[i].answer \in Answer /\ writes[i].by \in Keys \cup Replies
          /\ writes[i].by # by /\ rsvp = NoAnswer => Len(writes) = 0
        BY <1>1, <1>3, <1>7 DEF AnswersOK, WritesInv, WriteRow, StoredIsLast, Answered
    <2>2. Answered /\ rsvp \in Answer
        BY <1>7, <2>1 DEF Answered, AnswersOK
    <2>3. NotBefore(answer, writes[i].answer)
        BY <1>5, <2>1, <2>2, Dates, OrderOfAnswers DEF WriteOf
    <2>4. writes'[i] = writes[i]
        BY <1>3, <1>7
    <2>5. writes[i].by \in Replies =>
             reply'[writes[i].by].step = "APPLIED" /\ reply'[writes[i].by].seq = writes[i].answer.seq
        BY <1>6, <2>1 DEF WriteOf
    <2>6. writes[i].by \notin Replies =>
             writes[i].answer.seq = None /\ submission'[writes[i].by] = writes[i].answer.party
        BY <1>1, <1>6, <2>1 DEF WriteOf
    <2>. QED BY <1>1, <2>1, <2>3, <2>4, <2>5, <2>6 DEF WriteOf, NotBefore
<1>8. WriteOf(write)'
    <2>1. NotBefore(answer, answer)
        BY <1>5, OrderOfAnswers
    <2>2. by \in Keys => submission'[by] = answer.party
        BY <1>1, <1>6
    <2>. QED BY <1>1, <1>2, <1>6, <2>1, <2>2 DEF WriteOf, NotBefore
<1>9. WritesInv' /\ WritesDiffer'
    <2>1. WritesInv'
        BY <1>3, <1>7, <1>8 DEF WritesInv, WriteOf, NotBefore
    <2>2. WritesDiffer'
        BY <1>2, <1>3 DEF AnswersOK, WritesDiffer
    <2>. QED BY <2>1, <2>2
<1>10. ASSUME NEW k \in Keys PROVE StoredAnswer(k)'
    <2>1. CASE k = by
        BY <1>1, <1>2, <1>3, <1>6, <2>1 DEF StoredAnswer
    <2>2. CASE k # by
        <3>1. submission'[k] = submission[k] /\ StoredAnswer(k)
            BY <1>1, <2>2 DEF AnswersOK
        <3>. QED BY <1>3, <3>1 DEF StoredAnswer
    <2>. QED BY <2>1, <2>2
<1>11. submission' \in [Keys -> Parties \cup {None}]
    BY <1>1, <1>5
<1>. QED BY <1>1, <1>3, <1>4, <1>9, <1>10, <1>11 DEF AnswersOK

(* A reply that was on its way stays not said after the stored answer, if  *)
(* an answer that is written is not before the one it replaces.            *)
LEMMA RepliesStay ==
    ASSUME ResponsesAssumption, EnvOK, EnvOK', AnswersOK, RepliesOK, now <= now',
           reply' \in [Replies -> ReplyRow], Answered => Answered',
           Answered => rsvp' \in Answer /\ NotBefore(rsvp', rsvp),
           NEW r \in Replies, reply'[r] = reply[r]
    PROVE  ReplyInv(r)'
<1>1. ReplyInv(r) /\ reply[r] \in ReplyRow /\ now \in Int /\ now' \in Int
    BY DEF RepliesOK, EnvOK, Times
<1>2. ASSUME reply[r].step \in {"STALE", "APPLIED"}
      PROVE  Answered' /\ NotBefore(rsvp', reply[r])
    <2>1. Answered /\ NotBefore(rsvp, reply[r])
        BY <1>1, <1>2 DEF ReplyInv
    <2>2. rsvp \in Answer
        BY <2>1 DEF Answered, AnswersOK
    <2>3. Dated(rsvp) /\ Dated(rsvp') /\ Dated(reply[r])
        BY <1>1, <2>1, <2>2, Dates
    <2>. QED BY <2>1, <2>3, OrderOfAnswers
<1>3. reply[r].at <= now'
    <2>1. reply[r].at <= now /\ reply[r].at \in Int
        BY <1>1, Dates DEF ReplyInv, Dated
    <2>. QED BY <1>1, <2>1
<1>4. /\ (reply[r].seq = None) = (reply[r].step \in {"UNTAPPED", "TAPPED"})
      /\ reply[r].party \in {None, InitialLimit}
    BY <1>1 DEF ReplyInv
<1>5. /\ (reply'[r].seq = None) = (reply'[r].step \in {"UNTAPPED", "TAPPED"})
      /\ reply'[r].at <= now' /\ reply'[r].party \in {None, InitialLimit}
      /\ reply'[r].step \in {"STALE", "APPLIED"} => Answered' /\ NotBefore(rsvp', reply'[r])
    BY <1>2, <1>3, <1>4
<1>. QED BY <1>5 DEF ReplyInv, NotBefore

(* All of the replies, when none is touched. *)
LEMMA RepliesKept ==
    ASSUME ResponsesAssumption, EnvOK, EnvOK', AnswersOK, RepliesOK, now <= now',
           UNCHANGED reply, Answered => Answered',
           Answered => rsvp' \in Answer /\ NotBefore(rsvp', rsvp)
    PROVE  RepliesOK'
<1>1. reply' \in [Replies -> ReplyRow]
    BY DEF RepliesOK
<1>2. \A r \in Replies : ReplyInv(r)'
    BY <1>1, RepliesStay
<1>. QED BY <1>1, <1>2 DEF RepliesOK

(* An answer that stands stays the same if nothing is written. *)
LEMMA SameAnswer ==
    ASSUME ResponsesAssumption, AnswersOK, UNCHANGED rsvp
    PROVE  (Answered => Answered') /\ (Answered => rsvp' \in Answer /\ NotBefore(rsvp', rsvp))
<1>1. Answered => rsvp \in Answer
    BY DEF AnswersOK, Answered
<1>2. Answered => NotBefore(rsvp, rsvp)
    BY <1>1, Dates, OrderOfAnswers
<1>. QED BY <1>1, <1>2 DEF Answered, NotBefore

(* A request's row is set. *)
LEMMA RequestSet ==
    ASSUME RequestsOK, NEW k \in Keys, NEW row \in RequestRow,
           request' = [request EXCEPT ![k] = row],
           row.step = "DONE" => submission'[k] = row.party,
           k \in GuestKeys /\ row.step = "SENT" => row.link \in 1..Len(capability'),
           \A j \in Keys \ {k} : submission'[j] = submission[j],
           UNCHANGED capability
    PROVE  RequestsOK'
<1>1. request'[k] = row /\ \A j \in Keys \ {k} : request'[j] = request[j]
    BY DEF RequestsOK
<1>2. \A j \in Keys : RequestInv(j)'
    BY <1>1 DEF RequestsOK, RequestInv
<1>. QED BY <1>2 DEF RequestsOK

(* A request's row with another step. *)
LEMMA RequestRows ==
    ASSUME RequestsOK, NEW k \in Keys, NEW step \in {"IDLE", "SENT", "DONE", "REFUSED", "LOST"}
    PROVE  LET row == [request[k] EXCEPT !.step = step] IN
           /\ row \in RequestRow /\ row.step = step
           /\ row.party = request[k].party /\ row.link = request[k].link
<1>1. request[k] \in RequestRow
    BY DEF RequestsOK
<1>. QED BY <1>1 DEF RequestRow

-----------------------------------------------------------------------------
(* The steps of a page keep the invariant. *)
LEMMA PageStep ==
    ASSUME ResponsesAssumption, IInv, NEW k \in Keys,
           \/ \E party \in Selections, c \in 0..MaxCapabilities : OpenRequest(k, party, c)
           \/ SubmitGuest(k) \/ SubmitHost(k) \/ LoseResponse(k)
    PROVE  IInv'
<1>. USE DEF IInv
<1>1. UNCHANGED <<Env, reply>>
    BY DEF OpenRequest, SubmitGuest, SubmitHost, LoseResponse
<1>2. /\ EnvOK' /\ now <= now' /\ now' = now /\ UNCHANGED <<capability, limit>>
    BY <1>1 DEF Env, EnvOK, LinksInv, Times
<1>3. ASSUME UNCHANGED <<rsvp, submission, writes>>
      PROVE  AnswersOK' /\ RepliesOK' /\ AnswerFitsInvitation'
    <2>1. AnswersOK'
        BY <1>1, <1>2, <1>3, NothingWritten
    <2>2. RepliesOK'
        BY <1>1, <1>2, <1>3, RepliesKept, SameAnswer
    <2>. QED BY <1>2, <1>3, <2>1, <2>2 DEF AnswerFitsInvitation, Answered
<1>4. ASSUME NEW row \in RequestRow, request' = [request EXCEPT ![k] = row],
             UNCHANGED <<rsvp, submission, writes>>,
             row.step = "DONE" => submission[k] = row.party,
             k \in GuestKeys /\ row.step = "SENT" => row.link \in 1..Len(capability)
      PROVE  IInv'
    <2>1. RequestsOK'
        BY <1>2, <1>4, RequestSet
    <2>. QED BY <1>2, <1>3, <1>4, <2>1
<1>5. ASSUME NEW party \in Selections, NEW c \in 0..MaxCapabilities, OpenRequest(k, party, c)
      PROVE  IInv'
    <2>. DEFINE row == [step |-> "SENT", party |-> party, link |-> c]
    <2>1. /\ request' = [request EXCEPT ![k] = row] /\ UNCHANGED <<rsvp, submission, writes>>
          /\ c <= Len(capability) /\ (k \in GuestKeys <=> c > 0)
        BY <1>5 DEF OpenRequest
    <2>2. row \in RequestRow /\ row.step = "SENT" /\ row.link = c
        BY DEF RequestRow, Parties, ResponsesAssumption
    <2>3. k \in GuestKeys => c \in 1..Len(capability)
        BY <2>1 DEF EnvOK
    <2>. HIDE DEF row
    <2>. QED BY <1>4, <2>1, <2>2, <2>3
<1>6. ASSUME Refuse(k) PROVE IInv'
    <2>. DEFINE row == [request[k] EXCEPT !.step = "REFUSED"]
    <2>1. request' = [request EXCEPT ![k] = row] /\ UNCHANGED <<rsvp, submission, writes>>
        BY <1>6 DEF Refuse
    <2>2. row \in RequestRow /\ row.step = "REFUSED"
        BY RequestRows
    <2>. HIDE DEF row
    <2>. QED BY <1>4, <2>1, <2>2
<1>7. ASSUME Replay(k) PROVE IInv'
    <2>. DEFINE step == IF submission[k] = request[k].party THEN "DONE" ELSE "REFUSED"
                row == [request[k] EXCEPT !.step = step]
    <2>1. request' = [request EXCEPT ![k] = row] /\ UNCHANGED <<rsvp, submission, writes>>
        BY <1>7 DEF Replay
    <2>2. step \in {"DONE", "REFUSED"} /\ (step = "DONE" => submission[k] = request[k].party)
        OBVIOUS
    <2>. HIDE DEF step
    <2>a. request[k] \in RequestRow
        BY DEF RequestsOK
    <2>3. row \in RequestRow /\ row.step = step /\ row.party = request[k].party
        BY <2>2, <2>a DEF RequestRow
    <2>. HIDE DEF row
    <2>. QED BY <1>4, <2>1, <2>2, <2>3
<1>8. CASE LoseResponse(k)
    <2>. DEFINE row == [request[k] EXCEPT !.step = "LOST"]
    <2>1. request' = [request EXCEPT ![k] = row] /\ UNCHANGED <<rsvp, submission, writes>>
        BY <1>8 DEF LoseResponse
    <2>2. row \in RequestRow /\ row.step = "LOST"
        BY RequestRows
    <2>. HIDE DEF row
    <2>. QED BY <1>4, <2>1, <2>2
<1>9. ASSUME Accept(k), ~Replayed(k), request[k].party <= limit PROVE IInv'
    <2>. DEFINE answer == WebAnswer(request[k].party)
                row == [request[k] EXCEPT !.step = "DONE"]
    <2>1. /\ Write(answer, k) /\ submission' = [submission EXCEPT ![k] = request[k].party]
          /\ request' = [request EXCEPT ![k] = row] /\ submission[k] = None
        <3>1. ~Replayed(k) /\ Accept(k)
            BY <1>9
        <3>2. /\ Write(answer, k) /\ submission' = [submission EXCEPT ![k] = request[k].party]
              /\ request' = [request EXCEPT ![k] = row]
            BY <3>1, Zenon DEF Accept
        <3>3. submission[k] = None
            BY <3>1, Zenon DEF Replayed
        <3>. QED BY <3>2, <3>3
    <2>2. /\ answer \in Answer /\ answer.party = request[k].party /\ answer.at = now
          /\ answer.seq = None
        <3>1. request[k].party \in Parties /\ now \in Times
            BY DEF RequestsOK, RequestRow, EnvOK
        <3>. QED BY <3>1 DEF WebAnswer, Answer
    <2>3. row \in RequestRow /\ row.step = "DONE" /\ row.party = request[k].party
        BY RequestRows
    <2>. HIDE DEF answer, row
    <2>4. Answered => NotBefore(answer, rsvp)
        <3>1. SUFFICES ASSUME Answered PROVE NotBefore(answer, rsvp)
            OBVIOUS
        <3>2. rsvp \in Answer /\ writes # <<>> /\ rsvp = writes[Len(writes)].answer
            BY <3>1 DEF AnswersOK, StoredIsLast, Answered
        <3>3. Len(writes) \in 1..Len(writes)
            BY <3>2 DEF AnswersOK
        <3>4. rsvp.at <= now /\ rsvp.at \in Int /\ now \in Int
            BY <3>2, <3>3, Dates DEF AnswersOK, WritesInv, WriteOf, Dated, EnvOK, Times
        <3>. QED BY <2>2, <3>4 DEF NotBefore
    <2>5. \A i \in 1..Len(writes) : writes[i].by # k
        <3>1. SUFFICES ASSUME NEW i \in 1..Len(writes), writes[i].by = k PROVE FALSE
            OBVIOUS
        <3>2. WriteOf(writes[i]) /\ writes[i] \in WriteRow
            BY DEF AnswersOK, WritesInv
        <3>3. k \notin Replies
            BY DEF ResponsesAssumption, Keys
        <3>4. submission[k] = writes[i].answer.party /\ writes[i].answer \in Answer
            BY <3>1, <3>2, <3>3 DEF WriteOf, WriteRow
        <3>. QED BY <2>1, <3>4, Dates
    <2>6. now \in Int
        BY DEF EnvOK, Times
    <2>7. AnswersOK' /\ Answered' /\ rsvp' = answer
        BY <1>1, <1>2, <2>1, <2>2, <2>4, <2>5, <2>6, Written
    <2>8. RepliesOK'
        BY <1>1, <1>2, <2>2, <2>4, <2>7, RepliesKept
    <2>9. RequestsOK'
        <3>1. /\ submission'[k] = request[k].party
              /\ \A j \in Keys \ {k} : submission'[j] = submission[j]
            BY <2>1 DEF AnswersOK
        <3>. QED BY <1>2, <2>1, <2>3, <3>1, RequestSet
    <2>10. AnswerFitsInvitation'
        BY <1>2, <1>9, <2>2, <2>7 DEF AnswerFitsInvitation
    <2>. QED BY <1>2, <2>7, <2>8, <2>9, <2>10
<1>10. CASE SubmitGuest(k)
    BY <1>6, <1>7, <1>9, <1>10 DEF SubmitGuest
<1>11. CASE SubmitHost(k)
    BY <1>6, <1>7, <1>9, <1>11 DEF SubmitHost
<1>. QED BY <1>5, <1>8, <1>10, <1>11

-----------------------------------------------------------------------------
(* A delivery's number is within the replies there are. *)
LEMMA NextSequence ==
    ASSUME ResponsesAssumption, RepliesOK, NEW r \in Replies, reply[r].step = "TAPPED"
    PROVE  Cardinality(Stored) + 1 \in 1..Cardinality(Replies)
<1>1. Stored \subseteq Replies \ {r}
    BY DEF RepliesOK, ReplyInv, Stored
<1>2. IsFiniteSet(Replies) /\ Cardinality(Replies) \in Nat
    BY FS_CardinalityType DEF ResponsesAssumption
<1>3. /\ IsFiniteSet(Replies \ {r})
      /\ Cardinality(Replies \ {r}) = Cardinality(Replies) - 1
    BY <1>2, FS_RemoveElement
<1>4. /\ IsFiniteSet(Stored)
      /\ Cardinality(Stored) <= Cardinality(Replies \ {r})
    BY <1>1, <1>3, FS_Subset
<1>5. Cardinality(Stored) \in Nat
    BY <1>4, FS_CardinalityType
<1>. QED BY <1>2, <1>3, <1>4, <1>5

(* A reply's row with another step. *)
LEMMA ReplyRows ==
    ASSUME RepliesOK, NEW r \in Replies,
           NEW step \in {"STORED", "UNUSABLE", "STALE", "REFUSED", "APPLIED"}
    PROVE  LET row == [reply[r] EXCEPT !.step = step] IN
           /\ row \in ReplyRow /\ row.step = step
           /\ row.party = reply[r].party /\ row.at = reply[r].at /\ row.seq = reply[r].seq
<1>1. reply[r] \in ReplyRow
    BY DEF RepliesOK
<1>. QED BY <1>1 DEF ReplyRow

(* A reply's row with its delivery's number. *)
LEMMA DeliveredRow ==
    ASSUME RepliesOK, NEW r \in Replies, NEW seq \in 1..Cardinality(Replies)
    PROVE  LET row == [reply[r] EXCEPT !.step = "STORED", !.seq = seq] IN
           /\ row \in ReplyRow /\ row.step = "STORED"
           /\ row.party = reply[r].party /\ row.at = reply[r].at /\ row.seq = seq
<1>1. reply[r] \in ReplyRow
    BY DEF RepliesOK
<1>. QED BY <1>1 DEF ReplyRow

(* The steps of a reply keep the invariant. *)
LEMMA ReplyStep ==
    ASSUME ResponsesAssumption, IInv, NEW r \in Replies,
           \/ \E party \in {None, InitialLimit} : TapReply(r, party)
           \/ StoreReply(r) \/ ApplyReply(r)
    PROVE  IInv'
<1>. USE DEF IInv
<1>1. UNCHANGED <<Env, submission, request>>
    BY DEF TapReply, StoreReply, ApplyReply
<1>2. /\ EnvOK' /\ now <= now' /\ now' = now /\ now \in Nat
      /\ UNCHANGED <<capability, limit, cancelled, event>>
    BY <1>1 DEF Env, EnvOK, LinksInv, Times
<1>3. RequestsOK'
    BY <1>1, <1>2 DEF RequestsOK, RequestInv
<1>4. ASSUME NEW row \in ReplyRow, reply' = [reply EXCEPT ![r] = row],
             UNCHANGED <<rsvp, writes>>, reply[r].step # "APPLIED", row.step # "APPLIED",
             (row.seq = None) = (row.step \in {"UNTAPPED", "TAPPED"}),
             row.at <= now, row.party \in {None, InitialLimit},
             row.step = "STALE" => Answered /\ NotBefore(rsvp, row)
      PROVE  IInv'
    <2>1. /\ reply' \in [Replies -> ReplyRow] /\ reply'[r] = row
          /\ \A x \in Replies \ {r} : reply'[x] = reply[x]
        BY <1>4 DEF RepliesOK
    <2>2. AnswersOK'
        BY <1>1, <1>2, <1>4, <2>1, NothingWritten
    <2>3. \A x \in Replies \ {r} : ReplyInv(x)'
        BY <1>2, <1>4, <2>1, SameAnswer, RepliesStay
    <2>4. ReplyInv(r)'
        BY <1>2, <1>4, <2>1 DEF ReplyInv, Answered, NotBefore
    <2>5. AnswerFitsInvitation'
        BY <1>2, <1>4 DEF AnswerFitsInvitation, Answered
    <2>. QED BY <1>2, <1>3, <2>1, <2>2, <2>3, <2>4, <2>5 DEF RepliesOK
<1>5. reply[r] \in ReplyRow /\ ReplyInv(r)
    BY DEF RepliesOK
<1>6. ASSUME NEW party \in {None, InitialLimit}, TapReply(r, party) PROVE IInv'
    <2>. DEFINE row == [step |-> "TAPPED", party |-> party, at |-> Second(now), seq |-> None]
    <2>1. /\ reply[r].step = "UNTAPPED" /\ reply' = [reply EXCEPT ![r] = row]
          /\ UNCHANGED <<rsvp, writes>>
        BY <1>6 DEF TapReply
    <2>2. Second(now) \in Times /\ Second(now) <= now
        <3>1. \A t \in Nat : (t \div 2) * 2 \in Nat /\ (t \div 2) * 2 <= t
            OBVIOUS
        <3>2. now \in 0..MaxTime
            BY DEF EnvOK, Times
        <3>. QED BY <3>1, <3>2, ResponsesAssumption DEF Second, Times, ResponsesAssumption
    <2>3. party \in Parties \cup {None}
        BY DEF ResponsesAssumption, Parties
    <2>4. /\ row \in ReplyRow /\ row.step = "TAPPED" /\ row.party = party
          /\ row.at = Second(now) /\ row.seq = None
        BY <2>2, <2>3 DEF ReplyRow
    <2>. HIDE DEF row
    <2>. QED BY <1>4, <2>1, <2>2, <2>4
<1>7. CASE StoreReply(r)
    <2>. DEFINE seq == Cardinality(Stored) + 1
                row == [reply[r] EXCEPT !.step = "STORED", !.seq = seq]
    <2>1. /\ reply[r].step = "TAPPED" /\ UNCHANGED <<rsvp, writes>>
          /\ reply' = [reply EXCEPT ![r] = row]
        <3>1. /\ reply[r].step = "TAPPED" /\ UNCHANGED <<rsvp, writes>>
              /\ reply' = [reply EXCEPT ![r].step = "STORED", ![r].seq = seq]
            BY <1>7 DEF StoreReply
        <3>. HIDE DEF seq
        <3>. QED BY <3>1 DEF RepliesOK
    <2>2. seq \in 1..Cardinality(Replies)
        BY <2>1, NextSequence
    <2>3. seq # None
        BY <2>2, FS_CardinalityType DEF None, ResponsesAssumption
    <2>. HIDE DEF seq
    <2>4. /\ row \in ReplyRow /\ row.step = "STORED" /\ row.seq = seq
          /\ row.party = reply[r].party /\ row.at = reply[r].at
        BY <2>2, DeliveredRow
    <2>. HIDE DEF row
    <2>5. row.at <= now /\ row.party \in {None, InitialLimit}
        BY <1>5, <2>4 DEF ReplyInv
    <2>6. (row.seq = None) = (row.step \in {"UNTAPPED", "TAPPED"})
        BY <2>3, <2>4
    <2>7. reply[r].step # "APPLIED" /\ row.step # "APPLIED" /\ row.step # "STALE"
        BY <2>1, <2>4
    <2>. QED BY <1>4, <2>1, <2>4, <2>5, <2>6, <2>7
<1>8. CASE ApplyReply(r)
    <2>1. reply[r].step = "STORED" /\ reply[r].seq # None /\ None \in {None} \cup 1..Cardinality(Replies)
        BY <1>5, <1>8 DEF ApplyReply, ReplyInv
    <2>2. ASSUME NEW outcome \in {"UNUSABLE", "STALE", "REFUSED"}, Settle(r, outcome),
                 UNCHANGED <<rsvp, writes>>,
                 outcome = "STALE" => OlderThanStored(reply[r].at, reply[r].seq)
          PROVE  IInv'
        <3>. DEFINE row == [reply[r] EXCEPT !.step = outcome]
        <3>1. reply' = [reply EXCEPT ![r] = row]
            BY <2>2 DEF Settle
        <3>2. /\ row \in ReplyRow /\ row.step = outcome /\ row.seq = reply[r].seq
              /\ row.party = reply[r].party /\ row.at = reply[r].at
            <4>1. outcome \in {"STORED", "UNUSABLE", "STALE", "REFUSED", "APPLIED"}
                BY <2>2
            <4>. QED BY <4>1, ReplyRows
        <3>. HIDE DEF row
        <3>3. ASSUME outcome = "STALE" PROVE Answered /\ NotBefore(rsvp, row)
            <4>1. Answered /\ (reply[r].at < rsvp.at \/
                     (reply[r].at = rsvp.at /\ (rsvp.seq = None \/ reply[r].seq <= rsvp.seq)))
                BY <2>2, <3>3 DEF OlderThanStored
            <4>2. rsvp \in Answer
                BY <4>1 DEF Answered, AnswersOK
            <4>3. Dated(rsvp) /\ Dated(reply[r])
                BY <1>5, <4>2, Dates
            <4>. QED BY <2>1, <3>2, <4>1, <4>3 DEF NotBefore, Dated
        <3>4. row.at <= now /\ row.party \in {None, InitialLimit}
            BY <1>5, <3>2 DEF ReplyInv
        <3>5. (row.seq = None) = (row.step \in {"UNTAPPED", "TAPPED"})
            BY <2>1, <2>2, <3>2
        <3>6. /\ reply[r].step # "APPLIED" /\ row.step # "APPLIED"
              /\ row.step = "STALE" => Answered /\ NotBefore(rsvp, row)
            BY <2>1, <2>2, <3>2, <3>3
        <3>. QED BY <1>4, <2>2, <3>1, <3>2, <3>4, <3>5, <3>6
    <2>3. ASSUME limit = InitialLimit, reply[r].party # None,
                 ~OlderThanStored(reply[r].at, reply[r].seq), Settle(r, "APPLIED"),
                 Write([party |-> reply[r].party, at |-> reply[r].at, seq |-> reply[r].seq], r)
          PROVE  IInv'
        <3>. DEFINE answer == [party |-> reply[r].party, at |-> reply[r].at, seq |-> reply[r].seq]
                    row == [reply[r] EXCEPT !.step = "APPLIED"]
        <3>1. reply' = [reply EXCEPT ![r] = row] /\ Write(answer, r)
            BY <2>3 DEF Settle
        <3>2. /\ row \in ReplyRow /\ row.step = "APPLIED" /\ row.seq = reply[r].seq
              /\ row.party = reply[r].party /\ row.at = reply[r].at
            BY <2>1, ReplyRows
        <3>3. /\ answer \in Answer /\ answer.party = InitialLimit /\ answer.at = reply[r].at
              /\ answer.seq = reply[r].seq
            <4>1. /\ reply[r].party \in Parties /\ reply[r].at \in Times
                  /\ reply[r].seq \in {None} \cup 1..Cardinality(Replies)
                BY <1>5, <2>3 DEF ReplyRow
            <4>. QED BY <1>5, <2>3, <4>1 DEF Answer, ReplyInv
        <3>. HIDE DEF row, answer
        <3>4. Dated(answer) /\ Dated(reply[r]) /\ reply[r].at <= now
            BY <1>5, <3>3, Dates DEF ReplyInv
        <3>5. ASSUME Answered PROVE NotBefore(answer, rsvp)
            <4>1. Dated(rsvp)
                BY <3>5, Dates DEF Answered, AnswersOK
            <4>2. ~(reply[r].at < rsvp.at \/
                     (reply[r].at = rsvp.at /\ (rsvp.seq = None \/ reply[r].seq <= rsvp.seq)))
                BY <2>3, <3>5 DEF OlderThanStored
            <4>. QED BY <3>3, <3>4, <4>1, <4>2 DEF NotBefore, Dated, None
        <3>6. /\ reply' \in [Replies -> ReplyRow] /\ reply'[r] = row
              /\ \A x \in Replies \ {r} : reply'[x] = reply[x]
            BY <3>1, <3>2 DEF RepliesOK
        <3>7. \A i \in 1..Len(writes) : writes[i].by # r
            BY <2>1 DEF AnswersOK, WritesInv, WriteOf
        <3>8. AnswersOK' /\ Answered' /\ rsvp' = answer
            BY <1>1, <1>2, <3>1, <3>2, <3>3, <3>4, <3>5, <3>6, <3>7, Written
        <3>9. \A x \in Replies \ {r} : ReplyInv(x)'
            BY <1>2, <3>3, <3>5, <3>6, <3>8, RepliesStay
        <3>10. ReplyInv(r)'
            <4>1. NotBefore(answer, row)
                <5>1. answer.at = row.at /\ answer.seq = row.seq /\ row.seq \in {None} \cup Nat
                    BY <3>2, <3>3, <3>4 DEF Dated
                <5>. QED BY <5>1 DEF NotBefore, None
            <4>. QED BY <1>2, <1>5, <2>1, <3>2, <3>6, <3>8, <4>1 DEF ReplyInv, NotBefore
        <3>11. AnswerFitsInvitation'
            <4>1. InitialLimit <= limit
                BY <2>3, ResponsesAssumption DEF ResponsesAssumption
            <4>. QED BY <1>2, <3>3, <3>8, <4>1 DEF AnswerFitsInvitation
        <3>. QED BY <1>2, <1>3, <3>6, <3>8, <3>9, <3>10, <3>11 DEF RepliesOK
    <2>4. CASE cancelled \/ limit # InitialLimit \/ reply[r].party = None
        BY <1>8, <2>2, <2>4 DEF ApplyReply
    <2>5. CASE /\ ~(cancelled \/ limit # InitialLimit \/ reply[r].party = None)
               /\ OlderThanStored(reply[r].at, reply[r].seq)
        BY <1>8, <2>2, <2>5 DEF ApplyReply
    <2>6. CASE /\ ~(cancelled \/ limit # InitialLimit \/ reply[r].party = None)
               /\ ~OlderThanStored(reply[r].at, reply[r].seq)
        BY <1>8, <2>2, <2>3, <2>6 DEF ApplyReply
    <2>. QED BY <2>4, <2>5, <2>6
<1>. QED BY <1>6, <1>7, <1>8

-----------------------------------------------------------------------------
(* The revoked links, and a new one after them. *)
LEMMA RevokedLinks ==
    ASSUME NEW links \in Seq({"ACTIVE", "REVOKED"})
    PROVE  /\ Revoked(links) \in Seq({"ACTIVE", "REVOKED"}) /\ Len(Revoked(links)) = Len(links)
           /\ \A c \in 1..Len(links) : Revoked(links)[c] = "REVOKED"
<1>1. DOMAIN links = 1..Len(links) /\ \A c \in 1..Len(links) : links[c] \in {"ACTIVE", "REVOKED"}
    OBVIOUS
<1>2. \A c \in 1..Len(links) : Revoked(links)[c] = "REVOKED"
    BY <1>1 DEF Revoked
<1>3. Revoked(links) \in [1..Len(links) -> {"ACTIVE", "REVOKED"}]
    BY <1>1 DEF Revoked
<1>. QED BY <1>2, <1>3

(* The hosts' other operations, and time, keep the invariant. *)
LEMMA HostStep ==
    ASSUME ResponsesAssumption, IInv,
           \/ IssueCapability \/ RevokeCapability
           \/ (\E party \in 1..MaxLimit : ReadForEdit(party)) \/ CommitEdit
           \/ CancelInvitation
           \/ \E s \in EventStatus : UpdateEvent(s)
           \/ Tick
    PROVE  IInv'
<1>. USE DEF IInv
<1>1. UNCHANGED Unanswering
    BY DEF IssueCapability, RevokeCapability, ReadForEdit, CommitEdit, CancelInvitation,
           UpdateEvent, Tick
<1>2. UNCHANGED <<rsvp, submission, request, reply, writes>>
    BY <1>1 DEF Unanswering
<1>3. changes \in Int /\ (Change => changes' \in 0..MaxChanges)
    BY DEF EnvOK, Change
<1>4. ASSUME EnvOK', now <= now', Len(capability) <= Len(capability'), Len(capability') \in Nat,
             Answered => rsvp.party <= limit'
      PROVE  IInv'
    <2>1. AnswersOK'
        BY <1>2, <1>4, NothingWritten
    <2>2. RepliesOK'
        BY <1>2, <1>4, RepliesKept, SameAnswer
    <2>3. RequestsOK'
        BY <1>2, <1>4 DEF RequestsOK, RequestInv, EnvOK
    <2>4. AnswerFitsInvitation'
        BY <1>2, <1>4 DEF AnswerFitsInvitation, Answered
    <2>. QED BY <1>4, <2>1, <2>2, <2>3, <2>4
<1>5. ASSUME UNCHANGED <<now, event, cancelled, limit, edit>>, changes' \in 0..MaxChanges,
             capability' \in Seq({"ACTIVE", "REVOKED"}), Len(capability') <= MaxCapabilities,
             Len(capability) <= Len(capability'),
             \A c \in 1..Len(capability') : capability'[c] = "ACTIVE" => c = Len(capability')
      PROVE  IInv'
    <2>1. EnvOK' /\ now <= now'
        BY <1>5 DEF EnvOK, LinksInv, Times
    <2>2. Len(capability') \in Nat /\ (Answered => rsvp.party <= limit')
        BY <1>5 DEF AnswerFitsInvitation
    <2>. QED BY <1>4, <1>5, <2>1, <2>2
<1>6. ASSUME UNCHANGED <<now, capability>>, changes' \in 0..MaxChanges,
             event' \in EventStatus, cancelled' \in BOOLEAN, limit' \in 1..MaxLimit,
             edit' \in {None} \cup 1..MaxLimit, Answered => rsvp.party <= limit'
      PROVE  IInv'
    <2>1. EnvOK' /\ now <= now' /\ Len(capability) <= Len(capability') /\ Len(capability') \in Nat
        BY <1>6 DEF EnvOK, LinksInv, Times
    <2>. QED BY <1>4, <1>6, <2>1
<1>7. CASE IssueCapability
    <2>. DEFINE links == Revoked(capability)
    <2>1. /\ Change /\ capability' = Append(links, "ACTIVE") /\ Len(capability) < MaxCapabilities
          /\ UNCHANGED <<now, event, cancelled, limit, edit>>
        BY <1>7 DEF IssueCapability
    <2>2. /\ links \in Seq({"ACTIVE", "REVOKED"}) /\ Len(links) = Len(capability)
          /\ \A c \in 1..Len(links) : links[c] = "REVOKED"
        BY RevokedLinks DEF EnvOK
    <2>. HIDE DEF links
    <2>3. /\ capability' \in Seq({"ACTIVE", "REVOKED"}) /\ Len(capability') = Len(capability) + 1
          /\ Len(capability) \in Nat
          /\ \A c \in 1..Len(links) : capability'[c] = links[c]
        BY <2>1, <2>2
    <2>4. \A c \in 1..Len(capability') : capability'[c] = "ACTIVE" => c = Len(capability')
        BY <2>2, <2>3
    <2>5. Len(capability') <= MaxCapabilities
        BY <2>1, <2>3 DEF ResponsesAssumption
    <2>. QED BY <1>3, <1>5, <2>1, <2>3, <2>4, <2>5
<1>8. CASE RevokeCapability
    <2>1. /\ Change /\ capability' = Revoked(capability)
          /\ UNCHANGED <<now, event, cancelled, limit, edit>>
        BY <1>8 DEF RevokeCapability
    <2>2. /\ capability' \in Seq({"ACTIVE", "REVOKED"}) /\ Len(capability') = Len(capability)
          /\ \A c \in 1..Len(capability') : capability'[c] = "REVOKED"
          /\ Len(capability) <= MaxCapabilities /\ Len(capability) \in Nat
        BY <2>1, RevokedLinks DEF EnvOK
    <2>3. \A c \in 1..Len(capability') : capability'[c] = "ACTIVE" => c = Len(capability')
        BY <2>2
    <2>. QED BY <1>3, <1>5, <2>1, <2>2, <2>3
<1>9. ASSUME NEW party \in 1..MaxLimit, ReadForEdit(party) PROVE IInv'
    BY <1>3, <1>6, <1>9 DEF ReadForEdit, EnvOK, AnswerFitsInvitation
<1>10. CASE CommitEdit
    <2>1. /\ edit \in 1..MaxLimit /\ edit' = None /\ limit \in 1..MaxLimit
          /\ limit' = IF Answered => AggregateHolds(rsvp.party) THEN edit ELSE limit
          /\ UNCHANGED <<now, event, cancelled, capability, changes>>
        BY <1>10 DEF CommitEdit, EnvOK
    <2>2. limit' \in 1..MaxLimit
        BY <2>1
    <2>3. Answered => rsvp.party <= limit'
        <3>1. CASE Answered => AggregateHolds(rsvp.party)
            BY <2>1, <3>1 DEF AggregateHolds, None
        <3>2. CASE ~(Answered => AggregateHolds(rsvp.party))
            BY <2>1, <3>2 DEF AnswerFitsInvitation
        <3>. QED BY <3>1, <3>2
    <2>. QED BY <1>6, <2>1, <2>2, <2>3 DEF EnvOK
<1>11. CASE CancelInvitation
    BY <1>3, <1>6, <1>11 DEF CancelInvitation, EnvOK, AnswerFitsInvitation
<1>12. ASSUME NEW s \in EventStatus, UpdateEvent(s) PROVE IInv'
    BY <1>3, <1>6, <1>12 DEF UpdateEvent, EnvOK, AnswerFitsInvitation
<1>13. CASE Tick
    <2>1. /\ now' = now + 1 /\ now < MaxTime /\ now \in 0..MaxTime /\ MaxTime \in Nat
          /\ UNCHANGED <<event, cancelled, limit, capability, edit, changes>>
        BY <1>13 DEF Tick, EnvOK, Times, ResponsesAssumption
    <2>2. now' \in Times /\ now <= now'
        BY <2>1 DEF Times
    <2>3. EnvOK' /\ Len(capability) <= Len(capability') /\ Len(capability') \in Nat
        BY <2>1, <2>2 DEF EnvOK, LinksInv
    <2>4. Answered => rsvp.party <= limit'
        BY <2>1 DEF AnswerFitsInvitation
    <2>. QED BY <1>4, <2>2, <2>3, <2>4
<1>. QED BY <1>7, <1>8, <1>9, <1>10, <1>11, <1>12, <1>13

-----------------------------------------------------------------------------
(* The first state satisfies the invariant. *)
LEMMA InitInvariant ==
    ASSUME ResponsesAssumption, Init
    PROVE  IInv
<1>1. EnvOK
    <2>1. /\ 0 \in Times /\ 0 \in 0..MaxChanges /\ limit \in 1..MaxLimit
        BY DEF Init, ResponsesAssumption, Times
    <2>2. capability \in Seq({"ACTIVE", "REVOKED"}) /\ Len(capability) = 0
        BY DEF Init
    <2>3. LinksInv /\ Len(capability) <= MaxCapabilities
        BY <2>2 DEF LinksInv, ResponsesAssumption
    <2>4. /\ now = 0 /\ event = "OPEN" /\ cancelled = FALSE /\ edit = None /\ changes = 0
        BY DEF Init
    <2>. QED BY <2>1, <2>2, <2>3, <2>4 DEF EnvOK, EventStatus
<1>2. AnswersOK
    <2>1. writes \in Seq(WriteRow) /\ Len(writes) = 0 /\ writes = <<>>
        BY DEF Init
    <2>2. ~Answered /\ \A k \in Keys : submission[k] = None
        BY DEF Init, Answered
    <2>3. StoredIsLast /\ WritesInv /\ WritesDiffer
        BY <2>1, <2>2 DEF Answered, StoredIsLast, WritesInv, WritesDiffer
    <2>4. rsvp = NoAnswer /\ submission \in [Keys -> Parties \cup {None}]
        BY DEF Init
    <2>. QED BY <2>1, <2>2, <2>3, <2>4 DEF AnswersOK, StoredAnswer
<1>3. RequestsOK
    <2>1. [step |-> "IDLE", party |-> 0, link |-> 0] \in RequestRow
        BY DEF RequestRow, Parties, ResponsesAssumption
    <2>. QED BY <2>1 DEF Init, RequestsOK, RequestInv
<1>4. RepliesOK
    <2>1. [step |-> "UNTAPPED", party |-> None, at |-> 0, seq |-> None] \in ReplyRow
        BY DEF ReplyRow, Times, ResponsesAssumption
    <2>. QED BY <2>1 DEF Init, RepliesOK, ReplyInv
<1>5. AnswerFitsInvitation
    BY DEF Init, AnswerFitsInvitation, Answered
<1>. QED BY <1>1, <1>2, <1>3, <1>4, <1>5 DEF IInv

(* Every step keeps the invariant. *)
LEMMA StepInvariant ==
    ASSUME ResponsesAssumption, IInv, [Next]_vars
    PROVE  IInv'
<1>1. CASE UNCHANGED vars
    BY <1>1 DEF vars, IInv, EnvOK, AnswersOK, RequestsOK, RepliesOK, AnswerFitsInvitation,
       Answered, StoredIsLast, WritesInv, WritesDiffer, WriteOf, NotBefore, StoredAnswer,
       RequestInv, ReplyInv, LinksInv
<1>2. CASE Next
    BY <1>2, PageStep, ReplyStep, HostStep DEF Next
<1>. QED BY <1>1, <1>2

(* The invariant holds in every reachable state. *)
THEOREM ResponsesInvariance == Spec => []IInv
<1>1. Init => IInv
    BY InitInvariant, ResponsesAssumption
<1>2. IInv /\ [Next]_vars => IInv'
    BY StepInvariant, ResponsesAssumption
<1>. QED BY <1>1, <1>2, PTL DEF Spec

-----------------------------------------------------------------------------
(* The rows are typed, the stored answer fits its invitation though an edit *)
(* reads it without a lock, and every key and reply writes once, whose page *)
(* is told the truth.                                                       *)
THEOREM AnswersAreTrue == Spec => []StateOK
<1>1. IInv => TypeOK
    BY DEF IInv, EnvOK, AnswersOK, RequestsOK, RepliesOK, TypeOK, RequestRow, ReplyRow, WriteRow
<1>2. IInv => WrittenOnce
    <2>1. ASSUME IInv, NEW k \in Keys, request[k].step = "DONE"
          PROVE  \E i \in 1..Len(writes) :
                    writes[i].by = k /\ writes[i].answer.party = request[k].party
        <3>1. submission[k] = request[k].party /\ StoredAnswer(k) /\ request[k] \in RequestRow
            BY <2>1 DEF IInv, RequestsOK, RequestInv, AnswersOK
        <3>2. submission[k] # None
            BY <3>1, Dates, ResponsesAssumption DEF RequestRow
        <3>. QED BY <3>1, <3>2 DEF StoredAnswer
    <2>. QED BY <2>1 DEF WrittenOnce, IInv, AnswersOK, WritesDiffer
<1>3. IInv => StateOK
    BY <1>1, <1>2 DEF StateOK, IInv
<1>. QED BY <1>3, ResponsesInvariance, PTL

(* Whatever order the replies are delivered and applied in, the stored      *)
(* answer is the youngest of all that were accepted or found stale.         *)
THEOREM YoungestStands == Spec => []YoungestAnswerStands
<1>1. ASSUME IInv PROVE YoungestAnswerStands
    <2>1. Answered = (writes # <<>>)
        BY <1>1 DEF IInv, AnswersOK, StoredIsLast
    <2>2. ASSUME NEW i \in 1..Len(writes)
          PROVE  /\ Said(writes[i]).at = writes[i].answer.at
                 /\ Said(writes[i]).seq = writes[i].answer.seq
                 /\ NotBefore(rsvp, writes[i].answer)
        BY <1>1, <2>2 DEF IInv, AnswersOK, WritesInv, WriteOf, Said
    <2>3. ASSUME Answered
          PROVE  LET stored == writes[Len(writes)] IN
                 /\ rsvp.party = stored.answer.party
                 /\ \A i \in 1..Len(writes) : NotBefore(Said(stored), Said(writes[i]))
                 /\ \A r \in Replies : reply[r].step \in {"STALE", "APPLIED"} =>
                        NotBefore(Said(stored), reply[r])
        <3>. DEFINE stored == writes[Len(writes)]
        <3>1. rsvp = stored.answer /\ Len(writes) \in 1..Len(writes)
            <4>1. writes \in Seq(WriteRow) /\ writes # <<>>
                BY <1>1, <2>1, <2>3 DEF IInv, AnswersOK
            <4>2. StoredIsLast
                BY <1>1 DEF IInv, AnswersOK
            <4>3. Len(writes) \in 1..Len(writes)
                BY <4>1
            <4>. QED BY <4>1, <4>2, <4>3 DEF StoredIsLast
        <3>2. Said(stored).at = rsvp.at /\ Said(stored).seq = rsvp.seq
            BY <2>2, <3>1
        <3>. HIDE DEF stored
        <3>3. \A i \in 1..Len(writes) : NotBefore(Said(stored), Said(writes[i]))
            BY <2>2, <3>2 DEF NotBefore
        <3>4. \A r \in Replies : reply[r].step \in {"STALE", "APPLIED"} =>
                 NotBefore(Said(stored), reply[r])
            BY <1>1, <3>2 DEF NotBefore, IInv, RepliesOK, ReplyInv
        <3>. QED BY <3>1, <3>3, <3>4 DEF stored
    <2>. QED BY <2>1, <2>3 DEF YoungestAnswerStands
<1>. QED BY <1>1, ResponsesInvariance, PTL

(* A guest's answer is written only through the one link that is valid at   *)
(* that moment.                                                             *)
THEOREM LiveLinksOnly == Spec => NoAnswerThroughDeadLink
<1>. DEFINE Through(k) == submission'[k] # submission[k] =>
           /\ capability[request[k].link] = "ACTIVE"
           /\ \A c \in DOMAIN capability : capability[c] = "ACTIVE" => c = request[k].link
           /\ ~Closed
<1>1. ASSUME IInv, [Next]_vars, NEW k \in GuestKeys PROVE Through(k)
    <2>1. SUFFICES ASSUME submission'[k] # submission[k]
                   PROVE  /\ capability[request[k].link] = "ACTIVE"
                          /\ \A c \in DOMAIN capability :
                                capability[c] = "ACTIVE" => c = request[k].link
                          /\ ~Closed
        OBVIOUS
    <2>2. PICK j \in Keys : SubmitGuest(j) \/ SubmitHost(j)
        BY <1>1, <2>1 DEF Next, vars, OpenRequest, LoseResponse, TapReply, StoreReply, ApplyReply,
           IssueCapability, RevokeCapability, ReadForEdit, CommitEdit, CancelInvitation,
           UpdateEvent, Tick, Unanswering
    <2>3. Accept(j) /\ (j \in GuestKeys => SubmitGuest(j) /\ LinkValid(request[j].link))
        BY <2>1, <2>2, ResponsesAssumption
           DEF SubmitGuest, SubmitHost, Refuse, Replay, ResponsesAssumption
    <2>4. k = j
        BY <1>1, <2>1, <2>3 DEF Accept, IInv, AnswersOK, Keys
    <2>5. LinkValid(request[k].link) /\ request[k].link \in 1..Len(capability)
        BY <1>1, <2>3, <2>4 DEF SubmitGuest, IInv, RequestsOK, RequestInv
    <2>6. capability \in Seq({"ACTIVE", "REVOKED"}) /\ LinksInv
        BY <1>1 DEF IInv, EnvOK
    <2>. QED BY <2>5, <2>6 DEF LinkValid, LinksInv
<1>2. IInv /\ [Next]_vars => \A k \in GuestKeys : Through(k)
    BY <1>1
<1>. QED BY <1>2, ResponsesInvariance, PTL DEF Spec, NoAnswerThroughDeadLink

-----------------------------------------------------------------------------
(* Imports: the invariant. *)

(* The greatest revision that a job is enqueued for. *)
LastJob(i) == IF MaxRevision[i] = 0 THEN 1 ELSE MaxRevision[i]

FileRows(i) == [DOMAIN FileOf[i] -> Row]

ImportRow(i) == [status : Statuses, revision : Nat, mapping : Mappings \cup {Blank},
                 rows : FileRows(i) \cup {<<>>}]

(* The row of an import: rows are judged only when the file is parsed, and *)
(* only an import that is over passes the revisions that have jobs by two. *)
ImportRowOK(i) ==
    /\ job[i] \in ImportRow(i)
    /\ job[i].revision <= LastJob(i) + 2
    /\ job[i].status \notin {"COMPLETED", "CANCELLED"} => job[i].revision <= LastJob(i) + 1
    /\ job[i].status = "ABSENT" => job[i].revision = 0
    /\ job[i].status \in {"VALIDATING", "REVIEWING", "READY"} => job[i].rows \in FileRows(i)
    /\ job[i].status \in {"REVIEWING", "READY"} =>
          \E existing \in SUBSET Phones :
              job[i].rows = Validated(i, job[i].rows, job[i].mapping, existing)

(* A job is of a revision its import had, and of an earlier one once the   *)
(* import is completed.                                                    *)
JobOK(j) ==
    /\ j \in Job
    /\ j.revision <= LastJob(j.import)
    /\ j.revision <= job[j.import].revision
    /\ job[j.import].status = "COMPLETED" => j.revision < job[j.import].revision

Live(j) == job[j.import].revision = j.revision

(* What an execution has read or judged is still so while its job is live. *)
ExecutionOK(w) ==
    exec[w] # NoExec =>
        /\ exec[w].step \in {"PARSE", "READ", "COMPLETE"}
        /\ JobOK(exec[w].job)
        /\ Live(exec[w].job) =>
              LET i == exec[w].job.import
              IN  /\ exec[w].step = "READ" => exec[w].mapping = job[i].mapping
                  /\ exec[w].step = "COMPLETE" =>
                        \E existing \in SUBSET Phones :
                            exec[w].rows = Validated(i, job[i].rows, job[i].mapping, existing)

(* A page shows the rows of its revision. *)
PageOK(i) ==
    /\ page[i].revision \in Nat
    /\ page[i].revision <= job[i].revision
    /\ page[i].revision = job[i].revision => page[i].rows = job[i].rows

(* A confirmation's snapshot agrees with the page if their revisions do, and *)
(* has passed the checks before it commits.                                *)
ConfirmOK(i) ==
    LET c == confirm[i]
    IN  c # NoConfirm =>
        /\ c = [step |-> c.step, policy |-> c.policy, version |-> c.version,
                seen |-> c.seen, job |-> c.job, groups |-> c.groups]
        /\ c.step \in {"LOCK", "COMMIT"}
        /\ c.version = c.job.revision => c.seen = c.job.rows
        /\ c.step = "COMMIT" => Confirmable(c)

Importing(i) ==
    {g.number : g \in {h \in groups : h.by = i}} =
        {n \in DOMAIN job[i].rows : /\ job[i].status = "COMPLETED"
                                    /\ job[i].rows[n].status = "IMPORTED"}

RowsInv    == DOMAIN job = Imports /\ \A i \in Imports : ImportRowOK(i)
JobsInv    == \A j \in queue \cup unmarked : JobOK(j)
ExecsInv   == DOMAIN exec = Workers /\ \A w \in Workers : ExecutionOK(w)
PagesInv   == DOMAIN page = Imports /\ \A i \in Imports : PageOK(i)
ConfirmInv == DOMAIN confirm = Imports /\ \A i \in Imports : ConfirmOK(i)
GroupsInv  == (\A g \in groups : g.phone \in Phones /\ g.by \in Imports \cup {Blank}) /\ \A i \in Imports : Importing(i)

ImportInv == /\ RowsInv /\ JobsInv /\ ExecsInv /\ PagesInv /\ ConfirmInv /\ GroupsInv
             /\ ImportsSeeEachOther
             /\ faults \in 0..MaxFaults

-----------------------------------------------------------------------------
(* What validation says. *)

(* A file has rows from the first on, and every cell is a phone or not     *)
(* readable.                                                               *)
LEMMA FileCells ==
    ASSUME ImportAssumption, NEW i \in Imports
    PROVE  /\ Len(FileOf[i]) \in Nat \ {0}
           /\ DOMAIN FileOf[i] = 1..Len(FileOf[i])
           /\ \A n \in DOMAIN FileOf[i] : FileOf[i][n] \in Cells
BY DEF ImportAssumption, Cells

(* A row is read as a cell. *)
LEMMA ReadingIsCell ==
    ASSUME ImportAssumption, NEW i \in Imports, NEW rows \in FileRows(i), NEW mapping,
           NEW n \in DOMAIN FileOf[i]
    PROVE  Reading(i, rows, mapping, n) \in Cells
<1>1. rows[n].fix \in Cells \cup {Blank} /\ FileOf[i][n] \in Cells
    BY FileCells DEF FileRows, Row
<1>. QED BY <1>1 DEF Reading, Cells

Ruled(row, status, phone) == [row EXCEPT !.status = status, !.phone = phone]

(* A row that is judged keeps its correction and nothing else.             *)
LEMMA RowJudged ==
    ASSUME NEW row \in Row, NEW status, NEW phone
    PROVE  Ruled(row, status, phone) = [fix |-> row.fix, status |-> status, phone |-> phone]
<1>. DEFINE fix == row.fix  old == row.status  number == row.phone
<1>1. row = [fix |-> fix, status |-> old, phone |-> number]
    BY DEF Row
<1>2. [row EXCEPT !.status = status] = [fix |-> fix, status |-> status, phone |-> number]
    <2>. HIDE DEF fix, old, number
    <2>. QED BY <1>1
<1>. DEFINE judged == [row EXCEPT !.status = status]
<1>. HIDE DEF judged, fix, old, number
<1>3. judged = [fix |-> fix, status |-> status, phone |-> number]
    BY <1>2 DEF judged
<1>4. [judged EXCEPT !.phone = phone] = [fix |-> fix, status |-> status, phone |-> phone]
    BY <1>3
<1>. QED BY <1>4 DEF judged, fix, Ruled

(* A verdict leaves the correction alone; only a readable row has a phone. *)
LEMMA ValidatedRow ==
    ASSUME ImportAssumption, NEW i \in Imports, NEW rows \in FileRows(i), NEW mapping,
           NEW existing, NEW n \in DOMAIN FileOf[i]
    PROVE  LET v == Validated(i, rows, mapping, existing)[n]
           IN  /\ v \in Row
               /\ v.fix = rows[n].fix
               /\ v.status = Verdict(i, rows, mapping, existing, n)
               /\ v.status # "INVALID" => /\ v.phone = Reading(i, rows, mapping, n)
                                          /\ v.phone \in Phones
               /\ v.status \in {"INVALID", "DUPLICATE", "VALID"}
<1>. DEFINE verdict == Verdict(i, rows, mapping, existing, n)
            phone   == IF verdict = "INVALID" THEN Blank ELSE Reading(i, rows, mapping, n)
<1>1. rows[n] \in Row /\ DOMAIN rows = DOMAIN FileOf[i]
    BY DEF FileRows
<1>2. Reading(i, rows, mapping, n) \in Cells
    BY ReadingIsCell
<1>3. verdict \in {"INVALID", "DUPLICATE", "VALID"}
    BY DEF Verdict
<1>4. verdict # "INVALID" => Reading(i, rows, mapping, n) \in Phones
    BY <1>2 DEF Verdict, Cells
<1>5. Validated(i, rows, mapping, existing)[n] = Ruled(rows[n], verdict, phone)
    BY <1>1, Zenon DEF Validated, Ruled
<1>6. phone \in Phones \cup {Blank}
    BY <1>4
<1>. HIDE DEF verdict, phone
<1>7. Ruled(rows[n], verdict, phone) = [fix |-> rows[n].fix, status |-> verdict, phone |-> phone]
    BY <1>1, RowJudged
<1>8. rows[n].fix \in Cells \cup {Blank}
    BY <1>1 DEF Row
<1>9. [fix |-> rows[n].fix, status |-> verdict, phone |-> phone] \in Row
    BY <1>3, <1>6, <1>8 DEF Row, Verdicts
<1>. QED BY <1>3, <1>4, <1>5, <1>7, <1>9 DEF verdict, phone

(* Validated rows are rows of the file. *)
LEMMA ValidatedRows ==
    ASSUME ImportAssumption, NEW i \in Imports, NEW rows \in FileRows(i), NEW mapping, NEW existing
    PROVE  Validated(i, rows, mapping, existing) \in FileRows(i)
<1>1. \A n \in DOMAIN FileOf[i] : Validated(i, rows, mapping, existing)[n] \in Row
    BY ValidatedRow
<1>2. /\ DOMAIN Validated(i, rows, mapping, existing) = DOMAIN FileOf[i]
      /\ Validated(i, rows, mapping, existing)
            = [n \in DOMAIN FileOf[i] |-> Validated(i, rows, mapping, existing)[n]]
    BY DEF Validated, FileRows
<1>. QED BY <1>1, <1>2 DEF FileRows

(* Rows with the same corrections are judged alike. *)
LEMMA JudgedByCorrections ==
    ASSUME ImportAssumption, NEW i \in Imports, NEW rows \in FileRows(i), NEW others \in FileRows(i),
           \A n \in DOMAIN FileOf[i] : rows[n].fix = others[n].fix,
           NEW mapping, NEW existing
    PROVE  Validated(i, rows, mapping, existing) = Validated(i, others, mapping, existing)
<1>1. \A n \in DOMAIN FileOf[i] : Reading(i, rows, mapping, n) = Reading(i, others, mapping, n)
    BY DEF Reading
<1>2. ASSUME NEW n \in DOMAIN FileOf[i]
      PROVE  Verdict(i, rows, mapping, existing, n) = Verdict(i, others, mapping, existing, n)
    <2>1. n \in DOMAIN FileOf[i] /\ 1..(n - 1) \subseteq DOMAIN FileOf[i]
        BY FileCells
    <2>. QED BY <1>1, <2>1 DEF Verdict
<1>3. ASSUME NEW n \in DOMAIN FileOf[i]
      PROVE  Validated(i, rows, mapping, existing)[n] = Validated(i, others, mapping, existing)[n]
    <2>. DEFINE verdict == Verdict(i, rows, mapping, existing, n)
                phone   == IF verdict = "INVALID" THEN Blank ELSE Reading(i, rows, mapping, n)
    <2>1. rows[n] \in Row /\ others[n] \in Row /\ rows[n].fix = others[n].fix
        BY DEF FileRows
    <2>a. DOMAIN rows = DOMAIN FileOf[i] /\ DOMAIN others = DOMAIN FileOf[i]
        BY DEF FileRows
    <2>2. Validated(i, rows, mapping, existing)[n] = Ruled(rows[n], verdict, phone)
        BY <2>a, Zenon DEF Validated, Ruled
    <2>b. /\ verdict = Verdict(i, others, mapping, existing, n)
          /\ phone = IF verdict = "INVALID" THEN Blank ELSE Reading(i, others, mapping, n)
        BY <1>1, <1>2
    <2>. HIDE DEF verdict, phone
    <2>3. Validated(i, others, mapping, existing)[n] = Ruled(others[n], verdict, phone)
        BY <2>a, <2>b, Zenon DEF Validated, Ruled
    <2>4. Validated(i, rows, mapping, existing)[n] = [fix |-> rows[n].fix, status |-> verdict, phone |-> phone]
        BY <2>1, <2>2, RowJudged
    <2>5. Validated(i, others, mapping, existing)[n] = [fix |-> others[n].fix, status |-> verdict, phone |-> phone]
        BY <2>1, <2>3, RowJudged
    <2>. QED BY <2>1, <2>4, <2>5
<1>4. /\ DOMAIN rows = DOMAIN FileOf[i] /\ DOMAIN others = DOMAIN FileOf[i]
    BY DEF FileRows
<1>. DEFINE a == Validated(i, rows, mapping, existing)
            b == Validated(i, others, mapping, existing)
<1>5. a = [n \in DOMAIN FileOf[i] |-> a[n]] /\ b = [n \in DOMAIN FileOf[i] |-> b[n]]
    BY <1>4 DEF Validated
<1>. HIDE DEF a, b
<1>6. \A n \in DOMAIN FileOf[i] : a[n] = b[n]
    BY <1>3 DEF a, b
<1>7. a = b
    BY <1>5, <1>6
<1>. QED BY <1>7 DEF a, b

(* Verdicts that are written to rows with the corrections they judge       *)
Judged(rows, verdicts) == [n \in DOMAIN rows |-> [verdicts[n] EXCEPT !.fix = rows[n].fix]]

(* are the verdicts of the result.                                         *)
LEMMA JudgedAgain ==
    ASSUME ImportAssumption, NEW i \in Imports, NEW rows \in FileRows(i), NEW mapping, NEW existing,
           NEW verdicts, verdicts = Validated(i, rows, mapping, existing)
    PROVE  /\ verdicts \in FileRows(i)
           /\ verdicts = Validated(i, verdicts, mapping, existing)
           /\ Judged(rows, verdicts) = verdicts
<1>1. verdicts \in FileRows(i)
    BY ValidatedRows
<1>2. \A n \in DOMAIN FileOf[i] : verdicts[n].fix = rows[n].fix
    BY ValidatedRow
<1>3. verdicts = Validated(i, verdicts, mapping, existing)
    BY <1>1, <1>2, JudgedByCorrections
<1>4. \A n \in DOMAIN FileOf[i] : [verdicts[n] EXCEPT !.fix = rows[n].fix] = verdicts[n]
    BY <1>1, <1>2 DEF FileRows, Row
<1>5. DOMAIN rows = DOMAIN FileOf[i] /\ verdicts = [n \in DOMAIN FileOf[i] |-> verdicts[n]]
    BY <1>1 DEF FileRows
<1>. QED BY <1>1, <1>3, <1>4, <1>5 DEF Judged

-----------------------------------------------------------------------------
(* What a step does to the rows of the imports. *)

(* A revision stands for the rows and the mapping it had.                  *)
Moves(i) ==
    \/ job'[i].revision > job[i].revision
    \/ /\ job'[i].revision = job[i].revision
       /\ job'[i].rows = job[i].rows
       /\ job'[i].mapping = job[i].mapping
       /\ job'[i].status = "COMPLETED" => job[i].status = "COMPLETED"

KeepsResult(i) ==
    (job[i].status = "COMPLETED" \/ job'[i].status = "COMPLETED") => job'[i] = job[i]

(* What is known of an import of the invariant. *)
LEMMA RowFields ==
    ASSUME ImportAssumption, RowsInv, NEW i \in Imports
    PROVE  /\ job[i] \in ImportRow(i)
           /\ job[i].status \in Statuses /\ job[i].revision \in Nat
           /\ job[i].mapping \in Mappings \cup {Blank}
           /\ job[i].rows \in FileRows(i) \cup {<<>>}
           /\ LastJob(i) \in Nat /\ LastJob(i) >= 1
           /\ MaxRevision[i] \in Nat /\ LastJob(i) <= MaxRevision[i] + 1
<1>1. job[i] \in ImportRow(i)
    BY DEF RowsInv, ImportRowOK
<1>2. MaxRevision[i] \in Nat
    BY DEF ImportAssumption
<1>3. LastJob(i) \in Nat /\ LastJob(i) >= 1 /\ LastJob(i) <= MaxRevision[i] + 1
    BY <1>2 DEF LastJob
<1>. QED BY <1>1, <1>2, <1>3 DEF ImportRow

(* The row of an import with another status and revision *)
WithStatus(old, s, r) == [old EXCEPT !.status = s, !.revision = r]

(* keeps the rest.                                                         *)
LEMMA StatusWritten ==
    ASSUME ImportAssumption, RowsInv, NEW i \in Imports, NEW s \in Statuses, NEW r \in Nat
    PROVE  /\ WithStatus(job[i], s, r) \in ImportRow(i)
           /\ WithStatus(job[i], s, r).status = s /\ WithStatus(job[i], s, r).revision = r
           /\ WithStatus(job[i], s, r).mapping = job[i].mapping /\ WithStatus(job[i], s, r).rows = job[i].rows
<1>0. job[i] \in ImportRow(i)
    BY RowFields
<1>. DEFINE first == [job[i] EXCEPT !.status = s]
<1>1. /\ first \in ImportRow(i)
      /\ first.status = s /\ first.revision = job[i].revision /\ first.mapping = job[i].mapping /\ first.rows = job[i].rows
    BY <1>0 DEF ImportRow
<1>. HIDE DEF first
<1>2. WithStatus(job[i], s, r) = [first EXCEPT !.revision = r]
    BY DEF WithStatus, first
<1>. QED BY <1>1, <1>2 DEF ImportRow

(* with another mapping too *)
WithMapping(old, m, s, r) == [old EXCEPT !.mapping = m, !.status = s, !.revision = r]

(* keeps the rest.                                                         *)
LEMMA MappingWritten ==
    ASSUME ImportAssumption, RowsInv, NEW i \in Imports, NEW s \in Statuses, NEW r \in Nat, NEW m \in Mappings
    PROVE  /\ WithMapping(job[i], m, s, r) \in ImportRow(i)
           /\ WithMapping(job[i], m, s, r).status = s /\ WithMapping(job[i], m, s, r).revision = r
           /\ WithMapping(job[i], m, s, r).mapping = m /\ WithMapping(job[i], m, s, r).rows = job[i].rows
<1>0. job[i] \in ImportRow(i)
    BY RowFields
<1>. DEFINE first == [job[i] EXCEPT !.mapping = m]
<1>1. /\ first \in ImportRow(i)
      /\ first.status = job[i].status /\ first.revision = job[i].revision /\ first.mapping = m /\ first.rows = job[i].rows
    BY <1>0 DEF ImportRow
<1>. HIDE DEF first
<1>. DEFINE second == [first EXCEPT !.status = s]
<1>2. /\ second \in ImportRow(i)
      /\ second.status = s /\ second.revision = job[i].revision /\ second.mapping = m /\ second.rows = job[i].rows
    BY <1>1 DEF ImportRow
<1>. HIDE DEF second
<1>3. WithMapping(job[i], m, s, r) = [second EXCEPT !.revision = r]
    BY DEF WithMapping, first, second
<1>. QED BY <1>2, <1>3 DEF ImportRow

(* with other rows too *)
WithRows(old, o, s, r) == [old EXCEPT !.rows = o, !.status = s, !.revision = r]

(* keeps the rest.                                                         *)
LEMMA RowsWritten ==
    ASSUME ImportAssumption, RowsInv, NEW i \in Imports, NEW s \in Statuses, NEW r \in Nat, NEW o \in FileRows(i)
    PROVE  /\ WithRows(job[i], o, s, r) \in ImportRow(i)
           /\ WithRows(job[i], o, s, r).status = s /\ WithRows(job[i], o, s, r).revision = r
           /\ WithRows(job[i], o, s, r).mapping = job[i].mapping /\ WithRows(job[i], o, s, r).rows = o
<1>0. job[i] \in ImportRow(i)
    BY RowFields
<1>. DEFINE first == [job[i] EXCEPT !.rows = o]
<1>1. /\ first \in ImportRow(i)
      /\ first.status = job[i].status /\ first.revision = job[i].revision /\ first.mapping = job[i].mapping /\ first.rows = o
    BY <1>0 DEF ImportRow
<1>. HIDE DEF first
<1>. DEFINE second == [first EXCEPT !.status = s]
<1>2. /\ second \in ImportRow(i)
      /\ second.status = s /\ second.revision = job[i].revision /\ second.mapping = job[i].mapping /\ second.rows = o
    BY <1>1 DEF ImportRow
<1>. HIDE DEF second
<1>3. WithRows(job[i], o, s, r) = [second EXCEPT !.revision = r]
    BY DEF WithRows, first, second
<1>. QED BY <1>2, <1>3 DEF ImportRow

(* with its result *)
WithResult(old, o, s, r) == [old EXCEPT !.status = s, !.revision = r, !.rows = o]

(* keeps the mapping.                                                      *)
LEMMA ResultWritten ==
    ASSUME ImportAssumption, RowsInv, NEW i \in Imports, NEW s \in Statuses, NEW r \in Nat, NEW o \in FileRows(i)
    PROVE  /\ WithResult(job[i], o, s, r) \in ImportRow(i)
           /\ WithResult(job[i], o, s, r).status = s /\ WithResult(job[i], o, s, r).revision = r
           /\ WithResult(job[i], o, s, r).rows = o
<1>0. job[i] \in ImportRow(i)
    BY RowFields
<1>. DEFINE first == [job[i] EXCEPT !.status = s]
<1>1. first \in ImportRow(i) /\ first.status = s
    BY <1>0 DEF ImportRow
<1>. HIDE DEF first
<1>. DEFINE second == [first EXCEPT !.revision = r]
<1>2. second \in ImportRow(i) /\ second.status = s /\ second.revision = r
    BY <1>1 DEF ImportRow
<1>. HIDE DEF second
<1>3. WithResult(job[i], o, s, r) = [second EXCEPT !.rows = o]
    BY DEF WithResult, first, second
<1>. QED BY <1>2, <1>3 DEF ImportRow

(* A step that writes no import. *)
LEMMA NoImportWritten ==
    ASSUME RowsInv, UNCHANGED job
    PROVE  RowsInv' /\ \A i \in Imports : Moves(i) /\ KeepsResult(i)
<1>1. ASSUME NEW i \in Imports PROVE ImportRowOK(i)'
    BY DEF RowsInv, ImportRowOK
<1>. QED BY <1>1 DEF RowsInv, Moves, KeepsResult

(* A step that writes one. *)
LEMMA OneWritten ==
    ASSUME RowsInv, NEW i \in Imports, DOMAIN job' = Imports,
           \A k \in Imports \ {i} : job'[k] = job[k],
           ImportRowOK(i)', Moves(i)
    PROVE  /\ RowsInv' /\ \A k \in Imports : Moves(k)
           /\ \A k \in Imports \ {i} : KeepsResult(k)
<1>1. ASSUME NEW k \in Imports PROVE ImportRowOK(k)'
    <2>1. CASE k = i
        BY <2>1
    <2>2. CASE k # i
        BY <2>2 DEF RowsInv, ImportRowOK
    <2>. QED BY <2>1, <2>2
<1>. QED BY <1>1 DEF RowsInv, Moves, KeepsResult

(* A job stays a job of its import, and what is live now was so before, with *)
(* the rows and the mapping it had.                                        *)
LEMMA JobStays ==
    ASSUME ImportAssumption, RowsInv, RowsInv', NEW j, JobOK(j), \A i \in Imports : Moves(i)
    PROVE  /\ JobOK(j)'
           /\ Live(j)' => /\ Live(j)
                          /\ job'[j.import].rows = job[j.import].rows
                          /\ job'[j.import].mapping = job[j.import].mapping
<1>. DEFINE i == j.import
<1>1. i \in Imports /\ j.revision \in Nat /\ j \in Job
    BY DEF JobOK, Job
<1>2. job[i].revision \in Nat /\ job'[i].revision \in Nat
    BY <1>1, RowFields DEF RowsInv, ImportRowOK, ImportRow
<1>3. /\ j.revision <= LastJob(i) /\ j.revision <= job[i].revision
      /\ job[i].status = "COMPLETED" => j.revision < job[i].revision
    BY DEF JobOK
<1>4. CASE job'[i].revision > job[i].revision
    BY <1>1, <1>2, <1>3, <1>4 DEF JobOK, Live
<1>5. CASE ~(job'[i].revision > job[i].revision)
    <2>1. Moves(i)
        BY <1>1
    <2>. QED BY <1>1, <1>2, <1>3, <1>5, <2>1 DEF JobOK, Live, Moves
<1>. QED BY <1>4, <1>5

(* An execution keeps what it holds. *)
LEMMA ExecutionStays ==
    ASSUME ImportAssumption, RowsInv, RowsInv', \A i \in Imports : Moves(i),
           NEW w \in Workers, ExecutionOK(w), exec'[w] = exec[w]
    PROVE  ExecutionOK(w)'
<1>1. CASE exec[w] = NoExec
    BY <1>1 DEF ExecutionOK
<1>2. CASE exec[w] # NoExec
    <2>. DEFINE j == exec[w].job
    <2>1. JobOK(j) /\ exec[w].step \in {"PARSE", "READ", "COMPLETE"}
        BY <1>2 DEF ExecutionOK
    <2>2. PICK k : k = exec[w].job
        OBVIOUS
    <2>3. JobOK(k)
        BY <2>1, <2>2
    <2>4. JobOK(k)' /\ (Live(k)' => /\ Live(k)
                                   /\ job'[k.import].rows = job[k.import].rows
                                   /\ job'[k.import].mapping = job[k.import].mapping)
        BY <2>3, JobStays
    <2>5. k = exec'[w].job
        BY <2>2
    <2>6. JobOK(exec[w].job)'
        BY <2>4, <2>5 DEF JobOK
    <2>7. ASSUME Live(exec[w].job)'
          PROVE  /\ Live(exec[w].job)
                 /\ job'[k.import].rows = job[k.import].rows
                 /\ job'[k.import].mapping = job[k.import].mapping
        <3>1. Live(k)'
            BY <2>5, <2>7 DEF Live
        <3>. QED BY <2>2, <2>4, <3>1 DEF Live
    <2>. QED BY <1>2, <2>1, <2>2, <2>6, <2>7 DEF ExecutionOK
<1>. QED BY <1>1, <1>2

(* A page keeps what it shows. *)
LEMMA PageStays ==
    ASSUME ImportAssumption, RowsInv, RowsInv', NEW i \in Imports, Moves(i), PageOK(i),
           page'[i] = page[i]
    PROVE  PageOK(i)'
<1>1. job[i].revision \in Nat /\ job'[i].revision \in Nat
    BY RowFields DEF RowsInv, ImportRowOK, ImportRow
<1>2. page[i].revision \in Nat /\ page[i].revision <= job[i].revision
    BY DEF PageOK
<1>. QED BY <1>1, <1>2 DEF PageOK, Moves

(* What a step that writes imports leaves to show: the parts of the         *)
(* invariant about variables it does not change hold.                      *)
LEMMA Carried ==
    ASSUME ImportAssumption, ImportInv, RowsInv', \A i \in Imports : Moves(i)
    PROVE  /\ \A j : JobOK(j) => JobOK(j)'
           /\ \A w \in Workers : exec'[w] = exec[w] => ExecutionOK(w)'
           /\ UNCHANGED exec => ExecsInv'
           /\ UNCHANGED page => PagesInv'
           /\ UNCHANGED confirm => ConfirmInv'
           /\ queue' \cup unmarked' \subseteq queue \cup unmarked => JobsInv'
<1>. USE DEF ImportInv
<1>1. \A j : JobOK(j) => JobOK(j)'
    BY JobStays
<1>2. \A w \in Workers : exec'[w] = exec[w] => ExecutionOK(w)'
    BY ExecutionStays DEF ExecsInv
<1>3. UNCHANGED exec => ExecsInv'
    BY <1>2 DEF ExecsInv
<1>4. UNCHANGED page => PagesInv'
    BY PageStays DEF PagesInv
<1>5. UNCHANGED confirm => ConfirmInv'
    BY DEF ConfirmInv, ConfirmOK
<1>6. queue' \cup unmarked' \subseteq queue \cup unmarked => JobsInv'
    BY <1>1 DEF JobsInv
<1>. QED BY <1>1, <1>2, <1>3, <1>4, <1>5, <1>6

(* Invitations stay accounted for when none is created and no result is    *)
(* touched.                                                                *)
LEMMA GroupsStay ==
    ASSUME ImportInv, UNCHANGED groups, \A i \in Imports : KeepsResult(i)
    PROVE  GroupsInv' /\ ImportsSeeEachOther'
<1>1. ASSUME NEW i \in Imports PROVE Importing(i)'
    <2>1. Importing(i)
        BY DEF ImportInv, GroupsInv
    <2>2. CASE job[i].status = "COMPLETED" \/ job'[i].status = "COMPLETED"
        BY <2>1, <2>2 DEF KeepsResult, Importing
    <2>3. CASE ~(job[i].status = "COMPLETED" \/ job'[i].status = "COMPLETED")
        BY <2>1, <2>3 DEF Importing
    <2>. QED BY <2>2, <2>3
<1>. QED BY <1>1 DEF ImportInv, GroupsInv, ImportsSeeEachOther

-----------------------------------------------------------------------------
(* The host's operations. *)

(* At first nothing is uploaded. *)
LEMMA ImportInitInv ==
    ASSUME ImportAssumption, ImportInit
    PROVE  ImportInv
<1>. USE DEF ImportInit
<1>1. ASSUME NEW i \in Imports PROVE ImportRowOK(i)
    <2>1. job[i] = [status |-> "ABSENT", revision |-> 0, mapping |-> Blank, rows |-> <<>>]
        OBVIOUS
    <2>2. LastJob(i) \in Nat
        BY DEF LastJob, ImportAssumption
    <2>. QED BY <2>1, <2>2 DEF ImportRowOK, ImportRow, Statuses
<1>2. RowsInv /\ JobsInv
    BY <1>1 DEF RowsInv, JobsInv
<1>3. ExecsInv /\ ConfirmInv
    BY DEF ExecsInv, ExecutionOK, ConfirmInv, ConfirmOK
<1>4. PagesInv
    BY DEF PagesInv, PageOK
<1>5. GroupsInv /\ ImportsSeeEachOther
    BY DEF GroupsInv, Importing, ImportsSeeEachOther
<1>. QED BY <1>2, <1>3, <1>4, <1>5 DEF ImportInv, ImportAssumption

(* A job that is added, or whose add threw, is of the revision just written. *)
LEMMA Enqueued ==
    ASSUME ImportAssumption, ImportInv, NEW i \in Imports, NEW op \in {"PARSE", "VALIDATE"},
           Enqueue(i, op), \A j : JobOK(j) => JobOK(j)',
           job'[i].revision \in 1..LastJob(i), job'[i].status # "COMPLETED"
    PROVE  JobsInv' /\ faults' \in 0..MaxFaults
<1>. PICK new : new = [op |-> op, import |-> i, revision |-> job'[i].revision]
    OBVIOUS
<1>1. LastJob(i) \in Nat
    BY DEF LastJob, ImportAssumption
<1>2. new \in Job /\ new.import = i /\ new.revision = job'[i].revision
    BY <1>1 DEF Job
<1>3. JobOK(new)'
    BY <1>1, <1>2 DEF JobOK
<1>4. queue' \cup unmarked' \subseteq queue \cup unmarked \cup {new}
    BY DEF Enqueue
<1>5. \A j \in queue \cup unmarked : JobOK(j)
    BY DEF JobsInv, ImportInv
<1>6. \A j \in queue' \cup unmarked' : JobOK(j)'
    BY <1>3, <1>4, <1>5
<1>7. JobsInv'
    BY <1>6 DEF JobsInv
<1>8. faults' \in 0..MaxFaults
    BY DEF Enqueue, Fault, ImportInv, ImportAssumption
<1>. QED BY <1>7, <1>8

(* An import that gets the next revision, and is not over with it.         *)
LEMMA StepsOn ==
    ASSUME ImportAssumption, ImportInv, NEW i \in Imports, DOMAIN job' = Imports,
           \A k \in Imports \ {i} : job'[k] = job[k],
           ImportRowOK(i)', job'[i].revision > job[i].revision,
           job[i].status # "COMPLETED", job'[i].status # "COMPLETED", UNCHANGED groups
    PROVE  /\ RowsInv' /\ \A k \in Imports : Moves(k) /\ KeepsResult(k)
           /\ GroupsInv' /\ ImportsSeeEachOther'
<1>1. Moves(i)
    BY DEF Moves
<1>2. RowsInv' /\ (\A k \in Imports : Moves(k)) /\ \A k \in Imports \ {i} : KeepsResult(k)
    BY <1>1, OneWritten DEF ImportInv
<1>3. KeepsResult(i)
    BY DEF KeepsResult
<1>. QED BY <1>2, <1>3, GroupsStay

(* The API stores an upload and adds its parse job, or fails to. *)
LEMMA UploadStep ==
    ASSUME ImportAssumption, ImportInv, NEW i \in Imports, Upload(i)
    PROVE  ImportInv'
<1>0. /\ RowsInv /\ job[i] \in ImportRow(i) /\ job[i].revision \in Nat
      /\ LastJob(i) \in Nat /\ LastJob(i) >= 1
    BY RowFields DEF ImportInv
<1>1. /\ DOMAIN job' = Imports /\ \A k \in Imports \ {i} : job'[k] = job[k]
      /\ job'[i] = WithStatus(job[i], "UPLOADED", 1)
    BY <1>0 DEF Upload, RowsInv, WithStatus
<1>2. job[i].revision = 0 /\ job[i].status = "ABSENT"
    BY <1>0 DEF Upload, RowsInv, ImportRowOK
<1>3. /\ job'[i].status = "UPLOADED" /\ job'[i].revision = 1
      /\ job'[i] \in ImportRow(i)
    <2>1. "UPLOADED" \in Statuses
        BY DEF Statuses
    <2>2. 1 \in Nat
        BY <1>0
    <2>. DEFINE new == WithStatus(job[i], "UPLOADED", 1)
    <2>3. /\ new \in ImportRow(i)
          /\ new.status = "UPLOADED" /\ new.revision = 1
        BY <1>0, <2>1, <2>2, StatusWritten, SMT
    <2>4. job'[i] = new
        BY <1>1
    <2>. HIDE DEF new
    <2>. QED BY <2>3, <2>4
<1>4. ImportRowOK(i)'
    BY <1>0, <1>3 DEF ImportRowOK
<1>5. RowsInv' /\ (\A k \in Imports : Moves(k)) /\ GroupsInv' /\ ImportsSeeEachOther'
    <2>1. job'[i].revision > job[i].revision /\ UNCHANGED groups
        BY <1>2, <1>3 DEF Upload
    <2>. QED BY <1>1, <1>2, <1>3, <1>4, <2>1, StepsOn
<1>6. ExecsInv' /\ PagesInv' /\ ConfirmInv' /\ \A j : JobOK(j) => JobOK(j)'
    BY <1>5, Carried DEF Upload
<1>7. JobsInv' /\ faults' \in 0..MaxFaults
    <2>1. Enqueue(i, "PARSE") /\ job'[i].revision \in 1..LastJob(i)
        BY <1>0, <1>3 DEF Upload
    <2>. QED BY <1>3, <1>6, <2>1, Enqueued
<1>. QED BY <1>5, <1>6, <1>7 DEF ImportInv

(* A mapping withdraws the verdicts with the next revision. *)
LEMMA MapColumnsStep ==
    ASSUME ImportAssumption, ImportInv, NEW i \in Imports, NEW mapping \in Mappings,
           MapColumns(i, mapping)
    PROVE  ImportInv'
<1>0. /\ RowsInv /\ job[i] \in ImportRow(i) /\ job[i].revision \in Nat
      /\ LastJob(i) \in Nat /\ LastJob(i) >= 1
    BY RowFields DEF ImportInv
<1>1. /\ DOMAIN job' = Imports /\ \A k \in Imports \ {i} : job'[k] = job[k]
      /\ job'[i] = WithMapping(job[i], mapping, "VALIDATING", job[i].revision + 1)
    BY <1>0 DEF MapColumns, RowsInv, ImportRow, WithMapping
<1>2. /\ job'[i].status = "VALIDATING" /\ job'[i].revision = job[i].revision + 1
      /\ job'[i].rows = job[i].rows
      /\ job'[i] \in ImportRow(i)
    <2>1. "VALIDATING" \in Statuses
        BY DEF Statuses
    <2>2. job[i].revision + 1 \in Nat
        BY <1>0
    <2>. DEFINE new == WithMapping(job[i], mapping, "VALIDATING", job[i].revision + 1)
    <2>3. /\ new \in ImportRow(i)
          /\ new.status = "VALIDATING" /\ new.revision = job[i].revision + 1 /\ new.rows = job[i].rows
        BY <1>0, <2>1, <2>2, MappingWritten, SMT
    <2>4. job'[i] = new
        BY <1>1
    <2>. HIDE DEF new
    <2>. QED BY <2>3, <2>4
<1>4. job[i].revision + 1 <= LastJob(i) /\ job[i].rows \in FileRows(i)
    BY <1>0, RowFields DEF MapColumns, LastJob
<1>5. ImportRowOK(i)'
    BY <1>0, <1>2, <1>4 DEF ImportRowOK
<1>6. RowsInv' /\ (\A k \in Imports : Moves(k)) /\ GroupsInv' /\ ImportsSeeEachOther'
    <2>1. job'[i].revision > job[i].revision /\ job[i].status # "COMPLETED" /\ UNCHANGED groups
        BY <1>0, <1>2 DEF MapColumns
    <2>. QED BY <1>1, <1>2, <1>5, <2>1, StepsOn
<1>7. ExecsInv' /\ PagesInv' /\ ConfirmInv' /\ \A j : JobOK(j) => JobOK(j)'
    BY <1>6, Carried DEF MapColumns
<1>8. JobsInv' /\ faults' \in 0..MaxFaults
    <2>1. Enqueue(i, "VALIDATE") /\ job'[i].revision \in 1..LastJob(i)
        BY <1>0, <1>2, <1>4 DEF MapColumns
    <2>. QED BY <1>2, <1>7, <2>1, Enqueued
<1>. QED BY <1>6, <1>7, <1>8 DEF ImportInv

(* A correction withdraws the verdicts with the next revision. *)
LEMMA CorrectRowStep ==
    ASSUME ImportAssumption, ImportInv, NEW i \in Imports, NEW n \in DOMAIN job[i].rows,
           NEW cell \in Cells, CorrectRow(i, n, cell)
    PROVE  ImportInv'
<1>0. /\ RowsInv /\ job[i] \in ImportRow(i) /\ job[i].revision \in Nat
      /\ LastJob(i) \in Nat /\ LastJob(i) >= 1
    BY RowFields DEF ImportInv
<1>. DEFINE row  == [job[i].rows[n] EXCEPT !.fix = cell, !.status = "UNMAPPED"]
            rows == [job[i].rows EXCEPT ![n] = row]
<1>1. job[i].rows \in FileRows(i)
    BY <1>0 DEF ImportRow
<1>2. rows \in FileRows(i)
    <2>1. job[i].rows[n] \in Row
        BY <1>1 DEF FileRows
    <2>2. row \in Row
        BY <2>1 DEF Row, Verdicts
    <2>. HIDE DEF row
    <2>. QED BY <1>1, <2>2 DEF FileRows
<1>3. /\ DOMAIN job' = Imports /\ \A k \in Imports \ {i} : job'[k] = job[k]
      /\ job'[i] = WithRows(job[i], rows, "VALIDATING", job[i].revision + 1)
    <2>1. job' = [job EXCEPT ![i].rows[n].fix = cell, ![i].rows[n].status = "UNMAPPED",
                             ![i].status = "VALIDATING", ![i].revision = @ + 1]
        BY Zenon DEF CorrectRow
    <2>2. DOMAIN job = Imports
        BY <1>0 DEF RowsInv
    <2>3. DOMAIN job' = Imports /\ \A k \in Imports \ {i} : job'[k] = job[k]
        BY <2>1, <2>2
    <2>4. job'[i] = [[job[i] EXCEPT !.rows = rows] EXCEPT !.status = "VALIDATING", !.revision = @ + 1]
        BY <2>1, <2>2
    <2>. QED BY <1>0, <2>3, <2>4 DEF WithRows, ImportRow
<1>. HIDE DEF rows
<1>4. /\ job'[i].status = "VALIDATING" /\ job'[i].revision = job[i].revision + 1
      /\ job'[i].rows = rows /\ job'[i] \in ImportRow(i)
    <2>1. "VALIDATING" \in Statuses
        BY DEF Statuses
    <2>2. job[i].revision + 1 \in Nat
        BY <1>0
    <2>. DEFINE new == WithRows(job[i], rows, "VALIDATING", job[i].revision + 1)
    <2>3. /\ new \in ImportRow(i)
          /\ new.status = "VALIDATING" /\ new.revision = job[i].revision + 1 /\ new.rows = rows
        BY <1>0, <1>2, <2>1, <2>2, RowsWritten, SMT
    <2>4. job'[i] = new
        BY <1>3
    <2>. HIDE DEF new
    <2>. QED BY <2>3, <2>4
<1>5. job[i].revision + 1 <= LastJob(i)
    BY <1>0, RowFields DEF CorrectRow, LastJob
<1>6. ImportRowOK(i)'
    BY <1>0, <1>2, <1>4, <1>5 DEF ImportRowOK
<1>7. RowsInv' /\ (\A k \in Imports : Moves(k)) /\ GroupsInv' /\ ImportsSeeEachOther'
    <2>1. job'[i].revision > job[i].revision /\ job[i].status # "COMPLETED" /\ UNCHANGED groups
        BY <1>0, <1>4 DEF CorrectRow
    <2>. QED BY <1>3, <1>4, <1>6, <2>1, StepsOn
<1>8. ExecsInv' /\ PagesInv' /\ ConfirmInv' /\ \A j : JobOK(j) => JobOK(j)'
    BY <1>7, Carried DEF CorrectRow
<1>9. JobsInv' /\ faults' \in 0..MaxFaults
    <2>1. Enqueue(i, "VALIDATE") /\ job'[i].revision \in 1..LastJob(i)
        BY <1>0, <1>4, <1>5 DEF CorrectRow
    <2>. QED BY <1>4, <1>8, <2>1, Enqueued
<1>. QED BY <1>7, <1>8, <1>9 DEF ImportInv

(* A cancellation takes a revision of its own *)
LEMMA CancelWrites ==
    ASSUME ImportAssumption, ImportInv, NEW i \in Imports, Cancel(i)
    PROVE  /\ RowsInv' /\ \A k \in Imports : Moves(k) /\ KeepsResult(k)
           /\ GroupsInv' /\ ImportsSeeEachOther'
<1>0. /\ RowsInv /\ job[i] \in ImportRow(i) /\ job[i].revision \in Nat
      /\ LastJob(i) \in Nat /\ LastJob(i) >= 1
    BY RowFields DEF ImportInv
<1>1. /\ DOMAIN job' = Imports /\ \A k \in Imports \ {i} : job'[k] = job[k]
      /\ job'[i] = WithStatus(job[i], "CANCELLED", job[i].revision + 1)
    BY <1>0 DEF Cancel, RowsInv, ImportRow, WithStatus
<1>2. /\ job'[i].status = "CANCELLED" /\ job'[i].revision = job[i].revision + 1
      /\ job'[i] \in ImportRow(i)
    <2>1. "CANCELLED" \in Statuses
        BY DEF Statuses
    <2>2. job[i].revision + 1 \in Nat
        BY <1>0
    <2>. DEFINE new == WithStatus(job[i], "CANCELLED", job[i].revision + 1)
    <2>3. /\ new \in ImportRow(i)
          /\ new.status = "CANCELLED" /\ new.revision = job[i].revision + 1
        BY <1>0, <2>1, <2>2, StatusWritten, SMT
    <2>4. job'[i] = new
        BY <1>1
    <2>. HIDE DEF new
    <2>. QED BY <2>3, <2>4
<1>4. job[i].revision <= LastJob(i) + 1
    BY <1>0 DEF Cancel, RowsInv, ImportRowOK
<1>5. ImportRowOK(i)'
    BY <1>0, <1>2, <1>4 DEF ImportRowOK
<1>6. job'[i].revision > job[i].revision /\ job[i].status # "COMPLETED" /\ UNCHANGED groups
    BY <1>0, <1>2 DEF Cancel
<1>. QED BY <1>1, <1>2, <1>5, <1>6, StepsOn

(* and leaves what runs behind it. *)
LEMMA CancelStep ==
    ASSUME ImportAssumption, ImportInv, NEW i \in Imports, Cancel(i)
    PROVE  ImportInv'
<1>6. RowsInv' /\ (\A k \in Imports : Moves(k)) /\ GroupsInv' /\ ImportsSeeEachOther'
    BY CancelWrites
<1>7. ExecsInv' /\ PagesInv' /\ ConfirmInv' /\ JobsInv'
    BY <1>6, Carried DEF Cancel
<1>8. faults' \in 0..MaxFaults
    BY DEF Cancel, Fault, ImportAssumption, ImportInv
<1>. QED BY <1>6, <1>7, <1>8 DEF ImportInv

-----------------------------------------------------------------------------
(* The queue and the worker. *)

(* A status is written and the revision stays. *)
LEMMA Restated ==
    ASSUME ImportAssumption, ImportInv, NEW i \in Imports, NEW s \in {"FAILED", "PARSING"},
           job' = [job EXCEPT ![i].status = s], job[i].status # "COMPLETED",
           job[i].revision <= LastJob(i) + 1, UNCHANGED groups
    PROVE  /\ RowsInv' /\ \A k \in Imports : Moves(k) /\ KeepsResult(k)
           /\ GroupsInv' /\ ImportsSeeEachOther'
<1>0. /\ RowsInv /\ job[i] \in ImportRow(i) /\ job[i].revision \in Nat
      /\ LastJob(i) \in Nat /\ LastJob(i) >= 1
    BY RowFields DEF ImportInv
<1>1. s \in Statuses
    BY DEF Statuses
<1>2. /\ DOMAIN job' = Imports /\ \A k \in Imports \ {i} : job'[k] = job[k]
      /\ job'[i] = [job[i] EXCEPT !.status = s]
    BY <1>0 DEF RowsInv
<1>3. /\ job'[i] \in ImportRow(i) /\ job'[i].status = s
      /\ job'[i].revision = job[i].revision /\ job'[i].mapping = job[i].mapping
      /\ job'[i].rows = job[i].rows
    BY <1>0, <1>1, <1>2 DEF ImportRow
<1>4. ImportRowOK(i)'
    BY <1>0, <1>3 DEF ImportRowOK
<1>5. Moves(i) /\ KeepsResult(i)
    BY <1>3 DEF Moves, KeepsResult
<1>6. RowsInv' /\ (\A k \in Imports : Moves(k)) /\ \A k \in Imports \ {i} : KeepsResult(k)
    BY <1>0, <1>2, <1>4, <1>5, OneWritten
<1>. QED BY <1>5, <1>6, GroupsStay

(* No import is written and no invitation created. *)
LEMMA Unwritten ==
    ASSUME ImportInv, UNCHANGED <<job, groups>>
    PROVE  /\ RowsInv' /\ \A k \in Imports : Moves(k) /\ KeepsResult(k)
           /\ GroupsInv' /\ ImportsSeeEachOther'
<1>1. RowsInv' /\ \A k \in Imports : Moves(k) /\ KeepsResult(k)
    BY NoImportWritten DEF ImportInv
<1>. QED BY <1>1, GroupsStay

(* One worker changes what it executes. *)
LEMMA OneExecution ==
    ASSUME ImportAssumption, ImportInv, RowsInv', \A k \in Imports : Moves(k),
           NEW w \in Workers, NEW x, exec' = [exec EXCEPT ![w] = x], ExecutionOK(w)'
    PROVE  ExecsInv'
<1>1. DOMAIN exec' = Workers /\ \A v \in Workers \ {w} : exec'[v] = exec[v]
    BY DEF ImportInv, ExecsInv
<1>2. \A v \in Workers \ {w} : ExecutionOK(v)'
    BY <1>1, Carried
<1>. QED BY <1>1, <1>2 DEF ExecsInv

(* An execution is over, and its job perhaps too. *)
LEMMA Ended ==
    ASSUME ImportAssumption, ImportInv, RowsInv', \A k \in Imports : Moves(k),
           NEW w \in Workers, exec' = [exec EXCEPT ![w] = NoExec],
           queue' \subseteq queue, UNCHANGED unmarked
    PROVE  ExecsInv' /\ JobsInv'
<1>1. exec'[w] = NoExec
    BY DEF ImportInv, ExecsInv
<1>2. ExecutionOK(w)'
    BY <1>1 DEF ExecutionOK
<1>3. queue' \cup unmarked' \subseteq queue \cup unmarked
    OBVIOUS
<1>. QED BY <1>2, <1>3, OneExecution, Carried

(* A job that could not be added fails its import, which has created nothing, *)
LEMMA MarkQueueFailureWrites ==
    ASSUME ImportAssumption, ImportInv, NEW j \in unmarked, MarkQueueFailure(j)
    PROVE  /\ RowsInv' /\ \A k \in Imports : Moves(k) /\ KeepsResult(k)
           /\ GroupsInv' /\ ImportsSeeEachOther'
<1>. DEFINE i == j.import
<1>0. RowsInv /\ JobOK(j) /\ i \in Imports /\ j.revision \in Nat
    BY DEF ImportInv, JobsInv, JobOK, Job
<1>1. CASE job[i].revision = j.revision
    <2>1. job' = [job EXCEPT ![i].status = "FAILED"] /\ UNCHANGED groups
        BY <1>1 DEF MarkQueueFailure
    <2>2. job[i].status # "COMPLETED" /\ job[i].revision <= LastJob(i) + 1
        BY <1>0, <1>1, RowFields DEF JobOK
    <2>. QED BY <1>0, <2>1, <2>2, Restated
<1>2. CASE job[i].revision # j.revision
    BY <1>2, Unwritten DEF MarkQueueFailure
<1>. QED BY <1>1, <1>2

(* and leaves the rest. *)
LEMMA MarkQueueFailureStep ==
    ASSUME ImportAssumption, ImportInv, NEW j \in unmarked, MarkQueueFailure(j)
    PROVE  ImportInv'
<1>1. RowsInv' /\ (\A k \in Imports : Moves(k)) /\ GroupsInv' /\ ImportsSeeEachOther'
    BY MarkQueueFailureWrites
<1>2. ExecsInv' /\ PagesInv' /\ ConfirmInv' /\ JobsInv'
    <2>1. queue' \cup unmarked' \subseteq queue \cup unmarked
        BY DEF MarkQueueFailure
    <2>. QED BY <1>1, <2>1, Carried DEF MarkQueueFailure
<1>. QED BY <1>1, <1>2 DEF MarkQueueFailure, ImportInv

(* A stale job goes without effect. *)
LEMMA SkipJobStep ==
    ASSUME ImportAssumption, ImportInv, NEW j \in queue, SkipJob(j)
    PROVE  ImportInv'
<1>1. RowsInv' /\ (\A k \in Imports : Moves(k)) /\ GroupsInv' /\ ImportsSeeEachOther'
    BY Unwritten DEF SkipJob
<1>2. ExecsInv' /\ PagesInv' /\ ConfirmInv' /\ JobsInv'
    <2>1. queue' \cup unmarked' \subseteq queue \cup unmarked
        BY DEF SkipJob
    <2>. QED BY <1>1, <2>1, Carried DEF SkipJob
<1>. QED BY <1>1, <1>2 DEF SkipJob, ImportInv

(* A parse starts on the revision of its job. *)
LEMMA TakeParseStep ==
    ASSUME ImportAssumption, ImportInv, NEW w \in Workers, NEW j \in queue, TakeParse(w, j)
    PROVE  ImportInv'
<1>0. RowsInv /\ JobOK(j) /\ j.import \in Imports /\ j.revision \in Nat
    BY DEF ImportInv, JobsInv, JobOK, Job
<1>1. RowsInv' /\ (\A k \in Imports : Moves(k)) /\ GroupsInv' /\ ImportsSeeEachOther'
    <2>1. /\ job' = [job EXCEPT ![j.import].status = "PARSING"] /\ UNCHANGED groups
          /\ job[j.import].status # "COMPLETED"
        BY DEF TakeParse, Runnable
    <2>2. job[j.import].revision <= LastJob(j.import) + 1
        BY <1>0, RowFields DEF JobOK, TakeParse, Runnable
    <2>. QED BY <1>0, <2>1, <2>2, Restated
<1>2. PagesInv' /\ ConfirmInv' /\ JobsInv' /\ JobOK(j)'
    BY <1>0, <1>1, Carried DEF TakeParse
<1>3. ExecsInv'
    <2>1. exec' = [exec EXCEPT ![w] = [step |-> "PARSE", job |-> j]]
        BY DEF TakeParse
    <2>2. exec'[w] = [step |-> "PARSE", job |-> j]
        BY <2>1 DEF ImportInv, ExecsInv
    <2>3. exec'[w].job = j /\ exec'[w].step = "PARSE"
        BY <2>2
    <2>4. JobOK(exec[w].job)'
        BY <1>2, <2>3 DEF JobOK
    <2>5. ExecutionOK(w)'
        BY <2>3, <2>4 DEF ExecutionOK
    <2>. QED BY <1>1, <2>1, <2>5, OneExecution
<1>. QED BY <1>1, <1>2, <1>3 DEF TakeParse, ImportInv

(* A validation reads the mapping of the revision of its job. *)
LEMMA TakeValidationStep ==
    ASSUME ImportAssumption, ImportInv, NEW w \in Workers, NEW j \in queue, TakeValidation(w, j)
    PROVE  ImportInv'
<1>0. RowsInv /\ JobOK(j) /\ j.import \in Imports /\ j.revision \in Nat
    BY DEF ImportInv, JobsInv, JobOK, Job
<1>1. RowsInv' /\ (\A k \in Imports : Moves(k)) /\ GroupsInv' /\ ImportsSeeEachOther'
    BY Unwritten DEF TakeValidation
<1>2. PagesInv' /\ ConfirmInv' /\ JobsInv' /\ JobOK(j)'
    BY <1>0, <1>1, Carried DEF TakeValidation
<1>3. ExecsInv'
    <2>. DEFINE x == [step |-> "READ", job |-> j, mapping |-> job[j.import].mapping]
    <2>1. exec' = [exec EXCEPT ![w] = x]
        BY DEF TakeValidation
    <2>2. exec'[w] = x
        BY <2>1 DEF ImportInv, ExecsInv
    <2>3. /\ exec'[w].job = j /\ exec'[w].step = "READ"
          /\ exec'[w].mapping = job'[j.import].mapping
        BY <2>2 DEF TakeValidation
    <2>4. JobOK(exec[w].job)'
        BY <1>2, <2>3 DEF JobOK
    <2>5. ExecutionOK(w)'
        BY <2>3, <2>4 DEF ExecutionOK
    <2>. HIDE DEF x
    <2>. QED BY <1>1, <2>1, <2>5, OneExecution
<1>. QED BY <1>1, <1>2, <1>3 DEF TakeValidation, ImportInv

(* A parse replaces the rows under the next revision. *)
LEMMA CompleteParseStep ==
    ASSUME ImportAssumption, ImportInv, NEW w \in Workers, CompleteParse(w)
    PROVE  ImportInv'
<1>. PICK j, i : j = exec[w].job /\ i = j.import
    OBVIOUS
<1>0. RowsInv /\ JobOK(j) /\ i \in Imports /\ j.revision \in Nat /\ LastJob(i) \in Nat
    <2>1. exec[w] # NoExec
        BY DEF CompleteParse, NoExec
    <2>2. JobOK(j)
        BY <2>1 DEF ImportInv, ExecsInv, ExecutionOK
    <2>. QED BY <2>2 DEF ImportInv, JobOK, Job, LastJob, ImportAssumption
<1>1. RowsInv' /\ (\A k \in Imports : Moves(k)) /\ GroupsInv' /\ ImportsSeeEachOther'
    <2>1. CASE job[i].revision = j.revision /\ job[i].status = "PARSING"
        <3>. DEFINE rows == [n \in DOMAIN FileOf[i] |-> Fresh]
                    new  == [status |-> "AWAITING_MAPPING", revision |-> j.revision + 1,
                             mapping |-> Blank, rows |-> rows]
        <3>1. job' = [job EXCEPT ![i] = new] /\ UNCHANGED groups
            BY <2>1 DEF CompleteParse
        <3>2. rows \in FileRows(i)
            BY DEF FileRows, Fresh, Row, Verdicts
        <3>. HIDE DEF rows
        <3>3. new \in ImportRow(i) /\ new.status = "AWAITING_MAPPING" /\ new.revision = j.revision + 1
            BY <1>0, <3>2 DEF ImportRow, Statuses
        <3>. HIDE DEF new
        <3>4. /\ DOMAIN job' = Imports /\ \A k \in Imports \ {i} : job'[k] = job[k]
              /\ job'[i] = new
            BY <1>0, <3>1 DEF RowsInv
        <3>5. j.revision <= LastJob(i)
            BY <1>0 DEF JobOK
        <3>6. ImportRowOK(i)'
            BY <1>0, <3>3, <3>4, <3>5 DEF ImportRowOK
        <3>7. job'[i].revision > job[i].revision /\ job[i].status # "COMPLETED" /\ job'[i].status # "COMPLETED"
            BY <1>0, <2>1, <3>3, <3>4
        <3>. QED BY <1>0, <3>1, <3>4, <3>6, <3>7, StepsOn
    <2>2. CASE ~(job[i].revision = j.revision /\ job[i].status = "PARSING")
        <3>1. UNCHANGED <<job, groups>>
            BY <2>2 DEF CompleteParse
        <3>. QED BY <3>1, Unwritten
    <2>. QED BY <2>1, <2>2
<1>2. PagesInv' /\ ConfirmInv'
    BY <1>1, Carried DEF CompleteParse
<1>3. ExecsInv' /\ JobsInv'
    BY <1>1, Ended DEF CompleteParse, Finish
<1>. QED BY <1>1, <1>2, <1>3 DEF CompleteParse, ImportInv

(* A validation judges the rows of its revision if it is still live. *)
LEMMA ReadRowsStep ==
    ASSUME ImportAssumption, ImportInv, NEW w \in Workers, ReadRows(w)
    PROVE  ImportInv'
<1>. DEFINE j == exec[w].job  i == j.import
            judged == Validated(i, job[i].rows, exec[w].mapping, ActivePhones(groups))
            x == [step |-> "COMPLETE", job |-> j, rows |-> judged]
<1>0. ExecutionOK(w) /\ exec[w] # NoExec
    BY DEF ReadRows, NoExec, ImportInv, ExecsInv
<1>1. RowsInv' /\ (\A k \in Imports : Moves(k)) /\ GroupsInv' /\ ImportsSeeEachOther'
    BY Unwritten DEF ReadRows
<1>2. PagesInv' /\ ConfirmInv' /\ JobsInv'
    BY <1>1, Carried DEF ReadRows
<1>3. ExecsInv'
    <2>1. exec' = [exec EXCEPT ![w] = x]
        BY DEF ReadRows
    <2>2. exec'[w] = x
        BY <2>1 DEF ImportInv, ExecsInv
    <2>3. exec'[w].job = j /\ exec'[w].step = "COMPLETE" /\ exec'[w].rows = judged
        BY <2>2
    <2>4. JobOK(exec[w].job)'
        BY <1>0, <2>3 DEF ExecutionOK, JobOK, ReadRows
    <2>5. ASSUME Live(exec[w].job)'
          PROVE  \E existing \in SUBSET Phones :
                     exec'[w].rows = Validated(i, job[i].rows, job[i].mapping, existing)
        <3>1. Live(exec[w].job)
            BY <2>3, <2>5 DEF Live, ReadRows
        <3>2. exec[w].mapping = job[i].mapping
            BY <1>0, <3>1 DEF ExecutionOK, ReadRows
        <3>3. ActivePhones(groups) \in SUBSET Phones
            BY DEF ActivePhones, ImportInv, GroupsInv
        <3>. QED BY <2>3, <3>2, <3>3
    <2>6. ExecutionOK(w)'
        <3>. HIDE DEF judged, x
        <3>. QED BY <2>3, <2>4, <2>5 DEF ExecutionOK, ReadRows
    <2>. HIDE DEF x
    <2>. QED BY <1>1, <2>1, <2>6, OneExecution
<1>. QED BY <1>1, <1>2, <1>3 DEF ReadRows, ImportInv

(* What a completed validation and a permanent failure do to the rows. *)
LEMMA ValidationOutcome ==
    ASSUME NEW w \in Workers, NEW j, j = exec[w].job, CompleteValidation(w)
    PROVE  /\ exec[w].step = "COMPLETE"
           /\ UNCHANGED <<groups, page, unmarked, confirm, faults>>
           /\ Finish(w)
           /\ StillValidating(j) =>
                  job' = [job EXCEPT ![j.import].rows = Judged(job[j.import].rows, exec[w].rows),
                                     ![j.import].status = Outcome(Judged(job[j.import].rows, exec[w].rows)),
                                     ![j.import].revision = @ + 1]
           /\ ~StillValidating(j) => UNCHANGED job
<1>1. CASE StillValidating(j)
    BY <1>1, Zenon DEF CompleteValidation, Judged
<1>2. CASE ~StillValidating(j)
    BY <1>2, Zenon DEF CompleteValidation
<1>. QED BY <1>1, <1>2, Zenon

\* The failed job is still the current one of an import that has not ended.
Fails(j) == /\ job[j.import].revision = j.revision
            /\ job[j.import].status \notin {"CANCELLED", "COMPLETED", "FAILED"}

LEMMA FailureOutcome ==
    ASSUME NEW w \in Workers, NEW j, j = exec[w].job, FailForGood(w)
    PROVE  /\ exec[w] # NoExec /\ Fault /\ Finish(w)
           /\ UNCHANGED <<groups, page, unmarked, confirm>>
           /\ Fails(j) => job' = [job EXCEPT ![j.import].status = "FAILED", ![j.import].revision = @ + 1]
           /\ ~Fails(j) => UNCHANGED job
    BY Zenon DEF FailForGood, Fails

(* The row of one import is written, and no other row. *)
LEMMA OneRowJudged ==
    ASSUME RowsInv, NEW i \in Imports, NEW rows, NEW s,
           job' = [job EXCEPT ![i].rows = rows, ![i].status = s, ![i].revision = @ + 1]
    PROVE  /\ DOMAIN job' = Imports /\ \A k \in Imports \ {i} : job'[k] = job[k]
           /\ job'[i] = WithRows(job[i], rows, s, job[i].revision + 1)
    BY DEF RowsInv, WithRows

LEMMA OneRowMoved ==
    ASSUME RowsInv, NEW i \in Imports, NEW s,
           job' = [job EXCEPT ![i].status = s, ![i].revision = @ + 1]
    PROVE  /\ DOMAIN job' = Imports /\ \A k \in Imports \ {i} : job'[k] = job[k]
           /\ job'[i] = WithStatus(job[i], s, job[i].revision + 1)
    BY DEF RowsInv, WithStatus

(* A live validation writes the verdicts of the rows as they are, *)
LEMMA CompleteValidationWrites ==
    ASSUME ImportAssumption, ImportInv, NEW w \in Workers, CompleteValidation(w)
    PROVE  /\ RowsInv' /\ \A k \in Imports : Moves(k) /\ KeepsResult(k)
           /\ GroupsInv' /\ ImportsSeeEachOther'
<1>p. PICK j, i : j = exec[w].job /\ i = j.import
    OBVIOUS
<1>u. /\ exec[w].step = "COMPLETE" /\ UNCHANGED groups
      /\ StillValidating(j) =>
             job' = [job EXCEPT ![i].rows = Judged(job[i].rows, exec[w].rows),
                                ![i].status = Outcome(Judged(job[i].rows, exec[w].rows)),
                                ![i].revision = @ + 1]
      /\ ~StillValidating(j) => UNCHANGED job
    BY <1>p, ValidationOutcome, Zenon
<1>0. /\ RowsInv /\ ImportRowOK(i) /\ ExecutionOK(w) /\ exec[w] # NoExec /\ JobOK(j)
      /\ i \in Imports /\ j.revision \in Nat /\ LastJob(i) \in Nat
    <2>1. exec[w] # NoExec
        BY <1>u DEF NoExec
    <2>2. ExecutionOK(w) /\ JobOK(j)
        BY <1>p, <2>1 DEF ImportInv, ExecsInv, ExecutionOK
    <2>. QED BY <1>p, <2>1, <2>2 DEF ImportInv, RowsInv, JobOK, Job, LastJob, ImportAssumption
<1>1. CASE StillValidating(j)
    <2>1. Live(j) /\ job[i].status = "VALIDATING" /\ job[i].rows \in FileRows(i)
        <3>1. Live(j) /\ job[i].status = "VALIDATING"
            BY <1>1, <1>p DEF StillValidating, Live
        <3>. QED BY <1>0, <3>1 DEF ImportRowOK
    <2>2. PICK existing \in SUBSET Phones :
              exec[w].rows = Validated(i, job[i].rows, job[i].mapping, existing)
        BY <1>0, <1>p, <1>u, <2>1, Zenon DEF ExecutionOK
    <2>a. PICK judged : judged = Judged(job[i].rows, exec[w].rows)
        OBVIOUS
    <2>b. PICK s : s = Outcome(judged)
        OBVIOUS
    <2>3. /\ judged \in FileRows(i)
          /\ judged = Validated(i, judged, job[i].mapping, existing)
        <3>1. /\ exec[w].rows \in FileRows(i)
              /\ exec[w].rows = Validated(i, exec[w].rows, job[i].mapping, existing)
              /\ Judged(job[i].rows, exec[w].rows) = exec[w].rows
            BY <1>0, <2>1, <2>2, JudgedAgain
        <3>. QED BY <2>a, <3>1
    <2>4. s \in {"REVIEWING", "READY"}
        BY <2>b DEF Outcome
    <2>5. /\ job' = [job EXCEPT ![i].rows = judged, ![i].status = s, ![i].revision = @ + 1]
          /\ UNCHANGED groups
        BY <1>1, <1>u, <2>a, <2>b, Zenon
    <2>6. /\ DOMAIN job' = Imports /\ \A k \in Imports \ {i} : job'[k] = job[k]
          /\ job'[i] = WithRows(job[i], judged, s, job[i].revision + 1)
        BY <1>0, <2>5, OneRowJudged
    <2>7. s \in Statuses /\ s \in {"REVIEWING", "READY"} /\ job[i].revision + 1 \in Nat
        BY <1>0, <2>4, RowFields DEF Statuses
    <2>. DEFINE new == WithRows(job[i], judged, s, job[i].revision + 1)
    <2>8. /\ new \in ImportRow(i) /\ new.status = s
          /\ new.revision = job[i].revision + 1 /\ new.mapping = job[i].mapping /\ new.rows = judged
        BY <1>0, <2>3, <2>7, RowsWritten, SMT
    <2>9. job'[i] = new
        BY <2>6
    <2>. HIDE DEF new
    <2>10. job[i].revision <= LastJob(i) /\ job[i].revision \in Nat
        BY <1>0, <1>p, <2>1 DEF JobOK, Live
    <2>11. ImportRowOK(i)'
        <3>1. \E e \in SUBSET Phones : job'[i].rows = Validated(i, job'[i].rows, job'[i].mapping, e)
            BY <2>3, <2>8, <2>9
        <3>2. /\ job'[i] \in ImportRow(i) /\ job'[i].status \in {"REVIEWING", "READY"}
              /\ job'[i].revision <= LastJob(i) + 1 /\ job'[i].rows \in FileRows(i)
            BY <1>0, <2>3, <2>7, <2>8, <2>9, <2>10
        <3>3. job'[i].revision <= LastJob(i) + 2
            BY <1>0, <2>8, <2>9, <2>10
        <3>. QED BY <3>1, <3>2, <3>3 DEF ImportRowOK
    <2>12. job'[i].revision > job[i].revision /\ job[i].status # "COMPLETED" /\ job'[i].status # "COMPLETED"
        BY <2>1, <2>7, <2>8, <2>9, <2>10
    <2>. QED BY <1>0, <2>5, <2>6, <2>11, <2>12, StepsOn
<1>2. CASE ~StillValidating(j)
    <2>1. UNCHANGED <<job, groups>>
        BY <1>2, <1>u
    <2>. QED BY <2>1, Unwritten
<1>. QED BY <1>1, <1>2

(* and ends, as one that is not live does. *)
LEMMA CompleteValidationStep ==
    ASSUME ImportAssumption, ImportInv, NEW w \in Workers, CompleteValidation(w)
    PROVE  ImportInv'
<1>1. RowsInv' /\ (\A k \in Imports : Moves(k)) /\ GroupsInv' /\ ImportsSeeEachOther'
    BY CompleteValidationWrites
<1>u. Finish(w) /\ UNCHANGED <<groups, page, unmarked, confirm, faults>>
    BY ValidationOutcome, Zenon
<1>2. PagesInv' /\ ConfirmInv'
    BY <1>1, <1>u, Carried
<1>3. ExecsInv' /\ JobsInv'
    BY <1>1, <1>u, Ended DEF Finish
<1>. QED BY <1>1, <1>2, <1>3, <1>u DEF ImportInv

(* A permanent failure takes a revision of its own. *)
LEMMA FailForGoodStep ==
    ASSUME ImportAssumption, ImportInv, NEW w \in Workers, FailForGood(w)
    PROVE  ImportInv'
<1>p. PICK j, i : j = exec[w].job /\ i = j.import
    OBVIOUS
<1>u. /\ exec[w] # NoExec /\ Fault /\ Finish(w) /\ UNCHANGED <<groups, page, unmarked, confirm>>
      /\ Fails(j) => job' = [job EXCEPT ![i].status = "FAILED", ![i].revision = @ + 1]
      /\ ~Fails(j) => UNCHANGED job
    BY <1>p, FailureOutcome, Zenon
<1>0. /\ RowsInv /\ JobOK(j) /\ i \in Imports /\ j.revision \in Nat
      /\ LastJob(i) \in Nat /\ job[i].revision \in Nat
    <2>1. JobOK(j)
        BY <1>p, <1>u DEF ImportInv, ExecsInv, ExecutionOK
    <2>. QED BY <1>p, <2>1, RowFields DEF ImportInv, JobOK, Job, LastJob, ImportAssumption
<1>1. RowsInv' /\ (\A k \in Imports : Moves(k)) /\ GroupsInv' /\ ImportsSeeEachOther'
    <2>1. CASE Fails(j)
        <3>1. job' = [job EXCEPT ![i].status = "FAILED", ![i].revision = @ + 1] /\ UNCHANGED groups
            BY <1>u, <2>1, Zenon
        <3>2. /\ DOMAIN job' = Imports /\ \A k \in Imports \ {i} : job'[k] = job[k]
              /\ job'[i] = WithStatus(job[i], "FAILED", job[i].revision + 1)
            BY <1>0, <3>1, OneRowMoved
        <3>3. job[i].revision + 1 \in Nat
            BY <1>0
        <3>a. "FAILED" \in Statuses
            BY DEF Statuses
        <3>. DEFINE new == WithStatus(job[i], "FAILED", job[i].revision + 1)
        <3>4. new \in ImportRow(i) /\ new.status = "FAILED" /\ new.revision = job[i].revision + 1
            BY <1>0, <3>3, <3>a, StatusWritten, SMT
        <3>5. job'[i] = new
            BY <3>2
        <3>. HIDE DEF new
        <3>6. job[i].revision <= LastJob(i)
            BY <1>0, <1>p, <2>1 DEF JobOK, Fails
        <3>7. ImportRowOK(i)'
            <4>1. job'[i] \in ImportRow(i) /\ job'[i].status = "FAILED" /\ job'[i].revision <= LastJob(i) + 1
                BY <1>0, <3>4, <3>5, <3>6
            <4>2. job'[i].revision <= LastJob(i) + 2
                BY <1>0, <3>4, <3>5, <3>6
            <4>. QED BY <4>1, <4>2 DEF ImportRowOK
        <3>8. job'[i].revision > job[i].revision /\ job[i].status # "COMPLETED" /\ job'[i].status # "COMPLETED"
            BY <1>0, <1>p, <2>1, <3>4, <3>5 DEF Fails
        <3>. QED BY <1>0, <3>1, <3>2, <3>7, <3>8, StepsOn
    <2>2. CASE ~Fails(j)
        <3>1. UNCHANGED <<job, groups>>
            BY <1>u, <2>2
        <3>. QED BY <3>1, Unwritten
    <2>. QED BY <2>1, <2>2
<1>2. PagesInv' /\ ConfirmInv'
    BY <1>1, <1>u, Carried
<1>3. ExecsInv' /\ JobsInv'
    BY <1>1, <1>u, Ended DEF Finish
<1>4. faults' \in 0..MaxFaults
    BY <1>u DEF Fault, ImportInv, ImportAssumption
<1>. QED BY <1>1, <1>2, <1>3, <1>4, <1>u DEF ImportInv

(* A lost execution writes nothing. *)
LEMMA ExecutionLostStep ==
    ASSUME ImportAssumption, ImportInv, NEW w \in Workers, ExecutionLost(w)
    PROVE  ImportInv'
<1>1. RowsInv' /\ (\A k \in Imports : Moves(k)) /\ GroupsInv' /\ ImportsSeeEachOther'
    BY Unwritten DEF ExecutionLost
<1>2. PagesInv' /\ ConfirmInv'
    BY <1>1, Carried DEF ExecutionLost
<1>3. ExecsInv' /\ JobsInv'
    BY <1>1, Ended DEF ExecutionLost
<1>4. faults' \in 0..MaxFaults
    BY DEF ExecutionLost, Fault, ImportInv, ImportAssumption
<1>. QED BY <1>1, <1>2, <1>3, <1>4 DEF ImportInv

-----------------------------------------------------------------------------
(* Confirmation and creation by hand. *)

(* One confirmation begins, goes on or ends. *)
LEMMA OneConfirmation ==
    ASSUME ImportInv, NEW i \in Imports, NEW x, confirm' = [confirm EXCEPT ![i] = x], ConfirmOK(i)'
    PROVE  ConfirmInv'
<1>1. DOMAIN confirm' = Imports /\ \A k \in Imports \ {i} : confirm'[k] = confirm[k]
    BY DEF ImportInv, ConfirmInv
<1>2. ASSUME NEW k \in Imports PROVE ConfirmOK(k)'
    <2>1. CASE k = i
        BY <2>1
    <2>2. CASE k # i
        BY <1>1, <2>2 DEF ImportInv, ConfirmInv, ConfirmOK
    <2>. QED BY <2>1, <2>2
<1>. QED BY <1>1, <1>2 DEF ConfirmInv

(* A page that is loaded shows the rows of the revision it names. *)
LEMMA LoadStep ==
    ASSUME ImportAssumption, ImportInv, NEW i \in Imports, Load(i)
    PROVE  ImportInv'
<1>1. RowsInv' /\ (\A k \in Imports : Moves(k)) /\ GroupsInv' /\ ImportsSeeEachOther'
    BY Unwritten DEF Load
<1>2. ExecsInv' /\ ConfirmInv' /\ JobsInv'
    BY <1>1, Carried DEF Load
<1>3. PagesInv'
    <2>. DEFINE shown == [revision |-> job[i].revision, rows |-> job[i].rows]
    <2>1. DOMAIN page' = Imports /\ \A k \in Imports : page'[k] = IF k = i THEN shown ELSE page[k]
        BY DEF Load, ImportInv, PagesInv
    <2>2. job[i].revision \in Nat
        BY RowFields DEF ImportInv
    <2>3. ASSUME NEW k \in Imports PROVE PageOK(k)'
        <3>1. CASE k = i
            BY <2>1, <2>2, <3>1 DEF PageOK, Load
        <3>2. CASE k # i
            BY <2>1, <3>2 DEF PageOK, Load, ImportInv, PagesInv
        <3>. QED BY <3>1, <3>2
    <2>. QED BY <2>1, <2>3 DEF PagesInv
<1>. QED BY <1>1, <1>2, <1>3 DEF Load, ImportInv

(* A confirmation begins with a snapshot of what is now, and with its host's page. *)
LEMMA BeginConfirmStep ==
    ASSUME ImportAssumption, ImportInv, NEW i \in Imports, NEW policy, BeginConfirm(i, policy)
    PROVE  ImportInv'
<1>1. RowsInv' /\ (\A k \in Imports : Moves(k)) /\ GroupsInv' /\ ImportsSeeEachOther'
    BY Unwritten DEF BeginConfirm
<1>2. ExecsInv' /\ PagesInv' /\ JobsInv'
    BY <1>1, Carried DEF BeginConfirm
<1>3. ConfirmInv'
    <2>. DEFINE x == [step |-> "LOCK", policy |-> policy, version |-> page[i].revision,
                      seen |-> page[i].rows, job |-> job[i], groups |-> groups]
    <2>1. confirm' = [confirm EXCEPT ![i] = x]
        BY DEF BeginConfirm
    <2>2. confirm'[i] = x
        BY <2>1 DEF ImportInv, ConfirmInv
    <2>3. page[i].revision = job[i].revision => page[i].rows = job[i].rows
        BY DEF ImportInv, PagesInv, PageOK
    <2>4. ConfirmOK(i)'
        BY <2>2, <2>3 DEF ConfirmOK
    <2>. HIDE DEF x
    <2>. QED BY <2>1, <2>4, OneConfirmation
<1>. QED BY <1>1, <1>2, <1>3 DEF BeginConfirm, ImportInv

(* A confirmation that gets its locks has passed the checks on its snapshot. *)
LEMMA LockPhonesStep ==
    ASSUME ImportAssumption, ImportInv, NEW i \in Imports, LockPhones(i)
    PROVE  ImportInv'
<1>1. RowsInv' /\ (\A k \in Imports : Moves(k)) /\ GroupsInv' /\ ImportsSeeEachOther'
    BY Unwritten DEF LockPhones
<1>2. ExecsInv' /\ PagesInv' /\ JobsInv'
    BY <1>1, Carried DEF LockPhones
<1>3. ConfirmInv'
    <2>. DEFINE c == confirm[i]
                x == [step |-> "COMMIT", policy |-> c.policy, version |-> c.version,
                      seen |-> c.seen, job |-> c.job, groups |-> c.groups]
    <2>1. c # NoConfirm /\ Confirmable(c)
        BY DEF LockPhones, NoConfirm
    <2>2. /\ c = [step |-> c.step, policy |-> c.policy, version |-> c.version,
                  seen |-> c.seen, job |-> c.job, groups |-> c.groups]
          /\ c.version = c.job.revision => c.seen = c.job.rows
        BY <2>1 DEF ImportInv, ConfirmInv, ConfirmOK
    <2>3. [c EXCEPT !.step = "COMMIT"] = x
        <3>. DEFINE step == c.step  policy == c.policy  version == c.version
                    seen == c.seen  row == c.job  known == c.groups
        <3>1. c = [step |-> step, policy |-> policy, version |-> version, seen |-> seen,
                   job |-> row, groups |-> known]
            BY <2>2
        <3>. HIDE DEF step, policy, version, seen, row, known
        <3>2. [c EXCEPT !.step = "COMMIT"]
                    = [step |-> "COMMIT", policy |-> policy, version |-> version, seen |-> seen,
                       job |-> row, groups |-> known]
            BY <3>1
        <3>. QED BY <3>2 DEF policy, version, seen, row, known
    <2>4. confirm' = [confirm EXCEPT ![i] = x] /\ confirm'[i] = x
        BY <2>3 DEF LockPhones, ImportInv, ConfirmInv
    <2>5. /\ confirm'[i].step = "COMMIT" /\ confirm'[i].version = c.version
          /\ confirm'[i].seen = c.seen /\ confirm'[i].job = c.job
          /\ confirm'[i] = [step |-> confirm'[i].step, policy |-> confirm'[i].policy,
                            version |-> confirm'[i].version, seen |-> confirm'[i].seen,
                            job |-> confirm'[i].job, groups |-> confirm'[i].groups]
        BY <2>4
    <2>6. Confirmable(confirm[i])'
        BY <2>1, <2>5 DEF Confirmable
    <2>7. ConfirmOK(i)'
        BY <2>2, <2>5, <2>6 DEF ConfirmOK
    <2>. HIDE DEF x
    <2>. QED BY <2>4, <2>7, OneConfirmation
<1>. QED BY <1>1, <1>2, <1>3 DEF LockPhones, ImportInv

(* A confirmation that is refused leaves everything as it was. *)
LEMMA RefuseConfirmStep ==
    ASSUME ImportAssumption, ImportInv, NEW i \in Imports, RefuseConfirm(i)
    PROVE  ImportInv'
<1>1. RowsInv' /\ (\A k \in Imports : Moves(k)) /\ GroupsInv' /\ ImportsSeeEachOther'
    BY Unwritten DEF RefuseConfirm
<1>2. ExecsInv' /\ PagesInv' /\ JobsInv'
    BY <1>1, Carried DEF RefuseConfirm
<1>3. ConfirmInv'
    <2>1. confirm' = [confirm EXCEPT ![i] = NoConfirm]
        BY DEF RefuseConfirm
    <2>2. confirm'[i] = NoConfirm
        BY <2>1 DEF ImportInv, ConfirmInv
    <2>3. ConfirmOK(i)'
        BY <2>2 DEF ConfirmOK
    <2>. QED BY <2>1, <2>3, OneConfirmation
<1>4. faults' \in 0..MaxFaults
    BY DEF RefuseConfirm, Fault, ImportInv, ImportAssumption
<1>. QED BY <1>1, <1>2, <1>3, <1>4 DEF RefuseConfirm, ImportInv

(* The rows of an import that is ready and has no invalid row have phones, *)
(* and a phone has one VALID row at most.                                  *)
LEMMA ReadyRows ==
    ASSUME ImportAssumption, ImportInv, NEW i \in Imports, job[i].status = "READY",
           \A n \in DOMAIN job[i].rows : job[i].rows[n].status \in {"VALID", "DUPLICATE"}
    PROVE  /\ job[i].rows \in FileRows(i)
           /\ \A n \in DOMAIN job[i].rows : job[i].rows[n].phone \in Phones
           /\ \A m, n \in DOMAIN job[i].rows :
                 /\ job[i].rows[m].status = "VALID" /\ job[i].rows[n].status = "VALID"
                 /\ job[i].rows[m].phone = job[i].rows[n].phone
                 => m = n
<1>. DEFINE rows == job[i].rows  mapping == job[i].mapping
<1>1. rows \in FileRows(i) /\ \E e \in SUBSET Phones : rows = Validated(i, rows, mapping, e)
    BY DEF ImportInv, RowsInv, ImportRowOK
<1>2. PICK existing \in SUBSET Phones : rows = Validated(i, rows, mapping, existing)
    BY <1>1
<1>3. DOMAIN rows = DOMAIN FileOf[i]
    BY <1>1 DEF FileRows
<1>4. ASSUME NEW n \in DOMAIN rows
      PROVE  /\ rows[n].phone = Reading(i, rows, mapping, n) /\ rows[n].phone \in Phones
             /\ rows[n].status = Verdict(i, rows, mapping, existing, n)
    <2>1. n \in DOMAIN FileOf[i] /\ rows[n].status # "INVALID"
        BY <1>3
    <2>2. LET v == Validated(i, rows, mapping, existing)[n]
          IN  /\ v.status = Verdict(i, rows, mapping, existing, n)
              /\ v.status # "INVALID" => v.phone = Reading(i, rows, mapping, n) /\ v.phone \in Phones
        BY <1>1, <2>1, ValidatedRow
    <2>. QED BY <1>2, <2>1, <2>2
<1>5. ASSUME NEW m \in DOMAIN rows, NEW n \in DOMAIN rows, m < n,
             rows[m].phone = rows[n].phone, rows[n].status = "VALID"
      PROVE  FALSE
    <2>1. m \in 1..(n - 1)
        BY <1>3, <1>5, FileCells
    <2>2. Reading(i, rows, mapping, m) = Reading(i, rows, mapping, n)
        BY <1>4, <1>5
    <2>3. Verdict(i, rows, mapping, existing, n) # "VALID"
        BY <2>1, <2>2 DEF Verdict
    <2>. QED BY <1>4, <1>5, <2>3
<1>6. ASSUME NEW m \in DOMAIN rows, NEW n \in DOMAIN rows,
             rows[m].status = "VALID", rows[n].status = "VALID", rows[m].phone = rows[n].phone
      PROVE  m = n
    <2>1. m \in Nat /\ n \in Nat
        BY <1>3, FileCells
    <2>. QED BY <1>5, <1>6, <2>1
<1>. QED BY <1>1, <1>4, <1>6

(* What a commit writes: it imports the rows that the host reviewed. *)
LEMMA CommitEffect ==
    ASSUME ImportAssumption, ImportInv, NEW i \in Imports, CommitConfirm(i)
    PROVE  /\ confirm[i].job = job[i] /\ Confirmable(confirm[i])
           /\ confirm[i].seen = job[i].rows
           /\ job[i].status = "READY" /\ job[i].rows \in FileRows(i)
           /\ Candidates(confirm[i]) \subseteq DOMAIN job[i].rows
<1>. DEFINE c == confirm[i]
<1>1. c # NoConfirm /\ c.step = "COMMIT" /\ c.job = job[i]
    BY DEF CommitConfirm, NoConfirm, Unserializable
<1>2. Confirmable(c) /\ (c.version = c.job.revision => c.seen = c.job.rows)
    BY <1>1 DEF ImportInv, ConfirmInv, ConfirmOK
<1>3. job[i].status = "READY" /\ c.seen = job[i].rows
    BY <1>1, <1>2 DEF Confirmable
<1>4. job[i].rows \in FileRows(i)
    BY <1>3 DEF ImportInv, RowsInv, ImportRowOK
<1>. QED BY <1>1, <1>2, <1>3, <1>4 DEF Candidates

(* The import is completed, with the candidates IMPORTED. *)
LEMMA CommitRow ==
    ASSUME ImportAssumption, ImportInv, NEW i \in Imports, CommitConfirm(i)
    PROVE  /\ RowsInv' /\ \A k \in Imports : Moves(k)
           /\ \A k \in Imports \ {i} : KeepsResult(k)
           /\ job'[i].status = "COMPLETED" /\ job'[i].rows \in FileRows(i)
           /\ \A n \in DOMAIN FileOf[i] :
                 job'[i].rows[n].status = IF n \in Candidates(confirm[i]) THEN "IMPORTED" ELSE "SKIPPED"
<1>. DEFINE c == confirm[i]
            result == [n \in DOMAIN c.job.rows |-> [c.job.rows[n] EXCEPT !.status =
                           IF n \in Candidates(c) THEN "IMPORTED" ELSE "SKIPPED"]]
<1>0. /\ RowsInv /\ job[i].revision \in Nat /\ LastJob(i) \in Nat
      /\ job[i].revision <= LastJob(i) + 1
    <2>1. job[i].status = "READY"
        BY CommitEffect
    <2>2. RowsInv
        BY DEF ImportInv
    <2>. QED BY <2>1, <2>2, RowFields DEF RowsInv, ImportRowOK
<1>1. c.job = job[i] /\ job[i].status = "READY" /\ job[i].rows \in FileRows(i)
    BY CommitEffect
<1>2. /\ result \in FileRows(i)
      /\ \A n \in DOMAIN FileOf[i] :
            result[n].status = IF n \in Candidates(c) THEN "IMPORTED" ELSE "SKIPPED"
    <2>1. DOMAIN c.job.rows = DOMAIN FileOf[i] /\ \A n \in DOMAIN FileOf[i] : c.job.rows[n] \in Row
        BY <1>1 DEF FileRows
    <2>2. ASSUME NEW n \in DOMAIN FileOf[i], NEW s \in {"IMPORTED", "SKIPPED"}
          PROVE  [c.job.rows[n] EXCEPT !.status = s] \in Row /\ [c.job.rows[n] EXCEPT !.status = s].status = s
        BY <2>1 DEF Row, Verdicts
    <2>. QED BY <2>1, <2>2 DEF FileRows
<1>3. job' = [job EXCEPT ![i].status = "COMPLETED", ![i].revision = @ + 1, ![i].rows = result]
    BY DEF CommitConfirm
<1>. HIDE DEF result
<1>4. /\ DOMAIN job' = Imports /\ \A k \in Imports \ {i} : job'[k] = job[k]
      /\ job'[i] = WithResult(job[i], result, "COMPLETED", job[i].revision + 1)
    BY <1>0, <1>3 DEF RowsInv, WithResult
<1>5. job[i].revision + 1 \in Nat
    BY <1>0
<1>6. "COMPLETED" \in Statuses
    BY DEF Statuses
<1>. DEFINE new == WithResult(job[i], result, "COMPLETED", job[i].revision + 1)
<1>7. /\ new \in ImportRow(i) /\ new.status = "COMPLETED"
      /\ new.revision = job[i].revision + 1 /\ new.rows = result
    BY <1>0, <1>2, <1>5, <1>6, ResultWritten, SMT
<1>8. job'[i] = new
    BY <1>4
<1>. HIDE DEF new
<1>9. ImportRowOK(i)'
    BY <1>0, <1>7, <1>8 DEF ImportRowOK
<1>10. Moves(i)
    BY <1>0, <1>7, <1>8 DEF Moves
<1>. QED BY <1>0, <1>2, <1>4, <1>7, <1>8, <1>9, <1>10, OneWritten

(* Its invitations are those of its imported rows. *)
LEMMA CommitGroups ==
    ASSUME ImportAssumption, ImportInv, NEW i \in Imports, CommitConfirm(i)
    PROVE  GroupsInv'
<1>. DEFINE c == confirm[i]
<1>1. /\ c.job = job[i] /\ Confirmable(c) /\ job[i].status = "READY"
      /\ job[i].rows \in FileRows(i) /\ Candidates(c) \subseteq DOMAIN job[i].rows
    BY CommitEffect
<1>2. groups' = groups \union InvitationsOf(i, c)
    BY DEF CommitConfirm
<1>3. \A n \in DOMAIN job[i].rows : job[i].rows[n].phone \in Phones
    BY <1>1, ReadyRows DEF Confirmable
<1>4. \A g \in groups' : g.phone \in Phones /\ g.by \in Imports \cup {Blank}
    BY <1>1, <1>2, <1>3 DEF InvitationsOf, ImportInv, GroupsInv
<1>5. ASSUME NEW k \in Imports \ {i} PROVE Importing(k)'
    <2>1. Importing(k) /\ KeepsResult(k)
        BY CommitRow DEF ImportInv, GroupsInv
    <2>2. {h \in groups' : h.by = k} = {h \in groups : h.by = k}
        BY <1>2 DEF InvitationsOf
    <2>3. CASE job[k].status = "COMPLETED" \/ job'[k].status = "COMPLETED"
        BY <2>1, <2>2, <2>3 DEF KeepsResult, Importing
    <2>4. CASE ~(job[k].status = "COMPLETED" \/ job'[k].status = "COMPLETED")
        BY <2>1, <2>2, <2>4 DEF Importing
    <2>. QED BY <2>3, <2>4
<1>6. Importing(i)'
    <2>1. ASSUME NEW h \in groups, h.by = i PROVE FALSE
        <3>1. {g.number : g \in {f \in groups : f.by = i}} = {}
            BY <1>1 DEF ImportInv, GroupsInv, Importing
        <3>2. h \in {f \in groups : f.by = i}
            BY <2>1
        <3>3. h.number \in {g.number : g \in {f \in groups : f.by = i}}
            BY <3>2
        <3>. QED BY <3>1, <3>3
    <2>2. {h \in groups' : h.by = i} = InvitationsOf(i, c)
        BY <1>2, <2>1 DEF InvitationsOf
    <2>3. {g.number : g \in InvitationsOf(i, c)} = Candidates(c)
        <3>1. ASSUME NEW g \in InvitationsOf(i, c) PROVE g.number \in Candidates(c)
            BY DEF InvitationsOf
        <3>2. ASSUME NEW n \in Candidates(c)
              PROVE  \E g \in InvitationsOf(i, c) : g.number = n
            <4>. DEFINE g == [phone |-> c.job.rows[n].phone, by |-> i, number |-> n,
                              reviewed |-> c.job.rows[n].status = "DUPLICATE"]
            <4>1. g \in InvitationsOf(i, c) /\ g.number = n
                BY DEF InvitationsOf
            <4>. QED BY <4>1
        <3>. QED BY <3>1, <3>2
    <2>4. /\ job'[i].status = "COMPLETED" /\ DOMAIN job'[i].rows = DOMAIN job[i].rows
          /\ \A n \in DOMAIN job'[i].rows : (job'[i].rows[n].status = "IMPORTED") <=> n \in Candidates(c)
        BY <1>1, CommitRow DEF FileRows
    <2>. QED BY <1>1, <2>2, <2>3, <2>4 DEF Importing
<1>. QED BY <1>4, <1>5, <1>6 DEF GroupsInv

(* A candidate that was not a duplicate has a phone that no other import    *)
(* has, and no other candidate of its own.                                 *)
LEMMA CommitSees ==
    ASSUME ImportAssumption, ImportInv, NEW i \in Imports, CommitConfirm(i)
    PROVE  ImportsSeeEachOther'
<1>. DEFINE c == confirm[i]
            new == InvitationsOf(i, c)
<1>1. /\ c.job = job[i] /\ Confirmable(c) /\ job[i].status = "READY"
      /\ Candidates(c) \subseteq DOMAIN job[i].rows
    BY CommitEffect
<1>2. groups' = groups \union new /\ ~NeedsRevalidation(c) /\ ~Unserializable(i, c)
    BY Zenon DEF CommitConfirm
<1>a. confirm[i] = c /\ new = InvitationsOf(i, c)
    OBVIOUS
<1>. HIDE DEF c, new
<1>3. ASSUME NEW g \in new, NEW h \in new, g # h, g.phone = h.phone
      PROVE  g.reviewed \/ h.reviewed
    <2>1. PICK m \in Candidates(c) :
              g = [phone |-> c.job.rows[m].phone, by |-> i, number |-> m,
                   reviewed |-> c.job.rows[m].status = "DUPLICATE"]
        BY <1>a DEF InvitationsOf
    <2>2. PICK n \in Candidates(c) :
              h = [phone |-> c.job.rows[n].phone, by |-> i, number |-> n,
                   reviewed |-> c.job.rows[n].status = "DUPLICATE"]
        BY <1>a DEF InvitationsOf
    <2>3. /\ c.job.rows[m].status \in {"VALID", "DUPLICATE"}
          /\ c.job.rows[n].status \in {"VALID", "DUPLICATE"}
        BY <1>1 DEF Confirmable
    <2>4. SUFFICES ASSUME c.job.rows[m].status = "VALID", c.job.rows[n].status = "VALID" PROVE FALSE
        BY <2>1, <2>2, <2>3
    <2>5. m = n
        <3>1. /\ m \in DOMAIN job[i].rows /\ n \in DOMAIN job[i].rows
              /\ job[i].rows[m].phone = job[i].rows[n].phone
            BY <1>1, <1>3, <2>1, <2>2
        <3>. QED BY <1>1, <2>4, <3>1, ReadyRows DEF Confirmable
    <2>. QED BY <1>3, <2>1, <2>2, <2>5
<1>4. ASSUME NEW g \in new, NEW h \in groups, g.phone = h.phone, h.by \in Imports
      PROVE  g.reviewed
    <2>1. PICK m \in Candidates(c) :
              g = [phone |-> c.job.rows[m].phone, by |-> i, number |-> m,
                   reviewed |-> c.job.rows[m].status = "DUPLICATE"]
        BY <1>a DEF InvitationsOf
    <2>2. SUFFICES ASSUME c.job.rows[m].status = "VALID" PROVE FALSE
        BY <1>1, <2>1 DEF Confirmable
    <2>3. h \notin c.groups
        BY <1>2, <1>4, <2>1, <2>2 DEF NeedsRevalidation, ActivePhones
    <2>4. h.phone \in CandidatePhones(c)
        <3>1. g.phone = c.job.rows[m].phone
            BY <2>1
        <3>2. h.phone = c.job.rows[m].phone
            BY <1>4, <3>1
        <3>. QED BY <3>2, Zenon DEF CandidatePhones
    <2>. QED BY <1>2, <1>4, <2>3, <2>4 DEF Unserializable
<1>. QED BY <1>2, <1>3, <1>4 DEF ImportsSeeEachOther, ImportInv

(* A commit keeps every part of the invariant. *)
LEMMA CommitConfirmStep ==
    ASSUME ImportAssumption, ImportInv, NEW i \in Imports, CommitConfirm(i)
    PROVE  ImportInv'
<1>1. RowsInv' /\ \A k \in Imports : Moves(k)
    BY CommitRow
<1>2. ExecsInv' /\ PagesInv' /\ JobsInv'
    BY <1>1, Carried DEF CommitConfirm
<1>3. ConfirmInv'
    <2>1. confirm' = [confirm EXCEPT ![i] = NoConfirm]
        BY DEF CommitConfirm
    <2>2. confirm'[i] = NoConfirm
        BY <2>1 DEF ImportInv, ConfirmInv
    <2>3. ConfirmOK(i)'
        BY <2>2 DEF ConfirmOK
    <2>. QED BY <2>1, <2>3, OneConfirmation
<1>. QED BY <1>1, <1>2, <1>3, CommitGroups, CommitSees DEF CommitConfirm, ImportInv

(* An invitation by hand is of no import. *)
LEMMA CreateByHandStep ==
    ASSUME ImportAssumption, ImportInv, NEW p \in Phones, CreateByHand(p)
    PROVE  ImportInv'
<1>1. RowsInv' /\ \A k \in Imports : Moves(k)
    BY NoImportWritten DEF CreateByHand, ImportInv
<1>2. ExecsInv' /\ PagesInv' /\ ConfirmInv' /\ JobsInv'
    BY <1>1, Carried DEF CreateByHand
<1>. DEFINE new == [phone |-> p, by |-> Blank, number |-> Cardinality(ByHand) + 1,
                    reviewed |-> p \in ActivePhones(groups)]
<1>3. groups' = groups \union {new} /\ UNCHANGED job
    BY DEF CreateByHand
<1>4. new.phone = p /\ new.by = Blank /\ Blank \notin Imports
    BY DEF ImportAssumption
<1>. HIDE DEF new
<1>5. ASSUME NEW k \in Imports PROVE Importing(k)'
    <2>1. {h \in groups' : h.by = k} = {h \in groups : h.by = k}
        BY <1>3, <1>4
    <2>2. Importing(k)
        BY DEF ImportInv, GroupsInv
    <2>. QED BY <1>3, <2>1, <2>2 DEF Importing
<1>6. GroupsInv'
    BY <1>3, <1>4, <1>5 DEF GroupsInv, ImportInv
<1>7. ImportsSeeEachOther'
    BY <1>3, <1>4 DEF ImportsSeeEachOther, ImportInv
<1>. QED BY <1>1, <1>2, <1>6, <1>7 DEF CreateByHand, ImportInv

-----------------------------------------------------------------------------
(* The theorems. *)

(* Every step keeps the invariant. *)
LEMMA ImportNextInv ==
    ASSUME ImportAssumption, ImportInv, [ImportNext]_importVars
    PROVE  ImportInv'
<1>1. CASE UNCHANGED importVars
    <2>1. RowsInv' /\ (\A k \in Imports : Moves(k)) /\ GroupsInv' /\ ImportsSeeEachOther'
        BY <1>1, Unwritten DEF importVars
    <2>2. ExecsInv' /\ PagesInv' /\ ConfirmInv' /\ JobsInv'
        BY <1>1, <2>1, Carried DEF importVars
    <2>. QED BY <1>1, <2>1, <2>2 DEF importVars, ImportInv
<1>2. ASSUME NEW i \in Imports, Upload(i) PROVE ImportInv'
    BY <1>2, UploadStep
<1>3. ASSUME NEW i \in Imports, Load(i) PROVE ImportInv'
    BY <1>3, LoadStep
<1>4. ASSUME NEW i \in Imports, NEW m \in Mappings, MapColumns(i, m) PROVE ImportInv'
    BY <1>4, MapColumnsStep
<1>5. ASSUME NEW i \in Imports, NEW n \in DOMAIN job[i].rows, NEW cell \in Cells, CorrectRow(i, n, cell)
      PROVE  ImportInv'
    BY <1>5, CorrectRowStep
<1>6. ASSUME NEW i \in Imports, Cancel(i) PROVE ImportInv'
    BY <1>6, CancelStep
<1>7. ASSUME NEW i \in Imports, NEW policy \in {"SKIP", "IMPORT"}, BeginConfirm(i, policy) PROVE ImportInv'
    BY <1>7, BeginConfirmStep
<1>8. ASSUME NEW i \in Imports, LockPhones(i) \/ CommitConfirm(i) \/ RefuseConfirm(i) PROVE ImportInv'
    BY <1>8, LockPhonesStep, CommitConfirmStep, RefuseConfirmStep
<1>9. ASSUME NEW j \in unmarked, MarkQueueFailure(j) PROVE ImportInv'
    BY <1>9, MarkQueueFailureStep
<1>10. ASSUME NEW j \in queue, SkipJob(j) PROVE ImportInv'
    BY <1>10, SkipJobStep
<1>11. ASSUME NEW w \in Workers, NEW j \in queue, TakeParse(w, j) \/ TakeValidation(w, j) PROVE ImportInv'
    BY <1>11, TakeParseStep, TakeValidationStep
<1>12. ASSUME NEW w \in Workers, CompleteParse(w) \/ ReadRows(w) \/ CompleteValidation(w)
       PROVE  ImportInv'
    BY <1>12, CompleteParseStep, ReadRowsStep, CompleteValidationStep
<1>13. ASSUME NEW w \in Workers, FailForGood(w) \/ ExecutionLost(w) PROVE ImportInv'
    BY <1>13, FailForGoodStep, ExecutionLostStep
<1>14. ASSUME NEW p \in Phones, CreateByHand(p) PROVE ImportInv'
    BY <1>14, CreateByHandStep
<1>. QED BY <1>1, <1>2, <1>3, <1>4, <1>5, <1>6, <1>7, <1>8, <1>9, <1>10, <1>11, <1>12, <1>13,
            <1>14 DEF ImportNext

(* The inductive invariant holds in every state. *)
THEOREM ImportInvariant == ImportSpec => []ImportInv
<1>1. ImportInit => ImportInv
    BY ImportInitInv, ImportAssumption
<1>2. ImportInv /\ [ImportNext]_importVars => ImportInv'
    BY ImportNextInv, ImportAssumption
<1>. QED BY <1>1, <1>2, PTL DEF ImportSpec

(* What an import's row says of it is true. *)
THEOREM ImportsAreOK == ImportSpec => []ImportsOK
<1>1. ImportInv => ImportsOK
    <2>. SUFFICES ASSUME ImportInv PROVE ImportsOK
        OBVIOUS
    <2>1. ASSUME NEW i \in Imports
          PROVE  /\ job[i].status \in Statuses
                 /\ job[i].revision \in 0..(MaxRevision[i] + 3)
                 /\ job[i].mapping \in Mappings \union {Blank}
                 /\ \A n \in DOMAIN job[i].rows : job[i].rows[n] \in Row
                 /\ job[i].rows # <<>> => DOMAIN job[i].rows = DOMAIN FileOf[i]
        <3>1. RowsInv /\ job[i].revision <= LastJob(i) + 2
            BY DEF ImportInv, RowsInv, ImportRowOK
        <3>2. job[i].revision \in 0..(MaxRevision[i] + 3)
            BY <3>1, RowFields, ImportAssumption
        <3>. QED BY <3>1, <3>2, RowFields, ImportAssumption DEF FileRows
    <2>2. unmarked \union queue \subseteq Job
        BY DEF ImportInv, JobsInv, JobOK
    <2>3. ImportTypeOK
        BY <2>1, <2>2 DEF ImportTypeOK, ImportInv, GroupsInv
    <2>4. ReadyMeansValidated
        BY DEF ReadyMeansValidated, ImportInv, RowsInv, ImportRowOK
    <2>5. ImportedWhole
        BY DEF ImportedWhole, ImportInv, GroupsInv, Importing
    <2>. QED BY <2>3, <2>4, <2>5 DEF ImportsOK
<1>. QED BY <1>1, ImportInvariant, PTL

(* Of two imports of one phone, one was shown the other as a duplicate. *)
THEOREM ImportsKnowEachOther == ImportSpec => []ImportsSeeEachOther
<1>1. ImportInv => ImportsSeeEachOther
    BY DEF ImportInv
<1>. QED BY <1>1, ImportInvariant, PTL

(* Only the commit of a confirmation completes an import. *)
LEMMA OnlyCommitsComplete ==
    ASSUME ImportAssumption, ImportInv, ImportNext, NEW i \in Imports,
           job[i].status # "COMPLETED", job'[i].status = "COMPLETED"
    PROVE  CommitConfirm(i)
<1>0. RowsInv /\ DOMAIN job = Imports /\ \A j \in queue \cup unmarked : j.import \in Imports
    BY DEF ImportInv, RowsInv, JobsInv, JobOK, Job
<1>1. ASSUME NEW k \in Imports, Upload(k) PROVE FALSE
    BY <1>0, <1>1 DEF Upload
<1>2. ASSUME NEW k \in Imports, Cancel(k) PROVE FALSE
    BY <1>2, CancelWrites DEF KeepsResult
<1>3. ASSUME NEW k \in Imports, NEW m \in Mappings, MapColumns(k, m) PROVE FALSE
    BY <1>0, <1>3 DEF MapColumns
<1>4. ASSUME NEW k \in Imports, NEW n \in DOMAIN job[k].rows, NEW cell \in Cells, CorrectRow(k, n, cell)
      PROVE  FALSE
    BY <1>0, <1>4 DEF CorrectRow
<1>5. ASSUME NEW k \in Imports, NEW policy, Load(k) \/ BeginConfirm(k, policy) PROVE FALSE
    BY <1>5 DEF Load, BeginConfirm
<1>6. ASSUME NEW k \in Imports, LockPhones(k) \/ RefuseConfirm(k) PROVE FALSE
    BY <1>6 DEF LockPhones, RefuseConfirm
<1>7. ASSUME NEW k \in Imports, CommitConfirm(k), k # i PROVE FALSE
    BY <1>0, <1>7 DEF CommitConfirm
<1>8. ASSUME NEW j \in unmarked, MarkQueueFailure(j) PROVE FALSE
    BY <1>8, MarkQueueFailureWrites DEF KeepsResult
<1>9. ASSUME NEW j \in queue, SkipJob(j) PROVE FALSE
    BY <1>9 DEF SkipJob
<1>10. ASSUME NEW w \in Workers, NEW j \in queue, TakeParse(w, j) PROVE FALSE
    <2>1. job' = [job EXCEPT ![j.import].status = "PARSING"]
        BY <1>10 DEF TakeParse
    <2>2. j.import \in Imports
        BY <1>0
    <2>3. job'[i] = job[i] \/ job'[i] = [job[i] EXCEPT !.status = "PARSING"]
        BY <1>0, <2>1, <2>2
    <2>4. job[i] \in ImportRow(i)
        BY <1>0, RowFields
    <2>. QED BY <2>3, <2>4 DEF ImportRow
<1>11. ASSUME NEW w \in Workers, NEW j \in queue, TakeValidation(w, j) PROVE FALSE
    BY <1>11 DEF TakeValidation
<1>12. ASSUME NEW w \in Workers, CompleteParse(w) \/ ReadRows(w) \/ ExecutionLost(w) PROVE FALSE
    <2>1. CompleteParse(w)
        BY <1>12 DEF ReadRows, ExecutionLost
    <2>2. PICK k, new : /\ job' = [job EXCEPT ![k] = new] \/ job' = job
                        /\ new.status = "AWAITING_MAPPING"
        <3>. DEFINE k == exec[w].job.import
                    rows == [n \in DOMAIN FileOf[k] |-> Fresh]
                    new == [status |-> "AWAITING_MAPPING", revision |-> exec[w].job.revision + 1,
                            mapping |-> Blank, rows |-> rows]
        <3>1. job' = [job EXCEPT ![k] = new] \/ job' = job
            BY <2>1 DEF CompleteParse
        <3>. HIDE DEF k, rows
        <3>2. new.status = "AWAITING_MAPPING"
            OBVIOUS
        <3>. HIDE DEF new
        <3>. QED BY <3>1, <3>2
    <2>. QED BY <1>0, <2>2
<1>13. ASSUME NEW w \in Workers, FailForGood(w) PROVE FALSE
    <2>1. PICK k : \/ job' = [job EXCEPT ![k].status = "FAILED", ![k].revision = @ + 1]
                   \/ job' = job
        BY <1>13, FailureOutcome, Zenon
    <2>2. job'[i] = job[i] \/ job'[i] = [job[i] EXCEPT !.status = "FAILED", !.revision = @ + 1]
        BY <1>0, <2>1
    <2>3. job[i] \in ImportRow(i)
        BY <1>0, RowFields
    <2>. QED BY <2>2, <2>3 DEF ImportRow
<1>14. ASSUME NEW w \in Workers, CompleteValidation(w) PROVE FALSE
    BY <1>14, CompleteValidationWrites DEF KeepsResult
<1>15. ASSUME NEW p \in Phones, CreateByHand(p) PROVE FALSE
    BY <1>15 DEF CreateByHand
<1>. QED BY <1>1, <1>2, <1>3, <1>4, <1>5, <1>6, <1>7, <1>8, <1>9, <1>10, <1>11, <1>12, <1>13,
            <1>14, <1>15 DEF ImportNext

(* The rows a confirmation imports are those its host had on screen. *)
THEOREM HostSawItsImport == ImportSpec => HostSawWhatIsImported
<1>1. ImportInv /\ [ImportNext]_importVars =>
          [\A i \in Imports :
              (job[i].status # "COMPLETED" /\ job'[i].status = "COMPLETED")
                  => confirm[i].seen = job[i].rows]_importVars
    BY OnlyCommitsComplete, CommitEffect, ImportAssumption
<1>. QED BY <1>1, ImportInvariant, PTL DEF ImportSpec, HostSawWhatIsImported
=============================================================================
