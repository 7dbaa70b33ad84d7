--------------------------- MODULE RsvpResponses ---------------------------
(***************************************************************************)
(* The answer to one invitation, written by three kinds of actors: the     *)
(* guest through a public link, a host by hand, and the worker that applies*)
(* the guest's WhatsApp button replies, late and in any order.  Hosts also *)
(* rotate and revoke the link, edit the invitation's structure, cancel it, *)
(* and change the event's policy.                                          *)
(*                                                                         *)
(* An answer is the number of people who attend, 0 for a refusal; `limit`  *)
(* is the most the invitation allows (its members and their companions).   *)
(* Time counts half seconds: the API's clock sees every tick, the provider *)
(* stamps whole seconds.  Every transaction that locks the invitation is   *)
(* one action; what is read before the lock is an action of its own.       *)
(***************************************************************************)
EXTENDS Integers, Sequences, FiniteSets

CONSTANTS
    GuestKeys,        \* submission ids of the public page
    HostKeys,         \* submission ids of the hosts' page
    Replies,          \* webhook events that carry a button reply
    Selections,       \* party sizes the pages may submit
    InitialLimit,     \* party size when the message was rendered
    MaxLimit,         \* bound: party sizes a host may choose
    MaxCapabilities,  \* bound: public links issued
    Deadline,         \* last tick before the RSVP deadline
    MaxTime,          \* bound: ticks
    MaxChanges        \* bound: the hosts' operations other than answers

ASSUME ResponsesAssumption ==
    /\ InitialLimit \in 1..MaxLimit /\ Selections \subseteq 0..MaxLimit
    /\ MaxCapabilities \in Nat /\ Deadline \in Nat /\ MaxTime \in Nat
    /\ MaxChanges \in Nat /\ MaxLimit \in Nat
    /\ GuestKeys \cap HostKeys = {} /\ (GuestKeys \cup HostKeys) \cap Replies = {}
    /\ IsFiniteSet(Replies)

VARIABLES
    now,
    event,         \* the event's status, with its allow_rsvp_edits flag
    cancelled,     \* invitation_groups.cancelled_at is set
    limit,         \* members and companions the invitation allows
    rsvp,          \* the rsvps row and its aggregate, or NoAnswer
    submission,    \* rsvp_submissions of the API, by key: the stored answer
    capability,    \* public_invitation_capabilities, in order of creation
    request,       \* a submission on its way, by key
    reply,         \* a button reply, from the tap to its settlement
    edit,          \* a structure edit that has read the invitation
    writes,        \* every answer that was written, in order
    changes

vars == <<now, event, cancelled, limit, rsvp, submission, capability,
          request, reply, edit, writes, changes>>

Keys == GuestKeys \cup HostKeys
Parties == 0..MaxLimit
Times == 0..MaxTime
None == -1                \* a null column, or no selection
NoAnswer == [party |-> None, at |-> 0, seq |-> None]

Answer == [party : Parties, at : Times, seq : {None} \cup 1..Cardinality(Replies)]

Init ==
    /\ now = 0
    /\ event = "OPEN" /\ cancelled = FALSE /\ limit = InitialLimit
    /\ rsvp = NoAnswer
    /\ submission = [k \in Keys |-> None]
    /\ capability = <<>>
    /\ request = [k \in Keys |-> [step |-> "IDLE", party |-> 0, link |-> 0]]
    /\ reply = [r \in Replies |->
                   [step |-> "UNTAPPED", party |-> None, at |-> 0, seq |-> None]]
    /\ edit = None
    /\ writes = <<>>
    /\ changes = 0

-----------------------------------------------------------------------------
(* Rules.                                                                  *)

Answered == rsvp # NoAnswer
Closed == cancelled \/ event = "ARCHIVED"

(* The provider's clock, in whole seconds. *)
Second(t) == (t \div 2) * 2

(* evaluateGuestRsvpPolicy: a first answer while the event is open, a new  *)
(* one only if edits are allowed, neither past the deadline.               *)
GuestMayAnswer(at) ==
    /\ event \in {"OPEN", "NO_EDITS"} /\ at <= Deadline
    /\ Answered => event = "OPEN"

(* applyWhatsappRsvp: a reply is stale if the stored answer is younger, or *)
(* of the same instant and not from an earlier webhook.                    *)
OlderThanStored(at, seq) ==
    /\ Answered
    /\ at < rsvp.at \/ (at = rsvp.at /\ (rsvp.seq = None \/ seq <= rsvp.seq))

(* Mutant of WebAnswer: the row keeps the last webhook's sequence. *)
WebAnswerKeepingSequence(party) ==
    [party |-> party, at |-> now, seq |-> rsvp.seq]

(* applyRsvp stores its own clock and clears the webhook's sequence, also  *)
(* when the answer has not changed.                                        *)
WebAnswer(party) == [party |-> party, at |-> now, seq |-> None]

(* Mutant of LinkValid: the link is not looked at again under the lock. *)
LinkValidOnce(c) == TRUE

(* findValidCapability. *)
LinkValid(c) == capability[c] = "ACTIVE" /\ ~Closed

(* assert_rsvp_aggregate, the deferred trigger that runs when a structure  *)
(* edit commits.                                                           *)
AggregateHolds(party) == party <= (IF edit = None THEN limit ELSE edit)

Write(answer, by) ==
    /\ rsvp' = answer
    /\ writes' = Append(writes, [by |-> by, answer |-> answer])

Env == <<now, event, cancelled, limit, capability, edit, changes>>

-----------------------------------------------------------------------------
(* The public page and the hosts' page.                                    *)

(* Mutant of Replayed: the stored answer of a key is not looked up. *)
ReplayedNever(k) == FALSE

Replayed(k) == submission[k] # None

(* The key has a stored answer already: it is returned to a request that   *)
(* asks for the same, and refused to any other; nothing changes.           *)
Replay(k) ==
    /\ Replayed(k)
    /\ request' = [request EXCEPT ![k].step =
           IF submission[k] = request[k].party THEN "DONE" ELSE "REFUSED"]
    /\ UNCHANGED <<rsvp, submission, writes>>

Accept(k) ==
    /\ Write(WebAnswer(request[k].party), k)
    /\ submission' = [submission EXCEPT ![k] = request[k].party]
    /\ request' = [request EXCEPT ![k].step = "DONE"]

Refuse(k) ==
    /\ request' = [request EXCEPT ![k].step = "REFUSED"]
    /\ UNCHANGED <<rsvp, submission, writes>>

(* submitGuest, up to the lock: the token's invitation is looked up.  The  *)
(* page sends the same key again when an answer was lost.                  *)
OpenRequest(k, party, c) ==
    /\ request[k].step \in {"IDLE", "LOST"}
    /\ c <= Len(capability) /\ (k \in GuestKeys <=> c > 0)
    /\ request' = [request EXCEPT ![k] =
                      [step |-> "SENT", party |-> party, link |-> c]]
    /\ UNCHANGED <<Env, rsvp, submission, reply, writes>>

(* submitGuest, under the lock. *)
SubmitGuest(k) ==
    /\ k \in GuestKeys /\ request[k].step = "SENT"
    /\ IF ~LinkValid(request[k].link) THEN Refuse(k)
       ELSE IF Replayed(k) THEN Replay(k)
       ELSE IF GuestMayAnswer(now) /\ request[k].party <= limit THEN Accept(k)
       ELSE Refuse(k)
    /\ UNCHANGED <<Env, reply>>

(* submitHost: the event's policy does not bind a host. *)
SubmitHost(k) ==
    /\ k \in HostKeys /\ request[k].step = "SENT"
    /\ IF Closed THEN Refuse(k)
       ELSE IF Replayed(k) THEN Replay(k)
       ELSE IF request[k].party <= limit THEN Accept(k)
       ELSE Refuse(k)
    /\ UNCHANGED <<Env, reply>>

(* The response does not reach the page, which keeps the key for a retry. *)
LoseResponse(k) ==
    /\ request[k].step = "DONE"
    /\ request' = [request EXCEPT ![k].step = "LOST"]
    /\ UNCHANGED <<Env, rsvp, submission, reply, writes>>

-----------------------------------------------------------------------------
(* WhatsApp replies.                                                       *)

Tapped == {r \in Replies : reply[r].step # "UNTAPPED"}
Stored == {r \in Replies : reply[r].seq # None}

(* The guest taps a button: one that answers for the whole party, say, or  *)
(* one that selects nobody in particular.                                  *)
TapReply(r, party) ==
    /\ reply[r].step = "UNTAPPED"
    /\ reply' = [reply EXCEPT ![r] = [step |-> "TAPPED", party |-> party,
                                      at |-> Second(now), seq |-> None]]
    /\ UNCHANGED <<Env, rsvp, submission, request, writes>>

(* The inbox stores it, in whatever order the provider delivers. *)
StoreReply(r) ==
    /\ reply[r].step = "TAPPED"
    /\ reply' = [reply EXCEPT ![r].step = "STORED",
                              ![r].seq = Cardinality(Stored) + 1]
    /\ UNCHANGED <<Env, rsvp, submission, request, writes>>

Settle(r, outcome) == reply' = [reply EXCEPT ![r].step = outcome]

(* applyWhatsappRsvp, in the order of its returns: unavailable invitation, *)
(* a structure other than the message's, no selection, stale, policy.      *)
ApplyReply(r) ==
    LET this == reply[r] IN
    /\ this.step = "STORED"
    /\ IF cancelled \/ limit # InitialLimit \/ this.party = None
       THEN Settle(r, "UNUSABLE") /\ UNCHANGED <<rsvp, writes>>
       ELSE IF OlderThanStored(this.at, this.seq)
       THEN Settle(r, "STALE") /\ UNCHANGED <<rsvp, writes>>
       ELSE IF ~GuestMayAnswer(this.at)
       THEN Settle(r, "REFUSED") /\ UNCHANGED <<rsvp, writes>>
       ELSE /\ Settle(r, "APPLIED")
            /\ Write([party |-> this.party, at |-> this.at, seq |-> this.seq], r)
    /\ UNCHANGED <<Env, submission, request>>

-----------------------------------------------------------------------------
(* The hosts' other operations, and time.                                  *)

Unanswering == <<rsvp, submission, request, reply, writes>>
Change == changes < MaxChanges /\ changes' = changes + 1

Revoked(links) ==
    [c \in DOMAIN links |-> IF links[c] = "ACTIVE" THEN "REVOKED" ELSE links[c]]

(* issueCapability: a new link revokes those before it. *)
IssueCapability ==
    /\ Change
    /\ Len(capability) < MaxCapabilities /\ ~Closed
    /\ capability' = Append(Revoked(capability), "ACTIVE")
    /\ UNCHANGED <<Unanswering, now, event, cancelled, limit, edit>>

(* revokeCapability, or the link's expiry. *)
RevokeCapability ==
    /\ Change
    /\ capability' = Revoked(capability)
    /\ capability' # capability
    /\ UNCHANGED <<Unanswering, now, event, cancelled, limit, edit>>

(* update, up to its writes: the invitation is read without a lock, and    *)
(* must have no answer yet.                                                *)
ReadForEdit(party) ==
    /\ Change
    /\ edit = None /\ ~Closed /\ ~Answered
    /\ edit' = party
    /\ UNCHANGED <<Unanswering, now, event, cancelled, limit, capability>>

(* update, its writes and its commit; the transaction aborts if an answer  *)
(* stored meanwhile does not fit.                                          *)
CommitEdit ==
    /\ edit # None
    /\ limit' = IF Answered => AggregateHolds(rsvp.party) THEN edit ELSE limit
    /\ edit' = None
    /\ UNCHANGED <<Unanswering, now, event, cancelled, capability, changes>>

CancelInvitation ==
    /\ Change
    /\ ~Closed
    /\ cancelled' = TRUE
    /\ UNCHANGED <<Unanswering, now, event, limit, capability, edit>>

UpdateEvent(s) ==
    /\ Change
    /\ event' = s /\ s # event
    /\ UNCHANGED <<Unanswering, now, cancelled, limit, capability, edit>>

Tick ==
    /\ now < MaxTime
    /\ now' = now + 1
    /\ UNCHANGED <<Unanswering, event, cancelled, limit, capability, edit, changes>>

EventStatus == {"OPEN", "NO_EDITS", "CLOSED", "ARCHIVED"}

Next ==
    \/ \E k \in Keys :
          \/ \E party \in Selections, c \in 0..MaxCapabilities : OpenRequest(k, party, c)
          \/ SubmitGuest(k) \/ SubmitHost(k) \/ LoseResponse(k)
    \/ \E r \in Replies :
          \/ \E party \in {None, InitialLimit} : TapReply(r, party)
          \/ StoreReply(r) \/ ApplyReply(r)
    \/ IssueCapability \/ RevokeCapability
    \/ (\E party \in 1..MaxLimit : ReadForEdit(party)) \/ CommitEdit
    \/ CancelInvitation
    \/ \E s \in EventStatus : UpdateEvent(s)
    \/ Tick

Spec == Init /\ [][Next]_vars

-----------------------------------------------------------------------------
(* Every variable has its type. *)
TypeOK ==
    /\ now \in Times /\ event \in EventStatus /\ cancelled \in BOOLEAN
    /\ limit \in 1..MaxLimit
    /\ rsvp \in Answer \cup {NoAnswer}
    /\ submission \in [Keys -> Parties \cup {None}]
    /\ capability \in Seq({"ACTIVE", "REVOKED"}) /\ Len(capability) <= MaxCapabilities
    /\ request \in [Keys -> [step : {"IDLE", "SENT", "DONE", "REFUSED", "LOST"},
                             party : Parties, link : 0..MaxCapabilities]]
    /\ reply \in [Replies ->
          [step : {"UNTAPPED", "TAPPED", "STORED", "UNUSABLE", "STALE", "REFUSED", "APPLIED"},
           party : Parties \cup {None}, at : Times,
           seq : {None} \cup 1..Cardinality(Replies)]]
    /\ edit \in {None} \cup 1..MaxLimit
    /\ writes \in Seq([by : Keys \cup Replies, answer : Answer])
    /\ changes \in 0..MaxChanges

(* One answer comes after another: later, or of the same instant and then  *)
(* from the web rather than WhatsApp, or from the later of two webhooks.   *)
NotBefore(a, b) ==
    a.at > b.at \/ (a.at = b.at /\ (a.seq = None \/ (b.seq # None /\ a.seq >= b.seq)))

(* When and in which delivery a write was said. *)
Said(write) == [at |-> write.answer.at,
                seq |-> IF write.by \in Replies THEN reply[write.by].seq ELSE None]

(* Whatever order the replies are delivered and applied in, the stored     *)
(* answer is the youngest of all that were accepted or found stale: no     *)
(* delayed reply overwrites what the guest or a host said after it, and no *)
(* reply is dropped in favour of an older one.                             *)
YoungestAnswerStands ==
    /\ Answered = (writes # <<>>)
    /\ Answered =>
          LET stored == writes[Len(writes)] IN
          /\ rsvp.party = stored.answer.party
          /\ \A i \in 1..Len(writes) : NotBefore(Said(stored), Said(writes[i]))
          /\ \A r \in Replies : reply[r].step \in {"STALE", "APPLIED"} =>
                 NotBefore(Said(stored), reply[r])

(* A submission key and a reply change the answer once at most, and the    *)
(* answer a page is told is stored under its key is the one it asked for;  *)
(* a retry never undoes what somebody answered since.                      *)
WrittenOnce ==
    /\ \A i, j \in 1..Len(writes) : writes[i].by = writes[j].by => i = j
    /\ \A k \in Keys : request[k].step = "DONE" =>
           \E i \in 1..Len(writes) :
              writes[i].by = k /\ writes[i].answer.party = request[k].party

(* The stored answer fits the invitation, though an edit that lowers what  *)
(* the invitation allows reads it without a lock.                          *)
AnswerFitsInvitation == Answered => rsvp.party <= limit

(* The rows are typed, the answer fits its invitation, and the pages' keys *)
(* tell the truth about it.                                                *)
StateOK == TypeOK /\ AnswerFitsInvitation /\ WrittenOnce

(* A guest's answer is written through a link that is valid at that        *)
(* moment, though the link was looked up before the invitation was locked. *)
NoAnswerThroughDeadLink ==
    [][\A k \in GuestKeys : submission'[k] # submission[k] =>
           /\ capability[request[k].link] = "ACTIVE"
           /\ \A c \in DOMAIN capability : capability[c] = "ACTIVE" =>
                 c = request[k].link
           /\ ~Closed]_vars
=============================================================================
