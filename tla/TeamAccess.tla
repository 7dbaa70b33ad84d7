----------------------------- MODULE TeamAccess -----------------------------
(***************************************************************************)
(* The team of one event: memberships with their permissions, and the      *)
(* invitations that lead to them (apps/api/src/team/team.service.ts and    *)
(* events/event-access.service.ts, with the constraints and triggers of    *)
(* the stage 8 migration).                                                 *)
(*                                                                         *)
(* Every change runs in a read-committed transaction whose first step      *)
(* resolves the caller: one statement takes a share lock on the caller's   *)
(* active membership, if there is one, and the next reads its permissions. *)
(* The change itself locks what it writes, so a transaction has three      *)
(* steps, four for an invitation's creation, and others run between them.  *)
(*                                                                         *)
(* A person stands for a user and the phone verified for it; a role with   *)
(* its permission configuration for the set of permissions in effect.  A   *)
(* resent invitation's former token is found by nobody and is left out.    *)
(***************************************************************************)
EXTENDS Naturals, FiniteSets

CONSTANTS Owner,          \* the event's owner
          People,         \* the others
          Invitations,    \* bound: invitations that can be created
          Permissions,    \* delegable permissions
          TeamManage,     \* the permission the operations of this module need
          MaxOpen         \* bound: requests of members running at once

ASSUME TeamAssumption ==
    /\ Owner \notin People
    /\ TeamManage \in Permissions
    /\ MaxOpen \in Nat

Users   == People \union {Owner}
Nobody  == [status |-> "NONE", permissions |-> {}]
Member  == [status: {"NONE", "ACTIVE", "REVOKED"}, permissions: SUBSET Permissions]
Invite  == [status: {"ABSENT", "PENDING", "ACCEPTED", "REVOKED", "EXPIRED"},
            to: People \union {"-"}, permissions: SUBSET Permissions, due: BOOLEAN]
NoTxn   == [step |-> "NONE"]

VARIABLES member,         \* user -> membership of the event
          invite,         \* invitation -> its row; due says its seven days are over
          txn,            \* user -> the transaction its request runs
          refused         \* people whose acceptance the database refused

vars == <<member, invite, txn, refused>>

Init ==
    /\ member = [u \in Users |-> IF u = Owner
                                 THEN [status |-> "ACTIVE", permissions |-> Permissions]
                                 ELSE Nobody]
    /\ invite = [k \in Invitations |->
                    [status |-> "ABSENT", to |-> "-", permissions |-> {}, due |-> FALSE]]
    /\ txn = [u \in Users |-> NoTxn]
    /\ refused = {}

-----------------------------------------------------------------------------
(* Transactions of a member *)

Manages(u) == member[u].status = "ACTIVE" /\ TeamManage \in member[u].permissions

\* Mutant: resolve does not lock the caller's membership.
SharedByNobody(u) == FALSE

\* The membership row of u is locked by u's own transaction in progress.
Shared(u) == txn[u] # NoTxn /\ txn[u].locked

\* EventAccessService.resolve, first statement: FOR SHARE of the caller's active
\* membership, which must not be locked for update; that lasts within one step.
\* It finds no row to lock when the caller is not a member, and nobody asks.
LockMembership(a, request) ==
    /\ txn[a] = NoTxn
    /\ Cardinality({b \in Users : txn[b] # NoTxn}) < MaxOpen
    /\ txn' = [txn EXCEPT ![a] = [step |-> "LOCKED", request |-> request, holds |-> {},
                                  locked |-> member[a].status = "ACTIVE"]]
    /\ UNCHANGED <<member, invite, refused>>

\* Second statement, findFirst: an active membership with the permission, locked
\* or not.
ReadPermissions(a) ==
    /\ txn[a].step = "LOCKED"
    /\ Manages(a)
    /\ txn' = [txn EXCEPT ![a].step = "RESOLVED", ![a].holds = member[a].permissions]
    /\ UNCHANGED <<member, invite, refused>>

\* The owner may grant everything, others what they hold (assertCanDelegate).
MayGrant(a, permissions) == a = Owner \/ permissions \subseteq txn[a].holds

Asks(a, step, kind) == /\ txn[a].step = step
                       /\ txn[a].request.kind = kind

Done(a) == txn' = [txn EXCEPT ![a] = NoTxn]

\* Any refusal ends the transaction without effect; so does PostgreSQL when two
\* transactions wait for each other's membership, and a lost connection.
Refuse(a) ==
    /\ txn[a] # NoTxn
    /\ Done(a)
    /\ UNCHANGED <<member, invite, refused>>

PendingFor(p) == {k \in Invitations : invite[k].to = p /\ invite[k].status = "PENDING"}

\* createInvitation looks for an active member under the phone's advisory lock.
\* Acceptance does not take that lock, and may come before the next step.
SeekMember(a) ==
    LET r == txn[a].request
    IN  /\ Asks(a, "RESOLVED", "CREATE")
        /\ MayGrant(a, r.permissions)
        /\ \A b \in Users : ~(Asks(b, "SOUGHT", "CREATE") /\ txn[b].request.to = r.to)
        /\ member[r.to].status # "ACTIVE"
        /\ txn' = [txn EXCEPT ![a].step = "SOUGHT"]
        /\ UNCHANGED <<member, invite, refused>>

\* Invitations of the phone that are due expire, then the new one is inserted
\* unless one is pending.
CreateInvitation(a, k) ==
    LET r == txn[a].request
        expired == [j \in Invitations |->
                       IF j \in PendingFor(r.to) /\ invite[j].due
                       THEN [invite[j] EXCEPT !.status = "EXPIRED"] ELSE invite[j]]
    IN  /\ Asks(a, "SOUGHT", "CREATE")
        /\ invite[k].status = "ABSENT"
        /\ \A j \in PendingFor(r.to) : invite[j].due
        /\ invite' = [expired EXCEPT ![k] = [status |-> "PENDING", to |-> r.to,
                                             permissions |-> r.permissions, due |-> FALSE]]
        /\ Done(a)
        /\ UNCHANGED <<member, refused>>

\* Mutant: no partial unique index.
OnlyPendingNever(k) == TRUE

\* The partial unique index admits one pending invitation of a phone.
OnlyPending(k) == PendingFor(invite[k].to) \subseteq {k}

\* resendInvitation: a new credential and expiry for a pending or expired one.
ResendInvitation(a) ==
    LET k == txn[a].request.invite
    IN  /\ Asks(a, "RESOLVED", "RESEND")
        /\ invite[k].status \in {"PENDING", "EXPIRED"}
        /\ MayGrant(a, invite[k].permissions)
        /\ OnlyPending(k)
        /\ invite' = [invite EXCEPT ![k].status = "PENDING", ![k].due = FALSE]
        /\ Done(a)
        /\ UNCHANGED <<member, refused>>

\* revokeInvitation.  The lifecycle trigger refuses to revoke an EXPIRED row.
RevokeInvitation(a) ==
    LET k == txn[a].request.invite
    IN  /\ Asks(a, "RESOLVED", "REVOKE_INVITATION")
        /\ invite[k].status = "PENDING"
        /\ invite' = [invite EXCEPT ![k].status = "REVOKED"]
        /\ Done(a)
        /\ UNCHANGED <<member, refused>>

\* The row lock for update waits for the share locks of others.
Lockable(a, u) == u = a \/ ~Shared(u)

\* updateMembership, of any member who is not the owner and not revoked.
UpdateMembership(a) ==
    LET r == txn[a].request
    IN  /\ Asks(a, "RESOLVED", "UPDATE")
        /\ Lockable(a, r.to)
        /\ member[r.to].status = "ACTIVE"
        /\ MayGrant(a, r.permissions)
        /\ member' = [member EXCEPT ![r.to].permissions = r.permissions]
        /\ Done(a)
        /\ UNCHANGED <<invite, refused>>

\* revokeMembership.  Invitations the revoked manager issued stay.
RevokeMembership(a) ==
    LET u == txn[a].request.to
    IN  /\ Asks(a, "RESOLVED", "REVOKE_MEMBER")
        /\ Lockable(a, u)
        /\ member[u].status = "ACTIVE"
        /\ member' = [member EXCEPT ![u].status = "REVOKED"]
        /\ Done(a)
        /\ UNCHANGED <<invite, refused>>

-----------------------------------------------------------------------------
(* Acceptance, by the person the invitation's phone belongs to *)

Expire(k) ==
    /\ invite[k].status = "PENDING"
    /\ invite[k].due
    /\ invite' = [invite EXCEPT ![k].status = "EXPIRED"]
    /\ UNCHANGED <<member, txn, refused>>

\* The invitation can be accepted by p: pending, not due, and p not a member.
Acceptable(p, k) ==
    /\ invite[k].status = "PENDING"
    /\ invite[k].to = p
    /\ ~invite[k].due
    /\ member[p].status # "ACTIVE"

\* An accepted invitation keeps its link to the one membership row of p, and
\* the link is unique.
Linked(p) == \E k \in Invitations : invite[k].to = p /\ invite[k].status = "ACCEPTED"

AcceptInvitation(p, k) ==
    /\ Acceptable(p, k)
    /\ ~Linked(p)
    /\ member' = [member EXCEPT ![p] = [status |-> "ACTIVE",
                                        permissions |-> invite[k].permissions]]
    /\ invite' = [invite EXCEPT ![k].status = "ACCEPTED"]
    /\ UNCHANGED <<txn, refused>>

\* The membership exists and is linked to the invitation it was accepted with:
\* linking it again violates team_invitations_accepted_membership_id_key, and
\* the whole acceptance is rolled back.
AcceptanceRefused(p, k) ==
    /\ Acceptable(p, k)
    /\ Linked(p)
    /\ p \notin refused
    /\ refused' = refused \union {p}
    /\ UNCHANGED <<member, invite, txn>>

\* Seven days pass.
FallDue(k) ==
    /\ invite[k].status = "PENDING"
    /\ ~invite[k].due
    /\ invite' = [invite EXCEPT ![k].due = TRUE]
    /\ UNCHANGED <<member, txn, refused>>

-----------------------------------------------------------------------------
Requests ==
    [kind: {"CREATE", "UPDATE"}, to: People, permissions: SUBSET Permissions]
    \union [kind: {"REVOKE_MEMBER"}, to: People]
    \union [kind: {"RESEND", "REVOKE_INVITATION"}, invite: Invitations]

\* A host acts on what the team page lists; to invite somebody takes no list, and
\* so a person who is invited and about to join may ask for it.
Listed(a, r) == /\ Manages(a) \/ (r.kind = "CREATE" /\ PendingFor(a) # {})
                /\ r.kind = "CREATE" => \E k \in Invitations : invite[k].status = "ABSENT"
                /\ r.kind \in {"UPDATE", "REVOKE_MEMBER"} => member[r.to].status = "ACTIVE"
                /\ r.kind \in {"RESEND", "REVOKE_INVITATION"} =>
                       invite[r.invite].status \in {"PENDING", "EXPIRED"}

Next ==
    \/ \E a \in Users : \/ \E r \in Requests : Listed(a, r) /\ LockMembership(a, r)
                        \/ ReadPermissions(a)
                        \/ SeekMember(a)
                        \/ \E k \in Invitations : CreateInvitation(a, k)
                        \/ ResendInvitation(a)
                        \/ RevokeInvitation(a)
                        \/ UpdateMembership(a)
                        \/ RevokeMembership(a)
                        \/ Refuse(a)
    \/ \E p \in People, k \in Invitations : AcceptInvitation(p, k) \/ AcceptanceRefused(p, k)
    \/ \E k \in Invitations : FallDue(k) \/ Expire(k)

Spec == Init /\ [][Next]_vars

-----------------------------------------------------------------------------
(* Properties *)

TypeOK ==
    /\ member \in [Users -> Member]
    /\ invite \in [Invitations -> Invite]
    /\ refused \subseteq People
    /\ \A a \in Users : txn[a].step \in {"NONE", "LOCKED", "RESOLVED", "SOUGHT"}

\* A person has one pending invitation at most, whoever invites, resends and
\* accepts at once, and an accepted one stands for a membership that is there.
InvitationsAgree ==
    /\ \A p \in People : Cardinality(PendingFor(p)) <= 1
    /\ \A k \in Invitations : invite[k].status = "ACCEPTED" => member[invite[k].to] # Nobody

TeamOK == TypeOK /\ InvitationsAgree

\* The permissions a step hands out: to an invitation created or renewed, or to
\* a member by an update.
Handed ==
    (UNION {invite'[k].permissions : k \in {j \in Invitations :
               /\ invite'[j] # invite[j]
               /\ invite'[j].status = "PENDING" /\ ~invite'[j].due}})
    \union
    (UNION {member'[u].permissions : u \in {v \in People :
               /\ member[v].status = "ACTIVE" /\ member'[v].status = "ACTIVE"
               /\ member'[v] # member[v]}})

\* What a holds at this moment; in a request that began before a was a member,
\* what it held when findFirst read it.
HeldBy(a) == IF ~txn[a].locked THEN txn[a].holds
             ELSE IF member[a].status = "ACTIVE" THEN member[a].permissions ELSE {}

\* Nobody hands out or renews a permission it does not hold at that moment, even
\* when its own membership is lowered or revoked while its request runs
\* (docs/security/security-model.md:8-9).  The exception, where the code differs
\* from the document, is a request that began before its caller was a member:
\* resolve then locked nothing, and what findFirst read may be taken away before
\* the request hands it out.
NoGrantBeyondGranter ==
    [][\A a \in Users : (txn[a] # NoTxn /\ txn'[a] = NoTxn) => Handed \subseteq HeldBy(a)]_vars
=============================================================================
