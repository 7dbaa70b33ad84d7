---------------------------- MODULE MemberProofs ----------------------------
(***************************************************************************)
(* Proofs about what the members of an event may do and ask for.           *)
(*                                                                         *)
(* TeamAccess, for any people, invitations and permissions: one pending    *)
(* invitation of a person at most, and no permission granted that the      *)
(* granter does not hold when it is granted, unless its request began      *)
(* before it was a member.                                                 *)
(*                                                                         *)
(* Exports, for any requests, guests, page size and workers: what holds    *)
(* between the requests, the queue, the executions and the bucket, that a  *)
(* file lists each guest once, and that a requester hears one outcome.     *)
(***************************************************************************)
EXTENDS TeamAccess, Exports, FiniteSetTheorems, TLAPS

TxnRow == [step : {"LOCKED", "RESOLVED", "SOUGHT"}, request : Requests,
           holds : SUBSET Permissions, locked : BOOLEAN]

(* The share lock at work: while a request runs that took one, its caller  *)
(* is a member, from when they are read with the permissions that were     *)
(* read.  The owner's request always took one.  An invitation is sought    *)
(* only for permissions the caller may grant.                              *)
Holds(a) ==
    txn[a] # NoTxn =>
        /\ txn[a].locked =>
              /\ member[a].status = "ACTIVE"
              /\ txn[a].step # "LOCKED" => txn[a].holds = member[a].permissions
        /\ a = Owner => txn[a].locked
        /\ txn[a].step = "SOUGHT" =>
              txn[a].request.kind = "CREATE" /\ MayGrant(a, txn[a].request.permissions)

OwnerStands == member[Owner].status = "ACTIVE" /\ member[Owner].permissions = Permissions

(* A person's pending invitation is the only one. *)
OnePending == \A j, k \in Invitations :
    /\ invite[j].status = "PENDING" /\ invite[k].status = "PENDING"
    /\ invite[j].to = invite[k].to
    => j = k

(* An invitation that was created is to a person, and one that was         *)
(* accepted left a membership.                                             *)
Addressed(k) ==
    /\ invite[k].status # "ABSENT" => invite[k].to \in People
    /\ invite[k].status = "ACCEPTED" => member[invite[k].to].status # "NONE"

(* The inductive invariant. *)
IInv ==
    /\ TypeOK
    /\ txn \in [Users -> {NoTxn} \cup TxnRow]
    /\ \A a \in Users : Holds(a)
    /\ OwnerStands
    /\ OnePending
    /\ \A k \in Invitations : Addressed(k)

-----------------------------------------------------------------------------
(* Requests and what they ask for. *)

(* A request that runs has a row; the caller of one that locked the        *)
(* caller's membership is a member.                                        *)
LEMMA TxnRows ==
    ASSUME IInv, NEW a \in Users
    PROVE  /\ txn[a] # NoTxn =>
                 /\ txn[a] \in TxnRow
                 /\ txn[a].locked => member[a].status = "ACTIVE"
                 /\ txn[a].locked /\ txn[a].step # "LOCKED" => txn[a].holds = member[a].permissions
                 /\ a = Owner => txn[a].locked
           /\ txn[a].step \in {"LOCKED", "RESOLVED", "SOUGHT"} => txn[a] # NoTxn
<1>1. txn[a] \in {NoTxn} \cup TxnRow /\ Holds(a)
    BY DEF IInv
<1>2. NoTxn.step = "NONE"
    BY DEF NoTxn
<1>. QED BY <1>1, <1>2 DEF Holds

(* The requests of a kind name a person or an invitation. *)
LEMMA RequestRows ==
    ASSUME IInv, NEW a \in Users, txn[a] # NoTxn
    PROVE  LET r == txn[a].request IN
           /\ r.kind \in {"CREATE", "UPDATE"} => r.to \in People /\ r.permissions \in SUBSET Permissions
           /\ r.kind = "REVOKE_MEMBER" => r.to \in People
           /\ r.kind \in {"RESEND", "REVOKE_INVITATION"} => r.invite \in Invitations
<1>1. txn[a].request \in Requests
    BY TxnRows DEF TxnRow
<1>. HIDE DEF IInv
<1>2. \A r \in Requests :
         /\ r.kind \in {"CREATE", "UPDATE"} => r.to \in People /\ r.permissions \in SUBSET Permissions
         /\ r.kind = "REVOKE_MEMBER" => r.to \in People
         /\ r.kind \in {"RESEND", "REVOKE_INVITATION"} => r.invite \in Invitations
    BY DEF Requests
<1>. QED BY <1>1, <1>2

(* Who may grant permissions, once its own are read, holds them, the owner *)
(* all of them.                                                            *)
LEMMA GrantsAreHeld ==
    ASSUME IInv, NEW a \in Users, txn[a].step \in {"RESOLVED", "SOUGHT"},
           NEW permissions \in SUBSET Permissions, MayGrant(a, permissions)
    PROVE  permissions \subseteq HeldBy(a)
<1>1. /\ txn[a].locked => member[a].status = "ACTIVE" /\ txn[a].holds = member[a].permissions
      /\ a = Owner => txn[a].locked
    BY TxnRows
<1>2. a = Owner => member[a].permissions = Permissions
    BY DEF IInv, OwnerStands
<1>3. txn[a].locked => HeldBy(a) = member[a].permissions
    BY <1>1 DEF HeldBy
<1>4. ~txn[a].locked => HeldBy(a) = txn[a].holds
    BY DEF HeldBy
<1>. QED BY <1>1, <1>2, <1>3, <1>4 DEF MayGrant

-----------------------------------------------------------------------------
(* The parts of a step. *)

TxnsOK == txn \in [Users -> {NoTxn} \cup TxnRow] /\ \A a \in Users : Holds(a)
MembersOK == member \in [Users -> Member] /\ OwnerStands
InvitesOK ==
    /\ invite \in [Invitations -> Invite]
    /\ OnePending
    /\ \A k \in Invitations : Addressed(k)

(* The invariant, part by part. *)
LEMMA Parts ==
    /\ IInv <=> TxnsOK /\ MembersOK /\ InvitesOK /\ refused \subseteq People
    /\ IInv' <=> TxnsOK' /\ MembersOK' /\ InvitesOK' /\ refused' \subseteq People
<1>1. NoTxn.step = "NONE" /\ \A t \in TxnRow : t.step \in {"LOCKED", "RESOLVED", "SOUGHT"}
    BY DEF NoTxn, TxnRow
<1>2. TxnsOK => \A a \in Users : txn[a].step \in {"NONE", "LOCKED", "RESOLVED", "SOUGHT"}
    BY <1>1 DEF TxnsOK
<1>3. TxnsOK' => \A a \in Users : txn'[a].step \in {"NONE", "LOCKED", "RESOLVED", "SOUGHT"}
    BY <1>1 DEF TxnsOK
<1>4. IInv <=> TxnsOK /\ MembersOK /\ InvitesOK /\ refused \subseteq People
    BY <1>2 DEF IInv, TypeOK, TxnsOK, MembersOK, InvitesOK
<1>5. IInv' <=> TxnsOK' /\ MembersOK' /\ InvitesOK' /\ refused' \subseteq People
    BY <1>3 DEF IInv, TypeOK, TxnsOK, MembersOK, InvitesOK
<1>. QED BY <1>4, <1>5

(* A request ends; the others keep the memberships they have locked. *)
LEMMA TxnEnds ==
    ASSUME IInv, NEW a \in Users, Done(a),
           \A d \in Users \ {a} : Shared(d) => member'[d] = member[d]
    PROVE  TxnsOK'
<1>1. /\ txn \in [Users -> {NoTxn} \cup TxnRow] /\ \A d \in Users : Holds(d)
      /\ txn' = [txn EXCEPT ![a] = NoTxn]
    BY DEF IInv, Done
<1>2. txn' \in [Users -> {NoTxn} \cup TxnRow]
    BY <1>1
<1>3. txn'[a] = NoTxn /\ \A d \in Users \ {a} : txn'[d] = txn[d]
    BY <1>1
<1>4. \A d \in Users : Holds(d)'
    BY <1>1, <1>3 DEF Holds, MayGrant, Shared
<1>. QED BY <1>2, <1>4 DEF TxnsOK

(* A request goes on; the memberships stay. *)
LEMMA TxnGoesOn ==
    ASSUME IInv, NEW a \in Users, NEW row \in TxnRow, txn' = [txn EXCEPT ![a] = row],
           UNCHANGED member,
           row.locked => /\ member[a].status = "ACTIVE"
                         /\ row.step # "LOCKED" => row.holds = member[a].permissions,
           a = Owner => row.locked,
           row.step = "SOUGHT" =>
              /\ row.request.kind = "CREATE"
              /\ a = Owner \/ row.request.permissions \subseteq row.holds
    PROVE  TxnsOK'
<1>1. txn \in [Users -> {NoTxn} \cup TxnRow] /\ \A d \in Users : Holds(d)
    BY DEF IInv
<1>2. txn' \in [Users -> {NoTxn} \cup TxnRow]
    BY <1>1
<1>3. txn'[a] = row /\ \A d \in Users \ {a} : txn'[d] = txn[d]
    BY <1>1
<1>4. \A d \in Users : Holds(d)'
    BY <1>1, <1>3 DEF Holds, MayGrant
<1>. QED BY <1>2, <1>4 DEF TxnsOK

(* An invitation changes and the memberships stay: it does not become a    *)
(* pending one but alone, nor an accepted one.                             *)
LEMMA InviteSet ==
    ASSUME IInv, UNCHANGED member, NEW k \in Invitations,
           invite' \in [Invitations -> Invite],
           \A j \in Invitations \ {k} :
               /\ invite'[j].to = invite[j].to
               /\ invite'[j].status \in {invite[j].status, "EXPIRED"}
               /\ invite'[j].status = "EXPIRED" => invite[j].status # "ABSENT",
           invite'[k].to \in People,
           invite'[k].status # "ACCEPTED",
           invite'[k].status = "PENDING" =>
               \A j \in Invitations \ {k} :
                   ~(invite'[j].status = "PENDING" /\ invite'[j].to = invite'[k].to)
    PROVE  InvitesOK'
<1>1. OnePending /\ \A j \in Invitations : Addressed(j)
    BY DEF IInv
<1>2. OnePending'
    BY <1>1 DEF OnePending
<1>3. \A j \in Invitations : Addressed(j)'
    BY <1>1 DEF Addressed
<1>. QED BY <1>2, <1>3 DEF InvitesOK

(* A part whose variables are left alone is kept. *)
LEMMA Kept ==
    ASSUME IInv
    PROVE  /\ UNCHANGED member => MembersOK'
           /\ UNCHANGED <<member, txn>> => TxnsOK'
           /\ UNCHANGED <<member, invite>> => InvitesOK'
           /\ UNCHANGED refused => refused' \subseteq People
<1>1. UNCHANGED member => MembersOK'
    BY DEF IInv, TypeOK, MembersOK, OwnerStands
<1>2. UNCHANGED <<member, txn>> => TxnsOK'
    BY DEF IInv, TxnsOK, Holds, MayGrant
<1>3. UNCHANGED <<member, invite>> => InvitesOK'
    BY DEF IInv, TypeOK, InvitesOK, OnePending, Addressed
<1>4. UNCHANGED refused => refused' \subseteq People
    BY DEF IInv, TypeOK
<1>. QED BY <1>1, <1>2, <1>3, <1>4

(* A person's membership is set, and not to none. *)
LEMMA MemberSet ==
    ASSUME TeamAssumption, IInv, NEW u \in People, NEW row \in Member, row.status # "NONE",
           member' = [member EXCEPT ![u] = row]
    PROVE  /\ MembersOK'
           /\ UNCHANGED invite => InvitesOK'
           /\ \A d \in Users \ {u} : member'[d] = member[d]
<1>1. /\ member \in [Users -> Member] /\ OwnerStands /\ OnePending
      /\ invite \in [Invitations -> Invite] /\ \A k \in Invitations : Addressed(k)
    BY DEF IInv, TypeOK
<1>2. u \in Users /\ Owner \in Users /\ u # Owner /\ People \subseteq Users
    BY DEF Users, TeamAssumption
<1>3. member'[u] = row /\ \A d \in Users \ {u} : member'[d] = member[d]
    BY <1>1, <1>2
<1>4. MembersOK'
    BY <1>1, <1>2, <1>3 DEF MembersOK, OwnerStands
<1>5. ASSUME UNCHANGED invite PROVE InvitesOK'
    <2>1. \A k \in Invitations : Addressed(k)'
        BY <1>1, <1>2, <1>3, <1>5 DEF Addressed
    <2>. QED BY <1>1, <1>5, <2>1 DEF InvitesOK, OnePending
<1>. QED BY <1>3, <1>4, <1>5

-----------------------------------------------------------------------------
(* The steps of a member's request. *)

(* The caller's membership is locked, if it has an active one. *)
LEMMA LockStep ==
    ASSUME IInv, NEW a \in Users, NEW r \in Requests, LockMembership(a, r) PROVE IInv'
<1>. DEFINE row == [step |-> "LOCKED", request |-> r, holds |-> {},
                    locked |-> member[a].status = "ACTIVE"]
<1>1. txn' = [txn EXCEPT ![a] = row] /\ UNCHANGED <<member, invite, refused>>
    BY DEF LockMembership
<1>2. a = Owner => member[a].status = "ACTIVE"
    BY DEF IInv, OwnerStands
<1>3. /\ row \in TxnRow /\ row.locked = (member[a].status = "ACTIVE")
      /\ row.step = "LOCKED"
    BY DEF TxnRow
<1>. HIDE DEF row
<1>4. TxnsOK'
    BY <1>1, <1>2, <1>3, TxnGoesOn
<1>. QED BY <1>1, <1>4, Kept, Parts

(* The caller's permissions are read, under its lock or without one. *)
LEMMA ReadStep ==
    ASSUME IInv, NEW a \in Users, ReadPermissions(a) PROVE IInv'
<1>. DEFINE row == [txn[a] EXCEPT !.step = "RESOLVED", !.holds = member[a].permissions]
<1>1. /\ txn[a].step = "LOCKED" /\ member[a].status = "ACTIVE"
      /\ txn' = [txn EXCEPT ![a] = row]
      /\ UNCHANGED <<member, invite, refused>>
    BY DEF ReadPermissions, Manages
<1>2. member[a].permissions \in SUBSET Permissions
    BY DEF IInv, TypeOK, Member
<1>3. txn[a] \in TxnRow /\ (a = Owner => txn[a].locked)
    BY <1>1, TxnRows
<1>4. /\ row \in TxnRow /\ row.holds = member[a].permissions
      /\ row.step = "RESOLVED" /\ row.locked = txn[a].locked
    BY <1>2, <1>3 DEF TxnRow
<1>. HIDE DEF row
<1>5. TxnsOK'
    BY <1>1, <1>3, <1>4, TxnGoesOn
<1>. QED BY <1>1, <1>5, Kept, Parts

(* No member is found, and the caller may grant what it asks for. *)
LEMMA SeekStep ==
    ASSUME IInv, NEW a \in Users, SeekMember(a) PROVE IInv'
<1>. DEFINE row == [txn[a] EXCEPT !.step = "SOUGHT"]
<1>1. /\ txn[a].step = "RESOLVED" /\ txn[a].request.kind = "CREATE"
      /\ MayGrant(a, txn[a].request.permissions)
      /\ txn' = [txn EXCEPT ![a] = row]
      /\ UNCHANGED <<member, invite, refused>>
    BY DEF SeekMember, Asks
<1>2. /\ txn[a] \in TxnRow /\ (a = Owner => txn[a].locked)
      /\ txn[a].locked => member[a].status = "ACTIVE" /\ txn[a].holds = member[a].permissions
    BY <1>1, TxnRows
<1>3. /\ row \in TxnRow /\ row.request = txn[a].request /\ row.holds = txn[a].holds
      /\ row.locked = txn[a].locked
    BY <1>2 DEF TxnRow
<1>. HIDE DEF row
<1>4. TxnsOK'
    BY <1>1, <1>2, <1>3, TxnGoesOn DEF MayGrant
<1>. QED BY <1>1, <1>4, Kept, Parts

(* The invitations that an insertion leaves: those of the person that were *)
(* pending have expired, and the new one is the only one.                  *)
LEMMA CreateResult ==
    ASSUME IInv, NEW a \in Users, NEW k \in Invitations, CreateInvitation(a, k)
    PROVE  LET r == txn[a].request IN
           /\ txn[a] # NoTxn /\ txn[a].step = "SOUGHT" /\ r.kind = "CREATE"
           /\ r.to \in People /\ r.permissions \in SUBSET Permissions
           /\ invite' \in [Invitations -> Invite]
           /\ invite'[k].to = r.to /\ invite'[k].permissions = r.permissions
           /\ invite'[k].status = "PENDING"
           /\ \A j \in Invitations \ {k} :
                 /\ invite'[j].to = invite[j].to
                 /\ \/ invite'[j] = invite[j] /\ ~(invite[j].status = "PENDING" /\ invite[j].to = r.to)
                    \/ invite'[j].status = "EXPIRED" /\ invite[j].status = "PENDING"
<1>. DEFINE r == txn[a].request
            new == [status |-> "PENDING", to |-> r.to, permissions |-> r.permissions, due |-> FALSE]
            expired == [j \in Invitations |->
                           IF j \in PendingFor(r.to) /\ invite[j].due
                           THEN [invite[j] EXCEPT !.status = "EXPIRED"] ELSE invite[j]]
<1>1. /\ txn[a].step = "SOUGHT" /\ r.kind = "CREATE"
      /\ invite' = [expired EXCEPT ![k] = new]
      /\ \A j \in PendingFor(r.to) : invite[j].due
    BY DEF CreateInvitation, Asks
<1>2. txn[a] # NoTxn
    BY <1>1, TxnRows
<1>3. r.to \in People /\ r.permissions \in SUBSET Permissions
    BY <1>1, <1>2, RequestRows
<1>4. /\ new \in Invite /\ new.to = r.to /\ new.permissions = r.permissions
      /\ new.status = "PENDING"
    BY <1>3 DEF Invite
<1>5. ASSUME NEW j \in Invitations
      PROVE  /\ [invite[j] EXCEPT !.status = "EXPIRED"] \in Invite
             /\ [invite[j] EXCEPT !.status = "EXPIRED"].status = "EXPIRED"
             /\ [invite[j] EXCEPT !.status = "EXPIRED"].to = invite[j].to
             /\ invite[j] \in Invite
    <2>1. invite[j] \in Invite
        BY DEF IInv, TypeOK
    <2>. QED BY <2>1 DEF Invite
<1>6. expired \in [Invitations -> Invite]
    BY <1>5
<1>7. ASSUME NEW j \in Invitations
      PROVE  /\ expired[j].to = invite[j].to
             /\ \/ expired[j] = invite[j] /\ ~(invite[j].status = "PENDING" /\ invite[j].to = r.to)
                \/ expired[j].status = "EXPIRED" /\ invite[j].status = "PENDING"
    <2>1. CASE invite[j].status = "PENDING" /\ invite[j].to = r.to
        <3>1. j \in PendingFor(r.to) /\ invite[j].due
            BY <1>1, <2>1 DEF PendingFor
        <3>2. expired[j] = [invite[j] EXCEPT !.status = "EXPIRED"]
            BY <3>1
        <3>. HIDE DEF expired
        <3>. QED BY <1>5, <2>1, <3>2
    <2>2. CASE ~(invite[j].status = "PENDING" /\ invite[j].to = r.to)
        BY <2>2 DEF PendingFor
    <2>. QED BY <2>1, <2>2
<1>. HIDE DEF expired, new, r
<1>8. invite' \in [Invitations -> Invite] /\ invite'[k] = new
    BY <1>1, <1>4, <1>6
<1>9. \A j \in Invitations \ {k} : invite'[j] = expired[j]
    BY <1>1, <1>6
<1>. QED BY <1>1, <1>2, <1>3, <1>4, <1>7, <1>8, <1>9 DEF r

(* The invitation is inserted. *)
LEMMA CreateStep ==
    ASSUME IInv, NEW a \in Users, NEW k \in Invitations, CreateInvitation(a, k) PROVE IInv'
<1>1. Done(a) /\ UNCHANGED <<member, refused>>
    BY DEF CreateInvitation
<1>2. InvitesOK'
    <2>. DEFINE r == txn[a].request
    <2>1. /\ invite' \in [Invitations -> Invite]
          /\ invite'[k].to = r.to /\ r.to \in People /\ invite'[k].status = "PENDING"
          /\ \A j \in Invitations \ {k} :
                 /\ invite'[j].to = invite[j].to
                 /\ \/ invite'[j] = invite[j] /\ ~(invite[j].status = "PENDING" /\ invite[j].to = r.to)
                    \/ invite'[j].status = "EXPIRED" /\ invite[j].status = "PENDING"
        BY CreateResult
    <2>. HIDE DEF r
    <2>2. \A j \in Invitations \ {k} :
             /\ invite'[j].to = invite[j].to
             /\ invite'[j].status \in {invite[j].status, "EXPIRED"}
             /\ invite'[j].status = "EXPIRED" => invite[j].status # "ABSENT"
             /\ ~(invite'[j].status = "PENDING" /\ invite'[j].to = invite'[k].to)
        BY <2>1
    <2>. QED BY <1>1, <2>1, <2>2, InviteSet
<1>3. TxnsOK'
    BY <1>1, TxnEnds
<1>. QED BY <1>1, <1>2, <1>3, Kept, Parts

(* An invitation's row with another status, or another expiry. *)
LEMMA InviteRows ==
    ASSUME IInv, NEW k \in Invitations
    PROVE  /\ invite[k] \in Invite
           /\ \A s \in {"PENDING", "REVOKED", "EXPIRED", "ACCEPTED"} :
                 LET row == [invite[k] EXCEPT !.status = s] IN
                 /\ row \in Invite /\ row.status = s
                 /\ row.to = invite[k].to /\ row.permissions = invite[k].permissions
           /\ LET row == [invite[k] EXCEPT !.status = "PENDING", !.due = FALSE] IN
                 /\ row \in Invite /\ row.status = "PENDING"
                 /\ row.to = invite[k].to /\ row.permissions = invite[k].permissions
           /\ LET row == [invite[k] EXCEPT !.due = TRUE] IN
                 /\ row \in Invite /\ row.status = invite[k].status /\ row.due
                 /\ row.to = invite[k].to /\ row.permissions = invite[k].permissions
<1>1. invite[k] \in Invite
    BY DEF IInv, TypeOK
<1>. QED BY <1>1 DEF Invite

(* One invitation's row is set. *)
LEMMA InviteUpdate ==
    ASSUME IInv, NEW k \in Invitations, NEW row \in Invite, row.to = invite[k].to,
           invite' = [invite EXCEPT ![k] = row]
    PROVE  /\ invite' \in [Invitations -> Invite] /\ invite'[k] = row
           /\ \A j \in Invitations \ {k} : invite'[j] = invite[j]
BY DEF IInv, TypeOK

(* One invitation's row is set to one that is not accepted; if it is       *)
(* pending, it was or no other invitation of the person is.                *)
LEMMA InviteStep ==
    ASSUME IInv, UNCHANGED member, NEW k \in Invitations, invite[k].status # "ABSENT",
           NEW row \in Invite, row.to = invite[k].to, row.status # "ACCEPTED",
           invite' = [invite EXCEPT ![k] = row],
           row.status = "PENDING" => invite[k].status = "PENDING" \/ OnlyPending(k)
    PROVE  InvitesOK'
<1>1. /\ invite' \in [Invitations -> Invite] /\ invite'[k] = row
      /\ \A j \in Invitations \ {k} : invite'[j] = invite[j]
    BY InviteUpdate
<1>2. invite[k].to \in People
    BY DEF IInv, Addressed
<1>3. row.status = "PENDING" =>
         \A j \in Invitations \ {k} :
             ~(invite'[j].status = "PENDING" /\ invite'[j].to = invite'[k].to)
    BY <1>1 DEF OnlyPending, PendingFor, IInv, OnePending
<1>4. \A j \in Invitations \ {k} : invite[j] \in Invite
    BY InviteRows
<1>5. \A j \in Invitations \ {k} :
         /\ invite'[j].to = invite[j].to
         /\ invite'[j].status \in {invite[j].status, "EXPIRED"}
         /\ invite'[j].status = "EXPIRED" => invite[j].status # "ABSENT"
    BY <1>1
<1>. QED BY <1>1, <1>2, <1>3, <1>5, InviteSet

(* A resent invitation is the person's only pending one, and keeps its     *)
(* permissions.                                                            *)
LEMMA ResendResult ==
    ASSUME IInv, NEW a \in Users, ResendInvitation(a)
    PROVE  /\ txn[a].step = "RESOLVED" /\ InvitesOK'
           /\ \E k \in Invitations :
                 /\ MayGrant(a, invite[k].permissions)
                 /\ invite'[k].permissions = invite[k].permissions
                 /\ \A j \in Invitations \ {k} : invite'[j] = invite[j]
<1>. DEFINE k == txn[a].request.invite
            row == [invite[k] EXCEPT !.status = "PENDING", !.due = FALSE]
<1>1. /\ txn[a].step = "RESOLVED" /\ txn[a].request.kind = "RESEND"
      /\ invite[k].status \in {"PENDING", "EXPIRED"}
      /\ MayGrant(a, invite[k].permissions) /\ OnlyPending(k)
      /\ UNCHANGED member
    BY DEF ResendInvitation, Asks
<1>2. txn[a] # NoTxn
    BY <1>1, TxnRows
<1>3. k \in Invitations
    BY <1>1, <1>2, RequestRows
<1>4. invite' = [invite EXCEPT ![k] = row]
    BY <1>3 DEF ResendInvitation, IInv, TypeOK
<1>. HIDE DEF k
<1>5. /\ row \in Invite /\ row.status = "PENDING" /\ row.to = invite[k].to
      /\ row.permissions = invite[k].permissions
    BY <1>3, InviteRows
<1>. HIDE DEF row
<1>6. InvitesOK'
    BY <1>1, <1>3, <1>4, <1>5, InviteStep
<1>7. invite'[k] = row /\ \A j \in Invitations \ {k} : invite'[j] = invite[j]
    BY <1>3, <1>4, <1>5, InviteUpdate
<1>. QED BY <1>1, <1>2, <1>3, <1>5, <1>6, <1>7

(* A revoked invitation is not pending. *)
LEMMA RevokeInvitationResult ==
    ASSUME IInv, NEW a \in Users, RevokeInvitation(a)
    PROVE  /\ InvitesOK'
           /\ \E k \in Invitations :
                 /\ invite'[k].status = "REVOKED"
                 /\ \A j \in Invitations \ {k} : invite'[j] = invite[j]
<1>. DEFINE k == txn[a].request.invite
            row == [invite[k] EXCEPT !.status = "REVOKED"]
<1>1. /\ txn[a].step = "RESOLVED" /\ txn[a].request.kind = "REVOKE_INVITATION"
      /\ invite[k].status = "PENDING" /\ UNCHANGED member
      /\ invite' = [invite EXCEPT ![k] = row]
    BY DEF RevokeInvitation, Asks
<1>2. k \in Invitations
    <2>1. txn[a] # NoTxn
        BY <1>1, TxnRows
    <2>. QED BY <1>1, <2>1, RequestRows
<1>. HIDE DEF k
<1>3. row \in Invite /\ row.status = "REVOKED" /\ row.to = invite[k].to
    BY <1>2, InviteRows
<1>. HIDE DEF row
<1>4. InvitesOK'
    BY <1>1, <1>2, <1>3, InviteStep
<1>5. invite'[k] = row /\ \A j \in Invitations \ {k} : invite'[j] = invite[j]
    BY <1>1, <1>2, <1>3, InviteUpdate
<1>. QED BY <1>2, <1>3, <1>4, <1>5

(* A membership is updated or revoked while nobody but the caller has it   *)
(* locked.                                                                 *)
LEMMA MemberResult ==
    ASSUME TeamAssumption, IInv, NEW a \in Users, UpdateMembership(a) \/ RevokeMembership(a)
    PROVE  /\ txn[a].step = "RESOLVED" /\ UNCHANGED <<invite, refused>> /\ Done(a)
           /\ MembersOK' /\ InvitesOK'
           /\ \A d \in Users \ {a} : Shared(d) => member'[d] = member[d]
           /\ \E u \in People :
                 /\ \A d \in Users \ {u} : member'[d] = member[d]
                 /\ member'[u].status # "ACTIVE" \/
                       (MayGrant(a, member'[u].permissions) /\ member'[u].permissions \in SUBSET Permissions)
<1>. DEFINE u == txn[a].request.to
            r == txn[a].request
<1>1. /\ txn[a].step = "RESOLVED" /\ r.kind \in {"UPDATE", "REVOKE_MEMBER"}
      /\ Lockable(a, u) /\ member[u].status = "ACTIVE"
      /\ UNCHANGED <<invite, refused>> /\ Done(a)
    BY DEF UpdateMembership, RevokeMembership, Asks
<1>2. txn[a] # NoTxn
    BY <1>1, TxnRows
<1>3. u \in People /\ (r.kind = "UPDATE" => r.permissions \in SUBSET Permissions)
    BY <1>1, <1>2, RequestRows
<1>4. member \in [Users -> Member] /\ u \in Users
    BY <1>3 DEF IInv, TypeOK, Users
<1>5. \E row \in Member :
         /\ member' = [member EXCEPT ![u] = row] /\ row.status # "NONE"
         /\ row.status # "ACTIVE" \/
               (MayGrant(a, row.permissions) /\ row.permissions \in SUBSET Permissions)
    <2>1. CASE UpdateMembership(a)
        <3>. DEFINE row == [member[u] EXCEPT !.permissions = r.permissions]
        <3>1. /\ r.kind = "UPDATE" /\ MayGrant(a, r.permissions)
              /\ member' = [member EXCEPT ![u] = row]
            BY <2>1 DEF UpdateMembership, Asks
        <3>2. /\ row \in Member /\ row.status = member[u].status
              /\ row.permissions = r.permissions
            BY <1>3, <1>4, <3>1 DEF Member
        <3>. HIDE DEF row
        <3>. QED BY <1>1, <1>3, <3>1, <3>2
    <2>2. CASE RevokeMembership(a)
        <3>. DEFINE row == [member[u] EXCEPT !.status = "REVOKED"]
        <3>1. member' = [member EXCEPT ![u] = row]
            BY <2>2 DEF RevokeMembership
        <3>2. row \in Member /\ row.status = "REVOKED"
            BY <1>4 DEF Member
        <3>. HIDE DEF row
        <3>. QED BY <3>1, <3>2
    <2>. QED BY <2>1, <2>2
<1>6. \A d \in Users \ {a} : Shared(d) => d # u
    BY <1>1 DEF Lockable
<1>. HIDE DEF u, r
<1>7. PICK row \in Member :
         /\ member' = [member EXCEPT ![u] = row] /\ row.status # "NONE"
         /\ row.status # "ACTIVE" \/
               (MayGrant(a, row.permissions) /\ row.permissions \in SUBSET Permissions)
    BY <1>5
<1>8. MembersOK' /\ InvitesOK' /\ \A d \in Users \ {u} : member'[d] = member[d]
    BY <1>1, <1>3, <1>7, MemberSet
<1>9. member'[u] = row
    BY <1>4, <1>7
<1>. QED BY <1>1, <1>2, <1>3, <1>6, <1>7, <1>8, <1>9

(* An invitation is accepted by a person who is no member, and whose       *)
(* request, if one runs, locks nothing therefore.                          *)
LEMMA AcceptStep ==
    ASSUME TeamAssumption, IInv, NEW p \in People, NEW k \in Invitations, AcceptInvitation(p, k)
    PROVE  IInv'
<1>. DEFINE row == [status |-> "ACTIVE", permissions |-> invite[k].permissions]
            accepted == [invite[k] EXCEPT !.status = "ACCEPTED"]
<1>1. /\ invite[k].status = "PENDING" /\ invite[k].to = p /\ member[p].status # "ACTIVE"
      /\ member' = [member EXCEPT ![p] = row] /\ invite' = [invite EXCEPT ![k] = accepted]
      /\ UNCHANGED <<txn, refused>>
    BY DEF AcceptInvitation, Acceptable
<1>2. invite[k] \in Invite /\ accepted \in Invite /\ accepted.status = "ACCEPTED" /\ accepted.to = p
    BY <1>1, InviteRows
<1>3. row \in Member /\ row.status = "ACTIVE"
    BY <1>2 DEF Invite, Member
<1>. HIDE DEF row, accepted
<1>4. MembersOK' /\ \A d \in Users \ {p} : member'[d] = member[d]
    BY <1>1, <1>3, MemberSet
<1>5. /\ invite' \in [Invitations -> Invite] /\ invite'[k] = accepted
      /\ \A j \in Invitations \ {k} : invite'[j] = invite[j]
    BY <1>1, <1>2, InviteUpdate
<1>6. p \in Users /\ People \subseteq Users /\ member'[p] = row
    BY <1>1 DEF Users, IInv, TypeOK
<1>7. TxnsOK'
    <2>1. txn[p] # NoTxn => ~txn[p].locked
        BY <1>1, <1>6, TxnRows
    <2>2. \A d \in Users : Holds(d)'
        BY <1>1, <1>4, <2>1 DEF IInv, Holds, MayGrant
    <2>. QED BY <1>1, <2>2 DEF IInv, TxnsOK
<1>8. InvitesOK'
    <2>1. OnePending /\ \A j \in Invitations : Addressed(j)
        BY DEF IInv
    <2>2. OnePending'
        BY <1>2, <1>5, <2>1 DEF OnePending
    <2>3. \A j \in Invitations : Addressed(j)'
        BY <1>2, <1>3, <1>4, <1>5, <1>6, <2>1 DEF Addressed
    <2>. QED BY <1>5, <2>2, <2>3 DEF InvitesOK
<1>. QED BY <1>1, <1>4, <1>7, <1>8, Kept, Parts

-----------------------------------------------------------------------------
(* The first state has the invariant. *)
LEMMA InitInvariant == ASSUME TeamAssumption, Init PROVE IInv
<1>1. Owner \in Users
    BY DEF Users
<1>2. MembersOK
    BY <1>1 DEF Init, MembersOK, OwnerStands, Member, Nobody
<1>3. InvitesOK
    BY DEF Init, InvitesOK, OnePending, Addressed, Invite
<1>4. TxnsOK
    BY DEF Init, TxnsOK, Holds
<1>. QED BY <1>2, <1>3, <1>4, Parts DEF Init

(* The steps keep it. *)
LEMMA StepInvariant == ASSUME TeamAssumption, IInv, [Next]_vars PROVE IInv'
<1>1. CASE UNCHANGED vars
    BY <1>1, Kept, Parts DEF vars
<1>2. ASSUME NEW a \in Users,
             (\E r \in Requests : LockMembership(a, r)) \/ ReadPermissions(a)
      PROVE  IInv'
    BY <1>2, LockStep, ReadStep
<1>3. ASSUME NEW a \in Users,
             SeekMember(a) \/ \E k \in Invitations : CreateInvitation(a, k)
      PROVE  IInv'
    BY <1>3, SeekStep, CreateStep
<1>4. ASSUME NEW a \in Users, ResendInvitation(a) \/ RevokeInvitation(a) PROVE IInv'
    <2>1. Done(a) /\ UNCHANGED <<member, refused>>
        BY <1>4 DEF ResendInvitation, RevokeInvitation
    <2>2. TxnsOK'
        BY <2>1, TxnEnds
    <2>3. InvitesOK'
        BY <1>4, ResendResult, RevokeInvitationResult
    <2>. QED BY <2>1, <2>2, <2>3, Kept, Parts
<1>5. ASSUME NEW a \in Users, UpdateMembership(a) \/ RevokeMembership(a) PROVE IInv'
    <2>1. /\ UNCHANGED refused /\ Done(a) /\ MembersOK' /\ InvitesOK'
          /\ \A d \in Users \ {a} : Shared(d) => member'[d] = member[d]
        BY <1>5, MemberResult
    <2>2. TxnsOK'
        BY <2>1, TxnEnds
    <2>. QED BY <2>1, <2>2, Kept, Parts
<1>6. ASSUME NEW a \in Users, Refuse(a) PROVE IInv'
    <2>1. Done(a) /\ UNCHANGED <<member, invite, refused>>
        BY <1>6 DEF Refuse
    <2>2. TxnsOK'
        BY <2>1, TxnEnds
    <2>. QED BY <2>1, <2>2, Kept, Parts
<1>7. ASSUME NEW p \in People, NEW k \in Invitations, AcceptInvitation(p, k) PROVE IInv'
    BY <1>7, AcceptStep
<1>8. ASSUME NEW p \in People, NEW k \in Invitations, AcceptanceRefused(p, k) PROVE IInv'
    <2>1. UNCHANGED <<member, invite, txn>> /\ refused' = refused \union {p}
        BY <1>8 DEF AcceptanceRefused
    <2>2. refused' \subseteq People
        BY <2>1 DEF IInv, TypeOK
    <2>. QED BY <2>1, <2>2, Kept, Parts
<1>9. ASSUME NEW k \in Invitations, FallDue(k) \/ Expire(k) PROVE IInv'
    <2>1. UNCHANGED <<member, txn, refused>> /\ invite[k].status = "PENDING"
        BY <1>9 DEF FallDue, Expire
    <2>2. InvitesOK'
        <3>1. CASE FallDue(k)
            <4>1. invite' = [invite EXCEPT ![k] = [invite[k] EXCEPT !.due = TRUE]]
                BY <3>1 DEF FallDue
            <4>2. LET row == [invite[k] EXCEPT !.due = TRUE] IN
                  row \in Invite /\ row.status = "PENDING" /\ row.to = invite[k].to
                BY <2>1, InviteRows
            <4>. QED BY <2>1, <4>1, <4>2, InviteStep
        <3>2. CASE Expire(k)
            <4>1. invite' = [invite EXCEPT ![k] = [invite[k] EXCEPT !.status = "EXPIRED"]]
                BY <3>2 DEF Expire
            <4>2. LET row == [invite[k] EXCEPT !.status = "EXPIRED"] IN
                  row \in Invite /\ row.status = "EXPIRED" /\ row.to = invite[k].to
                BY <2>1, InviteRows
            <4>. QED BY <2>1, <4>1, <4>2, InviteStep
        <3>. QED BY <1>9, <3>1, <3>2
    <2>. QED BY <2>1, <2>2, Kept, Parts
<1>. QED BY <1>1, <1>2, <1>3, <1>4, <1>5, <1>6, <1>7, <1>8, <1>9 DEF Next

(* The invariant, and with it what follows, holds in every behaviour. *)
THEOREM TeamInvariance == Spec => []IInv
<1>1. Init => IInv
    BY InitInvariant, TeamAssumption
<1>2. IInv /\ [Next]_vars => IInv'
    BY StepInvariant, TeamAssumption
<1>. QED BY <1>1, <1>2, PTL DEF Spec

(* The rows are typed; a person has one pending invitation at most, and an *)
(* accepted one stands for a membership.                                   *)
THEOREM TeamIsTrue == Spec => []TeamOK
<1>1. ASSUME IInv, NEW p \in People PROVE Cardinality(PendingFor(p)) <= 1
    <2>1. \A j, k \in PendingFor(p) : j = k
        BY <1>1 DEF IInv, OnePending, PendingFor
    <2>2. PendingFor(p) = {} \/ \E k : PendingFor(p) = {k}
        BY <2>1
    <2>3. Cardinality({}) = 0 /\ \A k : Cardinality({k}) = 1
        BY FS_EmptySet, FS_Singleton
    <2>4. Cardinality(PendingFor(p)) = 0 \/ Cardinality(PendingFor(p)) = 1
        BY <2>2, <2>3
    <2>. QED BY <2>4
<1>2. IInv => InvitationsAgree
    BY <1>1 DEF IInv, Addressed, InvitationsAgree, Nobody
<1>3. IInv => TeamOK
    BY <1>2 DEF IInv, TeamOK
<1>. QED BY <1>3, TeamInvariance, PTL

(* The end of a request hands out what its caller holds at that moment, or *)
(* has held if its membership is not locked.                               *)
LEMMA HandedIsHeld ==
    ASSUME TeamAssumption, IInv, Next, NEW a \in Users, txn[a] # NoTxn, txn'[a] = NoTxn
    PROVE  Handed \subseteq HeldBy(a)
<1>. DEFINE held == HeldBy(a)
<1>2. txn \in [Users -> {NoTxn} \cup TxnRow] /\ NoTxn \notin TxnRow
    BY DEF IInv, TxnRow, NoTxn
<1>3. \/ \E k \in Invitations : CreateInvitation(a, k)
      \/ ResendInvitation(a) \/ RevokeInvitation(a)
      \/ UpdateMembership(a) \/ RevokeMembership(a) \/ Refuse(a)
    <2>1. txn' # txn
        OBVIOUS
    <2>2. ASSUME NEW b \in Users, NEW row, txn' = [txn EXCEPT ![b] = row]
          PROVE  b = a /\ row = NoTxn
        BY <1>2, <2>2
    <2>3. ASSUME NEW b \in Users,
                 (\E r \in Requests : LockMembership(b, r)) \/ ReadPermissions(b)
          PROVE  FALSE
        <3>1. ASSUME NEW r \in Requests, LockMembership(b, r) PROVE FALSE
            <4>. DEFINE row == [step |-> "LOCKED", request |-> r, holds |-> {},
                                locked |-> member[b].status = "ACTIVE"]
            <4>1. txn' = [txn EXCEPT ![b] = row]
                BY <3>1 DEF LockMembership
            <4>2. row # NoTxn
                BY DEF NoTxn
            <4>. HIDE DEF row
            <4>. QED BY <2>2, <4>1, <4>2
        <3>2. CASE ReadPermissions(b)
            <4>. DEFINE row == [txn[b] EXCEPT !.step = "RESOLVED", !.holds = member[b].permissions]
            <4>1. txn' = [txn EXCEPT ![b] = row] /\ txn[b].step = "LOCKED"
                BY <3>2 DEF ReadPermissions
            <4>2. txn[b] \in TxnRow /\ member[b].permissions \in SUBSET Permissions
                BY <4>1, TxnRows DEF IInv, TypeOK, Member
            <4>3. row \in TxnRow
                BY <4>2 DEF TxnRow
            <4>. HIDE DEF row
            <4>. QED BY <1>2, <2>2, <4>1, <4>3
        <3>. QED BY <2>3, <3>1, <3>2
    <2>4. ASSUME NEW b \in Users, SeekMember(b) PROVE FALSE
        <3>. DEFINE row == [txn[b] EXCEPT !.step = "SOUGHT"]
        <3>1. txn' = [txn EXCEPT ![b] = row] /\ txn[b].step = "RESOLVED"
            BY <2>4 DEF SeekMember, Asks
        <3>2. row \in TxnRow
            <4>1. txn[b] \in TxnRow
                BY <3>1, TxnRows
            <4>. QED BY <4>1 DEF TxnRow
        <3>. HIDE DEF row
        <3>. QED BY <1>2, <2>2, <3>1, <3>2
    <2>5. ASSUME NEW b \in Users,
                 \/ \E k \in Invitations : CreateInvitation(b, k)
                 \/ ResendInvitation(b) \/ RevokeInvitation(b)
                 \/ UpdateMembership(b) \/ RevokeMembership(b) \/ Refuse(b)
          PROVE  b = a
        <3>1. Done(b)
            BY <2>5, Zenon DEF CreateInvitation, ResendInvitation, RevokeInvitation, UpdateMembership,
               RevokeMembership, Refuse
        <3>. QED BY <2>2, <3>1 DEF Done
    <2>6. ASSUME \/ \E p \in People, k \in Invitations : AcceptInvitation(p, k) \/ AcceptanceRefused(p, k)
                 \/ \E k \in Invitations : FallDue(k) \/ Expire(k)
          PROVE  FALSE
        BY <2>1, <2>6 DEF AcceptInvitation, AcceptanceRefused, FallDue, Expire
    <2>. QED BY <2>3, <2>4, <2>5, <2>6 DEF Next
<1>4. ASSUME UNCHANGED member,
             NEW k \in Invitations,
             \A j \in Invitations \ {k} :
                invite'[j] = invite[j] \/ invite'[j].status = "EXPIRED",
             invite'[k].status # "PENDING" \/ invite'[k].permissions \subseteq held
      PROVE  Handed \subseteq held
    BY <1>4 DEF Handed
<1>5. ASSUME NEW k \in Invitations, CreateInvitation(a, k) PROVE Handed \subseteq held
    <2>1. /\ txn[a] # NoTxn /\ txn[a].step = "SOUGHT" /\ txn[a].request.permissions \in SUBSET Permissions
          /\ invite'[k].permissions = txn[a].request.permissions
          /\ \A j \in Invitations \ {k} :
                invite'[j] = invite[j] \/ invite'[j].status = "EXPIRED"
        BY <1>5, CreateResult
    <2>2. MayGrant(a, txn[a].request.permissions)
        BY <2>1 DEF IInv, Holds
    <2>3. txn[a].request.permissions \subseteq held
        BY <2>1, <2>2, GrantsAreHeld
    <2>4. UNCHANGED member
        BY <1>5 DEF CreateInvitation
    <2>. QED BY <1>4, <2>1, <2>3, <2>4
<1>6. CASE ResendInvitation(a)
    <2>1. PICK k \in Invitations :
             /\ MayGrant(a, invite[k].permissions)
             /\ invite'[k].permissions = invite[k].permissions
             /\ \A j \in Invitations \ {k} : invite'[j] = invite[j]
             /\ txn[a].step = "RESOLVED"
        BY <1>6, ResendResult
    <2>2. invite[k].permissions \in SUBSET Permissions
        BY DEF IInv, TypeOK, Invite
    <2>3. invite[k].permissions \subseteq held
        BY <2>1, <2>2, GrantsAreHeld
    <2>4. UNCHANGED member
        BY <1>6 DEF ResendInvitation
    <2>. QED BY <1>4, <2>1, <2>3, <2>4
<1>7. CASE RevokeInvitation(a)
    <2>1. PICK k \in Invitations :
             /\ invite'[k].status = "REVOKED"
             /\ \A j \in Invitations \ {k} : invite'[j] = invite[j]
        BY <1>7, RevokeInvitationResult
    <2>2. UNCHANGED member
        BY <1>7 DEF RevokeInvitation
    <2>. QED BY <1>4, <2>1, <2>2
<1>8. CASE UpdateMembership(a) \/ RevokeMembership(a)
    <2>1. PICK u \in People :
             /\ \A d \in Users \ {u} : member'[d] = member[d]
             /\ member'[u].status # "ACTIVE" \/
                   (MayGrant(a, member'[u].permissions) /\ member'[u].permissions \in SUBSET Permissions)
        BY <1>8, MemberResult
    <2>2. UNCHANGED invite /\ txn[a].step = "RESOLVED"
        BY <1>8, MemberResult
    <2>3. member'[u].status # "ACTIVE" \/ member'[u].permissions \subseteq held
        BY <2>1, <2>2, GrantsAreHeld
    <2>4. People \subseteq Users
        BY DEF Users
    <2>. QED BY <2>1, <2>2, <2>3, <2>4 DEF Handed
<1>9. CASE Refuse(a)
    <2>1. UNCHANGED <<member, invite>>
        BY <1>9 DEF Refuse
    <2>. QED BY <2>1 DEF Handed
<1>. QED BY <1>3, <1>5, <1>6, <1>7, <1>8, <1>9

(* Nobody hands out or renews a permission it does not hold at that        *)
(* moment, for the share lock taken on the caller's membership is held     *)
(* until the request ends.  Only for the request of a caller who was not a *)
(* member when it began, and locked nothing, is it what was read.          *)
THEOREM GrantsStayWithinGranter == Spec => NoGrantBeyondGranter
<1>. DEFINE Within == \A a \in Users : (txn[a] # NoTxn /\ txn'[a] = NoTxn) => Handed \subseteq HeldBy(a)
<1>1. IInv /\ [Next]_vars => [Within]_vars
    BY HandedIsHeld, TeamAssumption
<1>. QED BY <1>1, TeamInvariance, PTL DEF Spec, NoGrantBeyondGranter

-----------------------------------------------------------------------------
(* Exports. *)

(* The row of a request, its queue job and its notifications. *)
RequestRow == [status : Statuses, asset : File \cup {None}]
QueueRow   == [state : {"ABSENT", "WAITING", "ACTIVE", "DONE"}, tries : 0..Attempts,
               stalled : BOOLEAN, holder : Workers \cup {None}]

(* A queue job that is not over has attempts left, and a worker holds an   *)
(* active one.                                                             *)
QueueJobOK(j) ==
    /\ queue[j].holder # None <=> queue[j].state = "ACTIVE"
    /\ queue[j].state # "DONE" => queue[j].tries < Attempts

(* A request is in the queue once it is saved, and tells its outcome once. *)
RequestOK(j) ==
    /\ job[j].status = "COMPLETED" <=> job[j].asset # None
    /\ api[j] = "ENQUEUE" => queue[j].state = "ABSENT"
    /\ job[j].status = "ABSENT" => api[j] = "DONE" /\ queue[j].state = "ABSENT"
    /\ "EXPORT_READY" \in notices[j] <=> job[j].status = "COMPLETED"
    /\ "EXPORT_FAILED" \in notices[j] => job[j].status = "FAILED"

RowsInv ==
    /\ job \in [Jobs -> RequestRow]
    /\ api \in [Jobs -> {"ENQUEUE", "MARK", "DONE"}]
    /\ notices \in [Jobs -> SUBSET {"EXPORT_READY", "EXPORT_FAILED"}]
    /\ queue \in [Jobs -> QueueRow]
    /\ \A j \in Jobs : QueueJobOK(j) /\ RequestOK(j)
    /\ \A i, j \in Jobs : i # j /\ job[i].asset = job[j].asset => job[i].asset = None

(* What an execution knows of its request, from its claim on. *)
Waiter  == [step : {"CLAIM", "REVOKED", "FAIL"}, job : Jobs]
Builder == [step : {"LIST", "STORE", "PUBLISH", "DISCARD", "DISCARD_AND_THROW"}, job : Jobs,
            cursor : Nat, steady : SUBSET Guests, file : File]

(* The rows list no guest twice. *)
Distinct(rows) == \A m, n \in DOMAIN rows : rows[m].guest = rows[n].guest => m = n

HasRow(rows, g) == \E n \in DOMAIN rows : rows[n].guest = g

(* The pages so far end at the cursor, and leave out no guest up to it that *)
(* was there throughout.                                                   *)
ListingOK(x) ==
    /\ Distinct(x.file.rows)
    /\ \A n \in DOMAIN x.file.rows : x.file.rows[n].guest <= x.cursor
    /\ \A g \in x.steady : g <= x.cursor => HasRow(x.file.rows, g)

ListedOK(x) == Distinct(x.file.rows) /\ \A g \in x.steady : HasRow(x.file.rows, g)

ExecutionOK(w) ==
    exec[w] # Idle =>
        /\ exec[w] \in Waiter \cup Builder
        /\ job[exec[w].job].status # "ABSENT"
        /\ Claimed(w) => job[exec[w].job].status # "QUEUED"
        /\ exec[w].step \in {"LIST", "STORE", "PUBLISH"} =>
              job[exec[w].job].status \in {"PROCESSING", "FAILED"}
        /\ exec[w].step = "LIST" =>
              ListingOK(exec[w]) /\ exec[w].steady \subseteq Listable(exec[w].job)
        /\ exec[w].step = "STORE" => ListedOK(exec[w])

OneBuilder == \A v, w \in Workers : (v # w /\ Claimed(v) /\ Claimed(w)) => exec[v].job # exec[w].job

ExecsInv == DOMAIN exec = Workers /\ \A w \in Workers : ExecutionOK(w)
FilesInv == NoFileLeftBehind /\ objects \cup strays \subseteq File

ExportInv ==
    /\ RowsInv /\ ExecsInv /\ OneBuilder /\ FilesInv
    /\ answer \in [Guests -> Answers] /\ access \in Access
    /\ changes \in 0..MaxChanges /\ faults \in 0..MaxFaults

-----------------------------------------------------------------------------
(* The order of the guests: ranks, sequences in order and pages. *)

Rank(S, g) == Cardinality({h \in S : h <= g})

(* There are finitely many guests, and they are numbers. *)
LEMMA SomeGuests ==
    ASSUME ExportAssumption, NEW S \in SUBSET Guests
    PROVE  S \in SUBSET Nat /\ IsFiniteSet(S) /\ Cardinality(S) \in Nat
<1>1. IsFiniteSet(Guests) /\ Guests = 1..Cardinality(Guests)
    BY DEF ExportAssumption
<1>2. Cardinality(Guests) \in Nat
    BY <1>1, FS_CardinalityType
<1>3. S \in SUBSET Nat
    BY <1>1, <1>2
<1>4. IsFiniteSet(S)
    BY <1>1, FS_Subset
<1>. QED BY <1>3, <1>4, FS_CardinalityType

(* A guest of a set has a rank in it, and a later guest a greater one. *)
LEMMA Ranks ==
    ASSUME ExportAssumption, NEW S \in SUBSET Guests
    PROVE  /\ \A g \in S : Rank(S, g) \in 1..Cardinality(S)
           /\ \A g, h \in S : g < h => Rank(S, g) < Rank(S, h)
<1>0. S \in SUBSET Nat /\ IsFiniteSet(S) /\ Cardinality(S) \in Nat
    BY SomeGuests
<1>1. ASSUME NEW g \in S PROVE Rank(S, g) \in 1..Cardinality(S)
    <2>. DEFINE B == {h \in S : h <= g}
    <2>1. B \in SUBSET S /\ g \in B
        BY <1>0
    <2>2. IsFiniteSet(B) /\ Cardinality(B) <= Cardinality(S)
        BY <1>0, <2>1, FS_Subset
    <2>3. Cardinality(B) \in Nat /\ Cardinality(B) # 0
        BY <2>1, <2>2, FS_CardinalityType, FS_EmptySet
    <2>4. Rank(S, g) = Cardinality(B)
        BY DEF Rank
    <2>. HIDE DEF B
    <2>. QED BY <1>0, <2>2, <2>3, <2>4
<1>2. ASSUME NEW g \in S, NEW h \in S, g < h PROVE Rank(S, g) < Rank(S, h)
    <2>. DEFINE B == {x \in S : x <= g}
                C == {x \in S : x <= h}
    <2>0. g \in Nat /\ h \in Nat /\ \A x \in S : x \in Nat
        BY <1>0
    <2>1. B \in SUBSET C /\ h \in C /\ h \notin B /\ C \in SUBSET S
        <3>1. \A x \in S : x <= g => x <= h
            BY <1>2, <2>0
        <3>2. h <= h /\ ~(h <= g)
            BY <1>2, <2>0
        <3>. QED BY <3>1, <3>2
    <2>2. IsFiniteSet(C)
        BY <1>0, <2>1, FS_Subset
    <2>3. Cardinality(B) <= Cardinality(C) /\ Cardinality(B) # Cardinality(C) /\ IsFiniteSet(B)
        BY <2>1, <2>2, FS_Subset
    <2>4. Cardinality(B) \in Nat /\ Cardinality(C) \in Nat
        BY <2>2, <2>3, FS_CardinalityType
    <2>5. Rank(S, g) = Cardinality(B) /\ Rank(S, h) = Cardinality(C)
        BY DEF Rank
    <2>. HIDE DEF B, C
    <2>. QED BY <2>3, <2>4, <2>5
<1>. QED BY <1>1, <1>2

(* Every number up to the size of a set is the rank of one guest of it. *)
LEMMA EveryRank ==
    ASSUME ExportAssumption, NEW S \in SUBSET Guests
    PROVE  /\ \A g, h \in S : Rank(S, g) = Rank(S, h) => g = h
           /\ \A n \in 1..Cardinality(S) : \E g \in S : Rank(S, g) = n
<1>0. S \in SUBSET Nat /\ IsFiniteSet(S) /\ Cardinality(S) \in Nat
    BY SomeGuests
<1>1. ASSUME NEW g \in S, NEW h \in S, Rank(S, g) = Rank(S, h) PROVE g = h
    <2>1. Rank(S, g) \in Nat /\ Rank(S, h) \in Nat
        BY <1>0, Ranks
    <2>2. (g < h => Rank(S, g) < Rank(S, h)) /\ (h < g => Rank(S, h) < Rank(S, g))
        BY Ranks
    <2>3. ~(g < h) /\ ~(h < g)
        BY <1>1, <2>1, <2>2
    <2>. QED BY <1>0, <2>3
<1>. DEFINE f == [g \in S |-> Rank(S, g)]
<1>3. f \in [S -> 1..Cardinality(S)]
    BY Ranks
<1>4. f \in Injection(S, 1..Cardinality(S))
    BY <1>1, <1>3 DEF Injection, IsInjective
<1>5. IsFiniteSet(1..Cardinality(S)) /\ Cardinality(1..Cardinality(S)) = Cardinality(S)
    BY <1>0, FS_Interval
<1>6. f \in Surjection(S, 1..Cardinality(S))
    BY <1>4, <1>5, FS_Injection
<1>7. \A n \in 1..Cardinality(S) : \E g \in S : f[g] = n
    BY <1>6 DEF Surjection
<1>. QED BY <1>1, <1>7

(* InOrder lists a set: its n-th guest is the one of rank n. *)
LEMMA Ordered ==
    ASSUME ExportAssumption, NEW S \in SUBSET Guests
    PROVE  /\ InOrder(S) \in Seq(S) /\ Len(InOrder(S)) = Cardinality(S)
           /\ DOMAIN InOrder(S) = 1..Cardinality(S)
           /\ \A n \in 1..Cardinality(S) : InOrder(S)[n] \in S /\ Rank(S, InOrder(S)[n]) = n
           /\ \A m, n \in 1..Cardinality(S) : InOrder(S)[m] = InOrder(S)[n] => m = n
           /\ \A g \in S : \E n \in 1..Cardinality(S) : InOrder(S)[n] = g
<1>0. Cardinality(S) \in Nat
    BY SomeGuests
<1>1. InOrder(S) = [n \in 1..Cardinality(S) |-> CHOOSE g \in S : Rank(S, g) = n]
    BY DEF InOrder, Rank
<1>2. ASSUME NEW n \in 1..Cardinality(S) PROVE InOrder(S)[n] \in S /\ Rank(S, InOrder(S)[n]) = n
    BY <1>1, EveryRank
<1>3. ASSUME NEW m \in 1..Cardinality(S), NEW n \in 1..Cardinality(S), InOrder(S)[m] = InOrder(S)[n]
      PROVE  m = n
    BY <1>2, <1>3
<1>4. ASSUME NEW g \in S PROVE \E n \in 1..Cardinality(S) : InOrder(S)[n] = g
    BY <1>2, Ranks, EveryRank
<1>5. InOrder(S) \in Seq(S) /\ Len(InOrder(S)) = Cardinality(S) /\ DOMAIN InOrder(S) = 1..Cardinality(S)
    BY <1>0, <1>1, <1>2
<1>. QED BY <1>2, <1>3, <1>4, <1>5

(* The last of them is the greatest. *)
LEMMA LastIsGreatest ==
    ASSUME ExportAssumption, NEW S \in SUBSET Guests, S # {}
    PROVE  /\ Cardinality(S) \in 1..Cardinality(S)
           /\ \A g \in S : g <= InOrder(S)[Cardinality(S)]
<1>0. S \in SUBSET Nat /\ IsFiniteSet(S) /\ Cardinality(S) \in Nat
    BY SomeGuests
<1>1. Cardinality(S) # 0
    BY <1>0, FS_EmptySet
<1>. DEFINE last == InOrder(S)[Cardinality(S)]
<1>2. Cardinality(S) \in 1..Cardinality(S) /\ last \in S /\ Rank(S, last) = Cardinality(S)
    BY <1>0, <1>1, Ordered
<1>. HIDE DEF last
<1>3. ASSUME NEW g \in S PROVE g <= last
    <2>1. Rank(S, g) \in 1..Cardinality(S) /\ (last < g => Rank(S, last) < Rank(S, g))
        BY <1>2, Ranks
    <2>. QED BY <1>0, <1>2, <2>1
<1>. QED BY <1>2, <1>3 DEF last

(* The first guests of a set, as many as a page holds. *)
FirstOf(S) == {g \in S : Rank(S, g) <= PageSize}

(* A page leaves out no guest before its last, and a short one none at all. *)
LEMMA WholePage ==
    ASSUME ExportAssumption, NEW S \in SUBSET Guests
    PROVE  /\ FirstOf(S) \in SUBSET Guests
           /\ \A g \in FirstOf(S), h \in S : h <= g => h \in FirstOf(S)
           /\ Cardinality(FirstOf(S)) < PageSize => FirstOf(S) = S
<1>0. /\ S \in SUBSET Nat /\ Cardinality(S) \in Nat /\ PageSize \in Nat
      /\ IsFiniteSet(FirstOf(S)) /\ Cardinality(FirstOf(S)) \in Nat
    <2>1. FirstOf(S) \in SUBSET Guests
        BY DEF FirstOf
    <2>. QED BY <2>1, SomeGuests DEF ExportAssumption
<1>1. ASSUME NEW g \in FirstOf(S), NEW h \in S, h <= g PROVE h \in FirstOf(S)
    <2>1. g \in S /\ Rank(S, g) <= PageSize
        BY DEF FirstOf
    <2>2. Rank(S, g) \in Nat /\ Rank(S, h) \in Nat /\ (h < g => Rank(S, h) < Rank(S, g))
        BY <1>0, <2>1, Ranks
    <2>3. h = g \/ h < g
        BY <1>0, <1>1, <2>1
    <2>. QED BY <1>0, <2>1, <2>2, <2>3 DEF FirstOf
<1>2. ASSUME Cardinality(FirstOf(S)) < PageSize, NEW g \in S, g \notin FirstOf(S) PROVE FALSE
    <2>1. Rank(S, g) \in 1..Cardinality(S) /\ ~(Rank(S, g) <= PageSize)
        BY <1>2, Ranks DEF FirstOf
    <2>2. 1..PageSize \subseteq 1..Cardinality(S)
        BY <1>0, <2>1
    <2>. DEFINE f == [n \in 1..PageSize |-> InOrder(S)[n]]
    <2>3. ASSUME NEW n \in 1..PageSize PROVE InOrder(S)[n] \in FirstOf(S)
        BY <1>0, <2>2, Ordered DEF FirstOf
    <2>4. ASSUME NEW m \in 1..PageSize, NEW n \in 1..PageSize, InOrder(S)[m] = InOrder(S)[n] PROVE m = n
        BY <2>2, <2>4, Ordered
    <2>5. f \in Injection(1..PageSize, FirstOf(S))
        BY <2>3, <2>4 DEF Injection, IsInjective
    <2>6. Cardinality(1..PageSize) <= Cardinality(FirstOf(S))
        BY <1>0, <2>5, FS_Injection
    <2>7. Cardinality(1..PageSize) = PageSize
        BY <1>0, FS_Interval
    <2>. QED BY <1>0, <1>2, <2>6, <2>7
<1>. QED BY <1>1, <1>2 DEF FirstOf
-----------------------------------------------------------------------------
(* Listings. *)

RowOf == [guest : Guests, answer : Answers \ {"ABSENT", "CANCELLED"}]

(* The rows of the guests of a page *)
PageRows(j, cursor, listed) ==
    [n \in DOMAIN InOrder(Page(j, cursor, listed)) |->
        [guest |-> InOrder(Page(j, cursor, listed))[n],
         answer |-> answer[InOrder(Page(j, cursor, listed))[n]]]]

LastOf(j, cursor, listed) ==
    InOrder(Page(j, cursor, listed))[Len(InOrder(Page(j, cursor, listed)))]

(* are past the cursor, of each guest once, leave out none of them up to   *)
(* the last one, and none at all when the page is short.                   *)
LEMMA NextPage ==
    ASSUME ExportAssumption, answer \in [Guests -> Answers],
           NEW j, NEW cursor \in Nat, NEW listed
    PROVE  LET page == InOrder(Page(j, cursor, listed))
               rows == PageRows(j, cursor, listed)
               last == LastOf(j, cursor, listed)
           IN  /\ rows \in Seq(RowOf) /\ Distinct(rows)
               /\ Len(page) \in Nat /\ (page # <<>> => last \in Nat)
               /\ page = <<>> => rows = <<>>
               /\ \A n \in DOMAIN rows : cursor < rows[n].guest
               /\ page # <<>> => /\ cursor < last
                                 /\ \A n \in DOMAIN rows : rows[n].guest <= last
                                 /\ \A g \in Listable(j) : g > cursor /\ g <= last => HasRow(rows, g)
               /\ Len(page) < PageSize => \A g \in Listable(j) : g > cursor => HasRow(rows, g)
<1>. DEFINE A == After(j, cursor, listed)
            P == Page(j, cursor, listed)
            page == InOrder(P)
            rows == PageRows(j, cursor, listed)
<1>1. A \in SUBSET Guests /\ A \subseteq Listable(j) /\ \A g \in Listable(j) : g \in A <=> g > cursor
    BY DEF After, Listable
<1>2. P = FirstOf(A)
    BY DEF Page, FirstOf, Rank
<1>3. /\ P \in SUBSET Guests /\ P \subseteq A
      /\ \A g \in P, h \in A : h <= g => h \in P
      /\ Cardinality(P) < PageSize => P = A
    BY <1>1, <1>2, WholePage DEF FirstOf
<1>. HIDE DEF A, P
<1>4. /\ Cardinality(P) \in Nat /\ Len(page) = Cardinality(P) /\ DOMAIN page = 1..Cardinality(P)
      /\ \A n \in 1..Cardinality(P) : page[n] \in P
      /\ \A m, n \in 1..Cardinality(P) : page[m] = page[n] => m = n
      /\ \A g \in P : \E n \in 1..Cardinality(P) : page[n] = g
      /\ page \in Seq(P)
    BY <1>3, SomeGuests, Ordered
<1>5. /\ DOMAIN rows = 1..Cardinality(P)
      /\ rows = [n \in 1..Cardinality(P) |-> [guest |-> page[n], answer |-> answer[page[n]]]]
    BY <1>4 DEF PageRows, P
<1>6. \A g \in P : g \in Guests /\ g \in Nat /\ cursor < g /\ answer[g] \in Answers \ {"ABSENT", "CANCELLED"}
    <2>. TAKE g \in P
    <2>1. g \in Guests /\ g \in Listable(j) /\ g > cursor
        BY <1>1, <1>3
    <2>2. g \in Nat
        BY <2>1, SomeGuests
    <2>. QED BY <2>1, <2>2 DEF Listable, Lists, Answers
<1>. HIDE DEF page, rows
<1>7. ASSUME NEW n \in 1..Cardinality(P) PROVE rows[n] \in RowOf /\ rows[n].guest = page[n] /\ page[n] \in P
    BY <1>4, <1>5, <1>6 DEF RowOf
<1>8. rows \in Seq(RowOf)
    BY <1>4, <1>5, <1>7
<1>9. Distinct(rows)
    BY <1>4, <1>5, <1>7 DEF Distinct
<1>10. \A n \in DOMAIN rows : cursor < rows[n].guest
    BY <1>5, <1>6, <1>7
<1>11. ASSUME NEW g \in P PROVE HasRow(rows, g)
    BY <1>4, <1>5, <1>7 DEF HasRow
<1>12. page = <<>> => rows = <<>>
    BY <1>4, <1>5
<1>13. ASSUME page # <<>>
       PROVE  /\ LastOf(j, cursor, listed) \in Nat /\ cursor < LastOf(j, cursor, listed)
              /\ \A n \in DOMAIN rows : rows[n].guest <= LastOf(j, cursor, listed)
              /\ \A g \in Listable(j) : g > cursor /\ g <= LastOf(j, cursor, listed) => HasRow(rows, g)
    <2>. DEFINE last == page[Cardinality(P)]
    <2>1. P # {}
        BY <1>4, <1>13, FS_EmptySet
    <2>2. last \in P /\ \A g \in P : g <= last
        BY <1>3, <1>4, <2>1, LastIsGreatest DEF page
    <2>3. LastOf(j, cursor, listed) = last
        BY <1>4 DEF LastOf, page, P
    <2>. HIDE DEF last
    <2>4. ASSUME NEW g \in Listable(j), g > cursor, g <= last PROVE HasRow(rows, g)
        BY <1>1, <1>3, <1>11, <2>2, <2>4
    <2>. QED BY <1>5, <1>6, <1>7, <2>2, <2>3, <2>4
<1>14. ASSUME Len(page) < PageSize, NEW g \in Listable(j), g > cursor PROVE HasRow(rows, g)
    BY <1>1, <1>3, <1>4, <1>11, <1>14
<1>15. Len(page) \in Nat
    BY <1>4
<1>. QED BY <1>8, <1>9, <1>10, <1>12, <1>13, <1>14, <1>15 DEF page, rows, P

AreAppended(all, old, new, cursor) ==
    /\ all \in Seq(RowOf) /\ Distinct(all)
    /\ \A g : HasRow(old, g) \/ HasRow(new, g) => HasRow(all, g)
    /\ \A n \in DOMAIN all : \/ all[n].guest <= cursor
                              \/ \E m \in DOMAIN new : all[n] = new[m]

(* Rows are appended: those of other guests make no guest appear twice. *)
LEMMA Appended ==
    ASSUME ExportAssumption, NEW old \in Seq(RowOf), NEW new \in Seq(RowOf), NEW cursor \in Nat,
           Distinct(old), Distinct(new),
           \A n \in DOMAIN old : old[n].guest <= cursor, \A n \in DOMAIN new : cursor < new[n].guest
    PROVE  AreAppended(old \o new, old, new, cursor)
<1>. DEFINE all == old \o new
<1>1. /\ all \in Seq(RowOf) /\ Len(all) = Len(old) + Len(new)
      /\ DOMAIN all = 1..(Len(old) + Len(new)) /\ Len(old) \in Nat /\ Len(new) \in Nat
      /\ DOMAIN old = 1..Len(old) /\ DOMAIN new = 1..Len(new)
    OBVIOUS
<1>2. \A n \in DOMAIN old : n \in DOMAIN all /\ all[n] = old[n]
    OBVIOUS
<1>3. \A n \in DOMAIN new : Len(old) + n \in DOMAIN all /\ all[Len(old) + n] = new[n]
    OBVIOUS
<1>4. \A n \in DOMAIN all : n \in DOMAIN old \/ \E m \in DOMAIN new : n = Len(old) + m
    <2>. TAKE n \in DOMAIN all
    <2>1. CASE n <= Len(old)
        BY <1>1, <2>1
    <2>2. CASE ~(n <= Len(old))
        <3>1. n - Len(old) \in DOMAIN new /\ n = Len(old) + (n - Len(old))
            BY <1>1, <2>2
        <3>. QED BY <3>1
    <2>. QED BY <2>1, <2>2
<1>. HIDE DEF all
<1>5. \A n \in DOMAIN old : old[n].guest \in Nat
    <2>. TAKE n \in DOMAIN old
    <2>0. old[n] \in RowOf
        OBVIOUS
    <2>1. old[n].guest \in Guests
        BY <2>0 DEF RowOf
    <2>. QED BY <2>1, SomeGuests
<1>6. \A n \in DOMAIN new : new[n].guest \in Nat
    <2>. TAKE n \in DOMAIN new
    <2>0. new[n] \in RowOf
        OBVIOUS
    <2>1. new[n].guest \in Guests
        BY <2>0 DEF RowOf
    <2>. QED BY <2>1, SomeGuests
<1>7. Distinct(all)
    <2>. SUFFICES ASSUME NEW m \in DOMAIN all, NEW n \in DOMAIN all, all[m].guest = all[n].guest
                  PROVE  m = n
        BY DEF Distinct
    <2>1. CASE m \in DOMAIN old /\ n \in DOMAIN old
        BY <1>2, <2>1 DEF Distinct
    <2>2. CASE m \in DOMAIN old /\ n \notin DOMAIN old
        <3>1. PICK k \in DOMAIN new : n = Len(old) + k
            BY <1>4, <2>2
        <3>2. all[n].guest = new[k].guest /\ all[m].guest = old[m].guest
            BY <1>2, <1>3, <2>2, <3>1
        <3>3. /\ old[m].guest <= cursor /\ cursor < new[k].guest
              /\ old[m].guest \in Nat /\ new[k].guest \in Nat
            BY <1>5, <1>6, <2>2
        <3>4. old[m].guest = new[k].guest
            BY <3>2
        <3>. QED BY <3>3, <3>4
    <2>3. CASE m \notin DOMAIN old /\ n \in DOMAIN old
        <3>1. PICK k \in DOMAIN new : m = Len(old) + k
            BY <1>4, <2>3
        <3>2. all[m].guest = new[k].guest /\ all[n].guest = old[n].guest
            BY <1>2, <1>3, <2>3, <3>1
        <3>3. /\ old[n].guest <= cursor /\ cursor < new[k].guest
              /\ old[n].guest \in Nat /\ new[k].guest \in Nat
            BY <1>5, <1>6, <2>3
        <3>4. old[n].guest = new[k].guest
            BY <3>2
        <3>. QED BY <3>3, <3>4
    <2>4. CASE m \notin DOMAIN old /\ n \notin DOMAIN old
        <3>1. PICK k \in DOMAIN new : m = Len(old) + k
            BY <1>4, <2>4
        <3>2. PICK l \in DOMAIN new : n = Len(old) + l
            BY <1>4, <2>4
        <3>3. k = l
            BY <1>3, <3>1, <3>2 DEF Distinct
        <3>. QED BY <3>1, <3>2, <3>3
    <2>. QED BY <2>1, <2>2, <2>3, <2>4
<1>8. ASSUME NEW g, HasRow(old, g) \/ HasRow(new, g) PROVE HasRow(all, g)
    BY <1>2, <1>3, <1>8 DEF HasRow
<1>9. ASSUME NEW n \in DOMAIN all
      PROVE  all[n].guest <= cursor \/ \E m \in DOMAIN new : all[n] = new[m]
    BY <1>2, <1>3, <1>4
<1>10. AreAppended(all, old, new, cursor)
    BY <1>1, <1>7, <1>8, <1>9 DEF AreAppended
<1>. QED BY <1>10 DEF all

(* The execution x with a page of rows, a cursor and a step *)
ListingWith(x, rows, cursor, step) ==
    [x EXCEPT !.file.rows = @ \o rows, !.cursor = cursor, !.step = step]

IsListing(new, x, rows, cursor, step) ==
    /\ new \in Builder /\ new.step = step /\ new.job = x.job /\ new.cursor = cursor
    /\ new.steady = x.steady /\ new.file.rows = x.file.rows \o rows

(* keeps the rest.                                                         *)
LEMMA ListingWritten ==
    ASSUME NEW x \in Builder, NEW rows \in Seq(RowOf), NEW cursor \in Nat, NEW step \in {"STORE", "LIST"}
    PROVE  IsListing(ListingWith(x, rows, cursor, step), x, rows, cursor, step)
<1>0. x.file \in File /\ x.file.rows \in Seq(RowOf) /\ x.file.rows \o rows \in Seq(RowOf)
    BY DEF Builder, File, RowOf
<1>. DEFINE file == [x.file EXCEPT !.rows = x.file.rows \o rows]
            first == [x EXCEPT !.file = file]
            second == [first EXCEPT !.cursor = cursor]
            third == [second EXCEPT !.step = step]
<1>1. file \in File /\ file.rows = x.file.rows \o rows
    BY <1>0 DEF File, RowOf
<1>2. ListingWith(x, rows, cursor, step) = third
    BY DEF ListingWith
<1>. HIDE DEF file
<1>3. first \in Builder /\ first.job = x.job /\ first.steady = x.steady /\ first.file = file
    BY <1>1 DEF Builder
<1>. HIDE DEF first
<1>4. /\ second \in Builder /\ second.job = x.job /\ second.steady = x.steady /\ second.file = file
      /\ second.cursor = cursor
    BY <1>3 DEF Builder
<1>. HIDE DEF second
<1>5. /\ third \in Builder /\ third.job = x.job /\ third.steady = x.steady /\ third.file = file
      /\ third.cursor = cursor /\ third.step = step
    BY <1>4 DEF Builder
<1>. HIDE DEF third
<1>. QED BY <1>1, <1>2, <1>5 DEF IsListing

(* The execution x after its next page. *)
PageOf(x) == InOrder(Page(x.job, x.cursor, Len(x.file.rows)))
NextListing(x) ==
    ListingWith(x, PageRows(x.job, x.cursor, Len(x.file.rows)),
                IF PageOf(x) = <<>> THEN x.cursor ELSE LastOf(x.job, x.cursor, Len(x.file.rows)),
                IF Len(PageOf(x)) < PageSize THEN "STORE" ELSE "LIST")

(* A listing goes on with a page, or ends with it. *)
LEMMA ListingGoesOn ==
    ASSUME ExportAssumption, answer \in [Guests -> Answers], NEW x \in Builder,
           ListingOK(x), x.steady \subseteq Listable(x.job)
    PROVE  /\ NextListing(x) \in Builder /\ NextListing(x).step \in {"LIST", "STORE"}
           /\ NextListing(x).job = x.job /\ NextListing(x).steady = x.steady
           /\ NextListing(x).step = "LIST" => ListingOK(NextListing(x))
           /\ NextListing(x).step = "STORE" => ListedOK(NextListing(x))
<1>. DEFINE listed == Len(x.file.rows)
<1>a. PICK page, rows, cursor, step :
          /\ page = InOrder(Page(x.job, x.cursor, listed))
          /\ rows = PageRows(x.job, x.cursor, listed)
          /\ cursor = IF page = <<>> THEN x.cursor ELSE LastOf(x.job, x.cursor, listed)
          /\ step = IF Len(page) < PageSize THEN "STORE" ELSE "LIST"
    OBVIOUS
<1>. DEFINE new == ListingWith(x, rows, cursor, step)
            old == x.file.rows
<1>b. NextListing(x) = new
    BY <1>a DEF NextListing, PageOf
<1>0. x.cursor \in Nat /\ old \in Seq(RowOf) /\ x.steady \subseteq Guests
    BY DEF Builder, File, RowOf
<1>1. /\ rows \in Seq(RowOf) /\ Distinct(rows)
      /\ Len(page) \in Nat /\ (page # <<>> => LastOf(x.job, x.cursor, listed) \in Nat)
      /\ page = <<>> => rows = <<>>
      /\ \A n \in DOMAIN rows : x.cursor < rows[n].guest
      /\ page # <<>> => /\ x.cursor < LastOf(x.job, x.cursor, listed)
                        /\ \A n \in DOMAIN rows : rows[n].guest <= LastOf(x.job, x.cursor, listed)
                        /\ \A g \in Listable(x.job) :
                              g > x.cursor /\ g <= LastOf(x.job, x.cursor, listed) => HasRow(rows, g)
      /\ Len(page) < PageSize => \A g \in Listable(x.job) : g > x.cursor => HasRow(rows, g)
    BY <1>0, <1>a, NextPage
<1>. HIDE DEF listed, old
<1>2. cursor \in Nat /\ step \in {"STORE", "LIST"}
    BY <1>0, <1>a, <1>1
<1>3. /\ new \in Builder /\ new.step = step /\ new.job = x.job /\ new.cursor = cursor
      /\ new.steady = x.steady /\ new.file.rows = old \o rows
    <2>1. rows \in Seq(RowOf)
        BY <1>1
    <2>2. IsListing(new, x, rows, cursor, step)
        BY <1>2, <2>1, ListingWritten
    <2>. HIDE DEF new
    <2>. QED BY <2>2 DEF IsListing, old
<1>4. /\ Distinct(old) /\ \A n \in DOMAIN old : old[n].guest <= x.cursor
      /\ \A g \in x.steady : g <= x.cursor => HasRow(old, g)
    BY DEF ListingOK, old
<1>5. /\ old \o rows \in Seq(RowOf) /\ Distinct(old \o rows)
      /\ \A g : HasRow(old, g) \/ HasRow(rows, g) => HasRow(old \o rows, g)
      /\ \A n \in DOMAIN (old \o rows) : \/ (old \o rows)[n].guest <= x.cursor
                                         \/ \E m \in DOMAIN rows : (old \o rows)[n] = rows[m]
    <2>1. AreAppended(old \o rows, old, rows, x.cursor)
        BY <1>0, <1>1, <1>4, Appended
    <2>. QED BY <2>1 DEF AreAppended
<1>6. \A g \in x.steady : g \in Nat /\ g \in Listable(x.job)
    <2>. TAKE g \in x.steady
    <2>1. g \in Guests
        BY <1>0
    <2>. QED BY <2>1, SomeGuests
<1>7. ASSUME Len(page) < PageSize, NEW g \in x.steady PROVE HasRow(old \o rows, g)
    <2>1. g <= x.cursor \/ g > x.cursor
        BY <1>0, <1>6
    <2>. QED BY <1>1, <1>4, <1>5, <1>6, <1>7, <2>1
<1>8. ASSUME ~(Len(page) < PageSize) PROVE page # <<>>
    <2>1. PageSize \in Nat \ {0}
        BY DEF ExportAssumption
    <2>2. Len(<<>>) = 0
        OBVIOUS
    <2>. QED BY <1>8, <2>1, <2>2
<1>9. ASSUME page # <<>> PROVE ListingOK(new)
    <2>1. cursor = LastOf(x.job, x.cursor, listed)
        BY <1>a, <1>9
    <2>2. \A n \in DOMAIN (old \o rows) : (old \o rows)[n].guest <= cursor
        <3>. TAKE n \in DOMAIN (old \o rows)
        <3>1. CASE (old \o rows)[n].guest <= x.cursor
            <4>0. (old \o rows)[n] \in RowOf
                BY <1>5
            <4>1. (old \o rows)[n].guest \in Guests
                BY <4>0 DEF RowOf
            <4>2. (old \o rows)[n].guest \in Nat
                BY <4>1, SomeGuests
            <4>3. x.cursor < cursor /\ x.cursor \in Nat /\ cursor \in Nat
                BY <1>0, <1>1, <1>2, <1>9, <2>1
            <4>. QED BY <3>1, <4>2, <4>3
        <3>2. CASE \E m \in DOMAIN rows : (old \o rows)[n] = rows[m]
            BY <1>1, <1>9, <2>1, <3>2
        <3>. QED BY <1>5, <3>1, <3>2
    <2>3. ASSUME NEW g \in x.steady, g <= cursor PROVE HasRow(old \o rows, g)
        <3>1. g <= x.cursor \/ g > x.cursor
            BY <1>0, <1>6
        <3>. QED BY <1>1, <1>4, <1>5, <1>6, <1>9, <2>1, <2>3, <3>1
    <2>. HIDE DEF new
    <2>. QED BY <1>3, <1>5, <2>2, <2>3 DEF ListingOK
<1>10. ASSUME Len(page) < PageSize PROVE ListedOK(new)
    <2>. HIDE DEF new
    <2>. QED BY <1>3, <1>5, <1>7, <1>10 DEF ListedOK
<1>11. (step = "LIST" => ListingOK(new)) /\ (step = "STORE" => ListedOK(new))
    BY <1>a, <1>8, <1>9, <1>10
<1>. HIDE DEF new
<1>12. (new.step = "LIST" => ListingOK(new)) /\ (new.step = "STORE" => ListedOK(new))
    BY <1>3, <1>11
<1>. QED BY <1>b, <1>2, <1>3, <1>12

-----------------------------------------------------------------------------
(* What a step leaves as it is. *)

(* The status of a request, but for its completion, only goes on. *)
GoesOn(j) == \/ job[j].status = "ABSENT"
             \/ job'[j].status \in {job[j].status, "PROCESSING", "FAILED"}

(* What executions know is still so. *)
LEMMA OthersKept ==
    ASSUME ExportInv, UNCHANGED answer, NEW W \in SUBSET Workers,
           \A v \in W : exec'[v] = exec[v],
           \A v \in W : exec[v] # Idle => \/ GoesOn(exec[v].job)
                                          \/ ~Claimed(v) /\ job'[exec[v].job].status # "ABSENT"
    PROVE  \A v \in W : ExecutionOK(v)'
<1>. TAKE v \in W
<1>0. ExecutionOK(v) /\ exec'[v] = exec[v]
    BY DEF ExportInv, ExecsInv
<1>1. SUFFICES ASSUME exec[v] # Idle PROVE ExecutionOK(v)'
    BY <1>0 DEF ExecutionOK
<1>. DEFINE x == exec[v]  before == job[x.job].status  after == job'[x.job].status
<1>2. \/ before = "ABSENT" \/ after \in {before, "PROCESSING", "FAILED"}
      \/ ~Claimed(v) /\ after # "ABSENT"
    BY <1>1 DEF GoesOn
<1>3. /\ x \in Waiter \cup Builder /\ before # "ABSENT"
      /\ Claimed(v) => before # "QUEUED"
      /\ x.step \in {"LIST", "STORE", "PUBLISH"} => before \in {"PROCESSING", "FAILED"}
      /\ x.step = "LIST" => ListingOK(x) /\ x.steady \subseteq Listable(x.job)
      /\ x.step = "STORE" => ListedOK(x)
    BY <1>0, <1>1 DEF ExecutionOK
<1>4. /\ after # "ABSENT" /\ (Claimed(v) => after # "QUEUED")
      /\ x.step \in {"LIST", "STORE", "PUBLISH"} => after \in {"PROCESSING", "FAILED"}
    BY <1>2, <1>3 DEF Claimed
<1>5. Listable(x.job)' = Listable(x.job)'
    OBVIOUS
<1>6. x.step = "LIST" => exec'[v].steady \subseteq Listable(exec[v].job)'
    BY <1>0, <1>3 DEF Listable
<1>. QED BY <1>0, <1>1, <1>3, <1>4, <1>6 DEF ExecutionOK, Claimed

(* One worker changes what it executes. *)
LEMMA OneExecution ==
    ASSUME ExportInv, UNCHANGED answer, NEW w \in Workers, NEW x,
           exec' = [exec EXCEPT ![w] = x],
           \A j \in Jobs : GoesOn(j),
           ExecutionOK(w)',
           Claimed(w)' => Claimed(w) /\ exec'[w].job = exec[w].job
    PROVE  ExecsInv' /\ OneBuilder'
<1>1. DOMAIN exec' = Workers /\ \A v \in Workers \ {w} : exec'[v] = exec[v]
    BY DEF ExportInv, ExecsInv
<1>2. \A v \in Workers : exec[v] # Idle => exec[v].job \in Jobs
    BY DEF ExportInv, ExecsInv, ExecutionOK, Waiter, Builder
<1>3. \A v \in Workers \ {w} : ExecutionOK(v)'
    BY <1>1, <1>2, OthersKept
<1>4. ExecsInv'
    BY <1>1, <1>3 DEF ExecsInv
<1>5. OneBuilder'
    BY <1>1 DEF ExportInv, OneBuilder, Claimed
<1>. QED BY <1>4, <1>5

(* An execution ends. *)
LEMMA Ended ==
    ASSUME ExportInv, UNCHANGED answer, NEW w \in Workers, exec' = [exec EXCEPT ![w] = Idle],
           \A j \in Jobs : GoesOn(j)
    PROVE  ExecsInv' /\ OneBuilder'
<1>1. exec'[w] = Idle
    BY DEF ExportInv, ExecsInv
<1>2. ExecutionOK(w)'
    BY <1>1 DEF ExecutionOK
<1>3. ~Claimed(w)'
    BY <1>1 DEF Claimed, Idle
<1>. QED BY <1>2, <1>3, OneExecution

(* Requests whose rows stay go on. *)
LEMMA RequestsGoOn ==
    ASSUME UNCHANGED job PROVE \A j \in Jobs : GoesOn(j)
BY DEF GoesOn

(* No file is lost from sight. *)
LEMMA FilesSeen ==
    ASSUME ExportInv, strays \subseteq strays', strays' \subseteq File,
           objects' \subseteq objects \cup strays', Assets \subseteq Assets',
           \A v \in Workers : HasFile(v) =>
               \/ HasFile(v)' /\ exec'[v].file = exec[v].file
               \/ exec[v].file \in Assets' \cup strays'
               \/ exec[v].file \notin objects'
    PROVE  FilesInv'
<1>1. objects' \cup strays' \subseteq File
    BY DEF ExportInv, FilesInv
<1>2. ASSUME NEW f \in objects'
      PROVE  f \in Assets' \cup strays' \/ \E v \in Workers : HasFile(v)' /\ exec'[v].file = f
    <2>1. CASE f \in strays'
        BY <2>1
    <2>2. CASE f \in objects
        <3>1. f \in Assets \cup strays \/ \E v \in Workers : HasFile(v) /\ exec[v].file = f
            BY <2>2 DEF ExportInv, FilesInv, NoFileLeftBehind
        <3>. QED BY <1>2, <3>1
    <2>. QED BY <1>2, <2>1, <2>2
<1>3. NoFileLeftBehind'
    BY <1>2 DEF NoFileLeftBehind, HasFile
<1>. QED BY <1>1, <1>3 DEF FilesInv

(* One execution that holds no file changes, and no file does. *)
LEMMA FilesStay ==
    ASSUME ExportInv, UNCHANGED <<objects, strays>>, Assets \subseteq Assets',
           NEW w \in Workers, \A v \in Workers \ {w} : exec'[v] = exec[v],
           HasFile(w) => HasFile(w)' /\ exec'[w].file = exec[w].file
    PROVE  FilesInv'
<1>1. \A v \in Workers : HasFile(v) => HasFile(v)' /\ exec'[v].file = exec[v].file
    BY DEF HasFile
<1>2. strays \subseteq strays' /\ strays' \subseteq File /\ objects' \subseteq objects \cup strays'
    BY DEF ExportInv, FilesInv
<1>. QED BY <1>1, <1>2, FilesSeen

(* Neither the executions nor the files change. *)
LEMMA WorkersWait ==
    ASSUME ExportInv, UNCHANGED <<exec, answer, objects, strays>>,
           Assets \subseteq Assets', \A j \in Jobs : GoesOn(j)
    PROVE  ExecsInv' /\ OneBuilder' /\ FilesInv'
<1>1. \A v \in Workers : exec[v] # Idle => exec[v].job \in Jobs
    BY DEF ExportInv, ExecsInv, ExecutionOK, Waiter, Builder
<1>2. \A v \in Workers : ExecutionOK(v)'
    BY <1>1, OthersKept
<1>3. ExecsInv'
    BY <1>2 DEF ExportInv, ExecsInv
<1>4. OneBuilder'
    BY DEF ExportInv, OneBuilder, Claimed
<1>5. FilesInv'
    <2>1. \A v \in Workers : HasFile(v) => HasFile(v)' /\ exec'[v].file = exec[v].file
        BY DEF HasFile
    <2>2. strays \subseteq strays' /\ strays' \subseteq File /\ objects' \subseteq objects \cup strays'
        BY DEF ExportInv, FilesInv
    <2>. QED BY <2>1, <2>2, FilesSeen
<1>. QED BY <1>3, <1>4, <1>5

(* The queue job of an execution that ends or throws is released if it is  *)
(* still its own.                                                          *)
LEMMA Released ==
    ASSUME ExportAssumption, RowsInv, NEW w \in Workers, exec[w].job \in Jobs,
           queue' = Finished(w, queue) \/ queue' = Thrown(w, queue)
    PROVE  /\ queue' \in [Jobs -> QueueRow]
           /\ \A j \in Jobs : QueueJobOK(j)' /\ (queue'[j].state = "ABSENT" <=> queue[j].state = "ABSENT")
           /\ \A j \in Jobs \ {exec[w].job} : queue'[j] = queue[j]
<1>. DEFINE i == exec[w].job
<1>0. /\ queue \in [Jobs -> QueueRow] /\ queue[i] \in QueueRow /\ QueueJobOK(i)
      /\ Attempts \in Nat \ {0} /\ None \notin Workers
    BY DEF RowsInv, ExportAssumption
<1>1. CASE ~HoldsLock(w, i)
    <2>1. queue' = queue
        BY <1>1 DEF Finished, Thrown
    <2>. QED BY <1>0, <2>1 DEF RowsInv, QueueJobOK
<1>2. CASE HoldsLock(w, i)
    <2>1. queue[i].state = "ACTIVE" /\ queue[i].tries \in Nat /\ queue[i].tries < Attempts
        BY <1>0, <1>2 DEF HoldsLock, QueueJobOK, QueueRow
    <2>2. PICK new : /\ queue' = [queue EXCEPT ![i] = new]
                     /\ new \in QueueRow /\ new.state \in {"WAITING", "DONE"} /\ new.holder = None
                     /\ new.state = "WAITING" => new.tries < Attempts
        <3>1. CASE queue' = Finished(w, queue)
            <4>. DEFINE first == [queue[i] EXCEPT !.state = "DONE"]
                        second == [first EXCEPT !.holder = None]
            <4>1. queue' = [queue EXCEPT ![i] = second]
                BY <1>2, <3>1 DEF Finished
            <4>2. first \in QueueRow /\ first.state = "DONE"
                BY <1>0 DEF QueueRow
            <4>. HIDE DEF first
            <4>3. second \in QueueRow /\ second.state = "DONE" /\ second.holder = None
                BY <4>2 DEF QueueRow
            <4>. HIDE DEF second
            <4>. QED BY <4>1, <4>3
        <3>2. CASE queue' = Thrown(w, queue)
            <4>. DEFINE s == IF queue[i].tries + 1 < Attempts THEN "WAITING" ELSE "DONE"
                        n == queue[i].tries + 1
                        first == [queue[i] EXCEPT !.tries = n]
                        second == [first EXCEPT !.holder = None]
                        third == [second EXCEPT !.state = s]
            <4>1. queue' = [queue EXCEPT ![i] = third]
                BY <1>2, <3>2 DEF Thrown
            <4>2. s \in {"WAITING", "DONE"} /\ (s = "WAITING" => n < Attempts) /\ n \in 0..Attempts
                BY <1>0, <2>1
            <4>. HIDE DEF s, n
            <4>3. first \in QueueRow /\ first.tries = n
                BY <1>0, <4>2 DEF QueueRow
            <4>. HIDE DEF first
            <4>4. second \in QueueRow /\ second.tries = n /\ second.holder = None
                BY <4>3 DEF QueueRow
            <4>. HIDE DEF second
            <4>5. third \in QueueRow /\ third.tries = n /\ third.holder = None /\ third.state = s
                BY <4>2, <4>4 DEF QueueRow
            <4>. HIDE DEF third
            <4>. QED BY <4>1, <4>2, <4>5
        <3>. QED BY <3>1, <3>2
    <2>6. queue' \in [Jobs -> QueueRow] /\ queue'[i] = new /\ \A j \in Jobs \ {i} : queue'[j] = queue[j]
        BY <1>0, <2>2
    <2>7. ASSUME NEW j \in Jobs
          PROVE  QueueJobOK(j)' /\ (queue'[j].state = "ABSENT" <=> queue[j].state = "ABSENT")
        <3>1. CASE j = i
            BY <1>0, <2>1, <2>2, <2>6, <3>1 DEF QueueJobOK
        <3>2. CASE j # i
            BY <2>6, <3>2 DEF RowsInv, QueueJobOK
        <3>. QED BY <3>1, <3>2
    <2>. QED BY <2>6, <2>7
<1>. QED BY <1>1, <1>2

(* The rows of the requests stay, and the queue keeps what it has. *)
LEMMA RowsStay ==
    ASSUME RowsInv, UNCHANGED <<job, api, notices>>,
           queue' \in [Jobs -> QueueRow],
           \A j \in Jobs : QueueJobOK(j)' /\ (queue'[j].state = "ABSENT" <=> queue[j].state = "ABSENT")
    PROVE  RowsInv' /\ Assets \subseteq Assets' /\ \A j \in Jobs : GoesOn(j)
<1>1. ASSUME NEW j \in Jobs PROVE RequestOK(j)'
    BY DEF RowsInv, RequestOK
<1>2. Assets' = Assets
    BY DEF Assets
<1>. QED BY <1>1, <1>2, RequestsGoOn DEF RowsInv

(* Nothing of the requests changes. *)
LEMMA RowsUntouched ==
    ASSUME RowsInv, UNCHANGED <<job, api, notices, queue>>
    PROVE  RowsInv' /\ Assets \subseteq Assets' /\ \A j \in Jobs : GoesOn(j)
<1>1. \A j \in Jobs : QueueJobOK(j)'
    BY DEF RowsInv, QueueJobOK
<1>. QED BY <1>1, RowsStay DEF RowsInv

-----------------------------------------------------------------------------
(* The API and the queue. *)

(* One request is written: what is known of it must be known of it again. *)
LEMMA OneRequest ==
    ASSUME RowsInv, NEW j \in Jobs,
           job' \in [Jobs -> RequestRow], api' \in [Jobs -> {"ENQUEUE", "MARK", "DONE"}],
           notices' \in [Jobs -> SUBSET {"EXPORT_READY", "EXPORT_FAILED"}], queue' \in [Jobs -> QueueRow],
           \A i \in Jobs \ {j} : /\ job'[i] = job[i] /\ api'[i] = api[i]
                                 /\ notices'[i] = notices[i] /\ queue'[i] = queue[i],
           QueueJobOK(j)', RequestOK(j)',
           job'[j].asset # None => \A i \in Jobs \ {j} : job[i].asset # job'[j].asset
    PROVE  RowsInv'
<1>1. ASSUME NEW i \in Jobs PROVE QueueJobOK(i)' /\ RequestOK(i)'
    <2>1. CASE i = j
        BY <2>1
    <2>2. CASE i # j
        BY <2>2 DEF RowsInv, QueueJobOK, RequestOK
    <2>. QED BY <2>1, <2>2
<1>2. ASSUME NEW i \in Jobs, NEW k \in Jobs, i # k, job'[i].asset = job'[k].asset
      PROVE  job'[i].asset = None
    <2>1. CASE i # j /\ k # j
        BY <1>2, <2>1 DEF RowsInv
    <2>2. CASE i = j \/ k = j
        BY <1>2, <2>2
    <2>. QED BY <2>1, <2>2
<1>. QED BY <1>1, <1>2 DEF RowsInv

(* A request that is not completed, before or after, gets a status. *)
LEMMA StatusWritten ==
    ASSUME RowsInv, NEW j \in Jobs, NEW s \in Statuses \ {"COMPLETED"}, job[j].status # "COMPLETED",
           job' = [job EXCEPT ![j].status = s]
    PROVE  /\ job' \in [Jobs -> RequestRow]
           /\ job'[j].status = s /\ job'[j].asset = None /\ job[j].asset = None
           /\ \A i \in Jobs \ {j} : job'[i] = job[i]
           /\ Assets \subseteq Assets'
           /\ s \in {"PROCESSING", "FAILED"} \/ job[j].status = "ABSENT" => \A i \in Jobs : GoesOn(i)
<1>0. job \in [Jobs -> RequestRow] /\ job[j] \in RequestRow /\ job[j].asset = None
    BY DEF RowsInv, RequestOK
<1>. DEFINE new == [job[j] EXCEPT !.status = s]
<1>1. new \in RequestRow /\ new.status = s /\ new.asset = job[j].asset
    BY <1>0 DEF RequestRow
<1>2. job' = [job EXCEPT ![j] = new]
    OBVIOUS
<1>. HIDE DEF new
<1>3. job' \in [Jobs -> RequestRow] /\ job'[j] = new /\ \A i \in Jobs \ {j} : job'[i] = job[i]
    BY <1>0, <1>1, <1>2
<1>4. \A i \in Jobs : job'[i].asset = job[i].asset
    BY <1>1, <1>3
<1>5. Assets \subseteq Assets'
    BY <1>4 DEF Assets
<1>6. s \in {"PROCESSING", "FAILED"} \/ job[j].status = "ABSENT" => \A i \in Jobs : GoesOn(i)
    BY <1>1, <1>3 DEF GoesOn
<1>. QED BY <1>0, <1>1, <1>3, <1>5, <1>6

(* A request is saved. *)
LEMMA CreateRequestStep ==
    ASSUME ExportAssumption, ExportInv, NEW j \in Jobs, Create(j)
    PROVE  ExportInv'
<1>0. RowsInv /\ RequestOK(j) /\ QueueJobOK(j) /\ job[j].status = "ABSENT"
    BY DEF Create, ExportInv, RowsInv
<1>1. /\ job' \in [Jobs -> RequestRow]
      /\ job'[j].status = "QUEUED" /\ job'[j].asset = None
      /\ \A i \in Jobs \ {j} : job'[i] = job[i]
      /\ Assets \subseteq Assets' /\ \A i \in Jobs : GoesOn(i)
    BY <1>0, StatusWritten DEF Create, Statuses
<1>2. /\ api' \in [Jobs -> {"ENQUEUE", "MARK", "DONE"}] /\ api'[j] = "ENQUEUE"
      /\ \A i \in Jobs \ {j} : api'[i] = api[i]
    BY <1>0 DEF Create, RowsInv
<1>3. QueueJobOK(j)' /\ RequestOK(j)'
    BY <1>0, <1>1, <1>2 DEF QueueJobOK, RequestOK, Create
<1>4. RowsInv'
    BY <1>0, <1>1, <1>2, <1>3, OneRequest DEF Create, RowsInv
<1>5. ExecsInv' /\ OneBuilder' /\ FilesInv'
    BY <1>1, WorkersWait DEF Create
<1>. QED BY <1>4, <1>5 DEF Create, ExportInv

(* What the API still has to do changes; the request does not. *)
LEMMA ApiGoesOn ==
    ASSUME RowsInv, NEW j \in Jobs, NEW todo \in {"MARK", "DONE"}, api[j] # "DONE",
           api' = [api EXCEPT ![j] = todo],
           UNCHANGED <<job, notices>>, queue' = queue \/ (api[j] = "ENQUEUE" /\ Added(j)),
           ExportAssumption
    PROVE  RowsInv' /\ Assets \subseteq Assets' /\ \A i \in Jobs : GoesOn(i)
<1>0. /\ RequestOK(j) /\ QueueJobOK(j) /\ queue \in [Jobs -> QueueRow] /\ job[j].status # "ABSENT"
      /\ None \notin Workers
    BY DEF RowsInv, RequestOK, ExportAssumption
<1>1. /\ api' \in [Jobs -> {"ENQUEUE", "MARK", "DONE"}] /\ api'[j] = todo
      /\ \A i \in Jobs \ {j} : api'[i] = api[i]
    BY DEF RowsInv
<1>2. /\ queue' \in [Jobs -> QueueRow] /\ QueueJobOK(j)'
      /\ \A i \in Jobs \ {j} : queue'[i] = queue[i]
    <2>1. CASE queue' = queue
        BY <1>0, <2>1 DEF QueueJobOK
    <2>2. CASE api[j] = "ENQUEUE" /\ Added(j)
        <3>. DEFINE new == [queue[j] EXCEPT !.state = "WAITING"]
        <3>1. queue[j].state = "ABSENT" /\ queue[j].holder = None /\ queue[j].tries < Attempts
            BY <1>0, <2>2 DEF RequestOK, QueueJobOK
        <3>2. /\ new \in QueueRow /\ new.state = "WAITING" /\ new.holder = queue[j].holder
              /\ new.tries = queue[j].tries
            BY <1>0 DEF QueueRow
        <3>3. queue' = [queue EXCEPT ![j] = new]
            BY <2>2 DEF Added
        <3>. HIDE DEF new
        <3>4. /\ queue' \in [Jobs -> QueueRow] /\ queue'[j] = new
              /\ \A i \in Jobs \ {j} : queue'[i] = queue[i]
            BY <1>0, <3>2, <3>3
        <3>. QED BY <3>1, <3>2, <3>4 DEF QueueJobOK
    <2>. QED BY <2>1, <2>2
<1>3. RequestOK(j)'
    BY <1>0, <1>1 DEF RequestOK
<1>4. job'[j].asset # None => \A i \in Jobs \ {j} : job[i].asset # job'[j].asset
    BY DEF RowsInv
<1>5. RowsInv'
    BY <1>1, <1>2, <1>3, <1>4, OneRequest DEF RowsInv
<1>6. Assets' = Assets
    BY DEF Assets
<1>. QED BY <1>5, <1>6, RequestsGoOn

(* The API enqueues the job, the add throws, or the process dies. *)
LEMMA ApiSteps ==
    ASSUME ExportAssumption, ExportInv, NEW j \in Jobs, Enqueue(j) \/ EnqueueThrows(j) \/ ApiDies(j)
    PROVE  ExportInv'
<1>0. RowsInv
    BY DEF ExportInv
<1>1. RowsInv' /\ Assets \subseteq Assets' /\ \A i \in Jobs : GoesOn(i)
    <2>1. CASE Enqueue(j)
        BY <1>0, <2>1, ApiGoesOn DEF Enqueue
    <2>2. CASE EnqueueThrows(j)
        BY <1>0, <2>2, ApiGoesOn DEF EnqueueThrows
    <2>3. CASE ApiDies(j)
        BY <1>0, <2>3, ApiGoesOn DEF ApiDies
    <2>. QED BY <2>1, <2>2, <2>3
<1>2. ExecsInv' /\ OneBuilder' /\ FilesInv'
    BY <1>1, WorkersWait DEF Enqueue, EnqueueThrows, ApiDies
<1>3. faults' \in 0..MaxFaults
    BY DEF Enqueue, EnqueueThrows, ApiDies, Fault, ExportInv, ExportAssumption
<1>. QED BY <1>1, <1>2, <1>3 DEF Enqueue, EnqueueThrows, ApiDies, ExportInv

(* A request that is still queued fails when its job could not be added. *)
LEMMA MarkQueueFailureStep ==
    ASSUME ExportAssumption, ExportInv, NEW j \in Jobs, MarkQueueFailure(j)
    PROVE  ExportInv'
<1>0. RowsInv /\ RequestOK(j) /\ QueueJobOK(j) /\ api[j] = "MARK"
    BY DEF MarkQueueFailure, ExportInv, RowsInv
<1>1. RowsInv' /\ Assets \subseteq Assets' /\ \A i \in Jobs : GoesOn(i)
    <2>1. CASE job[j].status = "QUEUED"
        <3>1. job' = [job EXCEPT ![j].status = "FAILED"]
            BY <2>1 DEF MarkQueueFailure
        <3>2. /\ job' \in [Jobs -> RequestRow]
              /\ job'[j].status = "FAILED" /\ job'[j].asset = None
              /\ \A i \in Jobs \ {j} : job'[i] = job[i]
              /\ Assets \subseteq Assets' /\ \A i \in Jobs : GoesOn(i)
            BY <1>0, <2>1, <3>1, StatusWritten DEF Statuses
        <3>3. /\ api' \in [Jobs -> {"ENQUEUE", "MARK", "DONE"}] /\ api'[j] = "DONE"
              /\ \A i \in Jobs \ {j} : api'[i] = api[i]
            BY <1>0 DEF MarkQueueFailure, RowsInv
        <3>4. QueueJobOK(j)' /\ RequestOK(j)'
            BY <1>0, <2>1, <3>2, <3>3 DEF QueueJobOK, RequestOK, MarkQueueFailure
        <3>5. RowsInv'
            BY <1>0, <3>2, <3>3, <3>4, OneRequest DEF MarkQueueFailure, RowsInv
        <3>. QED BY <3>2, <3>5
    <2>2. CASE job[j].status # "QUEUED"
        BY <1>0, <2>2, ApiGoesOn DEF MarkQueueFailure
    <2>. QED BY <2>1, <2>2
<1>2. ExecsInv' /\ OneBuilder' /\ FilesInv'
    BY <1>1, WorkersWait DEF MarkQueueFailure
<1>. QED BY <1>1, <1>2 DEF MarkQueueFailure, ExportInv

(* One queue job is written, which is neither before nor after absent. *)
LEMMA OneQueueJob ==
    ASSUME RowsInv, NEW j \in Jobs, NEW new \in QueueRow, queue' = [queue EXCEPT ![j] = new],
           UNCHANGED <<job, api, notices>>, queue[j].state # "ABSENT", new.state # "ABSENT",
           new.holder # None <=> new.state = "ACTIVE", new.state # "DONE" => new.tries < Attempts
    PROVE  RowsInv' /\ Assets \subseteq Assets' /\ \A i \in Jobs : GoesOn(i)
<1>1. /\ queue' \in [Jobs -> QueueRow] /\ queue'[j] = new
      /\ \A i \in Jobs \ {j} : queue'[i] = queue[i]
    BY DEF RowsInv
<1>2. ASSUME NEW i \in Jobs
      PROVE  QueueJobOK(i)' /\ (queue'[i].state = "ABSENT" <=> queue[i].state = "ABSENT")
    <2>1. CASE i = j
        BY <1>1, <2>1 DEF QueueJobOK
    <2>2. CASE i # j
        BY <1>1, <2>2 DEF RowsInv, QueueJobOK
    <2>. QED BY <2>1, <2>2
<1>. QED BY <1>1, <1>2, RowsStay

(* A worker takes a job: its request is saved. *)
LEMMA StartStep ==
    ASSUME ExportAssumption, ExportInv, NEW w \in Workers, NEW j \in Jobs, Start(w, j)
    PROVE  ExportInv'
<1>0. /\ RowsInv /\ RequestOK(j) /\ QueueJobOK(j) /\ queue \in [Jobs -> QueueRow] /\ queue[j] \in QueueRow
      /\ queue[j].state = "WAITING" /\ None \notin Workers
    BY DEF Start, ExportInv, RowsInv, ExportAssumption
<1>1. RowsInv' /\ Assets \subseteq Assets' /\ \A i \in Jobs : GoesOn(i)
    <2>. DEFINE first == [queue[j] EXCEPT !.state = "ACTIVE"]
                new == [first EXCEPT !.holder = w]
    <2>1. queue' = [queue EXCEPT ![j] = new]
        BY DEF Start
    <2>2. first \in QueueRow /\ first.state = "ACTIVE" /\ first.tries = queue[j].tries
        BY <1>0 DEF QueueRow
    <2>. HIDE DEF first
    <2>3. new \in QueueRow /\ new.state = "ACTIVE" /\ new.tries = queue[j].tries /\ new.holder = w
        BY <2>2 DEF QueueRow
    <2>. HIDE DEF new
    <2>4. new.holder # None /\ new.tries < Attempts
        BY <1>0, <2>3 DEF QueueJobOK
    <2>. QED BY <1>0, <2>1, <2>3, <2>4, OneQueueJob DEF Start
<1>2. ExecsInv' /\ OneBuilder'
    <2>. DEFINE x == [step |-> "CLAIM", job |-> j]
    <2>1. exec' = [exec EXCEPT ![w] = x]
        BY DEF Start
    <2>2. exec'[w] = x
        BY <2>1 DEF ExportInv, ExecsInv
    <2>3. x \in Waiter /\ x.step = "CLAIM" /\ x.job = j
        BY DEF Waiter
    <2>. HIDE DEF x
    <2>4. job'[j].status # "ABSENT"
        BY <1>0 DEF Start, RequestOK
    <2>5. ExecutionOK(w)'
        BY <2>2, <2>3, <2>4 DEF ExecutionOK, Claimed
    <2>6. ~Claimed(w)'
        BY <2>2, <2>3 DEF Claimed
    <2>. QED BY <1>1, <2>1, <2>5, <2>6, OneExecution DEF Start
<1>3. FilesInv'
    <2>1. \A v \in Workers \ {w} : exec'[v] = exec[v]
        BY DEF Start, ExportInv, ExecsInv
    <2>2. ~HasFile(w)
        BY DEF Start, HasFile, Idle
    <2>. QED BY <1>1, <2>1, <2>2, FilesStay DEF Start
<1>. QED BY <1>1, <1>2, <1>3 DEF Start, ExportInv

(* A lapsed lock takes the job from its holder. *)
LEMMA JobStallsStep ==
    ASSUME ExportAssumption, ExportInv, NEW j \in Jobs, JobStalls(j)
    PROVE  ExportInv'
<1>0. /\ RowsInv /\ QueueJobOK(j) /\ queue \in [Jobs -> QueueRow] /\ queue[j] \in QueueRow
      /\ queue[j].state = "ACTIVE"
    BY DEF JobStalls, ExportInv, RowsInv
<1>1. RowsInv' /\ Assets \subseteq Assets' /\ \A i \in Jobs : GoesOn(i)
    <2>. DEFINE s == IF queue[j].stalled THEN "DONE" ELSE "WAITING"
                first == [queue[j] EXCEPT !.holder = None]
                second == [first EXCEPT !.stalled = TRUE]
                new == [second EXCEPT !.state = s]
    <2>1. queue' = [queue EXCEPT ![j] = new]
        BY DEF JobStalls
    <2>2. s \in {"DONE", "WAITING"}
        OBVIOUS
    <2>. HIDE DEF s
    <2>3. first \in QueueRow /\ first.holder = None /\ first.tries = queue[j].tries
        BY <1>0 DEF QueueRow
    <2>. HIDE DEF first
    <2>4. second \in QueueRow /\ second.holder = None /\ second.tries = queue[j].tries
        BY <2>3 DEF QueueRow
    <2>. HIDE DEF second
    <2>5. new \in QueueRow /\ new.holder = None /\ new.tries = queue[j].tries /\ new.state = s
        BY <2>2, <2>4 DEF QueueRow
    <2>. HIDE DEF new
    <2>6. new.tries < Attempts
        BY <1>0, <2>5 DEF QueueJobOK
    <2>. QED BY <1>0, <2>1, <2>2, <2>5, <2>6, OneQueueJob DEF JobStalls
<1>2. ExecsInv' /\ OneBuilder' /\ FilesInv'
    BY <1>1, WorkersWait DEF JobStalls
<1>3. faults' \in 0..MaxFaults
    BY DEF JobStalls, Fault, ExportInv, ExportAssumption
<1>. QED BY <1>1, <1>2, <1>3 DEF JobStalls, ExportInv

-----------------------------------------------------------------------------
(* The worker. *)

(* An execution ends or throws, and writes nothing. *)
LEMMA Leaves ==
    ASSUME ExportAssumption, ExportInv, NEW w \in Workers, exec[w] # Idle,
           Ends(w) \/ Throws(w), UNCHANGED <<job, api, notices, answer>>
    PROVE  /\ RowsInv' /\ ExecsInv' /\ OneBuilder' /\ Assets \subseteq Assets'
           /\ ~HasFile(w)' /\ \A v \in Workers \ {w} : exec'[v] = exec[v]
<1>1. RowsInv /\ exec[w].job \in Jobs /\ exec' = [exec EXCEPT ![w] = Idle]
    BY DEF ExportInv, ExecsInv, ExecutionOK, Waiter, Builder, Ends, Throws
<1>2. RowsInv' /\ Assets \subseteq Assets' /\ \A i \in Jobs : GoesOn(i)
    BY <1>1, Released, RowsStay DEF Ends, Throws
<1>3. ExecsInv' /\ OneBuilder'
    BY <1>1, <1>2, Ended
<1>4. exec'[w] = Idle /\ \A v \in Workers \ {w} : exec'[v] = exec[v]
    BY <1>1 DEF ExportInv, ExecsInv
<1>5. ~HasFile(w)'
    BY <1>4 DEF HasFile, Idle
<1>. QED BY <1>2, <1>3, <1>4, <1>5

(* An execution that has no file yet may leave without a trace. *)
LEMMA LeavesEarly ==
    ASSUME ExportAssumption, ExportInv, NEW w \in Workers,
           exec[w].step \in {"CLAIM", "LIST", "STORE", "REVOKED", "FAIL"},
           Ends(w) \/ Throws(w), UNCHANGED <<job, api, notices, answer, objects, strays>>
    PROVE  RowsInv' /\ ExecsInv' /\ OneBuilder' /\ FilesInv'
<1>1. exec[w] # Idle /\ ~HasFile(w)
    BY DEF HasFile, Idle
<1>2. /\ RowsInv' /\ ExecsInv' /\ OneBuilder' /\ Assets \subseteq Assets'
      /\ \A v \in Workers \ {w} : exec'[v] = exec[v]
    BY <1>1, Leaves
<1>. QED BY <1>1, <1>2, FilesStay

(* The execution x at another step *)
AtStep(x, s) == [x EXCEPT !.step = s]

IsAtStep(new, x, s) ==
    /\ new.step = s /\ new.job = x.job
    /\ x \in Waiter /\ s \in {"CLAIM", "REVOKED", "FAIL"} => new \in Waiter
    /\ x \in Builder /\ s \in {"LIST", "STORE", "PUBLISH", "DISCARD", "DISCARD_AND_THROW"} =>
          new \in Builder /\ new.file = x.file /\ new.steady = x.steady

(* keeps the rest.                                                         *)
LEMMA AtStepKeeps ==
    ASSUME NEW x \in Waiter \cup Builder, NEW s
    PROVE  IsAtStep(AtStep(x, s), x, s)
<1>1. CASE x \in Waiter
    BY <1>1 DEF IsAtStep, AtStep, Waiter, Builder
<1>2. CASE x \in Builder
    BY <1>2 DEF IsAtStep, AtStep, Waiter, Builder
<1>. QED BY <1>1, <1>2

(* What is known of an execution that runs. *)
LEMMA Running ==
    ASSUME ExportInv, NEW w \in Workers, exec[w].step # "IDLE"
    PROVE  /\ exec[w] # Idle /\ ExecutionOK(w) /\ exec[w] \in Waiter \cup Builder
           /\ exec[w].job \in Jobs /\ RequestOK(exec[w].job) /\ job[exec[w].job].status # "ABSENT"
           /\ exec[w].step \in {"CLAIM", "REVOKED", "FAIL"} <=> exec[w] \in Waiter
           /\ Claimed(w) <=> exec[w] \in Builder
<1>1. exec[w] # Idle /\ ExecutionOK(w)
    BY DEF ExportInv, ExecsInv, Idle
<1>2. exec[w] \in Waiter \cup Builder /\ job[exec[w].job].status # "ABSENT"
    BY <1>1 DEF ExecutionOK
<1>3. exec[w].job \in Jobs
    BY <1>2 DEF Waiter, Builder
<1>4. exec[w] \in Waiter => exec[w].step \in {"CLAIM", "REVOKED", "FAIL"}
    BY DEF Waiter
<1>5. exec[w] \in Builder => exec[w].step \in {"LIST", "STORE", "PUBLISH", "DISCARD", "DISCARD_AND_THROW"}
    BY DEF Builder
<1>. QED BY <1>1, <1>2, <1>3, <1>4, <1>5 DEF ExportInv, RowsInv, Claimed

(* The request is already under way or over. *)
LEMMA ClaimSkippedStep ==
    ASSUME ExportAssumption, ExportInv, NEW w \in Workers, ClaimSkipped(w)
    PROVE  ExportInv'
<1>1. RowsInv' /\ ExecsInv' /\ OneBuilder' /\ FilesInv'
    BY LeavesEarly DEF ClaimSkipped
<1>. QED BY <1>1 DEF ClaimSkipped, ExportInv

(* An execution that has claimed nothing goes to another step. *)
LEMMA WaiterGoesOn ==
    ASSUME ExportAssumption, ExportInv, NEW w \in Workers, NEW s \in {"REVOKED", "FAIL"},
           exec[w].step \in {"CLAIM", "REVOKED"}, exec' = [exec EXCEPT ![w].step = s],
           UNCHANGED <<job, api, notices, queue, answer, objects, strays>>
    PROVE  RowsInv' /\ ExecsInv' /\ OneBuilder' /\ FilesInv'
<1>0. RowsInv /\ exec[w] \in Waiter /\ job[exec[w].job].status # "ABSENT"
    BY Running DEF ExportInv
<1>1. RowsInv' /\ Assets \subseteq Assets' /\ \A i \in Jobs : GoesOn(i)
    BY <1>0, RowsUntouched
<1>2. /\ exec' = [exec EXCEPT ![w] = AtStep(exec[w], s)]
      /\ exec'[w] = AtStep(exec[w], s) /\ \A v \in Workers \ {w} : exec'[v] = exec[v]
    BY DEF ExportInv, ExecsInv, AtStep
<1>3. IsAtStep(exec'[w], exec[w], s)
    BY <1>0, <1>2, AtStepKeeps
<1>4. exec'[w] \in Waiter /\ exec'[w].step = s /\ exec'[w].job = exec[w].job
    BY <1>0, <1>3 DEF IsAtStep
<1>5. ExecutionOK(w)'
    BY <1>0, <1>4 DEF ExecutionOK, Claimed
<1>6. ~Claimed(w)' /\ ~HasFile(w)
    BY <1>4 DEF Claimed, HasFile
<1>7. ExecsInv' /\ OneBuilder'
    BY <1>1, <1>2, <1>5, <1>6, OneExecution
<1>8. FilesInv'
    BY <1>1, <1>2, <1>6, FilesStay
<1>. QED BY <1>1, <1>7, <1>8

(* The requester may not export any more. *)
LEMMA ClaimRevokedStep ==
    ASSUME ExportAssumption, ExportInv, NEW w \in Workers, ClaimRevoked(w)
    PROVE  ExportInv'
<1>1. RowsInv' /\ ExecsInv' /\ OneBuilder' /\ FilesInv'
    BY WaiterGoesOn DEF ClaimRevoked
<1>. QED BY <1>1 DEF ClaimRevoked, ExportInv

(* A request that is over is left as it is, another is going to fail. *)
LEMMA ReadToFailStep ==
    ASSUME ExportAssumption, ExportInv, NEW w \in Workers, ReadToFail(w)
    PROVE  ExportInv'
<1>1. RowsInv' /\ ExecsInv' /\ OneBuilder' /\ FilesInv'
    <2>1. CASE Ends(w)
        BY <2>1, LeavesEarly DEF ReadToFail
    <2>2. CASE ~Ends(w)
        BY <2>2, WaiterGoesOn DEF ReadToFail
    <2>. QED BY <2>1, <2>2
<1>. QED BY <1>1 DEF ReadToFail, ExportInv

(* Another query fails. *)
LEMMA QueryFailsStep ==
    ASSUME ExportAssumption, ExportInv, NEW w \in Workers, QueryFails(w)
    PROVE  ExportInv'
<1>1. RowsInv' /\ ExecsInv' /\ OneBuilder' /\ FilesInv'
    BY LeavesEarly DEF QueryFails
<1>2. faults' \in 0..MaxFaults
    BY DEF QueryFails, Fault, ExportInv, ExportAssumption
<1>. QED BY <1>1, <1>2 DEF QueryFails, ExportInv

(* A listing begins before the first guest. *)
LEMMA NothingListed ==
    ASSUME ExportAssumption, NEW x, x.file.rows = <<>>, x.cursor = 0, x.steady \in SUBSET Guests
    PROVE  ListingOK(x)
<1>1. \A g \in x.steady : ~(g <= 0)
    <2>. TAKE g \in x.steady
    <2>1. g \in Guests /\ Guests = 1..Cardinality(Guests) /\ Cardinality(Guests) \in Nat
        BY SomeGuests DEF ExportAssumption
    <2>. QED BY <2>1
<1>2. DOMAIN x.file.rows = {}
    OBVIOUS
<1>. QED BY <1>1, <1>2 DEF ListingOK, Distinct

(* A request that is claimed has no other execution that claimed it, and its *)
(* listing begins before the first guest.                                  *)
LEMMA ClaimStep ==
    ASSUME ExportAssumption, ExportInv, NEW w \in Workers, Claim(w)
    PROVE  ExportInv'
<1>p. PICK j, s : j = exec[w].job /\ s = "PROCESSING"
    OBVIOUS
<1>u. /\ exec[w].step = "CLAIM" /\ job[j].status = "QUEUED" /\ job' = [job EXCEPT ![j].status = s]
      /\ UNCHANGED <<api, notices, objects, answer, access, queue, strays, changes, faults>>
    BY <1>p DEF Claim, Claimable
<1>. DEFINE file == [phones |-> access = "EXPORT_WITH_PHONES", rows |-> <<>>]
            x == [step |-> "LIST", job |-> j, cursor |-> 0, steady |-> Listable(j), file |-> file]
<1>3. exec' = [exec EXCEPT ![w] = x]
    BY <1>p DEF Claim
<1>. HIDE DEF x, file
<1>0. /\ RowsInv /\ j \in Jobs /\ RequestOK(j) /\ QueueJobOK(j) /\ ~Claimed(w) /\ ~HasFile(w)
    BY <1>p, <1>u, Running DEF Claimed, HasFile, ExportInv, RowsInv
<1>1. /\ job' \in [Jobs -> RequestRow]
      /\ job'[j].status = "PROCESSING" /\ job'[j].asset = None
      /\ \A i \in Jobs \ {j} : job'[i] = job[i]
      /\ Assets \subseteq Assets' /\ \A i \in Jobs : GoesOn(i)
    <2>1. s \in Statuses \ {"COMPLETED"} /\ job[j].status # "COMPLETED"
        BY <1>p, <1>u DEF Statuses
    <2>2. /\ job' \in [Jobs -> RequestRow]
          /\ job'[j].status = s /\ job'[j].asset = None
          /\ \A i \in Jobs \ {j} : job'[i] = job[i]
          /\ Assets \subseteq Assets'
          /\ s \in {"PROCESSING", "FAILED"} => \A i \in Jobs : GoesOn(i)
        BY <1>0, <1>u, <2>1, StatusWritten
    <2>. QED BY <1>p, <2>2
<1>2. RowsInv'
    <2>1. QueueJobOK(j)' /\ RequestOK(j)'
        BY <1>0, <1>1, <1>u DEF QueueJobOK, RequestOK
    <2>. QED BY <1>0, <1>1, <1>u, <2>1, OneRequest DEF RowsInv
<1>4. file \in File /\ file.rows = <<>>
    BY DEF File, file
<1>5. /\ x \in Builder /\ x.step = "LIST" /\ x.job = j /\ x.cursor = 0 /\ x.steady = Listable(j)
      /\ x.file = file
    BY <1>0, <1>4 DEF Builder, Listable, x
<1>6. exec'[w] = x /\ DOMAIN exec' = Workers /\ \A v \in Workers \ {w} : exec'[v] = exec[v]
    BY <1>3 DEF ExportInv, ExecsInv
<1>7. ListingOK(exec[w])'
    <2>1. Listable(j) \in SUBSET Guests
        BY DEF Listable
    <2>2. ListingOK(x)
        BY <1>4, <1>5, <2>1, NothingListed
    <2>3. ListingOK(exec'[w])
        BY <1>6, <2>2
    <2>. QED BY <2>3 DEF ListingOK
<1>8. Listable(j)' = Listable(j)
    BY <1>u DEF Listable
<1>9. ExecutionOK(w)'
    <2>1. Listable(exec[w].job)' = Listable(j)
        BY <1>5, <1>6, <1>8
    <2>. QED BY <1>1, <1>5, <1>6, <1>7, <2>1 DEF ExecutionOK, Claimed
<1>10. ExecsInv'
    <2>1. \A v \in Workers : exec[v] # Idle => exec[v].job \in Jobs
        BY DEF ExportInv, ExecsInv, ExecutionOK, Waiter, Builder
    <2>2. \A v \in Workers \ {w} : ExecutionOK(v)'
        BY <1>1, <1>6, <1>u, <2>1, OthersKept
    <2>. QED BY <1>6, <1>9, <2>2 DEF ExecsInv
<1>11. OneBuilder'
    <2>1. ASSUME NEW v \in Workers \ {w}, Claimed(v)' PROVE exec'[v].job # exec'[w].job
        <3>1. Claimed(v) /\ exec'[v] = exec[v]
            BY <1>6, <2>1 DEF Claimed
        <3>2. job[exec[v].job].status # "QUEUED"
            BY <3>1 DEF ExportInv, ExecsInv, ExecutionOK, Claimed, Idle
        <3>. QED BY <1>5, <1>6, <1>u, <3>1, <3>2
    <2>2. ASSUME NEW u \in Workers \ {w}, NEW v \in Workers \ {w}, u # v, Claimed(u)', Claimed(v)'
          PROVE  exec'[u].job # exec'[v].job
        BY <1>6, <2>2 DEF Claimed, ExportInv, OneBuilder
    <2>. QED BY <2>1, <2>2 DEF OneBuilder
<1>12. FilesInv'
    BY <1>0, <1>1, <1>6, <1>u, FilesStay
<1>. QED BY <1>2, <1>10, <1>11, <1>12, <1>u DEF ExportInv

(* A builder goes to another step: its file is the same. *)
LEMMA BuilderAt ==
    ASSUME ExportInv, NEW w \in Workers, exec[w] \in Builder,
           NEW s \in {"PUBLISH", "DISCARD", "DISCARD_AND_THROW"}, exec' = [exec EXCEPT ![w].step = s],
           job'[exec[w].job].status \notin {"ABSENT", "QUEUED"},
           s = "PUBLISH" => job'[exec[w].job].status \in {"PROCESSING", "FAILED"}
    PROVE  /\ exec' = [exec EXCEPT ![w] = AtStep(exec[w], s)]
           /\ ExecutionOK(w)' /\ Claimed(w) /\ exec'[w].job = exec[w].job
           /\ HasFile(w)' /\ exec'[w].file = exec[w].file
           /\ DOMAIN exec' = Workers /\ \A v \in Workers \ {w} : exec'[v] = exec[v]
<1>1. /\ exec' = [exec EXCEPT ![w] = AtStep(exec[w], s)]
      /\ exec'[w] = AtStep(exec[w], s)
      /\ DOMAIN exec' = Workers /\ \A v \in Workers \ {w} : exec'[v] = exec[v]
    BY DEF ExportInv, ExecsInv, AtStep
<1>2. IsAtStep(exec'[w], exec[w], s)
    BY <1>1, AtStepKeeps
<1>3. exec'[w] \in Builder /\ exec'[w].step = s /\ exec'[w].job = exec[w].job /\ exec'[w].file = exec[w].file
    BY <1>2 DEF IsAtStep
<1>4. ExecutionOK(w)'
    BY <1>3 DEF ExecutionOK, Claimed
<1>5. Claimed(w) /\ HasFile(w)'
    BY <1>3 DEF Claimed, HasFile, Builder
<1>. QED BY <1>1, <1>3, <1>4, <1>5

(* A page is read and added to the file, *)
LEMMA PageIsListed ==
    ASSUME NEW w \in Workers, ListPage(w)
    PROVE  /\ exec[w].step = "LIST" /\ exec' = [exec EXCEPT ![w] = NextListing(exec[w])]
           /\ UNCHANGED <<job, api, notices, objects, answer, access, queue, strays, changes, faults>>
BY Zenon DEF ListPage, NextListing, ListingWith, PageOf, PageRows, LastOf

(* which changes nothing but the execution. *)
LEMMA ListPageStep ==
    ASSUME ExportAssumption, ExportInv, NEW w \in Workers, ListPage(w)
    PROVE  ExportInv'
<1>p. PICK x, new : x = exec[w] /\ new = NextListing(x)
    OBVIOUS
<1>u. /\ x.step = "LIST" /\ exec' = [exec EXCEPT ![w] = new]
      /\ UNCHANGED <<job, api, notices, objects, answer, access, queue, strays, changes, faults>>
    BY <1>p, PageIsListed
<1>0. /\ RowsInv /\ ExecutionOK(w) /\ x \in Builder /\ Claimed(w) /\ ~HasFile(w) /\ x # Idle
      /\ ListingOK(x) /\ x.steady \subseteq Listable(x.job)
      /\ job[x.job].status \in {"PROCESSING", "FAILED"}
    BY <1>p, <1>u, Running DEF ExecutionOK, Claimed, HasFile, ExportInv
<1>1. RowsInv' /\ Assets \subseteq Assets' /\ \A i \in Jobs : GoesOn(i)
    BY <1>0, <1>u, RowsUntouched
<1>2. /\ new \in Builder /\ new.step \in {"LIST", "STORE"} /\ new.job = x.job /\ new.steady = x.steady
      /\ new.step = "LIST" => ListingOK(new)
      /\ new.step = "STORE" => ListedOK(new)
    <2>1. answer \in [Guests -> Answers]
        BY DEF ExportInv
    <2>. QED BY <1>0, <1>p, <2>1, ListingGoesOn
<1>3. exec'[w] = new /\ \A v \in Workers \ {w} : exec'[v] = exec[v]
    BY <1>u DEF ExportInv, ExecsInv
<1>4. ExecutionOK(w)'
    <2>1. Listable(exec[w].job)' = Listable(x.job)
        BY <1>2, <1>3, <1>u DEF Listable
    <2>2. job'[exec'[w].job].status \in {"PROCESSING", "FAILED"}
        BY <1>0, <1>2, <1>3, <1>u
    <2>. QED BY <1>0, <1>2, <1>3, <2>1, <2>2 DEF ExecutionOK, Claimed
<1>5. ExecsInv' /\ OneBuilder'
    <2>1. exec'[w].job = exec[w].job
        BY <1>p, <1>2, <1>3
    <2>. QED BY <1>0, <1>1, <1>u, <1>4, <2>1, OneExecution
<1>6. FilesInv'
    BY <1>0, <1>1, <1>3, <1>u, FilesStay
<1>. QED BY <1>1, <1>5, <1>6, <1>u DEF ExportInv

(* A file is stored: its execution holds it. *)
LEMMA StoreFileStep ==
    ASSUME ExportAssumption, ExportInv, NEW w \in Workers, StoreFile(w)
    PROVE  ExportInv'
<1>0. /\ RowsInv /\ exec[w] \in Builder /\ ~HasFile(w)
      /\ job[exec[w].job].status \in {"PROCESSING", "FAILED"}
    BY Running DEF StoreFile, ExecutionOK, Claimed, HasFile, ExportInv
<1>1. RowsInv' /\ Assets \subseteq Assets' /\ \A i \in Jobs : GoesOn(i)
    BY <1>0, RowsUntouched DEF StoreFile
<1>2. /\ exec' = [exec EXCEPT ![w] = AtStep(exec[w], "PUBLISH")]
      /\ ExecutionOK(w)' /\ Claimed(w) /\ exec'[w].job = exec[w].job
      /\ HasFile(w)' /\ exec'[w].file = exec[w].file
      /\ \A v \in Workers \ {w} : exec'[v] = exec[v]
    BY <1>0, BuilderAt DEF StoreFile
<1>3. ExecsInv' /\ OneBuilder'
    BY <1>1, <1>2, OneExecution DEF StoreFile
<1>4. FilesInv'
    <2>1. objects' = objects \cup {exec[w].file} /\ exec[w].file \in File
        BY <1>0 DEF StoreFile, Builder
    <2>2. ASSUME NEW f \in objects'
          PROVE  f \in Assets' \cup strays' \/ \E v \in Workers : HasFile(v)' /\ exec'[v].file = f
        <3>1. CASE f = exec[w].file
            BY <1>2, <3>1
        <3>2. CASE f \in objects
            <4>1. f \in Assets \cup strays \/ \E v \in Workers : HasFile(v) /\ exec[v].file = f
                BY <3>2 DEF ExportInv, FilesInv, NoFileLeftBehind
            <4>2. CASE f \in Assets \cup strays
                BY <1>1, <4>2 DEF StoreFile
            <4>3. CASE \E v \in Workers : HasFile(v) /\ exec[v].file = f
                BY <1>0, <1>2, <4>3 DEF HasFile
            <4>. QED BY <4>1, <4>2, <4>3
        <3>. QED BY <2>1, <3>1, <3>2
    <2>3. NoFileLeftBehind'
        BY <2>2 DEF NoFileLeftBehind, HasFile
    <2>. QED BY <2>1, <2>3 DEF FilesInv, ExportInv, StoreFile
<1>. QED BY <1>1, <1>3, <1>4 DEF StoreFile, ExportInv

(* A file that could not be stored is not there, or is a stray. *)
LEMMA StoreFailsStep ==
    ASSUME ExportAssumption, ExportInv, NEW w \in Workers, StoreFails(w)
    PROVE  ExportInv'
<1>0. exec[w] # Idle /\ exec[w] \in Builder /\ ~HasFile(w)
    BY Running DEF StoreFails, Claimed, HasFile
<1>1. /\ RowsInv' /\ ExecsInv' /\ OneBuilder' /\ Assets \subseteq Assets'
      /\ \A v \in Workers \ {w} : exec'[v] = exec[v]
    BY <1>0, Leaves DEF StoreFails
<1>2. FilesInv'
    <2>1. exec[w].file \in File
        BY <1>0 DEF Builder
    <2>2. strays \subseteq strays' /\ strays' \subseteq File /\ objects' \subseteq objects \cup strays'
        BY <2>1 DEF StoreFails, ExportInv, FilesInv
    <2>3. \A v \in Workers : HasFile(v) => HasFile(v)' /\ exec'[v].file = exec[v].file
        BY <1>0, <1>1 DEF HasFile
    <2>. QED BY <1>1, <2>2, <2>3, FilesSeen
<1>3. faults' \in 0..MaxFaults
    BY DEF StoreFails, Fault, ExportInv, ExportAssumption
<1>. QED BY <1>1, <1>2, <1>3 DEF StoreFails, ExportInv

(* A request is completed: it has the file of its execution. *)
LEMMA Published ==
    ASSUME ExportAssumption, ExportInv, NEW w \in Workers, exec[w].step = "PUBLISH", Publish(w),
           UNCHANGED api, queue' = queue \/ queue' = Finished(w, queue)
    PROVE  /\ RowsInv' /\ Assets \subseteq Assets' /\ exec[w].file \in Assets'
           /\ job'[exec[w].job].status = "COMPLETED"
           /\ \A i \in Jobs \ {exec[w].job} : job'[i] = job[i]
<1>. PICK j, f : j = exec[w].job /\ f = exec[w].file
    OBVIOUS
<1>0. /\ RowsInv /\ j \in Jobs /\ RequestOK(j) /\ QueueJobOK(j) /\ f \in File /\ f # None
      /\ job \in [Jobs -> RequestRow] /\ job[j].status = "PROCESSING" /\ f \notin Assets
    BY Running DEF Publish, Taken, Claimed, ExportInv, RowsInv, Builder, ExportAssumption
<1>. DEFINE new == [status |-> "COMPLETED", asset |-> f]
<1>1. job' = [job EXCEPT ![j] = new]
    BY DEF Publish
<1>2. new \in RequestRow /\ new.status = "COMPLETED" /\ new.asset = f
    BY <1>0 DEF RequestRow, Statuses
<1>. HIDE DEF new
<1>3. /\ job' \in [Jobs -> RequestRow] /\ job'[j] = new
      /\ \A i \in Jobs \ {j} : job'[i] = job[i]
    BY <1>0, <1>1, <1>2
<1>4. Assets \subseteq Assets' /\ f \in Assets'
    <2>1. job[j].asset = None
        BY <1>0 DEF RequestOK
    <2>2. job'[j].asset = f
        BY <1>2, <1>3
    <2>. QED BY <1>0, <1>3, <2>1, <2>2 DEF Assets
<1>5. /\ queue' \in [Jobs -> QueueRow] /\ QueueJobOK(j)'
      /\ queue'[j].state = "ABSENT" <=> queue[j].state = "ABSENT"
      /\ \A i \in Jobs \ {j} : queue'[i] = queue[i]
    <2>1. CASE queue' = queue
        BY <1>0, <2>1 DEF RowsInv, QueueJobOK
    <2>2. CASE queue' = Finished(w, queue)
        BY <1>0, <2>2, Released
    <2>. QED BY <2>1, <2>2
<1>6. /\ notices' \in [Jobs -> SUBSET {"EXPORT_READY", "EXPORT_FAILED"}]
      /\ notices'[j] = notices[j] \cup {"EXPORT_READY"}
      /\ \A i \in Jobs \ {j} : notices'[i] = notices[i]
    BY <1>0 DEF Publish, RowsInv
<1>7. RequestOK(j)'
    BY <1>0, <1>2, <1>3, <1>5, <1>6 DEF RequestOK
<1>8. \A i \in Jobs \ {j} : job[i].asset # job'[j].asset
    BY <1>0, <1>2, <1>3 DEF Assets
<1>9. RowsInv'
    BY <1>0, <1>3, <1>5, <1>6, <1>7, <1>8, OneRequest DEF RowsInv
<1>. QED BY <1>2, <1>3, <1>4, <1>9

(* The one that builds a request writes it and goes on, or ends: the others *)
(* know nothing else of it.                                                 *)
LEMMA BuilderWrites ==
    ASSUME ExportInv, UNCHANGED answer, NEW w \in Workers, Claimed(w), NEW x,
           exec' = [exec EXCEPT ![w] = x],
           \A i \in Jobs \ {exec[w].job} : job'[i] = job[i],
           job'[exec[w].job].status # "ABSENT",
           ExecutionOK(w)', Claimed(w)' => exec'[w].job = exec[w].job
    PROVE  ExecsInv' /\ OneBuilder'
<1>1. DOMAIN exec' = Workers /\ \A v \in Workers \ {w} : exec'[v] = exec[v]
    BY DEF ExportInv, ExecsInv
<1>2. \A v \in Workers : exec[v] # Idle => exec[v].job \in Jobs
    BY DEF ExportInv, ExecsInv, ExecutionOK, Waiter, Builder
<1>3. ASSUME NEW v \in Workers \ {w}, exec[v] # Idle
      PROVE  GoesOn(exec[v].job) \/ (~Claimed(v) /\ job'[exec[v].job].status # "ABSENT")
    <2>1. CASE exec[v].job = exec[w].job
        BY <2>1 DEF ExportInv, OneBuilder
    <2>2. CASE exec[v].job # exec[w].job
        BY <1>2, <1>3, <2>2 DEF GoesOn
    <2>. QED BY <2>1, <2>2
<1>4. \A v \in Workers \ {w} : ExecutionOK(v)'
    BY <1>1, <1>3, OthersKept
<1>5. ExecsInv'
    BY <1>1, <1>4 DEF ExecsInv
<1>6. OneBuilder'
    BY <1>1 DEF ExportInv, OneBuilder, Claimed
<1>. QED BY <1>5, <1>6

(* An execution completes its request. *)
LEMMA CompleteStep ==
    ASSUME ExportAssumption, ExportInv, NEW w \in Workers, Complete(w)
    PROVE  ExportInv'
<1>0. Claimed(w) /\ exec' = [exec EXCEPT ![w] = Idle]
    BY DEF Complete, Claimed, Ends
<1>1. /\ RowsInv' /\ Assets \subseteq Assets' /\ exec[w].file \in Assets'
      /\ job'[exec[w].job].status = "COMPLETED"
      /\ \A i \in Jobs \ {exec[w].job} : job'[i] = job[i]
    BY Published DEF Complete, Ends
<1>2. exec'[w] = Idle /\ \A v \in Workers \ {w} : exec'[v] = exec[v]
    BY <1>0 DEF ExportInv, ExecsInv
<1>3. ExecutionOK(w)' /\ ~Claimed(w)'
    BY <1>2 DEF ExecutionOK, Claimed, Idle
<1>4. ExecsInv' /\ OneBuilder'
    BY <1>0, <1>1, <1>3, BuilderWrites DEF Complete
<1>5. FilesInv'
    <2>1. strays \subseteq strays' /\ strays' \subseteq File /\ objects' \subseteq objects \cup strays'
        BY DEF Complete, ExportInv, FilesInv
    <2>2. ASSUME NEW v \in Workers, HasFile(v)
          PROVE  (HasFile(v)' /\ exec'[v].file = exec[v].file) \/ exec[v].file \in Assets' \cup strays'
        BY <1>1, <1>2, <2>2 DEF HasFile
    <2>. QED BY <1>1, <2>1, <2>2, FilesSeen
<1>. QED BY <1>1, <1>4, <1>5 DEF Complete, ExportInv

(* An execution keeps its file and goes to the step that discards it. *)
LEMMA KeepsItsFile ==
    ASSUME ExportInv, NEW w \in Workers, exec[w].step = "PUBLISH",
           NEW s \in {"DISCARD", "DISCARD_AND_THROW"}, exec' = [exec EXCEPT ![w].step = s],
           UNCHANGED <<answer, objects, strays>>, Assets \subseteq Assets',
           job'[exec[w].job].status \notin {"ABSENT", "QUEUED"},
           \A i \in Jobs \ {exec[w].job} : job'[i] = job[i]
    PROVE  ExecsInv' /\ OneBuilder' /\ FilesInv'
<1>1. exec[w] \in Builder
    BY Running DEF Claimed
<1>2. /\ exec' = [exec EXCEPT ![w] = AtStep(exec[w], s)]
      /\ ExecutionOK(w)' /\ Claimed(w) /\ exec'[w].job = exec[w].job
      /\ HasFile(w)' /\ exec'[w].file = exec[w].file
      /\ \A v \in Workers \ {w} : exec'[v] = exec[v]
    BY <1>1, BuilderAt
<1>3. ExecsInv' /\ OneBuilder'
    BY <1>2, BuilderWrites
<1>4. FilesInv'
    BY <1>2, FilesStay
<1>. QED BY <1>3, <1>4

(* The transaction that completes fails, or its answer is lost. *)
LEMMA CompleteThrowsStep ==
    ASSUME ExportAssumption, ExportInv, NEW w \in Workers, CompleteThrows(w)
    PROVE  ExportInv'
<1>0. /\ exec[w].step = "PUBLISH" /\ RowsInv
      /\ job[exec[w].job].status \in {"PROCESSING", "FAILED"}
    BY Running DEF CompleteThrows, ExecutionOK, ExportInv
<1>1. /\ RowsInv' /\ Assets \subseteq Assets'
      /\ job'[exec[w].job].status \notin {"ABSENT", "QUEUED"}
      /\ \A i \in Jobs \ {exec[w].job} : job'[i] = job[i]
    <2>1. CASE Publish(w)
        BY <1>0, <2>1, Published DEF CompleteThrows
    <2>2. CASE UNCHANGED <<job, notices>>
        BY <1>0, <2>2, RowsUntouched DEF CompleteThrows
    <2>. QED BY <2>1, <2>2 DEF CompleteThrows
<1>2. ExecsInv' /\ OneBuilder' /\ FilesInv'
    BY <1>0, <1>1, KeepsItsFile DEF CompleteThrows
<1>3. faults' \in 0..MaxFaults
    BY DEF CompleteThrows, Fault, ExportInv, ExportAssumption
<1>. QED BY <1>1, <1>2, <1>3 DEF CompleteThrows, ExportInv

(* Completion is refused: no request retains the file, so it is discarded. *)
LEMMA CompleteRefusedStep ==
    ASSUME ExportAssumption, ExportInv, NEW w \in Workers, CompleteRefused(w)
    PROVE  ExportInv'
<1>0. /\ exec[w].step = "PUBLISH" /\ RowsInv
      /\ job[exec[w].job].status \in {"PROCESSING", "FAILED"}
    BY Running DEF CompleteRefused, ExecutionOK, ExportInv
<1>1. RowsInv' /\ Assets \subseteq Assets'
    <2>1. UNCHANGED <<job, api, notices, queue>>
        BY <1>0 DEF CompleteRefused, Discards
    <2>. QED BY <1>0, <2>1, RowsUntouched
<1>2. PICK s \in {"DISCARD", "DISCARD_AND_THROW"} : exec' = [exec EXCEPT ![w].step = s]
    BY <1>0 DEF CompleteRefused, Discards
<1>3. ExecsInv' /\ OneBuilder' /\ FilesInv'
    BY <1>0, <1>1, <1>2, KeepsItsFile DEF CompleteRefused
<1>. QED BY <1>1, <1>3 DEF CompleteRefused, ExportInv

(* A file that is not published is deleted, or is a stray. *)
LEMMA DiscardStep ==
    ASSUME ExportAssumption, ExportInv, NEW w \in Workers, Discard(w)
    PROVE  ExportInv'
<1>0. exec[w] # Idle /\ exec[w] \in Builder
    BY Running DEF Discard, Claimed
<1>1. /\ RowsInv' /\ ExecsInv' /\ OneBuilder' /\ Assets \subseteq Assets'
      /\ \A v \in Workers \ {w} : exec'[v] = exec[v]
    BY <1>0, Leaves DEF Discard
<1>2. exec[w].file \in File
    BY <1>0 DEF Builder
<1>3. /\ strays \subseteq strays' /\ strays' \subseteq File /\ objects' \subseteq objects \cup strays'
      /\ exec[w].file \in strays' \/ exec[w].file \notin objects'
    BY <1>2 DEF Discard, ExportInv, FilesInv
<1>4. \A v \in Workers : HasFile(v) => \/ HasFile(v)' /\ exec'[v].file = exec[v].file
                                       \/ exec[v].file \in Assets' \cup strays'
                                       \/ exec[v].file \notin objects'
    BY <1>1, <1>3 DEF HasFile
<1>5. FilesInv'
    BY <1>1, <1>3, <1>4, FilesSeen
<1>6. faults' \in 0..MaxFaults
    BY DEF Discard, Fault, ExportInv, ExportAssumption
<1>. QED BY <1>1, <1>5, <1>6 DEF Discard, ExportInv

(* A request fails, unless it has been completed or failed before. *)
LEMMA MarkFailedStep ==
    ASSUME ExportAssumption, ExportInv, NEW w \in Workers, MarkFailed(w)
    PROVE  ExportInv'
<1>. PICK j : j = exec[w].job
    OBVIOUS
<1>0. /\ RowsInv /\ j \in Jobs /\ RequestOK(j) /\ QueueJobOK(j) /\ exec[w] # Idle /\ ~HasFile(w)
      /\ job[j].status # "ABSENT" /\ exec[w].step = "FAIL"
    BY Running DEF MarkFailed, HasFile, ExportInv, RowsInv
<1>1. RowsInv' /\ ExecsInv' /\ OneBuilder' /\ FilesInv'
    <2>1. CASE UNCHANGED <<job, notices>> /\ Throws(w)
        BY <1>0, <2>1, LeavesEarly DEF MarkFailed
    <2>2. CASE /\ MayFail(j)
               /\ job' = [job EXCEPT ![j].status = "FAILED"]
               /\ notices' = [notices EXCEPT ![j] = @ \cup {"EXPORT_FAILED"}]
               /\ Ends(w)
        <3>1. job[j].status # "COMPLETED"
            BY <1>0, <2>2 DEF MayFail, RequestOK
        <3>2. /\ job' \in [Jobs -> RequestRow]
              /\ job'[j].status = "FAILED" /\ job'[j].asset = None
              /\ \A i \in Jobs \ {j} : job'[i] = job[i]
              /\ Assets \subseteq Assets' /\ \A i \in Jobs : GoesOn(i)
            <4>p. PICK s : s = "FAILED"
                OBVIOUS
            <4>1. s \in Statuses \ {"COMPLETED"} /\ job' = [job EXCEPT ![j].status = s]
                BY <2>2, <4>p DEF Statuses
            <4>2. /\ job' \in [Jobs -> RequestRow]
                  /\ job'[j].status = s /\ job'[j].asset = None
                  /\ \A i \in Jobs \ {j} : job'[i] = job[i]
                  /\ Assets \subseteq Assets'
                  /\ s \in {"PROCESSING", "FAILED"} => \A i \in Jobs : GoesOn(i)
                BY <1>0, <3>1, <4>1, StatusWritten
            <4>. QED BY <4>p, <4>2
        <3>3. /\ queue' \in [Jobs -> QueueRow] /\ QueueJobOK(j)'
              /\ queue'[j].state = "ABSENT" <=> queue[j].state = "ABSENT"
              /\ \A i \in Jobs \ {j} : queue'[i] = queue[i]
            BY <1>0, <2>2, Released DEF Ends
        <3>4. /\ notices' \in [Jobs -> SUBSET {"EXPORT_READY", "EXPORT_FAILED"}]
              /\ notices'[j] = notices[j] \cup {"EXPORT_FAILED"}
              /\ \A i \in Jobs \ {j} : notices'[i] = notices[i]
            BY <1>0, <2>2 DEF RowsInv
        <3>5. RequestOK(j)'
            BY <1>0, <3>1, <3>2, <3>3, <3>4 DEF RequestOK, MarkFailed
        <3>6. RowsInv'
            BY <1>0, <3>2, <3>3, <3>4, <3>5, OneRequest DEF MarkFailed, RowsInv
        <3>7. exec' = [exec EXCEPT ![w] = Idle]
            BY <2>2 DEF Ends
        <3>8. ExecsInv' /\ OneBuilder'
            BY <3>2, <3>7, Ended DEF MarkFailed
        <3>9. \A v \in Workers \ {w} : exec'[v] = exec[v]
            BY <3>7 DEF ExportInv, ExecsInv
        <3>10. FilesInv'
            BY <1>0, <3>2, <3>9, FilesStay DEF MarkFailed
        <3>. QED BY <3>6, <3>8, <3>10
    <2>. QED BY <2>1, <2>2 DEF MarkFailed
<1>. QED BY <1>1 DEF MarkFailed, ExportInv

(* A worker dies: the file it held is a stray. *)
LEMMA WorkerDiesStep ==
    ASSUME ExportAssumption, ExportInv, NEW w \in Workers, WorkerDies(w)
    PROVE  ExportInv'
<1>0. RowsInv /\ exec' = [exec EXCEPT ![w] = Idle]
    BY DEF WorkerDies, ExportInv
<1>1. RowsInv' /\ Assets \subseteq Assets' /\ \A i \in Jobs : GoesOn(i)
    BY <1>0, RowsUntouched DEF WorkerDies
<1>2. ExecsInv' /\ OneBuilder'
    BY <1>0, <1>1, Ended DEF WorkerDies
<1>3. \A v \in Workers \ {w} : exec'[v] = exec[v]
    BY <1>0 DEF ExportInv, ExecsInv
<1>4. HasFile(w) => exec[w].file \in File
    BY Running DEF HasFile, Claimed, Builder
<1>5. /\ strays \subseteq strays' /\ strays' \subseteq File /\ objects' \subseteq objects \cup strays'
      /\ HasFile(w) => exec[w].file \in strays'
    BY <1>4 DEF WorkerDies, HasFile, ExportInv, FilesInv
<1>6. \A v \in Workers : HasFile(v) => \/ HasFile(v)' /\ exec'[v].file = exec[v].file
                                       \/ exec[v].file \in Assets' \cup strays'
    BY <1>3, <1>5 DEF HasFile
<1>7. FilesInv'
    BY <1>1, <1>5, <1>6, FilesSeen
<1>8. faults' \in 0..MaxFaults
    BY DEF WorkerDies, Fault, ExportInv, ExportAssumption
<1>. QED BY <1>1, <1>2, <1>7, <1>8 DEF WorkerDies, ExportInv

-----------------------------------------------------------------------------
(* What changes meanwhile. *)

(* A listing that has seen fewer guests throughout *)
Fewer(x, g) == [x EXCEPT !.steady = x.steady \ {g}]

SeesLess(new, x, g) ==
    /\ new \in Builder /\ new.step = x.step /\ new.job = x.job /\ new.file = x.file
    /\ new.cursor = x.cursor /\ new.steady = x.steady \ {g}

(* keeps the rest.                                                         *)
LEMMA FewerKeeps ==
    ASSUME NEW x \in Builder, NEW g PROVE SeesLess(Fewer(x, g), x, g)
BY DEF SeesLess, Fewer, Builder

(* A guest changes: the listings that may not have it any more need not.   *)
LEMMA GuestChangesStep ==
    ASSUME ExportAssumption, ExportInv, NEW g \in Guests, GuestChanges(g)
    PROVE  ExportInv'
<1>. PICK a \in Becomes(answer[g]) : answer' = [answer EXCEPT ![g] = a]
    BY DEF GuestChanges
<1>0. answer \in [Guests -> Answers] /\ RowsInv /\ a \in Answers
    <2>1. answer \in [Guests -> Answers] /\ RowsInv
        BY DEF ExportInv
    <2>2. a \in {"PENDING", "ACCEPTED", "DECLINED", "CANCELLED"}
        BY DEF Becomes
    <2>. QED BY <2>1, <2>2 DEF Answers
<1>1. /\ answer' \in [Guests -> Answers] /\ answer'[g] = a
      /\ \A h \in Guests \ {g} : answer'[h] = answer[h]
    BY <1>0
<1>2. RowsInv' /\ Assets \subseteq Assets'
    BY <1>0, RowsUntouched DEF GuestChanges
<1>3. /\ DOMAIN exec' = Workers
      /\ \A w \in Workers : exec'[w] =
             IF exec[w].step = "LIST" /\ ~Lists(PresetOf[exec[w].job], a)
             THEN Fewer(exec[w], g) ELSE exec[w]
    BY <1>1 DEF GuestChanges, Fewer
<1>4. ASSUME NEW w \in Workers
      PROVE  /\ ExecutionOK(w)' /\ exec'[w].step = exec[w].step
             /\ exec[w].step # "LIST" => exec'[w] = exec[w]
             /\ Claimed(w) => exec'[w].job = exec[w].job
    <2>1. CASE exec[w].step # "LIST"
        <3>1. exec'[w] = exec[w]
            BY <1>3, <2>1
        <3>2. ExecutionOK(w)
            BY DEF ExportInv, ExecsInv
        <3>3. ExecutionOK(w)'
            BY <2>1, <3>1, <3>2 DEF ExecutionOK, Claimed, GuestChanges
        <3>. QED BY <2>1, <3>1, <3>3
    <2>2. CASE exec[w].step = "LIST"
        <3>. PICK x, y : x = exec[w] /\ y = exec'[w]
            OBVIOUS
        <3>1. /\ x \in Builder /\ ListingOK(x) /\ x.steady \subseteq Listable(x.job)
              /\ job[x.job].status \in {"PROCESSING", "FAILED"}
            BY <2>2, Running DEF ExecutionOK, Claimed
        <3>2. \/ y = Fewer(x, g) /\ ~Lists(PresetOf[x.job], a)
              \/ y = x /\ Lists(PresetOf[x.job], a)
            BY <1>3, <2>2
        <3>3. /\ y \in Builder /\ y.step = x.step /\ y.job = x.job /\ y.file = x.file /\ y.cursor = x.cursor
              /\ y.steady \subseteq x.steady
              /\ g \in y.steady => Lists(PresetOf[x.job], a)
            <4>1. SeesLess(Fewer(x, g), x, g)
                BY <3>1, FewerKeeps
            <4>. QED BY <3>1, <3>2, <4>1 DEF SeesLess
        <3>4. ListingOK(y)
            BY <3>1, <3>3 DEF ListingOK
        <3>5. y.steady \subseteq Listable(y.job)'
            BY <1>1, <3>1, <3>3 DEF Listable
        <3>6. ListingOK(exec[w])'
            BY <3>4 DEF ListingOK
        <3>7. ExecutionOK(w)'
            BY <2>2, <3>1, <3>3, <3>5, <3>6 DEF ExecutionOK, Claimed, GuestChanges
        <3>. QED BY <2>2, <3>3, <3>7
    <2>. QED BY <2>1, <2>2
<1>5. ExecsInv'
    BY <1>3, <1>4 DEF ExecsInv
<1>6. OneBuilder'
    BY <1>4 DEF ExportInv, OneBuilder, Claimed
<1>7. FilesInv'
    <2>1. \A v \in Workers : HasFile(v) => HasFile(v)' /\ exec'[v].file = exec[v].file
        BY <1>4 DEF HasFile
    <2>2. strays \subseteq strays' /\ strays' \subseteq File /\ objects' \subseteq objects \cup strays'
        BY DEF ExportInv, FilesInv, GuestChanges
    <2>. QED BY <1>2, <2>1, <2>2, FilesSeen
<1>8. changes' \in 0..MaxChanges
    BY DEF GuestChanges, Change, ExportInv, ExportAssumption
<1>. QED BY <1>1, <1>2, <1>5, <1>6, <1>7, <1>8 DEF GuestChanges, ExportInv

(* What the requester may export changes: nobody looks back. *)
LEMMA AccessChangesStep ==
    ASSUME ExportAssumption, ExportInv, AccessChanges
    PROVE  ExportInv'
<1>1. RowsInv' /\ Assets \subseteq Assets' /\ \A i \in Jobs : GoesOn(i)
    BY RowsUntouched DEF AccessChanges, ExportInv
<1>2. ExecsInv' /\ OneBuilder' /\ FilesInv'
    BY <1>1, WorkersWait DEF AccessChanges
<1>3. changes' \in 0..MaxChanges /\ access' \in Access
    BY DEF AccessChanges, Change, ExportInv, ExportAssumption
<1>. QED BY <1>1, <1>2, <1>3 DEF AccessChanges, ExportInv

-----------------------------------------------------------------------------
(* The theorems. *)

(* The API and the queue keep the invariant. *)
LEMMA RequestSteps ==
    ASSUME ExportAssumption, ExportInv, NEW j \in Jobs, RequestStep(j) \/ JobStalls(j)
    PROVE  ExportInv'
BY CreateRequestStep, ApiSteps, MarkQueueFailureStep, JobStallsStep DEF RequestStep

(* So does a worker that works *)
LEMMA WorkSteps ==
    ASSUME ExportAssumption, ExportInv, NEW w \in Workers, WorkStep(w)
    PROVE  ExportInv'
BY ClaimSkippedStep, ClaimRevokedStep, ClaimStep, ListPageStep, StoreFileStep, CompleteStep,
   CompleteRefusedStep, DiscardStep, ReadToFailStep, MarkFailedStep DEF WorkStep

(* or fails. *)
LEMMA FailSteps ==
    ASSUME ExportAssumption, ExportInv, NEW w \in Workers, FailStep(w)
    PROVE  ExportInv'
BY StoreFailsStep, CompleteThrowsStep, QueryFailsStep, WorkerDiesStep DEF FailStep

(* Nothing is requested, and nobody works. *)
LEMMA ExportInitInv == ASSUME ExportAssumption, ExportInit PROVE ExportInv
<1>0. Attempts \in Nat \ {0} /\ MaxChanges \in Nat /\ MaxFaults \in Nat /\ None \notin File
    BY DEF ExportAssumption
<1>1. /\ job \in [Jobs -> RequestRow] /\ api \in [Jobs -> {"ENQUEUE", "MARK", "DONE"}]
      /\ notices \in [Jobs -> SUBSET {"EXPORT_READY", "EXPORT_FAILED"}]
      /\ queue \in [Jobs -> QueueRow]
    BY <1>0 DEF ExportInit, RequestRow, QueueRow, Statuses
<1>2. \A j \in Jobs : QueueJobOK(j) /\ RequestOK(j)
    BY <1>0 DEF ExportInit, QueueJobOK, RequestOK
<1>3. RowsInv
    BY <1>1, <1>2 DEF RowsInv, ExportInit
<1>4. \A w \in Workers : exec[w] = Idle
    BY DEF ExportInit
<1>5. ExecsInv
    BY <1>4 DEF ExecsInv, ExecutionOK, ExportInit
<1>6. OneBuilder
    BY <1>4 DEF OneBuilder, Claimed, Idle
<1>7. FilesInv
    BY DEF FilesInv, NoFileLeftBehind, ExportInit
<1>8. answer \in [Guests -> Answers] /\ access \in Access
    BY DEF ExportInit, Answers, Access
<1>9. changes \in 0..MaxChanges /\ faults \in 0..MaxFaults
    BY <1>0 DEF ExportInit
<1>. QED BY <1>3, <1>5, <1>6, <1>7, <1>8, <1>9 DEF ExportInv

(* A step that changes nothing does not either. *)
LEMMA ExportStutters == ASSUME ExportAssumption, ExportInv, UNCHANGED exportVars PROVE ExportInv'
<1>. USE DEF exportVars
<1>1. RowsInv' /\ Assets \subseteq Assets' /\ \A i \in Jobs : GoesOn(i)
    BY RowsUntouched DEF ExportInv
<1>2. ExecsInv' /\ OneBuilder' /\ FilesInv'
    BY <1>1, WorkersWait
<1>. QED BY <1>1, <1>2 DEF ExportInv

(* What holds between the requests, the queue, the executions, their files and *)
(* the bucket holds always: the inductive invariant of exports.                *)
THEOREM ExportInvariant == ASSUME ExportAssumption PROVE ExportSpec => []ExportInv
<1>1. ExportInit => ExportInv
    BY ExportInitInv
<1>2. ASSUME ExportInv, [ExportNext]_exportVars PROVE ExportInv'
    <2>1. CASE UNCHANGED exportVars
        BY <1>2, <2>1, ExportStutters
    <2>2. ASSUME NEW j \in Jobs, RequestStep(j) \/ JobStalls(j) PROVE ExportInv'
        BY <1>2, <2>2, RequestSteps
    <2>3. ASSUME NEW w \in Workers, NEW j \in Jobs, Start(w, j) PROVE ExportInv'
        BY <1>2, <2>3, StartStep
    <2>4. ASSUME NEW w \in Workers, WorkStep(w) \/ FailStep(w) PROVE ExportInv'
        BY <1>2, <2>4, WorkSteps, FailSteps
    <2>5. ASSUME NEW g \in Guests, GuestChanges(g) PROVE ExportInv'
        BY <1>2, <2>5, GuestChangesStep
    <2>6. CASE AccessChanges
        BY <1>2, <2>6, AccessChangesStep
    <2>. QED BY <1>2, <2>1, <2>2, <2>3, <2>4, <2>5, <2>6 DEF ExportNext
<1>. QED BY <1>1, <1>2, PTL DEF ExportSpec

(* Whatever the requests, the guests, the page size and the workers are, a request *)
(* is completed exactly when it has a file of its own, at most one execution builds *)
(* it, and every file in the bucket is published, held or a stray.                  *)
THEOREM ExportsAreOK == ASSUME ExportAssumption PROVE ExportSpec => []ExportsOK
<1>1. ASSUME ExportInv PROVE ExportsOK
    <2>1. ASSUME NEW j \in Jobs
          PROVE  /\ job[j].status \in Statuses
                 /\ (job[j].status = "COMPLETED") <=> (job[j].asset # None)
                 /\ job[j].asset \in File \cup {None}
                 /\ api[j] \in {"ENQUEUE", "MARK", "DONE"}
                 /\ notices[j] \subseteq {"EXPORT_READY", "EXPORT_FAILED"}
                 /\ queue[j].state \in {"ABSENT", "WAITING", "ACTIVE", "DONE"}
                 /\ queue[j].tries \in 0..Attempts
                 /\ (queue[j].holder # None) <=> (queue[j].state = "ACTIVE")
        <3>1. /\ job[j] \in RequestRow /\ queue[j] \in QueueRow /\ QueueJobOK(j) /\ RequestOK(j)
              /\ api[j] \in {"ENQUEUE", "MARK", "DONE"}
              /\ notices[j] \in SUBSET {"EXPORT_READY", "EXPORT_FAILED"}
            BY <1>1 DEF ExportInv, RowsInv
        <3>2. job[j].status \in Statuses /\ job[j].asset \in File \cup {None}
            BY <3>1 DEF RequestRow
        <3>3. queue[j].state \in {"ABSENT", "WAITING", "ACTIVE", "DONE"} /\ queue[j].tries \in 0..Attempts
            BY <3>1 DEF QueueRow
        <3>. QED BY <3>1, <3>2, <3>3 DEF QueueJobOK, RequestOK
    <2>2. \A i, j \in Jobs : i # j /\ job[i].asset = job[j].asset => job[i].asset = None
        BY <1>1 DEF ExportInv, RowsInv
    <2>. QED BY <1>1, <2>1, <2>2 DEF ExportsOK, ExportInv, OneBuilder, FilesInv
<1>. QED BY <1>1, ExportInvariant, PTL

(* The rows of a guest *)
RowsOf(rows, g) == {n \in DOMAIN rows : rows[n].guest = g}

(* are at most one when any two of them are the same.                      *)
LEMMA AtMostOne == ASSUME NEW S, \A m, n \in S : m = n PROVE Cardinality(S) <= 1
<1>1. CASE S = {}
    <2>1. Cardinality(S) = 0
        BY <1>1, FS_EmptySet
    <2>. QED BY <2>1
<1>2. CASE S # {}
    <2>1. PICK n : S = {n}
        BY <1>2
    <2>2. Cardinality(S) = 1
        BY <2>1, FS_Singleton
    <2>. QED BY <2>2
<1>. QED BY <1>1, <1>2

(* A file that is complete has every guest that was to be listed from the claim to *)
(* the last page, and no guest twice, however many guests there are, however small *)
(* the pages and whatever changes between two of them.                             *)
THEOREM FilesListEachGuestOnce == ASSUME ExportAssumption PROVE ExportSpec => []ListsEachGuestOnce
<1>1. ASSUME ExportInv PROVE ListsEachGuestOnce
    <2>1. ASSUME NEW w \in Workers, exec[w].step = "STORE", NEW g
          PROVE  /\ Cardinality(RowsOf(exec[w].file.rows, g)) <= 1
                 /\ g \in exec[w].steady => RowsOf(exec[w].file.rows, g) # {}
        <3>1. ListedOK(exec[w])
            BY <1>1, <2>1, Running DEF ExecutionOK
        <3>2. \A m, n \in RowsOf(exec[w].file.rows, g) : m = n
            BY <3>1 DEF ListedOK, Distinct, RowsOf
        <3>3. g \in exec[w].steady => RowsOf(exec[w].file.rows, g) # {}
            BY <3>1 DEF ListedOK, HasRow, RowsOf
        <3>. QED BY <3>2, <3>3, AtMostOne
    <2>. QED BY <2>1 DEF ListsEachGuestOnce, RowsOf
<1>. QED BY <1>1, ExportInvariant, PTL

(* A requester is told the outcome of each request, and only one, whichever of its *)
(* executions is refused, admitted, delivered again or dies.                       *)
THEOREM RequestersHearTheOutcome ==
    ASSUME ExportAssumption PROVE ExportSpec => []RequesterHearsTheOutcome
<1>1. ExportInv => RequesterHearsTheOutcome
    BY DEF ExportInv, RowsInv, RequestOK, RequesterHearsTheOutcome
<1>. QED BY <1>1, ExportInvariant, PTL
=============================================================================
