---------------------------- MODULE Preparation ----------------------------
(***************************************************************************)
(* How the content of an invitation comes about: images are uploaded, a    *)
(* template is written in versions and approved, snapshots of what each    *)
(* guest would read are prepared, and a launch or a resend turns snapshots *)
(* into messages.  Meanwhile hosts edit the event and the invitations.     *)
(*                                                                         *)
(* One family of template versions, of purpose INVITATION and with its     *)
(* provider's name set; a row's position is its version.  The digest of a  *)
(* snapshot's source stands for the source itself, and a text is one of    *)
(* two, so that an edit can be taken back.                                 *)
(*                                                                         *)
(* apps/api/src/preparation, assets and messaging, with the triggers of    *)
(* the Stage 5 and Stage 6 migrations.  What a message does after it is    *)
(* created is SendPipeline.                                                *)
(***************************************************************************)
EXTENDS Naturals, Sequences, SequencesExt

CONSTANTS Assets,         \* images
          Invitations,
          Requests,       \* API requests that may overlap
          Nil,            \* no image, no key
          MaxVersions,    \* bound: versions of the template
          MaxMessages,    \* bound: messages of an invitation
          MaxChanges,     \* bound: edits and cancellations by hosts
          MaxFaults       \* bound: failed uploads and storage errors

ASSUME PreparationAssumption ==
    /\ {MaxVersions, MaxMessages, MaxChanges, MaxFaults} \subseteq Nat
    /\ Nil \notin Assets

VARIABLES event,      \* the text of the event
          invitation, \* invitation -> its text, its members, and whether it is cancelled
          asset,      \* image -> the status of its row
          objects,    \* images in the private bucket
          templates,  \* the versions: their status and image
          snapshots,  \* the sources that have a snapshot
          messages,   \* invitation -> the sources of its messages, oldest first
          failed,     \* invitations whose last message may be resent
          doing,      \* request -> what it has read or done so far
          disowned,   \* history: images whose upload reported a failure
          changes, faults

prepareVars == <<event, invitation, asset, objects, templates, snapshots, messages,
                 failed, doing, disowned, changes, faults>>

Texts == {0, 1}

Nothing == [op |-> "IDLE"]

PrepareInit ==
    /\ event = 0
    /\ invitation = [i \in Invitations |-> [text |-> 0, members |-> 0, cancelled |-> FALSE]]
    /\ asset = [a \in Assets |-> "ABSENT"]
    /\ objects = {}
    /\ templates = <<>>
    /\ snapshots = {}
    /\ messages = [i \in Invitations |-> <<>>]
    /\ failed = {}
    /\ doing = [r \in Requests |-> Nothing]
    /\ disowned = {}
    /\ changes = 0
    /\ faults = 0

Change == /\ changes < MaxChanges
          /\ changes' = changes + 1

Fault == /\ faults < MaxFaults
         /\ faults' = faults + 1

Ends(r) == [doing EXCEPT ![r] = Nothing]

\* PostgreSQL tells a preparation, which is SERIALIZABLE, of every row it has
\* read that another transaction writes.
Noting(t, row) ==
    [r \in Requests |-> IF t[r].op = "PREPARE"
                        THEN [t[r] EXCEPT !.written = @ \union {row}] ELSE t[r]]

-----------------------------------------------------------------------------
(* Images *)

\* upload: the file first, the row afterwards.
UploadFile(r, a) ==
    /\ doing[r] = Nothing
    /\ asset[a] = "ABSENT"
    /\ \A q \in Requests : doing[q].op \in {"UPLOAD", "UNDO_UPLOAD"} => doing[q].asset # a
    /\ objects' = objects \union {a}
    /\ doing' = [doing EXCEPT ![r] = [op |-> "UPLOAD", asset |-> a]]
    /\ UNCHANGED <<event, invitation, asset, templates, snapshots, messages, failed,
                   disowned, changes, faults>>

RecordUpload(r) ==
    /\ doing[r].op = "UPLOAD"
    /\ asset' = [asset EXCEPT ![doing[r].asset] = "READY"]
    /\ doing' = Ends(r)
    /\ UNCHANGED <<event, invitation, objects, templates, snapshots, messages, failed,
                   disowned, changes, faults>>

\* The transaction fails, or commits and its answer is lost.
UploadThrows(r) ==
    /\ doing[r].op = "UPLOAD"
    /\ Fault
    /\ \/ asset' = [asset EXCEPT ![doing[r].asset] = "READY"]
       \/ UNCHANGED asset
    /\ doing' = [doing EXCEPT ![r].op = "UNDO_UPLOAD"]
    /\ disowned' = disowned \union {doing[r].asset}
    /\ UNCHANGED <<event, invitation, objects, templates, snapshots, messages, failed, changes>>

\* Either way its file is deleted.
UndoUpload(r) ==
    /\ doing[r].op = "UNDO_UPLOAD"
    /\ objects' = objects \ {doing[r].asset}
    /\ doing' = Ends(r)
    /\ UNCHANGED <<event, invitation, asset, templates, snapshots, messages, failed,
                   disowned, changes, faults>>

HasSnapshot(a) == \E s \in snapshots : s.asset = a

\* What archive counts under the row lock, and snapshotted_asset_retained.
InUse(a) ==
    \/ \E n \in DOMAIN templates : templates[n].asset = a /\ templates[n].status # "ARCHIVED"
    \/ HasSnapshot(a)

ArchiveAsset(r, a) ==
    /\ doing[r] = Nothing
    /\ asset[a] = "READY"
    /\ ~InUse(a)
    /\ asset' = [asset EXCEPT ![a] = "DELETED"]
    /\ doing' = Noting([doing EXCEPT ![r] = [op |-> "DELETE", asset |-> a]], <<"asset", a>>)
    /\ UNCHANGED <<event, invitation, objects, templates, snapshots, messages, failed,
                   disowned, changes, faults>>

\* The file follows; an error of the storage is swallowed.
DeleteFile(r) ==
    /\ doing[r].op = "DELETE"
    /\ \/ /\ objects' = objects \ {doing[r].asset}
          /\ UNCHANGED faults
       \/ /\ Fault
          /\ UNCHANGED objects
    /\ doing' = Ends(r)
    /\ UNCHANGED <<event, invitation, asset, templates, snapshots, messages, failed,
                   disowned, changes>>

-----------------------------------------------------------------------------
(* Templates *)

\* resolveAsset: without a lock on the image.
Attachable == {Nil} \union {a \in Assets : asset[a] = "READY"}

Draft(a) == [status |-> "DRAFT", asset |-> a]

\* createTemplate reads the image before its transaction.
ReadForCreate(r, a) ==
    /\ doing[r] = Nothing
    /\ templates = <<>>
    /\ \A q \in Requests : doing[q].op # "CREATE"
    /\ a \in Attachable
    /\ doing' = [doing EXCEPT ![r] = [op |-> "CREATE", asset |-> a]]
    /\ UNCHANGED <<event, invitation, asset, objects, templates, snapshots, messages,
                   failed, disowned, changes, faults>>

CreateTemplate(r) ==
    /\ doing[r].op = "CREATE"
    /\ templates' = <<Draft(doing[r].asset)>>
    /\ doing' = Ends(r)
    /\ UNCHANGED <<event, invitation, asset, objects, snapshots, messages, failed,
                   disowned, changes, faults>>

\* Mutant: the advisory lock of the family is missing.
FamilyFreeAlways == TRUE

\* The advisory lock of the family; only updateTemplate holds it for longer than
\* a step.
FamilyFree == \A r \in Requests : doing[r].op # "UPDATE"

\* A launch, by its steps; a launch and a resend that have read what they send.
Launching == {"LAUNCH", "LAUNCH_LOCKED", "LAUNCH_READ"}
HasRead   == {"LAUNCH_READ", "RESEND_READ"}

\* Both hold their template in share mode.
Writable(n) == \A r \in Requests :
    /\ doing[r].op = "LAUNCH_LOCKED" => doing[r].token.version # n
    /\ doing[r].op \in HasRead => doing[r].version # n

\* updateTemplate, under the lock: the latest version, if it is not archived,
\* with its own image or another one.
BeginUpdate(r, a) ==
    LET n == Len(templates)
    IN  /\ doing[r] = Nothing
        /\ n \in 1..(MaxVersions - 1)
        /\ FamilyFree
        /\ templates[n].status # "ARCHIVED"
        /\ a \in Attachable
        /\ doing' = [doing EXCEPT ![r] = [op |-> "UPDATE", version |-> n, asset |-> a,
                                          draft |-> templates[n].status = "DRAFT"]]
        /\ UNCHANGED <<event, invitation, asset, objects, templates, snapshots,
                       messages, failed, disowned, changes, faults>>

\* Only a draft is written, to archive it; an approved version stays as it is.
EndUpdate(r) ==
    LET n == doing[r].version
    IN  /\ doing[r].op = "UPDATE"
        /\ doing[r].draft => Writable(n)
        /\ templates' = Append(IF doing[r].draft
                               THEN [templates EXCEPT ![n].status = "ARCHIVED"]
                               ELSE templates, Draft(doing[r].asset))
        /\ doing' = IF doing[r].draft THEN Noting(Ends(r), <<"template", n>>) ELSE Ends(r)
        /\ UNCHANGED <<event, invitation, asset, objects, snapshots, messages, failed,
                       disowned, changes, faults>>

Approve(n) ==
    /\ FamilyFree
    /\ templates[n].status = "DRAFT"
    /\ Writable(n)
    /\ templates' = [templates EXCEPT ![n].status = "APPROVED"]
    /\ doing' = Noting(doing, <<"template", n>>)
    /\ UNCHANGED <<event, invitation, asset, objects, snapshots, messages, failed,
                   disowned, changes, faults>>

ArchiveTemplate(n) ==
    /\ FamilyFree
    /\ templates[n].status # "ARCHIVED"
    /\ Writable(n)
    /\ templates' = [templates EXCEPT ![n].status = "ARCHIVED"]
    /\ doing' = Noting(doing, <<"template", n>>)
    /\ UNCHANGED <<event, invitation, asset, objects, snapshots, messages, failed,
                   disowned, changes, faults>>

-----------------------------------------------------------------------------
(* Snapshots *)

\* invitationSourceHash, of the event's text, the invitation and version n.  The
\* status of the template and the digest of its image are left out: they are
\* given by the version where a source is used.
Source(text, parties, i, n, a) ==
    [invitation |-> i, text |-> parties[i].text, members |-> parties[i].members,
     cancelled |-> parties[i].cancelled, event |-> text, version |-> n, asset |-> a]

\* createSnapshots begins: every later read is of this state.  A template or an
\* image that is not ready blocks every snapshot, and a source keeps the snapshot
\* it has; a preparation that can add none is left out.
BeginPrepare(r, n) ==
    LET a       == templates[n].asset
        sources == {Source(event, invitation, i, n, a) :
                       i \in {j \in Invitations : ~invitation[j].cancelled}}
    IN  /\ doing[r] = Nothing
        /\ templates[n].status = "APPROVED"
        /\ a # Nil => asset[a] = "READY"
        /\ ~(sources \subseteq snapshots)
        /\ doing' = [doing EXCEPT ![r] = [op |-> "PREPARE", version |-> n, asset |-> a,
                                          sources |-> sources, written |-> {}]]
        /\ UNCHANGED <<event, invitation, asset, objects, templates, snapshots,
                       messages, failed, disowned, changes, faults>>

\* Mutant: READ COMMITTED and no row locks.
UnserializableNever(r) == FALSE

\* A row it locks was written since it began.
Unserializable(r) ==
    doing[r].written \intersect
        ({<<"event", Nil>>, <<"template", doing[r].version>>, <<"asset", doing[r].asset>>}
         \union {<<"invitation", s.invitation>> : s \in doing[r].sources}) # {}

EndPrepare(r) ==
    /\ doing[r].op = "PREPARE"
    /\ ~Unserializable(r)
    /\ snapshots' = snapshots \union doing[r].sources
    /\ doing' = Ends(r)
    /\ UNCHANGED <<event, invitation, asset, objects, templates, messages, failed,
                   disowned, changes, faults>>

AbortPrepare(r) ==
    /\ doing[r].op = "PREPARE"
    /\ Unserializable(r)
    /\ doing' = Ends(r)
    /\ UNCHANGED <<event, invitation, asset, objects, templates, snapshots, messages,
                   failed, disowned, changes, faults>>

-----------------------------------------------------------------------------
(* Launching and resending *)

Current(text, i, n) == Source(text, invitation, i, n, templates[n].asset)

\* selectionState of all invitations, and what its digest covers.
Selection(text, n) ==
    LET live     == {i \in Invitations : ~invitation[i].cancelled}
        sent     == {i \in live : messages[i] # <<>>}
        approved == templates[n].status = "APPROVED"
    IN  [version |-> n, live |-> live, sent |-> sent, approved |-> approved,
         sources |-> IF approved
                     THEN {Current(text, i, n) : i \in live \ sent} \intersect snapshots
                     ELSE {}]

\* The host reviews a selection with something to send and holds its token.
\* readiness reads without a transaction; a token of a mixture is confirmed only
\* if the launch finds the same, so the token of one moment stands for it.
Review(r, n) ==
    /\ doing[r] = Nothing
    /\ Selection(event, n).sources # {}
    /\ doing' = [doing EXCEPT ![r] = [op |-> "REVIEWED", token |-> Selection(event, n)]]
    /\ UNCHANGED <<event, invitation, asset, objects, templates, snapshots, messages,
                   failed, disowned, changes, faults>>

\* createBatch, by its locks: one launch at a time (initial-send), the event in
\* share mode, then the template.
BeginLaunch(r) ==
    /\ doing[r].op = "REVIEWED"
    /\ \A q \in Requests : doing[q].op \notin Launching
    /\ doing' = [doing EXCEPT ![r] = [op |-> "LAUNCH", token |-> doing[r].token, event |-> event]]
    /\ UNCHANGED <<event, invitation, asset, objects, templates, snapshots, messages,
                   failed, disowned, changes, faults>>

LockTemplate(r) ==
    /\ doing[r].op = "LAUNCH"
    /\ doing' = [doing EXCEPT ![r].op = "LAUNCH_LOCKED"]
    /\ UNCHANGED <<event, invitation, asset, objects, templates, snapshots, messages,
                   failed, disowned, changes, faults>>

\* Mutant: a stale token is accepted.
ConfirmedAlways(token, selection) == TRUE

\* confirmationMatches.
Confirmed(token, selection) == token = selection

\* One message for each source, in the transaction of the launch.
Sends(sources) ==
    messages' = [i \in Invitations |->
                    messages[i] \o SetToSeq({s \in sources : s.invitation = i})]

\* The rows of the live invitations are locked in share mode, not those of their
\* members, and the selection is made again.  It must be the one the host has
\* confirmed; any other ends the request.
ReadSelection(r) ==
    LET n         == doing[r].token.version
        selection == Selection(doing[r].event, n)
    IN  /\ doing[r].op = "LAUNCH_LOCKED"
        /\ doing' = IF Confirmed(doing[r].token, selection)
                    THEN [doing EXCEPT ![r] = [op |-> "LAUNCH_READ", token |-> doing[r].token,
                                               version |-> n, locked |-> selection.live,
                                               sources |-> selection.sources]]
                    ELSE Ends(r)
        /\ UNCHANGED <<event, invitation, asset, objects, templates, snapshots, messages,
                       failed, disowned, changes, faults>>

\* The messages are inserted, of what was read.
CreateBatch(r) ==
    /\ doing[r].op = "LAUNCH_READ"
    /\ Sends(doing[r].sources)
    /\ doing' = Ends(r)
    /\ UNCHANGED <<event, invitation, asset, objects, templates, snapshots, failed,
                   disowned, changes, faults>>

\* The last message of an invitation fails and no other attempt of it is possible.
MessageFails(i) ==
    /\ Len(messages[i]) \in 1..(MaxMessages - 1)
    /\ failed' = failed \union {i}
    /\ UNCHANGED <<event, invitation, asset, objects, templates, snapshots, messages,
                   doing, disowned, changes, faults>>

\* evaluateResend of message k: it has failed and was not resent, its version is
\* approved, and there is a snapshot of what is current.  A cancelled invitation
\* has none, since cancelledAt is in its source.
Resendable(i, k) ==
    LET n == messages[i][k].version
    IN  IF i \in failed /\ k = Len(messages[i]) /\ templates[n].status = "APPROVED"
        THEN {Current(event, i, n)} \intersect snapshots ELSE {}

ReviewResend(r, i, k) ==
    /\ doing[r] = Nothing
    /\ Resendable(i, k) # {}
    /\ doing' = [doing EXCEPT ![r] = [op |-> "RESEND", invitation |-> i, message |-> k,
                                      token |-> [sources |-> Resendable(i, k)]]]
    /\ UNCHANGED <<event, invitation, asset, objects, templates, snapshots, messages,
                   failed, disowned, changes, faults>>

\* resend takes the message for update and the event, the invitation's row and
\* the template in share mode, and then evaluates again.
ReadResend(r) ==
    LET i       == doing[r].invitation
        k       == doing[r].message
        sources == Resendable(i, k)
    IN  /\ doing[r].op = "RESEND"
        /\ \A q \in Requests : ~(/\ doing[q].op = "RESEND_READ"
                                 /\ doing[q].invitation = i /\ doing[q].message = k)
        /\ doing' = IF Confirmed(doing[r].token.sources, sources)
                    THEN [doing EXCEPT ![r] = [op |-> "RESEND_READ", invitation |-> i,
                                               message |-> k, token |-> doing[r].token,
                                               version |-> messages[i][k].version,
                                               locked |-> {i}, sources |-> sources]]
                    ELSE Ends(r)
        /\ UNCHANGED <<event, invitation, asset, objects, templates, snapshots, messages,
                       failed, disowned, changes, faults>>

Resend(r) ==
    /\ doing[r].op = "RESEND_READ"
    /\ Sends(doing[r].sources)
    /\ failed' = failed \ {doing[r].invitation}
    /\ doing' = Ends(r)
    /\ UNCHANGED <<event, invitation, asset, objects, templates, snapshots, disowned,
                   changes, faults>>

-----------------------------------------------------------------------------
(* Edits *)

\* Mutant: createBatch reads the event without a lock.
EventFreeAlways == TRUE

\* A launch or a resend holds the event in share mode.
EventFree == \A r \in Requests : doing[r].op \notin Launching \union HasRead

ChangeEvent ==
    /\ Change
    /\ EventFree
    /\ event' = 1 - event
    /\ doing' = Noting(doing, <<"event", Nil>>)
    /\ UNCHANGED <<invitation, asset, objects, templates, snapshots, messages, failed,
                   disowned, faults>>

\* A launch or a resend holds the rows of invitations in share mode.
InvitationFree(i) == \A r \in Requests :
    doing[r].op \in HasRead => i \notin doing[r].locked

\* An edit that writes the invitation's row, and its members too if it names them.
\* Whether the invitation is cancelled was asked before its row is locked.
EditInvitation(i) ==
    /\ Change
    /\ InvitationFree(i)
    /\ \E members \in Texts :
          invitation' = [invitation EXCEPT ![i].text = 1 - @, ![i].members = members]
    /\ doing' = Noting(doing, <<"invitation", i>>)
    /\ UNCHANGED <<event, asset, objects, templates, snapshots, messages, failed,
                   disowned, faults>>

\* An edit of the members alone deletes and creates their rows and updates the
\* invitation's with no data: no share lock on that row keeps it waiting.  A
\* preparation locks the members' rows too, and every invitation has members.
EditMembers(i) ==
    /\ Change
    /\ invitation' = [invitation EXCEPT ![i].members = 1 - @]
    /\ doing' = Noting(doing, <<"invitation", i>>)
    /\ UNCHANGED <<event, asset, objects, templates, snapshots, messages, failed,
                   disowned, faults>>

CancelInvitation(i) ==
    /\ Change
    /\ ~invitation[i].cancelled
    /\ InvitationFree(i)
    /\ invitation' = [invitation EXCEPT ![i].cancelled = TRUE]
    /\ doing' = Noting(doing, <<"invitation", i>>)
    /\ UNCHANGED <<event, asset, objects, templates, snapshots, messages, failed,
                   disowned, faults>>

-----------------------------------------------------------------------------
AssetStep(r) ==
    \/ \E a \in Assets : UploadFile(r, a) \/ ArchiveAsset(r, a)
    \/ RecordUpload(r) \/ UploadThrows(r) \/ UndoUpload(r) \/ DeleteFile(r)

TemplateStep ==
    \/ \E r \in Requests : \/ \E a \in Assets \union {Nil} : ReadForCreate(r, a) \/ BeginUpdate(r, a)
                           \/ CreateTemplate(r)
                           \/ EndUpdate(r)
    \/ \E n \in DOMAIN templates : Approve(n) \/ ArchiveTemplate(n)

PrepareStep(r) ==
    \/ \E n \in DOMAIN templates : BeginPrepare(r, n)
    \/ EndPrepare(r) \/ AbortPrepare(r)

SendStep(r) ==
    \/ \E n \in DOMAIN templates : Review(r, n)
    \/ BeginLaunch(r) \/ LockTemplate(r) \/ ReadSelection(r) \/ CreateBatch(r)
    \/ ReadResend(r) \/ Resend(r)
    \/ \E i \in Invitations : \E k \in DOMAIN messages[i] : ReviewResend(r, i, k)

PrepareNext ==
    \/ \E r \in Requests : AssetStep(r) \/ PrepareStep(r) \/ SendStep(r)
    \/ TemplateStep
    \/ ChangeEvent
    \/ \E i \in Invitations : \/ EditInvitation(i) \/ EditMembers(i) \/ CancelInvitation(i)
                              \/ MessageFails(i)

PrepareSpec == PrepareInit /\ [][PrepareNext]_prepareVars

-----------------------------------------------------------------------------
(* Properties *)

IsSource(s) ==
    /\ s.invitation \in Invitations
    /\ s.text \in Texts
    /\ s.members \in Texts
    /\ s.event \in Texts
    /\ s.cancelled = FALSE
    /\ s.version \in DOMAIN templates
    /\ s.asset = templates[s.version].asset

\* The types, and what holds between the tables: only the latest version can be a
\* draft, however updates, approvals and archivings overlap; a snapshot is of an
\* approved version, or one that was; a message has a snapshot.
PreparationOK ==
    /\ event \in Texts
    /\ invitation \in [Invitations -> [text : Texts, members : Texts, cancelled : BOOLEAN]]
    /\ asset \in [Assets -> {"ABSENT", "READY", "DELETED"}]
    /\ objects \subseteq Assets
    /\ disowned \subseteq Assets
    /\ templates \in Seq([status : {"DRAFT", "APPROVED", "ARCHIVED"},
                          asset : Assets \union {Nil}])
    /\ \A n \in DOMAIN templates : templates[n].status = "DRAFT" => n = Len(templates)
    /\ \A s \in snapshots : IsSource(s) /\ templates[s.version].status # "DRAFT"
    /\ \A i \in Invitations : \A k \in DOMAIN messages[i] :
          messages[i][k] \in snapshots /\ messages[i][k].invitation = i
    /\ \A i \in failed : messages[i] # <<>>
    /\ changes \in 0..MaxChanges
    /\ faults \in 0..MaxFaults

\* "Once an invitation asset is referenced by an immutable snapshot, application
\* and database guards prevent it from being archived or physically deleted"
\* (archive, createSnapshots, the retention triggers): an archiving whose file is
\* still to be deleted, or a preparation that began before it, included.  An
\* upload that reported a failure is excepted: it deletes its file even if its
\* row was committed and used.
SnapshotImageStays ==
    \A s \in snapshots : s.asset # Nil =>
        /\ asset[s.asset] = "READY"
        /\ s.asset \in objects \union disowned

\* A message is created with what its invitation's row, its event and an approved
\* template say at that moment, and for nobody whose invitation is cancelled,
\* although the launch read the event, the template and the invitations one
\* after the other (createBatch, resend).  The members of the invitation are
\* excepted: their rows are not locked, and an edit of the members alone may come
\* between the reading and the insertion, where the code differs from
\* docs/whatsapp-messaging-stage6.md:27-28.
LaunchSendsWhatIsCurrent ==
    [][\A i \in Invitations : messages'[i] # messages[i] =>
           LET s == Last(messages'[i])
           IN  /\ [s EXCEPT !.members = invitation[i].members] = Current(event, i, s.version)
               /\ templates[s.version].status = "APPROVED"
               /\ ~invitation[i].cancelled]_prepareVars

\* Messages are created exactly for the sources that the host confirmed, with
\* what it saw (the confirmation tokens of createBatch and resend).
HostSawWhatIsSent ==
    [][messages' # messages =>
           \E r \in Requests :
               /\ doing[r].op \in HasRead /\ doing'[r] = Nothing
               /\ {Last(messages'[i]) : i \in {j \in Invitations : messages'[j] # messages[j]}}
                     = doing[r].token.sources]_prepareVars
=============================================================================
