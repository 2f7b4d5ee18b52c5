------------------------------ MODULE TeamAccess ------------------------------
(***************************************************************************)
(* One team, its members, and the share link of one of its boards: the     *)
(* calls of TeamService and TeamInviteService.                             *)
(*                                                                         *)
(* Neither service locks anything, and only acceptInvite uses a            *)
(* transaction (READ COMMITTED: what it read may change before it writes). *)
(* So every statement of a call is a step, with other calls between: the   *)
(* role of the caller, the row of the member concerned and the number of   *)
(* members are all as they were when they were read.                       *)
(*                                                                         *)
(* Left out: names, dates and the visibility flags of the team; the lookup *)
(* of a user by e-mail (users are never deleted); calls refused by a check *)
(* end there and change nothing; collisions of 18 random bytes.            *)
(***************************************************************************)
EXTENDS Integers, FiniteSets

CONSTANTS
    Users,    \* the users there are
    Calls,    \* bound: calls in flight at a time, a set
    MaxRows,  \* bound: memberships ever created
    MaxCodes, \* bound: link codes ever generated
    Nobody    \* no user

ASSUME TeamAssumption ==
    /\ {MaxRows, MaxCodes} \subseteq Nat
    /\ Nobody \notin Users

VARIABLES
    members,  \* user -> the team_members row [id, role], or NotMember
    lastRow,  \* autoincrement of team_members
    invite,   \* the team_invites row of the board (boardId is unique there)
    lastCode, \* codes generated so far, numbered in the order of writing
    call,     \* what each call in flight is about to do, and what it read
    lanes     \* not in the code: the calls that clients make, all or only one

vars == <<members, lastRow, invite, lastCode, call, lanes>>

NotMember == [id |-> 0, role |-> "NONE"]

NoInvite == [code |-> 0, isActive |-> FALSE]

\* op tells getOrCreateShareLink from regenerateShareLink; row is the id of the
\* membership read, code the link code read.
Idle == [step |-> "IDLE", op |-> "NONE", actor |-> Nobody, target |-> Nobody,
         row |-> 0, code |-> 0]

AddableRoles == {"ADMIN", "MEMBER"}

Managers == {u \in Users : members[u].role \in {"OWNER", "ADMIN"}}

Owners == {u \in Users : members[u].role = "OWNER"}

Joined == {u \in Users : members[u] # NotMember}

-----------------------------------------------------------------------------

Init ==
    /\ members = [u \in Users |-> NotMember]
    /\ lastRow = 0
    /\ invite = NoInvite
    /\ lastCode = 0
    /\ call = [c \in Calls |-> Idle]
    /\ lanes \in {Calls} \cup {{c} : c \in Calls}

Begin(c, step, actor, target) ==
    /\ call[c] = Idle
    /\ call' = [call EXCEPT ![c] = [Idle EXCEPT !.step = step, !.actor = actor,
                                                !.target = target]]

Go(c, step) == call' = [call EXCEPT ![c].step = step]

Finish(c) == call' = [call EXCEPT ![c] = Idle]

Insert(u, role) ==
    /\ lastRow < MaxRows
    /\ lastRow' = lastRow + 1
    /\ members' = [members EXCEPT ![u] = [id |-> lastRow + 1, role |-> role]]

\* DELETE and UPDATE by the id of a membership: they fail when it is gone,
\* even if the user has joined again since.
Remove(id) ==
    members' = [u \in Users |-> IF members[u].id = id THEN NotMember ELSE members[u]]

NoTeamChange == UNCHANGED <<members, lastRow>>

NoLinkChange == UNCHANGED <<invite, lastCode>>

\* createTeam: one nested write.
CreateTeam(u) ==
    /\ lastRow = 0
    /\ Insert(u, "OWNER")
    /\ UNCHANGED <<invite, lastCode, call>>

\* addMember: the caller's role, then the user's membership, then the insert.
AddCheck(c, actor, target) ==
    /\ actor \in Managers
    /\ Begin(c, "ADD_LOOK", actor, target)
    /\ NoTeamChange /\ NoLinkChange

AddLook(c) ==
    /\ call[c].step = "ADD_LOOK"
    /\ IF call[c].target \in Joined THEN Finish(c) ELSE Go(c, "ADD_CREATE")
    /\ NoTeamChange /\ NoLinkChange

\* The unique (teamId, userId) makes the insert fail if the user has joined.
AddCreate(c, role) ==
    /\ call[c].step = "ADD_CREATE"
    /\ IF call[c].target \in Joined THEN NoTeamChange
       ELSE Insert(call[c].target, role)
    /\ Finish(c)
    /\ NoLinkChange

\* removeMember: the caller's role, then the member's row, then the delete.
RemoveCheck(c, actor, target) ==
    /\ actor \in Managers
    /\ actor # target
    /\ Begin(c, "REMOVE_LOOK", actor, target)
    /\ NoTeamChange /\ NoLinkChange

RemoveLookUnchecked(c) ==  \* mutant: an OWNER can be removed
    /\ call[c].step = "REMOVE_LOOK"
    /\ IF call[c].target \in Joined
       THEN call' = [call EXCEPT ![c] =
                    [@ EXCEPT !.step = "REMOVE_DELETE", !.row = members[call[c].target].id]]
       ELSE Finish(c)
    /\ NoTeamChange /\ NoLinkChange

RemoveLook(c) ==
    /\ call[c].step = "REMOVE_LOOK"
    /\ IF call[c].target \in Joined \ Owners
       THEN call' = [call EXCEPT ![c] =
                    [@ EXCEPT !.step = "REMOVE_DELETE", !.row = members[call[c].target].id]]
       ELSE Finish(c)
    /\ NoTeamChange /\ NoLinkChange

RemoveDeleteByUser(c) ==  \* mutant: deletes by user, not by the row it read
    /\ call[c].step = "REMOVE_DELETE"
    /\ members' = [members EXCEPT ![call[c].target] = NotMember]
    /\ Finish(c)
    /\ UNCHANGED lastRow /\ NoLinkChange

RemoveDelete(c) ==
    /\ call[c].step = "REMOVE_DELETE"
    /\ Remove(call[c].row)
    /\ Finish(c)
    /\ UNCHANGED lastRow /\ NoLinkChange

\* leaveTeam: the caller's row; for an OWNER the number of members; the delete.
LeaveLook(c, actor) ==
    /\ actor \in Joined
    /\ call[c] = Idle
    /\ call' = [call EXCEPT ![c] =
            [Idle EXCEPT !.step = IF actor \in Owners THEN "LEAVE_COUNT"
                                  ELSE "LEAVE_DELETE",
                         !.actor = actor, !.row = members[actor].id]]
    /\ NoTeamChange /\ NoLinkChange

LeaveUncounted(c) ==  \* mutant: an OWNER just leaves
    /\ call[c].step = "LEAVE_COUNT"
    /\ Go(c, "LEAVE_DELETE")
    /\ NoTeamChange /\ NoLinkChange

LeaveCount(c) ==
    /\ call[c].step = "LEAVE_COUNT"
    /\ IF Cardinality(Joined) > 1 THEN Finish(c) ELSE Go(c, "LEAVE_DELETE")
    /\ NoTeamChange /\ NoLinkChange

LeaveDelete(c) ==
    /\ call[c].step = "LEAVE_DELETE"
    /\ Remove(call[c].row)
    /\ Finish(c)
    /\ UNCHANGED lastRow /\ NoLinkChange

\* updateMemberRole: the caller's role, then the member's row, then the update.
RoleCheck(c, actor, target) ==
    /\ actor \in Owners
    /\ actor # target
    /\ Begin(c, "ROLE_LOOK", actor, target)
    /\ NoTeamChange /\ NoLinkChange

RoleLook(c) ==
    /\ call[c].step = "ROLE_LOOK"
    /\ IF call[c].target \in Joined \ Owners
       THEN call' = [call EXCEPT ![c] =
                    [@ EXCEPT !.step = "ROLE_UPDATE", !.row = members[call[c].target].id]]
       ELSE Finish(c)
    /\ NoTeamChange /\ NoLinkChange

RoleUpdate(c, role) ==
    /\ call[c].step = "ROLE_UPDATE"
    /\ members' = [u \in Users |-> IF members[u].id = call[c].row
                                   THEN [members[u] EXCEPT !.role = role]
                                   ELSE members[u]]
    /\ Finish(c)
    /\ UNCHANGED lastRow /\ NoLinkChange

-----------------------------------------------------------------------------
(* The share link.                                                         *)

\* getOrCreateShareLink and regenerateShareLink: the caller's role, then the
\* row of the board, then an insert or an update of it.
LinkCheck(c, op, actor) ==
    /\ actor \in Managers
    /\ call[c] = Idle
    /\ call' = [call EXCEPT ![c] = [Idle EXCEPT !.step = "LINK_LOOK", !.op = op,
                                                !.actor = actor]]
    /\ NoTeamChange /\ NoLinkChange

LinkLookAnew(c) ==  \* mutant: getOrCreateShareLink does not look at isActive
    /\ call[c].step = "LINK_LOOK"
    /\ Go(c, IF invite = NoInvite THEN "LINK_CREATE" ELSE "LINK_ACTIVATE")
    /\ NoTeamChange /\ NoLinkChange

LinkLook(c) ==
    /\ call[c].step = "LINK_LOOK"
    /\ IF invite = NoInvite THEN Go(c, "LINK_CREATE")
       ELSE IF call[c].op = "GET" /\ invite.isActive THEN Finish(c)
       ELSE Go(c, "LINK_ACTIVATE")
    /\ NoTeamChange /\ NoLinkChange

WriteNewCode ==
    /\ lastCode < MaxCodes
    /\ lastCode' = lastCode + 1
    /\ invite' = [code |-> lastCode + 1, isActive |-> TRUE]

\* createInvite: when another call has inserted the row of the board first, the
\* unique boardId makes the insert fail and the row is read after all.
LinkCreate(c) ==
    /\ call[c].step = "LINK_CREATE"
    /\ IF invite = NoInvite THEN WriteNewCode /\ Finish(c)
       ELSE NoLinkChange /\ Go(c, "LINK_CREATE_LOOK")
    /\ NoTeamChange

LinkCreateLook(c) ==
    /\ call[c].step = "LINK_CREATE_LOOK"
    /\ IF invite.isActive THEN Finish(c) ELSE Go(c, "LINK_ACTIVATE")
    /\ NoTeamChange /\ NoLinkChange

LinkActivateSameCode(c) ==  \* mutant: the old code comes back
    /\ call[c].step = "LINK_ACTIVATE"
    /\ invite' = [invite EXCEPT !.isActive = TRUE]
    /\ Finish(c)
    /\ UNCHANGED lastCode /\ NoTeamChange

\* activateExistingInvite writes by id, whatever isActive and code are by then.
LinkActivate(c) ==
    /\ call[c].step = "LINK_ACTIVATE"
    /\ WriteNewCode
    /\ Finish(c)
    /\ NoTeamChange

RevokeCheck(c, actor) ==
    /\ actor \in Managers
    /\ Begin(c, "REVOKE", actor, Nobody)
    /\ NoTeamChange /\ NoLinkChange

Revoke(c) ==
    /\ call[c].step = "REVOKE"
    /\ invite' = [invite EXCEPT !.isActive = FALSE]
    /\ Finish(c)
    /\ UNCHANGED lastCode /\ NoTeamChange

\* acceptInvite: the row of the code is read; the rest of the transaction
\* inserts the membership unless there is one.
AcceptLookUnchecked(c, actor, code) ==  \* mutant: isActive is not tested
    /\ call[c] = Idle
    /\ invite.code = code
    /\ call' = [call EXCEPT ![c] = [Idle EXCEPT !.step = "ACCEPT", !.actor = actor,
                                                !.code = code]]
    /\ NoTeamChange /\ NoLinkChange

AcceptLook(c, actor, code) ==
    /\ call[c] = Idle
    /\ invite.isActive /\ invite.code = code
    /\ call' = [call EXCEPT ![c] = [Idle EXCEPT !.step = "ACCEPT", !.actor = actor,
                                                !.code = code]]
    /\ NoTeamChange /\ NoLinkChange

AcceptCommit(c) ==
    /\ call[c].step = "ACCEPT"
    /\ IF call[c].actor \in Joined THEN NoTeamChange
       ELSE Insert(call[c].actor, "MEMBER")
    /\ Finish(c)
    /\ NoLinkChange

-----------------------------------------------------------------------------

Membership(c) ==
    \/ \E actor, target \in Users : AddCheck(c, actor, target)
    \/ AddLook(c)
    \/ \E role \in AddableRoles : AddCreate(c, role)
    \/ \E actor, target \in Users : RemoveCheck(c, actor, target)
    \/ RemoveLook(c)
    \/ RemoveDelete(c)
    \/ \E actor \in Users : LeaveLook(c, actor)
    \/ LeaveCount(c)
    \/ LeaveDelete(c)
    \/ \E actor, target \in Users : RoleCheck(c, actor, target)
    \/ RoleLook(c)
    \/ \E role \in AddableRoles : RoleUpdate(c, role)

ShareLink(c) ==
    \/ \E op \in {"GET", "REGENERATE"}, actor \in Users : LinkCheck(c, op, actor)
    \/ LinkLook(c)
    \/ LinkCreate(c)
    \/ LinkCreateLook(c)
    \/ LinkActivate(c)
    \/ \E actor \in Users : RevokeCheck(c, actor)
    \/ Revoke(c)
    \/ \E actor \in Users, code \in 1..lastCode : AcceptLook(c, actor, code)
    \/ AcceptCommit(c)

Next ==
    /\ \/ \E u \in Users : CreateTeam(u)
       \/ \E c \in lanes : Membership(c)
       \/ \E c \in lanes : ShareLink(c)
    /\ UNCHANGED lanes

Spec == Init /\ [][Next]_vars

-----------------------------------------------------------------------------

MemberRows == [id : Nat \ {0}, role : {"OWNER", "ADMIN", "MEMBER"}]

Steps == {"IDLE", "ADD_LOOK", "ADD_CREATE", "REMOVE_LOOK", "REMOVE_DELETE",
          "LEAVE_COUNT", "LEAVE_DELETE", "ROLE_LOOK", "ROLE_UPDATE", "LINK_LOOK",
          "LINK_CREATE", "LINK_CREATE_LOOK", "LINK_ACTIVATE", "REVOKE", "ACCEPT"}

Requests == [step : Steps, op : {"NONE", "GET", "REGENERATE"},
             actor : Users \cup {Nobody}, target : Users \cup {Nobody},
             row : Nat, code : Nat]

TypeOK ==
    /\ members \in [Users -> MemberRows \cup {NotMember}]
    /\ lastRow \in Nat
    /\ invite \in [code : Nat, isActive : BOOLEAN]
    /\ lastCode \in Nat
    /\ call \in [Calls -> Requests]
    /\ lanes \subseteq Calls

\* The OWNER is never demoted, and goes only by leaving: however removals, role
\* changes and joins overlap, none of them ends up on the owner's row.
OwnerGoesOnlyByLeaving ==
    [][\A u \in Owners : members'[u] # members[u] =>
        \E c \in Calls : LeaveDelete(c) /\ call[c].actor = u]_vars

\* A removal or a departure ends the membership its call found.  One that the
\* user entered into later, through the link or an admin, survives it.
OnlyFoundMembershipsEnd ==
    [][\A u \in Joined : members'[u] = NotMember =>
        \E c \in Calls : /\ RemoveDelete(c) \/ LeaveDelete(c)
                         /\ call[c].row = members[u].id]_vars

\* A code that was revoked or replaced never works again, so a link that got
\* into the wrong hands stays dead: a link turns active only with a code that
\* no one has seen.
RetiredCodesStayRetired ==
    [][invite'.isActive /\ invite' # invite => invite'.code > lastCode]_vars

\* Calls are made one at a time.
Serial == \E c \in Calls : lanes = {c}

OwnerLeaves(u) == u \in Owners /\ members'[u] = NotMember

\* 'OWNER can leave team only when they are the only member': no OWNER leaves
\* others behind, when calls are made one at a time.  (A team its OWNER has left
\* can still get members, through a link that works on.)
SerialOwnerLeavesAlone ==
    [][\A u \in Users : Serial /\ OwnerLeaves(u) => Joined = {u}]_vars

\* 'Get existing active board share link or create a new one': only
\* regenerateShareLink replaces a working link by another, when calls are made
\* one at a time.
SerialWorkingLinkKept ==
    [][Serial /\ invite.isActive /\ invite'.isActive /\ invite' # invite =>
        \E c \in Calls : call[c].step # "IDLE" /\ call'[c] = Idle
                         /\ call[c].op = "REGENERATE"]_vars

\* A user joins through the link only while the link works, and is added only
\* by someone who is OWNER or ADMIN at that moment, when calls are made one at a
\* time.
SerialJoinsAreAuthorised ==
    [][\A u \in Users \ Joined : Serial /\ members'[u] # NotMember /\ lastRow # 0 =>
        \E c \in Calls :
            \/ call[c].step = "ACCEPT" /\ invite.isActive /\ call[c].code = invite.code
            \/ call[c].step = "ADD_CREATE" /\ call[c].actor \in Managers]_vars
=============================================================================
