---------------------------- MODULE TeamAccess_proofs ----------------------------
(***************************************************************************)
(* Proofs about TeamAccess for any number of users, calls and codes: the   *)
(* OWNER's row is safe from the calls of others, a call ends only the      *)
(* membership it found, and a code that is out of use stays so.            *)
(*                                                                         *)
(* A call holds the id of a row from one statement to the next, while any  *)
(* other call may end that membership, change its role or begin a new one  *)
(* of the same user.  RowsHeld says what the holder may still rely on; it  *)
(* rests on ids being given once (RowIds).                                 *)
(*                                                                         *)
(* Last come the calls made one at a time, between which what a call has   *)
(* read stays true (SerialInv).                                            *)
(***************************************************************************)
EXTENDS TeamAccess, FiniteSetTheorems, TLAPS

\* Ids are distinct, and none is yet to be given.
RowIds ==
    /\ \A u \in Users : members[u].id <= lastRow
    /\ \A u, v \in Joined : members[u].id = members[v].id => u = v

\* The steps of a call that has looked up a row and is about to write it.
Holding == {"REMOVE_DELETE", "ROLE_UPDATE", "LEAVE_COUNT", "LEAVE_DELETE"}

\* If the row that a call holds is still there, then it is not the OWNER's,
\* when it is to be removed or to change its role, and it is the caller's own,
\* when the caller leaves.
RowsHeld ==
    \A c \in Calls :
        /\ call[c].row <= lastRow
        /\ call[c].step \in Holding => call[c].row # 0
        /\ call[c].step \in {"REMOVE_DELETE", "ROLE_UPDATE"} =>
            \A u \in Owners : members[u].id # call[c].row
        /\ call[c].step \in {"LEAVE_COUNT", "LEAVE_DELETE"} =>
            \A u \in Joined : members[u].id = call[c].row => u = call[c].actor

Inv == TypeOK /\ RowIds /\ RowsHeld

-----------------------------------------------------------------------------
(* Rows and requests.                                                      *)

LEMMA NotMemberType == NotMember.id = 0 /\ NotMember.role = "NONE" /\ NotMember \notin MemberRows
BY DEF NotMember, MemberRows

LEMMA RowOf ==
    ASSUME TypeOK, NEW u \in Users
    PROVE  /\ members[u] \in MemberRows \cup {NotMember}
           /\ members[u].id \in Nat
           /\ u \in Joined <=> members[u] \in MemberRows
           /\ u \in Joined => members[u].id # 0
           /\ u \in Owners => u \in Joined
           /\ u \in Owners <=> members[u].role = "OWNER"
BY NotMemberType DEF TypeOK, MemberRows, Joined, Owners

LEMMA IdleType == Idle \in Requests /\ Idle.step = "IDLE" /\ Idle.row = 0
<1>1. Idle \in Requests
    BY SMT DEF Idle, Requests, Steps
<1>2. Idle.step = "IDLE" /\ Idle.row = 0
    BY DEF Idle
<1> QED
    BY <1>1, <1>2

\* A call goes on to request, and the rows stay as they are.
LEMMA CallKeeps ==
    ASSUME Inv, NEW c \in Calls, NEW request \in Requests,
           call' = [call EXCEPT ![c] = request],
           UNCHANGED <<members, lastRow, lanes>>,
           invite' \in [code : Nat, isActive : BOOLEAN], lastCode' \in Nat,
           request.row <= lastRow,
           request.step \in Holding => request.row # 0,
           request.step \in {"REMOVE_DELETE", "ROLE_UPDATE"} =>
                \A u \in Owners : members[u].id # request.row,
           request.step \in {"LEAVE_COUNT", "LEAVE_DELETE"} =>
                \A u \in Joined : members[u].id = request.row => u = request.actor
    PROVE  Inv'
<1>1. TypeOK'
    BY DEF Inv, TypeOK
<1>2. RowIds' /\ Owners' = Owners /\ Joined' = Joined
    BY DEF Inv, RowIds, Owners, Joined
<1>3. call'[c] = request /\ \A d \in Calls \ {c} : call'[d] = call[d]
    BY DEF Inv, TypeOK
<1>4. RowsHeld'
    BY <1>2, <1>3 DEF Inv, RowsHeld
<1> QED
    BY <1>1, <1>2, <1>4 DEF Inv

\* A call that begins holds no row yet.
LEMMA NewCallKeeps ==
    ASSUME Inv, NEW c \in Calls, NEW request \in Requests,
           call' = [call EXCEPT ![c] = request],
           request.row = 0, request.step \notin Holding,
           UNCHANGED <<members, lastRow, invite, lastCode, lanes>>
    PROVE  Inv'
<1>1. request.row <= lastRow
    BY DEF Inv, TypeOK
<1>2. invite' \in [code : Nat, isActive : BOOLEAN] /\ lastCode' \in Nat
    BY DEF Inv, TypeOK
<1>3. request.step \notin {"REMOVE_DELETE", "ROLE_UPDATE", "LEAVE_COUNT", "LEAVE_DELETE"}
    BY DEF Holding
<1> QED
    BY <1>1, <1>2, <1>3, CallKeeps

LEMMA GoKeeps ==
    ASSUME Inv, NEW c \in Calls, NEW step \in Steps, Go(c, step),
           \/ step \notin Holding
           \/ step = "LEAVE_DELETE" /\ call[c].step = "LEAVE_COUNT",
           UNCHANGED <<members, lastRow, lanes>>,
           invite' \in [code : Nat, isActive : BOOLEAN], lastCode' \in Nat
    PROVE  Inv'
<1> DEFINE request == [call[c] EXCEPT !.step = step]
<1>1. call[c] \in Requests
    BY DEF Inv, TypeOK
<1>2. request \in Requests
    BY <1>1 DEF Requests
<1>3. request.step = step /\ request.row = call[c].row /\ request.actor = call[c].actor
    BY <1>1 DEF Requests
<1>4. call' = [call EXCEPT ![c] = request]
    BY DEF Go
<1>5. call[c].row <= lastRow
    BY DEF Inv, RowsHeld
<1>6. /\ step \notin {"REMOVE_DELETE", "ROLE_UPDATE"}
      /\ step \in Holding => call[c].row # 0
    BY DEF Holding, Inv, RowsHeld
<1>7. step \in {"LEAVE_COUNT", "LEAVE_DELETE"} =>
        \A u \in Joined : members[u].id = call[c].row => u = call[c].actor
    BY DEF Holding, Inv, RowsHeld
<1> HIDE DEF request
<1> QED
    BY <1>2, <1>3, <1>4, <1>5, <1>6, <1>7, CallKeeps

LEMMA FinishKeeps ==
    ASSUME Inv, NEW c \in Calls, Finish(c), UNCHANGED <<members, lastRow, lanes>>,
           invite' \in [code : Nat, isActive : BOOLEAN], lastCode' \in Nat
    PROVE  Inv'
<1>1. Idle.row <= lastRow
    BY IdleType DEF Inv, TypeOK
<1> QED
    BY <1>1, IdleType, CallKeeps DEF Finish, Holding

-----------------------------------------------------------------------------
(* The writes to team_members.                                             *)

\* What a write may do to the rows: end them, change a role but not to OWNER,
\* or begin one with the next id.
Evolves ==
    \A u \in Users :
        \/ members'[u] = NotMember
        \/ /\ u \in Joined
           /\ members'[u].id = members[u].id
           /\ members'[u].role = "OWNER" => members[u].role = "OWNER"
        \/ members'[u].id = lastRow + 1

LEMMA EvolutionKeeps ==
    ASSUME Inv, Evolves, members' \in [Users -> MemberRows \cup {NotMember}],
           lastRow' \in Nat, lastRow <= lastRow', RowIds',
           UNCHANGED <<invite, lastCode, lanes>>,
           call' = call \/ \E c \in Calls : Finish(c)
    PROVE  Inv'
<1>1. call' \in [Calls -> Requests]
    BY IdleType DEF Inv, TypeOK, Finish
<1>2. TypeOK'
    BY <1>1 DEF Inv, TypeOK
<1>3. \A c \in Calls : call'[c] = call[c] \/ call'[c] = Idle
    BY DEF Finish, Inv, TypeOK
<1>4. RowsHeld'
    <2> SUFFICES ASSUME NEW c \in Calls
                 PROVE  /\ call'[c].row <= lastRow'
                        /\ call'[c].step \in Holding => call'[c].row # 0
                        /\ call'[c].step \in {"REMOVE_DELETE", "ROLE_UPDATE"} =>
                            \A u \in Owners' : members'[u].id # call'[c].row
                        /\ call'[c].step \in {"LEAVE_COUNT", "LEAVE_DELETE"} =>
                            \A u \in Joined' : members'[u].id = call'[c].row
                                => u = call'[c].actor
        BY DEF RowsHeld
    <2>1. CASE call'[c] = Idle
        BY <2>1, IdleType DEF Inv, TypeOK, Holding
    <2>2. CASE call'[c] = call[c]
        <3>1. call[c].row \in Nat /\ call[c].row <= lastRow /\ lastRow \in Nat
            BY DEF Inv, TypeOK, Requests, RowsHeld
        <3>2. ASSUME NEW u \in Joined', members'[u].id = call[c].row
              PROVE  /\ u \in Joined /\ members[u].id = call[c].row
                     /\ u \in Owners' => u \in Owners
            <4>1. members'[u].id # lastRow + 1 /\ members'[u] # NotMember
                BY <3>1, <3>2 DEF Joined
            <4>2. u \in Users /\ Owners \subseteq Users
                BY <3>2 DEF Joined, Owners
            <4>3. /\ u \in Joined
                  /\ members'[u].id = members[u].id
                  /\ members'[u].role = "OWNER" => members[u].role = "OWNER"
                BY <4>1, <4>2 DEF Evolves
            <4> QED
                BY <3>2, <4>3, <4>2 DEF Owners
        <3>3. \A u \in Owners' : u \in Joined'
            BY NotMemberType DEF Owners, Joined
        <3> QED
            BY <2>2, <3>1, <3>2, <3>3 DEF Inv, RowsHeld
    <2> QED
        BY <1>3, <2>1, <2>2
<1> QED
    BY <1>2, <1>4 DEF Inv

LEMMA InsertKeeps ==
    ASSUME Inv, NEW u, u \notin Joined, NEW role \in {"OWNER", "ADMIN", "MEMBER"},
           Insert(u, role), UNCHANGED <<invite, lastCode, lanes>>,
           call' = call \/ \E c \in Calls : Finish(c)
    PROVE  Inv'
<1> DEFINE row == [id |-> lastRow + 1, role |-> role]
<1>1. lastRow \in Nat /\ lastRow' = lastRow + 1
    BY DEF Inv, TypeOK, Insert
<1>2. row \in MemberRows
    BY <1>1 DEF MemberRows
<1>3. members' = [members EXCEPT ![u] = row]
    BY DEF Insert
<1>4. members' \in [Users -> MemberRows \cup {NotMember}]
    BY <1>2, <1>3 DEF Inv, TypeOK
<1>5. (u \in Users => members'[u] = row) /\ \A v \in Users \ {u} : members'[v] = members[v]
    BY <1>3 DEF Inv, TypeOK
<1>6. Evolves
    BY <1>5 DEF Evolves, Joined
<1>7. RowIds'
    <2>1. \A v \in Users : members[v].id \in Nat /\ members[v].id <= lastRow
        BY RowOf DEF Inv, RowIds
    <2>2. u \in Users => members'[u].id = lastRow + 1
        BY <1>5
    <2>3. \A v \in Users \ {u} : members'[v].id = members[v].id
        BY <1>5
    <2>4. \A v \in Users : members'[v].id <= lastRow'
        BY <1>1, <2>1, <2>2, <2>3
    <2>5. \A v \in Joined' : v \in Users /\ (v # u => v \in Joined)
        BY <1>5 DEF Joined
    <2>6. \A v \in Joined : v \in Users /\ members[v].id # lastRow + 1
        BY <1>1, <2>1 DEF Joined
    <2>7. ASSUME NEW v \in Joined', NEW w \in Joined', members'[v].id = members'[w].id
          PROVE  v = w
        <3>1. CASE v # u /\ w # u
            BY <2>3, <2>5, <2>7, <3>1 DEF Inv, RowIds
        <3>2. CASE v = u \/ w = u
            BY <2>2, <2>3, <2>5, <2>6, <2>7, <3>2
        <3> QED
            BY <3>1, <3>2
    <2> QED
        BY <2>4, <2>7 DEF RowIds
<1> QED
    BY <1>1, <1>4, <1>6, <1>7, EvolutionKeeps

LEMMA RemoveKeeps ==
    ASSUME Inv, NEW id, Remove(id), UNCHANGED <<lastRow, invite, lastCode, lanes>>,
           call' = call \/ \E c \in Calls : Finish(c)
    PROVE  Inv'
<1>1. \A u \in Users : members'[u] = NotMember \/ members'[u] = members[u]
    BY DEF Remove
<1>2. members' \in [Users -> MemberRows \cup {NotMember}]
    BY DEF Remove, Inv, TypeOK
<1>3. Evolves
    BY <1>1 DEF Evolves, Joined
<1>4. RowIds'
    BY <1>1, NotMemberType DEF Inv, TypeOK, RowIds, Joined
<1> QED
    BY <1>2, <1>3, <1>4, EvolutionKeeps DEF Inv, TypeOK

LEMMA RoleUpdateKeeps ==
    ASSUME Inv, NEW c \in Calls, NEW role \in AddableRoles, RoleUpdate(c, role), lanes' = lanes
    PROVE  Inv'
<1>1. call[c].step = "ROLE_UPDATE" /\ call[c].row # 0 /\ role \in {"ADMIN", "MEMBER"}
    BY DEF RoleUpdate, Inv, RowsHeld, Holding, AddableRoles
<1>2. ASSUME NEW u \in Users, members[u].id = call[c].row
      PROVE  /\ u \in Joined /\ members'[u] = [members[u] EXCEPT !.role = role]
             /\ members'[u] \in MemberRows
             /\ members'[u].id = members[u].id /\ members'[u].role # "OWNER"
    <2>1. u \in Joined /\ members[u] \in MemberRows
        BY <1>1, <1>2, RowOf, NotMemberType DEF Inv, TypeOK
    <2>2. members'[u] = [members[u] EXCEPT !.role = role]
        BY <1>2 DEF RoleUpdate
    <2> QED
        BY <1>1, <2>1, <2>2 DEF MemberRows
<1>3. \A u \in Users : members[u].id # call[c].row => members'[u] = members[u]
    BY DEF RoleUpdate
<1>4. members' \in [Users -> MemberRows \cup {NotMember}]
    BY <1>2, <1>3 DEF RoleUpdate, Inv, TypeOK
<1>5. Evolves
    BY <1>2, <1>3 DEF Evolves, Joined
<1>6. RowIds'
    <2>1. \A u \in Users : members'[u].id = members[u].id /\ (u \in Joined' => u \in Joined)
        BY <1>2, <1>3 DEF Joined
    <2>2. Joined' \subseteq Users
        BY DEF Joined
    <2> QED
        BY <2>1, <2>2 DEF RoleUpdate, Inv, RowIds
<1> QED
    BY <1>4, <1>5, <1>6, EvolutionKeeps DEF RoleUpdate, NoLinkChange, Inv, TypeOK

-----------------------------------------------------------------------------
(* The statements that read, and those that write the link.                *)

LEMMA BeginKeeps ==
    ASSUME Inv, NEW c \in Calls, NEW step \in Steps \ Holding,
           NEW actor \in Users \cup {Nobody}, NEW target \in Users \cup {Nobody},
           Begin(c, step, actor, target),
           UNCHANGED <<members, lastRow, invite, lastCode, lanes>>
    PROVE  Inv'
<1> DEFINE request == [Idle EXCEPT !.step = step, !.actor = actor, !.target = target]
<1>1. request \in Requests
    BY IdleType DEF Requests
<1>2. request.step = step /\ request.row = 0
    BY IdleType DEF Requests
<1>3. call' = [call EXCEPT ![c] = request]
    BY DEF Begin
<1> HIDE DEF request
<1> QED
    BY <1>1, <1>2, <1>3, NewCallKeeps

\* removeMember and updateMemberRole find the row of a member who is no OWNER.
LEMMA LookKeeps ==
    ASSUME Inv, NEW c \in Calls, RemoveLook(c) \/ RoleLook(c), lanes' = lanes
    PROVE  Inv'
<1>1. /\ call[c] \in Requests
      /\ UNCHANGED <<members, lastRow, invite, lastCode>>
    BY DEF RemoveLook, RoleLook, NoTeamChange, NoLinkChange, Inv, TypeOK
<1>2. CASE Finish(c)
    BY <1>1, <1>2, FinishKeeps DEF Inv, TypeOK
<1>3. CASE call[c].target \in Joined \ Owners
    <2> DEFINE t == call[c].target
               after(step) == [call[c] EXCEPT !.step = step, !.row = members[t].id]
    <2>1. t \in Users /\ members[t].id \in Nat \ {0} /\ members[t].id <= lastRow
        BY <1>3, RowOf DEF Joined, Inv, RowIds
    <2>2. \A u \in Owners : members[u].id # members[t].id
        BY <1>3, RowOf DEF Inv, RowIds, Owners
    <2>3. ASSUME NEW step \in {"REMOVE_DELETE", "ROLE_UPDATE"},
                 call' = [call EXCEPT ![c] = after(step)]
          PROVE  Inv'
        <3>1. after(step) \in Requests
            BY <1>1, <2>1 DEF Requests, Steps
        <3>2. after(step).step = step /\ after(step).row = members[t].id
            BY <1>1 DEF Requests
        <3> HIDE DEF after
        <3> QED
            BY <1>1, <2>1, <2>2, <2>3, <3>1, <3>2, CallKeeps DEF Inv, TypeOK
    <2> QED
        BY <1>3, <2>3 DEF RemoveLook, RoleLook
<1> QED
    BY <1>2, <1>3 DEF RemoveLook, RoleLook

LEMMA LeaveLookKeeps ==
    ASSUME Inv, NEW c \in Calls, NEW actor \in Users, LeaveLook(c, actor), lanes' = lanes
    PROVE  Inv'
<1> DEFINE step == IF actor \in Owners THEN "LEAVE_COUNT" ELSE "LEAVE_DELETE"
           request == [Idle EXCEPT !.step = step, !.actor = actor, !.row = members[actor].id]
<1>1. /\ actor \in Joined /\ members[actor].id \in Nat \ {0} /\ members[actor].id <= lastRow
    BY RowOf DEF LeaveLook, Inv, RowIds
<1>2. step \in {"LEAVE_COUNT", "LEAVE_DELETE"}
    OBVIOUS
<1> HIDE DEF step
<1>3. request \in Requests
    BY <1>1, <1>2, IdleType DEF Requests, Steps
<1>4. request.step = step /\ request.row = members[actor].id /\ request.actor = actor
    BY IdleType DEF Requests
<1>5. \A u \in Joined : members[u].id = members[actor].id => u = actor
    BY <1>1 DEF Inv, RowIds
<1>6. call' = [call EXCEPT ![c] = request]
    BY DEF LeaveLook, step
<1>7. UNCHANGED <<members, lastRow, invite, lastCode>>
    BY DEF LeaveLook, NoTeamChange, NoLinkChange
<1> HIDE DEF request
<1> QED
    BY <1>1, <1>2, <1>3, <1>4, <1>5, <1>6, <1>7, CallKeeps DEF Inv, TypeOK

LEMMA MembershipKeeps ==
    ASSUME Inv, NEW c \in Calls, Membership(c), lanes' = lanes
    PROVE  Inv'
<1>1. ASSUME NEW actor \in Users, NEW target \in Users,
             AddCheck(c, actor, target) \/ RemoveCheck(c, actor, target)
                \/ RoleCheck(c, actor, target)
      PROVE  Inv'
    BY <1>1, BeginKeeps
       DEF AddCheck, RemoveCheck, RoleCheck, NoTeamChange, NoLinkChange, Steps, Holding
<1>2. CASE AddLook(c)
    BY <1>2, GoKeeps, FinishKeeps
       DEF AddLook, NoTeamChange, NoLinkChange, Steps, Holding, Inv, TypeOK
<1>3. ASSUME NEW role \in AddableRoles, AddCreate(c, role) PROVE Inv'
    <2>1. CASE call[c].target \in Joined
        BY <1>3, <2>1, FinishKeeps DEF AddCreate, NoTeamChange, NoLinkChange, Inv, TypeOK
    <2>2. CASE call[c].target \notin Joined
        <3>1. Insert(call[c].target, role) /\ Finish(c) /\ UNCHANGED <<invite, lastCode>>
            BY <1>3, <2>2 DEF AddCreate, NoLinkChange
        <3> QED
            BY <1>3, <2>2, <3>1, InsertKeeps DEF AddableRoles
    <2> QED
        BY <2>1, <2>2
<1>4. CASE RemoveLook(c) \/ RoleLook(c)
    BY <1>4, LookKeeps
<1>5. CASE RemoveDelete(c) \/ LeaveDelete(c)
    BY <1>5, RemoveKeeps DEF RemoveDelete, LeaveDelete, NoLinkChange
<1>6. ASSUME NEW actor \in Users, LeaveLook(c, actor) PROVE Inv'
    BY <1>6, LeaveLookKeeps
<1>7. CASE LeaveCount(c)
    BY <1>7, GoKeeps, FinishKeeps
       DEF LeaveCount, NoTeamChange, NoLinkChange, Steps, Inv, TypeOK
<1>8. ASSUME NEW role \in AddableRoles, RoleUpdate(c, role) PROVE Inv'
    BY <1>8, RoleUpdateKeeps
<1> QED
    BY <1>1, <1>2, <1>3, <1>4, <1>5, <1>6, <1>7, <1>8 DEF Membership

LEMMA ShareLinkKeeps ==
    ASSUME Inv, NEW c \in Calls, ShareLink(c), lanes' = lanes
    PROVE  Inv'
<1> USE DEF NoTeamChange
<1>1. ASSUME NEW op \in {"GET", "REGENERATE"}, NEW actor \in Users, LinkCheck(c, op, actor)
      PROVE  Inv'
    <2> DEFINE request == [Idle EXCEPT !.step = "LINK_LOOK", !.op = op, !.actor = actor]
    <2>1. request \in Requests
        BY IdleType DEF Requests, Steps
    <2>2. request.step = "LINK_LOOK" /\ request.row = 0
        BY IdleType DEF Requests
    <2>3. call' = [call EXCEPT ![c] = request]
        BY <1>1 DEF LinkCheck
    <2> HIDE DEF request
    <2> QED
        BY <1>1, <2>1, <2>2, <2>3, NewCallKeeps DEF LinkCheck, NoLinkChange, Holding
<1>2. CASE LinkLook(c) \/ LinkCreateLook(c)
    BY <1>2, GoKeeps, FinishKeeps
       DEF LinkLook, LinkCreateLook, NoLinkChange, Steps, Holding, Inv, TypeOK
<1>3. ASSUME WriteNewCode
      PROVE  invite' \in [code : Nat, isActive : BOOLEAN] /\ lastCode' \in Nat
    BY <1>3 DEF WriteNewCode, Inv, TypeOK
<1>4. CASE LinkCreate(c)
    BY <1>3, <1>4, GoKeeps, FinishKeeps
       DEF LinkCreate, NoLinkChange, Steps, Holding, Inv, TypeOK
<1>5. CASE LinkActivate(c)
    BY <1>3, <1>5, FinishKeeps DEF LinkActivate
<1>6. ASSUME NEW actor \in Users, RevokeCheck(c, actor) PROVE Inv'
    BY <1>6, BeginKeeps DEF RevokeCheck, NoLinkChange, Steps, Holding
<1>7. CASE Revoke(c)
    <2>1. invite' \in [code : Nat, isActive : BOOLEAN] /\ lastCode' \in Nat
        BY <1>7 DEF Revoke, Inv, TypeOK
    <2> QED
        BY <1>7, <2>1, FinishKeeps DEF Revoke
<1>8. ASSUME NEW actor \in Users, NEW code \in 1..lastCode, AcceptLook(c, actor, code)
      PROVE  Inv'
    <2> DEFINE request == [Idle EXCEPT !.step = "ACCEPT", !.actor = actor, !.code = code]
    <2>1. code \in Nat
        BY DEF Inv, TypeOK
    <2>2. request \in Requests
        BY <2>1, IdleType DEF Requests, Steps
    <2>3. request.step = "ACCEPT" /\ request.row = 0
        BY IdleType DEF Requests
    <2>4. call' = [call EXCEPT ![c] = request]
        BY <1>8 DEF AcceptLook
    <2> HIDE DEF request
    <2> QED
        BY <1>8, <2>2, <2>3, <2>4, NewCallKeeps DEF AcceptLook, NoLinkChange, Holding
<1>9. CASE AcceptCommit(c)
    <2>1. CASE call[c].actor \in Joined
        BY <1>9, <2>1, FinishKeeps DEF AcceptCommit, NoLinkChange, Inv, TypeOK
    <2>2. CASE call[c].actor \notin Joined
        <3>1. Insert(call[c].actor, "MEMBER") /\ Finish(c) /\ UNCHANGED <<invite, lastCode>>
            BY <1>9, <2>2 DEF AcceptCommit, NoLinkChange
        <3> QED
            BY <2>2, <3>1, InsertKeeps
    <2> QED
        BY <2>1, <2>2
<1> QED
    BY <1>1, <1>2, <1>4, <1>5, <1>6, <1>7, <1>8, <1>9 DEF ShareLink

LEMMA NobodyJoinedBefore ==
    ASSUME Inv, lastRow = 0
    PROVE  Joined = {}
BY RowOf DEF Inv, RowIds, Joined

THEOREM Invariance == Spec => []Inv
<1>1. Init => Inv
    <2> SUFFICES ASSUME Init PROVE Inv
        OBVIOUS
    <2>1. \A u \in Users : members[u] = NotMember
        BY DEF Init
    <2>2. TypeOK
        BY IdleType DEF Init, TypeOK, NoInvite
    <2>3. RowIds
        BY <2>1, NotMemberType DEF Init, RowIds, Joined
    <2>4. RowsHeld
        BY IdleType DEF Init, RowsHeld, Holding
    <2> QED
        BY <2>2, <2>3, <2>4 DEF Inv
<1>2. Inv /\ [Next]_vars => Inv'
    <2> SUFFICES ASSUME Inv, [Next]_vars PROVE Inv'
        OBVIOUS
    <2>1. ASSUME NEW u \in Users, CreateTeam(u), lanes' = lanes PROVE Inv'
        BY <2>1, InsertKeeps, NobodyJoinedBefore DEF CreateTeam
    <2>2. CASE UNCHANGED vars
        BY <2>2 DEF vars, Inv, TypeOK, RowIds, RowsHeld, Joined, Owners
    <2>3. lanes \subseteq Calls
        BY DEF Inv, TypeOK
    <2> QED
        BY <2>1, <2>2, <2>3, MembershipKeeps, ShareLinkKeeps DEF Next
<1> QED
    BY <1>1, <1>2, PTL DEF Spec

-----------------------------------------------------------------------------
(* What a step does to the rows, read off its statement.                   *)

\* A row is changed or ended by the three writes that name its id, and by no
\* other statement.
LEMMA WhoTouchesRows ==
    ASSUME Inv, Next, NEW u \in Joined, members'[u] # members[u]
    PROVE  \E c \in lanes :
            /\ members[u].id = call[c].row
            /\ \/ RemoveDelete(c) /\ members'[u] = NotMember
               \/ LeaveDelete(c) /\ members'[u] = NotMember
               \/ call[c].step = "ROLE_UPDATE" /\ members'[u] # NotMember
<1>1. u \in Users /\ members[u].id # 0
    BY RowOf DEF Joined, Inv
<1>2. ASSUME NEW v, v \notin Joined, NEW role, Insert(v, role) PROVE FALSE
    BY <1>1, <1>2 DEF Insert, Inv, TypeOK
<1>3. ASSUME NEW v \in Users, CreateTeam(v) PROVE FALSE
    BY <1>3, NobodyJoinedBefore DEF CreateTeam
<1>4. PICK c \in lanes : Membership(c) \/ ShareLink(c)
    BY <1>3 DEF Next
<1>5. c \in Calls
    BY <1>4 DEF Inv, TypeOK
<1>6. ~ShareLink(c)
    BY <1>2 DEF ShareLink, LinkCheck, LinkLook, LinkCreate, LinkCreateLook, LinkActivate,
       RevokeCheck, Revoke, AcceptLook, AcceptCommit, NoTeamChange
<1>7. ASSUME NEW role \in AddableRoles PROVE ~AddCreate(c, role)
    BY <1>2 DEF AddCreate, NoTeamChange
<1>8. \/ RemoveDelete(c) \/ LeaveDelete(c) \/ \E role \in AddableRoles : RoleUpdate(c, role)
    BY <1>4, <1>6, <1>7 DEF Membership, AddCheck, AddLook, RemoveCheck, RemoveLook,
       LeaveLook, LeaveCount, RoleCheck, RoleLook, NoTeamChange
<1>9. CASE RemoveDelete(c) \/ LeaveDelete(c)
    BY <1>1, <1>5, <1>9 DEF RemoveDelete, LeaveDelete, Remove
<1>10. ASSUME NEW role \in AddableRoles, RoleUpdate(c, role)
       PROVE  /\ members[u].id = call[c].row /\ call[c].step = "ROLE_UPDATE"
              /\ members'[u] # NotMember
    <2>1. members[u].id = call[c].row /\ members'[u] = [members[u] EXCEPT !.role = role]
        BY <1>1, <1>10 DEF RoleUpdate
    <2>2. members[u] \in MemberRows
        BY <1>1, RowOf DEF Inv
    <2>3. members'[u].id = members[u].id
        BY <2>1, <2>2 DEF MemberRows
    <2> QED
        BY <1>1, <1>10, <2>1, <2>3, NotMemberType DEF RoleUpdate
<1> QED
    BY <1>8, <1>9, <1>10

\* An OWNER whose row changes is leaving.
LEMMA OwnerIsLeaving ==
    ASSUME Inv, Next, NEW u \in Owners, members'[u] # members[u]
    PROVE  \E c \in lanes : LeaveDelete(c) /\ call[c].actor = u
<1>1. u \in Joined /\ lanes \subseteq Calls
    BY RowOf DEF Inv, TypeOK, Owners
<1>2. PICK c \in lanes :
        /\ members[u].id = call[c].row
        /\ RemoveDelete(c) \/ LeaveDelete(c) \/ call[c].step = "ROLE_UPDATE"
    BY <1>1, WhoTouchesRows
<1>3. call[c].step \notin {"REMOVE_DELETE", "ROLE_UPDATE"}
    BY <1>1, <1>2 DEF Inv, RowsHeld
<1>4. LeaveDelete(c)
    BY <1>2, <1>3 DEF RemoveDelete
<1> QED
    BY <1>1, <1>2, <1>4 DEF LeaveDelete, Inv, RowsHeld

\* The row of an OWNER is deleted by leaveTeam of that OWNER and by nothing
\* else, and its role is never changed: not by a removal that found the user as
\* a member in an earlier life, nor by a change of role under way.
THEOREM OwnerIsSafe == Spec => OwnerGoesOnlyByLeaving
<1>1. Inv /\ [Next]_vars =>
        [\A u \in Owners : members'[u] # members[u] =>
            \E c \in Calls : LeaveDelete(c) /\ call[c].actor = u]_vars
    BY OwnerIsLeaving DEF Inv, TypeOK
<1> QED
    BY <1>1, Invariance, PTL DEF Spec, OwnerGoesOnlyByLeaving

\* removeMember and leaveTeam end the membership whose row they read, and no
\* later one of the same user.
THEOREM FoundMembershipsEnd == Spec => OnlyFoundMembershipsEnd
<1>1. Inv /\ [Next]_vars =>
        [\A u \in Joined : members'[u] = NotMember =>
            \E c \in Calls : /\ RemoveDelete(c) \/ LeaveDelete(c)
                             /\ call[c].row = members[u].id]_vars
    <2> SUFFICES ASSUME Inv, Next, NEW u \in Joined, members'[u] = NotMember
                 PROVE  \E c \in Calls : /\ RemoveDelete(c) \/ LeaveDelete(c)
                                         /\ call[c].row = members[u].id
        OBVIOUS
    <2>1. members'[u] # members[u] /\ lanes \subseteq Calls
        BY DEF Joined, Inv, TypeOK
    <2> QED
        BY <2>1, WhoTouchesRows
<1> QED
    BY <1>1, Invariance, PTL DEF Spec, OnlyFoundMembershipsEnd

\* A link that revokeShareLink or regenerateShareLink has put out of use is never
\* active again with the same code, whatever calls write the row after it.
THEOREM RetiredStayRetired == Spec => RetiredCodesStayRetired
<1>1. Inv /\ [Next]_vars =>
        [invite'.isActive /\ invite' # invite => invite'.code > lastCode]_vars
    <2> SUFFICES ASSUME Inv, Next, invite'.isActive, invite' # invite
                 PROVE  invite'.code > lastCode
        OBVIOUS
    <2>1. ASSUME WriteNewCode PROVE invite'.code > lastCode
        BY <2>1 DEF WriteNewCode, Inv, TypeOK
    <2>2. ASSUME NEW c \in Calls, Revoke(c) PROVE FALSE
        BY <2>2 DEF Revoke, Inv, TypeOK
    <2>3. ASSUME NEW u \in Users, CreateTeam(u) PROVE FALSE
        BY <2>3 DEF CreateTeam
    <2>4. ASSUME NEW c \in Calls, Membership(c) PROVE FALSE
        BY <2>4 DEF Membership, AddCheck, AddLook, AddCreate, RemoveCheck, RemoveLook,
           RemoveDelete, LeaveLook, LeaveCount, LeaveDelete, RoleCheck, RoleLook,
           RoleUpdate, NoLinkChange
    <2>5. ASSUME NEW c \in Calls, ShareLink(c) PROVE invite'.code > lastCode
        BY <2>1, <2>2, <2>5 DEF ShareLink, LinkCheck, LinkLook, LinkCreate,
           LinkCreateLook, LinkActivate, RevokeCheck, AcceptLook, AcceptCommit,
           NoLinkChange
    <2> QED
        BY <2>3, <2>4, <2>5 DEF Next, Inv, TypeOK
<1> QED
    BY <1>1, Invariance, PTL DEF Spec, RetiredCodesStayRetired

-----------------------------------------------------------------------------
(* Calls made one at a time: what a statement read still holds when the    *)
(* next one runs.                                                          *)

\* What the call c may rely on while no other is made.
AloneHolds(c) ==
    /\ call[c].step \in {"ADD_LOOK", "ADD_CREATE"} => call[c].actor \in Managers
    /\ call[c].step = "LEAVE_COUNT" => call[c].actor \in Joined
    /\ call[c].step = "LEAVE_DELETE" /\ call[c].actor \in Owners =>
            Joined = {call[c].actor}
    /\ call[c].step = "LINK_LOOK" => call[c].op \in {"GET", "REGENERATE"}
    /\ call[c].step = "LINK_ACTIVATE" /\ call[c].op # "REGENERATE" => ~invite.isActive
    /\ call[c].step = "ACCEPT" => invite.isActive /\ call[c].code = invite.code

\* Before there is a team, nothing is under way that its creation could cross.
NoTeamNoCall(c) == lastRow = 0 => call[c].step = "IDLE" /\ ~invite.isActive

SerialInv ==
    \A c \in Calls : lanes = {c} => AloneHolds(c) /\ NoTeamNoCall(c)

LEMMA SerialInit == Init => SerialInv
BY IdleType DEF Init, SerialInv, AloneHolds, NoTeamNoCall, NoInvite

LEMMA GoFields ==
    ASSUME Inv, NEW c \in Calls, NEW step, Go(c, step)
    PROVE  /\ call'[c].step = step
           /\ call'[c].actor = call[c].actor
           /\ call'[c].op = call[c].op
<1>1. call[c] \in Requests /\ call'[c] = [call[c] EXCEPT !.step = step]
    BY DEF Inv, TypeOK, Go
<1> QED
    BY <1>1 DEF Requests

LEMMA BeginFields ==
    ASSUME Inv, NEW c \in Calls, NEW step, NEW actor, NEW target, Begin(c, step, actor, target)
    PROVE  call'[c].step = step /\ call'[c].actor = actor
<1>1. call'[c] = [Idle EXCEPT !.step = step, !.actor = actor, !.target = target]
    BY DEF Inv, TypeOK, Begin
<1> QED
    BY <1>1, IdleType DEF Requests

LEMMA FinishFields ==
    ASSUME Inv, NEW c \in Calls, Finish(c)
    PROVE  call'[c].step = "IDLE"
BY IdleType DEF Inv, TypeOK, Finish

\* A call that has ended relies on nothing, and nor does one at a step that uses
\* what it has read by id only.
LEMMA AloneFree ==
    ASSUME NEW c \in Calls, lastRow' # 0 \/ (call'[c].step = "IDLE" /\ ~invite'.isActive),
           call'[c].step \notin {"ADD_LOOK", "ADD_CREATE", "LEAVE_COUNT", "LEAVE_DELETE",
                                "LINK_LOOK", "LINK_ACTIVATE", "ACCEPT"}
    PROVE  (AloneHolds(c) /\ NoTeamNoCall(c))'
BY DEF AloneHolds, NoTeamNoCall

\* A team has finitely many members: each has an id given so far.
LEMMA JoinedFinite ==
    ASSUME Inv
    PROVE  IsFiniteSet(Joined)
<1> DEFINE id == [u \in Joined |-> members[u].id]
<1>1. lastRow \in Nat /\ IsFiniteSet(1..lastRow)
    BY FS_Interval DEF Inv, TypeOK
<1>2. \A u \in Joined : members[u].id \in 1..lastRow
    BY <1>1, RowOf DEF Inv, RowIds, Joined
<1>3. id \in Injection(Joined, 1..lastRow)
    BY <1>2 DEF Injection, IsInjective, Inv, RowIds
<1> QED
    BY <1>1, <1>3, FS_Injection

LEMMA OnlyMember ==
    ASSUME Inv, NEW u \in Joined, ~(Cardinality(Joined) > 1)
    PROVE  Joined = {u}
<1>1. IsFiniteSet(Joined) /\ {u} \in SUBSET Joined
    BY JoinedFinite
<1>2. Cardinality(Joined) \in Nat /\ Cardinality({u}) = 1
    BY <1>1, FS_CardinalityType, FS_Singleton
<1>3. /\ Cardinality({u}) <= Cardinality(Joined)
      /\ Cardinality(Joined) = Cardinality({u}) => Joined = {u}
    BY <1>1, FS_Subset
<1> QED
    BY <1>2, <1>3

LEMMA InsertCounts ==
    ASSUME Inv, NEW u, NEW role, Insert(u, role)
    PROVE  lastRow' # 0
BY DEF Insert, Inv, TypeOK

LEMMA SerialMembership ==
    ASSUME Inv, NEW c \in Calls, AloneHolds(c), NoTeamNoCall(c), Membership(c)
    PROVE  (AloneHolds(c) /\ NoTeamNoCall(c))'
<1> DEFINE Held == (AloneHolds(c) /\ NoTeamNoCall(c))'
<1>a. Managers \cup Joined # {} => lastRow # 0
    BY NobodyJoinedBefore, RowOf DEF Inv, Managers, Joined, Owners, NotMember
<1>b. call[c].step # "IDLE" => lastRow # 0
    BY DEF NoTeamNoCall
<1>1. ASSUME NEW actor \in Users, NEW target \in Users, AddCheck(c, actor, target)
      PROVE  Held
    BY <1>1, <1>a, BeginFields
       DEF AddCheck, NoTeamChange, AloneHolds, NoTeamNoCall, Managers
<1>2. CASE AddLook(c)
    <2>1. CASE Finish(c)
        BY <1>2, <1>b, <2>1, FinishFields, AloneFree DEF AddLook, NoTeamChange
    <2>2. CASE Go(c, "ADD_CREATE")
        BY <1>2, <1>b, <2>2, GoFields
           DEF AddLook, NoTeamChange, AloneHolds, NoTeamNoCall, Managers
    <2> QED
        BY <1>2, <2>1, <2>2 DEF AddLook
<1>3. ASSUME NEW role \in AddableRoles, AddCreate(c, role) PROVE Held
    BY <1>3, <1>b, FinishFields, InsertCounts, AloneFree DEF AddCreate, NoTeamChange
<1>4. ASSUME NEW actor \in Users, NEW target \in Users, RemoveCheck(c, actor, target)
      PROVE  Held
    BY <1>4, <1>a, BeginFields, AloneFree DEF RemoveCheck, NoTeamChange
<1>5. CASE RemoveLook(c) \/ RoleLook(c)
    <2>1. lastRow' # 0
        BY <1>5, <1>b DEF RemoveLook, RoleLook, NoTeamChange
    <2>2. call'[c].step \in {"IDLE", "REMOVE_DELETE", "ROLE_UPDATE"}
        <3>1. call[c] \in Requests /\ call \in [Calls -> Requests]
            BY DEF Inv, TypeOK
        <3>2. ASSUME NEW step \in {"REMOVE_DELETE", "ROLE_UPDATE"}, NEW id,
                     call' = [call EXCEPT ![c] = [@ EXCEPT !.step = step, !.row = id]]
              PROVE  call'[c].step = step
            BY <3>1, <3>2 DEF Requests
        <3> QED
            BY <1>5, <3>2, FinishFields DEF RemoveLook, RoleLook
    <2> QED
        BY <2>1, <2>2, AloneFree
<1>6. CASE RemoveDelete(c) \/ LeaveDelete(c)
    BY <1>6, <1>b, FinishFields, AloneFree DEF RemoveDelete, LeaveDelete
<1>7. ASSUME NEW actor \in Users, LeaveLook(c, actor) PROVE Held
    <2> DEFINE step == IF actor \in Owners THEN "LEAVE_COUNT" ELSE "LEAVE_DELETE"
    <2>1. actor \in Joined /\ UNCHANGED <<members, lastRow>>
        BY <1>7 DEF LeaveLook, NoTeamChange
    <2>2. call'[c] = [Idle EXCEPT !.step = step, !.actor = actor, !.row = members[actor].id]
        BY <1>7 DEF LeaveLook, Inv, TypeOK
    <2>3. call'[c].step = step /\ call'[c].actor = actor
        BY <2>2, IdleType DEF Requests
    <2> QED
        BY <1>a, <2>1, <2>3 DEF AloneHolds, NoTeamNoCall, Joined, Owners
\* The members are counted when the owner is the only call there is.
<1>8. CASE LeaveCount(c)
    <2>1. CASE Finish(c)
        BY <1>8, <1>b, <2>1, FinishFields, AloneFree DEF LeaveCount, NoTeamChange
    <2>2. CASE ~(Cardinality(Joined) > 1) /\ Go(c, "LEAVE_DELETE")
        <3>1. call[c].actor \in Joined
            BY <1>8 DEF LeaveCount, AloneHolds
        <3>2. Joined = {call[c].actor}
            BY <2>2, <3>1, OnlyMember
        <3> QED
            BY <1>8, <1>b, <2>2, <3>2, GoFields
               DEF LeaveCount, NoTeamChange, AloneHolds, NoTeamNoCall, Joined
    <2> QED
        BY <1>8, <2>1, <2>2 DEF LeaveCount
<1>9. ASSUME NEW actor \in Users, NEW target \in Users, RoleCheck(c, actor, target)
      PROVE  Held
    <2>1. actor \in Managers
        BY <1>9 DEF RoleCheck, Owners, Managers
    <2> QED
        BY <1>9, <1>a, <2>1, BeginFields, AloneFree DEF RoleCheck, NoTeamChange
<1>10. ASSUME NEW role \in AddableRoles, RoleUpdate(c, role) PROVE Held
    BY <1>10, <1>b, FinishFields, AloneFree DEF RoleUpdate
<1> QED
    BY <1>1, <1>2, <1>3, <1>4, <1>5, <1>6, <1>7, <1>8, <1>9, <1>10 DEF Membership

LEMMA SerialShareLink ==
    ASSUME Inv, NEW c \in Calls, AloneHolds(c), NoTeamNoCall(c), ShareLink(c)
    PROVE  (AloneHolds(c) /\ NoTeamNoCall(c))'
<1> DEFINE Held == (AloneHolds(c) /\ NoTeamNoCall(c))'
<1> USE DEF NoTeamChange
<1>a. Managers # {} => lastRow # 0
    BY NobodyJoinedBefore, RowOf DEF Inv, Managers, Joined, Owners, NotMember
<1>b. call[c].step # "IDLE" => lastRow # 0
    BY DEF NoTeamNoCall
<1>1. ASSUME NEW op \in {"GET", "REGENERATE"}, NEW actor \in Users, LinkCheck(c, op, actor)
      PROVE  Held
    <2>1. call'[c] = [Idle EXCEPT !.step = "LINK_LOOK", !.op = op, !.actor = actor]
        BY <1>1 DEF LinkCheck, Inv, TypeOK
    <2>2. call'[c].step = "LINK_LOOK" /\ call'[c].op = op
        BY <2>1, IdleType DEF Requests
    <2> QED
        BY <1>1, <1>a, <2>2 DEF LinkCheck, AloneHolds, NoTeamNoCall
<1>2. CASE LinkLook(c)
    <2>1. lastRow' # 0 /\ UNCHANGED invite
        BY <1>2, <1>b DEF LinkLook, NoLinkChange
    <2>2. CASE Finish(c) \/ Go(c, "LINK_CREATE")
        BY <2>1, <2>2, GoFields, FinishFields, AloneFree
    <2>3. CASE Go(c, "LINK_ACTIVATE") /\ ~(call[c].op = "GET" /\ invite.isActive)
        <3>1. call[c].op \in {"GET", "REGENERATE"}
            BY <1>2 DEF LinkLook, AloneHolds
        <3> QED
            BY <2>1, <2>3, <3>1, GoFields DEF AloneHolds, NoTeamNoCall
    <2> QED
        BY <1>2, <2>2, <2>3 DEF LinkLook
<1>3. CASE LinkCreate(c)
    BY <1>3, <1>b, GoFields, FinishFields, AloneFree DEF LinkCreate
<1>4. CASE LinkCreateLook(c)
    <2>1. lastRow' # 0 /\ UNCHANGED invite
        BY <1>4, <1>b DEF LinkCreateLook, NoLinkChange
    <2>2. CASE Finish(c)
        BY <2>1, <2>2, FinishFields, AloneFree
    <2>3. CASE Go(c, "LINK_ACTIVATE") /\ ~invite.isActive
        BY <2>1, <2>3, GoFields DEF AloneHolds, NoTeamNoCall
    <2> QED
        BY <1>4, <2>2, <2>3 DEF LinkCreateLook
<1>5. CASE LinkActivate(c)
    BY <1>5, <1>b, FinishFields, AloneFree DEF LinkActivate
<1>6. ASSUME NEW actor \in Users, RevokeCheck(c, actor) PROVE Held
    BY <1>6, <1>a, BeginFields, AloneFree DEF RevokeCheck
<1>7. CASE Revoke(c)
    BY <1>7, <1>b, FinishFields, AloneFree DEF Revoke
<1>8. ASSUME NEW actor \in Users, NEW code \in 1..lastCode, AcceptLook(c, actor, code)
      PROVE  Held
    <2>1. call'[c] = [Idle EXCEPT !.step = "ACCEPT", !.actor = actor, !.code = code]
        BY <1>8 DEF AcceptLook, Inv, TypeOK
    <2>2. call'[c].step = "ACCEPT" /\ call'[c].code = code
        BY <2>1, IdleType DEF Requests
    <2> QED
        BY <1>8, <2>2 DEF AcceptLook, NoLinkChange, AloneHolds, NoTeamNoCall
<1>9. CASE AcceptCommit(c)
    BY <1>9, <1>b, FinishFields, InsertCounts, AloneFree DEF AcceptCommit
<1> QED
    BY <1>1, <1>2, <1>3, <1>4, <1>5, <1>6, <1>7, <1>8, <1>9 DEF ShareLink

LEMMA SerialInvHolds == Spec => []SerialInv
<1>1. Inv /\ SerialInv /\ [Next]_vars => SerialInv'
    <2> SUFFICES ASSUME Inv, [Next]_vars, UNCHANGED lanes, NEW c \in Calls, lanes = {c},
                        AloneHolds(c), NoTeamNoCall(c)
                 PROVE  (AloneHolds(c) /\ NoTeamNoCall(c))'
        BY DEF SerialInv, Next, vars
    <2>1. ASSUME NEW u \in Users, CreateTeam(u) PROVE (AloneHolds(c) /\ NoTeamNoCall(c))'
        BY <2>1, InsertCounts, AloneFree DEF CreateTeam, NoTeamNoCall
    <2>2. CASE UNCHANGED vars
        BY <2>2 DEF vars, AloneHolds, NoTeamNoCall, Managers, Joined, Owners
    <2> QED
        BY <2>1, <2>2, SerialMembership, SerialShareLink DEF Next
<1> QED
    BY <1>1, Invariance, SerialInit, PTL DEF Spec

\* leaveTeam lets an OWNER go only when the count was of the OWNER alone, and
\* while calls are made one at a time no one joins between the count and the
\* delete.
THEOREM SerialOwnerIsLast == Spec => SerialOwnerLeavesAlone
<1>1. Inv /\ SerialInv /\ [Next]_vars =>
        [\A u \in Users : Serial /\ OwnerLeaves(u) => Joined = {u}]_vars
    <2> SUFFICES ASSUME Inv, SerialInv, Next, NEW u \in Users, OwnerLeaves(u),
                        NEW c \in Calls, lanes = {c}
                 PROVE  Joined = {u}
        BY DEF Serial
    <2>1. u \in Owners /\ members'[u] # members[u]
        BY NotMemberType DEF OwnerLeaves, Owners
    <2>2. LeaveDelete(c) /\ call[c].actor = u
        BY <2>1, OwnerIsLeaving
    <2> QED
        BY <2>1, <2>2 DEF LeaveDelete, SerialInv, AloneHolds
<1> QED
    BY <1>1, Invariance, SerialInvHolds, PTL DEF Spec, SerialOwnerLeavesAlone

\* getOrCreateShareLink never replaces a link that works, while calls are made
\* one at a time: it writes a new code only over the inactive row it has read.
THEOREM SerialLinkIsKept == Spec => SerialWorkingLinkKept
<1>1. Inv /\ SerialInv /\ [Next]_vars =>
        [Serial /\ invite.isActive /\ invite'.isActive /\ invite' # invite =>
            \E c \in Calls : call[c].step # "IDLE" /\ call'[c] = Idle
                             /\ call[c].op = "REGENERATE"]_vars
    <2> SUFFICES ASSUME Inv, SerialInv, Next, NEW c \in Calls, lanes = {c},
                        invite.isActive, invite'.isActive, invite' # invite
                 PROVE  call[c].step # "IDLE" /\ call'[c] = Idle
                        /\ call[c].op = "REGENERATE"
        BY DEF Serial
    <2>1. \A u \in Users : ~CreateTeam(u)
        BY DEF CreateTeam
    <2>2. ~Membership(c)
        BY DEF Membership, AddCheck, AddLook, AddCreate, RemoveCheck, RemoveLook,
           RemoveDelete, LeaveLook, LeaveCount, LeaveDelete, RoleCheck, RoleLook,
           RoleUpdate, NoLinkChange
    <2>3. ~Revoke(c)
        BY DEF Revoke, Inv, TypeOK
    <2>4. ~LinkCreate(c)
        BY DEF LinkCreate, NoLinkChange, NoInvite
    <2>5. LinkActivate(c)
        BY <2>1, <2>2, <2>3, <2>4 DEF Next, ShareLink, LinkCheck, LinkLook,
           LinkCreateLook, RevokeCheck, AcceptLook, AcceptCommit, NoLinkChange
    <2> QED
        BY <2>5 DEF LinkActivate, Finish, Inv, TypeOK, SerialInv, AloneHolds
<1> QED
    BY <1>1, Invariance, SerialInvHolds, PTL DEF Spec, SerialWorkingLinkKept

\* acceptInvite admits only through a link that works at that moment, and
\* addMember only for an OWNER or ADMIN of that moment, while calls are made one
\* at a time.
THEOREM SerialJoinsAuthorised == Spec => SerialJoinsAreAuthorised
<1>1. Inv /\ SerialInv /\ [Next]_vars =>
        [\A u \in Users \ Joined : Serial /\ members'[u] # NotMember /\ lastRow # 0 =>
            \E c \in Calls :
                \/ call[c].step = "ACCEPT" /\ invite.isActive /\ call[c].code = invite.code
                \/ call[c].step = "ADD_CREATE" /\ call[c].actor \in Managers]_vars
    <2> SUFFICES ASSUME Inv, SerialInv, Next, NEW c \in Calls, lanes = {c}, lastRow # 0,
                        NEW u \in Users, members[u] = NotMember, members'[u] # NotMember
                 PROVE  \/ call[c].step = "ACCEPT" /\ invite.isActive
                           /\ call[c].code = invite.code
                        \/ call[c].step = "ADD_CREATE" /\ call[c].actor \in Managers
        BY DEF Serial, Joined
    <2>1. \A v \in Users : ~CreateTeam(v)
        BY DEF CreateTeam
    <2>2. ~RemoveDelete(c) /\ ~LeaveDelete(c)
        BY DEF RemoveDelete, LeaveDelete, Remove
    <2>3. ASSUME NEW role \in AddableRoles, RoleUpdate(c, role) PROVE FALSE
        <3>1. members[u].id # call[c].row
            BY <2>3, NotMemberType DEF RoleUpdate, Inv, RowsHeld, Holding
        <3> QED
            BY <2>3, <3>1 DEF RoleUpdate
    <2>4. AcceptCommit(c) \/ \E role \in AddableRoles : AddCreate(c, role)
        BY <2>1, <2>2, <2>3 DEF Next, Membership, ShareLink, AddCheck, AddLook,
           RemoveCheck, RemoveLook, LeaveLook, LeaveCount, RoleCheck, RoleLook,
           LinkCheck, LinkLook, LinkCreate, LinkCreateLook, LinkActivate, RevokeCheck,
           Revoke, AcceptLook, NoTeamChange
    <2> QED
        BY <2>4 DEF AcceptCommit, AddCreate, SerialInv, AloneHolds
<1> QED
    BY <1>1, Invariance, SerialInvHolds, PTL DEF Spec, SerialJoinsAreAuthorised
=============================================================================
