---------------------------- MODULE Realtime_proofs ----------------------------
(***************************************************************************)
(* Proofs about Realtime for any number of users, sockets, calls and       *)
(* changes: the maps of RealtimeService follow the sockets, and events of  *)
(* calls made one at a time are current.                                   *)
(*                                                                         *)
(* The maps are their own inductive invariant, given the types.  Events    *)
(* are current because of what OneAtATime says: beside the call under way  *)
(* every other one is idle, so nothing is committed between what a call    *)
(* has read and the event it sends.                                        *)
(***************************************************************************)
EXTENDS Realtime, TLAPS

\* Where calls are made one at a time, only the one client has a call under way,
\* and an event about to be sent shows the board as it is.
OneAtATime ==
    Serial => \A c \in Calls :
        /\ c \notin lanes => call[c] = Idle
        /\ call[c].step \in {"MEMBERS", "SEND"} => call[c].payload = version

Inv == TypeOK /\ RegistryFollowsSockets /\ OneAtATime

Changes == [step : {"SYNC", "REORDER", "MEMBERS", "SEND"}, actor : Actors,
            via : Sockets \cup {NoSocket}, version : Nat, payload : Nat,
            to : SUBSET Users]

Owable == [version : Nat, team : BOOLEAN, socket : DOMAIN connected]

-----------------------------------------------------------------------------
(* Calls.                                                                  *)

LEMMA IdleType == Idle \in Requests /\ Idle.step = "IDLE"
BY DEF Idle, Requests

LEMMA RequestOf ==
    ASSUME TypeOK, NEW c \in Calls
    PROVE  /\ call[c] \in Requests
           /\ call[c].step \in {"SYNC", "REORDER", "MEMBERS", "SEND"} => call[c] \in Changes
           /\ call[c].step = "JOIN" => call[c].via \in Sockets
<1>1. call[c] \in Requests
    BY DEF TypeOK
<1>2. CASE call[c] = Idle
    BY <1>1, <1>2, IdleType
<1>3. CASE call[c] \in [step : {"JOIN"}, via : Sockets]
    BY <1>1, <1>3
<1>4. CASE call[c] \in Changes
    BY <1>1, <1>4 DEF Changes
<1> QED
    BY <1>1, <1>2, <1>3, <1>4 DEF Requests, Changes

\* A step of the call c that leaves the board as it is and goes on to request.
LEMMA AdvanceKeeps ==
    ASSUME Inv, NEW c \in Calls, NEW request \in Requests, Advance(c, request),
           UNCHANGED <<connected, registry, version, lanes>>,
           members' \subseteq Users, open' \in BOOLEAN, room' \subseteq DOMAIN connected,
           owed' \subseteq Owable,
           c \in lanes \/ call[c] # Idle,
           request.step \in {"MEMBERS", "SEND"} =>
                \/ request.payload = version
                \/ /\ call[c].step \in {"MEMBERS", "SEND"}
                   /\ request.payload = call[c].payload
    PROVE  Inv'
<1>1. call' = [call EXCEPT ![c] = request]
    BY DEF Advance
<1>2. TypeOK'
    BY <1>1 DEF Inv, TypeOK, Owable
<1>3. RegistryFollowsSockets'
    BY DEF Inv, RegistryFollowsSockets, registry, SocketsOf, Rows
<1>4. call'[c] = request /\ \A d \in Calls \ {c} : call'[d] = call[d]
    BY <1>1 DEF Inv, TypeOK
<1>5. OneAtATime'
    BY <1>4 DEF Inv, OneAtATime, Serial
<1> QED
    BY <1>2, <1>3, <1>5 DEF Inv

-----------------------------------------------------------------------------
(* The registry.                                                           *)

LEMMA ConnectKeepsRegistry ==
    ASSUME Inv, NEW s \in Sockets, NEW actor \in Actors, Connect(s, actor)
    PROVE  RegistryFollowsSockets'
<1> DEFINE grown == [t \in DOMAIN connected \cup {s} |->
                        IF t = s THEN actor ELSE connected[t]]
<1>1. s \notin DOMAIN connected /\ connected' = grown
    BY DEF Connect
<1>2. ASSUME NEW users
      PROVE  SocketsOf(users)' = IF actor \in users THEN SocketsOf(users) \cup {s}
                                 ELSE SocketsOf(users)
    BY <1>1 DEF SocketsOf
<1>3. CASE actor \notin Users
    <2>1. UNCHANGED registry /\ SocketsOf(Users)' = SocketsOf(Users)
        BY <1>2, <1>3 DEF Connect
    <2>2. \A t \in SocketsOf(Users) : t # s /\ connected'[t] = connected[t]
        BY <1>1 DEF SocketsOf
    <2>3. \A u \in Users : SocketsOf({u})' = SocketsOf({u})
        BY <1>2, <1>3
    <2>4. \A t \in SocketsOf(Users) : connected[t] \in Users
        BY DEF SocketsOf
    <2> QED
        BY <2>1, <2>2, <2>3, <2>4 DEF Inv, RegistryFollowsSockets, registry, Rows
<1>4. CASE actor \in Users
    <2>1. SocketsOf(Users)' = SocketsOf(Users) \cup {s}
        BY <1>2, <1>4
    <2>2. \A t \in SocketsOf(Users) : t # s /\ connected'[t] = connected[t]
        BY <1>1 DEF SocketsOf
    <2>3. connected'[s] = actor
        BY <1>1
    <2>4. Register(s, actor)
        BY <1>4 DEF Connect
    <2>5. DOMAIN socketUserIds = SocketsOf(Users)
        BY DEF Inv, RegistryFollowsSockets, Rows
    <2>6. socketUserIds' = Rows(connected, SocketsOf(Users))'
        BY <2>1, <2>2, <2>3, <2>4, <2>5 DEF Register, Inv, RegistryFollowsSockets, Rows
    <2>7. DOMAIN userSocketIds = {connected[t] : t \in SocketsOf(Users)}
        BY DEF Inv, RegistryFollowsSockets
    <2>8. {connected'[t] : t \in SocketsOf(Users)'} = DOMAIN userSocketIds \cup {actor}
        BY <2>1, <2>2, <2>3, <2>7
    <2>9. (IF actor \in DOMAIN userSocketIds THEN userSocketIds[actor] ELSE {})
            = SocketsOf({actor})
        <3>1. CASE actor \in DOMAIN userSocketIds
            BY <2>7, <3>1 DEF Inv, RegistryFollowsSockets
        <3>2. CASE actor \notin DOMAIN userSocketIds
            BY <1>4, <2>7, <3>2 DEF SocketsOf
        <3> QED
            BY <3>1, <3>2
    <2>10. SocketsOf({actor})' = SocketsOf({actor}) \cup {s}
        BY <1>2
    <2>11. \A u \in DOMAIN userSocketIds \ {actor} :
                SocketsOf({u})' = SocketsOf({u}) /\ userSocketIds[u] = SocketsOf({u})
        BY <1>2, <2>7 DEF Inv, RegistryFollowsSockets
    <2>12. userSocketIds' = [u \in DOMAIN userSocketIds \cup {actor} |-> SocketsOf({u})']
        BY <2>4, <2>9, <2>10, <2>11 DEF Register
    <2> QED
        BY <2>6, <2>8, <2>12 DEF RegistryFollowsSockets
<1> QED
    BY <1>3, <1>4

LEMMA DisconnectKeepsRegistry ==
    ASSUME Inv, NEW s \in Sockets, Disconnect(s)
    PROVE  RegistryFollowsSockets'
<1> DEFINE left == [t \in DOMAIN connected \ {s} |-> connected[t]]
<1>1. s \in DOMAIN connected /\ connected' = left
    BY DEF Disconnect, Rows
<1>2. ASSUME NEW users
      PROVE  SocketsOf(users)' = SocketsOf(users) \ {s}
    BY <1>1 DEF SocketsOf
<1>3. \A t \in DOMAIN connected \ {s} : connected'[t] = connected[t]
    BY <1>1
<1>4. DOMAIN socketUserIds = SocketsOf(Users)
    BY DEF Inv, RegistryFollowsSockets, Rows
<1>5. DOMAIN userSocketIds = {connected[t] : t \in SocketsOf(Users)}
    BY DEF Inv, RegistryFollowsSockets
<1>6. \A t \in SocketsOf(Users) \ {s} : connected'[t] = connected[t]
    BY <1>3 DEF SocketsOf
<1>7. CASE s \notin DOMAIN socketUserIds
    <2>1. UNCHANGED registry
        BY <1>7 DEF Disconnect, Unregister
    <2>2. connected[s] \notin Users
        BY <1>1, <1>4, <1>7 DEF SocketsOf
    <2>3. SocketsOf(Users)' = SocketsOf(Users)
        BY <1>2, <1>4, <1>7
    <2>4. \A u \in Users : SocketsOf({u})' = SocketsOf({u})
        BY <1>2, <2>2 DEF SocketsOf
    <2>5. \A t \in SocketsOf(Users) : connected'[t] = connected[t] /\ connected[t] \in Users
        BY <1>4, <1>6, <1>7 DEF SocketsOf
    <2> QED
        BY <2>1, <2>3, <2>4, <2>5 DEF Inv, RegistryFollowsSockets, registry, Rows
<1>8. CASE s \in DOMAIN socketUserIds
    <2>0. PICK u \in Users : u = connected[s]
        BY <1>4, <1>8 DEF SocketsOf
    <2>a. PICK rest : rest = SocketsOf({u}) \ {s}
        OBVIOUS
    <2>1. socketUserIds[s] = u /\ s \in SocketsOf(Users)
        BY <1>4, <1>8, <2>0 DEF Inv, RegistryFollowsSockets, Rows
    <2>2. userSocketIds[u] = SocketsOf({u}) /\ u \in DOMAIN userSocketIds
        BY <1>5, <2>0, <2>1 DEF Inv, RegistryFollowsSockets
    <2>3. /\ socketUserIds' = Rows(socketUserIds, DOMAIN socketUserIds \ {s})
          /\ userSocketIds' = IF rest = {} THEN Rows(userSocketIds, DOMAIN userSocketIds \ {u})
                              ELSE [userSocketIds EXCEPT ![u] = rest]
        BY <1>8, <2>a, <2>1, <2>2 DEF Disconnect, Unregister
    <2>4. SocketsOf(Users)' = SocketsOf(Users) \ {s} /\ SocketsOf({u})' = rest
        BY <1>2, <2>a
    <2>5. socketUserIds' = Rows(connected, SocketsOf(Users))'
        BY <1>4, <1>6, <2>3, <2>4 DEF Inv, RegistryFollowsSockets, Rows
    <2>6. \A v \in DOMAIN userSocketIds \ {u} :
                SocketsOf({v})' = SocketsOf({v}) /\ userSocketIds[v] = SocketsOf({v})
        <3> SUFFICES ASSUME NEW v \in DOMAIN userSocketIds \ {u}
                     PROVE  s \notin SocketsOf({v}) /\ userSocketIds[v] = SocketsOf({v})
            BY <1>2
        <3> QED
            BY <1>5, <2>0 DEF Inv, RegistryFollowsSockets, SocketsOf
    <2>7. rest \subseteq SocketsOf(Users) \ {s} /\ \A t \in rest : connected[t] = u
        BY <2>0, <2>a DEF SocketsOf
    <2>8. \A t \in SocketsOf(Users) \ {s} : connected[t] = u => t \in rest
        BY <2>a DEF SocketsOf
    <2>9. {connected'[t] : t \in SocketsOf(Users)'} = {connected[t] : t \in SocketsOf(Users) \ {s}}
        BY <1>6, <2>4
    <2>10. CASE rest = {}
        <3>1. {connected[t] : t \in SocketsOf(Users) \ {s}} = DOMAIN userSocketIds \ {u}
            BY <1>5, <2>0, <2>8, <2>10
        <3> QED
            BY <2>3, <2>5, <2>6, <2>9, <2>10, <3>1 DEF RegistryFollowsSockets, Rows
    <2>11. CASE rest # {}
        <3>1. {connected[t] : t \in SocketsOf(Users) \ {s}} = DOMAIN userSocketIds
            BY <1>5, <2>0, <2>7, <2>11
        <3>2. userSocketIds' = [v \in DOMAIN userSocketIds |-> SocketsOf({v})']
            BY <2>3, <2>4, <2>6, <2>11
        <3> QED
            BY <2>5, <2>9, <3>1, <3>2 DEF RegistryFollowsSockets
    <2> QED
        BY <2>10, <2>11
<1> QED
    BY <1>7, <1>8

-----------------------------------------------------------------------------
(* The steps.                                                              *)

\* A step that leaves the sockets, the board and the calls alone.
LEMMA TeamKeeps ==
    ASSUME Inv, UNCHANGED <<sockets, version, call, lanes>>,
           members' \subseteq Users, open' \in BOOLEAN, owed' \subseteq owed
    PROVE  Inv'
<1>1. TypeOK'
    BY DEF Inv, TypeOK, sockets
<1>2. RegistryFollowsSockets'
    BY DEF Inv, RegistryFollowsSockets, sockets, registry, SocketsOf, Rows
<1>3. OneAtATime'
    BY DEF Inv, OneAtATime, Serial
<1> QED
    BY <1>1, <1>2, <1>3 DEF Inv

LEMMA ConnectKeeps ==
    ASSUME Inv, NEW s \in Sockets, NEW actor \in Actors, Connect(s, actor)
    PROVE  Inv'
<1>1. RegistryFollowsSockets'
    BY ConnectKeepsRegistry
<1>2. DOMAIN connected' = DOMAIN connected \cup {s} /\ connected' \in [DOMAIN connected' -> Actors]
    BY DEF Connect, Inv, TypeOK
<1>3. TypeOK'
    BY <1>2 DEF Connect, Inv, TypeOK, team
<1>4. OneAtATime'
    BY DEF Connect, Inv, OneAtATime, Serial
<1> QED
    BY <1>1, <1>3, <1>4 DEF Inv

LEMMA DisconnectKeeps ==
    ASSUME Inv, NEW s \in Sockets, Disconnect(s)
    PROVE  Inv'
<1>1. RegistryFollowsSockets'
    BY DisconnectKeepsRegistry
<1>2. DOMAIN connected' = DOMAIN connected \ {s} /\ connected' \in [DOMAIN connected' -> Actors]
    BY DEF Disconnect, Rows, Inv, TypeOK
<1>3. owed' \subseteq [version : Nat, team : BOOLEAN, socket : DOMAIN connected']
    BY <1>2 DEF Disconnect, Inv, TypeOK
<1>4. TypeOK'
    BY <1>2, <1>3 DEF Disconnect, Inv, TypeOK, team
<1>5. OneAtATime'
    BY DEF Disconnect, Inv, OneAtATime, Serial
<1> QED
    BY <1>1, <1>4, <1>5 DEF Inv

LEMMA RestartKeeps ==
    ASSUME Inv, Restart
    PROVE  Inv'
<1>1. DOMAIN connected' = {} /\ connected' \in [DOMAIN connected' -> Actors]
    BY DEF Restart
<1>2. TypeOK'
    BY <1>1, IdleType DEF Restart, Inv, TypeOK, team
<1>3. SocketsOf(Users)' = {}
    BY <1>1 DEF SocketsOf
<1>4. RegistryFollowsSockets'
    BY <1>3 DEF Restart, RegistryFollowsSockets, Rows
<1>5. OneAtATime'
    BY IdleType DEF Restart, Inv, OneAtATime, Serial
<1> QED
    BY <1>2, <1>4, <1>5 DEF Inv

LEMMA JoinCheckKeeps ==
    ASSUME Inv, NEW c \in Calls, NEW s \in DOMAIN connected, JoinCheck(c, s), c \in lanes
    PROVE  Inv'
<1> DEFINE request == [step |-> "JOIN", via |-> s]
<1>1. request \in Requests /\ request.step = "JOIN"
    BY DEF Requests, Inv, TypeOK
<1>2. Advance(c, request)
    BY DEF JoinCheck
<1> HIDE DEF request
<1> QED
    BY <1>1, <1>2, AdvanceKeeps DEF JoinCheck, team, sockets, Inv, TypeOK, Owable

LEMMA JoinRoomKeeps ==
    ASSUME Inv, NEW c \in Calls, JoinRoom(c)
    PROVE  Inv'
<1>1. call[c] # Idle /\ Advance(c, Idle)
    BY IdleType DEF JoinRoom, Finish
<1>2. room' \subseteq DOMAIN connected
    BY DEF JoinRoom, Inv, TypeOK
<1> QED
    BY <1>1, <1>2, IdleType, AdvanceKeeps DEF JoinRoom, team, Inv, TypeOK, Owable

LEMMA CommitKeeps ==
    ASSUME Inv, NEW c \in Calls, NEW actor \in Actors, NEW via \in Sockets \cup {NoSocket},
           NEW op \in Ops, Commit(c, actor, via, op), c \in lanes
    PROVE  Inv'
<1> DEFINE request == [step |-> IF op = "UPDATE" THEN Announcing(via) ELSE op,
                       actor |-> actor, via |-> via,
                       version |-> version + 1, payload |-> version + 1, to |-> {}]
           owing == [version : {version + 1}, team : {via = NoSocket},
                     socket : Audience(actor, via)]
<1>1. version \in Nat /\ version' = version + 1
    BY DEF Inv, TypeOK, Commit
<1>2. request \in Changes
    BY <1>1 DEF Changes, Ops, Announcing
<1>3. request.payload = version'
    BY <1>1
<1>4. call' = [call EXCEPT ![c] = request] /\ owed' = owed \cup owing
    BY DEF Commit, Advance
<1> HIDE DEF request
<1>5. Audience(actor, via) \subseteq DOMAIN connected
    BY DEF Audience, SocketsOf
<1>6. owing \subseteq Owable
    <2>1. version + 1 \in Nat /\ (via = NoSocket) \in BOOLEAN
        BY <1>1
    <2> QED
        BY <1>5, <2>1 DEF Owable
<1> HIDE DEF owing
<1>7. TypeOK'
    <2>1. call' \in [Calls -> Requests]
        BY <1>2, <1>4 DEF Inv, TypeOK, Requests, Changes
    <2>2. owed' \subseteq Owable
        BY <1>4, <1>6 DEF Inv, TypeOK, Owable
    <2> QED
        BY <1>1, <2>1, <2>2 DEF Inv, TypeOK, Owable, Commit, team, sockets
<1>8. RegistryFollowsSockets'
    BY DEF Commit, Inv, RegistryFollowsSockets, sockets, registry, SocketsOf, Rows
<1>9. call'[c] = request /\ \A d \in Calls \ {c} : call'[d] = call[d]
    BY <1>4 DEF Inv, TypeOK
<1>10. lanes' = lanes
    BY DEF Commit
<1>11. OneAtATime'
    BY <1>3, <1>9, <1>10, IdleType DEF Inv, OneAtATime, Serial
<1> QED
    BY <1>7, <1>8, <1>11 DEF Inv

LEMMA SilentKeeps ==
    ASSUME Inv, NEW c \in Calls, call[c] # Idle, Silent(c)
    PROVE  Inv'
<1>1. Advance(c, Idle) /\ owed' \subseteq Owable
    BY DEF Silent, Finish, Inv, TypeOK, Owable
<1> QED
    BY <1>1, IdleType, AdvanceKeeps DEF Silent, team, sockets, Inv, TypeOK

LEMMA RereadKeeps ==
    ASSUME Inv, NEW c \in Calls, Reread(c)
    PROVE  Inv'
<1>1. call[c] # Idle /\ call[c] \in Changes
    BY IdleType, RequestOf DEF Reread, Inv
<1>2. CASE Silent(c)
    BY <1>1, <1>2, SilentKeeps
<1>3. CASE ~Silent(c)
    <2> DEFINE request == [call[c] EXCEPT !.step = Announcing(call[c].via), !.payload = version]
    <2>1. request \in Changes
        BY <1>1 DEF Inv, TypeOK, Changes, Announcing
    <2>2. request.payload = version
        BY <1>1 DEF Changes
    <2>3. Advance(c, request) /\ UNCHANGED <<team, sockets, version, lanes, owed>>
        BY <1>3 DEF Reread
    <2> HIDE DEF request
    <2> QED
        BY <1>1, <2>1, <2>2, <2>3, AdvanceKeeps
        DEF Requests, Changes, team, sockets, Inv, TypeOK, Owable
<1> QED
    BY <1>2, <1>3

LEMMA ReadMembersKeeps ==
    ASSUME Inv, NEW c \in Calls, ReadMembers(c)
    PROVE  Inv'
<1> DEFINE request == [call[c] EXCEPT !.step = "SEND", !.actor = Anonymous,
                                      !.to = members \ {call[c].actor}]
<1>1. call[c] # Idle /\ call[c] \in Changes
    BY IdleType, RequestOf DEF ReadMembers, Inv
<1>2. request \in Changes
    BY <1>1 DEF Inv, TypeOK, Changes, Actors
<1>3. request.payload = call[c].payload
    BY <1>1 DEF Changes
<1>4. Advance(c, request)
    BY DEF ReadMembers
<1> HIDE DEF request
<1> QED
    BY <1>1, <1>2, <1>3, <1>4, AdvanceKeeps
    DEF ReadMembers, Requests, Changes, team, sockets, Inv, TypeOK, Owable

LEMMA SendKeeps ==
    ASSUME Inv, NEW c \in Calls, Send(c)
    PROVE  Inv'
<1>1. call[c] # Idle /\ Advance(c, Idle) /\ owed' \subseteq Owable
    BY IdleType DEF Send, Finish, Inv, TypeOK, Owable
<1> QED
    BY <1>1, IdleType, AdvanceKeeps DEF Send, team, sockets, Inv, TypeOK

-----------------------------------------------------------------------------
(* The theorems.                                                           *)

LEMMA InitEstablishes ==
    ASSUME Init
    PROVE  Inv
<1>1. TypeOK
    <2>1. OneCall \in Calls
        BY RealtimeAssumption DEF OneCall
    <2>2. DOMAIN connected = {} /\ connected \in [DOMAIN connected -> Actors]
        BY DEF Init
    <2> QED
        BY <2>1, <2>2, IdleType DEF Init, TypeOK
<1>2. RegistryFollowsSockets
    BY DEF Init, RegistryFollowsSockets, Rows, SocketsOf
<1>3. OneAtATime
    BY IdleType DEF Init, OneAtATime
<1> QED
    BY <1>1, <1>2, <1>3 DEF Inv

LEMMA StepKeeps ==
    ASSUME Inv, [Next]_vars
    PROVE  Inv'
<1>1. CASE UNCHANGED vars
    <2> QED
        BY <1>1, TeamKeeps DEF vars, team, Inv, TypeOK
<1>2. ASSUME NEW u \in Users, Join(u) \/ Leave(u)
      PROVE  Inv'
    BY <1>2, TeamKeeps DEF Join, Leave, Inv, TypeOK
<1>3. CASE SwitchAnonymousAccess
    BY <1>3, TeamKeeps DEF SwitchAnonymousAccess, Inv, TypeOK
<1>4. ASSUME NEW s \in Sockets, NEW actor \in Uses[s], Connect(s, actor)
      PROVE  Inv'
    <2>1. actor \in Actors
        BY RealtimeAssumption DEF Actors
    <2> QED
        BY <1>4, <2>1, ConnectKeeps
<1>5. ASSUME NEW s \in Sockets, Disconnect(s)
      PROVE  Inv'
    BY <1>5, DisconnectKeeps
<1>6. CASE Restart
    BY <1>6, RestartKeeps
<1>7. ASSUME NEW c \in lanes, Begin(c)
      PROVE  Inv'
    <2>1. c \in Calls
        BY DEF Inv, TypeOK
    <2>2. ASSUME NEW s \in DOMAIN connected, JoinCheck(c, s)
          PROVE  Inv'
        BY <2>1, <2>2, JoinCheckKeeps
    <2>3. ASSUME NEW op \in Ops, NEW actor \in Actors, Commit(c, actor, NoSocket, op)
          PROVE  Inv'
        BY <2>1, <2>3, CommitKeeps
    <2>4. ASSUME NEW op \in Ops, NEW s \in DOMAIN connected, Commit(c, connected[s], s, op)
          PROVE  Inv'
        <3>1. connected[s] \in Actors /\ s \in Sockets
            BY DEF Inv, TypeOK
        <3> QED
            BY <2>1, <2>4, <3>1, CommitKeeps
    <2> QED
        BY <1>7, <2>2, <2>3, <2>4 DEF Begin
<1>8. ASSUME NEW c \in Calls, Continue(c)
      PROVE  Inv'
    <2>1. CASE ReadMembersFails(c)
        BY <2>1, IdleType, SilentKeeps DEF ReadMembersFails
    <2> QED
        BY <1>8, <2>1, JoinRoomKeeps, RereadKeeps, ReadMembersKeeps, SendKeeps DEF Continue
<1> QED
    BY <1>1, <1>2, <1>3, <1>4, <1>5, <1>6, <1>7, <1>8 DEF Next

THEOREM Invariance == Spec => []Inv
BY InitEstablishes, StepKeeps, PTL DEF Spec

\* Whatever sockets open and close, in any order and however many a user has,
\* the maps of RealtimeService hold the sockets connected with a token, each
\* under its user, and nothing else.
THEOREM RegistryIsRight == Spec => []RegistryFollowsSockets
<1>1. Inv => RegistryFollowsSockets
    BY DEF Inv
<1> QED
    BY <1>1, Invariance, PTL

\* Calls made one at a time send events that show the board as it is, through
\* disconnects, restarts and failures of the query for the members.
THEOREM EventsAreCurrent == Spec => SerialEventsAreCurrent
<1>1. ASSUME Inv, NEW c \in Calls, Serial, Send(c)
      PROVE  call[c].payload = version
    BY <1>1 DEF Inv, OneAtATime, Send
<1>2. Inv /\ [Next]_vars => [\A c \in Calls : Serial /\ Send(c) => call[c].payload = version]_vars
    BY <1>1
<1> QED
    BY <1>2, Invariance, PTL DEF Spec, SerialEventsAreCurrent
=============================================================================
