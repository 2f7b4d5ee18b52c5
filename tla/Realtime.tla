------------------------------ MODULE Realtime ------------------------------
(***************************************************************************)
(* Who hears of a change to a board: the sockets of RetroGateway, the maps *)
(* of RealtimeService that say which user a socket belongs to, the room of *)
(* the board, and the calls whose events go out after their answer is      *)
(* known.  One team with one board, whose contents are a version number.   *)
(*                                                                         *)
(* An HTTP call reads the members of the team and sends to the registered  *)
(* sockets of all but its author; a socket command sends to the room of    *)
(* the board but for the socket it came through.  Members and the          *)
(* anonymous flag change by calls that are modelled elsewhere.  A message  *)
(* handed to Socket.IO reaches a connected socket.                         *)
(***************************************************************************)
EXTENDS Integers, FiniteSets

CONSTANTS
    Users,       \* those who have signed in
    Sockets,     \* bound: sockets connected or in use by a call at a time
    Uses,        \* bound: socket -> who may connect through it
    Calls,       \* bound: calls in flight at a time, a set
    MaxVersion,  \* bound: changes to the board
    Anonymous,   \* the guest user of calls and sockets without a token
    NoSocket     \* an HTTP call comes through no socket

ASSUME RealtimeAssumption ==
    /\ Anonymous \notin Users
    /\ NoSocket \notin Sockets
    /\ Uses \in [Sockets -> SUBSET (Users \cup {Anonymous})]
    /\ Calls # {}
    /\ MaxVersion \in Nat

VARIABLES
    members,        \* userIds of the rows of team_members
    open,           \* isAnonymousBoardAccessEnabled
    connected,      \* socket that connected -> its user, until it disconnects
    userSocketIds,  \* RealtimeService: user -> set of sockets
    socketUserIds,  \* RealtimeService: socket -> user
    room,           \* the sockets in the room of the board
    version,        \* how often the board has been changed
    call,           \* call in flight -> what it has done and knows
    lanes,          \* the calls that clients make: all of Calls, or one at a time
    owed            \* history: the events that sockets have coming

team == <<members, open>>
registry == <<userSocketIds, socketUserIds>>
sockets == <<connected, registry, room>>
vars == <<team, sockets, version, call, lanes, owed>>

Actors == Users \cup {Anonymous}

\* hasBoardAccess
HasAccess(actor) == open \/ actor \in members

Idle == [step |-> "IDLE"]

OneCall == CHOOSE c \in Calls : TRUE

Serial == \E c \in Calls : lanes = {c}

Rows(f, keys) == [k \in keys |-> f[k]]

SocketsOf(users) == {s \in DOMAIN connected : connected[s] \in users}

-----------------------------------------------------------------------------

Init ==
    /\ members \in SUBSET Users
    /\ open \in BOOLEAN
    /\ connected = <<>>
    /\ userSocketIds = <<>>
    /\ socketUserIds = <<>>
    /\ room = {}
    /\ version = 0
    /\ call = [c \in Calls |-> Idle]
    /\ lanes \in {Calls, {OneCall}}
    /\ owed = {}

(* The team changes; one who leaves has nothing coming from it any more.   *)

Join(u) ==
    /\ members' = members \cup {u}
    /\ UNCHANGED <<open, sockets, version, call, lanes, owed>>

Leave(u) ==
    /\ members' = members \ {u}
    /\ owed' = {o \in owed : ~(o.team /\ connected[o.socket] = u)}
    /\ UNCHANGED <<open, sockets, version, call, lanes>>

SwitchAnonymousAccess ==
    /\ open' = ~open
    /\ UNCHANGED <<members, sockets, version, call, lanes, owed>>

(* handleConnection and handleDisconnect.  Socket ids are random: none that  *)
(* a call in flight still uses comes back.                                 *)

Register(s, u) ==
    LET had == IF u \in DOMAIN userSocketIds THEN userSocketIds[u] ELSE {} IN
    /\ userSocketIds' = [v \in DOMAIN userSocketIds \cup {u} |->
                            IF v = u THEN had \cup {s} ELSE userSocketIds[v]]
    /\ socketUserIds' = [t \in DOMAIN socketUserIds \cup {s} |->
                            IF t = s THEN u ELSE socketUserIds[t]]

Connect(s, actor) ==
    /\ s \notin DOMAIN connected
    /\ \A c \in Calls : call[c] # Idle => call[c].via # s
    /\ connected' = [t \in DOMAIN connected \cup {s} |->
                        IF t = s THEN actor ELSE connected[t]]
    /\ IF actor \in Users THEN Register(s, actor) ELSE UNCHANGED registry
    /\ UNCHANGED <<team, room, version, call, lanes, owed>>

UnregisterUser(s) ==  \* mutant: the user goes with the first socket closed
    IF s \notin DOMAIN socketUserIds
    THEN UNCHANGED registry
    ELSE /\ socketUserIds' = Rows(socketUserIds, DOMAIN socketUserIds \ {s})
         /\ userSocketIds' =
                Rows(userSocketIds, DOMAIN userSocketIds \ {socketUserIds[s]})

UnregisterKeepingUser(s) ==  \* mutant: the entry of a user is never deleted
    IF s \notin DOMAIN socketUserIds
    THEN UNCHANGED registry
    ELSE /\ socketUserIds' = Rows(socketUserIds, DOMAIN socketUserIds \ {s})
         /\ userSocketIds' = [userSocketIds EXCEPT ![socketUserIds[s]] = @ \ {s}]

Unregister(s) ==
    IF s \notin DOMAIN socketUserIds
    THEN UNCHANGED registry
    ELSE LET u    == socketUserIds[s]
             left == userSocketIds[u] \ {s}
         IN  /\ socketUserIds' = Rows(socketUserIds, DOMAIN socketUserIds \ {s})
             /\ userSocketIds' =
                    IF left = {}
                    THEN Rows(userSocketIds, DOMAIN userSocketIds \ {u})
                    ELSE [userSocketIds EXCEPT ![u] = left]

Disconnect(s) ==
    /\ s \in DOMAIN connected
    /\ connected' = Rows(connected, DOMAIN connected \ {s})
    /\ Unregister(s)
    /\ room' = room \ {s}
    /\ owed' = {o \in owed : o.socket # s}
    /\ UNCHANGED <<team, version, call, lanes>>

\* The process stops: the database stays, sockets and maps are lost, and with
\* them the calls in flight and the events they were about to send.
Restart ==
    /\ connected' = <<>>
    /\ userSocketIds' = <<>>
    /\ socketUserIds' = <<>>
    /\ room' = {}
    /\ call' = [c \in Calls |-> Idle]
    /\ owed' = {}
    /\ UNCHANGED <<team, version, lanes>>

-----------------------------------------------------------------------------
(* The calls.                                                              *)

Advance(c, request) == call' = [call EXCEPT ![c] = request]

Finish(c) == Advance(c, Idle)

\* board.join: the socket enters the room after the await of the check.  One
\* that has been closed meanwhile is of no consequence there.
JoinCheck(c, s) ==
    /\ call[c] = Idle
    /\ s \in DOMAIN connected
    /\ HasAccess(connected[s])
    /\ Advance(c, [step |-> "JOIN", via |-> s])
    /\ UNCHANGED <<team, sockets, version, lanes, owed>>

JoinRoom(c) ==
    /\ call[c].step = "JOIN"
    /\ room' = room \cup ({call[c].via} \cap DOMAIN connected)
    /\ Finish(c)
    /\ UNCHANGED <<team, connected, registry, version, lanes, owed>>

\* The sockets that an event about the change has to reach.
Audience(actor, via) ==
    IF via = NoSocket
    THEN SocketsOf(members \ {actor})
    ELSE (room \cap DOMAIN connected) \ {via}

\* What a call does once its answer is known.
Announcing(via) == IF via = NoSocket THEN "MEMBERS" ELSE "SEND"

\* The service has written.  A single statement answers with what it wrote;
\* the syncs and reorderColumns read the board again.  The gateway has those
\* two and board.rename, which takes a member whatever the anonymous flag.
CommitReadBefore(c, actor, via, op) ==  \* mutant: the answer is read first
    /\ call[c] = Idle
    /\ version < MaxVersion
    /\ HasAccess(actor)
    /\ version' = version + 1
    /\ Advance(c, [step |-> Announcing(via), actor |-> actor, via |-> via,
                   version |-> version + 1, payload |-> version, to |-> {}])
    /\ UNCHANGED <<team, sockets, lanes, owed>>

Commit(c, actor, via, op) ==
    /\ call[c] = Idle
    /\ version < MaxVersion
    /\ IF op = "UPDATE" /\ via # NoSocket
       THEN actor \in members
       ELSE HasAccess(actor)
    /\ version' = version + 1
    /\ Advance(c, [step |-> IF op = "UPDATE" THEN Announcing(via) ELSE op,
                   actor |-> actor, via |-> via,
                   version |-> version + 1, payload |-> version + 1, to |-> {}])
    /\ owed' = owed \cup [version : {version + 1}, team : {via = NoSocket},
                          socket : Audience(actor, via)]
    /\ UNCHANGED <<team, sockets, lanes>>

\* The call ends with an error after its write: nobody is told.
Silent(c) ==
    /\ owed' = {o \in owed : o.version # call[c].version}
    /\ Finish(c)
    /\ UNCHANGED <<team, sockets, version, lanes>>

\* reorderColumns answers with getBoardColumns, which checks access again.
Reread(c) ==
    /\ call[c].step \in {"SYNC", "REORDER"}
    /\ IF call[c].step = "REORDER" /\ ~HasAccess(call[c].actor)
       THEN Silent(c)
       ELSE /\ Advance(c, [call[c] EXCEPT !.step = Announcing(call[c].via),
                                          !.payload = version])
            /\ UNCHANGED <<team, sockets, version, lanes, owed>>

ReadMembers(c) ==
    /\ call[c].step = "MEMBERS"
    /\ Advance(c, [call[c] EXCEPT !.step = "SEND", !.actor = Anonymous,
                                  !.to = members \ {call[c].actor}])
    /\ UNCHANGED <<team, sockets, version, lanes, owed>>

\* The query of emitToTeam fails.
ReadMembersFails(c) == call[c].step = "MEMBERS" /\ Silent(c)

\* The sockets that the event is sent to: emitToTeam looks them up in its map.
Recipients(c) ==
    IF call[c].via = NoSocket
    THEN UNION {userSocketIds[u] : u \in call[c].to \cap DOMAIN userSocketIds}
    ELSE room \ {call[c].via}

Send(c) ==
    /\ call[c].step = "SEND"
    /\ LET reached == Recipients(c) \cap DOMAIN connected IN
       owed' = {o \in owed : ~(o.version = call[c].version /\ o.socket \in reached)}
    /\ Finish(c)
    /\ UNCHANGED <<team, sockets, version, lanes>>

-----------------------------------------------------------------------------

Ops == {"UPDATE", "SYNC", "REORDER"}

Begin(c) ==
    \/ \E s \in DOMAIN connected : JoinCheck(c, s)
    \/ \E op \in Ops :
        \/ \E actor \in Actors : Commit(c, actor, NoSocket, op)
        \/ \E s \in DOMAIN connected : Commit(c, connected[s], s, op)

Continue(c) ==
    JoinRoom(c) \/ Reread(c) \/ ReadMembers(c) \/ ReadMembersFails(c) \/ Send(c)

Next ==
    \/ \E u \in Users : Join(u) \/ Leave(u)
    \/ SwitchAnonymousAccess
    \/ \E s \in Sockets : \E actor \in Uses[s] : Connect(s, actor)
    \/ \E s \in Sockets : Disconnect(s)
    \/ Restart
    \/ \E c \in lanes : Begin(c)
    \/ \E c \in Calls : Continue(c)

\* A statement that was sent is answered and Node.js runs what awaits it.
\* Nothing is assumed of clients, sockets or restarts.
Fairness == \A c \in Calls : WF_vars(Continue(c))

Spec == Init /\ [][Next]_vars /\ Fairness

-----------------------------------------------------------------------------

\* What a call in flight may be.
Requests ==
    {Idle} \cup [step : {"JOIN"}, via : Sockets]
    \cup [step : {"SYNC", "REORDER", "MEMBERS", "SEND"}, actor : Actors,
          via : Sockets \cup {NoSocket}, version : Nat, payload : Nat,
          to : SUBSET Users]

TypeOK ==
    /\ members \subseteq Users
    /\ open \in BOOLEAN
    /\ connected \in [DOMAIN connected -> Actors]
    /\ DOMAIN connected \subseteq Sockets
    /\ room \subseteq DOMAIN connected
    /\ version \in Nat
    /\ call \in [Calls -> Requests]
    /\ lanes \subseteq Calls
    /\ owed \subseteq [version : Nat, team : BOOLEAN, socket : DOMAIN connected]

\* The two maps of RealtimeService tell the same, they hold the sockets now
\* connected with a token and no other, and no user is left with an empty set:
\* whatever order tabs open and close in, no event goes astray and nothing
\* piles up.
RegistryFollowsSockets ==
    /\ socketUserIds = Rows(connected, SocketsOf(Users))
    /\ userSocketIds =
        [u \in {connected[s] : s \in SocketsOf(Users)} |-> SocketsOf({u})]

\* A change is announced to every socket it concerns, the tabs of members or
\* the room, unless the socket closes, its user leaves the team, the call fails
\* after its write or the process stops: commits and joins in between, of
\* anyone, do not lose an event.
EventsArrive ==
    \A v \in 1..MaxVersion, s \in Sockets :
        (\E o \in owed : o.version = v /\ o.socket = s)
            ~> ~(\E o \in owed : o.version = v /\ o.socket = s)

\* Calls made one at a time tell of the board as it is: no client is left with
\* a state older than one it was sent before.
SerialEventsAreCurrent ==
    [][\A c \in Calls : Serial /\ Send(c) => call[c].payload = version]_vars
=============================================================================
