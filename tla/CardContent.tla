----------------------------- MODULE CardContent -----------------------------
(***************************************************************************)
(* What the users of a board do to one card of it, to its likes and its    *)
(* comments, and to the settings that decide what of them is shown: the    *)
(* handlers of RetroController and TeamController with the methods of      *)
(* RetroService and TeamService they call, statement by statement.         *)
(*                                                                         *)
(* A handler is a list of statements, each a step that other calls may     *)
(* come between; the last one writes and answers.  Visitors without a      *)
(* token all act as one guest user, whose row the first of them creates.   *)
(* A text is represented by who wrote it.  Roles change by calls that are  *)
(* modelled in TeamAccess; ADMIN and OWNER may do the same here.           *)
(***************************************************************************)
EXTENDS Integers, Sequences, FiniteSets, SequencesExt

CONSTANTS
    Users,        \* those who have signed in
    Guest,        \* the user of visitors without a token
    Calls,        \* bound: calls in flight at a time, a set
    Repertoires,  \* bound: sets of operations, one of which clients use
    MaxComments,  \* bound: comments ever written
    MaxOverlaps   \* bound: how often a call begins while another is in flight

OfItem == {"LIKE", "EDIT", "DELETE", "COMMENT"}
OfComment == {"EDIT_COMMENT", "DELETE_COMMENT"}
OfTeam == {"HIDE_CARDS", "OPEN_BOARDS"}
Operations == OfItem \cup OfComment \cup OfTeam \cup {"SETTINGS"}

ASSUME ContentAssumption ==
    /\ Guest \notin Users
    /\ {MaxComments, MaxOverlaps} \subseteq Nat
    /\ Repertoires \subseteq SUBSET Operations

VARIABLES
    role,         \* user -> role in the team
    open,         \* Team.isAnonymousBoardAccessEnabled
    hidden,       \* Team.isAllCardsHidden
    showLikes,    \* RetroBoard.settings
    guestExists,  \* the guest has a row in users
    exists,       \* the card has its row
    likes,        \* RetroItem.likes, a list of users
    comments,     \* comment id -> [creator, text]
    lastComment,  \* autoincrement counter
    call,         \* call in flight -> what it has read and has yet to do
    lanes,        \* the calls that clients make: all of Calls, or one at a time
    overlaps,     \* how often a call has begun while another was in flight
    repertoire,   \* the operations that clients use
    witnessed,    \* history: what was true at some moment of a call in flight
    meant         \* history: likes and settings as calls made alone meant them

team == <<role, open, hidden>>
content == <<showLikes, exists, likes, comments>>
vars == <<team, content, guestExists, lastComment, call, lanes, overlaps,
          repertoire, witnessed, meant>>

Actors == Users \cup {Guest}
Idle == [op |-> "IDLE"]
Serial == \E c \in Calls : lanes = {c}

\* hasBoardAccess, and a role other than MEMBER.
HasAccess(a) == open \/ (a \in Users /\ role[a] # "NONE")
Manages(a) == a \in Users /\ role[a] = "MANAGER"

\* What is true now and matters to a call of a.
Facts(a) ==
    {f \in {"ACCESS", "MANAGER", "TEXT", "LIKES"} :
        \/ f = "ACCESS" /\ HasAccess(a)
        \/ f = "MANAGER" /\ Manages(a)
        \/ f = "TEXT" /\ ~hidden
        \/ f = "LIKES" /\ showLikes}

-----------------------------------------------------------------------------
(* The handlers.  Before it calls the service, a handler looks up the team *)
(* to tell of the change, which checks access a first time: CONTEXT, taken *)
(* as one statement since nothing read there is used again.                *)

\* FLAG: ensure...Accessible finds the row and reads the anonymous flag;
\* MEMBER: with the flag off, the row of the membership is needed.
ToggleItemLike == <<"CONTEXT", "READ_ITEM", "FLAG", "MEMBER", "WRITE">>
UpdateItem == <<"CONTEXT", "FLAG", "MEMBER", "READ_SETTINGS", "WRITE">>
DeleteItem == <<"CONTEXT", "FLAG", "MEMBER", "WRITE">>
CreateItemComment == <<"CONTEXT", "FLAG", "MEMBER", "WRITE">>
ManageCommentByAnyone ==  \* mutant: neither creator nor role is asked for
    <<"CONTEXT", "READ_COMMENT", "FLAG", "MEMBER", "WRITE">>
ManageComment == <<"CONTEXT", "READ_COMMENT", "FLAG", "MEMBER", "ROLE", "WRITE">>
UpdateBoardSettings == <<"CONTEXT", "ROLE", "READ_SETTINGS", "WRITE">>
UpdateTeamFlag == <<"ROLE", "WRITE">>

Handler ==
    [LIKE |-> ToggleItemLike, EDIT |-> UpdateItem, DELETE |-> DeleteItem,
     COMMENT |-> CreateItemComment, EDIT_COMMENT |-> ManageComment,
     DELETE_COMMENT |-> ManageComment, SETTINGS |-> UpdateBoardSettings,
     HIDE_CARDS |-> UpdateTeamFlag, OPEN_BOARDS |-> UpdateTeamFlag]

\* The argument of a call: the id of a comment, the value of a flag, a patch
\* that may leave showLikes out, or nothing.
Arguments(op) ==
    IF op \in OfComment THEN 1..lastComment
    ELSE IF op = "SETTINGS" THEN {"TRUE", "FALSE", "LEFT_OUT"}
    ELSE IF op \in OfTeam THEN BOOLEAN
    ELSE {0}

\* The row that the call is about is there.
Found(c) ==
    /\ call[c].op \in OfItem => exists
    /\ call[c].op \in OfComment => call[c].arg \in DOMAIN comments

-----------------------------------------------------------------------------

Init ==
    /\ role \in [Users -> {"NONE", "MEMBER", "MANAGER"}]
    /\ open \in BOOLEAN
    /\ hidden = FALSE
    /\ showLikes = TRUE
    /\ guestExists = FALSE
    /\ exists = TRUE
    /\ likes = <<>>
    /\ comments = <<>>
    /\ lastComment = 0
    /\ call = [c \in Calls |-> Idle]
    /\ lanes \in {Calls} \cup {{c} : c \in Calls}
    /\ overlaps = 0
    /\ repertoire \in Repertoires
    /\ witnessed = [c \in Calls |-> {}]
    /\ meant = [likes |-> {}, showLikes |-> TRUE]

\* TeamAccess: someone joins, leaves, or changes role.
ChangeRole(u, r) ==
    /\ Serial => \A c \in Calls : call[c] = Idle
    /\ r # role[u]
    /\ role' = [role EXCEPT ![u] = r]
    /\ UNCHANGED <<open, hidden, content, guestExists, lastComment, call, meant>>

Begin(c, op, a, arg) ==
    /\ call[c] = Idle
    /\ IF \A d \in Calls : call[d] = Idle
       THEN UNCHANGED overlaps
       ELSE overlaps < MaxOverlaps /\ overlaps' = overlaps + 1
    /\ op \in OfTeam => a \in Users
    /\ op = "COMMENT" => lastComment < MaxComments
    /\ call' = [call EXCEPT ![c] =
                    [op |-> op, actor |-> a, arg |-> arg,
                     todo |-> (IF a = Guest THEN <<"FIND_GUEST">> ELSE <<>>) \o Handler[op],
                     likes |-> <<>>, creator |-> Guest, showLikes |-> TRUE, shows |-> {}]]
    /\ UNCHANGED <<team, content, guestExists, lastComment, meant>>

AtStep(c, step) == call[c] # Idle /\ Head(call[c].todo) = step

\* The statement is done, with n of the list behind it.
Proceed(c, n, known) ==
    call' = [call EXCEPT ![c] = [known EXCEPT !.todo = SubSeq(@, n + 1, Len(@))]]

Finish(c) == call' = [call EXCEPT ![c] = Idle]

tables == <<team, content, guestExists, lastComment, meant>>

\* getOrCreateGuestUserId
FindGuestNever(c) ==  \* mutant: the guest is always created
    /\ AtStep(c, "FIND_GUEST")
    /\ call' = [call EXCEPT ![c].todo = <<"CREATE_GUEST">> \o Tail(@)]
    /\ UNCHANGED tables

FindGuest(c) ==
    /\ AtStep(c, "FIND_GUEST")
    /\ call' = [call EXCEPT ![c].todo =
                    (IF guestExists THEN <<>> ELSE <<"CREATE_GUEST">>) \o Tail(@)]
    /\ UNCHANGED tables

\* The e-mail is unique: the second of two first visitors fails.
CreateGuest(c) ==
    /\ AtStep(c, "CREATE_GUEST")
    /\ guestExists' = TRUE
    /\ IF guestExists THEN Finish(c) ELSE Proceed(c, 1, call[c])
    /\ UNCHANGED <<team, content, lastComment, meant>>

\* getItemRealtimeContext and its like.
Context(c) ==
    /\ AtStep(c, "CONTEXT")
    /\ IF Found(c) /\ HasAccess(call[c].actor) THEN Proceed(c, 1, call[c]) ELSE Finish(c)
    /\ UNCHANGED tables

ReadFlag(c) ==
    /\ AtStep(c, "FLAG")
    /\ IF ~Found(c) THEN Finish(c)
       ELSE Proceed(c, IF open THEN 2 ELSE 1, call[c])
    /\ UNCHANGED tables

ReadMember(c) ==
    /\ AtStep(c, "MEMBER")
    /\ LET a == call[c].actor IN
       IF a \in Users /\ role[a] # "NONE" THEN Proceed(c, 1, call[c]) ELSE Finish(c)
    /\ UNCHANGED tables

\* ensureBoardAdminOrOwner, ensureTeamAdminOrOwner; the end of
\* ensureCommentManageAccess, which the creator of the comment passes.
ReadRole(c) ==
    /\ AtStep(c, "ROLE")
    /\ LET own == call[c].op \in OfComment /\ call[c].creator = call[c].actor IN
       IF own \/ Manages(call[c].actor) THEN Proceed(c, 1, call[c]) ELSE Finish(c)
    /\ UNCHANGED tables

ShownUnmasked ==  \* mutant: the text is never masked
    {"TEXT"} \cup {f \in {"LIKES"} : showLikes}

\* What an answer shows of the card, by the flags as read now.
Shown == {f \in {"TEXT"} : ~hidden} \cup {f \in {"LIKES"} : showLikes}

ReadItem(c) ==
    /\ AtStep(c, "READ_ITEM")
    /\ IF exists
       THEN Proceed(c, 1, [call[c] EXCEPT !.likes = likes, !.shows = Shown])
       ELSE Finish(c)
    /\ UNCHANGED tables

ReadComment(c) ==
    /\ AtStep(c, "READ_COMMENT")
    /\ IF Found(c)
       THEN Proceed(c, 1, [call[c] EXCEPT !.creator = comments[call[c].arg].creator])
       ELSE Finish(c)
    /\ UNCHANGED tables

ReadSettings(c) ==
    /\ AtStep(c, "READ_SETTINGS")
    /\ IF ~Found(c) THEN Finish(c)
       ELSE IF call[c].op = "SETTINGS"
       THEN Proceed(c, 1, [call[c] EXCEPT !.showLikes = showLikes])
       ELSE Proceed(c, 1, [call[c] EXCEPT !.shows = Shown])
    /\ UNCHANGED tables

-----------------------------------------------------------------------------
(* The writes.  One that names a row which is gone fails.                  *)

Writes(c, op) == AtStep(c, "WRITE") /\ call[c].op \in op /\ Finish(c)

\* A write whose row is gone.
WriteFails(c) ==
    /\ Writes(c, OfItem \cup OfComment)
    /\ ~Found(c)
    /\ UNCHANGED tables

\* likes.indexOf(userId), of a user who is in the list.
IndexOf(list, a) ==
    CHOOSE n \in 1..Len(list) : list[n] = a /\ \A m \in 1..(n - 1) : list[m] # a

ToggledUnlessFirst(list, a) ==  \* mutant: index > 0 for index !== -1
    IF Contains(list, a) /\ IndexOf(list, a) > 1
    THEN RemoveAt(list, IndexOf(list, a)) ELSE Append(list, a)

Toggled(list, a) ==
    IF Contains(list, a) THEN RemoveAt(list, IndexOf(list, a)) ELSE Append(list, a)

\* What calls made alone mean to leave: kept while there is one at a time.
Meaning(new) == meant' = IF Serial THEN new ELSE meant

WriteLikes(c) ==
    /\ Writes(c, {"LIKE"})
    /\ Found(c)
    /\ likes' = Toggled(call[c].likes, call[c].actor)
    /\ Meaning([meant EXCEPT !.likes = SymDiff(@, {call[c].actor})])
    /\ UNCHANGED <<team, showLikes, exists, comments, guestExists, lastComment>>

\* updateItemDescription, updateItemColor: only the answer matters here.
WriteItem(c) ==
    /\ Writes(c, {"EDIT"})
    /\ Found(c)
    /\ UNCHANGED tables

WriteDeletion(c) ==
    /\ Writes(c, {"DELETE"})
    /\ Found(c)
    /\ exists' = FALSE
    /\ likes' = <<>>
    /\ comments' = <<>>
    /\ Meaning([meant EXCEPT !.likes = {}])
    /\ UNCHANGED <<team, showLikes, guestExists, lastComment>>

InsertComment(c) ==
    /\ Writes(c, {"COMMENT"})
    /\ Found(c)
    /\ lastComment < MaxComments
    /\ lastComment' = lastComment + 1
    /\ comments' = [k \in DOMAIN comments \cup {lastComment + 1} |->
                        IF k \in DOMAIN comments THEN comments[k]
                        ELSE [creator |-> call[c].actor, text |-> call[c].actor]]
    /\ UNCHANGED <<team, showLikes, exists, likes, guestExists, meant>>

WriteComment(c) ==
    /\ Writes(c, {"EDIT_COMMENT"})
    /\ Found(c)
    /\ comments' = [comments EXCEPT ![call[c].arg].text = call[c].actor]
    /\ UNCHANGED <<team, showLikes, exists, likes, guestExists, lastComment, meant>>

DeleteComment(c) ==
    /\ Writes(c, {"DELETE_COMMENT"})
    /\ Found(c)
    /\ comments' = [k \in DOMAIN comments \ {call[c].arg} |-> comments[k]]
    /\ UNCHANGED <<team, showLikes, exists, likes, guestExists, lastComment, meant>>

\* mergeBoardSettings: patch.showLikes ?? current.showLikes
MergedWithDefault(current, patch) == patch # "FALSE"  \* mutant: ?? the default

Merged(current, patch) ==
    IF patch = "LEFT_OUT" THEN current ELSE patch = "TRUE"

WriteSettings(c) ==
    /\ Writes(c, {"SETTINGS"})
    /\ showLikes' = Merged(call[c].showLikes, call[c].arg)
    /\ Meaning([meant EXCEPT !.showLikes =
                    CASE call[c].arg = "TRUE"     -> TRUE
                      [] call[c].arg = "FALSE"    -> FALSE
                      [] call[c].arg = "LEFT_OUT" -> @])
    /\ UNCHANGED <<team, exists, likes, comments, guestExists, lastComment>>

WriteTeamFlag(c) ==
    /\ Writes(c, OfTeam)
    /\ IF call[c].op = "HIDE_CARDS"
       THEN hidden' = call[c].arg /\ UNCHANGED open
       ELSE open' = call[c].arg /\ UNCHANGED hidden
    /\ UNCHANGED <<role, content, guestExists, lastComment, meant>>

Write(c) ==
    \/ WriteLikes(c) \/ WriteItem(c) \/ WriteDeletion(c) \/ InsertComment(c)
    \/ WriteComment(c) \/ DeleteComment(c) \/ WriteSettings(c) \/ WriteTeamFlag(c)

Read(c) ==
    \/ FindGuest(c) \/ CreateGuest(c) \/ Context(c) \/ ReadFlag(c) \/ ReadMember(c)
    \/ ReadRole(c) \/ ReadItem(c) \/ ReadComment(c) \/ ReadSettings(c)

\* A call in flight witnesses every state from the one it begins in.
Witness ==
    witnessed' = [c \in Calls |->
        IF call'[c] = Idle THEN {}
        ELSE witnessed[c] \cup
             UNION {Facts(a)' : a \in {b \in Actors : call'[c].actor = b}}]

Next ==
    /\ \/ \E u \in Users, r \in {"NONE", "MEMBER", "MANAGER"} : ChangeRole(u, r) /\ UNCHANGED overlaps
       \/ \E c \in lanes, op \in repertoire, a \in Actors :
            \E arg \in Arguments(op) : Begin(c, op, a, arg)
       \/ \E c \in Calls : (Read(c) \/ Write(c) \/ WriteFails(c)) /\ UNCHANGED overlaps
    /\ Witness
    /\ UNCHANGED <<lanes, repertoire>>

Spec == Init /\ [][Next]_vars

-----------------------------------------------------------------------------

TypeOK ==
    /\ role \in [Users -> {"NONE", "MEMBER", "MANAGER"}]
    /\ {open, hidden, showLikes, guestExists, exists} \subseteq BOOLEAN
    /\ likes \in Seq(Actors)
    /\ DOMAIN comments \subseteq 1..lastComment
    /\ comments \in [DOMAIN comments -> [creator : Actors, text : Actors]]

\* Nobody is in the list of likes twice, whatever lists the toggles of others
\* write back: indexOf and splice take one entry out.
LikedOnce == IsInjective(likes)

\* What the call c may only do with.
Needed(c) ==
    IF call[c].op \in OfComment
    THEN {"ACCESS"} \cup (IF comments[call[c].arg].creator = call[c].actor
                          THEN {} ELSE {"MANAGER"})
    ELSE IF call[c].op \in OfTeam \cup {"SETTINGS"} THEN {"MANAGER"}
    ELSE {"ACCESS"}

\* Whatever changes in the team while a call is under way, it writes nothing
\* that its actor had no right to at any moment since it began: checks come
\* before writes, and a comment is its creator's or a manager's to change.
WritesAreAuthorised ==
    [][\A c \in Calls : Write(c) => Needed(c) \subseteq witnessed[c]]_vars

\* An answer, which is also what the team is sent, shows the text of a card or
\* its likes only if they were not hidden for all of the call.
AnswersHideWhatIsHidden ==
    [][\A c \in Calls : Write(c) => call[c].shows \subseteq witnessed[c]]_vars

\* Made one at a time, calls leave the likes as users toggled them and the
\* settings as patched, one with showLikes left out changing nothing.
SerialNothingLost ==
    Serial => /\ ToSet(likes) = meant.likes
              /\ showLikes = meant.showLikes

\* Made one at a time, a call is refused only for a missing row or right:
\* visitors without a token are served on an open board (README:222).
SerialRefusedForCause ==
    [][\A c \in Calls :
        /\ Serial
        /\ call[c] # Idle /\ call'[c] = Idle
        /\ ~Write(c)
        => ~Found(c) \/ ~(Needed(c) \subseteq Facts(call[c].actor))]_vars
=============================================================================
