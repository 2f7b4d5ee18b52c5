# Retro backend: TLA+ specifications

Specifications of the backend of a retrospective-board application (NestJS,
Prisma, PostgreSQL; the code is under `src/src/`, the schema is
`src/prisma/schema.prisma`). They cover the parts where order, concurrency and
time decide whether the data stays right: the layout of boards, the content of
a card, the board timer, teams and share links, refresh tokens, signing in with
Google, and who is told of a change over WebSockets.
Every module is translated from the code of the service that it names;
`PROJECT.json` says for each definition which lines it stands for.

Contents:
[the system](#1-the-system) ·
[modules](#2-the-modules) ·
[runs](#3-what-the-runs-check) ·
[bounds](#4-bounds-and-abstractions) ·
[fairness](#5-fairness) ·
[proofs](#6-what-is-proved) ·
[disagreements](#7-where-code-and-text-disagree) ·
[not modelled](#8-what-is-not-modelled) ·
[plan](#9-plan)

## 1. The system

One Node.js process serves HTTP and WebSocket clients. The services keep their
state in PostgreSQL. JavaScript code between two `await`s is atomic; between
two database statements any other request may run. The few transactions run at
PostgreSQL's default level, READ COMMITTED, so what a transaction has read may
change before it writes. There are no row locks and no version columns: what
holds under concurrency is held by unique constraints, foreign keys and
conditional updates alone.

| component | state | operations | made correct by |
| --- | --- | --- | --- |
| **Boards** `retro.service.ts` | `boards`, `columns`, `groups`, `items` with `orderIndex`, `rowIndex` and foreign keys | create board/column/group/card, reorder columns, `syncItemPositions`, `syncGroupPositions`, delete column/group/card | one order per column and per group; cards in the column of their group; a move does to the list what a splice does; a call touches one board |
| **Card content** `retro.service.ts`, `retro.controller.ts` | likes (an array in the row), comments, colours, descriptions, board settings (JSON), the team's flags | toggle like, edit, delete, comment CRUD, settings patch, flags | no update lost; checks before writes; hidden things not shown |
| **Timer** `timer/*` | one row per board: `RUNNING` with `endsAt` or `PAUSED` with `remainingSeconds` | start, pause, resume, delete; a cleanup each interval | no time is gained; only expired timers vanish by themselves; expired timers do vanish |
| **Teams** `team.service.ts` | `teams`, `team_members` (role OWNER, ADMIN or MEMBER) | create, add, remove, leave, change a role | owner rules; memberships end by the call that found them; authorised joins |
| **Share links** `team-invite/*` | one `team_invites` row per board: code, `isActive` | get-or-create, regenerate, revoke, accept | retired codes stay retired; a link handed out works until it is replaced on purpose |
| **Tokens** `auth.service.ts` | `users.passwordHash`, `refresh_tokens` | register, login, refresh, logout, change password | one live descendant per token; revocation is final; sessions follow the password |
| **Google sign-in** `google-oauth.service.ts` | `oauth_states`, `auth_exchange_tokens`, links of users to Google accounts, a cache of certificates in memory | start, callback, exchange, fetch of certificates | one-time states and exchange tokens; the user signed in is the one linked; withdrawn keys fade |
| **Anonymous actor, board access** `anonymous-actor.service.ts`, guards | the guest user | resolve the actor, check membership or the anonymous flag | visitors are served where the board is open, and nowhere else |
| **Gateway and broadcasts** `retro.gateway.ts`, `realtime.service.ts` | two maps between users and sockets, rooms by board, in memory | connect, disconnect, join, commands, `emitToTeam` | maps that follow the sockets; every event arrives; events show the board as it is |
| **Controllers, bootstrap** | none | validation, routing, a broadcast after each call | — |

Interactions. A controller validates a request, looks up whom to tell (which
checks access a first time), calls one service method and then broadcasts
through the realtime service, which reads the members of the team and sends to
their registered sockets. A gateway command calls the same service and sends to
the room of the board instead. Boards, timers and links ask
the team tables for the caller's role. Accepting a link writes a membership.
Google sign-in issues its tokens through `AuthService` and creates or links
users that `register` may create at the same time. `TimerCleanupService` works
on the timer rows beside the calls. The schema cascades: deleting a column
deletes its groups and cards, deleting a group clears `groupId`.

What is hard here (`PROJECT.json` lists each hazard with its line):

- *Stale reads.* Nearly every call reads rows, decides, and writes by id what
  may be another state by then: timer, members, links, tokens, Google links.
- *Sorting with tie-breaks.* Sync requests write the raw indexes of a client
  and then sort, breaking ties by direction of move, order of changes, type and
  id. Cards and groups share one index space per column.
- *One-time things repeated.* Callbacks, exchanges and refreshes arrive twice.
- *Time.* Remainders rounded up to a second, tokens equal within a second,
  cleanup cut-offs taken before the DELETE, certificates that arrive late.
- *Partial failure.* A refresh has already revoked the old token when the rest
  of it fails or the process stops; a change is committed when the query for
  whom to tell fails.
- *Several tabs.* Sockets of one user open and close in any order while events
  are on their way to them.

## 2. The modules

| module | models | extends |
| --- | --- | --- |
| `RetroBoard` | every call that creates, moves or deletes boards, columns, groups and cards; one call, one step | |
| `RetroBoardOrder` | what a client sees of it: columns as sequences, moves as splices | `RetroBoard` |
| `BoardRequests`, `MCBoardRequests` | the same calls statement by statement, in transactions at READ COMMITTED that may abort; instantiates `RetroBoard` | `RetroBoardOrder` |
| `RetroBoard_proofs` | types, the order of columns, the layout, what a client sees, and the types of interleaved calls | `RetroBoardOrder`, `BoardRequests`, TLAPS |
| `BoardRequests_proofs` | calls made one at a time implement `RetroBoard`; what a transaction leaves of the order of a column when others interleave with it | `RetroBoard_proofs` |
| `CardContent`, `MCCardContent` | one card with likes and comments, the settings, the flags of the team, the guest user: handlers as lists of statements | |
| `CardContent_proofs` | likes, checks before writes, hidden content, calls made one at a time | `CardContent`, TLAPS |
| `BoardTimer` | the calls on one timer, statement by statement, and the cleanup | |
| `BoardTimerPromise` | the timer as its users are promised it; `BoardTimer` instantiates it | |
| `BoardTimer_proofs` | no timer without or with too much time, the cleanup, the refinement | `BoardTimer`, TLAPS |
| `TeamAccess`, `MCTeamAccess` | one team and the link of one of its boards, statement by statement | |
| `TeamAccess_proofs` | the OWNER, memberships, codes; calls made one at a time | `TeamAccess`, TLAPS |
| `RefreshTokens`, `MCRefreshTokens` | password and refresh tokens of one user, statement by statement, with restarts | |
| `RefreshTokens_proofs` | its proofs | `RefreshTokens`, TLAPS |
| `GoogleOAuth`, `MCGoogleOAuth` | states, exchange tokens and account links, statement by statement | |
| `GoogleCerts` | the cache of certificates | |
| `GoogleOAuth_proofs` | one-time states and exchanges, logins; withdrawn keys fade | `GoogleOAuth`, `GoogleCerts`, TLAPS |
| `Realtime`, `MCRealtime` | sockets, the maps of `RealtimeService`, the room of a board, and events on their way | |
| `Realtime_proofs` | the maps, and events of calls made one at a time | `Realtime`, TLAPS |

What is not in the code: `lanes` in the modules with calls in flight. It never
changes and is the set of calls that clients make: all of `Calls`, or one.
`Serial` is the second case; a property named `Serial...` is about it. One
specification then shows both what holds however calls overlap and what holds
only while they do not.

### RetroBoard

The tables are functions from id to row: `columns`, `groups`, `items`; `lastId`
holds the autoincrement counters. `groupId` null is `NoGroup`.

| action | code |
| --- | --- |
| `CreateBoard`, `CreateColumn`, `CreateGroup` | `createBoard`, `createColumn`, `createGroup` (next index is the last plus one) |
| `AddItemToColumn` | `addItemToColumn`: everything at the root, or in the group, moves down by one |
| `ReorderColumns` | `reorderColumns`: splice in the sorted list, all columns rewritten |
| `SyncItemPositions`, `SyncGroupPositions` | the same names: write the changes in order, then renumber groups and column roots |
| `DeleteColumn`, `DeleteGroup`, `DeleteItem` | the same names, with the cascades of the schema |

`Precedes` is the comparator of `normalizeColumnRootEntryOrder`, `Moved` the
mark it uses for entries that the request moved. A normalised index is the
`Place` of an entry: its `Rank`, the number of entries before it, wherever the
comparator is an order on the entries. It need not be: of three entries with
one index, of which two were moved by the request, the two are compared by the
order of their changes and each with the third by id, which can make a cycle.
Then `Array.sort` promises nothing but a permutation, and so does `Place`. `ItemSync`, `GroupSync`
and `GroupDeletion` are whole transactions as pure operators.

### BoardRequests

It has the tables of `RetroBoard`, which hold what is committed; `call[c]`, the
statement a call has come to and what it has read; and `wrote[c]`, the rows its
transaction has written and not committed (`Gone` for one deleted). A statement
of `c` sees `MyItems(c)`, `MyGroups(c)`, `MyColumns(c)`: its own writes laid over
what others have committed by then (`Seen`), and nothing of what they have not.
That is READ COMMITTED, the level of every transaction of the service.

`...Read` is everything before the transaction: `CreateColumnRead` and
`CreateGroupRead` compute the next index, `ReorderRead` the list with one
column moved, the sync requests hold the rows they name (`before`), the
deletions the row they delete (`old`). The actions that follow are the
statements of the transaction:

| code | actions |
| --- | --- |
| `addItemToColumn` | `AddItemFindItems`, `AddItemFindGroups`, `AddItemInsert`: each `updateMany` finds its rows in one step and writes in the next those that still match |
| `syncItemPositions` | `SyncItemsUpdate`, then the normalisation |
| `syncGroupPositions` | `SyncGroupsUpdate` and, where the column changes, `SyncGroupsCarry`, for each change; then the normalisation |
| `deleteColumn` | `DeleteColumnDelete`, `DeleteColumnDecrement` |
| `deleteGroup` | `UngroupReadItems`, `UngroupReadGroups`, `UngroupReadMembers`, `UngroupWrite`, then the normalisation |
| normalisation | `ReadMembers` for each group, `ReadRootItems` and `ReadRootGroups` for each column, `CommitOrder` |
| `createColumn`, `createGroup`, `reorderColumns` | one statement, or a batch that reads nothing: `...Insert`, `ReorderWrite` |

*Why these are enough steps.* Every SELECT of a transaction, and the search of
every `updateMany`, has a step of its own, since other calls may commit before
it. An UPDATE or DELETE by id reads nothing that the transaction uses later and
stays unseen until the commit; all it does to others is to lock its row. To do
it later in its transaction, up to the next statement that reads, lets others do
more and hides nothing they could see: so a run of such updates is part of the
statement that follows (`Renumbering`), or one step (`UngroupWrite`). The
reads *ahead of* a transaction are one step; what is lost is a commit between two
of them, as between the two queries of `getNextRootEntryIndex`. These reads are
stale by the time of the write anyway.

*Locks and aborts.* A statement that meets a row another transaction has
written, or deletes a row that another one refers to by a foreign key, waits
(`Apart`, `CanInsert`). `Abort` is always possible: a row that is gone, a
deadlock, the timeout of an interactive transaction, a failing database. It
leaves nothing behind.

`foreign[c]` is a history variable: the root entries whose rows other calls have
committed since `c`, a sync or the deletion of a group, made the first statement
of its transaction. `SyncRepairsOrder` is about the others.

`Atomic` is `RetroBoard` instantiated with these tables where calls are made one
at a time, and with tables that stay empty where they are not:
`SerialCallsAreAtomic` is the claim that the statements of a call with no other
between them come to the one step of `RetroBoard` at the commit, or to none, so
that what is proved there holds here.

### CardContent

A handler is a list of statements, taken from the controller and the service
methods it calls: `ToggleItemLike` is the lookup of whom to tell (`CONTEXT`), the
read of the card, the anonymous flag, the membership if the flag is off, and the
write. `call[c].todo` is what a call has left; each statement is an action
(`ReadFlag`, `ReadRole`, `WriteLikes`, ...) and other calls come between any two.
A call of a visitor without a token starts with `FIND_GUEST`, the lookup of
`getOrCreateGuestUserId`. What a like or a settings patch writes is
computed from what was read (`Toggled`, `Merged`). A text is represented by who
wrote it, and `shows` is what an answer shows of the card.

Two history variables: `witnessed[c]` is what was true, at some moment since call
`c` began, of its actor's rights and of the flags; `meant` is what toggles and
patches made one at a time mean to leave.

### BoardTimer

`timer` is the row. `call[c]` is a call in flight with the row that it read or
is about to write; `cleanups` are the cut-off times whose DELETE has not run.
`PauseRead`, `PauseDecide`, `PauseWrite` or `ExpireDelete` are the statements of
`pauseTimer`, with the look at the clock as a step of its own; likewise for
start and resume. `CleanupFire`, `CleanupDelete` and `CleanupFail` are
`setInterval`, `deleteMany` and its failure. `BoardTimerPromise` has one step
per operation: a pause keeps at least the time that was left and at most what
there was; a resume continues exactly from it. The writes of `BoardTimer` map to
its steps, the reads before them to none.

### TeamAccess

`members` maps a user to their `team_members` row, `invite` is the link of the
board, `call` what each call has read: who calls, whom it is about, the id of
the row found. Each statement is an action: `AddCheck`, `AddLook`, `AddCreate`
are `addMember`, and so on. A write by id hits nothing when the row is gone,
even if the user has joined again. Unique constraints make `AddCreate` and
`LinkCreate` fail or fall back. Codes are numbered in the order of writing.

### RefreshTokens

A refresh token is a JWT whose payload is the user and the times of issue and
expiry in whole seconds, so the text is a function of user and second: here a
token *is* the second in which it was signed, and the unique `tokenHash` makes
`Store` fail on a second one. `origin` is a history variable, not in the code:
from which token, and in the end from which password, a token was obtained.
`Restart` ends every call in flight where it is. Access tokens are not stored
and not modelled.

### GoogleOAuth and GoogleCerts

`users` maps an e-mail to its row with the linked account (`sub`). `StateLook`
and `Consume` are the read and the conditional update of `consumeState`;
`FindBySub`, `Update`, `FindByEmail`, `Link`, `Create` and `Fallback` the
statements of `findOrCreateGoogleUser`; `CreateExchange`, `ExchangeLook` and
`ExchangeUse` the exchange. What Google says (`Identify`, `Fail`) is a choice of
the environment, and so is the passing of time (`Expire`). `admitted` and
`delivered` are history variables: how often a state or an exchange token did
its work. `GoogleCerts` is about `getGoogleCertByKid`: `Rotate` changes what
Google publishes, answers arrive late and in any order; `last` is a history
variable, when each key was last published.

### Realtime

`connected` are the sockets, `userSocketIds` and `socketUserIds` the maps of
`RealtimeService`, `room` the room of one board in Socket.IO. `Connect` and
`Disconnect` are `handleConnection` and `handleDisconnect` with `registerSocket`
and `unregisterSocket`. The content of the board is a version number. A call is
`Commit` (the service has written), for the sync requests and `reorderColumns`
`Reread` (they answer with the board as it is by then), `ReadMembers` (the query
of `emitToTeam`, which may fail) and `Send`; a command of the gateway has no
members to read. `JoinCheck` and `JoinRoom` are `board.join` around its `await`.
`Restart` loses sockets, maps and calls. `owed` is a history variable: which
event each socket has coming, from the commit until it is sent, the socket
closes, its user leaves the team, or the call fails.

## 3. What the runs check

Passing runs:

| run | shows |
| --- | --- |
| `board_batches` | On two boards and with sync requests of up to two changes, the tables keep their foreign keys (`TypeOK`), columns stay numbered from 0 (`ColumnOrderDense`), positions at a column's root (`RootOrderUnique`) and in a group (`GroupOrderUnique`) are distinct, and a grouped card is in the column of its group (`GroupedItemsShareColumn`). |
| `board_moves` | A single move reads as a splice (`MoveLandsWhereAsked`); entries that a sync request does not name stay in the order they were in, and so do all where something is created or deleted (`OthersKeepOrder`); only deleting a card leaves gaps (`GapsOnlyFromDeletedItems`); a deleted group leaves its cards where it stood (`UngroupKeepsPlace`). |
| `board_requests` | Statement by statement, calls made one at a time implement `RetroBoard` (`SerialCallsAreAtomic`). Where two overlap, columns do get double positions, from syncs too (section 7). What holds is that a sync or the deletion of a group makes none by itself (`SyncRepairsOrder`): in a column that it renumbers, one of two entries with one index has been committed by another call since the transaction began; in any other column, a sync leaves only those it found. |
| `card_content` | Under two overlapping calls beside changes of role and of flags: nobody likes twice (`LikedOnce`), nothing is written for an actor who never had the right since the call began (`WritesAreAuthorised`), no answer shows what was hidden all along (`AnswersHideWhatIsHidden`). Calls one at a time lose nothing (`SerialNothingLost`) and are refused only for cause, visitors included (`SerialRefusedForCause`). |
| `timer` | Under two overlapping calls and the cleanup: no paused timer without time (`ResumeFindsTime`), none that ends later than the longest countdown from now (`EndsWithinLongest`), the cleanup takes nothing but expired timers (`CleanupSparesOthers`), and these go in the end (`ExpiredTimerGoes`). Calls one at a time, beside the cleanup, implement `BoardTimerPromise` (`SerialKeepsPromise`) and delete no timer before its end (`SerialOnlyExpiredExpire`). |
| `team_calls` | Under two overlapping calls of three users: the OWNER goes only by leaving (`OwnerGoesOnlyByLeaving`), a later membership survives an earlier removal (`OnlyFoundMembershipsEnd`), retired codes stay retired (`RetiredCodesStayRetired`). Calls one at a time: an OWNER leaves alone (`SerialOwnerLeavesAlone`), a working link is kept (`SerialWorkingLinkKept`), joins are authorised at the time they happen (`SerialJoinsAreAuthorised`). |
| `token_calls` | Under two overlapping calls, expiry and restarts: a token and its heir never both work (`ParentRetiredFirst`), revocation is final (`RevokedForGood`). Calls one at a time: one heir per token (`SerialOneHeirPerToken`), no session outlives the password it came from (`SerialTokensFollowPassword`). |
| `google_calls` | Under two overlapping calls: states and exchange tokens are one-time (`StateAdmitsOnce`, `ExchangeDeliversOnce`), a lookup of a Google account never fails while the user of its e-mail is linked to it, so first logins at once do not make each other fail; one beside a registration may (`FirstLoginsAgree`, section 7). Callbacks one at a time, with registrations between their statements: the user signed in is the linked one (`SerialSignedInAsLinked`). |
| `cert_cache` | However fetches overlap, a withdrawn key is gone from the cache within max-age (`WithdrawnKeysFade`). |
| `realtime` | While tabs open and close, the process restarts, queries fail and calls overlap: the maps hold the connected sockets, each under its user, and nothing else (`RegistryFollowsSockets`); every socket that an event concerns gets it, unless it closes, its user leaves, the call fails or the process stops (`EventsArrive`). Calls one at a time tell of the board as it is (`SerialEventsAreCurrent`). |

Two of these show that a detailed specification implements an abstract one,
`BoardRequests` the one-step calls of `RetroBoard`, and `BoardTimer` the promise
of `BoardTimerPromise`. The condition `Serial` is in the refinement mapping: where
calls overlap, the abstract variables are constant, and nothing is claimed.

The `Serial...` properties draw the line up to which the code can be relied on:
each fails as soon as calls overlap (section 7).

Violation runs, each of one property that a text of the repository states and
that the code does not keep:

| run | property | see |
| --- | --- | --- |
| `repeated_groups` | `GroupedItemsShareColumn`, when a request may name a group twice | section 7, 1 |
| `token_same_second` | `RefreshCanStore`, with one call at a time | section 7, 2 |

Definitions commented `mutant` are wrong versions of an operator or action, one
at least for each property of a passing run: with the wrong version in place of
the right one, TLC finds the property violated. They are not part of any
specification.

## 4. Bounds and abstractions

Each constant that bounds a model is commented `bound` where it is declared.

| bound | value | why it is enough |
| --- | --- | --- |
| `MaxBoards` | 1; 2 in `board_batches` | Only the gap after a deleted column, and a request that might reach another board, are about a second board. |
| `MaxColumns`, `DefaultColumns` | 2 and 2; 3 and 1 in `board_batches`; 2 and 1 in `board_requests` | A move has a source and a target; three columns, on one board or on two, reorder both ways and close a gap in the middle. The code creates 3 by default; fewer keep the models small and nothing depends on the number. |
| `MaxGroups`, `MaxItems` | 2 and 2; 1 and 2 in `board_batches` and `board_requests` | Two entries tie; three have one between. Groups tie with cards, and with each other in `board_moves`. |
| `MaxIndex` | as many as a column has entries, or one less; 0 in `board_requests` | An index past the end is the same as one further out. In `board_requests` every card and group is moved to the top: overlaps make ties there, and what is to be seen is who reads what. |
| `MaxBatch` | 2; 1 in `board_moves` and `board_requests` | Two changes may swap, tie or hit the same card twice. With one change a `syncGroupPositions` never comes to a second one (`NextChange`); that it does for batches of any length is in the proofs only. |
| `MaxOverlaps` | 1 | A call that begins beside another makes every race of two calls; the state it leaves is then met by calls made alone. |
| `RepeatedGroups` | FALSE; TRUE in `repeated_groups` | Whether a request may name a group twice. The DTO does not forbid it; see section 7. |
| `Calls` | 2; 1 in `token_same_second` | Two calls make every read-then-write race. |
| `Durations`, `TicksPerSecond`, `MaxTime` | {1, 2}, 2, 5 | Two lengths tell timers apart; two ticks per second round up. 5 ticks let the longest timer be paused, resumed and end. |
| `MaxCleanups`, `MaxFailures` | 1, 1 | A cut-off taken before the DELETE; a cleanup that fails and one after it. The proofs have no bound. |
| `Users`, `MaxRows`, `MaxCodes` | 3, 4, 3 | Owner, manager and joiner, with one of them joining again; a link revoked and twice replaced. |
| `Passwords`, `Life`, `MaxTime` | 3, 2, 4; 2, 3, 5 in `token_same_second` | Two changes at once to different passwords; tokens that expire, and a chain of three refreshes. |
| `Subs`, `Emails`, `MaxStates`, `MaxExchanges` | 2, 2, 3, 2 | Two accounts meet in one e-mail and two e-mails in one account, with a callback repeated. |
| `Kids`, `MaxAge`, `MaxTime` | 2, 2, 5 | Two keys, one withdrawn while an answer is under way. |
| `Users`, `Repertoires`, `MaxComments` in `card_content` | 1, 2 sets, 2 | A user and the guest are two who like, and two authors. Operations on likes, settings and masking use nothing that those on comments, deletion and access write, so clients use one of the two sets. |
| `Users`, `Sockets`, `Uses`, `MaxVersion` in `realtime` | 2, 2, one socket of a user and one of the same user or a guest, 2 | Two tabs of one user, or one beside a guest; changes by the user of the tabs or by another one; two changes overtake each other. |

Ids, rows, codes, states and exchange tokens that are used up leave a model
without a next step. So the board, team and Google configurations switch the
deadlock check off. In the timer, token, certificate, card and realtime
models some step is always possible and the check is on. Users,
calls, passwords, Google accounts and e-mails are interchangeable, and the runs that say
`SYMMETRY` use it; none of those checks liveness.

Calls that a check refuses change nothing, and where the refusal follows the
first read they are left out (`PauseRead` needs a running timer, `AddCheck` a
manager). Where a call is refused after it has begun, it ends (`Finish`).

## 5. Fairness

Two modules have liveness properties.

`ExpiredTimerGoes` of `BoardTimer` assumes that `setInterval` fires again
(`CleanupFire`) and that a DELETE that was sent is answered, with success or an
error: both hold while the process and the database run. Nothing is assumed of
users: a call in flight may stay where it is for ever. A failed cleanup is
swallowed by `runCleanup`, and the next one does the work; `MaxFailures` stands
for a database that does not fail for ever.

`EventsArrive` of `Realtime` assumes of each call in flight that it goes on
(`WF_vars(Continue(c))`): a statement that was sent is answered, with rows or
with an error, and Node.js runs what awaits it. No call is assumed to begin, no
socket to stay, and a restart may come at any time.

The other specifications are safety only.

## 6. What is proved

| theorem | statement | module |
| --- | --- | --- |
| `TypeCorrect` | `Spec => []TypeOK` | `RetroBoard_proofs` |
| `ColumnOrder` | `Spec => []ColumnOrderDense` | `RetroBoard_proofs` |
| `RootOrder` | `~RepeatedGroups`: `Spec => []RootOrderUnique` | `RetroBoard_proofs` |
| `GroupOrder` | `~RepeatedGroups`: `Spec => []GroupOrderUnique` | `RetroBoard_proofs` |
| `GroupedItems` | `~RepeatedGroups`: `Spec => []GroupedItemsShareColumn` | `RetroBoard_proofs` |
| `OthersInOrder` | `~RepeatedGroups`: `Spec => OthersKeepOrder` | `RetroBoard_proofs` |
| `GapsFromDeletedItems` | `~RepeatedGroups`: `Spec => GapsOnlyFromDeletedItems` | `RetroBoard_proofs` |
| `MoveLands` | `~RepeatedGroups`: `Spec => MoveLandsWhereAsked` | `RetroBoard_proofs` |
| `UngroupInPlace` | `~RepeatedGroups`: `Spec => UngroupKeepsPlace` | `RetroBoard_proofs` |
| `RequestsTypeCorrect` | `RequestSpec => []TypeOK` | `RetroBoard_proofs` |
| `SyncsRepair` | `RequestSpec => SyncRepairsOrder` | `BoardRequests_proofs` |
| `SerialCalls` | `RequestSpec => SerialCallsAreAtomic`, the refinement | `BoardRequests_proofs` |
| `SerialLayout` | `~RepeatedGroups`: `RequestSpec => [](Serial => Layout)` | `BoardRequests_proofs` |
| `TypeCorrect` | `Spec => []TypeOK` | `CardContent_proofs` |
| `NobodyLikesTwice` | `Spec => []LikedOnce` | `CardContent_proofs` |
| `ChecksComeFirst` | `Spec => WritesAreAuthorised` | `CardContent_proofs` |
| `HiddenStaysHidden` | `Spec => AnswersHideWhatIsHidden` | `CardContent_proofs` |
| `OneAtATimeNothingIsLost` | `Spec => []SerialNothingLost` | `CardContent_proofs` |
| `OneAtATimeRefusedForCause` | `Spec => SerialRefusedForCause` | `CardContent_proofs` |
| `TypeCorrect` | `Spec => []TypeOK` | `RefreshTokens_proofs` |
| `ParentRetired` | `Spec => []ParentRetiredFirst` | `RefreshTokens_proofs` |
| `RevocationIsFinal` | `Spec => RevokedForGood` | `RefreshTokens_proofs` |
| `SerialOneHeir` | `Spec => []SerialOneHeirPerToken` | `RefreshTokens_proofs` |
| `SerialSessionsFollowPassword` | `Spec => []SerialTokensFollowPassword` | `RefreshTokens_proofs` |
| `ResumesFindTime` | `Spec => []ResumeFindsTime` | `BoardTimer_proofs` |
| `EndsInTime` | `Spec => []EndsWithinLongest` | `BoardTimer_proofs` |
| `CleanupSpares` | `Spec => CleanupSparesOthers` | `BoardTimer_proofs` |
| `OnlyExpired` | `Spec => SerialOnlyExpiredExpire` | `BoardTimer_proofs` |
| `KeepsPromise` | `Spec => SerialKeepsPromise`, the refinement | `BoardTimer_proofs` |
| `OwnerIsSafe` | `Spec => OwnerGoesOnlyByLeaving` | `TeamAccess_proofs` |
| `FoundMembershipsEnd` | `Spec => OnlyFoundMembershipsEnd` | `TeamAccess_proofs` |
| `RetiredStayRetired` | `Spec => RetiredCodesStayRetired` | `TeamAccess_proofs` |
| `SerialOwnerIsLast` | `Spec => SerialOwnerLeavesAlone` | `TeamAccess_proofs` |
| `SerialLinkIsKept` | `Spec => SerialWorkingLinkKept` | `TeamAccess_proofs` |
| `SerialJoinsAuthorised` | `Spec => SerialJoinsAreAuthorised` | `TeamAccess_proofs` |
| `StatesAreOneTime` | `Spec => []StateAdmitsOnce` | `GoogleOAuth_proofs` |
| `ExchangesAreOneTime` | `Spec => []ExchangeDeliversOnce` | `GoogleOAuth_proofs` |
| `FirstLogins` | `Spec => FirstLoginsAgree` | `GoogleOAuth_proofs` |
| `SerialSignsInTheLinked` | `Spec => []SerialSignedInAsLinked` | `GoogleOAuth_proofs` |
| `WithdrawnFade` | `CertsSpec => []WithdrawnKeysFade` | `GoogleOAuth_proofs` |
| `RegistryIsRight` | `Spec => []RegistryFollowsSockets` | `Realtime_proofs` |
| `EventsAreCurrent` | `Spec => SerialEventsAreCurrent` | `Realtime_proofs` |

They hold for every value of the constants that satisfies the assumptions the
modules declare (`BoundsAssumption`: the bounds are natural numbers, and a
request may have a change; `TokenAssumption`: lifetime and time bound are
positive, `NoPassword` is no password; `TimerAssumption`: durations and the
resolution of the clock are positive; and the like: names for nobody are
nobody's). TLC evaluates these on every run. The layout theorems assume in
addition `~RepeatedGroups`: no request names a group twice, as in every run but
`repeated_groups`, which refutes `GroupedItemsShareColumn` without it.

**Columns.** That the columns of a board are numbered without a gap is that they
are *numbered*: no two share an order and none has one as large as their number
(`DenseMeansNumbered`, an argument about cardinalities). Creating a column,
closing the gap of a deleted one and the splice of `reorderColumns` each keep
that, the last since `ReorderedIndex` is injective on the places.

**Layout.** Normalisation gives the entries of a column distinct places, whether
the comparator is an order or not (`PlaceProperty`), and in a column with `n`
entries these are `0..n-1` (`PlacesAll`). The inductive invariant is

    LayoutInvariant == TypeOK /\ RootOrderUnique /\ GroupOrderUnique
                              /\ GroupedItemsShareColumn

`GroupedItemsShareColumn` is needed since a group's cards follow it by their
`groupId`, a deleted column takes its cards by their `columnId`, and
`deleteGroup` moves cards to the root of the group's column: were a card in
another column than its group, it would reach a root nobody renumbers.

**What a client sees.** `OthersInOrder` says more than that indexes differ: the
comparator must be an order. It is one on a set of entries that is `Sortable`:
those that moved differ in the order of their changes, and, unless none moved,
no two of priority 1 have the same index (`PrecedesTotal`,
`PrecedesTransitive`). Then places are ranks (`PlaceIsRank`). Priority 1 with an
order is that of an entry written back to its own index, and entries that never
moved have priority 1 too; that two of these never tie follows from
`RootOrderUnique` (`ItemSyncSortable`, `GroupSyncSortable`), so the layout that
one call leaves is what makes the sort of the next one mean something. Two
entries that did not move have distinct indexes when they are sorted, and the
sort follows them. For `GapsFromDeletedItems` a column that is renumbered has no
gap afterwards; in any other the step shifts everything, appends, or deletes.

**Columns as lists.** The last two properties of the layout are about the whole
sequence of a column. `RootSeq` picks, for each place, the entry with as many
entries before it; `ListIsSeq` shows that any list of a column's entries sorted
by their indexes is that one, so it is enough to exhibit such a list. For a move
it is the spliced list (`Landed`): in the rows as a sync writes them the moved
entry may tie with the one that has the index asked for, and no other two tie;
the comparator puts the moved entry first if it came from below or from another
column, and second if it came from above (`TieBroken`), which is where a splice
puts it, since taking an entry out from above moves the others up. In a column
without gaps an index is a place (`DenseList`), and that is where the hypothesis
`RootDense` of the property is used. `NormalizedPlaces` carries the list over to
the rows as they are stored. For `deleteGroup` the list is the old one with the
cards of the group in its place (`UngroupLists`): the others rank where they
stood without the group (`SiblingsRanked`), those from the group on move by the
number of its cards, and the cards get the places this frees (`MembersListed`).
`GroupGoesAlone` shows that no other operation takes a group away and leaves its
column.

**Statements and transactions.** `RequestsTypeCorrect` holds however statements
interleave. Its invariant `RequestTypeOK` says of each transaction that what it
has written, laid over the committed tables, is well typed and refers to rows
that are there, and that what different transactions have written is `Apart`: so
the commit of one leaves the others as they were.

**Calls one at a time.** For `SerialCalls` the invariant (`RequestInv`) says of
the one call under way that what it has read is what the tables hold
(`ReadFresh`), since nobody else writes, and of its transaction that what is left
of it, done at once, gives the tables of the single step (`WriteFresh`). For a
normalisation in progress: the groups and columns left to be renumbered,
renumbered at once by `NormalizedRoots` and `NormalizedMembers`, give the
outcome (`Sorted`, `Outcome`). One more group or column read and written takes
one from what is left and changes nothing in the outcome
(`MembersInTurn`, `RootsInTurn`); a change of a `syncGroupPositions` adds one
to those done (`OneMoreWritten`, `OneMoreCarried`). At the commit nothing is left, and
the step is that of `RetroBoard` (`SerialStep`). For a reordered column
`reorderColumns` writes the positions of a list that it has spliced in memory:
`ReorderFresh` shows that these are `ReorderedIndex`, which takes
`ColumnOrderDense` and that a list sorted by distinct indexes is the only one
(`InOrderPlaces`). The operators of the instance `Atomic` are shown equal to
those of `RetroBoard` one by one. `SerialLayout` draws the conclusion.

**Overlapping transactions.** For `SyncsRepair` the invariant is `RepairInv`. Of
a transaction in its normalisation it says, for rows outside `foreign[c]`: in
each column renumbered so far the indexes that are written or about to be
(`Planned`) differ (`Settled`), and in the columns that a sync does not renumber
every entry stands with the index that is committed (`Spared`). Each read
settles one column more (`RootsPlanned`), since places are distinct
whatever the rows are. Between the two queries of a column the cards read are
still those of the column, but for foreign rows. A step of another call changes
no row outside `foreign[c]` (`OthersRepair`), by the very definition of that
variable; that it shows no *uncommitted* row, and that no committed row changes
without being foreign, is `SeesTheSame` and `TouchedRows`. At the commit nothing
is left to be renumbered, and `Settled` is the claim.

**Cards.** A handler is the list of the statements it has ahead. Types and
likes follow step by step. `WritesAreAuthorised` needs to know that no check was
skipped: `Ordered` says of a list what comes before what, `CallOK` that a check
which the handler makes is ahead or its outcome is among what the call has
seen, and taking statements from the front keeps both (`LeftOrdered`). For calls
made one at a time `Alone` says what has been read is so: the list of likes, the
setting, the flag that made a membership necessary, that there is no guest.

**Tokens.** `ParentRetiredFirst` is not inductive by itself: a call between its
revocation and its insert holds the parent in memory. `CallsHoldRevoked` says
that the parent in such a call is revoked already, whatever other calls do, that
the token about to be stored is not older than it, and that a token about to be
revoked has a row. `Clock` keeps the time in bounds, so that what is signed is a
token. With `TypeOK` these make `Inv`, and each action preserves each part.
`RevocationIsFinal` follows step by step: `Store` writes only rows that are not
there. For calls made one at a time `AloneHolds` adds what the call under way
has read: the token it is about to revoke, or has revoked, has no heir yet, and
was issued under the password of now, as every other token that works.

**The timer.** `CeilBounds` settles the rounding: whole seconds rounded up lose
no tick and are none without a tick. `Sound` says of a row that it ends within
the longest countdown from now if it is running, and has something left and no
more than the longest if it is paused; `Holds` says which kind of row a call
holds at which step. Every row, stored or held, is sound: the writes of
`pauseTimer` and `resumeTimer` put one field of a row into another, so the
fields of *every* held row have to be sound, not only those of the stored one.

For calls made one at a time, `Knows` says what the call under way knows of the
timer *if it is still there*: that it is the row it read; that a pause about to
be written keeps at least what is left now; that a resume continues from its
remainder. A cleanup is all that can come between, and it deletes. `Timely`, no
running timer has more than its remainder to go, is what makes the new remainder
of a pause at most the old. With these, each write of `BoardTimer` is a step of
`BoardTimerPromise` (`StartIsPromised`, `PauseIsPromised`, `ResumeIsPromised`,
`DeleteIsPromised`), and each other step is none.

**Teams.** A call holds the id of a row from one statement to the next.
`RowIds` (ids are distinct and given once) and `RowsHeld` (if the row held for a
removal or a change of role is still there, it is not the OWNER's; if the one
held by a caller who leaves is, it is the caller's own) make the inductive
invariant with `TypeOK`. Three theorems are read off step by step. The others
are about calls made one at a time, for which `AloneHolds` keeps what each
statement has found until the next: that nobody but the owner is left, that the
link is not active, that its code is the one given. `NoTeamNoCall` says that no
call is under way before there is a team.

**Google sign-in.** `UnusedIsUntouched` says that a state or an exchange token
that is not used up has had no effect; with `KeysFit`, which ties a call to the
row it read, the conditional updates keep both counts at one. `FirstLogins` is
read off the one step that gives up. For callbacks made one at a time the user
found is still the one linked (`FoundIsLinked`): registrations may come between,
and they create users who are not linked (`LinkedExist`). `WithdrawnFade` rests on the start of the call that fetched: its answer holds nothing that was
withdrawn before (`AnswersAreRecent`), and `until` is counted from there
(`CacheCountsFromStart`). It is `GoogleCerts`' own: its proofs share a module with
those of `GoogleOAuth` and nothing else.

**Realtime.** The maps are their own inductive invariant, given the types: each
of `Register` and `Unregister` is shown to compute the maps from the sockets
connected after it. `OneAtATime` says that beside the call under way every other
is idle, so nothing is committed between what a call has read and what it sends.

**Model-checked only.** `ExpiredTimerGoes` and `EventsArrive`, since liveness
under fairness is beyond the provers at hand. `RefreshCanStore` and, when a
request may name a group twice, `GroupedItemsShareColumn` are false (section 7).

## 7. Where code and text disagree

Each of these has a violation run, and `PROJECT.json` quotes the text:

1. `retro.service.ts:951`: a `syncGroupPositions` request that names a group
   twice, away and back, leaves its cards in the other column.
2. `auth.service.ts:274`: a refresh within the second in which its token was
   signed revokes the token, signs the same text again, and fails to store it:
   the session is gone.

Worth knowing, without a run of their own:

- `team.service.ts:300` counts the members and `:306` deletes the owner's row in
  two statements; who joins between is left in a team without OWNER. (Drop
  `Serial` from `SerialOwnerLeavesAlone` to see it.)
- `src/README.md:228` to `232` list `board.rename` among the commands available
  without a token on an open board; `updateBoardName` asks for ADMIN or OWNER.
- `src/README.md:97` says that renaming over HTTP has moved to the socket; the HTTP
  handler is still there.
- A change made over HTTP is told to the registered sockets of members only
  (`emitToTeam`): sockets without a token hear nothing of it even in the room of
  the board. Nor do the author's other tabs.
- All visitors without a token are one guest user: the like of one undoes that of
  another.
- `retro.service.ts:847`: `reorderColumns` checks access once more in the read that
  follows its commit; who loses it in between gets an error for a reorder that
  took place, and nobody is told.

The `Serial...` properties are false as soon as two calls overlap. What TLC
shows of them then (drop `Serial` from the property) is worth knowing to whoever
maintains the code:

- `retro.service.ts:422`, `:480`, `:548`: two columns, groups or cards get the same
  place. `:834`: a reorder numbers the columns it read and not the one created
  since.
- `retro.service.ts:1152`, `:938`, `:1280`: two sync requests that move different
  entries into one column at once, or one beside a `deleteGroup`, each renumber
  the column without the row that the other has not committed, and may both write
  index 0. Only the next sync of the column mends it, if nothing overlaps with it.
  (Take `foreign[c]` out of `SyncRepairsOrder` to see it.)
- `retro.service.ts:716`, `:402`: a like or a setting given meanwhile is undone.
- `anonymous-actor.service.ts:24`: of the first two visitors at once, one gets an
  error, as the e-mail of the guest is unique.
- `timer.service.ts:80`: a pause overtaken by a restart stores more time than
  the new timer has. `:76`: a pause that found its timer expired deletes the one
  started since. `:113`: a resume writes its end time into a timer that was
  restarted or resumed since.
- `team-invite.service.ts:277`: two calls for a revoked link both reactivate it;
  the code returned to the first is dead at once.
- `auth.service.ts:128`: two refreshes of one token at once both get a pair.
  `:222`: a login under way when the password changes stores a token after.
- `google-oauth.service.ts:420`: a first Google login beside a registration with
  its e-mail fails: the insert meets the registered e-mail, the lookup that
  follows finds no user with the `googleSub`, and the error goes to the client. A second attempt links the user.
  (`Fallback` ends such a call.)
- `google-oauth.service.ts:394`: a user found unlinked is linked by a later
  statement, and the account linked in between is replaced.
- `retro.gateway.ts:184`, `realtime.service.ts:57`: two changes are told in the
  other order than they were committed, and an older one is told last.

## 8. What is not modelled

- *Bootstrap, Prisma client*: wiring.
- *Controllers*: validation, routing, the names of events. What a handler calls,
  and in which order, is in `CardContent` and `Realtime`.
- *Guards*: they verify a token and keep no state; who a call's actor is, is a
  choice.
- In modelled components: names, colours, descriptions of boards, columns and
  groups, dates; the name of a team; `updateMe`; collisions of random codes; the
  count of acceptances of a link; access tokens; the texts of errors and
  redirects; the lists that `GET` handlers return.
- Roles in `CardContent` and members in `Realtime` change by single steps; the
  calls that change them are in `TeamAccess`. ADMIN and OWNER are one role
  (`MANAGER`) in `CardContent`, where they may do the same.
- In `Realtime` what Socket.IO is given reaches a connected socket: loss on the
  wire and reconnection are the client's.
- Several processes on one database differ from several calls of one process
  only in what is held in memory: the certificate cache, and the maps and rooms of
  `Realtime`, where a socket of another process would hear nothing.

## 9. Plan

Done, in this order: `RetroBoard` with its order and proofs, `BoardTimer` and
its promise, `TeamAccess`, `RefreshTokens` with proofs, `GoogleOAuth`,
`GoogleCerts`, `BoardRequests`, `CardContent`, `Realtime`, and the proofs of all
modules with calls in flight.

Every safety property that a passing run checks is proved. A theorem worth
adding is that what `MoveLands` says of one change holds of a batch whose changes
are to different columns.

Worth modelling: `GoogleOAuth` composed with `RefreshTokens`, as the pair of an
exchange token is stored before it is delivered and may be revoked in between.
