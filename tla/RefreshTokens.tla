----------------------------- MODULE RefreshTokens -----------------------------
(***************************************************************************)
(* The password and the refresh tokens of one user: the calls of           *)
(* AuthService.                                                            *)
(*                                                                         *)
(* Only changePassword uses a transaction, and only for its two writes, so *)
(* every statement of a call is a step, with other calls between.          *)
(*                                                                         *)
(* A refresh token is a JWT of the user's id and e-mail, which never       *)
(* change, and of the times of issue and expiry in whole seconds.  So the  *)
(* token is a function of the user and the second it is signed in: here    *)
(* the token IS that second, and the unique tokenHash of refresh_tokens    *)
(* makes a second one of the same second fail to be stored.                *)
(*                                                                         *)
(* Left out: access tokens (nothing is stored of them), the user's name,   *)
(* other users (tokens of different users differ and touch no common row). *)
(***************************************************************************)
EXTENDS Integers

CONSTANTS
    Calls,      \* bound: calls in flight at a time, a set
    Passwords,
    NoPassword, \* the user has not registered; or no password was asked for
    Life,       \* JWT_REFRESH_EXPIRES_IN, in seconds
    MaxTime     \* bound: the seconds that pass

ASSUME TokenAssumption ==
    /\ {Life, MaxTime} \subseteq Nat \ {0}
    /\ NoPassword \notin Passwords

VARIABLES
    now,
    password, \* what users.passwordHash is the hash of, or NoPassword
    tokens,   \* token -> the state of its row in refresh_tokens
    origin,   \* history, not in the code: token -> how its call got to issue it
    call,     \* what each call in flight is about to do, and what it read
    lanes     \* not in the code: the calls that clients make, all or only one

vars == <<now, password, tokens, origin, call, lanes>>

Tokens == 1..MaxTime

\* parent is the token a refresh presented, 0 for none; password the one that
\* the login, or the first login among the ancestors, gave.
Unknown == [parent |-> 0, password |-> NoPassword]

\* A call: token is the one presented, then the one signed; old and new are the
\* passwords given.
Doing(step, token, from, old, new) ==
    [step |-> step, token |-> token, from |-> from, old |-> old, new |-> new]

Idle == Doing("IDLE", 0, Unknown, NoPassword, NoPassword)

Issuing(pw) ==
    Doing("SIGN", 0, [parent |-> 0, password |-> pw], NoPassword, NoPassword)

Live == {t \in Tokens : tokens[t] = "LIVE"}

Expired(t) == t + Life <= now

-----------------------------------------------------------------------------

Init ==
    /\ now = 1
    /\ password = NoPassword
    /\ tokens = [t \in Tokens |-> "NONE"]
    /\ origin = [t \in Tokens |-> Unknown]
    /\ call = [c \in Calls |-> Idle]
    /\ lanes \in {Calls} \cup {{c} : c \in Calls}

Begin(c, record) == call[c] = Idle /\ call' = [call EXCEPT ![c] = record]

Finish(c) == call' = [call EXCEPT ![c] = Idle]

NoWrite == UNCHANGED <<now, password, tokens, origin>>

Tick ==
    /\ now < MaxTime
    /\ now' = now + 1
    /\ UNCHANGED <<password, tokens, origin, call>>

\* register: is the e-mail free?  Then hash, and insert the user.
RegisterLook(c, new) ==
    /\ password = NoPassword
    /\ Begin(c, Doing("REGISTER", 0, Unknown, NoPassword, new))
    /\ NoWrite

\* The unique email makes the insert fail if another call has registered.
RegisterCreate(c) ==
    /\ call[c].step = "REGISTER"
    /\ IF password = NoPassword
       THEN /\ password' = call[c].new
            /\ call' = [call EXCEPT ![c] = Issuing(call[c].new)]
       ELSE Finish(c) /\ UNCHANGED password
    /\ UNCHANGED <<now, tokens, origin>>

\* login compares with the hash it read, however long bcrypt takes.
Login(c) ==
    /\ password # NoPassword
    /\ Begin(c, Issuing(password))
    /\ NoWrite

\* GoogleOAuthService.handleCallback issues without a password.
LoginWithGoogle(c) ==
    /\ password # NoPassword
    /\ Begin(c, Issuing(NoPassword))
    /\ NoWrite

RefreshLookUnchecked(c, t) ==  \* mutant: revokedAt is not tested
    /\ tokens[t] # "NONE" /\ ~Expired(t)
    /\ Begin(c, Doing("REVOKE", t, Unknown, NoPassword, NoPassword))
    /\ NoWrite

\* refresh: the row of the token, its revocation, and a new pair.  A client has
\* only tokens that were stored: the answer follows the insert.
RefreshLook(c, t) ==
    /\ t \in Live /\ ~Expired(t)
    /\ Begin(c, Doing("REVOKE", t, Unknown, NoPassword, NoPassword))
    /\ NoWrite

RefreshWithoutRevoking(c) ==  \* mutant: the token presented stays as it is
    /\ call[c].step = "REVOKE"
    /\ call' = [call EXCEPT ![c].step = "SIGN", ![c].from =
            [parent |-> call[c].token, password |-> origin[call[c].token].password]]
    /\ NoWrite

\* Written by id, whatever revokedAt is by then.
RefreshRevoke(c) ==
    /\ call[c].step = "REVOKE"
    /\ tokens' = [tokens EXCEPT ![call[c].token] = "REVOKED"]
    /\ call' = [call EXCEPT ![c].step = "SIGN", ![c].from =
            [parent |-> call[c].token, password |-> origin[call[c].token].password]]
    /\ UNCHANGED <<now, password, origin>>

\* issueTokenPair
Sign(c) ==
    /\ call[c].step = "SIGN"
    /\ call' = [call EXCEPT ![c] =
            Doing("STORE", now, call[c].from, NoPassword, NoPassword)]
    /\ NoWrite

StoreUpserting(c) ==  \* mutant: a row of the same token is taken over
    /\ call[c].step = "STORE"
    /\ tokens' = [tokens EXCEPT ![call[c].token] = "LIVE"]
    /\ origin' = [origin EXCEPT ![call[c].token] = call[c].from]
    /\ Finish(c)
    /\ UNCHANGED <<now, password>>

\* storeRefreshToken: the insert fails on a tokenHash that is there already, and
\* the call with it.
Store(c) ==
    /\ call[c].step = "STORE"
    /\ IF tokens[call[c].token] = "NONE"
       THEN /\ tokens' = [tokens EXCEPT ![call[c].token] = "LIVE"]
            /\ origin' = [origin EXCEPT ![call[c].token] = call[c].from]
       ELSE UNCHANGED <<tokens, origin>>
    /\ Finish(c)
    /\ UNCHANGED <<now, password>>

Logout(t) ==
    /\ t \in Live
    /\ tokens' = [tokens EXCEPT ![t] = "REVOKED"]
    /\ UNCHANGED <<now, password, origin, call>>

\* changePassword: the hash is read and compared with both passwords; then one
\* transaction writes the new one and revokes what is live.
ChangeLook(c, old, new) ==
    /\ old = password /\ new # password
    /\ Begin(c, Doing("CHANGE", 0, Unknown, old, new))
    /\ NoWrite

ChangeCommitPasswordOnly(c) ==  \* mutant: the sessions stay
    /\ call[c].step = "CHANGE"
    /\ password' = call[c].new
    /\ Finish(c)
    /\ UNCHANGED <<now, tokens, origin>>

ChangeCommit(c) ==
    /\ call[c].step = "CHANGE"
    /\ password' = call[c].new
    /\ tokens' = [t \in Tokens |-> IF t \in Live THEN "REVOKED" ELSE tokens[t]]
    /\ Finish(c)
    /\ UNCHANGED <<now, origin>>

\* The process stops: every call in flight ends where it is.
Restart ==
    /\ call # [c \in Calls |-> Idle]
    /\ call' = [c \in Calls |-> Idle]
    /\ NoWrite

Next ==
    /\ \/ Tick
       \/ Restart
       \/ \E t \in Tokens : Logout(t)
       \/ \E c \in lanes :
            \/ \E new \in Passwords : RegisterLook(c, new)
            \/ RegisterCreate(c)
            \/ Login(c)
            \/ LoginWithGoogle(c)
            \/ \E t \in Tokens : RefreshLook(c, t)
            \/ RefreshRevoke(c)
            \/ Sign(c)
            \/ Store(c)
            \/ \E old, new \in Passwords : ChangeLook(c, old, new)
            \/ ChangeCommit(c)
    /\ UNCHANGED lanes

Spec == Init /\ [][Next]_vars

-----------------------------------------------------------------------------

Origins == [parent : 0..MaxTime, password : Passwords \cup {NoPassword}]

CallRecords == [step : {"IDLE", "REGISTER", "REVOKE", "SIGN", "STORE", "CHANGE"},
                token : 0..MaxTime,
                from : Origins,
                old : Passwords \cup {NoPassword},
                new : Passwords \cup {NoPassword}]

\* The variables have their types; tokens exist only of seconds that have come,
\* and the parent of one is older.
TypeOK ==
    /\ now \in Nat
    /\ password \in Passwords \cup {NoPassword}
    /\ tokens \in [Tokens -> {"NONE", "LIVE", "REVOKED"}]
    /\ \A t \in Tokens : tokens[t] # "NONE" => t <= now
    /\ origin \in [Tokens -> Origins]
    /\ \A t \in Tokens : origin[t].parent # 0 => origin[t].parent < t
    /\ call \in [Calls -> CallRecords]
    /\ lanes \subseteq Calls

\* A token that was revoked never works again, although the same text can be
\* signed once more within its second.
RevokedForGood ==
    [][\A t \in Tokens : tokens[t] = "REVOKED" => tokens'[t] = "REVOKED"]_vars

\* A token and the one it was exchanged for never both work: the old one is
\* revoked before the new one is stored, and stays so.
ParentRetiredFirst ==
    \A t \in Tokens : origin[t].parent # 0 => tokens[origin[t].parent] = "REVOKED"

\* Calls are made one at a time.
Serial == \E c \in Calls : lanes = {c}

\* 'Rotate refresh token and issue new token pair': a token is exchanged for one
\* pair at most, when calls are made one at a time.
SerialOneHeirPerToken ==
    Serial => \A s, t \in Tokens :
        origin[s].parent = origin[t].parent /\ s # t => origin[s].parent = 0

\* Changing the password ends the sessions that the old one opened: a token that
\* works goes back to a login with the password of now (or by Google), when
\* calls are made one at a time.
SerialTokensFollowPassword ==
    Serial => \A t \in Live : origin[t].password \in {password, NoPassword}

\* A refresh that has revoked the token it was given, and has signed a pair, can
\* store it and answer.  Not true within the second in which the token presented,
\* or another one of the user, was signed.
RefreshCanStore ==
    \A c \in Calls : call[c].step = "STORE" /\ call[c].from.parent # 0 =>
        tokens[call[c].token] = "NONE"
=============================================================================
