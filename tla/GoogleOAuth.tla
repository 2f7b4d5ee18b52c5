------------------------------ MODULE GoogleOAuth ------------------------------
(***************************************************************************)
(* Signing in with Google: the one-time states and exchange tokens, and    *)
(* the linking of a Google account to a user, of GoogleOAuthService.       *)
(*                                                                         *)
(* Every statement of a call is a step, with other calls between.  The     *)
(* transactions of exchangeToken and findOrCreateGoogleUser run at READ    *)
(* COMMITTED and have one write, their last statement: what they read may  *)
(* change before it.                                                       *)
(*                                                                         *)
(* Left out: returnTo and the error codes of the redirects; names; claims  *)
(* without a verified e-mail (refused before anything is read); the tokens *)
(* that issueAppTokenPair stores (RefreshTokens).                          *)
(***************************************************************************)
EXTENDS Integers

CONSTANTS
    Calls,     \* bound: calls in flight at a time, a set
    Subs,      \* Google accounts
    Emails,    \* a Google account may change its e-mail, and e-mails their owner
    NoSub, NoEmail,
    MaxStates, \* bound: logins ever started
    MaxExchanges \* bound: exchange tokens ever created

ASSUME GoogleAssumption ==
    /\ {MaxStates, MaxExchanges} \subseteq Nat
    /\ NoSub \notin Subs /\ NoEmail \notin Emails

VARIABLES
    users,      \* e-mail -> the row of its user, or NoUser
    states,     \* oauth_states: "NONE", "FRESH", "USED", "EXPIRED"
    exchanges,  \* auth_exchange_tokens: the same, and the user (by e-mail)
    admitted,   \* history: callbacks that each state has let through
    delivered,  \* history: times the pair of each exchange token was returned
    call,       \* what each call in flight is about to do, and what it read
    lanes       \* not in the code: the calls that clients make, all or only one

vars == <<users, states, exchanges, admitted, delivered, call, lanes>>

States == 1..MaxStates

Exchanges == 1..MaxExchanges

\* authProvider is GOOGLE just when googleSub is set.
NoUser == [exists |-> FALSE, sub |-> NoSub, googleEmail |-> NoEmail]

Local == [exists |-> TRUE, sub |-> NoSub, googleEmail |-> NoEmail]

Linked(sub, email) == [exists |-> TRUE, sub |-> sub, googleEmail |-> email]

\* key is a state or an exchange token; sub and email are the claims of the
\* id_token; user is the user found.
Idle == [step |-> "IDLE", key |-> 0, sub |-> NoSub, email |-> NoEmail,
         user |-> NoEmail]

Holders(sub) == {e \in Emails : users[e].sub = sub}

-----------------------------------------------------------------------------

Init ==
    /\ users = [e \in Emails |-> NoUser]
    /\ states = [s \in States |-> "NONE"]
    /\ exchanges = [x \in Exchanges |-> [status |-> "NONE", user |-> NoEmail]]
    /\ admitted = [s \in States |-> 0]
    /\ delivered = [x \in Exchanges |-> 0]
    /\ call = [c \in Calls |-> Idle]
    /\ lanes \in {Calls} \cup {{c} : c \in Calls}

Begin(c, step, key) ==
    /\ call[c] = Idle
    /\ call' = [call EXCEPT ![c] = [Idle EXCEPT !.step = step, !.key = key]]

Go(c, step) == call' = [call EXCEPT ![c].step = step]

Found(c, step, user) == call' = [call EXCEPT ![c] = [@ EXCEPT !.step = step, !.user = user]]

Finish(c) == call' = [call EXCEPT ![c] = Idle]

NoWrite == UNCHANGED <<users, states, exchanges, admitted, delivered>>

\* AuthService.register
Register(email) ==
    /\ ~users[email].exists
    /\ users' = [users EXCEPT ![email] = Local]
    /\ UNCHANGED <<states, exchanges, admitted, delivered, call>>

\* getStartRedirectUrl
Start(s) ==
    /\ states[s] = "NONE" /\ \A r \in 1..(s - 1) : states[r] # "NONE"
    /\ states' = [states EXCEPT ![s] = "FRESH"]
    /\ UNCHANGED <<users, exchanges, admitted, delivered, call>>

Expire ==
    /\ \/ \E s \in States :
            /\ states[s] = "FRESH"
            /\ states' = [states EXCEPT ![s] = "EXPIRED"]
            /\ UNCHANGED exchanges
       \/ \E x \in Exchanges :
            /\ exchanges[x].status = "FRESH"
            /\ exchanges' = [exchanges EXCEPT ![x].status = "EXPIRED"]
            /\ UNCHANGED states
    /\ UNCHANGED <<users, admitted, delivered, call>>

\* consumeState: the row, and an update that takes effect only if the row is as
\* it was.
StateLook(c, s) ==
    /\ states[s] = "FRESH"
    /\ Begin(c, "CONSUME", s)
    /\ NoWrite

Admit(c) ==
    /\ admitted' = [admitted EXCEPT ![call[c].key] = @ + 1]
    /\ Go(c, "CODE")

ConsumeUnconditional(c) ==  \* mutant: the update does not test the row again
    /\ call[c].step = "CONSUME"
    /\ states' = [states EXCEPT ![call[c].key] = "USED"]
    /\ Admit(c)
    /\ UNCHANGED <<users, exchanges, delivered>>

Consume(c) ==
    /\ call[c].step = "CONSUME"
    /\ IF states[call[c].key] = "FRESH"
       THEN states' = [states EXCEPT ![call[c].key] = "USED"] /\ Admit(c)
       ELSE Finish(c) /\ UNCHANGED <<states, admitted>>
    /\ UNCHANGED <<users, exchanges, delivered>>

\* The user denied consent, the code is missing or refused, the id_token is not
\* valid, or issueAppTokenPair fails: an error redirect.
Fail(c) ==
    /\ call[c].step \in {"CODE", "ISSUE"}
    /\ Finish(c)
    /\ NoWrite

Identify(c, sub, email) ==
    /\ call[c].step = "CODE"
    /\ call' = [call EXCEPT ![c] = [@ EXCEPT !.step = "FIND_SUB", !.sub = sub,
                                            !.email = email]]
    /\ NoWrite

-----------------------------------------------------------------------------
(* findOrCreateGoogleUser                                                  *)

FindBySub(c) ==
    /\ call[c].step = "FIND_SUB"
    /\ IF Holders(call[c].sub) = {} THEN Go(c, "FIND_EMAIL")
       ELSE \E e \in Holders(call[c].sub) :
                Found(c, IF users[e].googleEmail = call[c].email THEN "ISSUE"
                         ELSE "UPDATE", e)
    /\ NoWrite

Update(c) ==
    /\ call[c].step = "UPDATE"
    /\ users' = [users EXCEPT ![call[c].user].googleEmail = call[c].email]
    /\ Go(c, "ISSUE")
    /\ UNCHANGED <<states, exchanges, admitted, delivered>>

\* A user linked to another Google account is an AccountLinkConflictError.
FindByEmail(c) ==
    /\ call[c].step = "FIND_EMAIL"
    /\ LET user == users[call[c].email] IN
       IF ~user.exists THEN Go(c, "CREATE")
       ELSE IF user.sub \notin {NoSub, call[c].sub} THEN Finish(c)
       ELSE Go(c, "LINK")
    /\ NoWrite

\* The unique googleSub makes the update fail if another user has got it since.
Link(c) ==
    /\ call[c].step = "LINK"
    /\ IF Holders(call[c].sub) \subseteq {call[c].email}
       THEN /\ users' = [users EXCEPT ![call[c].email] =
                            Linked(call[c].sub, call[c].email)]
            /\ Found(c, "ISSUE", call[c].email)
       ELSE Go(c, "FALLBACK") /\ UNCHANGED users
    /\ UNCHANGED <<states, exchanges, admitted, delivered>>

CreateWithoutFallback(c) ==  \* mutant: a unique violation is just an error
    /\ call[c].step = "CREATE"
    /\ IF Holders(call[c].sub) = {} /\ ~users[call[c].email].exists
       THEN /\ users' = [users EXCEPT ![call[c].email] =
                            Linked(call[c].sub, call[c].email)]
            /\ Found(c, "ISSUE", call[c].email)
       ELSE Finish(c) /\ UNCHANGED users
    /\ UNCHANGED <<states, exchanges, admitted, delivered>>

\* The unique email and googleSub make the insert fail.
Create(c) ==
    /\ call[c].step = "CREATE"
    /\ IF Holders(call[c].sub) = {} /\ ~users[call[c].email].exists
       THEN /\ users' = [users EXCEPT ![call[c].email] =
                            Linked(call[c].sub, call[c].email)]
            /\ Found(c, "ISSUE", call[c].email)
       ELSE Go(c, "FALLBACK") /\ UNCHANGED users
    /\ UNCHANGED <<states, exchanges, admitted, delivered>>

FallbackByEmail(c) ==  \* mutant: after a unique violation, the user of the e-mail
    /\ call[c].step = "FALLBACK"
    /\ IF users[call[c].email].exists THEN Found(c, "ISSUE", call[c].email)
       ELSE Finish(c)
    /\ NoWrite

Fallback(c) ==
    /\ call[c].step = "FALLBACK"
    /\ IF Holders(call[c].sub) = {} THEN Finish(c)
       ELSE \E e \in Holders(call[c].sub) : Found(c, "ISSUE", e)
    /\ NoWrite

-----------------------------------------------------------------------------

CreateExchange(c, x) ==
    /\ call[c].step = "ISSUE"
    /\ exchanges[x].status = "NONE" /\ \A y \in 1..(x - 1) : exchanges[y].status # "NONE"
    /\ exchanges' = [exchanges EXCEPT ![x] = [status |-> "FRESH", user |-> call[c].user]]
    /\ Finish(c)
    /\ UNCHANGED <<users, states, admitted, delivered>>

\* exchangeToken: the row, and an update that takes effect only if the row is
\* as it was.
ExchangeLook(c, x) ==
    /\ exchanges[x].status = "FRESH"
    /\ Begin(c, "EXCHANGE", x)
    /\ NoWrite

ExchangeUseUncounted(c) ==  \* mutant: count of the update is not looked at
    /\ call[c].step = "EXCHANGE"
    /\ exchanges' = [exchanges EXCEPT ![call[c].key].status = "USED"]
    /\ delivered' = [delivered EXCEPT ![call[c].key] = @ + 1]
    /\ Finish(c)
    /\ UNCHANGED <<users, states, admitted>>

ExchangeUse(c) ==
    /\ call[c].step = "EXCHANGE"
    /\ IF exchanges[call[c].key].status = "FRESH"
       THEN /\ exchanges' = [exchanges EXCEPT ![call[c].key].status = "USED"]
            /\ delivered' = [delivered EXCEPT ![call[c].key] = @ + 1]
       ELSE UNCHANGED <<exchanges, delivered>>
    /\ Finish(c)
    /\ UNCHANGED <<users, states, admitted>>

Step(c) ==
    \/ \E s \in States : StateLook(c, s)
    \/ Consume(c)
    \/ Fail(c)
    \/ \E sub \in Subs, email \in Emails : Identify(c, sub, email)
    \/ FindBySub(c)
    \/ Update(c)
    \/ FindByEmail(c)
    \/ Link(c)
    \/ Create(c)
    \/ Fallback(c)
    \/ \E x \in Exchanges : CreateExchange(c, x)
    \/ \E x \in Exchanges : ExchangeLook(c, x)
    \/ ExchangeUse(c)

Next ==
    /\ \/ \E email \in Emails : Register(email)
       \/ \E s \in States : Start(s)
       \/ Expire
       \/ \E c \in lanes : Step(c)
    /\ UNCHANGED lanes

Spec == Init /\ [][Next]_vars

-----------------------------------------------------------------------------

Statuses == {"NONE", "FRESH", "USED", "EXPIRED"}

LookingUp == {"FIND_SUB", "FIND_EMAIL", "UPDATE", "LINK", "CREATE", "FALLBACK"}

UserRows == [exists : BOOLEAN, sub : Subs \cup {NoSub}, googleEmail : Emails \cup {NoEmail}]

Requests ==
    [step : {"IDLE", "CONSUME", "CODE", "ISSUE", "EXCHANGE"} \cup LookingUp,
     key : Int, sub : Subs \cup {NoSub}, email : Emails \cup {NoEmail},
     user : Emails \cup {NoEmail}]

TypeOK ==
    /\ users \in [Emails -> UserRows]
    /\ states \in [States -> Statuses]
    /\ exchanges \in [Exchanges -> [status : Statuses, user : Emails \cup {NoEmail}]]
    /\ admitted \in [States -> Nat]
    /\ delivered \in [Exchanges -> Nat]
    /\ call \in [Calls -> Requests]
    /\ lanes \subseteq Calls

\* One-time-use of state: however often, and however nearly at once, a callback
\* comes back with a state, one at most gets to sign in.
StateAdmitsOnce == \A s \in States : admitted[s] <= 1

\* A repeated exchangeToken gets 401: its pair of tokens is returned once at most.
ExchangeDeliversOnce == \A x \in Exchanges : delivered[x] <= 1

\* First logins of a Google account with one e-mail do not make each other fail:
\* the one whose insert comes second finds the user that the first has linked.
\* A lookup fails only while the user of its e-mail is missing, is linked to
\* another account, or has been registered but not linked: a first login does
\* fail beside a registration, when its insert meets the registered e-mail.
FirstLoginsAgree ==
    [][\A c \in Calls : call[c].step \in LookingUp /\ call'[c] = Idle =>
        users[call[c].email].sub # call[c].sub]_vars

\* Calls are made one at a time.
Serial == \E c \in Calls : lanes = {c}

\* The tokens handed out are those of the user that the Google account is linked
\* to, when callbacks are made one at a time, with registrations between.
SerialSignedInAsLinked ==
    Serial => \A c \in Calls :
        call[c].step = "ISSUE" => users[call[c].user].sub = call[c].sub
=============================================================================
