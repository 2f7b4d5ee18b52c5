--------------------------- MODULE GoogleOAuth_proofs ---------------------------
(***************************************************************************)
(* Proofs about GoogleOAuth for any number of calls, accounts, states and  *)
(* exchange tokens: a state lets one callback through at most, and the     *)
(* pair of an exchange token is returned once at most.                     *)
(*                                                                         *)
(* Both rest on the conditional updates: what has not been used has had no *)
(* effect yet (UnusedIsUntouched).  KeysFit says that a call between its   *)
(* read and its update still names the row it read.  Then callbacks made   *)
(* one at a time: they sign in the user that the Google account is linked  *)
(* to.  The last part is about GoogleCerts, the cache of certificates.     *)
(***************************************************************************)
EXTENDS GoogleOAuth, GoogleCerts, TLAPS

\* Callbacks hold a state, exchanges an exchange token; a callback that looks
\* users up has the claims of a Google account.
KeysFit ==
    \A c \in Calls :
        /\ call[c].step \in LookingUp \cup {"CONSUME", "CODE", "ISSUE"} =>
            call[c].key \in States
        /\ call[c].step = "EXCHANGE" => call[c].key \in Exchanges
        /\ call[c].step \in LookingUp => call[c].sub \in Subs /\ call[c].email \in Emails

\* What is not used up has admitted no one and delivered nothing.
UnusedIsUntouched ==
    /\ \A s \in States : states[s] # "USED" => admitted[s] = 0
    /\ \A x \in Exchanges : exchanges[x].status # "USED" => delivered[x] = 0

Inv ==
    TypeOK /\ KeysFit /\ UnusedIsUntouched /\ StateAdmitsOnce /\ ExchangeDeliversOnce

-----------------------------------------------------------------------------
(* What the operators that move a call on do to it.                        *)

LEMMA IdleType == Idle \in Requests /\ Idle.step = "IDLE"
<1>1. Idle \in Requests
    BY SMT DEF Idle, Requests
<1>2. Idle.step = "IDLE"
    BY DEF Idle
<1> QED
    BY <1>1, <1>2

LEMMA GoMoves ==
    ASSUME TypeOK, KeysFit, NEW c \in Calls,
           NEW step \in LookingUp \cup {"ISSUE", "CODE"}, Go(c, step),
           \/ call[c].step \in LookingUp
           \/ call[c].step = "CONSUME" /\ step = "CODE"
    PROVE  call' \in [Calls -> Requests] /\ KeysFit'
<1>1. Go(c, step)
    OBVIOUS
<1>2. call' \in [Calls -> Requests]
    BY <1>1 DEF Go, TypeOK, Requests
<1>3. /\ call'[c].step = step /\ call'[c].key = call[c].key
      /\ call'[c].sub = call[c].sub /\ call'[c].email = call[c].email
    BY <1>1 DEF Go, TypeOK, Requests
<1>4. \A d \in Calls \ {c} : call'[d] = call[d]
    BY <1>1 DEF Go, TypeOK
<1>5. step # "EXCHANGE" /\ call[c].key \in States
    BY DEF LookingUp, KeysFit
<1>6. step \in LookingUp => call[c].step \in LookingUp
    BY DEF LookingUp
<1>7. KeysFit'
    BY <1>3, <1>4, <1>5, <1>6 DEF KeysFit
<1> QED
    BY <1>2, <1>7

LEMMA FoundMoves ==
    ASSUME TypeOK, KeysFit, NEW c \in Calls, NEW user \in Emails \cup {NoEmail},
           Found(c, "ISSUE", user) \/ Found(c, "UPDATE", user),
           call[c].step \in LookingUp
    PROVE  call' \in [Calls -> Requests] /\ KeysFit'
<1>1. PICK step \in {"ISSUE", "UPDATE"} : Found(c, step, user)
    OBVIOUS
<1>2. call' \in [Calls -> Requests]
    <2>1. [call[c] EXCEPT !.step = step, !.user = user] \in Requests
        <3>1. call[c] \in Requests
            BY DEF TypeOK
        <3> QED
            BY <3>1 DEF Requests, LookingUp
    <2> QED
        BY <1>1, <2>1 DEF Found, TypeOK
<1>3. /\ call'[c].step = step /\ call'[c].key = call[c].key
      /\ call'[c].sub = call[c].sub /\ call'[c].email = call[c].email
    BY <1>1 DEF Found, TypeOK, Requests
<1>4. \A d \in Calls \ {c} : call'[d] = call[d]
    BY <1>1 DEF Found, TypeOK
<1>5. step # "EXCHANGE" /\ call[c].key \in States
    BY DEF LookingUp, KeysFit
<1>6. KeysFit'
    BY <1>3, <1>4, <1>5 DEF KeysFit
<1> QED
    BY <1>2, <1>6

LEMMA FinishMoves ==
    ASSUME TypeOK, KeysFit, NEW c \in Calls, Finish(c)
    PROVE  call' \in [Calls -> Requests] /\ KeysFit'
<1>1. call' \in [Calls -> Requests]
    BY IdleType DEF Finish, TypeOK
<1>2. call'[c].step = "IDLE" /\ \A d \in Calls \ {c} : call'[d] = call[d]
    BY IdleType DEF Finish, TypeOK
<1>3. KeysFit'
    BY <1>2 DEF KeysFit, LookingUp
<1> QED
    BY <1>1, <1>3

LEMMA BeginMoves ==
    ASSUME TypeOK, KeysFit, NEW c \in Calls, NEW key \in Int,
           \/ Begin(c, "CONSUME", key) /\ key \in States
           \/ Begin(c, "EXCHANGE", key) /\ key \in Exchanges
    PROVE  call' \in [Calls -> Requests] /\ KeysFit'
<1>1. PICK step \in {"CONSUME", "EXCHANGE"} :
        /\ Begin(c, step, key)
        /\ step = "CONSUME" => key \in States
        /\ step = "EXCHANGE" => key \in Exchanges
    OBVIOUS
<1>2. call' \in [Calls -> Requests]
    BY <1>1, IdleType DEF Begin, TypeOK, Requests
<1>3. call'[c].step = step /\ call'[c].key = key
    BY <1>1, IdleType DEF Begin, TypeOK, Requests
<1>4. \A d \in Calls \ {c} : call'[d] = call[d]
    BY <1>1 DEF Begin, TypeOK
<1>5. KeysFit'
    BY <1>1, <1>3, <1>4 DEF KeysFit, LookingUp
<1> QED
    BY <1>2, <1>5

\* A step of a call that writes users at most.
LEMMA OnlyUsers ==
    ASSUME Inv, users' \in [Emails -> UserRows], call' \in [Calls -> Requests],
           KeysFit', lanes' = lanes, UNCHANGED <<states, exchanges, admitted, delivered>>
    PROVE  Inv'
BY DEF Inv, TypeOK, UnusedIsUntouched, StateAdmitsOnce, ExchangeDeliversOnce

-----------------------------------------------------------------------------
(* The steps that write states and exchange tokens.                        *)

LEMMA StartKeeps ==
    ASSUME Inv, NEW s \in States, Start(s), lanes' = lanes
    PROVE  Inv'
<1>1. TypeOK' /\ KeysFit'
    BY DEF Start, Inv, TypeOK, Statuses, KeysFit
<1>2. UnusedIsUntouched'
    BY DEF Start, Inv, TypeOK, UnusedIsUntouched
<1> QED
    BY <1>1, <1>2 DEF Start, Inv, StateAdmitsOnce, ExchangeDeliversOnce

LEMMA ExpireKeeps ==
    ASSUME Inv, Expire, lanes' = lanes
    PROVE  Inv'
<1>1. CASE \E s \in States :
            /\ states[s] = "FRESH"
            /\ states' = [states EXCEPT ![s] = "EXPIRED"]
            /\ UNCHANGED exchanges
    <2>1. TypeOK' /\ KeysFit'
        BY <1>1 DEF Expire, Inv, TypeOK, Statuses, KeysFit
    <2>2. UnusedIsUntouched'
        BY <1>1 DEF Expire, Inv, TypeOK, UnusedIsUntouched
    <2> QED
        BY <2>1, <2>2 DEF Expire, Inv, StateAdmitsOnce, ExchangeDeliversOnce
<1>2. ASSUME NEW x \in Exchanges, exchanges[x].status = "FRESH",
             exchanges' = [exchanges EXCEPT ![x].status = "EXPIRED"],
             UNCHANGED states
      PROVE  Inv'
    <2>1. exchanges' \in [Exchanges -> [status : Statuses, user : Emails \cup {NoEmail}]]
        BY <1>2 DEF Inv, TypeOK, Statuses
    <2>2. TypeOK' /\ KeysFit'
        BY <1>2, <2>1 DEF Expire, Inv, TypeOK, KeysFit
    <2>3. \A y \in Exchanges \ {x} : exchanges'[y] = exchanges[y]
        BY <1>2 DEF Inv, TypeOK
    <2>4. delivered[x] = 0
        BY <1>2 DEF Inv, UnusedIsUntouched
    <2>5. UnusedIsUntouched'
        BY <1>2, <2>3, <2>4 DEF Expire, Inv, UnusedIsUntouched
    <2> QED
        BY <2>2, <2>5 DEF Expire, Inv, StateAdmitsOnce, ExchangeDeliversOnce
<1> QED
    BY <1>1, <1>2 DEF Expire

LEMMA ConsumeKeeps ==
    ASSUME Inv, NEW c \in Calls, Consume(c), lanes' = lanes
    PROVE  Inv'
<1> DEFINE s == call[c].key
<1>1. s \in States
    BY DEF Consume, Inv, KeysFit
<1>2. CASE states[s] = "FRESH"
    <2>1. /\ states' = [states EXCEPT ![s] = "USED"]
          /\ admitted' = [admitted EXCEPT ![s] = @ + 1]
          /\ Go(c, "CODE")
        BY <1>2 DEF Consume, Admit
    <2>2. call' \in [Calls -> Requests] /\ KeysFit'
        BY <2>1, GoMoves DEF Consume, Inv
    <2>3. TypeOK'
        <3>1. states' \in [States -> Statuses] /\ admitted' \in [States -> Nat]
            BY <1>1, <2>1 DEF Inv, TypeOK, Statuses
        <3> QED
            BY <2>2, <3>1 DEF Consume, Inv, TypeOK
    <2>4. admitted[s] = 0
        BY <1>1, <1>2 DEF Inv, UnusedIsUntouched
    <2>5. /\ states'[s] = "USED" /\ admitted'[s] = 1
          /\ \A r \in States \ {s} : states'[r] = states[r] /\ admitted'[r] = admitted[r]
        BY <1>1, <2>1, <2>4 DEF Inv, TypeOK
    <2>6. UnusedIsUntouched'
        BY <2>5 DEF Consume, Inv, UnusedIsUntouched
    <2>7. StateAdmitsOnce'
        BY <2>5 DEF Inv, StateAdmitsOnce
    <2> QED
        BY <2>2, <2>3, <2>6, <2>7 DEF Consume, Inv, ExchangeDeliversOnce
<1>3. CASE states[s] # "FRESH"
    <2>1. Finish(c) /\ UNCHANGED <<users, states, exchanges, admitted, delivered>>
        BY <1>3 DEF Consume
    <2>2. call' \in [Calls -> Requests] /\ KeysFit'
        BY <2>1, FinishMoves DEF Inv
    <2> QED
        BY <2>1, <2>2, OnlyUsers DEF Inv, TypeOK
<1> QED
    BY <1>2, <1>3

LEMMA CreateExchangeKeeps ==
    ASSUME Inv, NEW c \in Calls, NEW x \in Exchanges, CreateExchange(c, x), lanes' = lanes
    PROVE  Inv'
<1>1. call' \in [Calls -> Requests] /\ KeysFit'
    BY FinishMoves DEF CreateExchange, Inv
<1>2. call[c].user \in Emails \cup {NoEmail}
    BY DEF Inv, TypeOK, Requests
<1>3. TypeOK'
    <2>1. [status |-> "FRESH", user |-> call[c].user]
            \in [status : Statuses, user : Emails \cup {NoEmail}]
        BY <1>2 DEF Statuses
    <2> QED
        BY <1>1, <2>1 DEF CreateExchange, Inv, TypeOK
<1>4. UnusedIsUntouched'
    BY DEF CreateExchange, Inv, TypeOK, UnusedIsUntouched
<1> QED
    BY <1>1, <1>3, <1>4 DEF CreateExchange, Inv, StateAdmitsOnce, ExchangeDeliversOnce

LEMMA ExchangeUseKeeps ==
    ASSUME Inv, NEW c \in Calls, ExchangeUse(c), lanes' = lanes
    PROVE  Inv'
<1> DEFINE x == call[c].key
<1>1. x \in Exchanges
    BY DEF ExchangeUse, Inv, KeysFit
<1>2. call' \in [Calls -> Requests] /\ KeysFit'
    BY FinishMoves DEF ExchangeUse, Inv
<1>3. CASE exchanges[x].status = "FRESH"
    <2>1. /\ exchanges' = [exchanges EXCEPT ![x].status = "USED"]
          /\ delivered' = [delivered EXCEPT ![x] = @ + 1]
        BY <1>3 DEF ExchangeUse
    <2>2. exchanges' \in [Exchanges -> [status : Statuses, user : Emails \cup {NoEmail}]]
        BY <2>1 DEF Inv, TypeOK, Statuses
    <2>3. TypeOK'
        BY <1>2, <2>1, <2>2 DEF ExchangeUse, Inv, TypeOK
    <2>4. delivered[x] = 0
        BY <1>1, <1>3 DEF Inv, UnusedIsUntouched
    <2>5. /\ exchanges'[x].status = "USED" /\ delivered'[x] = 1
          /\ \A y \in Exchanges \ {x} :
                exchanges'[y] = exchanges[y] /\ delivered'[y] = delivered[y]
        BY <1>1, <2>1, <2>4 DEF Inv, TypeOK
    <2>6. UnusedIsUntouched'
        BY <2>5 DEF ExchangeUse, Inv, UnusedIsUntouched
    <2>7. ExchangeDeliversOnce'
        BY <2>5 DEF Inv, ExchangeDeliversOnce
    <2> QED
        BY <1>2, <2>3, <2>6, <2>7 DEF ExchangeUse, Inv, StateAdmitsOnce
<1>4. CASE exchanges[x].status # "FRESH"
    <2>1. UNCHANGED <<users, states, exchanges, admitted, delivered>>
        BY <1>4 DEF ExchangeUse
    <2> QED
        BY <1>2, <2>1, OnlyUsers DEF Inv, TypeOK
<1> QED
    BY <1>3, <1>4

-----------------------------------------------------------------------------

LEMMA RowTypes ==
    ASSUME NEW sub \in Subs \cup {NoSub}, NEW email \in Emails \cup {NoEmail}
    PROVE  NoUser \in UserRows /\ Local \in UserRows /\ Linked(sub, email) \in UserRows
BY DEF NoUser, Local, Linked, UserRows

LEMMA RegisterKeeps ==
    ASSUME Inv, NEW email \in Emails, Register(email), lanes' = lanes
    PROVE  Inv'
<1>1. users' \in [Emails -> UserRows]
    BY RowTypes DEF Register, Inv, TypeOK
<1>2. call' \in [Calls -> Requests] /\ KeysFit'
    BY DEF Register, Inv, TypeOK, KeysFit
<1> QED
    BY <1>1, <1>2, OnlyUsers DEF Register

\* The statements that look users up, and the steps before them.
LEMMA LookupKeeps ==
    ASSUME Inv, NEW c \in Calls, lanes' = lanes,
           \/ \E s \in States : StateLook(c, s)
           \/ \E x \in Exchanges : ExchangeLook(c, x)
           \/ Fail(c) \/ FindBySub(c) \/ FindByEmail(c) \/ Fallback(c)
           \/ \E sub \in Subs, email \in Emails : Identify(c, sub, email)
    PROVE  Inv'
<1>1. ASSUME NoWrite, call' \in [Calls -> Requests], KeysFit'
      PROVE  Inv'
    BY <1>1, OnlyUsers DEF NoWrite, Inv, TypeOK
<1>2. ASSUME NEW s \in States, StateLook(c, s) PROVE Inv'
    BY <1>1, <1>2, BeginMoves DEF StateLook, Inv, States
<1>3. ASSUME NEW x \in Exchanges, ExchangeLook(c, x) PROVE Inv'
    BY <1>1, <1>3, BeginMoves DEF ExchangeLook, Inv, Exchanges
<1>4. CASE Fail(c)
    BY <1>1, <1>4, FinishMoves DEF Fail, Inv
<1>5. CASE FindBySub(c)
    <2>1. CASE Go(c, "FIND_EMAIL")
        BY <1>1, <1>5, <2>1, GoMoves DEF FindBySub, Inv, LookingUp
    <2>2. ASSUME NEW e \in Holders(call[c].sub),
                 Found(c, "ISSUE", e) \/ Found(c, "UPDATE", e)
          PROVE  Inv'
        BY <1>1, <1>5, <2>2, FoundMoves DEF FindBySub, Inv, Holders, LookingUp
    <2> QED
        BY <1>5, <2>1, <2>2 DEF FindBySub
<1>6. CASE FindByEmail(c)
    <2>1. Go(c, "CREATE") \/ Go(c, "LINK") \/ Finish(c)
        BY <1>6 DEF FindByEmail
    <2> QED
        BY <1>1, <1>6, <2>1, GoMoves, FinishMoves DEF FindByEmail, Inv, LookingUp
<1>7. CASE Fallback(c)
    <2>1. CASE Finish(c)
        BY <1>1, <1>7, <2>1, FinishMoves DEF Fallback, Inv
    <2>2. ASSUME NEW e \in Holders(call[c].sub), Found(c, "ISSUE", e) PROVE Inv'
        BY <1>1, <1>7, <2>2, FoundMoves DEF Fallback, Inv, Holders, LookingUp
    <2> QED
        BY <1>7, <2>1, <2>2 DEF Fallback
<1>8. ASSUME NEW sub \in Subs, NEW email \in Emails, Identify(c, sub, email)
      PROVE  Inv'
    <2>1. call' \in [Calls -> Requests]
        <3> DEFINE request ==
                [call[c] EXCEPT !.step = "FIND_SUB", !.sub = sub, !.email = email]
        <3>1. call[c] \in Requests
            BY DEF Inv, TypeOK
        <3>2. request \in Requests
            BY <1>8, <3>1 DEF Requests, LookingUp
        <3> QED
            BY <1>8, <3>2 DEF Identify, Inv, TypeOK
    <2>2. /\ call'[c].step = "FIND_SUB" /\ call'[c].key = call[c].key
          /\ call'[c].sub = sub /\ call'[c].email = email
          /\ \A d \in Calls \ {c} : call'[d] = call[d]
        BY <1>8 DEF Identify, Inv, TypeOK, Requests
    <2>3. KeysFit'
        BY <1>8, <2>2 DEF Identify, Inv, KeysFit
    <2> QED
        BY <1>1, <1>8, <2>1, <2>3 DEF Identify
<1> QED
    BY <1>2, <1>3, <1>4, <1>5, <1>6, <1>7, <1>8

\* The statements that write users.
LEMMA UserWriteKeeps ==
    ASSUME Inv, NEW c \in Calls, lanes' = lanes, Update(c) \/ Link(c) \/ Create(c)
    PROVE  Inv'
<1>1. /\ call[c].sub \in Subs \cup {NoSub}
      /\ call[c].email \in Emails \cup {NoEmail}
      /\ call[c].user \in Emails \cup {NoEmail}
      /\ users \in [Emails -> UserRows]
    BY DEF Inv, TypeOK, Requests
<1>2. UNCHANGED <<states, exchanges, admitted, delivered>> /\ call[c].step \in LookingUp
    BY DEF Update, Link, Create, LookingUp
<1>3. users' \in [Emails -> UserRows]
    <2>1. CASE Update(c)
        BY <1>1, <2>1 DEF Update, UserRows
    <2>2. CASE Link(c) \/ Create(c)
        <3>1. \/ UNCHANGED users
              \/ users' = [users EXCEPT ![call[c].email] = Linked(call[c].sub, call[c].email)]
            BY <2>2 DEF Link, Create
        <3> QED
            BY <1>1, <3>1, RowTypes
    <2> QED
        BY <2>1, <2>2
<1>4. call' \in [Calls -> Requests] /\ KeysFit'
    <2>1. \/ Go(c, "ISSUE") \/ Go(c, "FALLBACK")
          \/ Found(c, "ISSUE", call[c].email)
        BY DEF Update, Link, Create
    <2> QED
        BY <1>1, <1>2, <2>1, GoMoves, FoundMoves DEF Inv, LookingUp
<1> QED
    BY <1>2, <1>3, <1>4, OnlyUsers

THEOREM Invariance == Spec => []Inv
<1>1. Init => Inv
    <2> SUFFICES ASSUME Init PROVE Inv
        OBVIOUS
    <2>1. TypeOK
        <3>1. users \in [Emails -> UserRows]
            BY RowTypes DEF Init
        <3>2. call \in [Calls -> Requests]
            BY IdleType DEF Init
        <3> QED
            BY <3>1, <3>2 DEF Init, TypeOK, Statuses
    <2>2. KeysFit
        <3>1. \A c \in Calls : call[c].step = "IDLE"
            BY IdleType DEF Init
        <3> QED
            BY <3>1 DEF KeysFit, LookingUp
    <2>3. UnusedIsUntouched /\ StateAdmitsOnce /\ ExchangeDeliversOnce
        BY DEF Init, UnusedIsUntouched, StateAdmitsOnce, ExchangeDeliversOnce
    <2> QED
        BY <2>1, <2>2, <2>3 DEF Inv
<1>2. Inv /\ [Next]_vars => Inv'
    <2> SUFFICES ASSUME Inv, [Next]_vars PROVE Inv'
        OBVIOUS
    <2>1. CASE Next
        <3>1. lanes' = lanes /\ \A c \in lanes : c \in Calls
            BY <2>1 DEF Next, Inv, TypeOK
        <3> QED
            BY <2>1, <3>1, RegisterKeeps, StartKeeps, ExpireKeeps, ConsumeKeeps,
               LookupKeeps, UserWriteKeeps, CreateExchangeKeeps, ExchangeUseKeeps
               DEF Next, Step
    <2>2. CASE UNCHANGED vars
        BY <2>2 DEF vars, Inv, TypeOK, KeysFit, UnusedIsUntouched, StateAdmitsOnce,
                    ExchangeDeliversOnce
    <2> QED
        BY <2>1, <2>2
<1> QED
    BY <1>1, <1>2, PTL DEF Spec

\* Whatever callbacks overlap and repeat, consumeState lets at most one of those
\* that bring a state through to findOrCreateGoogleUser.
THEOREM StatesAreOneTime == Spec => []StateAdmitsOnce
<1>1. Inv => StateAdmitsOnce
    BY DEF Inv
<1> QED
    BY <1>1, Invariance, PTL

\* Whatever exchanges overlap and repeat, exchangeToken returns the pair of an
\* exchange token once at most.
THEOREM ExchangesAreOneTime == Spec => []ExchangeDeliversOnce
<1>1. Inv => ExchangeDeliversOnce
    BY DEF Inv
<1> QED
    BY <1>1, Invariance, PTL

-----------------------------------------------------------------------------
(* A lookup that ends without a user.                                      *)

\* A step of one call leaves the other calls alone.
LEMMA OthersWait ==
    ASSUME TypeOK, NEW c \in Calls, NEW d \in Calls, c # d, Step(d)
    PROVE  call'[c] = call[c]
<1>1. call \in [Calls -> Requests]
    BY DEF TypeOK
<1>2. CASE Consume(d) \/ Fail(d) \/ \E x \in Exchanges : CreateExchange(d, x)
    BY <1>1, <1>2 DEF Consume, Fail, CreateExchange, Admit, Go, Finish
<1>3. CASE FindBySub(d) \/ Update(d) \/ FindByEmail(d)
    BY <1>1, <1>3 DEF FindBySub, Update, FindByEmail, Go, Found, Finish
<1>4. CASE Link(d) \/ Create(d) \/ Fallback(d)
    BY <1>1, <1>4 DEF Link, Create, Fallback, Go, Found, Finish
<1>5. CASE (\E s \in States : StateLook(d, s)) \/ (\E x \in Exchanges : ExchangeLook(d, x))
    BY <1>1, <1>5 DEF StateLook, ExchangeLook, Begin
<1>6. CASE \/ ExchangeUse(d)
           \/ \E sub \in Subs, email \in Emails : Identify(d, sub, email)
    BY <1>1, <1>6 DEF ExchangeUse, Identify, Finish
<1> QED
    BY <1>2, <1>3, <1>4, <1>5, <1>6 DEF Step

LEMMA GoesThere ==
    ASSUME TypeOK, NEW c \in Calls, NEW step, NEW user, Go(c, step) \/ Found(c, step, user)
    PROVE  call'[c].step = step
<1>1. call \in [Calls -> Requests]
    BY DEF TypeOK
<1>2. CASE Go(c, step)
    <2>1. call'[c] = [call[c] EXCEPT !.step = step]
        BY <1>1, <1>2 DEF Go
    <2> QED
        BY <1>1, <2>1 DEF Requests
<1>3. CASE Found(c, step, user)
    <2>1. call'[c] = [call[c] EXCEPT !.step = step, !.user = user]
        BY <1>1, <1>3 DEF Found
    <2> QED
        BY <1>1, <2>1 DEF Requests
<1> QED
    BY <1>2, <1>3

\* Neither a registration nor a login beside another one makes its lookup of
\* users fail: findOrCreateGoogleUser fails only while the user of the e-mail is
\* not linked to the account.
THEOREM FirstLogins == Spec => FirstLoginsAgree
<1>1. Inv /\ [Next]_vars => 
        [\A c \in Calls : call[c].step \in LookingUp /\ call'[c] = Idle =>
            users[call[c].email].sub # call[c].sub]_vars
    <2> SUFFICES ASSUME Inv, Next, NEW c \in Calls, call[c].step \in LookingUp,
                        call'[c] = Idle
                 PROVE  users[call[c].email].sub # call[c].sub
        OBVIOUS
    <2>1. /\ call[c].sub \in Subs /\ call[c].email \in Emails
          /\ call'[c].step # call[c].step
          /\ call'[c].step \notin LookingUp \cup {"ISSUE", "CODE"}
        BY IdleType DEF Inv, KeysFit, LookingUp
    <2>2. PICK d \in Calls : Step(d)
        BY <2>1 DEF Next, Register, Start, Expire, Inv, TypeOK
    <2>3. Step(c)
        BY <2>1, <2>2, OthersWait DEF Inv
    <2>4. ~Go(c, "ISSUE") /\ (\A user : ~Found(c, "ISSUE", user) /\ ~Found(c, "UPDATE", user))
        BY <2>1, GoesThere DEF Inv, LookingUp
    <2>5. \A step \in LookingUp : ~Go(c, step)
        BY <2>1, GoesThere DEF Inv
    <2>6. CASE FindByEmail(c)
        BY <2>5, <2>6 DEF FindByEmail, LookingUp
    <2>7. CASE Fallback(c)
        BY <2>1, <2>4, <2>7 DEF Fallback, Holders
    <2>8. ~FindBySub(c) /\ ~Update(c) /\ ~Link(c) /\ ~Create(c)
        BY <2>4, <2>5 DEF FindBySub, Update, Link, Create, LookingUp
    <2>9. /\ ~Consume(c) /\ ~Fail(c) /\ ~ExchangeUse(c)
          /\ \A x \in Exchanges : ~CreateExchange(c, x)
          /\ \A sub \in Subs, email \in Emails : ~Identify(c, sub, email)
        BY DEF Consume, Fail, ExchangeUse, CreateExchange, Identify, LookingUp
    <2>10. /\ \A s \in States : ~StateLook(c, s)
           /\ \A x \in Exchanges : ~ExchangeLook(c, x)
        BY IdleType DEF StateLook, ExchangeLook, Begin, LookingUp
    <2> QED
        BY <2>3, <2>6, <2>7, <2>8, <2>9, <2>10 DEF Step
<1> QED
    BY <1>1, Invariance, PTL DEF Spec, FirstLoginsAgree

-----------------------------------------------------------------------------
(* Callbacks made one at a time, with registrations between.               *)

\* Only a user who exists is linked, so a registration never takes the place of
\* one.
LinkedExist == \A e \in Emails : users[e].sub # NoSub => users[e].exists

\* The user that the call c has found is linked to the account of its id_token.
FoundIsLinked(c) ==
    call[c].step \in {"ISSUE", "UPDATE"} =>
        /\ call[c].sub \in Subs
        /\ call[c].user \in Emails
        /\ users[call[c].user].sub = call[c].sub

SerialInv ==
    Serial =>
        /\ LinkedExist
        /\ \A c \in Calls : FoundIsLinked(c) /\ (c \notin lanes => call[c] = Idle)

LEMMA MovesFields ==
    ASSUME TypeOK, NEW c \in Calls, NEW step, NEW user
    PROVE  /\ Go(c, step) => /\ call'[c].step = step
                             /\ call'[c].sub = call[c].sub
                             /\ call'[c].user = call[c].user
           /\ Found(c, step, user) => /\ call'[c].step = step
                                      /\ call'[c].sub = call[c].sub
                                      /\ call'[c].user = user
<1>1. call \in [Calls -> Requests] /\ call[c] \in Requests
    BY DEF TypeOK
<1>2. ASSUME Go(c, step)
      PROVE  /\ call'[c].step = step
             /\ call'[c].sub = call[c].sub
             /\ call'[c].user = call[c].user
    BY <1>1, <1>2 DEF Go, Requests
<1>3. ASSUME Found(c, step, user)
      PROVE  /\ call'[c].step = step
             /\ call'[c].sub = call[c].sub
             /\ call'[c].user = user
    BY <1>1, <1>3 DEF Found, Requests
<1> QED
    BY <1>2, <1>3

\* A step after which the call holds no user.
LEMMA HoldsNoUser ==
    ASSUME TypeOK, NEW c \in Calls,
           \/ Finish(c)
           \/ \E step : Go(c, step) /\ step \notin {"ISSUE", "UPDATE"}
           \/ \E step, key : Begin(c, step, key) /\ step \notin {"ISSUE", "UPDATE"}
    PROVE  FoundIsLinked(c)'
<1>1. CASE Finish(c)
    BY <1>1, IdleType DEF TypeOK, Finish, FoundIsLinked
<1>2. CASE \E step : Go(c, step) /\ step \notin {"ISSUE", "UPDATE"}
    BY <1>2, MovesFields DEF FoundIsLinked
<1>3. ASSUME NEW step, NEW key, Begin(c, step, key), step \notin {"ISSUE", "UPDATE"}
      PROVE  FoundIsLinked(c)'
    <2>1. call'[c] = [Idle EXCEPT !.step = step, !.key = key]
        BY <1>3 DEF Begin, TypeOK
    <2>2. call'[c].step = step
        BY <2>1, IdleType DEF Requests
    <2> QED
        BY <1>3, <2>2 DEF FoundIsLinked
<1> QED
    BY <1>1, <1>2, <1>3

LEMMA LinkedRow ==
    ASSUME NEW sub, NEW email
    PROVE  Linked(sub, email).sub = sub /\ Linked(sub, email).exists
BY DEF Linked

\* The step of the only call: what it finds or writes is linked to its account.
LEMMA StepFinds ==
    ASSUME Inv, NEW c \in Calls, LinkedExist, FoundIsLinked(c), Step(c)
    PROVE  LinkedExist' /\ FoundIsLinked(c)'
<1>t. /\ TypeOK
      /\ users \in [Emails -> UserRows]
      /\ call[c].step \in LookingUp => call[c].sub \in Subs /\ call[c].email \in Emails
    BY DEF Inv, TypeOK, KeysFit
<1>1. ASSUME UNCHANGED users, FoundIsLinked(c)' PROVE LinkedExist' /\ FoundIsLinked(c)'
    BY <1>1 DEF LinkedExist
<1> USE DEF NoWrite
<1>2. ASSUME NEW s \in States, StateLook(c, s) PROVE LinkedExist' /\ FoundIsLinked(c)'
    BY <1>t, <1>1, <1>2, HoldsNoUser DEF StateLook
<1>3. CASE Consume(c)
    BY <1>t, <1>1, <1>3, HoldsNoUser DEF Consume, Admit
<1>4. CASE Fail(c)
    BY <1>t, <1>1, <1>4, HoldsNoUser DEF Fail
<1>5. ASSUME NEW sub \in Subs, NEW email \in Emails, Identify(c, sub, email)
      PROVE  LinkedExist' /\ FoundIsLinked(c)'
    <2>1. call'[c].step = "FIND_SUB"
        BY <1>5, <1>t DEF Identify, TypeOK, Requests
    <2> QED
        BY <1>1, <1>5, <2>1 DEF Identify, FoundIsLinked
<1>6. CASE FindBySub(c)
    <2>1. CASE Go(c, "FIND_EMAIL")
        BY <1>t, <1>1, <1>6, <2>1, HoldsNoUser DEF FindBySub
    <2>2. ASSUME NEW e \in Holders(call[c].sub), NEW step, Found(c, step, e)
          PROVE  LinkedExist' /\ FoundIsLinked(c)'
        <3>1. e \in Emails /\ users[e].sub = call[c].sub /\ call[c].sub \in Subs
            BY <1>t, <1>6, <2>2 DEF FindBySub, Holders, LookingUp
        <3> QED
            BY <1>t, <1>1, <1>6, <2>2, <3>1, MovesFields DEF FindBySub, FoundIsLinked
    <2> QED
        BY <1>6, <2>1, <2>2 DEF FindBySub
\* The account and the user stay linked; only the e-mail noted of it changes.
<1>7. CASE Update(c)
    <2>1. call[c].user \in Emails /\ call[c].sub \in Subs /\ users[call[c].user].sub = call[c].sub
        BY <1>7 DEF Update, FoundIsLinked
    <2>2. /\ users' = [users EXCEPT ![call[c].user].googleEmail = call[c].email]
          /\ Go(c, "ISSUE")
        BY <1>7 DEF Update
    <2>3. \A e \in Emails : users'[e].sub = users[e].sub /\ users'[e].exists = users[e].exists
        BY <1>t, <2>2 DEF UserRows
    <2> QED
        BY <1>t, <2>1, <2>2, <2>3, MovesFields DEF LinkedExist, FoundIsLinked
<1>8. CASE FindByEmail(c)
    BY <1>t, <1>1, <1>8, HoldsNoUser DEF FindByEmail
<1>9. CASE Link(c) \/ Create(c)
    <2>1. CASE Go(c, "FALLBACK") /\ UNCHANGED users
        BY <1>t, <1>1, <2>1, HoldsNoUser
    <2>2. CASE /\ users' = [users EXCEPT ![call[c].email] =
                                Linked(call[c].sub, call[c].email)]
               /\ Found(c, "ISSUE", call[c].email)
        <3>1. call[c].sub \in Subs /\ call[c].email \in Emails
            BY <1>9, <1>t DEF Link, Create, LookingUp
        <3>2. /\ users'[call[c].email].sub = call[c].sub
              /\ users'[call[c].email].exists
              /\ \A e \in Emails \ {call[c].email} : users'[e] = users[e]
            BY <1>t, <2>2, <3>1, LinkedRow
        <3> QED
            BY <1>t, <2>2, <3>1, <3>2, MovesFields DEF LinkedExist, FoundIsLinked
    <2> QED
        BY <1>9, <2>1, <2>2 DEF Link, Create
<1>10. CASE Fallback(c)
    <2>1. CASE Finish(c)
        BY <1>t, <1>1, <1>10, <2>1, HoldsNoUser DEF Fallback
    <2>2. ASSUME NEW e \in Holders(call[c].sub), Found(c, "ISSUE", e)
          PROVE  LinkedExist' /\ FoundIsLinked(c)'
        <3>1. e \in Emails /\ users[e].sub = call[c].sub /\ call[c].sub \in Subs
            BY <1>t, <1>10, <2>2 DEF Fallback, Holders, LookingUp
        <3> QED
            BY <1>t, <1>1, <1>10, <2>2, <3>1, MovesFields DEF Fallback, FoundIsLinked
    <2> QED
        BY <1>10, <2>1, <2>2 DEF Fallback
<1>11. ASSUME NEW x \in Exchanges, CreateExchange(c, x) \/ ExchangeLook(c, x)
       PROVE  LinkedExist' /\ FoundIsLinked(c)'
    BY <1>t, <1>1, <1>11, HoldsNoUser DEF CreateExchange, ExchangeLook
<1>12. CASE ExchangeUse(c)
    BY <1>t, <1>1, <1>12, HoldsNoUser DEF ExchangeUse
<1> QED
    BY <1>2, <1>3, <1>4, <1>5, <1>6, <1>7, <1>8, <1>9, <1>10, <1>11, <1>12 DEF Step

\* Steps of no call: the users that are linked stay as they are.
LEMMA OthersKeepLinks ==
    ASSUME Inv, SerialInv, UNCHANGED <<call, lanes>>,
           UNCHANGED users \/ \E email \in Emails : Register(email)
    PROVE  SerialInv'
<1> SUFFICES ASSUME Serial, LinkedExist,
                    \A c \in Calls : FoundIsLinked(c) /\ (c \notin lanes => call[c] = Idle)
             PROVE  LinkedExist' /\ \A c \in Calls : FoundIsLinked(c)'
    BY DEF SerialInv, Serial
<1>1. \A e \in Emails : users[e].sub # NoSub => users'[e] = users[e]
    BY DEF Register, LinkedExist, Inv, TypeOK
<1>2. LinkedExist'
    <2>1. ASSUME NEW email \in Emails, Register(email) PROVE LinkedExist'
        BY <2>1 DEF Register, LinkedExist, Local, Inv, TypeOK
    <2> QED
        BY <2>1 DEF LinkedExist
<1>3. \A c \in Calls : FoundIsLinked(c)'
    BY <1>1, GoogleAssumption DEF FoundIsLinked
<1> QED
    BY <1>2, <1>3

LEMMA SerialInvHolds == Spec => []SerialInv
<1>1. Init => SerialInv
    BY IdleType DEF Init, SerialInv, LinkedExist, FoundIsLinked, NoUser, Idle
<1>2. Inv /\ SerialInv /\ [Next]_vars => SerialInv'
    <2> SUFFICES ASSUME Inv, SerialInv, [Next]_vars PROVE SerialInv'
        OBVIOUS
    <2>0. lanes' = lanes /\ lanes \subseteq Calls
        BY DEF Next, vars, Inv, TypeOK
    <2>1. ASSUME NEW email \in Emails, Register(email) PROVE SerialInv'
        BY <2>0, <2>1, OthersKeepLinks DEF Register
    <2>2. ASSUME NEW s \in States, Start(s) PROVE SerialInv'
        BY <2>0, <2>2, OthersKeepLinks DEF Start
    <2>3. CASE Expire
        BY <2>0, <2>3, OthersKeepLinks DEF Expire
    <2>4. CASE UNCHANGED vars
        BY <2>4, OthersKeepLinks DEF vars
    <2>5. ASSUME NEW c \in lanes, Step(c) PROVE SerialInv'
        <3> SUFFICES ASSUME Serial
                     PROVE  /\ LinkedExist'
                            /\ \A d \in Calls :
                                FoundIsLinked(d)' /\ (d \notin lanes' => call'[d] = Idle)
            BY <2>0 DEF SerialInv, Serial
        <3>1. lanes = {c} /\ c \in Calls
            BY <2>0, <2>5 DEF Serial
        <3>2. LinkedExist' /\ FoundIsLinked(c)'
            BY <2>5, <3>1, StepFinds DEF SerialInv
        <3>3. \A d \in Calls \ {c} : call'[d] = Idle
            BY <2>5, <3>1, OthersWait DEF SerialInv, Inv
        <3>4. \A d \in Calls \ {c} : FoundIsLinked(d)'
            BY <3>3, IdleType DEF FoundIsLinked
        <3> QED
            BY <2>0, <3>1, <3>2, <3>3, <3>4
    <2> QED
        BY <2>1, <2>2, <2>3, <2>4, <2>5 DEF Next
<1> QED
    BY <1>1, <1>2, Invariance, PTL DEF Spec

\* The pair of tokens is issued for the user that the Google account is linked
\* to, when callbacks are made one at a time: found by the account, linked to it,
\* created with it or found by it after all.
THEOREM SerialSignsInTheLinked == Spec => []SerialSignedInAsLinked
<1>1. SerialInv => SerialSignedInAsLinked
    BY DEF SerialInv, SerialSignedInAsLinked, FoundIsLinked
<1> QED
    BY <1>1, SerialInvHolds, PTL

-----------------------------------------------------------------------------
(* The cache of certificates, for any number of lookups and keys and any   *)
(* max-age.  What it promises of a key rests on the lookup that fetched    *)
(* it: the answer of Google is not older than the start of the lookup, so  *)
(* a key in it was published no earlier than that (AnswersAreRecent); and  *)
(* until is counted from that start (CacheCountsFromStart).                *)

\* What is published now was published last now, and nothing later than now.
PublishedNow ==
    \A k \in Kids : last[k] <= now /\ (k \in published => last[k] = now)

\* What a lookup has been told was still published when the lookup started.
AnswersAreRecent ==
    \A c \in Lookups :
        /\ lookup[c].start <= now
        /\ lookup[c].step = "STORE" =>
            \A k \in lookup[c].kids : lookup[c].start <= last[k]

\* A key in the cache was published at most max-age before the cache ends.
CacheCountsFromStart ==
    \A k \in cache.kids : cache.until <= last[k] + MaxAge

CertsInv == CertsTypeOK /\ PublishedNow /\ AnswersAreRecent /\ CacheCountsFromStart

LEMMA NoLookupType == NoLookup \in LookupRecords /\ NoLookup.step = "IDLE" /\ NoLookup.start = 0
<1>1. NoLookup \in LookupRecords
    BY SMT DEF NoLookup, LookupRecords
<1>2. NoLookup.step = "IDLE" /\ NoLookup.start = 0
    BY DEF NoLookup
<1> QED
    BY <1>1, <1>2

\* A step that changes what is published moves last forward only.
LEMMA LastGrows ==
    ASSUME CertsInv, now' \in Nat, now <= now', cache' = cache, lookup' = lookup,
           published' \in SUBSET Kids,
           last' = [k \in Kids |-> IF k \in published' THEN now' ELSE last[k]]
    PROVE  CertsInv'
<1>1. \A k \in Kids : last'[k] \in Nat /\ last[k] \in Nat /\ last[k] <= last'[k]
    BY DEF CertsInv, CertsTypeOK, PublishedNow
<1>2. CertsTypeOK'
    BY <1>1 DEF CertsInv, CertsTypeOK
<1>3. PublishedNow'
    BY DEF CertsInv, CertsTypeOK, PublishedNow
<1>4. AnswersAreRecent'
    <2> SUFFICES ASSUME NEW c \in Lookups
                 PROVE  /\ lookup[c].start <= now'
                        /\ lookup[c].step = "STORE" =>
                            \A k \in lookup[c].kids : lookup[c].start <= last'[k]
        BY DEF AnswersAreRecent
    <2>1. lookup[c].start \in Nat /\ lookup[c].kids \in SUBSET Kids
        BY DEF CertsInv, CertsTypeOK, LookupRecords
    <2> QED
        BY <1>1, <2>1 DEF CertsInv, CertsTypeOK, AnswersAreRecent
<1>5. CacheCountsFromStart'
    <2>1. cache.until \in Nat /\ cache.kids \in SUBSET Kids
        BY DEF CertsInv, CertsTypeOK
    <2> QED
        BY <1>1, <2>1, CertsAssumption DEF CertsInv, CacheCountsFromStart
<1> QED
    BY <1>2, <1>3, <1>4, <1>5 DEF CertsInv

THEOREM CertsInvariance == CertsSpec => []CertsInv
<1>1. CertsInit => CertsInv
    <2> SUFFICES ASSUME CertsInit PROVE CertsInv
        OBVIOUS
    <2>1. CertsTypeOK
        BY NoLookupType DEF CertsInit, CertsTypeOK, NoCache
    <2>2. PublishedNow
        BY DEF CertsInit, PublishedNow
    <2>3. AnswersAreRecent
        <3> SUFFICES ASSUME NEW c \in Lookups
                     PROVE  lookup[c].start <= now /\ lookup[c].step # "STORE"
            BY DEF AnswersAreRecent
        <3>1. lookup[c] = NoLookup /\ now = 1
            BY DEF CertsInit
        <3> QED
            BY <3>1, NoLookupType
    <2>4. CacheCountsFromStart
        BY DEF CertsInit, CacheCountsFromStart, NoCache
    <2> QED
        BY <2>1, <2>2, <2>3, <2>4 DEF CertsInv
<1>2. CertsInv /\ [CertsNext]_certsVars => CertsInv'
    <2> SUFFICES ASSUME CertsInv, [CertsNext]_certsVars PROVE CertsInv'
        OBVIOUS
    <2>1. CASE Tick
        <3>1. last' = [k \in Kids |-> IF k \in published' THEN now' ELSE last[k]]
            BY <2>1 DEF Tick
        <3> QED
            BY <2>1, <3>1, LastGrows DEF Tick, CertsInv, CertsTypeOK
    <2>2. ASSUME NEW kids \in SUBSET Kids, Rotate(kids) PROVE CertsInv'
        <3>1. last' = [k \in Kids |-> IF k \in published' THEN now' ELSE last[k]]
            BY <2>2 DEF Rotate
        <3> QED
            BY <2>2, <3>1, LastGrows DEF Rotate, CertsInv, CertsTypeOK
    <2>3. ASSUME NEW c \in Lookups, NEW kid \in Kids, Look(c, kid) PROVE CertsInv'
        <3>1. lookup' = [lookup EXCEPT ![c] = [step |-> "FETCH", kid |-> kid,
                                           start |-> now, kids |-> {}]]
            BY <2>3 DEF Look
        <3>2. CertsTypeOK'
            BY <2>3, <3>1 DEF Look, CertsInv, CertsTypeOK, LookupRecords
        <3>3. AnswersAreRecent'
            BY <2>3, <3>1 DEF Look, CertsInv, CertsTypeOK, AnswersAreRecent
        <3> QED
            BY <2>3, <3>2, <3>3
               DEF Look, CertsInv, PublishedNow, CacheCountsFromStart
    <2>4. ASSUME NEW c \in Lookups, Answer(c) PROVE CertsInv'
        <3>1. CertsTypeOK'
            BY <2>4 DEF Answer, CertsInv, CertsTypeOK, LookupRecords
        <3>2. \A k \in published : lookup[c].start <= last[k]
            BY DEF CertsInv, CertsTypeOK, PublishedNow, AnswersAreRecent
        <3>3. AnswersAreRecent'
            BY <2>4, <3>2 DEF Answer, CertsInv, CertsTypeOK, LookupRecords, AnswersAreRecent
        <3> QED
            BY <2>4, <3>1, <3>3 DEF Answer, CertsInv, PublishedNow, CacheCountsFromStart
    <2>5. ASSUME NEW c \in Lookups, FetchFails(c) PROVE CertsInv'
        <3>1. CertsTypeOK'
            BY <2>5, NoLookupType DEF FetchFails, CertsInv, CertsTypeOK
        <3>2. AnswersAreRecent'
            BY <2>5, NoLookupType DEF FetchFails, CertsInv, CertsTypeOK, AnswersAreRecent
        <3> QED
            BY <2>5, <3>1, <3>2
               DEF FetchFails, CertsInv, PublishedNow, CacheCountsFromStart
    <2>6. ASSUME NEW c \in Lookups, NEW maxAge \in 1..MaxAge, Store(c, maxAge)
          PROVE  CertsInv'
        <3>1. /\ lookup[c].start \in Nat /\ lookup[c].kids \in SUBSET Kids
              /\ maxAge \in Nat /\ maxAge <= MaxAge
            BY CertsAssumption DEF CertsInv, CertsTypeOK, LookupRecords
        <3>2. cache' = [kids |-> lookup[c].kids, until |-> lookup[c].start + maxAge]
            BY <2>6 DEF Store
        <3>3. CertsTypeOK'
            BY <2>6, <3>1, <3>2, NoLookupType DEF Store, CertsInv, CertsTypeOK
        <3>4. AnswersAreRecent'
            BY <2>6, NoLookupType DEF Store, CertsInv, CertsTypeOK, AnswersAreRecent
        <3>5. CacheCountsFromStart'
            <4> SUFFICES ASSUME NEW k \in lookup[c].kids
                         PROVE  lookup[c].start + maxAge <= last[k] + MaxAge
                BY <2>6, <3>2 DEF Store, CacheCountsFromStart
            <4>1. lookup[c].start <= last[k] /\ last[k] \in Nat
                BY <2>6, <3>1 DEF Store, CertsInv, CertsTypeOK, AnswersAreRecent
            <4> QED
                BY <3>1, <4>1, CertsAssumption
        <3> QED
            BY <2>6, <3>3, <3>4, <3>5 DEF Store, CertsInv, PublishedNow
    <2>7. CASE UNCHANGED certsVars
        BY <2>7 DEF certsVars, CertsInv, CertsTypeOK, PublishedNow, AnswersAreRecent,
                    CacheCountsFromStart
    <2> QED
        BY <2>1, <2>2, <2>3, <2>4, <2>5, <2>6, <2>7 DEF CertsNext
<1> QED
    BY <1>1, <1>2, PTL DEF CertsSpec

\* However many lookups fetch at once, and however late or out of order the
\* answers replace the cache, getGoogleCertByKid takes no key from it that
\* Google withdrew max-age ago or longer.
THEOREM WithdrawnFade == CertsSpec => []WithdrawnKeysFade
<1>1. CertsInv => WithdrawnKeysFade
    <2> SUFFICES ASSUME CertsInv, NEW kid \in Kids, Cached(kid)
                 PROVE  now < last[kid] + MaxAge
        BY DEF WithdrawnKeysFade
    <2>1. /\ now < cache.until /\ cache.until <= last[kid] + MaxAge
          /\ {now, cache.until, last[kid]} \subseteq Nat
        BY DEF CertsInv, CertsTypeOK, Cached, CacheCountsFromStart
    <2> QED
        BY <2>1, CertsAssumption
<1> QED
    BY <1>1, CertsInvariance, PTL
=============================================================================
