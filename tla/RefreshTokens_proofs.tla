-------------------------- MODULE RefreshTokens_proofs --------------------------
(***************************************************************************)
(* Proofs about RefreshTokens for any number of calls, passwords and       *)
(* seconds: a revoked token stays revoked, and a token never works beside  *)
(* the one it was exchanged for; and, when calls are made one at a time, a *)
(* token has one heir and follows the password (SerialInv, at the end).    *)
(*                                                                         *)
(* None is inductive by itself.  That a second signing of the same      *)
(* token is not stored over the first follows from Store alone, but that   *)
(* the parent of a new token is revoked rests on the call that presented   *)
(* it: CallsHoldRevoked says what such a call may rely on between its      *)
(* statements.                                                             *)
(***************************************************************************)
EXTENDS RefreshTokens, TLAPS

\* What a call may rely on between two of its statements, whatever the others
\* do: the token it presented has a row; once it signs, that row is revoked.
CallsHoldRevoked ==
    \A c \in Calls :
        /\ call[c].step = "REVOKE" =>
            call[c].token \in Tokens /\ tokens[call[c].token] # "NONE"
        /\ call[c].step = "STORE" =>
            /\ call[c].token \in Tokens
            /\ call[c].token <= now
            /\ call[c].from.parent <= call[c].token
        /\ call[c].from.parent # 0 =>
            /\ call[c].from.parent \in Tokens
            /\ call[c].from.parent <= now
            /\ tokens[call[c].from.parent] = "REVOKED"

Clock == now \in Tokens

Inv == TypeOK /\ Clock /\ CallsHoldRevoked /\ ParentRetiredFirst

LEMMA DoingType ==
    ASSUME NEW step \in {"IDLE", "REGISTER", "REVOKE", "SIGN", "STORE", "CHANGE"},
           NEW token \in 0..MaxTime,
           NEW from \in Origins,
           NEW old \in Passwords \cup {NoPassword},
           NEW new \in Passwords \cup {NoPassword}
    PROVE  /\ Doing(step, token, from, old, new) \in CallRecords
           /\ Doing(step, token, from, old, new).step = step
           /\ Doing(step, token, from, old, new).token = token
           /\ Doing(step, token, from, old, new).from = from
BY DEF Doing, CallRecords

LEMMA UnknownType == 0 \in 0..MaxTime /\ Unknown \in Origins /\ Unknown.parent = 0
BY TokenAssumption DEF Unknown, Origins

LEMMA IdleType == Idle \in CallRecords /\ Idle.step = "IDLE" /\ Idle.from.parent = 0
BY UnknownType, DoingType DEF Idle

LEMMA IssuingType ==
    ASSUME NEW pw \in Passwords \cup {NoPassword}
    PROVE  /\ Issuing(pw) \in CallRecords
           /\ Issuing(pw).step = "SIGN"
           /\ Issuing(pw).from.parent = 0
<1>1. [parent |-> 0, password |-> pw] \in Origins
    BY UnknownType DEF Origins
<1> QED
    BY <1>1, UnknownType, DoingType DEF Issuing

LEMMA InitEstablishes == Init => Inv
<1> SUFFICES ASSUME Init PROVE Inv
    OBVIOUS
<1> USE TokenAssumption, IdleType DEF Init
<1>1. TypeOK
    BY DEF TypeOK, Tokens, Unknown, Origins
<1>2. Clock
    BY DEF Clock, Tokens
<1>3. CallsHoldRevoked
    BY DEF CallsHoldRevoked
<1>4. ParentRetiredFirst
    BY DEF ParentRetiredFirst, Unknown
<1> QED
    BY <1>1, <1>2, <1>3, <1>4 DEF Inv

\* Steps that change one call record and nothing else.
LEMMA CallStep ==
    ASSUME Inv, NoWrite, UNCHANGED lanes, NEW c \in Calls, NEW r \in CallRecords,
           call' = [call EXCEPT ![c] = r],
           r.step = "REVOKE" => r.token \in Tokens /\ tokens[r.token] # "NONE",
           r.step = "STORE" =>
             r.token \in Tokens /\ r.token <= now /\ r.from.parent <= r.token,
           r.from.parent # 0 =>
             /\ r.from.parent \in Tokens /\ r.from.parent <= now
             /\ tokens[r.from.parent] = "REVOKED"
    PROVE  Inv'
<1>1. TypeOK'
    BY DEF Inv, TypeOK, NoWrite
<1>2. Clock' /\ ParentRetiredFirst'
    BY DEF Inv, Clock, ParentRetiredFirst, NoWrite
<1>3. CallsHoldRevoked'
    <2> SUFFICES ASSUME NEW d \in Calls
                 PROVE  /\ call'[d].step = "REVOKE" =>
                            call'[d].token \in Tokens /\ tokens[call'[d].token] # "NONE"
                        /\ call'[d].step = "STORE" =>
                            /\ call'[d].token \in Tokens
                            /\ call'[d].token <= now
                            /\ call'[d].from.parent <= call'[d].token
                        /\ call'[d].from.parent # 0 =>
                            /\ call'[d].from.parent \in Tokens
                            /\ call'[d].from.parent <= now
                            /\ tokens[call'[d].from.parent] = "REVOKED"
        BY DEF CallsHoldRevoked, NoWrite
    <2>1. CASE d = c
        BY <2>1 DEF Inv, TypeOK
    <2>2. CASE d # c
        BY <2>2 DEF Inv, TypeOK, CallsHoldRevoked
    <2> QED
        BY <2>1, <2>2
<1> QED
    BY <1>1, <1>2, <1>3 DEF Inv

\* Steps that only revoke tokens, and leave every call that has signed or is to
\* sign with the parent it had.
LEMMA RevocationStep ==
    ASSUME Inv, NEW S \in SUBSET Tokens,
           tokens' = [t \in Tokens |-> IF t \in S THEN "REVOKED" ELSE tokens[t]],
           \A t \in S : tokens[t] # "NONE",
           UNCHANGED <<now, origin>>
    PROVE  /\ tokens' \in [Tokens -> {"NONE", "LIVE", "REVOKED"}]
           /\ \A t \in Tokens : tokens'[t] = "NONE" <=> tokens[t] = "NONE"
           /\ \A t \in Tokens : tokens[t] = "REVOKED" => tokens'[t] = "REVOKED"
           /\ \A t \in Tokens : tokens'[t] # "NONE" => t <= now'
           /\ Clock'
           /\ ParentRetiredFirst'
<1>1. tokens \in [Tokens -> {"NONE", "LIVE", "REVOKED"}]
    BY DEF Inv, TypeOK
<1>2. \A t \in Tokens : tokens[t] = "REVOKED" => tokens'[t] = "REVOKED"
    BY <1>1
<1>3. \A t \in Tokens : tokens'[t] = "NONE" <=> tokens[t] = "NONE"
    BY <1>1
<1>4. ParentRetiredFirst'
    BY <1>2, TokenAssumption DEF Inv, TypeOK, ParentRetiredFirst, Origins, Tokens
<1> QED
    BY <1>1, <1>2, <1>3, <1>4 DEF Inv, TypeOK, Clock

LEMMA StepPreserves == Inv /\ [Next]_vars => Inv'
<1> SUFFICES ASSUME Inv, [Next]_vars, UNCHANGED lanes PROVE Inv'
    BY DEF Next, vars
<1>t. /\ now \in Tokens
      /\ password \in Passwords \cup {NoPassword}
      /\ tokens \in [Tokens -> {"NONE", "LIVE", "REVOKED"}]
      /\ origin \in [Tokens -> Origins]
      /\ call \in [Calls -> CallRecords]
      /\ lanes \subseteq Calls
    BY DEF Inv, TypeOK, Clock
<1>n. Tokens = 1..MaxTime /\ MaxTime \in Nat /\ now \in Nat
    BY <1>t, TokenAssumption DEF Tokens
<1>1. CASE Tick
    <2>1. now' = now + 1 /\ now' \in Tokens /\ now' \in Nat
        BY <1>1, <1>n DEF Tick
    <2>2. UNCHANGED <<password, tokens, origin, call>>
        BY <1>1 DEF Tick
    <2>3. TypeOK'
        BY <2>1, <2>2, <1>n DEF Inv, TypeOK
    <2>4. CallsHoldRevoked'
        BY <2>1, <2>2, <1>n, <1>t DEF Inv, CallsHoldRevoked, Origins
    <2>5. Clock' /\ ParentRetiredFirst'
        BY <2>1, <2>2 DEF Inv, Clock, ParentRetiredFirst
    <2> QED
        BY <2>3, <2>4, <2>5 DEF Inv
<1>2. CASE Restart
    <2>1. call' \in [Calls -> CallRecords] /\ \A c \in Calls : call'[c] = Idle
        BY <1>2, IdleType DEF Restart
    <2>2. NoWrite
        BY <1>2 DEF Restart
    <2>3. TypeOK'
        BY <2>1, <2>2 DEF Inv, TypeOK, NoWrite
    <2>4. CallsHoldRevoked'
        BY <2>1, IdleType DEF CallsHoldRevoked
    <2>5. Clock' /\ ParentRetiredFirst'
        BY <2>2 DEF Inv, Clock, ParentRetiredFirst, NoWrite
    <2> QED
        BY <2>3, <2>4, <2>5 DEF Inv
<1>3. ASSUME NEW t \in Tokens, Logout(t) PROVE Inv'
    <2>1. /\ t \in Live
          /\ tokens' = [tokens EXCEPT ![t] = "REVOKED"]
          /\ UNCHANGED <<now, password, origin, call>>
        BY <1>3 DEF Logout
    <2>2. tokens' = [s \in Tokens |-> IF s \in {t} THEN "REVOKED" ELSE tokens[s]]
        BY <2>1, <1>t
    <2>3. \A s \in {t} : tokens[s] # "NONE"
        BY <2>1 DEF Live
    <2>4. /\ tokens' \in [Tokens -> {"NONE", "LIVE", "REVOKED"}]
          /\ \A s \in Tokens : tokens'[s] = "NONE" <=> tokens[s] = "NONE"
          /\ \A s \in Tokens : tokens[s] = "REVOKED" => tokens'[s] = "REVOKED"
          /\ \A s \in Tokens : tokens'[s] # "NONE" => s <= now'
          /\ Clock'
          /\ ParentRetiredFirst'
        BY <2>1, <2>2, <2>3, RevocationStep
    <2>5. TypeOK'
        BY <2>1, <2>4 DEF Inv, TypeOK
    <2>6. CallsHoldRevoked'
        BY <2>1, <2>4 DEF Inv, CallsHoldRevoked
    <2> QED
        BY <2>4, <2>5, <2>6 DEF Inv
<1>4. ASSUME NEW c \in Calls, NEW new \in Passwords, RegisterLook(c, new) PROVE Inv'
    <2> DEFINE r == Doing("REGISTER", 0, Unknown, NoPassword, new)
    <2>1. NoWrite /\ call' = [call EXCEPT ![c] = r]
        BY <1>4 DEF RegisterLook, Begin
    <2>2. r \in CallRecords /\ r.step = "REGISTER" /\ r.from.parent = 0
        BY UnknownType, DoingType
    <2> HIDE DEF r
    <2> QED
        BY <2>1, <2>2, CallStep
<1>5. ASSUME NEW c \in Calls, RegisterCreate(c) PROVE Inv'
    <2>0. UNCHANGED <<now, tokens, origin>>
        BY <1>5 DEF RegisterCreate
    <2>1. call[c].new \in Passwords \cup {NoPassword}
        BY <1>t DEF CallRecords
    <2>2. PICK s : /\ call' = [call EXCEPT ![c] = s]
                   /\ s \in CallRecords /\ s.step \in {"SIGN", "IDLE"}
                   /\ s.from.parent = 0
        BY <1>5, <2>1, IssuingType, IdleType DEF RegisterCreate, Finish
    <2>3. password' \in Passwords \cup {NoPassword}
        BY <1>5, <2>1, <1>t DEF RegisterCreate
    <2>4. TypeOK'
        BY <2>0, <2>2, <2>3, <1>t DEF Inv, TypeOK
    <2>5. CallsHoldRevoked'
        BY <2>0, <2>2, <1>t DEF Inv, CallsHoldRevoked
    <2>6. Clock' /\ ParentRetiredFirst'
        BY <2>0 DEF Inv, Clock, ParentRetiredFirst
    <2> QED
        BY <2>4, <2>5, <2>6 DEF Inv
<1>6. ASSUME NEW c \in Calls, Login(c) PROVE Inv'
    <2>1. NoWrite /\ call' = [call EXCEPT ![c] = Issuing(password)]
        BY <1>6 DEF Login, Begin
    <2> QED
        BY <2>1, <1>t, IssuingType, CallStep
<1>7. ASSUME NEW c \in Calls, LoginWithGoogle(c) PROVE Inv'
    <2>1. NoWrite /\ call' = [call EXCEPT ![c] = Issuing(NoPassword)]
        BY <1>7 DEF LoginWithGoogle, Begin
    <2> QED
        BY <2>1, IssuingType, CallStep
<1>8. ASSUME NEW c \in Calls, NEW t \in Tokens, RefreshLook(c, t) PROVE Inv'
    <2> DEFINE r == Doing("REVOKE", t, Unknown, NoPassword, NoPassword)
    <2>1. NoWrite /\ call' = [call EXCEPT ![c] = r] /\ tokens[t] # "NONE"
        BY <1>8 DEF RefreshLook, Begin, Live
    <2>2. t \in 0..MaxTime
        BY <1>n
    <2>3. r \in CallRecords /\ r.step = "REVOKE" /\ r.token = t /\ r.from.parent = 0
        BY <2>2, UnknownType, DoingType
    <2> HIDE DEF r
    <2> QED
        BY <2>1, <2>3, CallStep
<1>9. ASSUME NEW c \in Calls, RefreshRevoke(c) PROVE Inv'
    <2> DEFINE t == call[c].token
               f == [parent |-> t, password |-> origin[t].password]
               r == [call[c] EXCEPT !.step = "SIGN", !.from = f]
    <2>1. call[c].step = "REVOKE" /\ t \in Tokens /\ tokens[t] # "NONE"
        BY <1>9 DEF RefreshRevoke, Inv, CallsHoldRevoked
    <2>2. tokens' = [s \in Tokens |-> IF s \in {t} THEN "REVOKED" ELSE tokens[s]]
        BY <1>9, <2>1, <1>t DEF RefreshRevoke
    <2>3. UNCHANGED <<now, password, origin>>
        BY <1>9 DEF RefreshRevoke
    <2>4. /\ tokens' \in [Tokens -> {"NONE", "LIVE", "REVOKED"}]
          /\ \A s \in Tokens : tokens'[s] = "NONE" <=> tokens[s] = "NONE"
          /\ \A s \in Tokens : tokens[s] = "REVOKED" => tokens'[s] = "REVOKED"
          /\ \A s \in Tokens : tokens'[s] # "NONE" => s <= now'
          /\ Clock'
          /\ ParentRetiredFirst'
        <3>1. {t} \in SUBSET Tokens /\ \A s \in {t} : tokens[s] # "NONE"
            BY <2>1
        <3> HIDE DEF t
        <3> QED
            BY <3>1, <2>2, <2>3, RevocationStep
    <2>5. tokens'[t] = "REVOKED" /\ t <= now /\ t \in 0..MaxTime
        BY <2>1, <2>2, <1>n DEF Inv, TypeOK
    <2>6. f \in Origins
        BY <2>1, <2>5, <1>t DEF Origins
    <2>7. r \in CallRecords /\ r.step = "SIGN" /\ r.from.parent = t
        BY <2>6, <1>t DEF CallRecords
    <2>8. call' = [call EXCEPT ![c] = r]
        BY <1>9, <1>t DEF RefreshRevoke, CallRecords
    <2> HIDE DEF t, r
    <2>9. TypeOK'
        BY <2>3, <2>4, <2>7, <2>8, <1>t DEF Inv, TypeOK
    <2>10. CallsHoldRevoked'
        BY <2>1, <2>3, <2>4, <2>5, <2>7, <2>8, <1>t DEF Inv, CallsHoldRevoked
    <2> QED
        BY <2>4, <2>9, <2>10 DEF Inv
<1>10. ASSUME NEW c \in Calls, Sign(c) PROVE Inv'
    <2> DEFINE r == Doing("STORE", now, call[c].from, NoPassword, NoPassword)
    <2>1. NoWrite /\ call' = [call EXCEPT ![c] = r]
        BY <1>10 DEF Sign
    <2>2. r \in CallRecords /\ r.step = "STORE" /\ r.token = now /\ r.from = call[c].from
        <3>1. call[c].from \in Origins /\ now \in 0..MaxTime
            BY <1>t, <1>n DEF CallRecords
        <3> QED
            BY <3>1, DoingType
    <2>3. r.from.parent # 0 =>
            /\ r.from.parent \in Tokens /\ r.from.parent <= now
            /\ tokens[r.from.parent] = "REVOKED"
        BY <2>2 DEF Inv, CallsHoldRevoked
    <2>4. r.token \in Tokens /\ r.token <= now /\ r.from.parent <= r.token
        BY <2>2, <2>3, <1>t, <1>n
    <2> HIDE DEF r
    <2> QED
        BY <2>1, <2>2, <2>3, <2>4, CallStep
<1>11. ASSUME NEW c \in Calls, Store(c) PROVE Inv'
    <2> DEFINE t == call[c].token
    <2>1. /\ call[c].step = "STORE"
          /\ call' = [call EXCEPT ![c] = Idle]
          /\ UNCHANGED <<now, password>>
        BY <1>11 DEF Store, Finish
    <2>2. t \in Tokens /\ t <= now /\ call[c].from.parent <= t
        BY <2>1 DEF Inv, CallsHoldRevoked
    <2>3. CASE tokens[t] # "NONE"
        <3>1. NoWrite
            BY <1>11, <2>1, <2>3 DEF Store, NoWrite
        <3> QED
            BY <3>1, <2>1, IdleType, CallStep
    <2>4. CASE tokens[t] = "NONE"
        <3>1. /\ tokens' = [tokens EXCEPT ![t] = "LIVE"]
              /\ origin' = [origin EXCEPT ![t] = call[c].from]
            BY <1>11, <2>4 DEF Store
        <3>2. call[c].from \in Origins
            BY <1>t DEF CallRecords
        <3>3. call[c].from.parent # 0 =>
                /\ call[c].from.parent \in Tokens
                /\ tokens[call[c].from.parent] = "REVOKED"
                /\ call[c].from.parent < t
            BY <2>2, <2>4, <1>n DEF Inv, CallsHoldRevoked
        <3>4. \A s \in Tokens : tokens[s] = "REVOKED" => tokens'[s] = "REVOKED"
            BY <3>1, <2>4, <1>t
        <3>5. \A s \in Tokens : tokens[s] # "NONE" => tokens'[s] # "NONE"
            BY <3>1, <1>t
        <3> HIDE DEF t
        <3>6. TypeOK'
            <4>1. tokens' \in [Tokens -> {"NONE", "LIVE", "REVOKED"}]
                BY <3>1, <1>t
            <4>2. \A s \in Tokens : tokens'[s] # "NONE" => s <= now'
                BY <3>1, <2>1, <2>2, <1>t DEF Inv, TypeOK
            <4>3. origin' \in [Tokens -> Origins]
                BY <3>1, <3>2, <1>t
            <4>4. \A s \in Tokens : origin'[s].parent # 0 => origin'[s].parent < s
                BY <3>1, <3>3, <1>t DEF Inv, TypeOK
            <4>5. call' \in [Calls -> CallRecords]
                BY <2>1, <1>t, IdleType
            <4> QED
                BY <4>1, <4>2, <4>3, <4>4, <4>5, <2>1, <1>t, <1>n DEF TypeOK
        <3>7. CallsHoldRevoked'
            BY <2>1, <3>4, <3>5, <1>t, IdleType DEF Inv, CallsHoldRevoked
        <3>8. ParentRetiredFirst'
            <4> SUFFICES ASSUME NEW s \in Tokens, origin'[s].parent # 0
                         PROVE  tokens'[origin'[s].parent] = "REVOKED"
                BY DEF ParentRetiredFirst
            <4>1. CASE s = t
                BY <4>1, <3>1, <3>3, <3>4, <1>t
            <4>2. CASE s # t
                <5>1. origin'[s] = origin[s] /\ origin[s].parent \in Tokens
                    BY <4>2, <3>1, <1>t, <1>n DEF Origins
                <5> QED
                    BY <5>1, <3>4 DEF Inv, ParentRetiredFirst
            <4> QED
                BY <4>1, <4>2
        <3> QED
            BY <2>1, <3>6, <3>7, <3>8 DEF Inv, Clock
    <2> QED
        BY <2>3, <2>4
<1>12. ASSUME NEW c \in Calls, NEW old \in Passwords, NEW new \in Passwords,
              ChangeLook(c, old, new)
       PROVE  Inv'
    <2> DEFINE r == Doing("CHANGE", 0, Unknown, old, new)
    <2>1. NoWrite /\ call' = [call EXCEPT ![c] = r]
        BY <1>12 DEF ChangeLook, Begin
    <2>2. r \in CallRecords /\ r.step = "CHANGE" /\ r.from.parent = 0
        BY UnknownType, DoingType
    <2> HIDE DEF r
    <2> QED
        BY <2>1, <2>2, CallStep
<1>13. ASSUME NEW c \in Calls, ChangeCommit(c) PROVE Inv'
    <2>1. /\ password' = call[c].new
          /\ call' = [call EXCEPT ![c] = Idle]
          /\ UNCHANGED <<now, origin>>
        BY <1>13 DEF ChangeCommit, Finish
    <2>2. /\ tokens' = [s \in Tokens |-> IF s \in Live THEN "REVOKED" ELSE tokens[s]]
          /\ Live \in SUBSET Tokens
          /\ \A s \in Live : tokens[s] # "NONE"
        BY <1>13 DEF ChangeCommit, Live
    <2>3. /\ tokens' \in [Tokens -> {"NONE", "LIVE", "REVOKED"}]
          /\ \A s \in Tokens : tokens'[s] = "NONE" <=> tokens[s] = "NONE"
          /\ \A s \in Tokens : tokens[s] = "REVOKED" => tokens'[s] = "REVOKED"
          /\ \A s \in Tokens : tokens'[s] # "NONE" => s <= now'
          /\ Clock'
          /\ ParentRetiredFirst'
        BY <2>1, <2>2, RevocationStep
    <2>4. TypeOK'
        <3>1. password' \in Passwords \cup {NoPassword}
            BY <2>1, <1>t DEF CallRecords
        <3>2. call' \in [Calls -> CallRecords]
            BY <2>1, <1>t, IdleType
        <3> QED
            BY <3>1, <3>2, <2>1, <2>3 DEF Inv, TypeOK
    <2>5. CallsHoldRevoked'
        BY <2>1, <2>3, <1>t, IdleType DEF Inv, CallsHoldRevoked
    <2> QED
        BY <2>3, <2>4, <2>5 DEF Inv
<1>14. CASE UNCHANGED vars
    BY <1>14 DEF vars, Inv, TypeOK, Clock, CallsHoldRevoked, ParentRetiredFirst
<1> QED
    BY <1>t, <1>1, <1>2, <1>3, <1>4, <1>5, <1>6, <1>7, <1>8, <1>9, <1>10, <1>11,
       <1>12, <1>13, <1>14 DEF Next

LEMMA InvHolds == Spec => []Inv
BY InitEstablishes, StepPreserves, PTL DEF Spec

\* The variables keep their types, and a token is younger than the one it was
\* exchanged for (AuthService.refresh, storeRefreshToken).
THEOREM TypeCorrect == Spec => []TypeOK
BY InvHolds, PTL DEF Inv

\* refresh revokes before it stores: a token and the one it was exchanged for
\* never both work, however refreshes, logouts, password changes, restarts and
\* signings within one second overlap.
THEOREM ParentRetired == Spec => []ParentRetiredFirst
BY InvHolds, PTL DEF Inv

\* No call, with any timing, makes a revoked token work again.
THEOREM RevocationIsFinal == Spec => RevokedForGood
<1> DEFINE Kept == \A t \in Tokens : tokens[t] = "REVOKED" => tokens'[t] = "REVOKED"
<1>1. Inv /\ [Next]_vars => [Kept]_vars
    <2> SUFFICES ASSUME Inv, Next PROVE Kept
        OBVIOUS
    <2>t. tokens \in [Tokens -> {"NONE", "LIVE", "REVOKED"}] /\ lanes \subseteq Calls
        BY DEF Inv, TypeOK
    <2>1. ASSUME NEW t \in Tokens, Logout(t) PROVE Kept
        BY <2>1, <2>t DEF Logout
    <2>2. ASSUME NEW c \in Calls, RefreshRevoke(c) PROVE Kept
        BY <2>2, <2>t DEF RefreshRevoke
    <2>3. ASSUME NEW c \in Calls, Store(c) PROVE Kept
        BY <2>3, <2>t DEF Store
    <2>4. ASSUME NEW c \in Calls, ChangeCommit(c) PROVE Kept
        BY <2>4, <2>t DEF ChangeCommit
    <2>5. ASSUME UNCHANGED tokens PROVE Kept
        BY <2>5
    <2> QED
        BY <2>t, <2>1, <2>2, <2>3, <2>4, <2>5
        DEF Next, Tick, Restart, NoWrite, RegisterLook, RegisterCreate, Login,
            LoginWithGoogle, RefreshLook, Sign, ChangeLook
<1> QED
    BY <1>1, InvHolds, PTL DEF Spec, RevokedForGood

-----------------------------------------------------------------------------
(* Calls made one at a time.  Between its statements a call then relies on *)
(* more: nobody else exchanges the token it presented, and the password    *)
(* that the pair goes back to is still the one of the user.  A logout and  *)
(* the clock may come between, and take nothing of that away.              *)

\* No token was got in exchange for t.
NoHeir(t) == \A s \in Tokens : origin[s].parent # t

Fits(pw) == pw \in {password, NoPassword}

\* What the call c may rely on while no other is made.
AloneHolds(c) ==
    /\ call[c].step = "REVOKE" =>
        NoHeir(call[c].token) /\ Fits(origin[call[c].token].password)
    /\ call[c].step \in {"SIGN", "STORE"} =>
        /\ call[c].from.parent # 0 => NoHeir(call[c].from.parent)
        /\ Fits(call[c].from.password)

OneHeirPerToken ==
    \A s, t \in Tokens :
        origin[s].parent = origin[t].parent /\ s # t => origin[s].parent = 0

TokensFollowPassword == \A t \in Live : Fits(origin[t].password)

SerialInv ==
    \A c \in Calls : lanes = {c} =>
        AloneHolds(c) /\ OneHeirPerToken /\ TokensFollowPassword

LEMMA SerialInit == Init => SerialInv
<1> SUFFICES ASSUME Init, NEW c \in Calls
             PROVE  AloneHolds(c) /\ OneHeirPerToken /\ TokensFollowPassword
    BY DEF SerialInv
<1>1. AloneHolds(c)
    BY IdleType DEF Init, AloneHolds
<1>2. OneHeirPerToken
    BY DEF Init, OneHeirPerToken, Unknown
<1>3. TokensFollowPassword
    BY DEF Init, TokensFollowPassword, Live
<1> QED
    BY <1>1, <1>2, <1>3

\* Steps that change the record of the only call and nothing else.
LEMMA AloneStep ==
    ASSUME Inv, NEW c \in Calls, NEW r,
           OneHeirPerToken, TokensFollowPassword,
           NoWrite, call' = [call EXCEPT ![c] = r],
           r.step = "REVOKE" => NoHeir(r.token) /\ Fits(origin[r.token].password),
           r.step \in {"SIGN", "STORE"} =>
             /\ r.from.parent # 0 => NoHeir(r.from.parent)
             /\ Fits(r.from.password)
    PROVE  (AloneHolds(c) /\ OneHeirPerToken /\ TokensFollowPassword)'
<1>1. call'[c] = r
    BY DEF Inv, TypeOK
<1> QED
    BY <1>1 DEF AloneHolds, OneHeirPerToken, TokensFollowPassword, NoHeir, Fits,
                Live, NoWrite

\* Steps that only revoke tokens, or let time pass.
LEMMA AloneStays ==
    ASSUME Inv, NEW c \in Calls,
           AloneHolds(c), OneHeirPerToken, TokensFollowPassword,
           UNCHANGED <<password, origin, call>>,
           \A t \in Tokens : tokens'[t] = "LIVE" => tokens[t] = "LIVE"
    PROVE  (AloneHolds(c) /\ OneHeirPerToken /\ TokensFollowPassword)'
BY DEF AloneHolds, OneHeirPerToken, TokensFollowPassword, NoHeir, Fits, Live

LEMMA SerialStepPreserves == Inv /\ SerialInv /\ [Next]_vars => SerialInv'
<1> SUFFICES ASSUME Inv, [Next]_vars, UNCHANGED lanes, NEW c \in Calls, lanes = {c},
                    AloneHolds(c), OneHeirPerToken, TokensFollowPassword
             PROVE  (AloneHolds(c) /\ OneHeirPerToken /\ TokensFollowPassword)'
    BY DEF SerialInv, Next, vars
<1> DEFINE Held == (AloneHolds(c) /\ OneHeirPerToken /\ TokensFollowPassword)'
<1>t. /\ now \in Tokens
      /\ password \in Passwords \cup {NoPassword}
      /\ tokens \in [Tokens -> {"NONE", "LIVE", "REVOKED"}]
      /\ origin \in [Tokens -> Origins]
      /\ call \in [Calls -> CallRecords]
      /\ call[c] \in CallRecords
      /\ \A t \in Tokens : t # 0 /\ t \in 0..MaxTime
    BY TokenAssumption DEF Inv, TypeOK, Clock, Tokens
<1>1. CASE Tick
    BY <1>1, AloneStays DEF Tick
<1>2. CASE Restart
    <2>1. NoWrite /\ call'[c] = Idle
        BY <1>2 DEF Restart
    <2> QED
        BY <2>1, IdleType DEF AloneHolds, OneHeirPerToken, TokensFollowPassword, Fits,
                              Live, NoWrite
<1>3. ASSUME NEW t \in Tokens, Logout(t) PROVE Held
    BY <1>3, <1>t, AloneStays DEF Logout
<1>4. ASSUME NEW new \in Passwords, RegisterLook(c, new) PROVE Held
    <2> DEFINE r == Doing("REGISTER", 0, Unknown, NoPassword, new)
    <2>1. NoWrite /\ call' = [call EXCEPT ![c] = r]
        BY <1>4 DEF RegisterLook, Begin
    <2>2. r.step = "REGISTER"
        BY DEF Doing
    <2> HIDE DEF r
    <2> QED
        BY <2>1, <2>2, AloneStep
\* The first password: a token that works so far goes back to Google.
<1>5. CASE RegisterCreate(c)
    <2>0. UNCHANGED <<tokens, origin>>
        BY <1>5 DEF RegisterCreate
    <2>1. CASE password = NoPassword
        <3>1. /\ password' = call[c].new
              /\ call'[c] = Issuing(call[c].new)
            BY <1>5, <2>1, <1>t DEF RegisterCreate
        <3>2. /\ call'[c].step = "SIGN"
              /\ call'[c].from.parent = 0
              /\ call'[c].from.password = password'
            BY <3>1 DEF Issuing, Doing
        <3>3. TokensFollowPassword'
            BY <2>0, <2>1 DEF TokensFollowPassword, Fits, Live
        <3>4. AloneHolds(c)'
            BY <3>2 DEF AloneHolds, Fits
        <3> QED
            BY <2>0, <3>3, <3>4 DEF OneHeirPerToken
    <2>2. CASE password # NoPassword
        <3>1. NoWrite /\ call' = [call EXCEPT ![c] = Idle]
            BY <1>5, <2>2 DEF RegisterCreate, Finish, NoWrite
        <3> QED
            BY <3>1, IdleType, AloneStep
    <2> QED
        BY <2>1, <2>2
<1>6. CASE Login(c)
    <2>1. NoWrite /\ call' = [call EXCEPT ![c] = Issuing(password)]
        BY <1>6 DEF Login, Begin
    <2>2. Fits(Issuing(password).from.password)
        BY DEF Issuing, Doing, Fits
    <2> QED
        BY <2>1, <2>2, <1>t, IssuingType, AloneStep
<1>7. CASE LoginWithGoogle(c)
    <2>1. NoWrite /\ call' = [call EXCEPT ![c] = Issuing(NoPassword)]
        BY <1>7 DEF LoginWithGoogle, Begin
    <2>2. Fits(Issuing(NoPassword).from.password)
        BY DEF Issuing, Doing, Fits
    <2> QED
        BY <2>1, <2>2, IssuingType, AloneStep
\* A token that works has no heir: its heir would have been stored after it was
\* revoked.
<1>8. ASSUME NEW t \in Tokens, RefreshLook(c, t) PROVE Held
    <2> DEFINE r == Doing("REVOKE", t, Unknown, NoPassword, NoPassword)
    <2>1. NoWrite /\ call' = [call EXCEPT ![c] = r] /\ t \in Live
        BY <1>8 DEF RefreshLook, Begin
    <2>2. r.step = "REVOKE" /\ r.token = t
        BY DEF Doing
    <2>3. NoHeir(t)
        BY <2>1, <1>t DEF NoHeir, Live, Inv, ParentRetiredFirst
    <2>4. Fits(origin[t].password)
        BY <2>1 DEF TokensFollowPassword
    <2> HIDE DEF r
    <2> QED
        BY <2>1, <2>2, <2>3, <2>4, AloneStep
<1>9. CASE RefreshRevoke(c)
    <2> DEFINE t == call[c].token
               f == [parent |-> t, password |-> origin[t].password]
    <2>1. call[c].step = "REVOKE" /\ t \in Tokens
        BY <1>9 DEF RefreshRevoke, Inv, CallsHoldRevoked
    <2>2. NoHeir(t) /\ Fits(f.password)
        BY <2>1 DEF AloneHolds
    <2>3. /\ tokens' = [tokens EXCEPT ![t] = "REVOKED"]
          /\ UNCHANGED <<password, origin>>
        BY <1>9 DEF RefreshRevoke
    <2>4. call'[c].step = "SIGN" /\ call'[c].from = f
        BY <1>9, <1>t DEF RefreshRevoke, CallRecords
    <2>5. AloneHolds(c)'
        BY <2>2, <2>3, <2>4 DEF AloneHolds, NoHeir, Fits
    <2>6. TokensFollowPassword'
        BY <2>1, <2>3, <1>t DEF TokensFollowPassword, Live, Fits
    <2> QED
        BY <2>3, <2>5, <2>6 DEF OneHeirPerToken
<1>10. CASE Sign(c)
    <2> DEFINE r == Doing("STORE", now, call[c].from, NoPassword, NoPassword)
    <2>1. NoWrite /\ call' = [call EXCEPT ![c] = r] /\ call[c].step = "SIGN"
        BY <1>10 DEF Sign
    <2>2. r.step = "STORE" /\ r.from = call[c].from
        BY DEF Doing
    <2> HIDE DEF r
    <2> QED
        BY <2>1, <2>2, AloneStep DEF AloneHolds
<1>11. CASE Store(c)
    <2> DEFINE t == call[c].token
               f == call[c].from
    <2>1. /\ call[c].step = "STORE" /\ t \in Tokens
          /\ call' = [call EXCEPT ![c] = Idle] /\ UNCHANGED <<now, password>>
        BY <1>11 DEF Store, Finish, Inv, CallsHoldRevoked
    <2>2. (f.parent # 0 => NoHeir(f.parent)) /\ Fits(f.password)
        BY <2>1 DEF AloneHolds
    <2>3. CASE tokens[t] # "NONE"
        <3>1. NoWrite
            BY <1>11, <2>1, <2>3 DEF Store, NoWrite
        <3> QED
            BY <3>1, <2>1, IdleType, AloneStep
    <2>4. CASE tokens[t] = "NONE"
        <3>1. /\ tokens' = [tokens EXCEPT ![t] = "LIVE"]
              /\ origin' = [origin EXCEPT ![t] = f]
            BY <1>11, <2>4 DEF Store
        <3> HIDE DEF t, f
        <3>2. AloneHolds(c)'
            BY <2>1, <1>t, IdleType DEF AloneHolds
        <3>3. OneHeirPerToken'
            BY <3>1, <2>1, <2>2, <1>t DEF OneHeirPerToken, NoHeir
        <3>4. TokensFollowPassword'
            BY <3>1, <2>1, <2>2, <1>t DEF TokensFollowPassword, Live, Fits
        <3> QED
            BY <3>2, <3>3, <3>4
    <2> QED
        BY <2>3, <2>4
<1>12. ASSUME NEW old \in Passwords, NEW new \in Passwords, ChangeLook(c, old, new)
       PROVE  Held
    <2> DEFINE r == Doing("CHANGE", 0, Unknown, old, new)
    <2>1. NoWrite /\ call' = [call EXCEPT ![c] = r]
        BY <1>12 DEF ChangeLook, Begin
    <2>2. r.step = "CHANGE"
        BY DEF Doing
    <2> HIDE DEF r
    <2> QED
        BY <2>1, <2>2, AloneStep
\* The new password leaves no token that works.
<1>13. CASE ChangeCommit(c)
    <2>1. call'[c] = Idle /\ UNCHANGED origin
        BY <1>13, <1>t DEF ChangeCommit, Finish
    <2>2. Live' = {}
        BY <1>13, <1>t DEF ChangeCommit, Live
    <2> QED
        BY <2>1, <2>2, IdleType DEF AloneHolds, OneHeirPerToken, TokensFollowPassword
<1>14. CASE UNCHANGED vars
    BY <1>14, AloneStays DEF vars
<1> QED
    BY <1>1, <1>2, <1>3, <1>4, <1>5, <1>6, <1>7, <1>8, <1>9, <1>10, <1>11, <1>12,
       <1>13, <1>14 DEF Next

LEMMA SerialInvHolds == Spec => []SerialInv
BY InvHolds, SerialInit, SerialStepPreserves, PTL DEF Spec

\* refresh answers a token with one pair at most while calls are made one at a
\* time: no second call finds the token unrevoked (AuthService.refresh).
THEOREM SerialOneHeir == Spec => []SerialOneHeirPerToken
<1>1. SerialInv => SerialOneHeirPerToken
    BY DEF SerialInv, SerialOneHeirPerToken, Serial, OneHeirPerToken
<1> QED
    BY <1>1, SerialInvHolds, PTL

\* changePassword leaves no session of the old password while calls are made one
\* at a time: what works goes back to a login with the password of now, or by
\* Google, through any number of refreshes.
THEOREM SerialSessionsFollowPassword == Spec => []SerialTokensFollowPassword
<1>1. SerialInv => SerialTokensFollowPassword
    BY DEF SerialInv, SerialTokensFollowPassword, Serial, TokensFollowPassword, Fits
<1> QED
    BY <1>1, SerialInvHolds, PTL
=============================================================================
