------------------------------ MODULE GoogleCerts ------------------------------
(***************************************************************************)
(* The cache of Google's signing certificates: getGoogleCertByKid of       *)
(* GoogleOAuthService.                                                     *)
(*                                                                         *)
(* Google changes the keys it publishes at will.  Calls that miss the      *)
(* cache fetch the current ones, each on its own, and the answers may      *)
(* arrive late and out of order.                                           *)
(***************************************************************************)
EXTENDS Integers

CONSTANTS
    Lookups, \* bound: lookups in flight at a time, a set
    Kids,    \* the names of keys
    MaxAge,  \* the longest max-age of Google's Cache-Control (without one it is 300)
    MaxTime  \* bound: the time that passes

ASSUME CertsAssumption == {MaxAge, MaxTime} \subseteq Nat \ {0}

VARIABLES
    now,
    published, \* the keys that Google publishes
    last,      \* history: key -> the last time it was published, 0 for never
    cache,     \* certCache, with no keys when it is null
    lookup     \* lookups in flight: what they fetched

certsVars == <<now, published, last, cache, lookup>>

NoLookup == [step |-> "IDLE", kid |-> "NONE", start |-> 0, kids |-> {}]

NoCache == [kids |-> {}, until |-> 0]

CertsInit ==
    /\ now = 1
    /\ published \in SUBSET Kids
    /\ last = [k \in Kids |-> IF k \in published THEN 1 ELSE 0]
    /\ cache = NoCache
    /\ lookup = [c \in Lookups |-> NoLookup]

Tick ==
    /\ now < MaxTime
    /\ now' = now + 1
    /\ last' = [k \in Kids |-> IF k \in published THEN now + 1 ELSE last[k]]
    /\ UNCHANGED <<published, cache, lookup>>

Rotate(kids) ==
    /\ kids # published
    /\ published' = kids
    /\ last' = [k \in Kids |-> IF k \in kids THEN now ELSE last[k]]
    /\ UNCHANGED <<now, cache, lookup>>

Cached(kid) == kid \in cache.kids /\ cache.until > now

\* A key in the cache is used as it is; for another one the certificates are
\* fetched.  The time is taken before.
Look(c, kid) ==
    /\ lookup[c] = NoLookup
    /\ ~Cached(kid)
    /\ lookup' = [lookup EXCEPT ![c] = [step |-> "FETCH", kid |-> kid, start |-> now,
                                        kids |-> {}]]
    /\ UNCHANGED <<now, published, last, cache>>

\* Google answers; the answer is on its way.
Answer(c) ==
    /\ lookup[c].step = "FETCH"
    /\ lookup' = [lookup EXCEPT ![c].step = "STORE", ![c].kids = published]
    /\ UNCHANGED <<now, published, last, cache>>

\* The fetch fails, or its response is not ok.
FetchFails(c) ==
    /\ lookup[c].step = "FETCH"
    /\ lookup' = [lookup EXCEPT ![c] = NoLookup]
    /\ UNCHANGED <<now, published, last, cache>>

StoreFromArrival(c, maxAge) ==  \* mutant: the age counts from the arrival
    /\ lookup[c].step = "STORE"
    /\ cache' = [kids |-> lookup[c].kids, until |-> now + maxAge]
    /\ lookup' = [lookup EXCEPT ![c] = NoLookup]
    /\ UNCHANGED <<now, published, last>>

\* The cache is replaced, also by an older answer than the one in it.  The key
\* sought is used, or refused if it is not there.
Store(c, maxAge) ==
    /\ lookup[c].step = "STORE"
    /\ cache' = [kids |-> lookup[c].kids, until |-> lookup[c].start + maxAge]
    /\ lookup' = [lookup EXCEPT ![c] = NoLookup]
    /\ UNCHANGED <<now, published, last>>

CertsNext ==
    \/ Tick
    \/ \E kids \in SUBSET Kids : Rotate(kids)
    \/ \E c \in Lookups :
        \/ \E kid \in Kids : Look(c, kid)
        \/ Answer(c)
        \/ FetchFails(c)
        \/ \E maxAge \in 1..MaxAge : Store(c, maxAge)

CertsSpec == CertsInit /\ [][CertsNext]_certsVars

-----------------------------------------------------------------------------

LookupRecords == [step : {"IDLE", "FETCH", "STORE"}, kid : Kids \cup {"NONE"},
                  start : Nat, kids : SUBSET Kids]

CertsTypeOK ==
    /\ now \in Nat
    /\ published \in SUBSET Kids
    /\ last \in [Kids -> Nat]
    /\ cache \in [kids : SUBSET Kids, until : Nat]
    /\ lookup \in [Lookups -> LookupRecords]

\* A key that Google has withdrawn is not taken from the cache for longer than
\* max-age after, however late, or after however many others, its answer came.
WithdrawnKeysFade ==
    \A kid \in Kids : Cached(kid) => now < last[kid] + MaxAge
=============================================================================
