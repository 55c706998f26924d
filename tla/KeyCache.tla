------------------------------ MODULE KeyCache ------------------------------
(***************************************************************************)
(* The cache of the keys that tokens are verified with (fetchJWKS and      *)
(* resolveES256Key of internal/middleware/auth.go): a map and its expiry   *)
(* behind a read-write lock, filled from the identity provider while the   *)
(* lock is held, and expired by hand when a token names an unknown key.    *)
(*                                                                         *)
(* One action is one section of code under the lock, or one exchange with  *)
(* the provider.  Tokens signed with the shared secret (HS256), and tokens *)
(* that fail for another reason than their key, need no key and are left   *)
(* out; of a token whose key is found the signature may still be wrong.    *)
(*                                                                         *)
(* A request asks the provider that its token names: verifyToken takes the *)
(* URL from the iss claim.  The map, its expiry and its lock are one for   *)
(* all issuers, and nothing in them says whose keys they are.  That the    *)
(* model records as history, so that its properties can speak of it.       *)
(***************************************************************************)
EXTENDS Clock

CONSTANTS
    Bearers,     \* requests that carry a token
    Issuers,     \* identity providers, as tokens name them
    Kids,        \* identifiers of keys
    CacheTTL,    \* the five minutes of jwksExpiry
    FetchTime,   \* the timeout of the client that fetches, ten seconds
    Nobody

ASSUME KeyCacheAssumption ==
    /\ Issuers # {} /\ Kids # {}
    /\ CacheTTL \in Nat \ {0}
    /\ FetchTime \in Nat
    /\ Nobody \notin Bearers

VARIABLES
    published,   \* the keys of each provider
    left,        \* history: when a key that they lack was last taken out of them
    jwksKeys,    \* nil before the first fetch, when jwksExpiry is zero: here {}
    jwksExpiry,
    jwksFrom,    \* history: the provider that sent jwksKeys
    writer,      \* who holds the write lock
    stage,
    bearer

keyVars == <<now, published, left, jwksKeys, jwksExpiry, jwksFrom, writer, stage, bearer>>

Decided == {"accepted", "unknown", "failed"}
KeySteps == {"idle", "read", "lock", "fetch", "store", "lookup", "expire"} \cup Decided

\* got: the keys the request has.  at: when it got them, or began to fetch them.
\* from: history; the provider that sent them.
\* steady: history; has its issuer published its key ever since it came.
Bearer == [iss : Issuers, kid : Kids, retried : BOOLEAN, got : SUBSET Kids,
           from : Issuers, at : Nat, steady : BOOLEAN]

NewBearer(i, k, steady) ==
    [iss |-> i, kid |-> k, retried |-> FALSE, got |-> {}, from |-> i, at |-> 0,
     steady |-> steady]

SomeIssuer == CHOOSE i \in Issuers : TRUE

NoBearer == NewBearer(SomeIssuer, CHOOSE k \in Kids : TRUE, FALSE)

Fresh == now < jwksExpiry

Goto(q, l) == stage' = [stage EXCEPT ![q] = l]

-----------------------------------------------------------------------------
(* A request *)

\* verifyToken has parsed an ES256 token and asks its issuer for its key.
Arrive(q, i, k) ==
    /\ stage[q] = "idle"
    /\ Goto(q, "read")
    /\ bearer' = [bearer EXCEPT ![q] = NewBearer(i, k, k \in published[i])]
    /\ UNCHANGED <<now, published, left, jwksKeys, jwksExpiry, jwksFrom, writer>>

\* The request takes the map as it is, whoever sent it; nobody writes to a map once it
\* is stored.
Hit(q) ==
    /\ Fresh
    /\ bearer' = [bearer EXCEPT ![q].got = jwksKeys, ![q].from = jwksFrom, ![q].at = now]
    /\ Goto(q, "lookup")
    /\ UNCHANGED <<now, published, left, jwksKeys, jwksExpiry, jwksFrom, writer>>

\* Mutant: a hit prolongs the life of the cache.
Prolong(q) ==
    /\ stage[q] = "read"
    /\ writer = Nobody
    /\ Fresh
    /\ bearer' = [bearer EXCEPT ![q].got = jwksKeys, ![q].from = jwksFrom, ![q].at = now]
    /\ jwksExpiry' = now + CacheTTL
    /\ Goto(q, "lookup")
    /\ UNCHANGED <<now, published, left, jwksKeys, jwksFrom, writer>>

\* Under the read lock.
ReadCache(q) ==
    /\ stage[q] = "read"
    /\ writer = Nobody
    /\ Hit(q)

Miss(q) ==
    /\ stage[q] = "read"
    /\ writer = Nobody
    /\ ~Fresh
    /\ Goto(q, "lock")
    /\ UNCHANGED <<now, published, left, jwksKeys, jwksExpiry, jwksFrom, writer, bearer>>

\* The second look, under the write lock: another request has fetched meanwhile.
HitLocked(q) ==
    /\ stage[q] = "lock"
    /\ writer = Nobody
    /\ Hit(q)

\* Mutant: there is no second look.
FetchAnyway(q) ==
    /\ stage[q] = "lock"
    /\ writer = Nobody
    /\ writer' = q
    /\ bearer' = [bearer EXCEPT ![q].at = now]
    /\ Goto(q, "fetch")
    /\ UNCHANGED <<now, published, left, jwksKeys, jwksExpiry, jwksFrom>>

BeginFetch(q) ==
    /\ stage[q] = "lock"
    /\ writer = Nobody
    /\ ~Fresh
    /\ writer' = q
    /\ bearer' = [bearer EXCEPT ![q].at = now]
    /\ Goto(q, "fetch")
    /\ UNCHANGED <<now, published, left, jwksKeys, jwksExpiry, jwksFrom>>

\* The issuer of the token answers with the keys it publishes at that moment.
ProviderAnswers(q) ==
    /\ stage[q] = "fetch"
    /\ bearer' = [bearer EXCEPT ![q].got = published[bearer[q].iss], ![q].from = bearer[q].iss]
    /\ Goto(q, "store")
    /\ UNCHANGED <<now, published, left, jwksKeys, jwksExpiry, jwksFrom, writer>>

\* For all requests, whoever their issuer.
Store(q) ==
    /\ stage[q] = "store"
    /\ jwksKeys' = bearer[q].got
    /\ jwksFrom' = bearer[q].from
    /\ jwksExpiry' = now + CacheTTL
    /\ writer' = Nobody
    /\ bearer' = [bearer EXCEPT ![q].at = now]
    /\ Goto(q, "lookup")
    /\ UNCHANGED <<now, published, left>>

\* Mutant: an error returns without unlocking.
FailLocked(q) ==
    /\ stage[q] \in {"fetch", "store"}
    /\ Goto(q, "failed")
    /\ UNCHANGED <<now, published, left, jwksKeys, jwksExpiry, jwksFrom, writer, bearer>>

\* No answer, a broken one, or the timeout: the cache stays as it was, expired.
FailFetch(q) ==
    /\ stage[q] \in {"fetch", "store"}
    /\ writer' = Nobody
    /\ Goto(q, "failed")
    /\ bearer' = [bearer EXCEPT ![q].got = {}, ![q].at = 0]
    /\ UNCHANGED <<now, published, left, jwksKeys, jwksExpiry, jwksFrom>>

\* resolveES256Key with the keys it got: the first time a key is missing, it fetches
\* again.
Lookup(q) ==
    /\ stage[q] = "lookup"
    /\ Goto(q, CASE bearer[q].kid \in bearer[q].got -> "accepted"
                 [] bearer[q].kid \notin bearer[q].got /\ ~bearer[q].retried -> "expire"
                 [] OTHER -> "unknown")
    /\ UNCHANGED <<now, published, left, jwksKeys, jwksExpiry, jwksFrom, writer, bearer>>

\* Mutant: the second try reads the cache that has just missed.
RetryOnly(q) ==
    /\ stage[q] = "expire"
    /\ writer = Nobody
    /\ bearer' = [bearer EXCEPT ![q].retried = TRUE, ![q].got = {}, ![q].at = 0]
    /\ Goto(q, "read")
    /\ UNCHANGED <<now, published, left, jwksKeys, jwksExpiry, jwksFrom, writer>>

\* Under the write lock, for all requests.
Expire(q) ==
    /\ stage[q] = "expire"
    /\ writer = Nobody
    /\ jwksExpiry' = 0
    /\ bearer' = [bearer EXCEPT ![q].retried = TRUE, ![q].got = {}, ![q].at = 0]
    /\ Goto(q, "read")
    /\ UNCHANGED <<now, published, left, jwksKeys, jwksFrom, writer>>

Leave(q) ==
    /\ stage[q] \in Decided
    /\ Goto(q, "idle")
    /\ bearer' = [bearer EXCEPT ![q] = NoBearer]
    /\ UNCHANGED <<now, published, left, jwksKeys, jwksExpiry, jwksFrom, writer>>

-----------------------------------------------------------------------------
(* The providers and the clock *)

\* A provider publishes other keys.
Rotate(i, keys) ==
    /\ keys # published[i]
    /\ published' = [published EXCEPT ![i] = keys]
    /\ left' = [left EXCEPT ![i] =
                   [k \in Kids |-> CASE k \in keys -> 0
                                    [] k \in published[i] \ keys -> now
                                    [] OTHER -> @[k]]]
    /\ bearer' = [q \in Bearers |->
                     [bearer[q] EXCEPT !.steady = @ /\ (bearer[q].iss = i => bearer[q].kid \in keys)]]
    /\ UNCHANGED <<now, jwksKeys, jwksExpiry, jwksFrom, writer, stage>>

\* No fetch outlives its timeout.
KeyTick ==
    /\ \A q \in Bearers : stage[q] \in {"fetch", "store"} => now - bearer[q].at < FetchTime
    /\ Advance
    /\ UNCHANGED <<published, left, jwksKeys, jwksExpiry, jwksFrom, writer, stage, bearer>>

-----------------------------------------------------------------------------
(* The specification *)

KeyInit ==
    /\ now = 0
    /\ published \in [Issuers -> SUBSET Kids]
    /\ left = [i \in Issuers |-> [k \in Kids |-> 0]]
    /\ jwksKeys = {}
    /\ jwksExpiry = 0
    /\ jwksFrom = SomeIssuer
    /\ writer = Nobody
    /\ stage = [q \in Bearers |-> "idle"]
    /\ bearer = [q \in Bearers |-> NoBearer]

Verify(q) ==
    \/ ReadCache(q) \/ Miss(q) \/ HitLocked(q) \/ BeginFetch(q) \/ ProviderAnswers(q)
    \/ Store(q) \/ FailFetch(q) \/ Lookup(q) \/ Expire(q) \/ Leave(q)

KeyNext ==
    \/ \E q \in Bearers : Verify(q) \/ \E i \in Issuers, k \in Kids : Arrive(q, i, k)
    \/ \E i \in Issuers, keys \in SUBSET Kids : Rotate(i, keys)
    \/ KeyTick

KeySpec == KeyInit /\ [][KeyNext]_keyVars

\* A goroutine runs on, a fetch ends by its timeout, and a lock that is free again
\* and again is got in the end: sync.RWMutex hands itself to those who wait.  Nothing
\* makes a request come, keys change or the cache expire.
KeyFairness ==
    \A q \in Bearers :
        /\ WF_keyVars(ProviderAnswers(q) \/ Store(q) \/ FailFetch(q) \/ Lookup(q) \/ Leave(q))
        /\ SF_keyVars(ReadCache(q) \/ Miss(q) \/ HitLocked(q) \/ BeginFetch(q) \/ Expire(q))

KeyFairSpec == KeySpec /\ KeyFairness

-----------------------------------------------------------------------------
(* Properties *)

\* Type invariant: the write lock is held by the one request that fetches.
KeyTypeOK ==
    /\ now \in 0 .. MaxTime
    /\ published \in [Issuers -> SUBSET Kids]
    /\ left \in [Issuers -> [Kids -> 0 .. now]]
    /\ jwksKeys \in SUBSET Kids
    /\ jwksExpiry \in 0 .. now + CacheTTL
    /\ jwksFrom \in Issuers
    /\ writer \in Bearers \cup {Nobody}
    /\ stage \in [Bearers -> KeySteps]
    /\ bearer \in [Bearers -> Bearer]
    /\ \A q \in Bearers : bearer[q].at <= now /\ (stage[q] \in {"fetch", "store"} <=> writer = q)

\* A key that a provider has withdrawn is accepted out of that provider's answer for less
\* than the time the cache may live and the fetch that filled it may take, although
\* requests prolong, expire and refill the cache in any order.  The provider is the one
\* that sent the keys; it need not be the token's, and nothing bounds how long another
\* one sends the key.
RetiredKeyBound ==
    \A q \in Bearers :
        LET from == bearer[q].from IN
        stage[q] = "accepted" /\ bearer[q].kid \notin published[from]
            => bearer[q].at < left[from][bearer[q].kid] + CacheTTL + FetchTime

\* A token whose issuer has published its key all the time since the request came is
\* refused only over another issuer's keys: a stale cache alone refuses nobody.
PublishedKeyIsKnown ==
    \A q \in Bearers : stage[q] = "unknown" /\ bearer[q].steady => bearer[q].from # bearer[q].iss

\* Of the requests that find the cache expired together, one fetches; the keys it has
\* stored are not fetched again before they expire or a request expires them.
FetchedOnce == [][jwksExpiry' > jwksExpiry => ~Fresh]_keyVars

\* Every token is decided, whatever the provider does and however often requests
\* expire the cache under one another's feet: nobody waits for the lock for good.
EveryTokenDecided == \A q \in Bearers : stage[q] # "idle" ~> stage[q] = "idle"
=============================================================================
