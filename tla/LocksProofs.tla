----------------------------- MODULE LocksProofs -----------------------------
(***************************************************************************)
(* What the two places that hold a lock while they wait guarantee.         *)
(*                                                                         *)
(* The key cache, for any numbers of requests, keys and issuers: what a    *)
(* request may conclude from a map it took out of the lock, whose keys     *)
(* another issuer may have sent, and from a clock it read before it        *)
(* waited.                                                                 *)
(*                                                                         *)
(* The layout transaction, for any number of rooms and requests and any    *)
(* layouts: it moves all its rooms at once or none.  The invariant relates *)
(* the loop to the history: what a transaction has written and what it has *)
(* still to write is what its layout named, so that a commit, which comes  *)
(* after the loop, writes all of it.                                       *)
(***************************************************************************)
EXTENDS MCLocks, TLAPS

-----------------------------------------------------------------------------
(* What a step does to a request *)

Fetching == {"fetch", "store"}

\* Request q goes to l with the values r, and no other request moves.
Effect(q, l, r) ==
    /\ stage' \in [Bearers -> KeySteps] /\ bearer' \in [Bearers -> Bearer]
    /\ stage'[q] = l /\ bearer'[q] = r
    /\ \A o \in Bearers \ {q} : stage'[o] = stage[o] /\ bearer'[o] = bearer[o]

\* A well-typed assignment to one request has the effect it names.
LEMMA Assigned ==
    ASSUME stage \in [Bearers -> KeySteps], bearer \in [Bearers -> Bearer],
           NEW q \in Bearers, NEW l \in KeySteps, NEW r \in Bearer,
           Goto(q, l), bearer' = [bearer EXCEPT ![q] = r]
    PROVE  Effect(q, l, r)
BY DEF Effect, Goto

\* The program counters.
LEMMA StepsAre ==
    /\ \A l \in {"idle", "read", "lock", "fetch", "store", "lookup", "expire"} : l \in KeySteps
    /\ \A l \in Decided : l \in KeySteps
    /\ Decided \cap Fetching = {} /\ "lookup" \notin Decided /\ "accepted" \in Decided
    /\ "unknown" \in Decided /\ "failed" \in Decided
BY DEF KeySteps, Decided, Fetching

\* The rows a request can get: those of its actions keep its key and whether that key
\* was published all along.
LEMMA RowsTyped ==
    ASSUME KeyTypeOK
    PROVE  /\ now \in Nat
           /\ NoBearer \in Bearer /\ NoBearer.at = 0
           /\ \A i \in Issuers, k \in Kids :
                 NewBearer(i, k, k \in published[i]) \in Bearer
           /\ \A q \in Bearers :
                 /\ bearer[q] \in Bearer /\ bearer[q].at \in Nat /\ bearer[q].at <= now
                 /\ [bearer[q] EXCEPT !.got = jwksKeys, !.from = jwksFrom, !.at = now] \in Bearer
                 /\ [bearer[q] EXCEPT !.at = now] \in Bearer
                 /\ [bearer[q] EXCEPT !.got = published[bearer[q].iss], !.from = bearer[q].iss] \in Bearer
                 /\ [bearer[q] EXCEPT !.got = {}, !.at = 0] \in Bearer
                 /\ [bearer[q] EXCEPT !.retried = TRUE, !.got = {}, !.at = 0] \in Bearer
<1>1. /\ now \in Nat /\ jwksKeys \in SUBSET Kids /\ jwksFrom \in Issuers
      /\ published \in [Issuers -> SUBSET Kids]
  BY MaxTimeIsNatural DEF KeyTypeOK
<1>2. NoBearer \in Bearer /\ NoBearer.at = 0
  <2>1. (CHOOSE k \in Kids : TRUE) \in Kids /\ SomeIssuer \in Issuers
    BY KeyCacheAssumption DEF SomeIssuer
  <2> QED BY <2>1 DEF NoBearer, NewBearer, Bearer
<1>3. \A i \in Issuers, k \in Kids : NewBearer(i, k, k \in published[i]) \in Bearer
  BY DEF NewBearer, Bearer
<1>4. ASSUME NEW q \in Bearers
      PROVE  /\ bearer[q] \in Bearer /\ bearer[q].at \in Nat /\ bearer[q].at <= now
             /\ [bearer[q] EXCEPT !.got = jwksKeys, !.from = jwksFrom, !.at = now] \in Bearer
             /\ [bearer[q] EXCEPT !.at = now] \in Bearer
             /\ [bearer[q] EXCEPT !.got = published[bearer[q].iss], !.from = bearer[q].iss] \in Bearer
             /\ [bearer[q] EXCEPT !.got = {}, !.at = 0] \in Bearer
             /\ [bearer[q] EXCEPT !.retried = TRUE, !.got = {}, !.at = 0] \in Bearer
  <2>1. bearer[q] \in Bearer /\ bearer[q].at <= now
    BY DEF KeyTypeOK
  <2> QED BY <1>1, <2>1 DEF Bearer
<1> QED BY <1>1, <1>2, <1>3, <1>4

\* The effect of each action of a request.
LEMMA Effects ==
    ASSUME KeyTypeOK, NEW q \in Bearers
    PROVE  /\ \A i \in Issuers, k \in Kids : Arrive(q, i, k) =>
                 Effect(q, "read", NewBearer(i, k, k \in published[i]))
           /\ ReadCache(q) \/ HitLocked(q) =>
                 Effect(q, "lookup",
                        [bearer[q] EXCEPT !.got = jwksKeys, !.from = jwksFrom, !.at = now])
           /\ Miss(q) => Effect(q, "lock", bearer[q])
           /\ BeginFetch(q) => Effect(q, "fetch", [bearer[q] EXCEPT !.at = now])
           /\ ProviderAnswers(q) =>
                 Effect(q, "store", [bearer[q] EXCEPT !.got = published[bearer[q].iss], !.from = bearer[q].iss])
           /\ Store(q) => Effect(q, "lookup", [bearer[q] EXCEPT !.at = now])
           /\ FailFetch(q) => Effect(q, "failed", [bearer[q] EXCEPT !.got = {}, !.at = 0])
           /\ Lookup(q) => \E l \in {"accepted", "expire", "unknown"} :
                 /\ Effect(q, l, bearer[q])
                 /\ l = "accepted" => bearer[q].kid \in bearer[q].got
                 /\ l = "unknown" => bearer[q].kid \notin bearer[q].got /\ bearer[q].retried
           /\ Expire(q) =>
                 Effect(q, "read", [bearer[q] EXCEPT !.retried = TRUE, !.got = {}, !.at = 0])
           /\ Leave(q) => Effect(q, "idle", NoBearer)
<1>1. stage \in [Bearers -> KeySteps] /\ bearer \in [Bearers -> Bearer]
  BY DEF KeyTypeOK
<1>2. /\ ReadCache(q) \/ HitLocked(q) =>
            /\ Goto(q, "lookup")
            /\ bearer' = [bearer EXCEPT ![q] =
                           [bearer[q] EXCEPT !.got = jwksKeys, !.from = jwksFrom, !.at = now]]
      /\ Miss(q) => Goto(q, "lock") /\ bearer' = [bearer EXCEPT ![q] = bearer[q]]
      /\ BeginFetch(q) => Goto(q, "fetch") /\ bearer' = [bearer EXCEPT ![q] = [bearer[q] EXCEPT !.at = now]]
      /\ ProviderAnswers(q) =>
            /\ Goto(q, "store")
            /\ bearer' = [bearer EXCEPT ![q] =
                   [bearer[q] EXCEPT !.got = published[bearer[q].iss], !.from = bearer[q].iss]]
      /\ Store(q) => Goto(q, "lookup") /\ bearer' = [bearer EXCEPT ![q] = [bearer[q] EXCEPT !.at = now]]
  BY <1>1 DEF ReadCache, HitLocked, Hit, Miss, BeginFetch, ProviderAnswers, Store
<1>3. /\ FailFetch(q) =>
            Goto(q, "failed") /\ bearer' = [bearer EXCEPT ![q] = [bearer[q] EXCEPT !.got = {}, !.at = 0]]
      /\ Expire(q) =>
            /\ Goto(q, "read")
            /\ bearer' = [bearer EXCEPT ![q] = [bearer[q] EXCEPT !.retried = TRUE, !.got = {}, !.at = 0]]
  BY <1>1 DEF FailFetch, Expire
<1>4. ASSUME Lookup(q)
      PROVE  \E l \in {"accepted", "expire", "unknown"} :
                 /\ Goto(q, l) /\ bearer' = [bearer EXCEPT ![q] = bearer[q]]
                 /\ l = "accepted" => bearer[q].kid \in bearer[q].got
                 /\ l = "unknown" => bearer[q].kid \notin bearer[q].got /\ bearer[q].retried
  <2>1. bearer' = [bearer EXCEPT ![q] = bearer[q]]
    BY <1>1, <1>4 DEF Lookup
  <2>2. CASE bearer[q].kid \in bearer[q].got
    BY <1>4, <2>1, <2>2 DEF Lookup
  <2>3. CASE bearer[q].kid \notin bearer[q].got /\ ~bearer[q].retried
    BY <1>4, <2>1, <2>3 DEF Lookup
  <2>4. CASE bearer[q].kid \notin bearer[q].got /\ bearer[q].retried
    BY <1>4, <2>1, <2>4 DEF Lookup
  <2> QED BY <2>2, <2>3, <2>4
<1>5. \A l \in {"accepted", "expire", "unknown", "failed"} : l \in KeySteps
  BY StepsAre
<1>6. ASSUME Lookup(q)
      PROVE  \E l \in {"accepted", "expire", "unknown"} :
                 /\ Effect(q, l, bearer[q])
                 /\ l = "accepted" => bearer[q].kid \in bearer[q].got
                 /\ l = "unknown" => bearer[q].kid \notin bearer[q].got /\ bearer[q].retried
  BY <1>1, <1>4, <1>5, <1>6, RowsTyped, Assigned
<1>7. \A i \in Issuers, k \in Kids : Arrive(q, i, k) =>
         Effect(q, "read", NewBearer(i, k, k \in published[i]))
  BY <1>1, RowsTyped, StepsAre, Assigned DEF Arrive
<1>8. Leave(q) => Effect(q, "idle", NoBearer)
  BY <1>1, RowsTyped, StepsAre, Assigned DEF Leave
<1>9. /\ ReadCache(q) \/ HitLocked(q) =>
            Effect(q, "lookup",
                   [bearer[q] EXCEPT !.got = jwksKeys, !.from = jwksFrom, !.at = now])
      /\ Miss(q) => Effect(q, "lock", bearer[q])
      /\ BeginFetch(q) => Effect(q, "fetch", [bearer[q] EXCEPT !.at = now])
      /\ ProviderAnswers(q) =>
            Effect(q, "store", [bearer[q] EXCEPT !.got = published[bearer[q].iss], !.from = bearer[q].iss])
      /\ Store(q) => Effect(q, "lookup", [bearer[q] EXCEPT !.at = now])
  BY <1>1, <1>2, RowsTyped, StepsAre, Assigned
<1>10. /\ FailFetch(q) => Effect(q, "failed", [bearer[q] EXCEPT !.got = {}, !.at = 0])
       /\ Expire(q) =>
             Effect(q, "read", [bearer[q] EXCEPT !.retried = TRUE, !.got = {}, !.at = 0])
  BY <1>1, <1>3, <1>5, RowsTyped, StepsAre, Assigned
<1> QED BY <1>6, <1>7, <1>8, <1>9, <1>10

\* Rotate changes what requests know of their keys, and nothing else about them.
LEMMA RotateEffect ==
    ASSUME KeyTypeOK, NEW i \in Issuers, NEW keys \in SUBSET Kids, Rotate(i, keys)
    PROVE  /\ published' \in [Issuers -> SUBSET Kids]
           /\ bearer' \in [Bearers -> Bearer]
           /\ \A q \in Bearers :
                 /\ bearer'[q].iss = bearer[q].iss /\ bearer'[q].kid = bearer[q].kid
                 /\ bearer'[q].retried = bearer[q].retried
                 /\ bearer'[q].got = bearer[q].got /\ bearer'[q].from = bearer[q].from
                 /\ bearer'[q].at = bearer[q].at
                 /\ bearer'[q].steady => bearer[q].steady
                 /\ bearer'[q].steady /\ bearer[q].kid \in published[bearer[q].iss]
                      => bearer[q].kid \in published'[bearer[q].iss]
<1>1. \A q \in Bearers :
         /\ bearer'[q] = [bearer[q] EXCEPT
                !.steady = bearer[q].steady /\ (bearer[q].iss = i => bearer[q].kid \in keys)]
         /\ bearer[q] \in Bearer
  BY DEF Rotate, KeyTypeOK
<1>2. \A q \in Bearers : bearer'[q] \in Bearer
  BY <1>1 DEF Bearer
<1>3. /\ published' \in [Issuers -> SUBSET Kids] /\ published'[i] = keys
      /\ \A o \in Issuers \ {i} : published'[o] = published[o]
  BY DEF Rotate, KeyTypeOK
<1>4. ASSUME NEW q \in Bearers
      PROVE  /\ bearer'[q].iss = bearer[q].iss /\ bearer'[q].kid = bearer[q].kid
             /\ bearer'[q].retried = bearer[q].retried
             /\ bearer'[q].got = bearer[q].got /\ bearer'[q].from = bearer[q].from
             /\ bearer'[q].at = bearer[q].at
             /\ bearer'[q].steady = (bearer[q].steady /\ (bearer[q].iss = i => bearer[q].kid \in keys))
             /\ bearer[q].iss \in Issuers
  BY <1>1 DEF Bearer
<1>5. \A q \in Bearers : /\ bearer'[q].steady => bearer[q].steady
                         /\ bearer'[q].steady /\ bearer[q].kid \in published[bearer[q].iss]
                              => bearer[q].kid \in published'[bearer[q].iss]
  BY <1>3, <1>4
<1> QED BY <1>2, <1>3, <1>4, <1>5 DEF Rotate

-----------------------------------------------------------------------------
(* Types *)

\* No step of a request, the provider or the clock leaves the types, or frees a lock
\* that is held or holds one that is not.
LEMMA KeyTypeInductive ==
    ASSUME KeyTypeOK, KeyNext
    PROVE  KeyTypeOK'
<1>0. /\ now \in Nat /\ now <= MaxTime /\ CacheTTL \in Nat /\ MaxTime \in Nat
      /\ jwksExpiry \in Nat /\ jwksExpiry <= now + CacheTTL
      /\ \A o \in Bearers : /\ bearer[o].at \in Nat /\ bearer[o].at <= now
                            /\ stage[o] \in Fetching <=> writer = o
  <2>1. \A o \in Bearers : bearer[o].at \in Nat
    BY RowsTyped
  <2> QED BY <2>1, KeyCacheAssumption, MaxTimeIsNatural DEF KeyTypeOK, Fetching
<1>1. ASSUME NEW q \in Bearers, NEW l, NEW r, Effect(q, l, r), r.at <= now,
             UNCHANGED <<now, published, left>>,
             jwksKeys' \in SUBSET Kids, jwksFrom' \in Issuers, jwksExpiry' \in Nat,
             jwksExpiry' <= now + CacheTTL,
             writer' \in Bearers \cup {Nobody},
             l \in Fetching <=> writer' = q,
             \A o \in Bearers \ {q} : writer' = o <=> writer = o
      PROVE  KeyTypeOK'
  <2>1. jwksExpiry' \in 0 .. now' + CacheTTL
    BY <1>0, <1>1
  <2>2. ASSUME NEW o \in Bearers
        PROVE  bearer'[o].at <= now' /\ (stage'[o] \in {"fetch", "store"} <=> writer' = o)
    <3>1. CASE o = q
      BY <1>1, <3>1 DEF Effect, Fetching
    <3>2. CASE o # q
      BY <1>1, <3>2 DEF Effect, KeyTypeOK
    <3> QED BY <3>1, <3>2
  <2> QED BY <1>1, <2>1, <2>2 DEF Effect, KeyTypeOK
<1>2. ASSUME NEW q \in Bearers, NEW i \in Issuers, NEW k \in Kids, Arrive(q, i, k)
      PROVE  KeyTypeOK'
  <2> DEFINE r == NewBearer(i, k, k \in published[i])
  <2>1. Effect(q, "read", r)
    BY <1>2, Effects
  <2>2. r.at = 0
    BY DEF NewBearer
  <2>3. /\ UNCHANGED <<now, published, left, jwksKeys, jwksExpiry, jwksFrom, writer>>
        /\ jwksKeys \in SUBSET Kids /\ jwksFrom \in Issuers
        /\ writer \in Bearers \cup {Nobody} /\ writer # q
    BY <1>0, <1>2 DEF Arrive, KeyTypeOK, Fetching
  <2> HIDE DEF r
  <2> QED BY <1>0, <1>1, <2>1, <2>2, <2>3 DEF Fetching
<1>3. ASSUME NEW q \in Bearers, ReadCache(q) \/ HitLocked(q)
      PROVE  KeyTypeOK'
  <2> DEFINE r == [bearer[q] EXCEPT !.got = jwksKeys, !.from = jwksFrom, !.at = now]
  <2>1. Effect(q, "lookup", r)
    BY <1>3, Effects
  <2>2. r.at = now
    BY RowsTyped DEF Bearer
  <2>3. /\ UNCHANGED <<now, published, left, jwksKeys, jwksExpiry, jwksFrom, writer>>
        /\ jwksKeys \in SUBSET Kids /\ jwksFrom \in Issuers
        /\ writer \in Bearers \cup {Nobody} /\ writer # q
    BY <1>0, <1>3, KeyCacheAssumption DEF ReadCache, HitLocked, Hit, KeyTypeOK
  <2> HIDE DEF r
  <2> QED BY <1>0, <1>1, <2>1, <2>2, <2>3 DEF Fetching
<1>4. ASSUME NEW q \in Bearers, Miss(q) \/ Lookup(q)
      PROVE  KeyTypeOK'
  <2>1. PICK l \in {"lock", "accepted", "expire", "unknown"} : Effect(q, l, bearer[q])
    BY <1>4, Effects
  <2>2. /\ UNCHANGED <<now, published, left, jwksKeys, jwksExpiry, jwksFrom, writer>>
        /\ jwksKeys \in SUBSET Kids /\ jwksFrom \in Issuers
        /\ writer \in Bearers \cup {Nobody} /\ writer # q
    BY <1>0, <1>4 DEF Miss, Lookup, KeyTypeOK, Fetching
  <2>3. bearer[q].at <= now
    BY DEF KeyTypeOK
  <2> QED BY <1>0, <1>1, <2>1, <2>2, <2>3 DEF Fetching
<1>5. ASSUME NEW q \in Bearers, BeginFetch(q)
      PROVE  KeyTypeOK'
  <2> DEFINE r == [bearer[q] EXCEPT !.at = now]
  <2>1. Effect(q, "fetch", r)
    BY <1>5, Effects
  <2>2. r.at = now
    BY RowsTyped DEF Bearer
  <2>3. /\ UNCHANGED <<now, published, left, jwksKeys, jwksExpiry, jwksFrom>>
        /\ jwksKeys \in SUBSET Kids /\ jwksFrom \in Issuers
        /\ writer = Nobody /\ writer' = q
    BY <1>5 DEF BeginFetch, KeyTypeOK
  <2>4. \A o \in Bearers \ {q} : writer' = o <=> writer = o
    BY <2>3, KeyCacheAssumption
  <2> HIDE DEF r
  <2> QED BY <1>0, <1>1, <2>1, <2>2, <2>3, <2>4 DEF Fetching
<1>6. ASSUME NEW q \in Bearers, ProviderAnswers(q)
      PROVE  KeyTypeOK'
  <2> DEFINE r == [bearer[q] EXCEPT !.got = published[bearer[q].iss], !.from = bearer[q].iss]
  <2>1. Effect(q, "store", r)
    BY <1>6, Effects
  <2>2. r.at = bearer[q].at
    BY RowsTyped DEF Bearer
  <2>3. /\ UNCHANGED <<now, published, left, jwksKeys, jwksExpiry, jwksFrom, writer>>
        /\ jwksKeys \in SUBSET Kids /\ jwksFrom \in Issuers /\ writer = q
    BY <1>0, <1>6 DEF ProviderAnswers, KeyTypeOK, Fetching
  <2> HIDE DEF r
  <2> QED BY <1>0, <1>1, <2>1, <2>2, <2>3 DEF Fetching
<1>7. ASSUME NEW q \in Bearers, Store(q)
      PROVE  KeyTypeOK'
  <2> DEFINE r == [bearer[q] EXCEPT !.at = now]
  <2>1. Effect(q, "lookup", r)
    BY <1>7, Effects
  <2>2. r.at = now
    BY RowsTyped DEF Bearer
  <2>3. /\ UNCHANGED <<now, published, left>>
        /\ jwksKeys' \in SUBSET Kids /\ jwksFrom' \in Issuers
        /\ jwksExpiry' = now + CacheTTL
        /\ writer = q /\ writer' = Nobody
    BY <1>0, <1>7, RowsTyped DEF Store, Bearer, Fetching
  <2>4. writer' # q /\ \A o \in Bearers \ {q} : writer' = o <=> writer = o
    BY <2>3, KeyCacheAssumption
  <2> HIDE DEF r
  <2> QED BY <1>0, <1>1, <2>1, <2>2, <2>3, <2>4 DEF Fetching
<1>8. ASSUME NEW q \in Bearers, FailFetch(q)
      PROVE  KeyTypeOK'
  <2> DEFINE r == [bearer[q] EXCEPT !.got = {}, !.at = 0]
  <2>1. Effect(q, "failed", r)
    BY <1>8, Effects
  <2>2. r.at = 0
    BY RowsTyped DEF Bearer
  <2>3. /\ UNCHANGED <<now, published, left, jwksKeys, jwksExpiry, jwksFrom>>
        /\ jwksKeys \in SUBSET Kids /\ jwksFrom \in Issuers
        /\ writer = q /\ writer' = Nobody
    BY <1>0, <1>8 DEF FailFetch, KeyTypeOK, Fetching
  <2>4. writer' # q /\ \A o \in Bearers \ {q} : writer' = o <=> writer = o
    BY <2>3, KeyCacheAssumption
  <2> HIDE DEF r
  <2> QED BY <1>0, <1>1, <2>1, <2>2, <2>3, <2>4 DEF Fetching
<1>9. ASSUME NEW q \in Bearers, Expire(q)
      PROVE  KeyTypeOK'
  <2> DEFINE r == [bearer[q] EXCEPT !.retried = TRUE, !.got = {}, !.at = 0]
  <2>1. Effect(q, "read", r)
    BY <1>9, Effects
  <2>2. r.at = 0
    BY RowsTyped DEF Bearer
  <2>3. /\ UNCHANGED <<now, published, left, jwksKeys, jwksFrom, writer>> /\ jwksExpiry' = 0
        /\ jwksKeys \in SUBSET Kids /\ jwksFrom \in Issuers /\ writer = Nobody /\ writer # q
    BY <1>0, <1>9, KeyCacheAssumption DEF Expire, KeyTypeOK
  <2> HIDE DEF r
  <2> QED BY <1>0, <1>1, <2>1, <2>2, <2>3 DEF Fetching
<1>10. ASSUME NEW q \in Bearers, Leave(q)
       PROVE  KeyTypeOK'
  <2>1. Effect(q, "idle", NoBearer)
    BY <1>10, Effects
  <2>2. NoBearer.at = 0
    BY RowsTyped
  <2>3. /\ UNCHANGED <<now, published, left, jwksKeys, jwksExpiry, jwksFrom, writer>>
        /\ jwksKeys \in SUBSET Kids /\ jwksFrom \in Issuers
        /\ writer \in Bearers \cup {Nobody} /\ writer # q
    BY <1>0, <1>10, StepsAre DEF Leave, KeyTypeOK
  <2> QED BY <1>0, <1>1, <2>1, <2>2, <2>3 DEF Fetching
<1>11. ASSUME NEW i \in Issuers, NEW keys \in SUBSET Kids, Rotate(i, keys)
       PROVE  KeyTypeOK'
  <2>1. left' \in [Issuers -> [Kids -> 0 .. now]]
    <3>1. [k \in Kids |-> CASE k \in keys -> 0
                             [] k \in published[i] \ keys -> now
                             [] OTHER -> left[i][k]]
              \in [Kids -> 0 .. now]
      BY <1>0 DEF KeyTypeOK
    <3> QED BY <1>11, <3>1 DEF Rotate, KeyTypeOK
  <2>2. UNCHANGED <<now, jwksKeys, jwksExpiry, jwksFrom, writer, stage>>
    BY <1>11 DEF Rotate
  <2>3. /\ published' \in [Issuers -> SUBSET Kids] /\ bearer' \in [Bearers -> Bearer]
        /\ \A o \in Bearers : bearer'[o].at = bearer[o].at
    BY <1>11, RotateEffect
  <2> QED BY <2>1, <2>2, <2>3 DEF KeyTypeOK
<1>12. CASE KeyTick
  <2>1. /\ now' \in 0 .. MaxTime /\ now' = now + 1
        /\ UNCHANGED <<published, left, jwksKeys, jwksExpiry, jwksFrom, writer, stage, bearer>>
    BY <1>0, <1>12 DEF KeyTick, Advance
  <2>2. jwksExpiry' \in 0 .. now' + CacheTTL
    BY <1>0, <2>1
  <2>3. 0 .. now \subseteq 0 .. now'
    BY <1>0, <2>1
  <2>4. left' \in [Issuers -> [Kids -> 0 .. now']]
    BY <2>1, <2>3 DEF KeyTypeOK
  <2>5. \A o \in Bearers : bearer'[o].at <= now'
    BY <1>0, <2>1
  <2> QED BY <2>1, <2>2, <2>4, <2>5 DEF KeyTypeOK
<1> QED BY <1>2, <1>3, <1>4, <1>5, <1>6, <1>7, <1>8, <1>9, <1>10, <1>11, <1>12
    DEF KeyNext, Verify

-----------------------------------------------------------------------------
(* How old a key may be *)

\* What a request knows of the age of the keys it has.
KeysOf(q) ==
    /\ stage[q] \in Fetching => now <= bearer[q].at + FetchTime
    /\ stage[q] = "store" =>
          \A k \in bearer[q].got \ published[bearer[q].from] : bearer[q].at <= left[bearer[q].from][k]
    /\ stage[q] \in {"lookup", "accepted"} =>
          \A k \in bearer[q].got \ published[bearer[q].from] :
              bearer[q].at < left[bearer[q].from][k] + CacheTTL + FetchTime
    /\ stage[q] = "accepted" => bearer[q].kid \in bearer[q].got

\* The cache expires before a key in it has been withdrawn, by the provider that sent it,
\* for too long: the fetch that brought the key began when the provider still had it.
AgeInv ==
    /\ \A k \in jwksKeys \ published[jwksFrom] :
          jwksExpiry <= left[jwksFrom][k] + CacheTTL + FetchTime
    /\ \A q \in Bearers : KeysOf(q)

\* A fetch takes less than its timeout and the cache lives for no more than its time.
LEMMA AgeInductive ==
    ASSUME KeyTypeOK, KeyTypeOK', AgeInv, KeyNext
    PROVE  AgeInv'
<1>0. /\ now \in Nat /\ CacheTTL \in Nat \ {0} /\ FetchTime \in Nat
      /\ jwksExpiry \in Nat /\ jwksExpiry <= now + CacheTTL
      /\ jwksKeys \in SUBSET Kids
      /\ jwksFrom \in Issuers
      /\ \A i \in Issuers, k \in Kids : left[i][k] \in Nat /\ left[i][k] <= now
      /\ \A o \in Bearers : /\ bearer[o].at \in Nat /\ bearer[o].at <= now
                            /\ bearer[o].got \in SUBSET Kids /\ bearer[o].from \in Issuers
                            /\ bearer[o].iss \in Issuers
  <2>1. \A o \in Bearers : /\ bearer[o].at \in Nat /\ bearer[o].got \in SUBSET Kids
                           /\ bearer[o].from \in Issuers /\ bearer[o].iss \in Issuers
    BY RowsTyped DEF Bearer
  <2> QED BY <2>1, KeyCacheAssumption, MaxTimeIsNatural DEF KeyTypeOK
<1>1. ASSUME NEW q \in Bearers, NEW l, NEW r, Effect(q, l, r),
             UNCHANGED <<now, published, left>>,
             \A k \in jwksKeys' \ published[jwksFrom'] :
                 jwksExpiry' <= left[jwksFrom'][k] + CacheTTL + FetchTime,
             KeysOf(q)'
      PROVE  AgeInv'
  <2>1. ASSUME NEW o \in Bearers \ {q}
        PROVE  KeysOf(o)'
    BY <1>1 DEF Effect, AgeInv, KeysOf
  <2> QED BY <1>1, <2>1 DEF AgeInv
<1>2. ASSUME NEW q \in Bearers, NEW l \in {"idle", "read", "lock", "expire", "unknown", "failed"},
             NEW r, Effect(q, l, r), UNCHANGED <<now, published, left>>,
             jwksKeys' = jwksKeys, jwksFrom' = jwksFrom, jwksExpiry' <= jwksExpiry
      PROVE  AgeInv'
  <2>1. KeysOf(q)'
    BY <1>2 DEF KeysOf, Effect, Fetching
  <2>2. jwksExpiry' \in Nat
    BY <1>0 DEF KeyTypeOK
  <2>3. \A k \in jwksKeys' \ published[jwksFrom'] :
           jwksExpiry' <= left[jwksFrom'][k] + CacheTTL + FetchTime
    BY <1>0, <1>2, <2>2 DEF AgeInv
  <2> QED BY <1>1, <1>2, <2>1, <2>3
<1>3. ASSUME NEW q \in Bearers,
             (\E i \in Issuers, k \in Kids : Arrive(q, i, k)) \/ Miss(q) \/ FailFetch(q) \/ Leave(q)
      PROVE  AgeInv'
  <2>1. UNCHANGED <<now, published, left, jwksKeys, jwksExpiry, jwksFrom>>
    BY <1>3 DEF Arrive, Miss, FailFetch, Leave
  <2>2. \E l \in {"idle", "read", "lock", "expire", "unknown", "failed"} : \E r : Effect(q, l, r)
    BY <1>3, Effects
  <2> QED BY <1>0, <1>2, <2>1, <2>2
<1>4. ASSUME NEW q \in Bearers, ReadCache(q) \/ HitLocked(q)
      PROVE  AgeInv'
  <2> DEFINE r == [bearer[q] EXCEPT !.got = jwksKeys, !.from = jwksFrom, !.at = now]
  <2>1. /\ UNCHANGED <<now, published, left, jwksKeys, jwksExpiry, jwksFrom>>
        /\ now < jwksExpiry
    BY <1>4 DEF ReadCache, HitLocked, Hit, Fresh
  <2>2. Effect(q, "lookup", r)
    BY <1>4, Effects
  <2>3. r.got = jwksKeys /\ r.from = jwksFrom /\ r.at = now
    BY RowsTyped DEF Bearer
  <2>4. \A k \in jwksKeys \ published[jwksFrom] : now < left[jwksFrom][k] + CacheTTL + FetchTime
    BY <1>0, <2>1 DEF AgeInv
  <2> HIDE DEF r
  <2>5. KeysOf(q)'
    BY <2>1, <2>2, <2>3, <2>4 DEF KeysOf, Effect, Fetching
  <2> QED BY <1>1, <2>1, <2>2, <2>5 DEF AgeInv
<1>5. ASSUME NEW q \in Bearers, BeginFetch(q)
      PROVE  AgeInv'
  <2> DEFINE r == [bearer[q] EXCEPT !.at = now]
  <2>1. UNCHANGED <<now, published, left, jwksKeys, jwksExpiry, jwksFrom>>
    BY <1>5 DEF BeginFetch
  <2>2. Effect(q, "fetch", r)
    BY <1>5, Effects
  <2>3. r.at = now
    BY RowsTyped DEF Bearer
  <2> HIDE DEF r
  <2>4. KeysOf(q)'
    BY <1>0, <2>1, <2>2, <2>3 DEF KeysOf, Effect, Fetching
  <2> QED BY <1>1, <2>1, <2>2, <2>4 DEF AgeInv
<1>6. ASSUME NEW q \in Bearers, ProviderAnswers(q)
      PROVE  AgeInv'
  <2> DEFINE r == [bearer[q] EXCEPT !.got = published[bearer[q].iss], !.from = bearer[q].iss]
  <2>1. /\ UNCHANGED <<now, published, left, jwksKeys, jwksExpiry, jwksFrom>>
        /\ stage[q] = "fetch"
    BY <1>6 DEF ProviderAnswers
  <2>2. Effect(q, "store", r)
    BY <1>6, Effects
  <2>3. r.got = published[bearer[q].iss] /\ r.from = bearer[q].iss /\ r.at = bearer[q].at
    BY RowsTyped DEF Bearer
  <2> HIDE DEF r
  <2>4. now <= bearer[q].at + FetchTime
    BY <2>1 DEF AgeInv, KeysOf, Fetching
  <2>5. KeysOf(q)'
    BY <2>1, <2>2, <2>3, <2>4 DEF KeysOf, Effect, Fetching
  <2> QED BY <1>1, <2>1, <2>2, <2>5 DEF AgeInv
<1>7. ASSUME NEW q \in Bearers, Store(q)
      PROVE  AgeInv'
  <2> DEFINE r == [bearer[q] EXCEPT !.at = now]
  <2>1. /\ UNCHANGED <<now, published, left>> /\ stage[q] = "store"
        /\ jwksKeys' = bearer[q].got /\ jwksFrom' = bearer[q].from /\ jwksExpiry' = now + CacheTTL
    BY <1>7 DEF Store
  <2>2. Effect(q, "lookup", r)
    BY <1>7, Effects
  <2>3. r.got = bearer[q].got /\ r.from = bearer[q].from /\ r.at = now
    BY RowsTyped DEF Bearer
  <2> HIDE DEF r
  <2>4. /\ now <= bearer[q].at + FetchTime
        /\ \A k \in bearer[q].got \ published[bearer[q].from] : bearer[q].at <= left[bearer[q].from][k]
    BY <2>1 DEF AgeInv, KeysOf, Fetching
  <2>5. \A k \in bearer[q].got \ published[bearer[q].from] :
           /\ now + CacheTTL <= left[bearer[q].from][k] + CacheTTL + FetchTime
           /\ now < left[bearer[q].from][k] + CacheTTL + FetchTime
    BY <1>0, <2>4
  <2>6. KeysOf(q)'
    BY <2>1, <2>2, <2>3, <2>5 DEF KeysOf, Effect, Fetching
  <2> QED BY <1>1, <2>1, <2>2, <2>5, <2>6
<1>8. ASSUME NEW q \in Bearers, Lookup(q)
      PROVE  AgeInv'
  <2>1. PICK l \in {"accepted", "expire", "unknown"} :
           Effect(q, l, bearer[q]) /\ (l = "accepted" => bearer[q].kid \in bearer[q].got)
    BY <1>8, Effects
  <2>2. /\ UNCHANGED <<now, published, left, jwksKeys, jwksExpiry, jwksFrom>>
        /\ stage[q] = "lookup"
    BY <1>8 DEF Lookup
  <2>3. KeysOf(q)'
    BY <2>1, <2>2 DEF KeysOf, Effect, Fetching, AgeInv
  <2> QED BY <1>1, <2>1, <2>2, <2>3 DEF AgeInv
<1>9. ASSUME NEW q \in Bearers, Expire(q)
      PROVE  AgeInv'
  <2>1. /\ UNCHANGED <<now, published, left, jwksKeys, jwksFrom>>
        /\ jwksExpiry' <= jwksExpiry
    BY <1>0, <1>9 DEF Expire
  <2>2. \E r : Effect(q, "read", r)
    BY <1>9, Effects
  <2> QED BY <1>2, <2>1, <2>2
<1>10. ASSUME NEW i \in Issuers, NEW keys \in SUBSET Kids, Rotate(i, keys)
       PROVE  AgeInv'
  <2>1. /\ UNCHANGED <<now, jwksKeys, jwksExpiry, jwksFrom, stage>>
        /\ \A o \in Issuers, k \in Kids : left'[o][k] =
              CASE o # i -> left[o][k]
                [] o = i /\ k \in keys -> 0
                [] o = i /\ k \in published[i] \ keys -> now
                [] o = i /\ k \notin published[i] \cup keys -> left[o][k]
        /\ \A o \in Issuers : published'[o] = IF o = i THEN keys ELSE published[o]
    BY <1>10 DEF Rotate, KeyTypeOK
  <2>2. \A o \in Issuers, k \in Kids : k \notin published'[o] =>
           \/ k \in published[o] /\ left'[o][k] = now
           \/ k \notin published[o] /\ left'[o][k] = left[o][k]
    BY <2>1
  <2>3. \A k \in jwksKeys' \ published'[jwksFrom'] :
           jwksExpiry' <= left'[jwksFrom'][k] + CacheTTL + FetchTime
    BY <1>0, <2>1, <2>2 DEF AgeInv
  <2>4. ASSUME NEW q \in Bearers
        PROVE  KeysOf(q)'
    <3>1. /\ bearer'[q].kid = bearer[q].kid /\ bearer'[q].got = bearer[q].got
          /\ bearer'[q].from = bearer[q].from /\ bearer'[q].at = bearer[q].at
          /\ KeysOf(q)
      BY <1>10, RotateEffect DEF AgeInv
    <3>2. \A k \in bearer[q].got \ published'[bearer[q].from] :
             /\ stage[q] = "store" => bearer[q].at <= left'[bearer[q].from][k]
             /\ stage[q] \in {"lookup", "accepted"} =>
                  bearer[q].at < left'[bearer[q].from][k] + CacheTTL + FetchTime
      BY <1>0, <2>2, <3>1 DEF KeysOf
    <3> QED BY <2>1, <3>1, <3>2 DEF KeysOf
  <2> QED BY <2>3, <2>4 DEF AgeInv
<1>11. CASE KeyTick
  <2>1. /\ UNCHANGED <<published, left, jwksKeys, jwksExpiry, jwksFrom, stage, bearer>>
        /\ now' = now + 1
        /\ \A q \in Bearers : stage[q] \in Fetching => now - bearer[q].at < FetchTime
    BY <1>11 DEF KeyTick, Advance, Fetching
  <2>2. \A q \in Bearers : stage[q] \in Fetching => now' <= bearer[q].at + FetchTime
    BY <1>0, <2>1
  <2> QED BY <2>1, <2>2 DEF AgeInv, KeysOf
<1> QED BY <1>3, <1>4, <1>5, <1>6, <1>7, <1>8, <1>9, <1>10, <1>11 DEF KeyNext, Verify

-----------------------------------------------------------------------------
(* Who is refused *)

\* A request that has expired the cache for a key that is still there will find it unless
\* another issuer's keys come first: what its own issuer has sent since, into the cache
\* or to whoever is about to fill it, has the key.
WillFind(q) ==
    bearer[q].retried /\ bearer[q].steady =>
        /\ stage[q] \in {"read", "lock", "fetch", "store", "lookup"} =>
              /\ jwksExpiry > 0 /\ jwksFrom = bearer[q].iss => bearer[q].kid \in jwksKeys
              /\ \A o \in Bearers : stage[o] = "store" /\ bearer[o].from = bearer[q].iss
                                        => bearer[q].kid \in bearer[o].got
        /\ stage[q] = "lookup" /\ bearer[q].from = bearer[q].iss => bearer[q].kid \in bearer[q].got

KnownInv ==
    /\ \A q \in Bearers : stage[q] # "idle" /\ bearer[q].steady => bearer[q].kid \in published[bearer[q].iss]
    /\ \A q \in Bearers : WillFind(q)
    /\ PublishedKeyIsKnown

\* Nobody is fetching when a request expires the cache, since both need the lock: who
\* fetches afterwards gets the keys that its issuer has afterwards.
LEMMA KnownInductive ==
    ASSUME KeyTypeOK, KnownInv, KeyNext
    PROVE  KnownInv'
<1>0. /\ now \in Nat
      /\ \A o \in Bearers : /\ bearer[o].retried \in BOOLEAN /\ bearer[o].steady \in BOOLEAN
                            /\ stage[o] \in Fetching <=> writer = o
  BY RowsTyped DEF KeyTypeOK, Bearer, Fetching
\* A step of a request that leaves the cache alone and hands nobody keys to store.
<1>1. ASSUME NEW q \in Bearers, NEW l, NEW r, Effect(q, l, r), l # "store",
             UNCHANGED published,
             jwksKeys' = jwksKeys, jwksFrom' = jwksFrom, jwksExpiry' \in {jwksExpiry, 0},
             l # "idle" /\ r.steady => r.kid \in published[r.iss],
             WillFind(q)', l = "unknown" /\ r.steady => r.from # r.iss
      PROVE  KnownInv'
  <2>1. ASSUME NEW o \in Bearers \ {q}
        PROVE  WillFind(o)'
    BY <1>1 DEF Effect, KnownInv, WillFind
  <2>2. \A o \in Bearers : stage'[o] # "idle" /\ bearer'[o].steady => bearer'[o].kid \in published[bearer'[o].iss]
    BY <1>1 DEF Effect, KnownInv
  <2>3. PublishedKeyIsKnown'
    BY <1>1 DEF Effect, KnownInv, PublishedKeyIsKnown
  <2> QED BY <1>1, <2>1, <2>2, <2>3 DEF KnownInv
<1>2. ASSUME NEW q \in Bearers, NEW i \in Issuers, NEW k \in Kids, Arrive(q, i, k)
      PROVE  KnownInv'
  <2> DEFINE r == NewBearer(i, k, k \in published[i])
  <2>1. Effect(q, "read", r)
    BY <1>2, Effects
  <2>2. UNCHANGED <<published, jwksKeys, jwksExpiry, jwksFrom>>
    BY <1>2 DEF Arrive
  <2>3. /\ r.iss = i /\ r.kid = k /\ r.steady = (k \in published[i]) /\ r.retried = FALSE
    BY DEF NewBearer
  <2> HIDE DEF r
  <2>4. WillFind(q)'
    BY <2>1, <2>3 DEF Effect, WillFind
  <2> QED BY <1>1, <2>1, <2>2, <2>3, <2>4
<1>3. ASSUME NEW q \in Bearers, ReadCache(q) \/ HitLocked(q)
      PROVE  KnownInv'
  <2> DEFINE r == [bearer[q] EXCEPT !.got = jwksKeys, !.from = jwksFrom, !.at = now]
  <2>1. Effect(q, "lookup", r)
    BY <1>3, Effects
  <2>2. /\ UNCHANGED <<published, jwksKeys, jwksExpiry, jwksFrom>>
        /\ now < jwksExpiry /\ stage[q] \in {"read", "lock"}
    BY <1>3 DEF ReadCache, HitLocked, Hit, Fresh
  <2>3. /\ r.iss = bearer[q].iss /\ r.kid = bearer[q].kid /\ r.steady = bearer[q].steady /\ r.retried = bearer[q].retried
        /\ r.got = jwksKeys /\ r.from = jwksFrom
    BY RowsTyped DEF Bearer
  <2> HIDE DEF r
  <2>4. jwksExpiry > 0
    BY <1>0, <2>2 DEF KeyTypeOK
  <2>5. WillFind(q)'
    BY <2>1, <2>2, <2>3, <2>4 DEF Effect, WillFind, KnownInv
  <2>6. r.steady => r.kid \in published[r.iss]
    BY <2>2, <2>3 DEF KnownInv
  <2> QED BY <1>1, <2>1, <2>2, <2>3, <2>5, <2>6
<1>4. ASSUME NEW q \in Bearers, Miss(q)
      PROVE  KnownInv'
  <2>1. Effect(q, "lock", bearer[q])
    BY <1>4, Effects
  <2>2. UNCHANGED <<published, jwksKeys, jwksExpiry, jwksFrom>> /\ stage[q] = "read"
    BY <1>4 DEF Miss
  <2>3. WillFind(q)'
    BY <2>1, <2>2 DEF Effect, WillFind, KnownInv
  <2> QED BY <1>1, <2>1, <2>2, <2>3 DEF KnownInv
<1>5. ASSUME NEW q \in Bearers, BeginFetch(q)
      PROVE  KnownInv'
  <2> DEFINE r == [bearer[q] EXCEPT !.at = now]
  <2>1. Effect(q, "fetch", r)
    BY <1>5, Effects
  <2>2. UNCHANGED <<published, jwksKeys, jwksExpiry, jwksFrom>> /\ stage[q] = "lock"
    BY <1>5 DEF BeginFetch
  <2>3. r.iss = bearer[q].iss /\ r.kid = bearer[q].kid /\ r.steady = bearer[q].steady /\ r.retried = bearer[q].retried
    BY RowsTyped DEF Bearer
  <2> HIDE DEF r
  <2>4. WillFind(q)'
    BY <2>1, <2>2, <2>3 DEF Effect, WillFind, KnownInv
  <2> QED BY <1>1, <2>1, <2>2, <2>3, <2>4 DEF KnownInv
<1>6. ASSUME NEW q \in Bearers, ProviderAnswers(q)
      PROVE  KnownInv'
  <2> DEFINE r == [bearer[q] EXCEPT !.got = published[bearer[q].iss], !.from = bearer[q].iss]
  <2>1. Effect(q, "store", r)
    BY <1>6, Effects
  <2>2. UNCHANGED <<published, jwksKeys, jwksExpiry, jwksFrom>> /\ stage[q] = "fetch"
    BY <1>6 DEF ProviderAnswers
  <2>3. /\ r.iss = bearer[q].iss /\ r.kid = bearer[q].kid /\ r.steady = bearer[q].steady /\ r.retried = bearer[q].retried
        /\ r.got = published[bearer[q].iss] /\ r.from = bearer[q].iss
    BY RowsTyped DEF Bearer
  <2> HIDE DEF r
  <2>4. \A o \in Bearers : /\ stage'[o] # "idle" /\ bearer'[o].steady => stage[o] # "idle" /\ bearer[o].steady
                           /\ bearer'[o].kid = bearer[o].kid /\ bearer'[o].iss = bearer[o].iss
    BY <2>1, <2>2, <2>3 DEF Effect
  <2>5. \A o \in Bearers : stage'[o] # "idle" /\ bearer'[o].steady => bearer'[o].kid \in published[bearer'[o].iss]
    BY <2>4 DEF KnownInv
  <2>6. WillFind(q)'
    BY <2>1, <2>2, <2>3, <2>5 DEF Effect, WillFind, KnownInv
  <2>7. ASSUME NEW o \in Bearers \ {q}
        PROVE  WillFind(o)'
    BY <2>1, <2>2, <2>3, <2>5 DEF Effect, WillFind, KnownInv
  <2>8. PublishedKeyIsKnown'
    BY <2>1 DEF Effect, KnownInv, PublishedKeyIsKnown
  <2> QED BY <2>2, <2>5, <2>6, <2>7, <2>8 DEF KnownInv
<1>7. ASSUME NEW q \in Bearers, Store(q)
      PROVE  KnownInv'
  <2> DEFINE r == [bearer[q] EXCEPT !.at = now]
  <2>1. Effect(q, "lookup", r)
    BY <1>7, Effects
  <2>2. /\ UNCHANGED published /\ stage[q] = "store"
        /\ jwksKeys' = bearer[q].got /\ jwksFrom' = bearer[q].from
    BY <1>7 DEF Store
  <2>3. /\ r.iss = bearer[q].iss /\ r.kid = bearer[q].kid /\ r.steady = bearer[q].steady /\ r.retried = bearer[q].retried
        /\ r.got = bearer[q].got /\ r.from = bearer[q].from
    BY RowsTyped DEF Bearer
  <2> HIDE DEF r
  <2>4. WillFind(q)'
    BY <2>1, <2>2, <2>3 DEF Effect, WillFind, KnownInv
  <2>5. ASSUME NEW o \in Bearers \ {q}
        PROVE  WillFind(o)'
    BY <2>1, <2>2, <2>3 DEF Effect, WillFind, KnownInv
  <2>6. \A o \in Bearers : stage'[o] # "idle" /\ bearer'[o].steady => bearer'[o].kid \in published[bearer'[o].iss]
    BY <2>1, <2>2, <2>3 DEF Effect, KnownInv
  <2>7. PublishedKeyIsKnown'
    BY <2>1 DEF Effect, KnownInv, PublishedKeyIsKnown
  <2> QED BY <2>2, <2>4, <2>5, <2>6, <2>7 DEF KnownInv
<1>8. ASSUME NEW q \in Bearers, FailFetch(q)
      PROVE  KnownInv'
  <2> DEFINE r == [bearer[q] EXCEPT !.got = {}, !.at = 0]
  <2>1. Effect(q, "failed", r)
    BY <1>8, Effects
  <2>2. UNCHANGED <<published, jwksKeys, jwksExpiry, jwksFrom>> /\ stage[q] # "idle"
    BY <1>8 DEF FailFetch
  <2>3. r.iss = bearer[q].iss /\ r.kid = bearer[q].kid /\ r.steady = bearer[q].steady
    BY RowsTyped DEF Bearer
  <2> HIDE DEF r
  <2>4. WillFind(q)'
    BY <2>1 DEF Effect, WillFind
  <2> QED BY <1>1, <2>1, <2>2, <2>3, <2>4 DEF KnownInv
<1>9. ASSUME NEW q \in Bearers, Lookup(q)
      PROVE  KnownInv'
  <2>1. PICK l \in {"accepted", "expire", "unknown"} :
           /\ Effect(q, l, bearer[q])
           /\ l = "unknown" => bearer[q].kid \notin bearer[q].got /\ bearer[q].retried
    BY <1>9, Effects
  <2>2. UNCHANGED <<published, jwksKeys, jwksExpiry, jwksFrom>> /\ stage[q] = "lookup"
    BY <1>9 DEF Lookup
  <2>3. WillFind(q)'
    BY <2>1 DEF Effect, WillFind
  <2>4. l = "unknown" /\ bearer[q].steady => bearer[q].from # bearer[q].iss
    BY <2>1, <2>2 DEF KnownInv, WillFind
  <2> QED BY <1>1, <2>1, <2>2, <2>3, <2>4 DEF KnownInv
<1>10. ASSUME NEW q \in Bearers, Expire(q)
       PROVE  KnownInv'
  <2> DEFINE r == [bearer[q] EXCEPT !.retried = TRUE, !.got = {}, !.at = 0]
  <2>1. Effect(q, "read", r)
    BY <1>10, Effects
  <2>2. UNCHANGED <<published, jwksKeys, jwksFrom>> /\ jwksExpiry' = 0 /\ stage[q] = "expire"
    BY <1>10 DEF Expire
  <2>3. r.iss = bearer[q].iss /\ r.kid = bearer[q].kid /\ r.steady = bearer[q].steady
    BY RowsTyped DEF Bearer
  <2>4. \A o \in Bearers : stage[o] # "store"
    BY <1>0, <1>10, KeyCacheAssumption DEF Expire, Fetching
  <2> HIDE DEF r
  <2>5. \A o \in Bearers : stage'[o] # "store"
    BY <2>1, <2>4 DEF Effect
  <2>6. WillFind(q)'
    BY <2>1, <2>2, <2>5 DEF Effect, WillFind
  <2> QED BY <1>1, <2>1, <2>2, <2>3, <2>6 DEF KnownInv
<1>11. ASSUME NEW q \in Bearers, Leave(q)
       PROVE  KnownInv'
  <2>1. Effect(q, "idle", NoBearer)
    BY <1>11, Effects
  <2>2. UNCHANGED <<published, jwksKeys, jwksExpiry, jwksFrom>>
    BY <1>11 DEF Leave
  <2>3. WillFind(q)'
    BY <2>1 DEF Effect, WillFind
  <2> QED BY <1>1, <2>1, <2>2, <2>3
<1>12. ASSUME NEW i \in Issuers, NEW keys \in SUBSET Kids, Rotate(i, keys)
       PROVE  KnownInv'
  <2>1. UNCHANGED <<jwksKeys, jwksExpiry, jwksFrom, stage>>
    BY <1>12 DEF Rotate
  <2>2. \A q \in Bearers : WillFind(q)'
    BY <1>12, <2>1, RotateEffect DEF WillFind, KnownInv
  <2>3. PublishedKeyIsKnown'
    BY <1>12, <2>1, RotateEffect DEF KnownInv, PublishedKeyIsKnown
  <2>4. \A q \in Bearers : stage'[q] # "idle" /\ bearer'[q].steady
                               => bearer'[q].kid \in published'[bearer'[q].iss]
    BY <1>12, <2>1, RotateEffect DEF KnownInv
  <2> QED BY <2>2, <2>3, <2>4 DEF KnownInv
<1>13. CASE KeyTick
  BY <1>13 DEF KeyTick, KnownInv, WillFind, PublishedKeyIsKnown
<1> QED BY <1>2, <1>3, <1>4, <1>5, <1>6, <1>7, <1>8, <1>9, <1>10, <1>11, <1>12, <1>13
    DEF KeyNext, Verify

-----------------------------------------------------------------------------
(* The theorems *)

\* Who holds the write lock has found the cache expired, and it stays so.
ExpiredInv == writer # Nobody => ~Fresh

KeyInv == KeyTypeOK /\ AgeInv /\ KnownInv /\ ExpiredInv

\* Only the holder of the write lock refills the cache.
LEMMA ExpiredInductive ==
    ASSUME KeyTypeOK, ExpiredInv, KeyNext
    PROVE  /\ ExpiredInv'
           /\ jwksExpiry' > jwksExpiry => ~Fresh
<1>0. /\ now \in Nat /\ jwksExpiry \in Nat
      /\ \A q \in Bearers : stage[q] \in Fetching => writer = q
  BY KeyCacheAssumption, MaxTimeIsNatural DEF KeyTypeOK, Fetching
<1>1. ASSUME NEW q \in Bearers, Verify(q)
      PROVE  /\ ExpiredInv'
             /\ jwksExpiry' > jwksExpiry => ~Fresh
  <2>1. CASE \/ ReadCache(q) \/ Miss(q) \/ HitLocked(q) \/ ProviderAnswers(q)
             \/ Lookup(q) \/ Leave(q)
    <3>1. UNCHANGED <<now, jwksExpiry, writer>>
      BY <2>1 DEF ReadCache, HitLocked, Hit, Miss, ProviderAnswers, Lookup, Leave
    <3> QED BY <1>0, <3>1 DEF ExpiredInv, Fresh
  <2>2. CASE BeginFetch(q)
    BY <1>0, <2>2 DEF BeginFetch, ExpiredInv, Fresh
  <2>3. CASE Store(q)
    BY <1>0, <2>3, KeyCacheAssumption DEF Store, ExpiredInv, Fetching
  <2>4. CASE FailFetch(q)
    BY <1>0, <2>4 DEF FailFetch, ExpiredInv
  <2>5. CASE Expire(q)
    BY <1>0, <2>5 DEF Expire, ExpiredInv
  <2> QED BY <1>1, <2>1, <2>2, <2>3, <2>4, <2>5 DEF Verify
<1>2. CASE \E q \in Bearers : \E i \in Issuers, k \in Kids : Arrive(q, i, k)
  BY <1>0, <1>2 DEF Arrive, ExpiredInv, Fresh
<1>3. CASE \E i \in Issuers, keys \in SUBSET Kids : Rotate(i, keys)
  BY <1>0, <1>3 DEF Rotate, ExpiredInv, Fresh
<1>4. CASE KeyTick
  BY <1>0, <1>4 DEF KeyTick, Advance, ExpiredInv, Fresh
<1> QED BY <1>1, <1>2, <1>3, <1>4 DEF KeyNext

\* Before the first request nothing is cached, known or locked.
LEMMA KeyInitially == KeyInit => KeyInv
<1> SUFFICES ASSUME KeyInit
             PROVE  KeyInv
  OBVIOUS
<1>1. NoBearer \in Bearer /\ NoBearer.at = 0
  <2>1. (CHOOSE k \in Kids : TRUE) \in Kids /\ SomeIssuer \in Issuers
    BY KeyCacheAssumption DEF SomeIssuer
  <2> QED BY <2>1 DEF NoBearer, NewBearer, Bearer
<1>2. KeyTypeOK
  <2>1. /\ left \in [Issuers -> [Kids -> 0 .. now]] /\ now \in 0 .. MaxTime
        /\ jwksExpiry \in 0 .. now + CacheTTL /\ jwksFrom \in Issuers
    BY KeyCacheAssumption, MaxTimeIsNatural DEF KeyInit, SomeIssuer
  <2>2. stage \in [Bearers -> KeySteps] /\ bearer \in [Bearers -> Bearer]
    BY <1>1, StepsAre DEF KeyInit
  <2> QED BY <1>1, <2>1, <2>2, KeyCacheAssumption DEF KeyInit, KeyTypeOK
<1> QED BY <1>1, <1>2 DEF KeyInit, KeyInv, AgeInv, KeysOf, Fetching, KnownInv, WillFind,
        PublishedKeyIsKnown, ExpiredInv

\* No step, and no stutter, disturbs the invariant.
LEMMA KeyInductive ==
    ASSUME KeyInv, [KeyNext]_keyVars
    PROVE  KeyInv'
<1>1. CASE KeyNext
  BY <1>1, KeyTypeInductive, AgeInductive, KnownInductive, ExpiredInductive DEF KeyInv
<1>2. CASE UNCHANGED keyVars
  BY <1>2 DEF keyVars, KeyInv, KeyTypeOK, AgeInv, KeysOf, KnownInv, WillFind,
     PublishedKeyIsKnown, ExpiredInv, Fresh
<1> QED BY <1>1, <1>2

\* The cache and its lock, types and histories together.
LEMMA KeyInvariant == KeySpec => []KeyInv
BY KeyInitially, KeyInductive, PTL DEF KeySpec

\* However requests of any issuers prolong, expire and refill the one cache, a key is
\* accepted out of the answer of a provider that has withdrawn it for less than the life
\* of the cache and one fetch.
THEOREM RetiredKeysAreDropped == KeySpec => []RetiredKeyBound
<1>1. KeyInv => RetiredKeyBound
  BY DEF KeyInv, AgeInv, KeysOf, RetiredKeyBound
<1> QED BY <1>1, KeyInvariant, PTL

\* However many requests expire the cache under each other's feet, a token whose issuer
\* published its key all along is refused only over the keys of another issuer.
THEOREM PublishedKeysAreKnown == KeySpec => []PublishedKeyIsKnown
<1>1. KeyInv => PublishedKeyIsKnown
  BY DEF KeyInv, KnownInv
<1> QED BY <1>1, KeyInvariant, PTL

\* Whoever waits for the lock, the cache is refilled only when it has expired or was
\* expired by a request.
THEOREM OneFetches == KeySpec => FetchedOnce
<1>1. ASSUME KeyInv, [KeyNext]_keyVars PROVE [jwksExpiry' > jwksExpiry => ~Fresh]_keyVars
  BY <1>1, ExpiredInductive DEF KeyInv
<1> QED BY <1>1, KeyInvariant, PTL DEF KeySpec, FetchedOnce

-----------------------------------------------------------------------------
(* The layout transaction *)

\* What a transaction has written and has to write is what its layout named, and a
\* request without a transaction has written nothing.
LoopInv ==
    /\ phase \in [Clients -> {"idle", "open"}]
    /\ layout \in [Clients -> Seq(Places)]
    /\ written \in [Clients -> SUBSET Places]
    /\ named \in [Clients -> SUBSET Places]
    /\ \A c \in Clients : named[c] = written[c] \cup Range(layout[c])
    /\ \A c \in Clients : phase[c] = "idle" => written[c] = {}

-----------------------------------------------------------------------------

\* The rooms of a layout are its first one and those of the rest.
LEMMA RangeOfHeadAndTail ==
    ASSUME NEW s \in Seq(Places), s # <<>>
    PROVE  /\ Head(s) \in Places
           /\ Tail(s) \in Seq(Places)
           /\ Range(s) = {Head(s)} \cup Range(Tail(s))
<1>1. Len(s) \in Nat \ {0} /\ DOMAIN s = 1 .. Len(s) /\ Head(s) = s[1]
  OBVIOUS
<1>2. Len(Tail(s)) = Len(s) - 1 /\ \A i \in 1 .. Len(s) - 1 : Tail(s)[i] = s[i + 1]
  OBVIOUS
<1>3. DOMAIN Tail(s) = 1 .. Len(s) - 1
  BY <1>1, <1>2
<1>4. ASSUME NEW x \in Range(s)
      PROVE  x \in {Head(s)} \cup Range(Tail(s))
  <2>1. PICK i \in 1 .. Len(s) : x = s[i]
    BY <1>1, <1>4 DEF Range
  <2>2. CASE i = 1
    BY <1>1, <2>1, <2>2
  <2>3. CASE i # 1
    <3>1. i - 1 \in 1 .. Len(s) - 1 /\ Tail(s)[i - 1] = x
      BY <1>1, <1>2, <2>1, <2>3
    <3> QED BY <1>3, <3>1 DEF Range
  <2> QED BY <2>2, <2>3
<1>5. ASSUME NEW x \in {Head(s)} \cup Range(Tail(s))
      PROVE  x \in Range(s)
  <2>1. CASE x = Head(s)
    BY <1>1, <2>1 DEF Range
  <2>2. CASE x \in Range(Tail(s))
    <3>1. PICK i \in 1 .. Len(s) - 1 : x = s[i + 1]
      BY <1>2, <1>3, <2>2 DEF Range
    <3> QED BY <1>1, <3>1 DEF Range
  <2> QED BY <2>1, <2>2
<1> QED BY <1>4, <1>5

\* An empty layout names no room, any other only rooms.
LEMMA RangeOfLayout ==
    /\ Range(<<>>) = {}
    /\ \A s \in Seq(Places) : Range(s) \subseteq Places
  BY DEF Range

\* A transaction that ends holds nothing and has nothing to do.
LEMMA EndKeepsLoop ==
    ASSUME LoopInv, NEW c \in Clients, End(c)
    PROVE  LoopInv'
<1>1. \A d \in Clients \ {c} :
          /\ layout'[d] = layout[d] /\ written'[d] = written[d]
          /\ named'[d] = named[d] /\ phase'[d] = phase[d]
  BY DEF End, LoopInv
<1>2. layout'[c] = <<>> /\ written'[c] = {} /\ named'[c] = {}
  BY DEF End, LoopInv
<1>3. layout' \in [Clients -> Seq(Places)] /\ written' \in [Clients -> SUBSET Places]
      /\ named' \in [Clients -> SUBSET Places] /\ phase' \in [Clients -> {"idle", "open"}]
  BY DEF End, LoopInv
<1> QED BY <1>1, <1>2, <1>3, RangeOfLayout DEF LoopInv

\* Every step keeps what is written and what is left of a layout together.
LEMMA LoopInductive ==
    ASSUME LoopInv, LayoutNext
    PROVE  LoopInv'
<1>1. ASSUME NEW c \in Clients, NEW s \in Layouts, BeginTx(c, s)
      PROVE  LoopInv'
  <2>1. s \in Seq(Places) /\ Range(s) \subseteq Places
    BY LayoutAssumption, RangeOfLayout
  <2>2. layout'[c] = s /\ named'[c] = Range(s) /\ written'[c] = {} /\ phase'[c] = "open"
    BY <1>1 DEF BeginTx, LoopInv
  <2>3. \A d \in Clients \ {c} : /\ layout'[d] = layout[d] /\ named'[d] = named[d]
                                 /\ written'[d] = written[d] /\ phase'[d] = phase[d]
    BY <1>1 DEF BeginTx, LoopInv
  <2>4. /\ layout' \in [Clients -> Seq(Places)] /\ named' \in [Clients -> SUBSET Places]
        /\ written' = written /\ phase' \in [Clients -> {"idle", "open"}]
    BY <1>1, <2>1 DEF BeginTx, LoopInv
  <2> QED BY <2>2, <2>3, <2>4 DEF LoopInv
<1>2. ASSUME NEW c \in Clients, UpdateRoomLayout(c)
      PROVE  LoopInv'
  <2>1. layout[c] \in Seq(Places) /\ layout[c] # <<>>
    BY <1>2 DEF UpdateRoomLayout, LoopInv
  <2>2. Head(layout[c]) \in Places /\ Tail(layout[c]) \in Seq(Places)
        /\ Range(layout[c]) = {Head(layout[c])} \cup Range(Tail(layout[c]))
    BY <2>1, RangeOfHeadAndTail
  <2>3. layout'[c] = Tail(layout[c]) /\ written'[c] = written[c] \cup {Head(layout[c])}
        /\ named' = named /\ phase' = phase /\ phase[c] = "open"
        /\ \A d \in Clients \ {c} : layout'[d] = layout[d] /\ written'[d] = written[d]
    BY <1>2 DEF UpdateRoomLayout, LoopInv
  <2>4. layout' \in [Clients -> Seq(Places)] /\ written' \in [Clients -> SUBSET Places]
    BY <1>2, <2>2 DEF UpdateRoomLayout, LoopInv
  <2> QED BY <2>2, <2>3, <2>4 DEF LoopInv
<1>3. ASSUME NEW c \in Clients, Commit(c) \/ Rollback(c) \/ AbortDeadlocked(c)
      PROVE  LoopInv'
  BY <1>3, EndKeepsLoop DEF Commit, Rollback, AbortDeadlocked
<1>4. ASSUME NEW r \in Places, EditRoom(r)
      PROVE  LoopInv'
  BY <1>4 DEF EditRoom, LoopInv
<1> QED BY <1>1, <1>2, <1>3, <1>4 DEF LayoutNext

\* Of all steps only a commit and an edit move rooms, and a commit moves all the rooms
\* its layout named.
LEMMA StepIsAtomic ==
    ASSUME LoopInv, LayoutNext
    PROVE  AtomicStep \/ UNCHANGED grid
<1>1. ASSUME NEW c \in Clients, Commit(c)
      PROVE  AtomicStep
  <2>1. named[c] = written[c]
    BY <1>1, RangeOfLayout DEF Commit, LoopInv
  <2> QED BY <1>1, <2>1 DEF Commit, AtomicStep
<1>2. ASSUME NEW r \in Places, EditRoom(r)
      PROVE  AtomicStep
  BY <1>2 DEF EditRoom, AtomicStep
<1> QED BY <1>1, <1>2
    DEF LayoutNext, BeginTx, UpdateRoomLayout, Rollback, AbortDeadlocked

-----------------------------------------------------------------------------

\* Whatever layouts and edits are under way, and wherever one fails or is aborted: rooms
\* move by a whole layout or by an edit of one room.
THEOREM LayoutsAreWhole == LayoutSpec => LayoutIsWhole
<1>1. LayoutInit => LoopInv
  <2> SUFFICES ASSUME LayoutInit
               PROVE  LoopInv
    OBVIOUS
  <2>1. <<>> \in Seq(Places)
    OBVIOUS
  <2> QED BY <2>1, RangeOfLayout DEF LayoutInit, LoopInv
<1>2. LoopInv /\ [LayoutNext]_layoutVars => LoopInv'
  BY LoopInductive DEF layoutVars, LoopInv
<1>3. LoopInv /\ [LayoutNext]_layoutVars => [AtomicStep]_grid
  BY StepIsAtomic DEF layoutVars
<1> QED BY <1>1, <1>2, <1>3, PTL DEF LayoutSpec, LayoutIsWhole

-----------------------------------------------------------------------------
(* Both: the locks of rows, and the types *)

\* No row is locked by two transactions.
LockedOnce == \A c, d \in Clients : c # d => written[c] \cap written[d] = {}

GridTyped == grid \in [Places -> Clients \cup {Edit, Origin}]

RowInv == LoopInv /\ LockedOnce /\ GridTyped

\* A row is written by the transaction that has its lock, or by none and an edit.
LEMMA RowInductive ==
    ASSUME RowInv, LayoutNext
    PROVE  RowInv'
<1>1. LoopInv'
  BY LoopInductive DEF RowInv
<1>2. ASSUME NEW c \in Clients, End(c)
      PROVE  LockedOnce'
  <2>1. written'[c] = {} /\ \A d \in Clients \ {c} : written'[d] = written[d]
    BY <1>2 DEF End, RowInv, LoopInv
  <2> QED BY <2>1 DEF RowInv, LockedOnce
<1>3. ASSUME NEW c \in Clients, UpdateRoomLayout(c)
      PROVE  LockedOnce'
  <2> DEFINE r == Head(layout[c])
  <2>1. /\ written'[c] = written[c] \cup {r}
        /\ \A d \in Clients \ {c} : written'[d] = written[d] /\ r \notin written[d]
    BY <1>3 DEF UpdateRoomLayout, HeldByOther, RowInv, LoopInv
  <2> HIDE DEF r
  <2> QED BY <2>1 DEF RowInv, LockedOnce
<1>4. ASSUME NEW c \in Clients, Commit(c)
      PROVE  GridTyped'
  BY <1>4 DEF Commit, RowInv, GridTyped
<1>5. ASSUME NEW r \in Places, EditRoom(r)
      PROVE  GridTyped' /\ LockedOnce'
  BY <1>5 DEF EditRoom, RowInv, GridTyped, LockedOnce
<1>6. UNCHANGED grid => GridTyped'
  BY DEF RowInv, GridTyped
<1>7. UNCHANGED written => LockedOnce'
  BY DEF RowInv, LockedOnce
<1>8. LockedOnce'
  BY <1>2, <1>3, <1>5, <1>7 DEF LayoutNext, BeginTx, Commit, Rollback, AbortDeadlocked
<1>9. GridTyped'
  BY <1>4, <1>5, <1>6 DEF LayoutNext, BeginTx, UpdateRoomLayout, Rollback, AbortDeadlocked
<1> QED BY <1>1, <1>8, <1>9 DEF RowInv

\* Before the first request no row is locked, and a stutter locks none.
LEMMA RowInitially == LayoutInit => RowInv
<1> SUFFICES ASSUME LayoutInit
             PROVE  RowInv
  OBVIOUS
<1>1. <<>> \in Seq(Places)
  OBVIOUS
<1> QED BY <1>1, RangeOfLayout DEF LayoutInit, RowInv, LoopInv, LockedOnce, GridTyped

\* The write lock of the key cache is held by the one request that fetches, and the
\* lock of a row by the one transaction that has written it, with any numbers of both.
THEOREM LocksAreExclusive == Spec => []TypeOK
<1> DEFINE Inv == KeyInv /\ RowInv
<1>1. Init => Inv
  BY KeyInitially, RowInitially DEF Init
<1>2. ASSUME Inv, [Next]_<<keyVars, layoutVars, moving>>
      PROVE  Inv'
  <2>1. ASSUME UNCHANGED layoutVars
        PROVE  RowInv'
    BY <1>2, <2>1 DEF layoutVars, RowInv, LoopInv, LockedOnce, GridTyped
  <2>2. ASSUME [KeyNext]_keyVars
        PROVE  KeyInv'
    BY <1>2, <2>2, KeyInductive
  <2>3. CASE MoveKeys
    BY <2>1, <2>2, <2>3 DEF MoveKeys
  <2>4. CASE MoveLayout
    BY <1>2, <2>2, <2>4, RowInductive DEF MoveLayout
  <2>5. CASE UNCHANGED <<keyVars, layoutVars, moving>>
    BY <2>1, <2>2, <2>5
  <2> QED BY <1>2, <2>3, <2>4, <2>5 DEF Next
<1>3. Inv => TypeOK
  BY DEF KeyInv, RowInv, LoopInv, LockedOnce, GridTyped, TypeOK, LayoutTypeOK
<1> HIDE DEF Inv
<1> QED BY <1>1, <1>2, <1>3, PTL DEF Spec
=============================================================================
