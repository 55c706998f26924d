---------------------------- MODULE GatewayProofs ----------------------------
(***************************************************************************)
(* The rate limiter and what goes on behind it, for any numbers of         *)
(* addresses, buckets, users and requests in flight.                       *)
(*                                                                         *)
(* The limiter: any burst, and any time-to-live longer than it takes to    *)
(* fill a bucket.  The clean-up is what makes its promise hard: it may     *)
(* give an address a full bucket.  So the invariant says that a forgotten  *)
(* bucket was full (TakenWhenSeen: it was last taken from about when the   *)
(* address was last seen) and that no request still holds it               *)
(* (HandedIsCurrent, because a request asks its bucket soon:               *)
(* HandedIsRecent).                                                        *)
(*                                                                         *)
(* Registration: the role that a user is told is the role of the row,      *)
(* until the row goes.  PeopleTypeOK /\ RoleKept is inductive.  The case   *)
(* that matters is the upsert: where there is no row, RoleKept says that   *)
(* nobody has been told anything, so the role of this request may be the   *)
(* one.                                                                    *)
(*                                                                         *)
(* Outbox: notifications and the statuses a ticket has had only grow, and  *)
(* a request that speaks of a status has set it before.  An insert links   *)
(* the profile it refers to, and a linked profile is not deleted.          *)
(***************************************************************************)
EXTENDS MCGateway, TLAPS

-----------------------------------------------------------------------------
(* The rate limiter *)

\* A request that has been handed a bucket asks the one that every later request of
\* its address will ask.
HandedIsCurrent ==
    \A c \in Callers :
        handed[c] # NoBucket => limiters[handed[c].address] = handed[c].bucket

HandedIsRecent ==
    \A c \in Callers :
        handed[c] # NoBucket =>
            /\ handed[c].at <= lastSeen[handed[c].address]
            /\ now <= handed[c].at + MaxGap

TakenWhenSeen ==
    \A a \in Addresses :
        limiters[a] # NoBucket => bucket[limiters[a]].last <= lastSeen[a] + MaxGap

\* What an address can have at once: an address without a bucket, a full one.
Left(a) == IF limiters[a] = NoBucket THEN Burst ELSE Level(limiters[a])

\* Requests let through and tokens left stay within the budget together.
BudgetOf(a) ==
    IF now >= windowStart
    THEN admitted[a] + Left(a) <= Burst + (now - windowStart)
    ELSE admitted[a] = 0

BudgetInv == \A a \in Addresses : BudgetOf(a)

LimiterInv == LimiterTypeOK /\ HandedIsCurrent /\ HandedIsRecent /\ TakenWhenSeen /\ BudgetInv

-----------------------------------------------------------------------------

\* A bucket holds between none and Burst tokens.
LEMMA LevelIsBounded ==
    ASSUME LimiterTypeOK, NEW b \in Buckets
    PROVE  Level(b) \in 0 .. Burst
  BY RateLimiterAssumption DEF LimiterTypeOK, Bucket, Level

\* And so does what an address can have at once.
LEMMA LeftIsBounded ==
    ASSUME LimiterTypeOK, NEW a \in Addresses
    PROVE  Left(a) \in 0 .. Burst
  BY LevelIsBounded, RateLimiterAssumption DEF LimiterTypeOK, Left

\* The same of the state after a step.
LEMMA LeftIsBoundedNext ==
    ASSUME LimiterTypeOK', NEW a \in Addresses
    PROVE  Left(a)' \in 0 .. Burst
  BY RateLimiterAssumption DEF LimiterTypeOK, Left, Bucket, Level

\* Whatever the middleware and the clean-up do, buckets and stamps stay typed and no
\* two addresses come to share a bucket.
LEMMA TypeInductive ==
    ASSUME LimiterTypeOK, LimiterNext
    PROVE  LimiterTypeOK'
<1> USE RateLimiterAssumption, NoBucketIsNotHanded, MaxTimeIsNatural
<1>1. ASSUME NEW c \in Callers, NEW a \in Addresses, NEW b \in Buckets, Get(c, a, b)
      PROVE  LimiterTypeOK'
  <2> USE <1>1
  <2>1. [tokens |-> Burst, last |-> now] \in Bucket
    BY DEF LimiterTypeOK, Bucket
  <2>2. bucket' \in [Buckets -> Bucket]
    BY <2>1 DEF Get, NewLimiter, LimiterTypeOK
  <2>3. \A d \in Buckets : bucket'[d].last <= now
    BY DEF Get, NewLimiter, LimiterTypeOK
  <2>4. handed' \in [Callers -> Handed \cup {NoBucket}]
    BY DEF Get, LimiterTypeOK, Handed
  <2>5. \A a1, a2 \in Addresses :
           limiters'[a1] = limiters'[a2] /\ a1 # a2 => limiters'[a1] = NoBucket
    BY DEF Get, NewLimiter, Unused, LimiterTypeOK
  <2>6. lastSeen' \in [Addresses -> 0 .. now]
    BY DEF Get, LimiterTypeOK
  <2> QED BY <2>2, <2>3, <2>4, <2>5, <2>6 DEF Get, LimiterTypeOK
<1>2. ASSUME NEW c \in Callers, Allow(c)
      PROVE  LimiterTypeOK'
  <2> USE <1>2
  <2>1. handed[c] \in Handed
    BY DEF Allow, LimiterTypeOK
  <2> DEFINE b == handed[c].bucket
  <2>2. b \in Buckets /\ handed[c].address \in Addresses
    BY <2>1 DEF Handed
  <2>3. Level(b) \in 0 .. Burst /\ Level(b) > 0
    BY <2>2, LevelIsBounded DEF Allow, Take
  <2>4. bucket' \in [Buckets -> Bucket] /\ \A d \in Buckets : bucket'[d].last <= now
    BY <2>2, <2>3 DEF Allow, Take, LimiterTypeOK, Bucket
  <2>5. admitted' \in [Addresses -> Nat] /\ handed' \in [Callers -> Handed \cup {NoBucket}]
    BY <2>2 DEF Allow, LimiterTypeOK
  <2> QED BY <2>4, <2>5 DEF Allow, LimiterTypeOK
<1>3. ASSUME NEW c \in Callers, Refuse(c)
      PROVE  LimiterTypeOK'
  BY <1>3 DEF Refuse, LimiterTypeOK
<1>4. CASE Cleanup
  BY <1>4 DEF Cleanup, LimiterTypeOK
<1>5. CASE LimiterTick
  <2>1. now' \in 0 .. MaxTime /\ now < now'
    BY <1>5 DEF LimiterTick, Advance, LimiterTypeOK
  <2>2. lastSeen' \in [Addresses -> 0 .. now']
    BY <1>5, <2>1 DEF LimiterTick, LimiterTypeOK
  <2>3. bucket' \in [Buckets -> Bucket] /\ \A b \in Buckets : bucket'[b].last <= now'
    BY <1>5, <2>1 DEF LimiterTick, LimiterTypeOK, Bucket
  <2> QED BY <1>5, <2>1, <2>2, <2>3 DEF LimiterTick, LimiterTypeOK
<1> QED BY <1>1, <1>2, <1>3, <1>4, <1>5 DEF LimiterNext

-----------------------------------------------------------------------------

\* The clean-up forgets no address while a request holds its bucket, and a request that
\* gets one never changes that of another.
LEMMA HandedInductive ==
    ASSUME LimiterTypeOK, HandedIsCurrent, HandedIsRecent, LimiterNext
    PROVE  HandedIsCurrent' /\ HandedIsRecent'
<1> USE RateLimiterAssumption, NoBucketIsNotHanded, MaxTimeIsNatural
<1>1. \A c \in Callers : handed[c] # NoBucket =>
          /\ handed[c].address \in Addresses
          /\ handed[c].bucket \in Buckets
          /\ handed[c].at \in Nat
  BY DEF LimiterTypeOK, Handed
<1>2. now \in Nat /\ \A a \in Addresses : lastSeen[a] \in Nat /\ lastSeen[a] <= now
  BY DEF LimiterTypeOK
<1>3. ASSUME NEW c \in Callers, NEW a \in Addresses, NEW b \in Buckets, Get(c, a, b)
      PROVE  HandedIsCurrent' /\ HandedIsRecent'
  <2>1. \A d \in Callers \ {c} : handed'[d] = handed[d]
    BY <1>3 DEF Get, LimiterTypeOK
  <2>2. handed'[c] = [address |-> a, bucket |-> b, at |-> now]
    BY <1>3 DEF Get, LimiterTypeOK
  <2>3. limiters' = [limiters EXCEPT ![a] = b] /\ lastSeen' = [lastSeen EXCEPT ![a] = now]
        /\ now' = now
    BY <1>3 DEF Get
  <2>4. limiters[a] = NoBucket \/ limiters[a] = b
    BY <1>3 DEF Get, NewLimiter
  <2>5. HandedIsCurrent'
    BY <1>1, <2>1, <2>2, <2>3, <2>4 DEF HandedIsCurrent, LimiterTypeOK
  <2>6. HandedIsRecent'
    BY <1>1, <1>2, <2>1, <2>2, <2>3 DEF HandedIsRecent, LimiterTypeOK
  <2> QED BY <2>5, <2>6
<1>4. ASSUME NEW c \in Callers, Allow(c) \/ Refuse(c)
      PROVE  HandedIsCurrent' /\ HandedIsRecent'
  <2>1. \A d \in Callers : handed'[d] = handed[d] \/ handed'[d] = NoBucket
    BY <1>4 DEF Allow, Refuse, LimiterTypeOK
  <2> QED BY <1>4, <2>1 DEF Allow, Refuse, HandedIsCurrent, HandedIsRecent
<1>5. CASE Cleanup
  <2>1. \A c \in Callers : handed[c] # NoBucket => ~Idle(handed[c].address)
    BY <1>1, <1>2 DEF HandedIsRecent, Idle
  <2> QED BY <1>5, <1>1, <2>1 DEF Cleanup, HandedIsCurrent, HandedIsRecent
<1>6. CASE LimiterTick
  BY <1>6, <1>1, <1>2 DEF LimiterTick, Advance, HandedIsCurrent, HandedIsRecent
<1> QED BY <1>3, <1>4, <1>5, <1>6 DEF LimiterNext

\* A bucket is taken from no later than MaxGap after its address was seen.
LEMMA TakenInductive ==
    ASSUME LimiterTypeOK, HandedIsCurrent, HandedIsRecent, TakenWhenSeen, LimiterNext
    PROVE  TakenWhenSeen'
<1> USE RateLimiterAssumption, NoBucketIsNotHanded, MaxTimeIsNatural
<1>1. now \in Nat /\ \A a \in Addresses : lastSeen[a] \in Nat /\ lastSeen[a] <= now
  BY DEF LimiterTypeOK
<1>2. \A b \in Buckets : bucket[b].last \in Nat /\ bucket[b].last <= now
  BY DEF LimiterTypeOK, Bucket
<1>3. ASSUME NEW c \in Callers, NEW a \in Addresses, NEW b \in Buckets, Get(c, a, b)
      PROVE  TakenWhenSeen'
  <2>1. limiters' = [limiters EXCEPT ![a] = b] /\ lastSeen' = [lastSeen EXCEPT ![a] = now]
    BY <1>3 DEF Get
  <2>2. bucket'[b].last <= now /\ bucket'[b].last \in Nat
    BY <1>1, <1>2, <1>3 DEF Get, NewLimiter, LimiterTypeOK
  <2>3. \A e \in Addresses \ {a} : limiters[e] # NoBucket =>
            bucket'[limiters[e]] = bucket[limiters[e]]
    BY <1>3 DEF Get, NewLimiter, Unused, LimiterTypeOK
  <2> QED BY <1>1, <2>1, <2>2, <2>3 DEF TakenWhenSeen, LimiterTypeOK
<1>4. ASSUME NEW c \in Callers, Allow(c)
      PROVE  TakenWhenSeen'
  <2>1. PICK e \in Addresses : e = handed[c].address
    BY <1>4 DEF Allow, LimiterTypeOK, Handed
  <2>2. limiters[e] = handed[c].bucket /\ limiters[e] \in Buckets
    BY <1>4, <2>1 DEF Allow, HandedIsCurrent, LimiterTypeOK, Handed
  <2>3. now <= lastSeen[e] + MaxGap
    <3>1. handed[c].at \in Nat
      BY <1>4 DEF Allow, LimiterTypeOK, Handed
    <3> QED BY <1>1, <1>4, <2>1, <3>1 DEF Allow, HandedIsRecent
  <2>4. bucket'[limiters[e]].last = now
        /\ \A b \in Buckets \ {limiters[e]} : bucket'[b] = bucket[b]
    BY <1>4, <2>2 DEF Allow, Take, LimiterTypeOK
  <2>5. limiters' = limiters /\ lastSeen' = lastSeen
    BY <1>4 DEF Allow
  <2>6. \A a \in Addresses : limiters[a] = NoBucket \/ limiters[a] \in Buckets
    BY DEF LimiterTypeOK
  <2>7. \A a \in Addresses : limiters[a] = limiters[e] => a = e
    BY <2>2 DEF LimiterTypeOK
  <2> QED BY <2>3, <2>4, <2>5, <2>6, <2>7 DEF TakenWhenSeen
<1>5. ASSUME NEW c \in Callers, Refuse(c)
      PROVE  TakenWhenSeen'
  BY <1>5 DEF Refuse, TakenWhenSeen
<1>6. CASE Cleanup
  BY <1>6 DEF Cleanup, TakenWhenSeen
<1>7. CASE LimiterTick
  BY <1>7 DEF LimiterTick, TakenWhenSeen
<1> QED BY <1>3, <1>4, <1>5, <1>6, <1>7 DEF LimiterNext

-----------------------------------------------------------------------------

\* A step that leaves the clock, the window and an address's count as they were, and
\* gives it no more than it could have, keeps its budget.
LEMMA LeftUnchanged ==
    ASSUME LimiterTypeOK, LimiterTypeOK', NEW a \in Addresses, BudgetOf(a),
           UNCHANGED <<now, windowStart>>, admitted'[a] = admitted[a], Left(a)' <= Left(a)
    PROVE  BudgetOf(a)'
<1>1. Left(a) \in Nat /\ Left(a)' \in Nat
  BY LeftIsBounded, LeftIsBoundedNext, RateLimiterAssumption
<1>2. admitted[a] \in Nat /\ now \in Nat /\ windowStart \in Nat
  BY MaxTimeIsNatural DEF LimiterTypeOK
<1> QED BY <1>1, <1>2, RateLimiterAssumption DEF BudgetOf

\* No step lets an address have more than its budget.
LEMMA BudgetInductive ==
    ASSUME LimiterInv, LimiterTypeOK', LimiterNext
    PROVE  BudgetInv'
<1> USE RateLimiterAssumption, NoBucketIsNotHanded, MaxTimeIsNatural
<1>a. LimiterTypeOK /\ HandedIsCurrent /\ HandedIsRecent /\ TakenWhenSeen /\ BudgetInv
  BY DEF LimiterInv
<1> USE <1>a
<1>b. SUFFICES ASSUME NEW a \in Addresses
               PROVE  BudgetOf(a)'
  BY DEF BudgetInv
<1>c. BudgetOf(a)
  BY DEF BudgetInv
<1>d. /\ now \in Nat /\ windowStart \in Nat /\ admitted[a] \in Nat
      /\ lastSeen[a] \in Nat
      /\ limiters[a] = NoBucket \/ limiters[a] \in Buckets
      /\ \A b \in Buckets : bucket[b].tokens \in 0 .. Burst /\ bucket[b].last \in Nat
                             /\ bucket[b].last <= now
  BY DEF LimiterTypeOK, Bucket
<1>e. Left(a) \in 0 .. Burst /\ Left(a)' \in 0 .. Burst
  BY LeftIsBounded, LeftIsBoundedNext
<1>1. ASSUME NEW c \in Callers, NEW d \in Addresses, NEW b \in Buckets, Get(c, d, b)
      PROVE  BudgetOf(a)'
  <2>1. UNCHANGED <<now, windowStart>> /\ admitted'[a] = admitted[a]
    BY <1>1 DEF Get
  <2>2. Left(a)' = Left(a)
    <3>1. CASE a # d
      <4>1. limiters'[a] = limiters[a]
        BY <1>1, <3>1 DEF Get, LimiterTypeOK
      <4>2. limiters[a] # NoBucket => bucket'[limiters[a]] = bucket[limiters[a]]
        BY <1>1, <1>d DEF Get, NewLimiter, Unused, LimiterTypeOK
      <4> QED BY <2>1, <4>1, <4>2 DEF Left, Level
    <3>2. CASE a = d /\ limiters[a] = NoBucket
      <4>1. limiters'[a] = b /\ bucket'[b] = [tokens |-> Burst, last |-> now]
        BY <1>1, <3>2 DEF Get, NewLimiter, LimiterTypeOK
      <4> QED BY <1>d, <2>1, <3>2, <4>1 DEF Left, Level
    <3>3. CASE a = d /\ limiters[a] # NoBucket
      <4>1. limiters'[a] = limiters[a] /\ bucket' = bucket
        BY <1>1, <3>3 DEF Get, NewLimiter, LimiterTypeOK
      <4> QED BY <2>1, <4>1 DEF Left, Level
    <3> QED BY <3>1, <3>2, <3>3
  <2> QED BY <1>c, <1>e, <2>1, <2>2, LeftUnchanged
<1>2. ASSUME NEW c \in Callers, Allow(c)
      PROVE  BudgetOf(a)'
  <2>0. PICK e \in Addresses, b \in Buckets :
            e = handed[c].address /\ b = handed[c].bucket
    BY <1>2 DEF Allow, LimiterTypeOK, Handed
  <2>1. limiters[e] = b
    BY <1>2, <2>0 DEF Allow, HandedIsCurrent
  <2>2. UNCHANGED <<now, windowStart, limiters>>
    BY <1>2 DEF Allow
  <2>3. Level(b) > 0 /\ bucket'[b] = [tokens |-> Level(b) - 1, last |-> now]
        /\ \A d \in Buckets \ {b} : bucket'[d] = bucket[d]
    BY <1>2, <2>0 DEF Allow, Take, LimiterTypeOK
  <2>4. CASE a = e
    <3>1. Left(a) = Level(b)
      BY <2>1, <2>4 DEF Left
    <3>2. Left(a)' = Level(b) - 1
      <4>1. Left(a)' = Level(b)'
        BY <2>1, <2>2, <2>4 DEF Left
      <4>2. Level(b) \in 0 .. Burst
        BY LevelIsBounded
      <4>3. Level(b)' = IF Level(b) - 1 + (now - now) > Burst THEN Burst
                        ELSE Level(b) - 1 + (now - now)
        BY <2>2, <2>3 DEF Level
      <4> QED BY <1>d, <4>1, <4>2, <4>3
    <3>3. admitted'[a] = IF now >= windowStart THEN admitted[a] + 1 ELSE admitted[a]
      BY <1>2, <2>0, <2>4 DEF Allow, LimiterTypeOK
    <3> QED BY <1>c, <1>d, <1>e, <2>2, <3>1, <3>2, <3>3 DEF BudgetOf
  <2>5. CASE a # e
    <3>1. limiters[a] # NoBucket => limiters[a] \in Buckets \ {b}
      BY <1>d, <2>1, <2>5 DEF LimiterTypeOK
    <3>2. Left(a)' = Left(a)
      BY <2>2, <2>3, <3>1 DEF Left, Level
    <3>3. admitted'[a] = admitted[a]
      BY <1>2, <2>0, <2>5 DEF Allow, LimiterTypeOK
    <3> QED BY <1>c, <1>e, <2>2, <3>2, <3>3, LeftUnchanged
  <2> QED BY <2>4, <2>5
<1>3. ASSUME NEW c \in Callers, Refuse(c)
      PROVE  BudgetOf(a)'
  BY <1>3, <1>c DEF Refuse, BudgetOf, Left, Level
<1>4. CASE Cleanup
  <2>1. UNCHANGED <<now, windowStart, bucket, admitted>>
    BY <1>4 DEF Cleanup
  <2>2. limiters'[a] = IF Idle(a) THEN NoBucket ELSE limiters[a]
    BY <1>4 DEF Cleanup, LimiterTypeOK
  <2>3. CASE Idle(a) /\ limiters[a] # NoBucket
    <3>1. now - bucket[limiters[a]].last >= Burst
      <4>1. bucket[limiters[a]].last <= lastSeen[a] + MaxGap
        BY <2>3 DEF TakenWhenSeen
      <4>2. now - lastSeen[a] > IdleTTL
        BY <2>3 DEF Idle
      <4>3. bucket[limiters[a]].last \in Nat
        BY <1>d, <2>3
      <4> QED BY <1>d, <4>1, <4>2, <4>3
    <3>2. Left(a) = Burst
      BY <1>d, <2>3, <3>1 DEF Left, Level
    <3> QED BY <1>c, <1>e, <2>1, <3>2, LeftUnchanged
  <2>4. CASE ~Idle(a) \/ limiters[a] = NoBucket
    <3>1. Left(a)' = Left(a)
      BY <2>1, <2>2, <2>4 DEF Left, Level
    <3> QED BY <1>c, <1>e, <2>1, <3>1, LeftUnchanged
  <2> QED BY <2>3, <2>4
<1>5. CASE LimiterTick
  <2>1. now' = now + 1 /\ UNCHANGED <<windowStart, bucket, admitted, limiters>>
    BY <1>5 DEF LimiterTick, Advance
  <2>2. Left(a)' <= Left(a) + 1
    <3>1. CASE limiters[a] = NoBucket
      BY <2>1, <3>1 DEF Left
    <3>2. CASE limiters[a] \in Buckets
      BY <1>d, <2>1, <3>2 DEF Left, Level
    <3> QED BY <1>d, <3>1, <3>2
  <2> QED BY <1>c, <1>d, <1>e, <2>1, <2>2 DEF BudgetOf
<1> QED BY <1>1, <1>2, <1>3, <1>4, <1>5 DEF LimiterNext

-----------------------------------------------------------------------------

\* Before the first request every bucket is full.
LEMMA LimiterInitially == LimiterInit => LimiterInv
<1> SUFFICES ASSUME LimiterInit
             PROVE  LimiterInv
  OBVIOUS
<1>1. LimiterTypeOK
  BY RateLimiterAssumption, MaxTimeIsNatural DEF LimiterInit, LimiterTypeOK, Bucket
<1>2. HandedIsCurrent /\ HandedIsRecent /\ TakenWhenSeen
  BY DEF LimiterInit, HandedIsCurrent, HandedIsRecent, TakenWhenSeen
<1>3. BudgetInv
  <2> SUFFICES ASSUME NEW a \in Addresses
               PROVE  BudgetOf(a)
    BY DEF BudgetInv
  <2>1. now = 0 /\ windowStart \in Nat /\ admitted[a] = 0 /\ Left(a) = Burst
    BY MaxTimeIsNatural DEF LimiterInit, Left
  <2> QED BY <2>1, RateLimiterAssumption DEF BudgetOf
<1> QED BY <1>1, <1>2, <1>3 DEF LimiterInv

\* No step, and no stutter, disturbs the invariant.
LEMMA LimiterInductive ==
    ASSUME LimiterInv, [LimiterNext]_limiterVars
    PROVE  LimiterInv'
<1>1. CASE LimiterNext
  BY <1>1, TypeInductive, HandedInductive, TakenInductive, BudgetInductive
     DEF LimiterInv
<1>2. CASE UNCHANGED limiterVars
  BY <1>2 DEF limiterVars, LimiterInv, LimiterTypeOK, HandedIsCurrent, HandedIsRecent,
     TakenWhenSeen, BudgetInv, BudgetOf, Left, Level
<1> QED BY <1>1, <1>2

\* The invariant holds in every state.
LEMMA LimiterInvariant == LimiterSpec => []LimiterInv
BY LimiterInitially, LimiterInductive, PTL DEF LimiterSpec

\* For any number of addresses and concurrent requests, and whatever the clean-up
\* forgets and when: in any window of time an address gets no more than its burst and
\* one request for each tick of the window.
THEOREM AdmissionIsBounded == LimiterSpec => []WindowBound
<1>1. LimiterInv => WindowBound
  <2> SUFFICES ASSUME LimiterInv, NEW a \in Addresses, now >= windowStart
               PROVE  admitted[a] <= Burst + (now - windowStart)
    BY DEF WindowBound
  <2>1. LimiterTypeOK /\ BudgetOf(a)
    BY DEF LimiterInv, BudgetInv
  <2>2. Left(a) \in Nat
    BY <2>1, LeftIsBounded, RateLimiterAssumption
  <2>3. admitted[a] \in Nat /\ now \in Nat /\ windowStart \in Nat
    BY <2>1, MaxTimeIsNatural DEF LimiterTypeOK
  <2> QED BY <2>1, <2>2, <2>3, RateLimiterAssumption DEF BudgetOf
<1> QED BY <1>1, LimiterInvariant, PTL

-----------------------------------------------------------------------------
(* Registration *)

RoleInv == PeopleTypeOK /\ RoleKept

\* No step of a registration, a rejection or an invitation leaves the types, and no
\* row that another one refers to loses its user.
LEMMA PeopleTypeInductive ==
    ASSUME PeopleTypeOK, PeopleNext
    PROVE  PeopleTypeOK'
<1> USE PeopleAssumption
<1>0. NoRequest \in Request
  BY DEF NoRequest, Request, Roles
<1>1. ASSUME NEW u \in Users, RegisterKnown(u)
      PROVE  PeopleTypeOK'
  BY <1>1 DEF RegisterKnown, Registered, PeopleTypeOK
<1>2. ASSUME NEW u \in Users, Invite(u)
      PROVE  PeopleTypeOK'
  BY <1>2 DEF Invite, Registered, PeopleTypeOK
<1>3. ASSUME NEW q \in Requests, NEW u \in Users, NEW r \in Roles \cup {None},
             RegisterNew(q, u, r)
      PROVE  PeopleTypeOK'
  <2>1. [user |-> u, role |-> IF r = None THEN "tenant" ELSE r] \in Request
    BY DEF Request, Roles
  <2> QED BY <1>3, <2>1 DEF RegisterNew, Begin, PeopleTypeOK, Registered
<1>4. ASSUME NEW q \in Requests, NEW u \in Users, Reject(q, u)
      PROVE  PeopleTypeOK'
  <2>1. [user |-> u, role |-> "tenant"] \in Request
    BY DEF Request, Roles
  <2> QED BY <1>4, <2>1 DEF Reject, Begin, PeopleTypeOK, Registered
<1>5. ASSUME NEW q \in Requests, UpsertProfile(q)
      PROVE  PeopleTypeOK'
  <2>1. req[q].user \in Users /\ req[q].role \in Roles
    BY <1>5 DEF UpsertProfile, PeopleTypeOK, Request
  <2>2. PICK r \in Roles : Upserted(req[q].user, r)
    BY <1>5, <2>1 DEF UpsertProfile, PeopleTypeOK, Registered
  <2>3. profile' \in [Users -> Roles \cup {None}] /\ told' \in [Users -> SUBSET Roles]
    BY <2>1, <2>2 DEF Upserted, PeopleTypeOK
  <2>4. linked' \in SUBSET {u \in Users : Registered(u)'}
    BY <1>5, <2>1, <2>2 DEF UpsertProfile, Upserted, PeopleTypeOK, Registered
  <2> QED BY <1>0, <1>5, <2>3, <2>4 DEF UpsertProfile, Finish, PeopleTypeOK
<1>6. ASSUME NEW q \in Requests, DeleteProfile(q)
      PROVE  PeopleTypeOK'
  <2>1. linked' \in SUBSET {u \in Users : Registered(u)'}
    BY <1>6 DEF DeleteProfile, PeopleTypeOK, Registered
  <2> QED BY <1>0, <1>6, <2>1 DEF DeleteProfile, Finish, PeopleTypeOK
<1>7. ASSUME NEW q \in Requests, Abandon(q)
      PROVE  PeopleTypeOK'
  BY <1>0, <1>7 DEF Abandon, Finish, PeopleTypeOK, Registered
<1> QED BY <1>1, <1>2, <1>3, <1>4, <1>5, <1>6, <1>7 DEF PeopleNext

\* No step tells a user another role than the one its row has, or changes the role
\* of a row after someone was told it.
LEMMA RoleInductive ==
    ASSUME PeopleTypeOK, RoleKept, PeopleNext
    PROVE  RoleKept'
<1> USE PeopleAssumption
<1>1. ASSUME NEW u \in Users, RegisterKnown(u)
      PROVE  RoleKept'
  BY <1>1 DEF RegisterKnown, RoleKept, PeopleTypeOK
<1>2. ASSUME NEW q \in Requests, UpsertProfile(q)
      PROVE  RoleKept'
  <2> DEFINE u == req[q].user
             r == IF Registered(u) THEN profile[u] ELSE req[q].role
  <2>1. u \in Users
    BY <1>2 DEF UpsertProfile, PeopleTypeOK
  <2>2. told[u] \subseteq {r}
    <3>1. CASE Registered(u)
      BY <2>1, <3>1 DEF RoleKept
    <3>2. CASE ~Registered(u)
      BY <2>1, <3>2 DEF RoleKept, Registered, PeopleTypeOK
    <3> QED BY <3>1, <3>2
  <2>3. profile' = [profile EXCEPT ![u] = r] /\ told' = [told EXCEPT ![u] = @ \cup {r}]
    BY <1>2 DEF UpsertProfile, Upserted
  <2> HIDE DEF u, r
  <2> QED BY <2>1, <2>2, <2>3 DEF RoleKept, PeopleTypeOK
<1>3. ASSUME NEW q \in Requests, DeleteProfile(q)
      PROVE  RoleKept'
  BY <1>3 DEF DeleteProfile, RoleKept, PeopleTypeOK
<1>4. CASE UNCHANGED <<profile, told>>
  BY <1>4 DEF RoleKept
<1> QED BY <1>1, <1>2, <1>3, <1>4
    DEF PeopleNext, Invite, RegisterNew, Reject, Abandon

-----------------------------------------------------------------------------

\* Initially nobody is registered, and no step disturbs the invariant.
LEMMA RoleInvariant == PeopleSpec => []RoleInv
<1>1. PeopleInit => RoleInv
  <2>1. NoRequest \in Request
    BY DEF NoRequest, Request, Roles
  <2> QED BY <2>1 DEF PeopleInit, RoleInv, PeopleTypeOK, RoleKept
<1>2. RoleInv /\ [PeopleNext]_peopleVars => RoleInv'
  <2> SUFFICES ASSUME RoleInv, [PeopleNext]_peopleVars
               PROVE  RoleInv'
    OBVIOUS
  <2>1. CASE PeopleNext
    BY <2>1, PeopleTypeInductive, RoleInductive DEF RoleInv
  <2>2. CASE UNCHANGED peopleVars
    BY <2>2 DEF peopleVars, RoleInv, PeopleTypeOK, RoleKept, Registered
  <2> QED BY <2>1, <2>2
<1> QED BY <1>1, <1>2, PTL DEF PeopleSpec

\* Whatever registrations, rejections and invitations race, and however many: as long
\* as a profile stays, everyone who registered its user was told the role it has.
THEOREM RolesAreKept == PeopleSpec => []RoleKept
<1>1. RoleInv => RoleKept
  BY DEF RoleInv
<1> QED BY <1>1, RoleInvariant, PTL

-----------------------------------------------------------------------------
(* Outbox *)

\* What a request that announces or updates a ticket has done so far.
DoneBy(w) ==
    /\ \A u \in work[w].notified : Tell(u, "announcement", work[w].id) \in notes
    /\ step[w] \in {"update", "notify", "mail"} =>
          work[w].tenant \in Users /\ work[w].status \in TicketStatus
    /\ step[w] \in {"notify", "mail"} => work[w].status \in had[work[w].tenant]

\* The news of statuses, and of announcements, is true; a ticket that is not there has
\* had no status.
SaidInv ==
    /\ \A n \in notes \cup mails : n.topic = "update" => n.to \in Users /\ n.about \in had[n.to]
    /\ \A n \in mails : n.topic = "announcement" => n \in notes
    /\ \A u \in Users : ticket[u] = None => had[u] = {}

NewsTyped ==
    /\ ticket \in [Users -> TicketStatus \cup {None}]
    /\ had \in [Users -> SUBSET TicketStatus]
    /\ announced \in 0 .. MaxAnnouncements
    /\ step \in [Writers -> Steps]
    /\ work \in [Writers -> Work]

NewsInv == NewsTyped /\ SaidInv /\ \A w \in Writers : DoneBy(w)

\* The news of a topic.
LEMMA TellsTopic ==
    ASSUME NEW u, NEW topic, NEW about
    PROVE  /\ Tell(u, topic, about).to = u
           /\ Tell(u, topic, about).topic = topic
           /\ Tell(u, topic, about).about = about
BY DEF Tell

\* A request that turns to l with the values r, when notes and statuses only grow, and
\* what it has done by then is done.
LEMMA WriterSteps ==
    ASSUME NewsInv, NEW w \in Writers, NEW l \in Steps, NEW r \in Work,
           step' = [step EXCEPT ![w] = l], work' = [work EXCEPT ![w] = r],
           notes \subseteq notes', SaidInv',
           had' \in [Users -> SUBSET TicketStatus], \A u \in Users : had[u] \subseteq had'[u],
           ticket' \in [Users -> TicketStatus \cup {None}],
           announced' \in 0 .. MaxAnnouncements,
           \A u \in r.notified : Tell(u, "announcement", r.id) \in notes',
           l \in {"update", "notify", "mail"} => r.tenant \in Users /\ r.status \in TicketStatus,
           l \in {"notify", "mail"} => r.status \in had'[r.tenant]
    PROVE  NewsInv'
<1>1. step' \in [Writers -> Steps] /\ work' \in [Writers -> Work]
  BY DEF NewsInv, NewsTyped
<1>2. step'[w] = l /\ work'[w] = r
  BY DEF NewsInv, NewsTyped
<1>3. DoneBy(w)'
  BY <1>2 DEF DoneBy, Tell
<1>4. ASSUME NEW v \in Writers \ {w}
      PROVE  DoneBy(v)'
  <2>1. step'[v] = step[v] /\ work'[v] = work[v] /\ DoneBy(v)
    BY DEF NewsInv, NewsTyped
  <2> QED BY <2>1 DEF DoneBy, Tell
<1> QED BY <1>1, <1>3, <1>4 DEF NewsInv, NewsTyped

\* A step of users, with no request at work.
LEMMA UserSteps ==
    ASSUME NewsInv, UNCHANGED <<step, work>>, notes \subseteq notes', SaidInv',
           had' \in [Users -> SUBSET TicketStatus], \A u \in Users : had[u] \subseteq had'[u],
           ticket' \in [Users -> TicketStatus \cup {None}],
           announced' \in 0 .. MaxAnnouncements
    PROVE  NewsInv'
<1>1. ASSUME NEW v \in Writers
      PROVE  DoneBy(v)'
  BY DEF NewsInv, DoneBy, Tell
<1> QED BY <1>1 DEF NewsInv, NewsTyped

\* An insert, or an attempt at one, adds that notification at most.
LEMMA Inserted ==
    ASSUME NEW n, Insert(n) \/ FailedInsert(n)
    PROVE  notes' = notes \/ notes' = notes \cup {n}
BY DEF FailedInsert, Insert, NoInsert

\* The values of a request that has begun nothing.
LEMMA NoWorkTyped ==
    /\ NoWork \in Work
    /\ NoWork.notified = {}
BY OutboxAssumption DEF NoWork, Work

\* CreateAnnouncement: the row, the targets, the fan-out and the answer.
LEMMA AnnouncementSteps ==
    ASSUME NewsInv, NEW w \in Writers,
           \/ \E o \in Users, asked \in SUBSET Users : CreateAnnouncement(w, o, asked)
           \/ \E u \in Users : ResolveAsked(w, u) \/ NotifyTarget(w, u) \/ SkipTarget(w, u)
           \/ ResolveActive(w) \/ AnswerAnnouncement(w)
    PROVE  NewsInv'
<1>0. /\ work[w] \in Work /\ DoneBy(w)
      /\ work[w].targets \subseteq Users /\ work[w].asked \subseteq Users
  BY DEF NewsInv, NewsTyped, Work
<1>1. UNCHANGED <<ticket, had>> /\ announced' \in 0 .. MaxAnnouncements
  <2>1. announced \in 0 .. MaxAnnouncements
    BY DEF NewsInv, NewsTyped
  <2>2. CASE \E o \in Users, asked \in SUBSET Users : CreateAnnouncement(w, o, asked)
    <3>1. announced < MaxAnnouncements /\ announced' = announced + 1 /\ UNCHANGED <<ticket, had>>
      BY <2>2 DEF CreateAnnouncement
    <3> QED BY <2>1, <3>1, OutboxAssumption
  <2>3. CASE \/ \E u \in Users : ResolveAsked(w, u) \/ NotifyTarget(w, u) \/ SkipTarget(w, u)
             \/ ResolveActive(w) \/ AnswerAnnouncement(w)
    BY <2>1, <2>3 DEF ResolveAsked, NotifyTarget, SkipTarget, ResolveActive, AnswerAnnouncement
  <2> QED BY <2>2, <2>3
<1>2. ASSUME NEW l \in Steps \ {"update", "notify", "mail"}, NEW r \in Work,
             step' = [step EXCEPT ![w] = l], work' = [work EXCEPT ![w] = r],
             notes \subseteq notes', SaidInv',
             \A u \in r.notified : Tell(u, "announcement", r.id) \in notes'
      PROVE  NewsInv'
  BY <1>1, <1>2, WriterSteps DEF NewsInv, NewsTyped
<1>3. UNCHANGED <<notes, mails>> => SaidInv'
  BY <1>1 DEF NewsInv, SaidInv
<1>4. ASSUME NEW o \in Users, NEW asked \in SUBSET Users, CreateAnnouncement(w, o, asked)
      PROVE  NewsInv'
  <2> DEFINE r == [NoWork EXCEPT !.id = announced + 1, !.asked = asked]
  <2>1. r \in Work /\ r.notified = {}
    BY <1>1, <1>4, OutboxAssumption DEF CreateAnnouncement, NoWork, Work, NewsInv, NewsTyped
  <2>2. \E l \in {"asked", "active"} : step' = [step EXCEPT ![w] = l]
    BY <1>4 DEF CreateAnnouncement, Turn
  <2>3. work' = [work EXCEPT ![w] = r] /\ UNCHANGED <<notes, mails>>
    BY <1>4 DEF CreateAnnouncement, Note
  <2> HIDE DEF r
  <2> QED BY <1>2, <1>3, <2>1, <2>2, <2>3 DEF Steps
<1>5. ASSUME NEW u \in Users, ResolveAsked(w, u)
      PROVE  NewsInv'
  <2>1. PICK found \in SUBSET Users :
           work' = [work EXCEPT ![w] = [work[w] EXCEPT !.asked = @ \ {u},
                                                       !.targets = @ \cup found]]
    BY <1>5 DEF ResolveAsked, Note
  <2> DEFINE r == [work[w] EXCEPT !.asked = @ \ {u}, !.targets = @ \cup found]
  <2>2. /\ r \in Work /\ r.notified = work[w].notified /\ r.id = work[w].id
    BY <1>0 DEF Work
  <2>3. \E l \in {"asked", "fan_out"} : step' = [step EXCEPT ![w] = l]
    BY <1>5 DEF ResolveAsked, Turn
  <2>4. work' = [work EXCEPT ![w] = r] /\ UNCHANGED <<notes, mails>>
    BY <1>5, <2>1 DEF ResolveAsked
  <2> HIDE DEF r
  <2>5. \A v \in r.notified : Tell(v, "announcement", r.id) \in notes'
    BY <1>0, <2>2, <2>4 DEF DoneBy
  <2> QED BY <1>2, <1>3, <2>2, <2>3, <2>4, <2>5 DEF Steps
<1>6. ASSUME NEW u \in Users, NotifyTarget(w, u)
      PROVE  NewsInv'
  <2> DEFINE n == Tell(u, "announcement", work[w].id)
             r == [work[w] EXCEPT !.targets = @ \ {u}, !.notified = @ \cup {u}]
  <2>1. /\ r \in Work /\ r.notified = work[w].notified \cup {u} /\ r.id = work[w].id
    BY <1>0 DEF Work
  <2>2. /\ notes' = notes \cup {n} /\ mails' \in {mails, mails \cup {n}}
        /\ n.topic = "announcement"
    <3>1. n.topic = "announcement"
      BY TellsTopic
    <3> QED BY <1>6, <3>1 DEF NotifyTarget, Insert
  <2>3. /\ work' = [work EXCEPT ![w] = r] /\ step' = [step EXCEPT ![w] = "fan_out"]
    BY <1>6 DEF NotifyTarget, Note, At, NewsInv, NewsTyped
  <2>4. \A v \in r.notified : Tell(v, "announcement", r.id) \in notes'
    BY <1>0, <2>1, <2>2 DEF DoneBy
  <2> HIDE DEF n, r
  <2>5. SaidInv'
    BY <1>1, <2>2 DEF NewsInv, SaidInv
  <2> QED BY <1>2, <2>1, <2>2, <2>3, <2>4, <2>5 DEF Steps
<1>7. ASSUME NEW u \in Users, SkipTarget(w, u)
      PROVE  NewsInv'
  <2> DEFINE n == Tell(u, "announcement", work[w].id)
             r == [work[w] EXCEPT !.targets = @ \ {u}]
  <2>1. /\ r \in Work /\ r.notified = work[w].notified /\ r.id = work[w].id
    BY <1>0 DEF Work
  <2>2. /\ notes' = notes \/ notes' = notes \cup {n}
        /\ mails' = mails /\ n.topic = "announcement"
    BY <1>7, TellsTopic, Inserted DEF SkipTarget
  <2>3. /\ work' = [work EXCEPT ![w] = r] /\ step' = [step EXCEPT ![w] = "fan_out"]
    BY <1>7 DEF SkipTarget, Note, At, NewsInv, NewsTyped
  <2>4. \A v \in r.notified : Tell(v, "announcement", r.id) \in notes'
    BY <1>0, <2>1, <2>2 DEF DoneBy
  <2> HIDE DEF n, r
  <2>5. SaidInv'
    BY <1>1, <2>2 DEF NewsInv, SaidInv
  <2> QED BY <1>2, <2>1, <2>2, <2>3, <2>4, <2>5 DEF Steps
<1>8. ASSUME ResolveActive(w)
      PROVE  NewsInv'
  <2> DEFINE r == [work[w] EXCEPT !.targets = ActiveTenants]
  <2>1. /\ r \in Work /\ r.notified = work[w].notified /\ r.id = work[w].id
    BY <1>0 DEF Work, ActiveTenants
  <2>2. /\ work' = [work EXCEPT ![w] = r] /\ step' = [step EXCEPT ![w] = "fan_out"]
        /\ UNCHANGED <<notes, mails>>
    BY <1>8 DEF ResolveActive, Note, Turn
  <2> HIDE DEF r
  <2>3. \A v \in r.notified : Tell(v, "announcement", r.id) \in notes'
    BY <1>0, <2>1, <2>2 DEF DoneBy
  <2> QED BY <1>2, <1>3, <2>1, <2>2, <2>3 DEF Steps
<1>9. ASSUME AnswerAnnouncement(w)
      PROVE  NewsInv'
  <2>1. /\ work' = [work EXCEPT ![w] = work[w]] /\ step' = [step EXCEPT ![w] = "answered"]
        /\ UNCHANGED <<notes, mails>>
    BY <1>9 DEF AnswerAnnouncement, Turn, NewsInv, NewsTyped
  <2>2. \A v \in work[w].notified : Tell(v, "announcement", work[w].id) \in notes'
    BY <1>0, <2>1 DEF DoneBy
  <2> QED BY <1>0, <1>2, <1>3, <2>1, <2>2 DEF Steps
<1> QED BY <1>4, <1>5, <1>6, <1>7, <1>8, <1>9

\* UpdateTicket: the status, the notification and the e-mail; and the end of a request.
LEMMA UpdateSteps ==
    ASSUME NewsInv, NEW w \in Writers,
           \/ \E u \in Users, s \in Statuses : BeginUpdateTicket(w, u, s)
           \/ UpdateTicket(w) \/ FailUpdateTicket(w) \/ NotifyTenant(w) \/ MailTenant(w)
           \/ CloseRequest(w)
    PROVE  NewsInv'
<1> USE OutboxAssumption
<1>0. work[w] \in Work /\ DoneBy(w) /\ UNCHANGED announced /\ announced \in 0 .. MaxAnnouncements
  BY DEF NewsInv, NewsTyped, BeginUpdateTicket, UpdateTicket, FailUpdateTicket, NotifyTenant,
         MailTenant, CloseRequest
\* A status that is set is one the ticket has had.
<1>1. ASSUME work[w].tenant \in Users, work[w].status \in TicketStatus, SetStatus(w),
             UNCHANGED <<notes, mails>>
      PROVE  /\ ticket' \in [Users -> TicketStatus \cup {None}]
             /\ had' \in [Users -> SUBSET TicketStatus]
             /\ \A u \in Users : had[u] \subseteq had'[u]
             /\ work[w].status \in had'[work[w].tenant]
             /\ SaidInv'
  <2> DEFINE t == work[w].tenant
             s == work[w].status
  <2>1. /\ ticket' = [ticket EXCEPT ![t] = s] /\ had' = [had EXCEPT ![t] = had[t] \cup {s}]
        /\ t \in Users /\ s \in TicketStatus
    BY <1>1 DEF SetStatus
  <2> HIDE DEF t, s
  <2>2. /\ ticket' \in [Users -> TicketStatus \cup {None}]
        /\ had' \in [Users -> SUBSET TicketStatus]
        /\ \A u \in Users : had[u] \subseteq had'[u]
        /\ s \in had'[t]
    BY <2>1 DEF NewsInv, NewsTyped
  <2>3. \A u \in Users : ticket'[u] = None => had'[u] = {}
    BY <2>1 DEF NewsInv, NewsTyped, SaidInv
  <2>4. SaidInv'
    BY <1>1, <2>2, <2>3 DEF NewsInv, SaidInv
  <2> QED BY <2>2, <2>4 DEF t, s
<1>2. UNCHANGED <<ticket, had, notes, mails>> => SaidInv'
  BY DEF NewsInv, SaidInv
<1>3. ASSUME NEW u \in Users, NEW s \in Statuses, BeginUpdateTicket(w, u, s)
      PROVE  NewsInv'
  <2> DEFINE r == [NoWork EXCEPT !.tenant = u, !.status = s]
  <2>1. r \in Work /\ r.notified = {} /\ r.tenant = u /\ r.status = s /\ s \in TicketStatus
    BY NoWorkTyped DEF NoWork, Work
  <2>2. /\ work' = [work EXCEPT ![w] = r] /\ step' = [step EXCEPT ![w] = "update"]
        /\ UNCHANGED <<ticket, had, notes, mails>>
    BY <1>3 DEF BeginUpdateTicket, Note, Turn
  <2> HIDE DEF r
  <2>3. "update" \in Steps
    BY DEF Steps
  <2> QED BY <1>0, <1>2, <2>1, <2>2, <2>3, WriterSteps DEF NewsInv, NewsTyped
<1>4. ASSUME UpdateTicket(w)
      PROVE  NewsInv'
  <2>1. /\ step[w] = "update" /\ SetStatus(w) /\ UNCHANGED <<notes, mails, work>>
        /\ step' = [step EXCEPT ![w] = "notify"]
    BY <1>4 DEF UpdateTicket, At, Turn
  <2>2. work' = [work EXCEPT ![w] = work[w]]
    BY <2>1 DEF NewsInv, NewsTyped
  <2>3. work[w].tenant \in Users /\ work[w].status \in TicketStatus
    BY <1>0, <2>1 DEF DoneBy
  <2>4. \A u \in work[w].notified : Tell(u, "announcement", work[w].id) \in notes'
    BY <1>0, <2>1 DEF DoneBy
  <2>5. "notify" \in Steps
    BY DEF Steps
  <2> QED BY <1>0, <1>1, <2>1, <2>2, <2>3, <2>4, <2>5, WriterSteps
\* A request that ends, with the news of before.
<1>5. ASSUME Close(w), UNCHANGED <<notes, mails>>, SaidInv',
             ticket' \in [Users -> TicketStatus \cup {None}],
             had' \in [Users -> SUBSET TicketStatus], \A u \in Users : had[u] \subseteq had'[u]
      PROVE  NewsInv'
  <2>1. step' = [step EXCEPT ![w] = "idle"] /\ work' = [work EXCEPT ![w] = NoWork]
    BY <1>5 DEF Close, Turn, Note
  <2>2. "idle" \in Steps
    BY DEF Steps
  <2> QED BY <1>0, <1>5, <2>1, <2>2, NoWorkTyped, WriterSteps
<1>6. ASSUME FailUpdateTicket(w)
      PROVE  NewsInv'
  <2>1. step[w] = "update" /\ Close(w) /\ UNCHANGED <<notes, mails>>
    BY <1>6 DEF FailUpdateTicket, At
  <2>2. work[w].tenant \in Users /\ work[w].status \in TicketStatus
    BY <1>0, <2>1 DEF DoneBy
  <2>3. CASE SetStatus(w)
    BY <1>1, <1>5, <2>1, <2>2, <2>3
  <2>4. CASE UNCHANGED <<ticket, had>>
    BY <1>2, <1>5, <2>1, <2>4 DEF NewsInv, NewsTyped
  <2> QED BY <1>6, <2>3, <2>4 DEF FailUpdateTicket
<1>7. ASSUME NotifyTenant(w) \/ MailTenant(w)
      PROVE  NewsInv'
  <2> DEFINE n == NewsOf(w)
  <2>1. /\ step[w] \in {"notify", "mail"} /\ UNCHANGED <<ticket, had, work>>
        /\ step' = [step EXCEPT ![w] = "mail"]
        /\ notes \subseteq notes' /\ notes' \cup mails' \subseteq notes \cup mails \cup {n}
        /\ mails' \subseteq mails \cup {n}
    <3>1. CASE NotifyTenant(w)
      BY <3>1, Inserted DEF NotifyTenant, At, Turn
    <3>2. CASE MailTenant(w)
      BY <3>2 DEF MailTenant, At, NewsInv, NewsTyped
    <3> QED BY <1>7, <3>1, <3>2
  <2>2. /\ n.topic = "update" /\ n.to = work[w].tenant /\ n.about = work[w].status
    BY TellsTopic DEF NewsOf
  <2>3. /\ work[w].tenant \in Users /\ work[w].status \in TicketStatus
        /\ work[w].status \in had[work[w].tenant]
        /\ \A u \in work[w].notified : Tell(u, "announcement", work[w].id) \in notes
    BY <1>0, <2>1 DEF DoneBy
  <2> HIDE DEF n
  <2>4. SaidInv'
    BY <2>1, <2>2, <2>3 DEF NewsInv, SaidInv
  <2>5. work' = [work EXCEPT ![w] = work[w]] /\ "mail" \in Steps
    BY <2>1 DEF NewsInv, NewsTyped, Steps
  <2>6. \A u \in work[w].notified : Tell(u, "announcement", work[w].id) \in notes'
    BY <2>1, <2>3
  <2> QED BY <1>0, <2>1, <2>3, <2>4, <2>5, <2>6, WriterSteps DEF NewsInv, NewsTyped
<1>8. ASSUME CloseRequest(w)
      PROVE  NewsInv'
  <2>1. Close(w) /\ UNCHANGED <<ticket, had, notes, mails>>
    BY <1>8 DEF CloseRequest
  <2> QED BY <1>2, <1>5, <2>1 DEF NewsInv, NewsTyped
<1> QED BY <1>3, <1>4, <1>6, <1>7, <1>8

\* Tickets and requests for renewal, messages, tenants that come and go, and People.
LEMMA OtherSteps ==
    ASSUME NewsInv,
           \/ PeopleNext /\ UNCHANGED outboxVars
           \/ \E u \in Users :
                 \/ BecomeTenant(u) \/ ArchiveOrBlacklist(u)
                 \/ \E o \in Users :
                       CreateTicket(u, o) \/ RequestContractRenewal(u, o) \/ SendMessage(u, o)
    PROVE  NewsInv'
<1>1. ASSUME UNCHANGED <<ticket, announced, notes, mails, step, work, had>>
      PROVE  NewsInv'
  BY <1>1 DEF NewsInv, NewsTyped, SaidInv, DoneBy
<1>2. ASSUME NEW u \in Users, NEW o \in Users, CreateTicket(u, o) \/ RequestContractRenewal(u, o)
      PROVE  NewsInv'
  <2> DEFINE n == Tell(o, "request", u)
  <2>1. /\ UNCHANGED <<announced, mails, step, work>>
        /\ notes \subseteq notes' /\ notes' \subseteq notes \cup {n}
        /\ n.topic = "request"
    BY <1>2, Inserted, TellsTopic DEF CreateTicket, RequestContractRenewal, TellOwner
  <2> HIDE DEF n
  <2>2. \/ UNCHANGED <<ticket, had>>
        \/ /\ ticket[u] = None
           /\ ticket' = [ticket EXCEPT ![u] = "open"]
           /\ had' = [had EXCEPT ![u] = {"open"}]
    BY <1>2 DEF CreateTicket, RequestContractRenewal
  <2>3. /\ ticket' \in [Users -> TicketStatus \cup {None}]
        /\ had' \in [Users -> SUBSET TicketStatus]
        /\ \A v \in Users : had[v] \subseteq had'[v]
        /\ \A v \in Users : ticket'[v] = None => had'[v] = {}
    BY <2>2, OutboxAssumption DEF NewsInv, NewsTyped, SaidInv, TicketStatus
  <2>4. SaidInv'
    BY <2>1, <2>3 DEF NewsInv, SaidInv
  <2> QED BY <2>1, <2>3, <2>4, UserSteps DEF NewsInv, NewsTyped
<1> QED BY <1>1, <1>2 DEF outboxVars, BecomeTenant, ArchiveOrBlacklist, SendMessage

-----------------------------------------------------------------------------
(* Outbox: what rows refer to, and the types *)

\* A request that works on an announcement knows its number.
Numbered ==
    \A w \in Writers :
        step[w] \in {"asked", "active", "fan_out"} => work[w].id \in Announcements

\* Tenants, and whoever was notified, are linked.
Posted ==
    /\ tenancy \in [Users -> {"none", "active", "away"}]
    /\ \A u \in Users : tenancy[u] # "none" => u \in linked
    /\ notes \subseteq News
    /\ \A n \in notes : n.to \in linked
    /\ mails \subseteq News

OutboxInv == PeopleTypeOK /\ NewsInv /\ Numbered /\ Posted

\* Only CreateAnnouncement gives a number, and it gives the one of the row it inserts.
LEMMA NumberedInductive ==
    ASSUME NewsInv, Numbered, OutboxNext
    PROVE  Numbered'
<1> USE DEF NewsInv, NewsTyped
<1>1. ASSUME NEW w \in Writers, NEW o \in Users, NEW asked \in SUBSET Users,
             CreateAnnouncement(w, o, asked)
      PROVE  Numbered'
  <2>1. announced + 1 \in Announcements
    BY <1>1, OutboxAssumption DEF CreateAnnouncement, Announcements
  <2>2. /\ work'[w].id = announced + 1
        /\ \A v \in Writers \ {w} : work'[v] = work[v] /\ step'[v] = step[v]
    BY <1>1 DEF CreateAnnouncement, Note, Turn, NoWork
  <2> QED BY <2>1, <2>2 DEF Numbered
<1>2. ASSUME NEW w \in Writers, NEW u \in Users,
             ResolveAsked(w, u) \/ NotifyTarget(w, u) \/ SkipTarget(w, u)
      PROVE  Numbered'
  <2>1. step[w] \in {"asked", "fan_out"}
    BY <1>2 DEF ResolveAsked, NotifyTarget, SkipTarget, At
  <2>2. work'[w].id = work[w].id
    <3>1. CASE ResolveAsked(w, u)
      BY <3>1 DEF ResolveAsked, Note, Work
    <3>2. CASE NotifyTarget(w, u)
      BY <3>2 DEF NotifyTarget, Note, Work
    <3>3. CASE SkipTarget(w, u)
      BY <3>3 DEF SkipTarget, Note, Work
    <3> QED BY <1>2, <3>1, <3>2, <3>3
  <2>3. \A v \in Writers \ {w} : work'[v] = work[v] /\ step'[v] = step[v]
    BY <1>2 DEF ResolveAsked, NotifyTarget, SkipTarget, Note, Turn
  <2> QED BY <2>1, <2>2, <2>3 DEF Numbered
<1>3. ASSUME NEW w \in Writers,
             \/ AnswerAnnouncement(w) \/ CloseRequest(w)
             \/ \E u \in Users, s \in Statuses : BeginUpdateTicket(w, u, s)
             \/ UpdateTicket(w) \/ FailUpdateTicket(w) \/ NotifyTenant(w) \/ MailTenant(w)
      PROVE  Numbered'
  <2>1. /\ step'[w] \notin {"asked", "active", "fan_out"}
        /\ \A v \in Writers \ {w} : work'[v] = work[v] /\ step'[v] = step[v]
    BY <1>3 DEF AnswerAnnouncement, CloseRequest, BeginUpdateTicket, UpdateTicket,
       FailUpdateTicket, NotifyTenant, MailTenant, Close, Turn, Note, At
  <2> QED BY <2>1 DEF Numbered
<1>4. UNCHANGED <<step, work>> => Numbered'
  BY DEF Numbered
<1>5. ASSUME NEW w \in Writers, ResolveActive(w)
      PROVE  Numbered'
  <2>1. step[w] = "active" /\ work'[w].id = work[w].id
    BY <1>5 DEF ResolveActive, Note, Work, At
  <2>2. \A v \in Writers \ {w} : work'[v] = work[v] /\ step'[v] = step[v]
    BY <1>5 DEF ResolveActive, Note, Turn
  <2> QED BY <2>1, <2>2 DEF Numbered
<1>6. CASE \E w \in Writers :
              \/ \E o \in Users, asked \in SUBSET Users : CreateAnnouncement(w, o, asked)
              \/ \E u \in Users : ResolveAsked(w, u) \/ NotifyTarget(w, u) \/ SkipTarget(w, u)
              \/ ResolveActive(w)
  BY <1>1, <1>2, <1>5, <1>6
<1>7. CASE \E w \in Writers :
              \/ AnswerAnnouncement(w) \/ CloseRequest(w)
              \/ \E u \in Users, s \in Statuses : BeginUpdateTicket(w, u, s)
              \/ UpdateTicket(w) \/ FailUpdateTicket(w) \/ NotifyTenant(w) \/ MailTenant(w)
  BY <1>3, <1>7
<1>8. CASE UNCHANGED <<step, work>>
  BY <1>4, <1>8
<1> QED BY <1>6, <1>7, <1>8
    DEF OutboxNext, outboxVars, BecomeTenant, ArchiveOrBlacklist, CreateTicket,
        RequestContractRenewal, SendMessage

\* The rows of profiles are those of before, and rows that refer to them are added.
LEMMA LinkedGrows ==
    ASSUME PeopleTypeOK, UNCHANGED <<profile, pc, req, told>>,
           linked' \subseteq linked \cup {u \in Users : Registered(u)}
    PROVE  PeopleTypeOK'
BY DEF PeopleTypeOK, Registered

\* A step that tells users n at most, by a row that refers to a profile or by e-mail.
LEMMA PostedStep ==
    ASSUME Posted, UNCHANGED tenancy, linked \subseteq linked', NEW n \in News,
           notes' \subseteq notes \cup {n}, n \in notes' => n \in notes \/ n.to \in linked',
           mails' \subseteq mails \cup {n}
    PROVE  Posted'
BY DEF Posted

\* An insert, or an attempt at one, links the user it tells.
LEMMA InsertLinks ==
    ASSUME NEW n, n.to \in Users, Insert(n) \/ FailedInsert(n)
    PROVE  /\ linked \subseteq linked' /\ linked' \subseteq linked \cup {u \in Users : Registered(u)}
           /\ notes' \subseteq notes \cup {n} /\ (n \in notes' => n \in notes \/ n.to \in linked')
BY DEF Insert, FailedInsert, NoInsert

\* No step of announcements, tickets, messages and tenants refers to a profile that is
\* not there, or tells what is no news.
LEMMA PostedInductive ==
    ASSUME OutboxInv, OutboxNext
    PROVE  PeopleTypeOK' /\ Posted'
<1> USE DEF OutboxInv
<1>1. ASSUME PeopleNext, UNCHANGED outboxVars
      PROVE  PeopleTypeOK' /\ Posted'
  <2>1. linked \subseteq linked'
    BY <1>1 DEF PeopleNext, RegisterKnown, Invite, RegisterNew, Reject, UpsertProfile,
       DeleteProfile, Abandon
  <2> QED BY <1>1, <2>1, PeopleTypeInductive DEF outboxVars, Posted
<1>2. ASSUME UNCHANGED <<peopleVars, tenancy, notes, mails>>
      PROVE  PeopleTypeOK' /\ Posted'
  BY <1>2 DEF peopleVars, PeopleTypeOK, Registered, Posted
<1>3. ASSUME NEW u \in Users, NEW about, NEW topic, Tell(u, topic, about) \in News,
             \/ Insert(Tell(u, topic, about)) \/ FailedInsert(Tell(u, topic, about)),
             mails' \subseteq mails \cup {Tell(u, topic, about)},
             UNCHANGED <<profile, pc, req, told, tenancy>>
      PROVE  PeopleTypeOK' /\ Posted'
  <2>1. Tell(u, topic, about).to = u
    BY TellsTopic
  <2> DEFINE n == Tell(u, topic, about)
  <2>2. n \in News /\ n.to \in Users /\ (Insert(n) \/ FailedInsert(n)) /\ mails' \subseteq mails \cup {n}
    BY <1>3, <2>1
  <2> HIDE DEF n
  <2> QED BY <1>3, <2>2, InsertLinks, LinkedGrows, PostedStep
<1>4. ASSUME NEW w \in Writers, NEW o \in Users, NEW asked \in SUBSET Users,
             CreateAnnouncement(w, o, asked)
      PROVE  PeopleTypeOK' /\ Posted'
  <2>1. linked' = linked \cup {o} /\ Registered(o) /\ UNCHANGED <<profile, pc, req, told, tenancy, notes, mails>>
    BY <1>4 DEF CreateAnnouncement
  <2> QED BY <2>1, LinkedGrows DEF Posted
<1>5. ASSUME NEW w \in Writers, NEW u \in Users, NotifyTarget(w, u) \/ SkipTarget(w, u)
      PROVE  PeopleTypeOK' /\ Posted'
  <2>1. work[w].id \in Announcements
    BY <1>5 DEF NotifyTarget, SkipTarget, At, Numbered
  <2>2. Tell(u, "announcement", work[w].id) \in News
    BY <2>1 DEF Tell, News
  <2> QED BY <1>3, <1>5, <2>2 DEF NotifyTarget, SkipTarget
<1>6. ASSUME NEW u \in Users, NEW o \in Users, CreateTicket(u, o) \/ RequestContractRenewal(u, o)
      PROVE  PeopleTypeOK' /\ Posted'
  <2>1. Tell(o, "request", u) \in News
    BY DEF Tell, News
  <2> QED BY <1>3, <1>6, <2>1 DEF CreateTicket, RequestContractRenewal, TellOwner
<1>7. ASSUME NEW w \in Writers, NotifyTenant(w) \/ MailTenant(w)
      PROVE  PeopleTypeOK' /\ Posted'
  <2>1. work[w].tenant \in Users /\ work[w].status \in TicketStatus
    BY <1>7 DEF NotifyTenant, MailTenant, At, NewsInv, DoneBy
  <2>2. NewsOf(w) \in News
    BY <2>1 DEF NewsOf, Tell, News
  <2>3. CASE NotifyTenant(w)
    BY <1>3, <2>1, <2>2, <2>3 DEF NotifyTenant, NewsOf
  <2>4. CASE MailTenant(w)
    BY <2>2, <2>4 DEF MailTenant, peopleVars, PeopleTypeOK, Registered, Posted
  <2> QED BY <1>7, <2>3, <2>4
<1>8. ASSUME NEW u \in Users, NEW o \in Users, SendMessage(u, o)
      PROVE  PeopleTypeOK' /\ Posted'
  <2>1. /\ linked' = linked \cup {u, o} /\ Registered(u) /\ Registered(o)
        /\ UNCHANGED <<profile, pc, req, told, tenancy, notes, mails>>
    BY <1>8 DEF SendMessage, outboxVars
  <2> QED BY <2>1, LinkedGrows DEF Posted
<1>9. ASSUME NEW u \in Users, BecomeTenant(u)
      PROVE  PeopleTypeOK' /\ Posted'
  <2>1. /\ linked' = linked \cup {u} /\ Registered(u)
        /\ tenancy' = [tenancy EXCEPT ![u] = "active"]
        /\ UNCHANGED <<profile, pc, req, told, notes, mails>>
    BY <1>9 DEF BecomeTenant
  <2> QED BY <2>1, LinkedGrows DEF Posted
<1>10. ASSUME NEW u \in Users, ArchiveOrBlacklist(u)
       PROVE  PeopleTypeOK' /\ Posted'
  <2>1. /\ tenancy[u] = "active" /\ tenancy' = [tenancy EXCEPT ![u] = "away"]
        /\ UNCHANGED <<peopleVars, notes, mails>>
    BY <1>10 DEF ArchiveOrBlacklist
  <2> QED BY <2>1 DEF peopleVars, PeopleTypeOK, Registered, Posted
<1>11. CASE \E w \in Writers :
               \/ \E u \in Users :
                     \/ ResolveAsked(w, u)
                     \/ \E s \in Statuses : BeginUpdateTicket(w, u, s)
               \/ ResolveActive(w) \/ AnswerAnnouncement(w)
               \/ UpdateTicket(w) \/ FailUpdateTicket(w) \/ CloseRequest(w)
  <2>1. UNCHANGED <<peopleVars, tenancy, notes, mails>>
    BY <1>11 DEF ResolveAsked, BeginUpdateTicket, ResolveActive, AnswerAnnouncement,
       UpdateTicket, FailUpdateTicket, CloseRequest
  <2> QED BY <1>2, <2>1
<1> QED BY <1>1, <1>4, <1>5, <1>6, <1>7, <1>8, <1>9, <1>10, <1>11 DEF OutboxNext

\* Before the first request there is nobody to tell anything.
LEMMA OutboxInitially == OutboxInit => OutboxInv
<1> SUFFICES ASSUME OutboxInit
             PROVE  OutboxInv
  OBVIOUS
<1>1. PeopleTypeOK
  <2>1. NoRequest \in Request
    BY DEF NoRequest, Request, Roles
  <2> QED BY <2>1 DEF OutboxInit, PeopleInit, PeopleTypeOK
<1>2. NewsInv
  BY OutboxAssumption, NoWorkTyped
     DEF OutboxInit, NewsInv, NewsTyped, SaidInv, DoneBy, Steps, TicketStatus
<1> QED BY <1>1, <1>2 DEF OutboxInit, OutboxInv, Numbered, Posted

\* No step, and no stutter, disturbs what is told.
LEMMA OutboxInductive ==
    ASSUME OutboxInv, [OutboxNext]_<<peopleVars, outboxVars>>
    PROVE  OutboxInv'
<1>1. CASE OutboxNext
  <2>1. NewsInv'
    BY <1>1, AnnouncementSteps, UpdateSteps, OtherSteps DEF OutboxNext, OutboxInv
  <2> QED BY <1>1, <2>1, PostedInductive, NumberedInductive DEF OutboxInv
<1>2. CASE UNCHANGED <<peopleVars, outboxVars>>
  BY <1>2 DEF peopleVars, outboxVars, OutboxInv, PeopleTypeOK, Registered, NewsInv, NewsTyped,
     SaidInv, DoneBy, Numbered, Posted
<1> QED BY <1>1, <1>2

\* Users, requests and what is told, together.
LEMMA OutboxInvariant == OutboxSpec => []OutboxInv
BY OutboxInitially, OutboxInductive, PTL DEF OutboxSpec

\* However announcements, updates of tickets and rejections interleave and fail, what
\* users are told has happened, and an answer names only those who were told.
THEOREM NewsAreTrue == OutboxSpec => []NewsIsTrue
<1>1. OutboxInv => NewsIsTrue
  BY DEF OutboxInv, NewsInv, SaidInv, DoneBy, NewsIsTrue, AnnouncedTruly
<1> QED BY <1>1, OutboxInvariant, PTL

\* What goes on in the cache of keys moves the clock at most by a tick.
LEMMA CacheKeepsTime == KeyNext => UNCHANGED now \/ Advance
BY DEF KeyNext, Verify, ReadCache, Miss, HitLocked, Hit, BeginFetch, ProviderAnswers, Store,
   FailFetch, Lookup, Expire, Leave, Arrive, Rotate, KeyTick

\* Whatever goes on at once: a tenant, and whoever has a notification, has a profile that
\* no rejection can take away; no two addresses share a bucket.
THEOREM RowsReferToProfiles == Spec => []TypeOK
<1> DEFINE Apart == moving = "keys" => \A c \in Callers : handed[c] = NoBucket
           Inv == LimiterInv /\ OutboxInv /\ Apart
<1>1. Init => Inv
  BY LimiterInitially, OutboxInitially DEF Init, LimiterInit
<1>2. ASSUME Inv, [Next]_allVars
      PROVE  Inv'
  <2>1. [LimiterNext]_limiterVars /\ [OutboxNext]_<<peopleVars, outboxVars>> /\ Apart'
    <3>1. CASE MoveLimiter \/ MovePeople \/ MoveOutbox
      BY <1>2, <3>1 DEF MoveLimiter, MovePeople, MoveOutbox, OutboxNext, limiterVars
    <3>2. CASE MoveKeys
      <4>1. moving = "keys" /\ KeyNext /\ UNCHANGED <<limiters, lastSeen, bucket, handed, windowStart, admitted>>
            /\ UNCHANGED <<peopleVars, outboxVars, moving>>
        BY <3>2 DEF MoveKeys, KeepLimiter
      <4>2. UNCHANGED now \/ Advance
        BY <4>1, CacheKeepsTime
      <4>3. [LimiterNext]_limiterVars
        BY <1>2, <4>1, <4>2 DEF LimiterNext, LimiterTick, limiterVars
      <4> QED BY <1>2, <4>1, <4>3
    <3>3. CASE UNCHANGED allVars
      BY <1>2, <3>3 DEF allVars, limiterVars
    <3> QED BY <1>2, <3>1, <3>2, <3>3 DEF Next
  <2> QED BY <1>2, <2>1, LimiterInductive, OutboxInductive
<1>3. Inv => TypeOK
  BY DEF LimiterInv, OutboxInv, NewsInv, NewsTyped, Posted, TypeOK, OutboxTypeOK
<1> HIDE DEF Inv
<1> QED BY <1>1, <1>2, <1>3, PTL DEF Spec
=============================================================================
