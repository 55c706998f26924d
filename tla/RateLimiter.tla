----------------------------- MODULE RateLimiter -----------------------------
(***************************************************************************)
(* The rate limiter of internal/middleware/ratelimit.go: a table of token  *)
(* buckets by client address, behind a mutex, and a goroutine that forgets *)
(* the addresses not seen for a while.                                     *)
(*                                                                         *)
(* A tick is the time in which a bucket gains one token: 0.6 seconds for   *)
(* GlobalRateLimiter (Burst = 100), 6 seconds for AuthRateLimiter          *)
(* (Burst = 10).  The five minutes of IdleTTL are then 500 and 50 ticks.   *)
(***************************************************************************)
EXTENDS Clock

CONSTANTS
    Addresses,
    Callers,     \* requests between the two steps of the middleware
    Buckets,     \* identities of rate.Limiter objects
    Burst,
    IdleTTL,
    MaxGap,      \* longest time between get and Allow, two adjacent statements
    NoBucket

ASSUME RateLimiterAssumption ==
    /\ Burst \in Nat \ {0}
    /\ MaxGap \in Nat
    /\ IdleTTL \in Nat /\ IdleTTL >= Burst + MaxGap
    /\ NoBucket \notin Buckets

VARIABLES
    limiters,    \* the table: the bucket of an address, or NoBucket
    lastSeen,
    bucket,      \* tokens of a bucket when it was last taken from
    handed,      \* what get has returned to a request that has not asked it yet
    windowStart, \* history: start of an arbitrary window of time, never changed
    admitted     \* history: requests of an address let through since windowStart

limiterVars == <<now, limiters, lastSeen, bucket, handed, windowStart, admitted>>

Bucket == [tokens : 0 .. Burst, last : Nat]
Handed == [address : Addresses, bucket : Buckets, at : Nat]

ASSUME NoBucketIsNotHanded == NoBucket \notin Handed

\* What golang.org/x/time/rate computes at each call: the tokens gained since the
\* last one, up to the burst.
Level(b) == LET filled == bucket[b].tokens + (now - bucket[b].last)
            IN  IF filled > Burst THEN Burst ELSE filled

Unused(b) == /\ \A a \in Addresses : limiters[a] # b
             /\ \A c \in Callers : handed[c] # NoBucket => handed[c].bucket # b

-----------------------------------------------------------------------------
(* The middleware *)

NewLimiter(a, b) ==
    /\ limiters[a] = NoBucket
    /\ Unused(b)
    /\ bucket' = [bucket EXCEPT ![b] = [tokens |-> Burst, last |-> now]]

\* Mutant: lastSeen is set only where the entry is made.
StampOnce(c, a, b) ==
    /\ handed[c] = NoBucket
    /\ \/ NewLimiter(a, b) /\ lastSeen' = [lastSeen EXCEPT ![a] = now]
       \/ limiters[a] = b /\ UNCHANGED <<bucket, lastSeen>>
    /\ limiters' = [limiters EXCEPT ![a] = b]
    /\ handed' = [handed EXCEPT ![c] = [address |-> a, bucket |-> b, at |-> now]]
    /\ UNCHANGED <<now, windowStart, admitted>>

\* limiterStore.get, under the mutex.
Get(c, a, b) ==
    /\ handed[c] = NoBucket
    /\ \/ NewLimiter(a, b)
       \/ limiters[a] = b /\ UNCHANGED bucket
    /\ limiters' = [limiters EXCEPT ![a] = b]
    /\ lastSeen' = [lastSeen EXCEPT ![a] = now]
    /\ handed' = [handed EXCEPT ![c] = [address |-> a, bucket |-> b, at |-> now]]
    /\ UNCHANGED <<now, windowStart, admitted>>

\* limiter.Allow(), after the mutex has been released.
Take(b) ==
    /\ Level(b) > 0
    /\ bucket' = [bucket EXCEPT ![b] = [tokens |-> Level(b) - 1, last |-> now]]

Allow(c) ==
    /\ handed[c] # NoBucket
    /\ Take(handed[c].bucket)
    /\ admitted' = IF now >= windowStart
                   THEN [admitted EXCEPT ![handed[c].address] = @ + 1]
                   ELSE admitted
    /\ handed' = [handed EXCEPT ![c] = NoBucket]
    /\ UNCHANGED <<now, limiters, lastSeen, windowStart>>

\* 429 RATE_LIMIT_EXCEEDED; a refused request takes nothing from the bucket.
Refuse(c) ==
    /\ handed[c] # NoBucket
    /\ Level(handed[c].bucket) = 0
    /\ handed' = [handed EXCEPT ![c] = NoBucket]
    /\ UNCHANGED <<now, limiters, lastSeen, bucket, windowStart, admitted>>

-----------------------------------------------------------------------------
(* The clean-up goroutine *)

Idle(a) == now - lastSeen[a] > IdleTTL

\* One tick of the goroutine's ticker, which may be late: here it runs at any time.
Cleanup ==
    /\ limiters' = [a \in Addresses |-> IF Idle(a) THEN NoBucket ELSE limiters[a]]
    /\ UNCHANGED <<now, lastSeen, bucket, handed, windowStart, admitted>>

\* Time passes, but no more than MaxGap while a request is about to ask its bucket.
LimiterTick ==
    /\ \A c \in Callers : handed[c] # NoBucket => now - handed[c].at < MaxGap
    /\ Advance
    /\ UNCHANGED <<limiters, lastSeen, bucket, handed, windowStart, admitted>>

-----------------------------------------------------------------------------
(* The specification *)

LimiterInit ==
    /\ now = 0
    /\ limiters = [a \in Addresses |-> NoBucket]
    /\ lastSeen = [a \in Addresses |-> 0]
    /\ bucket = [b \in Buckets |-> [tokens |-> Burst, last |-> 0]]
    /\ handed = [c \in Callers |-> NoBucket]
    /\ windowStart \in 0 .. MaxTime
    /\ admitted = [a \in Addresses |-> 0]

LimiterNext ==
    \/ \E c \in Callers :
          \/ \E a \in Addresses, b \in Buckets : Get(c, a, b)
          \/ Allow(c)
          \/ Refuse(c)
    \/ Cleanup
    \/ LimiterTick

LimiterSpec == LimiterInit /\ [][LimiterNext]_limiterVars

-----------------------------------------------------------------------------
(* Properties *)

\* Type invariant: no two addresses share a bucket, no bucket or stamp is of the
\* future.
LimiterTypeOK ==
    /\ now \in 0 .. MaxTime
    /\ limiters \in [Addresses -> Buckets \cup {NoBucket}]
    /\ lastSeen \in [Addresses -> 0 .. now]
    /\ bucket \in [Buckets -> Bucket]
    /\ \A b \in Buckets : bucket[b].last <= now
    /\ handed \in [Callers -> Handed \cup {NoBucket}]
    /\ windowStart \in 0 .. MaxTime
    /\ admitted \in [Addresses -> Nat]
    /\ \A a1, a2 \in Addresses :
          limiters[a1] = limiters[a2] /\ a1 # a2 => limiters[a1] = NoBucket

\* The promise of the limiter, in any window of time and across every clean-up: an
\* address gets its burst and one request for each tick, and no more.
WindowBound ==
    \A a \in Addresses :
        now >= windowStart => admitted[a] <= Burst + (now - windowStart)
=============================================================================
