------------------------------ MODULE MCGateway ------------------------------
(***************************************************************************)
(* What a request meets on its way: the rate limiter, the cache of keys    *)
(* its token is verified with, and what goes on behind them.  They share   *)
(* no variable but the clock, and a property of one sees a step of the     *)
(* others as a stutter or a tick; so only one of them moves in a           *)
(* behaviour, and the run explores the sum of their states instead of the  *)
(* product.                                                                *)
(***************************************************************************)
EXTENDS Outbox, RateLimiter, KeyCache, TLC

VARIABLE moving

allVars == <<peopleVars, outboxVars, limiterVars, keyVars, moving>>

Init ==
    /\ LimiterInit
    /\ OutboxInit
    /\ KeyInit
    /\ moving \in {"limiter", "keys", "people", "outbox"}
    /\ moving # "limiter" => windowStart = 0
    /\ moving # "keys" => published = [i \in Issuers |-> {}]

KeepLimiter == UNCHANGED <<limiters, lastSeen, bucket, handed, windowStart, admitted>>
KeepKeys    == UNCHANGED <<published, left, jwksKeys, jwksExpiry, jwksFrom, writer, stage, bearer>>

MoveLimiter ==
    /\ moving = "limiter"
    /\ LimiterNext
    /\ KeepKeys
    /\ UNCHANGED <<peopleVars, outboxVars, moving>>

\* Bound: the cache is watched for one tick less, and one issuer rotates its keys; the
\* others keep theirs, whatever they are.
MoveKeys ==
    /\ moving = "keys"
    /\ KeyNext
    /\ now' < MaxTime
    /\ \A i \in Issuers \ {SomeIssuer} : published'[i] = published[i]
    /\ KeepLimiter
    /\ UNCHANGED <<peopleVars, outboxVars, moving>>

MovePeople ==
    /\ moving = "people"
    /\ PeopleNext
    /\ UNCHANGED <<limiterVars, keyVars, outboxVars, moving>>

\* Bound: beside the writers, one registration or rejection of a tenant at a time.
OneOfPeople ==
    /\ \A q \in Requests : req[q].role = "tenant"
    /\ \A q1, q2 \in Requests : pc[q1] = "idle" \/ pc[q2] = "idle" \/ q1 = q2

MoveOutbox ==
    /\ moving = "outbox"
    /\ OutboxNext
    /\ OneOfPeople'
    /\ UNCHANGED <<limiterVars, keyVars, moving>>

Next == MoveLimiter \/ MoveKeys \/ MovePeople \/ MoveOutbox

Spec == Init /\ [][Next]_allVars

\* Type invariant of the limiter and the outbox; that of the cache is checked where its
\* lock is.
TypeOK == LimiterTypeOK /\ OutboxTypeOK

Symmetry == Permutations(Users) \cup Permutations(Requests) \cup Permutations(Writers)
=============================================================================
