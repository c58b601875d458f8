------------------------------ MODULE RedisKeys ------------------------------
(***************************************************************************)
(* The keys of one Redis server under one clock: the guards of a customer  *)
(* (AttemptGuards) and the request counters of a client (RateLimit).  Their *)
(* writers share nothing but the time at which keys expire.                *)
(***************************************************************************)
EXTENDS AttemptGuards

CONSTANTS Requests, WindowSeconds, MaxRequests

ASSUME RedisAssumption ==
  IsFiniteSet(Requests) /\ WindowSeconds \in Nat \ {0} /\ MaxRequests \in Nat

VARIABLES counter, counterEnds, request

Rate == INSTANCE RateLimit

redisVars == <<guardVars, counter, counterEnds, request>>

RedisInit == GuardInit /\ Rate!RateInit

RedisNext ==
  \/ Tick /\ Rate!ExpireCounters
  \/ GuardStep /\ UNCHANGED <<counter, counterEnds, request>>
  \/ Rate!RateStep /\ UNCHANGED <<cooldown, velocity, velocityEnds, daily, recorder, gate>>

RedisSpec == RedisInit /\ [][RedisNext]_redisVars

-----------------------------------------------------------------------------
\* A client is only refused if it has sent more than the limit within the very
\* window the refused request arrived in: neither a counter that a dead process
\* left without a time to live, nor the requests of an earlier window, ever
\* count against it.
RefusedOnlyWhenFull ==
  \A q \in Requests :
    request[q].pc = "refused"
      => Cardinality(Rate!CountedIn(request[q].window)) > MaxRequests
=============================================================================
