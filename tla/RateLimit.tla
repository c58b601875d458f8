------------------------------ MODULE RateLimit ------------------------------
(***************************************************************************)
(* check_rate_limit for one client address: a Redis counter per window of  *)
(* WindowSeconds, counted up and given its time to live by two commands.   *)
(* The API process may be slow or die between any two steps.               *)
(***************************************************************************)
EXTENDS Naturals

CONSTANTS
  Requests,       \* requests of the client
  WindowSeconds,
  MaxRequests,    \* max_requests: admitted in one window
  MaxClock        \* bound: when the model's time ends

VARIABLES
  clock,
  counter,      \* the value of each window's key; 0 when there is no key
  counterEnds,  \* when it expires
  request       \* what each request does next, and the window it arrived in

rateVars == <<clock, counter, counterEnds, request>>

WindowOf(t) == t \div WindowSeconds
Windows     == { WindowOf(t) : t \in 0..MaxClock }
Never       == MaxClock + WindowSeconds + 1

\* Mutant: a key template without the number of the window.
KeyOfAnyWindow(window) == 0

\* _KEY_TEMPLATE.
KeyOf(window) == window

RateInit ==
  /\ counter = [w \in Windows |-> 0]
  /\ counterEnds = [w \in Windows |-> Never]
  /\ request = [r \in Requests |-> [pc |-> "idle", window |-> 0]]

\* What a tick of the clock does to the counters.
ExpireCounters ==
  /\ counter' = [w \in Windows |-> IF clock' >= counterEnds[w] THEN 0 ELSE counter[w]]
  /\ counterEnds' = [w \in Windows |-> IF clock' >= counterEnds[w] THEN Never ELSE counterEnds[w]]
  /\ UNCHANGED request

Arrive(r) ==
  /\ request[r].pc = "idle"
  /\ request' = [request EXCEPT ![r] = [pc |-> "incr", window |-> WindowOf(clock)]]
  /\ UNCHANGED <<clock, counter, counterEnds>>

\* INCR, and the verdict on its reply; the first one sets the time to live.
Increment(r) ==
  LET key   == KeyOf(request[r].window)
      count == counter[key] + 1
  IN
  /\ request[r].pc = "incr"
  /\ counter' = [counter EXCEPT ![key] = count]
  /\ request' = [request EXCEPT ![r].pc =
       IF count = 1 THEN "expire" ELSE IF count > MaxRequests THEN "refused" ELSE "admitted"]
  /\ UNCHANGED <<clock, counterEnds>>

SetExpiry(r) ==
  LET key == KeyOf(request[r].window) IN
  /\ request[r].pc = "expire"
  /\ counterEnds' = [counterEnds EXCEPT ![key] = clock + WindowSeconds]
  /\ request' = [request EXCEPT ![r].pc = IF 1 > MaxRequests THEN "refused" ELSE "admitted"]
  /\ UNCHANGED <<clock, counter>>

\* The process dies before it could send EXPIRE: the key stays for ever.
RequestDies(r) ==
  /\ request[r].pc = "expire"
  /\ request' = [request EXCEPT ![r].pc = "dead"]
  /\ UNCHANGED <<clock, counter, counterEnds>>

RateStep == \E r \in Requests : Arrive(r) \/ Increment(r) \/ SetExpiry(r) \/ RequestDies(r)

-----------------------------------------------------------------------------
\* The requests that INCR has counted in window w.
CountedIn(w) ==
  { q \in Requests : request[q].pc \notin { "idle", "incr" } /\ request[q].window = w }
=============================================================================
