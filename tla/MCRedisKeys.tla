----------------------------- MODULE MCRedisKeys -----------------------------
(***************************************************************************)
(* RedisKeys for TLC.  The recording calls are interchangeable.  Guards and *)
(* counters share nothing but the clock and each property is about one of  *)
(* them, so it is enough to look at the behaviours in which only one of    *)
(* them has moved: the other can be left out of any behaviour.             *)
(***************************************************************************)
EXTENDS RedisKeys, TLC

Symmetry == Permutations(Recorders)

OneOfThem ==
  \/ \A q \in Requests : request[q].pc = "idle"
  \/ /\ \A r \in Recorders : recorder[r].pc = "idle"
     /\ \A c \in Cases : gate[c].pc = "daily"
=============================================================================
