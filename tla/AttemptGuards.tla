---------------------------- MODULE AttemptGuards ----------------------------
(***************************************************************************)
(* The guards kept in Redis for one customer: the cooldown of each case,   *)
(* the velocity window and the daily count.  The gate reads them one       *)
(* command after the other; record_action_attempt writes them one command  *)
(* after the other, and its process may die between any two.  Nothing in   *)
(* the pipeline calls record_action_attempt: its callers, the Recorders,   *)
(* are the seed script and the tests.  One velocity window for all, as     *)
(* when all cases of the customer belong to one merchant.                  *)
(***************************************************************************)
EXTENDS Naturals, FiniteSets

CONSTANTS
  Cases,           \* cases of the customer, each on its way through the gate
  Recorders,       \* calls of record_action_attempt
  CooldownSeconds, VelocityWindow,      \* periods, all positive
  VelocityThreshold, MaxDailyAttempts,
  DaySeconds,      \* the length of a day
  MaxClock         \* bound: when the model's time ends

ASSUME GuardAssumption ==
  /\ IsFiniteSet(Recorders)
  /\ {CooldownSeconds, VelocityWindow, DaySeconds} \subseteq Nat \ {0}
  /\ {VelocityThreshold, MaxDailyAttempts, MaxClock} \subseteq Nat

VARIABLES
  clock,
  cooldown,      \* when the key of a case expires; 0 when there is none
  velocity,      \* the sorted set: members with their scores
  velocityEnds,  \* when that key expires
  daily,         \* attempts counted under the key of each day
  recorder,      \* what each call of record_action_attempt does next
  gate           \* what the gate of each case does next, which guards it found
                 \* exhausted, and when it pruned

guardVars == <<clock, cooldown, velocity, velocityEnds, daily, recorder, gate>>

Day(t) == t \div DaySeconds
Forever == MaxClock + VelocityWindow + 1

\* `added` and `refreshed` serve the properties only: when ZADD was executed,
\* and whether the new member was still there at its own EXPIRE.
Idle == [pc |-> "idle", at |-> 0, added |-> 0, refreshed |-> FALSE]

GuardInit ==
  /\ clock = 0
  /\ cooldown = [c \in Cases |-> 0]
  /\ velocity = {} /\ velocityEnds = Forever
  /\ daily = [d \in 0..Day(MaxClock) |-> 0]
  /\ recorder = [r \in Recorders |-> Idle]
  /\ gate = [c \in Cases |-> [pc |-> "daily", found |-> {}, pruned |-> 0]]

\* Time passes, and Redis drops the keys whose time is up.
Tick ==
  /\ clock < MaxClock
  /\ clock' = clock + 1
  /\ velocity' = IF clock' >= velocityEnds THEN {} ELSE velocity
  /\ velocityEnds' = IF clock' >= velocityEnds THEN Forever ELSE velocityEnds
  /\ UNCHANGED <<cooldown, daily, recorder, gate>>

-----------------------------------------------------------------------------
(* record_action_attempt: the time is read once, the date again later.     *)

SetCooldown(r, c) ==
  /\ recorder[r].pc = "idle"
  /\ cooldown' = [cooldown EXCEPT ![c] = clock + CooldownSeconds]
  /\ recorder' = [recorder EXCEPT ![r].pc = "zadd", ![r].at = clock]
  /\ UNCHANGED <<clock, velocity, velocityEnds, daily, gate>>

MemberOf(r) == [by |-> r, score |-> recorder[r].at]

AddMember(r) ==
  /\ recorder[r].pc = "zadd"
  /\ velocity' = velocity \cup { MemberOf(r) }
  /\ recorder' = [recorder EXCEPT ![r].pc = "expire", ![r].added = clock]
  /\ UNCHANGED <<clock, cooldown, velocityEnds, daily, gate>>

\* Mutant: EXPIRE with NX, which sets a time to live once.
ExpireMembersOnce(r) ==
  /\ recorder[r].pc = "expire"
  /\ velocityEnds' = IF velocity = {} \/ velocityEnds # Forever
                       THEN velocityEnds ELSE clock + VelocityWindow
  /\ recorder' = [recorder EXCEPT ![r].pc = "incr", ![r].refreshed = (MemberOf(r) \in velocity)]
  /\ UNCHANGED <<clock, cooldown, velocity, daily, gate>>

\* EXPIRE starts the time of the whole key again, and does nothing to a key
\* that is gone.
ExpireMembers(r) ==
  /\ recorder[r].pc = "expire"
  /\ velocityEnds' = IF velocity = {} THEN Forever ELSE clock + VelocityWindow
  /\ recorder' = [recorder EXCEPT ![r].pc = "incr", ![r].refreshed = (MemberOf(r) \in velocity)]
  /\ UNCHANGED <<clock, cooldown, velocity, daily, gate>>

\* The key of a day outlives the day by one at least: its TTL is never seen.
CountAttempt(r) ==
  /\ recorder[r].pc = "incr"
  /\ daily' = [daily EXCEPT ![Day(clock)] = @ + 1]
  /\ recorder' = [recorder EXCEPT ![r].pc = "done"]
  /\ UNCHANGED <<clock, cooldown, velocity, velocityEnds, gate>>

\* The recording process dies, or loses its connection, between two commands.
RecorderDies(r) ==
  /\ recorder[r].pc \in { "zadd", "expire", "incr" }
  /\ recorder' = [recorder EXCEPT ![r].pc = IF @ = "zadd" THEN "unwritten" ELSE "dead"]
  /\ UNCHANGED <<clock, cooldown, velocity, velocityEnds, daily, gate>>

-----------------------------------------------------------------------------
(* build_policy_context reads all guards, then evaluate judges.            *)

GateReads(c, guard, exhausted, pc) ==
  gate' = [gate EXCEPT ![c] = [ pc |-> pc, pruned |-> @.pruned,
                                found |-> IF exhausted THEN @.found \cup { guard } ELSE @.found ]]

ReadDaily(c) ==
  /\ gate[c].pc = "daily"
  /\ GateReads(c, "daily", daily[Day(clock)] >= MaxDailyAttempts, "cooldown")
  /\ UNCHANGED <<clock, cooldown, velocity, velocityEnds, daily, recorder>>

ReadCooldown(c) ==
  /\ gate[c].pc = "cooldown"
  /\ GateReads(c, "cooldown", clock < cooldown[c], "prune")
  /\ UNCHANGED <<clock, cooldown, velocity, velocityEnds, daily, recorder>>

\* Mutant: the count is taken of whatever the key still holds.
PruneNothing(c) ==
  /\ gate[c].pc = "prune"
  /\ gate' = [gate EXCEPT ![c].pc = "velocity", ![c].pruned = clock]
  /\ UNCHANGED <<clock, cooldown, velocity, velocityEnds, daily, recorder>>

\* zremrangebyscore takes the members away that are as old as the window.
Prune(c) ==
  LET kept == { m \in velocity : m.score + VelocityWindow > clock } IN
  /\ gate[c].pc = "prune"
  /\ velocity' = kept
  /\ velocityEnds' = IF kept = {} THEN Forever ELSE velocityEnds
  /\ gate' = [gate EXCEPT ![c].pc = "velocity", ![c].pruned = clock]
  /\ UNCHANGED <<clock, cooldown, daily, recorder>>

ReadVelocity(c) ==
  /\ gate[c].pc = "velocity"
  /\ GateReads(c, "velocity", Cardinality(velocity) >= VelocityThreshold, "judge")
  /\ UNCHANGED <<clock, cooldown, velocity, velocityEnds, daily, recorder>>

\* The rules about these guards: a suspicious velocity stops whatever was
\* proposed, the daily limit denies an intervention, the cooldown a retry only.
\* (The other rules are in PolicyEngine.)  What was read is dropped with the
\* context; a case that passes is executed, which leaves nothing in Redis.
Verdict(found, action) ==
  IF "velocity" \in found THEN "stopped"
  ELSE IF \/ "daily" \in found /\ action # "ESCALATE_TO_HUMAN"
          \/ "cooldown" \in found /\ action = "RETRY" THEN "denied"
  ELSE "passed"

Judge(c) ==
  /\ gate[c].pc = "judge"
  /\ \E action \in { "RETRY", "SEND_RECOVERY_LINK", "ESCALATE_TO_HUMAN" } :
       gate' = [gate EXCEPT ![c] = [ pc |-> Verdict(gate[c].found, action),
                                     found |-> {}, pruned |-> 0 ]]
  /\ UNCHANGED <<clock, cooldown, velocity, velocityEnds, daily, recorder>>

GateStep(c) == ReadDaily(c) \/ ReadCooldown(c) \/ Prune(c) \/ ReadVelocity(c) \/ Judge(c)

GuardStep ==
  \/ \E r \in Recorders, c \in Cases : SetCooldown(r, c)
  \/ \E r \in Recorders :
       AddMember(r) \/ ExpireMembers(r) \/ CountAttempt(r) \/ RecorderDies(r)
  \/ \E c \in Cases : GateStep(c)

-----------------------------------------------------------------------------
\* An attempt is in the velocity window for the whole of its window, once its
\* own EXPIRE has come in time, although older members, other calls that die
\* half-way and gates that prune share that key and its one time to live.  (If
\* the key expires between ZADD and EXPIRE, the new attempt is lost with it.)
CountedForItsWindow ==
  \A r \in Recorders :
    recorder[r].refreshed /\ clock < recorder[r].at + VelocityWindow
      => MemberOf(r) \in velocity

Recent(c) ==
  { r \in Recorders :
      recorder[r].pc \notin { "idle", "zadd", "unwritten" }
      /\ recorder[r].added + VelocityWindow > gate[c].pruned }

\* A velocity is only found suspicious, which stops the case whatever else its
\* gate has read, if that many attempts were written less than a window before
\* the gate pruned, or since, whatever has piled up in a key that every attempt
\* keeps alive.
NotStoppedByOldAttempts ==
  [][\A c \in Cases :
       "velocity" \in gate'[c].found \ gate[c].found
         => Cardinality(Recent(c)) >= VelocityThreshold]_guardVars
=============================================================================
