----------------------------- MODULE RedisProofs -----------------------------
(***************************************************************************)
(* What the Redis keys promise, for any number of cases, recording calls   *)
(* and requests, any periods and limits, and deaths at any moment.         *)
(* GuardInv relates the members of the velocity set to the calls that      *)
(* wrote them and to what each gate pruned; RateInv relates each counter   *)
(* to the requests that have been counted in its window.                   *)
(***************************************************************************)
EXTENDS RedisKeys, FiniteSetTheorems, TLAPS

RecorderPcs == { "idle", "zadd", "expire", "incr", "done", "dead", "unwritten" }
GatePcs     == { "daily", "cooldown", "prune", "velocity", "judge", "passed", "denied", "stopped" }
Guards      == { "daily", "cooldown", "velocity" }
Calls       == [ pc : RecorderPcs, at : Nat, added : Nat, refreshed : BOOLEAN ]

\* The call has added its member.
Written(r) == recorder[r].pc \notin { "idle", "zadd", "unwritten" }

GuardTypeOK ==
  /\ clock \in 0..MaxClock
  /\ velocityEnds \in Nat
  /\ recorder \in [Recorders -> Calls]
  /\ gate \in [Cases -> [pc : GatePcs, found : SUBSET Guards, pruned : Nat]]

RecorderTimes ==
  \A r \in Recorders :
    /\ recorder[r].at <= clock
    /\ Written(r) => recorder[r].at <= recorder[r].added /\ recorder[r].added <= clock
    /\ recorder[r].refreshed => recorder[r].pc \in { "incr", "done", "dead" }

MembersAreWritten ==
  \A m \in velocity : m.by \in Recorders /\ m = MemberOf(m.by) /\ Written(m.by)

\* The key of a member refreshed in time outlives the member's own window.
RefreshedIsAlive ==
  \A r \in Recorders :
    recorder[r].refreshed /\ clock < recorder[r].at + VelocityWindow =>
      MemberOf(r) \in velocity /\ velocityEnds >= recorder[r].at + VelocityWindow

\* A gate about to read the set has left no member in it that was older than
\* the window when it pruned; what came since is younger still.
PrunedIsRecent ==
  \A c \in Cases :
    /\ gate[c].pruned <= clock
    /\ gate[c].pc = "velocity" =>
         \A m \in velocity : recorder[m.by].added + VelocityWindow > gate[c].pruned

GuardInv ==
  GuardTypeOK /\ RecorderTimes /\ MembersAreWritten /\ RefreshedIsAlive /\ PrunedIsRecent

-----------------------------------------------------------------------------
LEMMA Periods ==
  /\ VelocityWindow \in Nat /\ VelocityWindow > 0
  /\ MaxClock \in Nat /\ VelocityThreshold \in Nat /\ Forever \in Nat
BY GuardAssumption DEF Forever

LEMMA ClockType == GuardTypeOK => clock \in Nat /\ clock <= MaxClock
BY Periods DEF GuardTypeOK

LEMMA GuardInvInit == GuardInit => GuardInv
BY Periods DEF GuardInit, GuardInv, GuardTypeOK, RecorderTimes, MembersAreWritten,
  RefreshedIsAlive, PrunedIsRecent, Written, Idle, Forever, Calls, RecorderPcs, GatePcs, Guards

LEMMA TickKeepsGuardInv ==
  ASSUME GuardInv, Tick
  PROVE  GuardInv'
<1>1. clock \in Nat /\ clock' = clock + 1 /\ UNCHANGED <<recorder, gate>>
  BY ClockType DEF GuardInv, Tick
<1>2. GuardTypeOK'
  BY <1>1, Periods DEF GuardInv, GuardTypeOK, Tick
<1>3. RecorderTimes'
  BY <1>1 DEF GuardInv, GuardTypeOK, Calls, RecorderTimes, Written
<1>4. MembersAreWritten'
  BY <1>1 DEF GuardInv, MembersAreWritten, Written, MemberOf, Tick
<1>5. RefreshedIsAlive'
  BY <1>1, Periods DEF GuardInv, GuardTypeOK, Calls, RefreshedIsAlive, MemberOf, Tick
<1>6. PrunedIsRecent'
  BY <1>1 DEF GuardInv, GuardTypeOK, PrunedIsRecent, Tick
<1> QED BY <1>2, <1>3, <1>4, <1>5, <1>6 DEF GuardInv

\* One call changes and the others do not.
LEMMA OneCall ==
  ASSUME GuardTypeOK, NEW r \in Recorders, NEW x \in Calls, recorder' = [recorder EXCEPT ![r] = x]
  PROVE  /\ recorder' \in [Recorders -> Calls]
         /\ recorder'[r] = x
         /\ \A s \in Recorders : s # r => recorder'[s] = recorder[s]
BY DEF GuardTypeOK

LEMMA SetCooldownKeepsGuardInv ==
  ASSUME GuardInv, NEW r \in Recorders, NEW c \in Cases, SetCooldown(r, c)
  PROVE  GuardInv'
<1> DEFINE x == [recorder[r] EXCEPT !.pc = "zadd", !.at = clock]
<1>1. clock \in Nat /\ recorder[r] \in Calls /\ x \in Calls
  <2>1. clock \in Nat /\ recorder[r] \in Calls
    BY ClockType DEF GuardInv, GuardTypeOK
  <2> QED BY <2>1 DEF Calls, RecorderPcs
<1>2. recorder' = [recorder EXCEPT ![r] = x]
  BY DEF GuardInv, GuardTypeOK, Calls, SetCooldown
<1>3. /\ recorder' \in [Recorders -> Calls]
      /\ recorder'[r] = x
      /\ \A s \in Recorders : s # r => recorder'[s] = recorder[s]
  BY <1>1, <1>2, OneCall DEF GuardInv
<1>4. GuardTypeOK'
  BY <1>3, Periods DEF GuardInv, GuardTypeOK, Calls, SetCooldown
<1>5. ~recorder[r].refreshed /\ ~Written(r)
  BY DEF GuardInv, RecorderTimes, SetCooldown, Written
<1>6. RecorderTimes'
  BY <1>4, <1>5, <1>3 DEF GuardInv, GuardTypeOK, Calls, RecorderTimes, SetCooldown, Written
<1>7. MembersAreWritten'
  BY <1>5, <1>3 DEF GuardInv, MembersAreWritten, SetCooldown, Written, MemberOf
<1>8. RefreshedIsAlive'
  BY <1>5, <1>3 DEF GuardInv, GuardTypeOK, Calls, RefreshedIsAlive, SetCooldown, MemberOf
<1>9. PrunedIsRecent'
  BY <1>5, <1>3 DEF GuardInv, PrunedIsRecent, MembersAreWritten, SetCooldown
<1> QED BY <1>4, <1>6, <1>7, <1>8, <1>9 DEF GuardInv

LEMMA AddMemberKeepsGuardInv ==
  ASSUME GuardInv, NEW r \in Recorders, AddMember(r)
  PROVE  GuardInv'
<1> DEFINE x == [recorder[r] EXCEPT !.pc = "expire", !.added = clock]
<1>1. clock \in Nat /\ recorder[r] \in Calls /\ x \in Calls
  <2>1. clock \in Nat /\ recorder[r] \in Calls
    BY ClockType DEF GuardInv, GuardTypeOK
  <2> QED BY <2>1 DEF Calls, RecorderPcs
<1>2. recorder' = [recorder EXCEPT ![r] = x]
  BY DEF GuardInv, GuardTypeOK, Calls, AddMember
<1>3. /\ recorder' \in [Recorders -> Calls]
      /\ recorder'[r] = x
      /\ \A s \in Recorders : s # r => recorder'[s] = recorder[s]
  BY <1>1, <1>2, OneCall DEF GuardInv
<1>4. GuardTypeOK'
  BY <1>3, Periods DEF GuardInv, GuardTypeOK, Calls, AddMember
<1>5. ~recorder[r].refreshed /\ ~Written(r)
  BY DEF GuardInv, RecorderTimes, AddMember, Written
<1>6. MemberOf(r)' = MemberOf(r) /\ MemberOf(r).by = r
  BY <1>3 DEF GuardInv, GuardTypeOK, Calls, MemberOf
<1>7. RecorderTimes'
  BY <1>4, <1>5, <1>3 DEF GuardInv, GuardTypeOK, Calls, RecorderTimes, AddMember, Written
<1>8. MembersAreWritten'
  <2> SUFFICES ASSUME NEW m \in velocity'
               PROVE  m.by \in Recorders /\ m = MemberOf(m.by)' /\ Written(m.by)'
    BY DEF MembersAreWritten
  <2>1. CASE m = MemberOf(r)
    <3>1. m.by = r /\ m = MemberOf(r)'
      BY <2>1, <1>6
    <3>2. recorder'[r].pc = "expire"
      BY <1>1, <1>3 DEF Calls
    <3> QED BY <3>1, <3>2 DEF Written
  <2>2. CASE m \in velocity
    BY <2>2, <1>5, <1>3 DEF GuardInv, MembersAreWritten, Written, MemberOf
  <2> QED BY <2>1, <2>2 DEF AddMember
<1>9. RefreshedIsAlive'
  BY <1>5, <1>3 DEF GuardInv, GuardTypeOK, Calls, RefreshedIsAlive, AddMember, MemberOf
<1>10. PrunedIsRecent'
  <2>1. \A m \in velocity' : m = MemberOf(r) \/ (m \in velocity /\ m.by # r /\ m.by \in Recorders)
    <3>1. \A m \in velocity : m.by \in Recorders /\ Written(m.by)
      BY DEF GuardInv, MembersAreWritten
    <3>2. velocity' = velocity \cup { MemberOf(r) }
      BY DEF AddMember
    <3> QED BY <1>5, <3>1, <3>2
  <2>2. recorder'[r].added = clock
    BY <1>3 DEF GuardInv, GuardTypeOK
  <2> QED BY <2>1, <2>2, <1>3, <1>6, Periods DEF GuardInv, GuardTypeOK, Calls, PrunedIsRecent, AddMember
<1> QED BY <1>4, <1>7, <1>8, <1>9, <1>10 DEF GuardInv

LEMMA ExpireMembersKeepsGuardInv ==
  ASSUME GuardInv, NEW r \in Recorders, ExpireMembers(r)
  PROVE  GuardInv'
<1> DEFINE x == [recorder[r] EXCEPT !.pc = "incr", !.refreshed = (MemberOf(r) \in velocity)]
<1>1. clock \in Nat /\ recorder[r] \in Calls /\ x \in Calls
  <2>1. clock \in Nat /\ recorder[r] \in Calls
    BY ClockType DEF GuardInv, GuardTypeOK
  <2> DEFINE b == MemberOf(r) \in velocity
  <2>2. b \in BOOLEAN
    OBVIOUS
  <2> HIDE DEF b
  <2>3. [recorder[r] EXCEPT !.pc = "incr", !.refreshed = b] \in Calls
    BY <2>1, <2>2 DEF Calls, RecorderPcs
  <2> QED BY <2>1, <2>3 DEF b
<1>2. recorder' = [recorder EXCEPT ![r] = x]
  BY DEF GuardInv, GuardTypeOK, Calls, ExpireMembers
<1>3. /\ recorder' \in [Recorders -> Calls]
      /\ recorder'[r] = x
      /\ \A s \in Recorders : s # r => recorder'[s] = recorder[s]
  BY <1>1, <1>2, OneCall DEF GuardInv
<1>4. GuardTypeOK'
  BY <1>3, Periods DEF GuardInv, GuardTypeOK, Calls, ExpireMembers, Forever
<1>5. \A s \in Recorders : MemberOf(s)' = MemberOf(s) /\ (Written(s)' <=> Written(s))
  BY <1>3 DEF GuardInv, GuardTypeOK, Calls, MemberOf, Written, ExpireMembers
<1>6. RecorderTimes'
  BY <1>4, <1>3, <1>5 DEF GuardInv, GuardTypeOK, Calls, RecorderTimes, ExpireMembers
<1>7. MembersAreWritten'
  BY <1>5 DEF GuardInv, MembersAreWritten, ExpireMembers
<1>8. RefreshedIsAlive'
  <2> SUFFICES ASSUME NEW s \in Recorders, recorder'[s].refreshed,
                      clock < recorder[s].at + VelocityWindow
               PROVE  MemberOf(s) \in velocity /\ velocityEnds' >= recorder[s].at + VelocityWindow
    BY <1>3, <1>5 DEF RefreshedIsAlive, ExpireMembers, GuardInv, GuardTypeOK
  <2>1. MemberOf(s) \in velocity
    <3>1. CASE s = r
      BY <1>1, <1>3, <3>1 DEF Calls
    <3>2. CASE s # r
      BY <1>3, <3>2 DEF GuardInv, RefreshedIsAlive
    <3> QED BY <3>1, <3>2
  <2>2. recorder[s].at \in Nat /\ recorder[s].at <= clock
    BY DEF GuardInv, GuardTypeOK, Calls, RecorderTimes
  <2>3. velocityEnds' = clock + VelocityWindow
    BY <2>1 DEF ExpireMembers
  <2> QED BY <1>1, <2>1, <2>2, <2>3, Periods
<1>9. PrunedIsRecent'
  BY <1>3 DEF GuardInv, GuardTypeOK, Calls, PrunedIsRecent, MembersAreWritten, ExpireMembers
<1> QED BY <1>4, <1>6, <1>7, <1>8, <1>9 DEF GuardInv

LEMMA RestOfRecorderKeepsGuardInv ==
  ASSUME GuardInv, NEW r \in Recorders, CountAttempt(r) \/ RecorderDies(r)
  PROVE  GuardInv'
<1>1. GuardTypeOK'
  BY DEF GuardInv, GuardTypeOK, Calls, CountAttempt, RecorderDies, RecorderPcs
<1>2. \A s \in Recorders : s # r => recorder'[s] = recorder[s]
  BY DEF GuardInv, GuardTypeOK, Calls, CountAttempt, RecorderDies
<1>3. /\ recorder'[r].at = recorder[r].at
      /\ recorder'[r].added = recorder[r].added
      /\ recorder'[r].refreshed = recorder[r].refreshed
      /\ Written(r)' <=> Written(r)
      /\ recorder[r].pc = "incr" => recorder'[r].pc \in { "done", "dead" }
      /\ recorder[r].pc \in { "zadd", "expire", "incr" }
  BY DEF GuardInv, GuardTypeOK, Calls, CountAttempt, RecorderDies, Written
<1>4. \A s \in Recorders : MemberOf(s)' = MemberOf(s) /\ (Written(s)' <=> Written(s))
  BY <1>2, <1>3 DEF MemberOf, Written
<1>5. UNCHANGED <<clock, velocity, velocityEnds, gate>>
  BY DEF CountAttempt, RecorderDies
<1>6. RecorderTimes'
  BY <1>2, <1>3, <1>4, <1>5 DEF GuardInv, RecorderTimes
<1>7. MembersAreWritten'
  BY <1>4, <1>5 DEF GuardInv, MembersAreWritten
<1>8. RefreshedIsAlive'
  BY <1>2, <1>3, <1>4, <1>5 DEF GuardInv, RefreshedIsAlive
<1>9. PrunedIsRecent'
  BY <1>2, <1>3, <1>5 DEF GuardInv, PrunedIsRecent, MembersAreWritten
<1> QED BY <1>1, <1>6, <1>7, <1>8, <1>9 DEF GuardInv

LEMMA VerdictType ==
  \A found, action : Verdict(found, action) \in { "passed", "denied", "stopped" }
BY DEF Verdict

\* A gate that reads changes its own record only, and not the time at which it
\* pruned.
LEMMA GateReadsOne ==
  ASSUME GuardTypeOK, NEW c \in Cases, NEW guard \in Guards, NEW exhausted \in BOOLEAN,
         NEW pc \in GatePcs \ { "velocity" }, GateReads(c, guard, exhausted, pc)
  PROVE  /\ gate' \in [Cases -> [pc : GatePcs, found : SUBSET Guards, pruned : Nat]]
         /\ \A b \in Cases : /\ gate'[b].pruned = gate[b].pruned
                             /\ gate'[b].pc = "velocity" => gate[b].pc = "velocity"
                             /\ b # c => gate'[b] = gate[b]
<1> DEFINE f == IF exhausted THEN gate[c].found \cup { guard } ELSE gate[c].found
           x == [ pc |-> pc, found |-> f, pruned |-> gate[c].pruned ]
<1>1. gate[c] \in [pc : GatePcs, found : SUBSET Guards, pruned : Nat]
  BY DEF GuardTypeOK
<1>2. f \in SUBSET Guards
  BY <1>1
<1>3. gate' = [gate EXCEPT ![c] = x]
  BY DEF GateReads, GuardTypeOK
<1> HIDE DEF f
<1>4. x \in [pc : GatePcs, found : SUBSET Guards, pruned : Nat] /\ x.pc # "velocity"
  BY <1>1, <1>2
<1>5. x.pruned = gate[c].pruned
  OBVIOUS
<1> HIDE DEF x
<1> QED BY <1>3, <1>4, <1>5 DEF GuardTypeOK

\* So does a gate that judges, and it forgets what it has read.
LEMMA GateChanges ==
  ASSUME GuardTypeOK, NEW c \in Cases,
         ReadDaily(c) \/ ReadCooldown(c) \/ ReadVelocity(c) \/ Judge(c)
  PROVE  /\ gate' \in [Cases -> [pc : GatePcs, found : SUBSET Guards, pruned : Nat]]
         /\ \A b \in Cases : /\ gate'[b].pruned \in { 0, gate[b].pruned }
                             /\ gate'[b].pc = "velocity" =>
                                  gate[b].pc = "velocity" /\ gate'[b].pruned = gate[b].pruned
                             /\ b # c => gate'[b] = gate[b]
<1>1. CASE ReadDaily(c)
  <2>1. "daily" \in Guards /\ "cooldown" \in GatePcs \ { "velocity" }
    BY DEF Guards, GatePcs
  <2> DEFINE b == daily[Day(clock)] >= MaxDailyAttempts
  <2>2. b \in BOOLEAN /\ GateReads(c, "daily", b, "cooldown")
    BY <1>1 DEF ReadDaily
  <2> HIDE DEF b
  <2> QED BY <2>1, <2>2, GateReadsOne
<1>2. CASE ReadCooldown(c)
  <2>1. "cooldown" \in Guards /\ "prune" \in GatePcs \ { "velocity" }
    BY DEF Guards, GatePcs
  <2> DEFINE b == clock < cooldown[c]
  <2>2. b \in BOOLEAN /\ GateReads(c, "cooldown", b, "prune")
    BY <1>2 DEF ReadCooldown
  <2> HIDE DEF b
  <2> QED BY <2>1, <2>2, GateReadsOne
<1>3. CASE ReadVelocity(c)
  <2>1. "velocity" \in Guards /\ "judge" \in GatePcs \ { "velocity" }
    BY DEF Guards, GatePcs
  <2> DEFINE b == Cardinality(velocity) >= VelocityThreshold
  <2>2. b \in BOOLEAN /\ GateReads(c, "velocity", b, "judge")
    BY <1>3 DEF ReadVelocity
  <2> HIDE DEF b
  <2> QED BY <2>1, <2>2, GateReadsOne
<1>4. CASE Judge(c)
  <2>1. PICK action : gate' = [gate EXCEPT ![c] = [ pc |-> Verdict(gate[c].found, action),
                                                   found |-> {}, pruned |-> 0 ]]
    BY <1>4 DEF Judge
  <2>2. Verdict(gate[c].found, action) \in GatePcs \ { "velocity" }
    BY VerdictType DEF GatePcs
  <2> QED BY <2>1, <2>2 DEF GuardTypeOK
<1> QED BY <1>1, <1>2, <1>3, <1>4

LEMMA GateStepKeepsGuardInv ==
  ASSUME GuardInv, NEW c \in Cases, GateStep(c)
  PROVE  GuardInv'
<1>1. UNCHANGED <<clock, recorder>>
  BY DEF GateStep, ReadDaily, ReadCooldown, Prune, ReadVelocity, Judge
<1>2. CASE Prune(c)
  <2>1. GuardTypeOK'
    <3>1. gate' = [gate EXCEPT ![c].pc = "velocity", ![c].pruned = clock]
      BY <1>2 DEF Prune
    <3>2. gate' \in [Cases -> [pc : GatePcs, found : SUBSET Guards, pruned : Nat]]
      BY <3>1, ClockType DEF GuardInv, GuardTypeOK, GatePcs
    <3>3. velocityEnds' \in Nat /\ UNCHANGED <<clock, recorder>>
      BY <1>2, Periods DEF GuardInv, GuardTypeOK, Prune
    <3> QED BY <3>2, <3>3 DEF GuardInv, GuardTypeOK
  <2>2. RecorderTimes'
    BY <1>1 DEF GuardInv, RecorderTimes, Written
  <2>3. MembersAreWritten'
    BY <1>1, <1>2 DEF GuardInv, MembersAreWritten, Written, MemberOf, Prune
  <2>4. RefreshedIsAlive'
    BY <1>1, <1>2 DEF GuardInv, RefreshedIsAlive, MemberOf, Prune
  <2>5. ASSUME NEW m \in velocity'
        PROVE  recorder[m.by].added + VelocityWindow > clock
    <3>1. m \in velocity /\ m.score + VelocityWindow > clock
      BY <1>2, <2>5 DEF Prune
    <3>2. /\ m.by \in Recorders /\ m.score = recorder[m.by].at
          /\ recorder[m.by].at <= recorder[m.by].added
      BY <3>1 DEF GuardInv, MembersAreWritten, MemberOf, RecorderTimes
    <3>3. clock \in Nat /\ recorder[m.by] \in Calls
      BY <3>2, ClockType DEF GuardInv, GuardTypeOK
    <3> QED BY <3>1, <3>2, <3>3, Periods DEF Calls
  <2>6. PrunedIsRecent'
    BY <1>1, <1>2, <2>5 DEF GuardInv, GuardTypeOK, PrunedIsRecent, Prune
  <2> QED BY <2>1, <2>2, <2>3, <2>4, <2>6 DEF GuardInv
<1>3. CASE ReadDaily(c) \/ ReadCooldown(c) \/ ReadVelocity(c) \/ Judge(c)
  <2>1. UNCHANGED <<velocity, velocityEnds>>
    BY <1>3 DEF ReadDaily, ReadCooldown, ReadVelocity, Judge
  <2>2. GuardTypeOK'
    BY <1>3, <1>1, <2>1, GateChanges DEF GuardInv, GuardTypeOK
  <2>3. \A b \in Cases : /\ gate'[b].pruned \in { 0, gate[b].pruned }
                         /\ gate'[b].pc = "velocity" =>
                              gate[b].pc = "velocity" /\ gate'[b].pruned = gate[b].pruned
    BY <1>3, GateChanges DEF GuardInv
  <2>4. RecorderTimes' /\ MembersAreWritten' /\ RefreshedIsAlive'
    BY <1>1, <2>1 DEF GuardInv, RecorderTimes, MembersAreWritten, RefreshedIsAlive, Written, MemberOf
  <2>5. PrunedIsRecent'
    BY <1>1, <2>1, <2>3, ClockType DEF GuardInv, PrunedIsRecent
  <2> QED BY <2>2, <2>4, <2>5 DEF GuardInv
<1> QED BY <1>2, <1>3 DEF GateStep

LEMMA GuardStepKeepsGuardInv == GuardInv /\ GuardStep => GuardInv'
BY SetCooldownKeepsGuardInv, AddMemberKeepsGuardInv, ExpireMembersKeepsGuardInv,
  RestOfRecorderKeepsGuardInv, GateStepKeepsGuardInv DEF GuardStep

LEMMA GuardsUnchanged == GuardInv /\ UNCHANGED guardVars => GuardInv'
BY DEF guardVars, GuardInv, GuardTypeOK, RecorderTimes, MembersAreWritten, RefreshedIsAlive,
  PrunedIsRecent, Written, MemberOf

-----------------------------------------------------------------------------
\* Each member was written by a call of its own, and recently.
LEMMA MembersAreRecentCalls ==
  ASSUME GuardInv, NEW c \in Cases, gate[c].pc = "velocity"
  PROVE  Cardinality(velocity) <= Cardinality(Recent(c)) /\ Cardinality(velocity) \in Nat
<1> DEFINE f == [m \in velocity |-> m.by]
<1>1. \A m \in velocity : m.by \in Recent(c)
  BY DEF GuardInv, MembersAreWritten, PrunedIsRecent, Recent, Written
<1>2. \A m, n \in velocity : m.by = n.by => m = n
  BY DEF GuardInv, MembersAreWritten
<1>3. f \in Injection(velocity, Recent(c))
  BY <1>1, <1>2 DEF Injection, IsInjective
<1>4. IsFiniteSet(Recent(c))
  BY GuardAssumption, FS_Subset DEF Recent
<1>5. IsFiniteSet(velocity) /\ Cardinality(velocity) <= Cardinality(Recent(c))
  BY <1>3, <1>4, FS_Injection
<1> QED BY <1>5, FS_CardinalityType

\* Only the count of the velocity window finds it suspicious.
LEMMA StoppedByRecentAttempts ==
  ASSUME GuardInv, [RedisNext]_redisVars, NEW c \in Cases,
         "velocity" \in gate'[c].found \ gate[c].found
  PROVE  Cardinality(Recent(c)) >= VelocityThreshold
<1>1. ASSUME NEW d \in Cases, GateStep(d) PROVE d = c /\ ReadVelocity(c)
  <2>1. d = c
    <3>1. CASE Prune(d)
      BY <3>1 DEF Prune, GuardInv, GuardTypeOK
    <3>2. CASE ~Prune(d)
      BY <1>1, <3>2, GateChanges DEF GateStep, GuardInv
    <3> QED BY <3>1, <3>2
  <2>2. ~Prune(c) /\ ~Judge(c)
    <3>1. CASE Prune(c)
      BY <3>1 DEF Prune, GuardInv, GuardTypeOK
    <3>2. CASE Judge(c)
      <4>1. gate'[c].found = {}
        BY <3>2 DEF Judge, GuardInv, GuardTypeOK
      <4> QED BY <4>1
    <3> QED BY <3>1, <3>2
  <2>3. ~ReadDaily(c) /\ ~ReadCooldown(c)
    BY DEF ReadDaily, ReadCooldown, GateReads, GuardInv, GuardTypeOK
  <2> QED BY <1>1, <2>1, <2>2, <2>3 DEF GateStep
<1>2. UNCHANGED gate \/ ReadVelocity(c)
  BY <1>1 DEF RedisNext, redisVars, guardVars, Tick, GuardStep, SetCooldown, AddMember,
    ExpireMembers, CountAttempt, RecorderDies
<1>3. ReadVelocity(c) /\ gate[c].pc = "velocity"
  BY <1>2 DEF ReadVelocity
<1>4. Cardinality(velocity) >= VelocityThreshold
  <2> DEFINE b == Cardinality(velocity) >= VelocityThreshold
  <2> SUFFICES ASSUME ~b PROVE FALSE
    OBVIOUS
  <2>1. GateReads(c, "velocity", b, "judge")
    BY <1>3 DEF ReadVelocity
  <2> HIDE DEF b
  <2>2. gate'[c].found = gate[c].found
    BY <2>1 DEF GateReads, GuardInv, GuardTypeOK
  <2> QED BY <2>2
<1>5. Cardinality(Recent(c)) \in Nat
  BY GuardAssumption, FS_Subset, FS_CardinalityType DEF Recent
<1> QED BY <1>3, <1>4, <1>5, MembersAreRecentCalls, Periods

-----------------------------------------------------------------------------
RequestPcs == { "idle", "incr", "expire", "admitted", "refused", "dead" }

RateTypeOK ==
  /\ clock \in 0..MaxClock
  /\ counter \in [Rate!Windows -> Nat]
  /\ request \in [Requests -> [pc : RequestPcs, window : Rate!Windows \cup {0}]]
  /\ \A q \in Requests : request[q].pc # "idle" => request[q].window \in Rate!Windows

\* A counter is at most the number of requests counted in its own window.
CounterIsBounded ==
  \A w \in Rate!Windows : counter[w] <= Cardinality(Rate!CountedIn(w))

RateInv == RateTypeOK /\ CounterIsBounded /\ RefusedOnlyWhenFull

LEMMA CountedIsFinite ==
  ASSUME NEW w
  PROVE  IsFiniteSet(Rate!CountedIn(w)) /\ Cardinality(Rate!CountedIn(w)) \in Nat
BY RedisAssumption, FS_Subset, FS_CardinalityType DEF Rate!CountedIn

LEMMA RateInvInit == RedisInit => RateInv
<1> SUFFICES ASSUME RedisInit PROVE RateInv
  OBVIOUS
<1>1. RateTypeOK
  BY Periods DEF RedisInit, GuardInit, Rate!RateInit, RateTypeOK, RequestPcs
<1>2. CounterIsBounded
  BY CountedIsFinite DEF RedisInit, Rate!RateInit, CounterIsBounded
<1>3. RefusedOnlyWhenFull
  BY DEF RedisInit, Rate!RateInit, RefusedOnlyWhenFull
<1> QED BY <1>1, <1>2, <1>3 DEF RateInv

\* The clock may tick and a counter may expire: no request changes.
LEMMA ExpireCountersKeepsRateInv ==
  ASSUME RateInv, Tick, Rate!ExpireCounters
  PROVE  RateInv'
<1>1. \A w : Rate!CountedIn(w)' = Rate!CountedIn(w)
  BY DEF Rate!ExpireCounters, Rate!CountedIn
<1>2. RateTypeOK'
  BY Periods DEF RateInv, RateTypeOK, Tick, Rate!ExpireCounters
<1>3. CounterIsBounded'
  BY <1>1, CountedIsFinite DEF RateInv, CounterIsBounded, Rate!ExpireCounters
<1>4. RefusedOnlyWhenFull'
  BY <1>1 DEF RateInv, RefusedOnlyWhenFull, Rate!ExpireCounters
<1> QED BY <1>2, <1>3, <1>4 DEF RateInv

LEMMA RatesUnchanged ==
  ASSUME RateInv, UNCHANGED <<clock, counter, counterEnds, request>> \/
         (GuardStep /\ UNCHANGED <<counter, counterEnds, request>>)
  PROVE  RateInv'
<1>1. UNCHANGED <<clock, counter, request>>
  BY DEF GuardStep, SetCooldown, AddMember, ExpireMembers, CountAttempt, RecorderDies, GateStep,
    ReadDaily, ReadCooldown, Prune, ReadVelocity, Judge
<1> QED BY <1>1 DEF RateInv, RateTypeOK, CounterIsBounded, RefusedOnlyWhenFull, Rate!CountedIn

LEMMA ArriveKeepsRateInv ==
  ASSUME RateInv, NEW r \in Requests, Rate!Arrive(r)
  PROVE  RateInv'
<1>1. Rate!WindowOf(clock) \in Rate!Windows
  BY DEF RateInv, RateTypeOK, Rate!Windows
<1>2. RateTypeOK'
  BY <1>1 DEF RateInv, RateTypeOK, RequestPcs, Rate!Arrive
<1>3. \A w : Rate!CountedIn(w)' = Rate!CountedIn(w)
  BY DEF RateInv, RateTypeOK, Rate!CountedIn, Rate!Arrive
<1>4. CounterIsBounded'
  BY <1>3 DEF RateInv, CounterIsBounded, Rate!Arrive
<1>5. RefusedOnlyWhenFull'
  BY <1>3 DEF RateInv, RateTypeOK, RefusedOnlyWhenFull, Rate!Arrive
<1> QED BY <1>2, <1>4, <1>5 DEF RateInv

LEMMA IncrementKeepsRateInv ==
  ASSUME RateInv, NEW r \in Requests, Rate!Increment(r)
  PROVE  RateInv'
<1>0. PICK key : key = request[r].window
  OBVIOUS
<1> USE <1>0
<1> DEFINE count == counter[key] + 1
<1>1. /\ request[r].pc = "incr" /\ key \in Rate!Windows
      /\ counter[key] \in Nat
  BY DEF RateInv, RateTypeOK, Rate!Increment
<1>2. /\ counter' = [counter EXCEPT ![key] = count]
      /\ request' = [request EXCEPT ![r].pc =
           IF count = 1 THEN "expire" ELSE IF count > MaxRequests THEN "refused" ELSE "admitted"]
      /\ UNCHANGED clock
  BY DEF Rate!Increment, Rate!KeyOf
<1>3. RateTypeOK'
  BY <1>1, <1>2 DEF RateInv, RateTypeOK, RequestPcs
<1>4. \A w : w # key => Rate!CountedIn(w)' = Rate!CountedIn(w)
  BY <1>1, <1>2 DEF RateInv, RateTypeOK, Rate!CountedIn
<1>5. Rate!CountedIn(key)' = Rate!CountedIn(key) \cup {r}
  BY <1>1, <1>2 DEF RateInv, RateTypeOK, Rate!CountedIn
<1>6. Cardinality(Rate!CountedIn(key))' = Cardinality(Rate!CountedIn(key)) + 1
  <2>1. r \notin Rate!CountedIn(key)
    BY <1>1 DEF Rate!CountedIn
  <2> QED BY <1>5, <2>1, CountedIsFinite, FS_AddElement
<1>7. \A w : /\ Cardinality(Rate!CountedIn(w))' \in Nat
             /\ Cardinality(Rate!CountedIn(w))' >= Cardinality(Rate!CountedIn(w))
  <2> TAKE w
  <2>1. CASE w = key
    BY <2>1, <1>6, CountedIsFinite
  <2>2. CASE w # key
    BY <2>2, <1>4, CountedIsFinite
  <2> QED BY <2>1, <2>2
<1>8. CounterIsBounded'
  BY <1>1, <1>2, <1>4, <1>6, CountedIsFinite DEF RateInv, RateTypeOK, CounterIsBounded
<1>9. RefusedOnlyWhenFull'
  <2> SUFFICES ASSUME NEW q \in Requests, request'[q].pc = "refused",
                      NEW w, w = request[q].window
               PROVE  Cardinality(Rate!CountedIn(w))' > MaxRequests
    BY <1>2 DEF RefusedOnlyWhenFull, RateInv, RateTypeOK
  <2>1. CASE q = r
    BY <2>1, <1>1, <1>2, <1>6, CountedIsFinite, RedisAssumption
      DEF RateInv, RateTypeOK, CounterIsBounded
  <2>2. CASE q # r
    <3>1. request[q].pc = "refused"
      BY <2>2, <1>2 DEF RateInv, RateTypeOK
    <3>2. Cardinality(Rate!CountedIn(w)) > MaxRequests
      BY <3>1 DEF RateInv, RefusedOnlyWhenFull
    <3>3. /\ Cardinality(Rate!CountedIn(w)) \in Nat
          /\ MaxRequests \in Nat
      BY CountedIsFinite, RedisAssumption
    <3>4. /\ Cardinality(Rate!CountedIn(w))' \in Nat
          /\ Cardinality(Rate!CountedIn(w))' >= Cardinality(Rate!CountedIn(w))
      BY <1>7
    <3> QED BY <3>2, <3>3, <3>4
  <2> QED BY <2>1, <2>2
<1> QED BY <1>3, <1>8, <1>9 DEF RateInv

\* One that goes on after its INCR was counted already.
LEMMA RestOfRequestKeepsRateInv ==
  ASSUME RateInv, NEW r \in Requests, Rate!SetExpiry(r) \/ Rate!RequestDies(r)
  PROVE  RateInv'
<1>1. /\ request[r].pc = "expire"
      /\ request'[r].pc \in { "refused", "admitted", "dead" }
      /\ request'[r].pc = "refused" => 1 > MaxRequests
      /\ UNCHANGED <<clock, counter>>
  BY DEF RateInv, RateTypeOK, Rate!SetExpiry, Rate!RequestDies
<1>2. RateTypeOK'
  BY DEF RateInv, RateTypeOK, RequestPcs, Rate!SetExpiry, Rate!RequestDies
<1>3. \A q \in Requests : /\ request'[q].window = request[q].window
                          /\ q # r => request'[q] = request[q]
  BY DEF RateInv, RateTypeOK, Rate!SetExpiry, Rate!RequestDies
<1>4. \A w : Rate!CountedIn(w)' = Rate!CountedIn(w)
  BY <1>1, <1>3 DEF Rate!CountedIn
<1>5. CounterIsBounded'
  BY <1>1, <1>4 DEF RateInv, CounterIsBounded
<1>6. RefusedOnlyWhenFull'
  <2> SUFFICES ASSUME NEW q \in Requests, request'[q].pc = "refused"
               PROVE  Cardinality(Rate!CountedIn(request[q].window)) > MaxRequests
    BY <1>3, <1>4 DEF RefusedOnlyWhenFull
  <2>1. CASE q = r
    <3>1. r \in Rate!CountedIn(request[r].window)
      BY <1>1 DEF Rate!CountedIn
    <3>2. Cardinality(Rate!CountedIn(request[r].window)) # 0
      BY <3>1, CountedIsFinite, FS_EmptySet
    <3> QED BY <2>1, <1>1, <3>2, CountedIsFinite, RedisAssumption
  <2>2. CASE q # r
    BY <2>2, <1>3 DEF RateInv, RefusedOnlyWhenFull
  <2> QED BY <2>1, <2>2
<1> QED BY <1>2, <1>5, <1>6 DEF RateInv

-----------------------------------------------------------------------------
\* The invariants of the guards and of the counters hold in every state.
THEOREM SpecRedisInv == RedisSpec => [](GuardInv /\ RateInv)
<1>1. RedisInit => GuardInv /\ RateInv
  BY GuardInvInit, RateInvInit DEF RedisInit
<1>2. GuardInv /\ RateInv /\ [RedisNext]_redisVars => (GuardInv /\ RateInv)'
  <2> SUFFICES ASSUME GuardInv, RateInv, [RedisNext]_redisVars
               PROVE  GuardInv' /\ RateInv'
    OBVIOUS
  <2>1. CASE Tick /\ Rate!ExpireCounters
    BY <2>1, TickKeepsGuardInv, ExpireCountersKeepsRateInv
  <2>2. CASE GuardStep /\ UNCHANGED <<counter, counterEnds, request>>
    BY <2>2, GuardStepKeepsGuardInv, RatesUnchanged
  <2>3. CASE Rate!RateStep /\ UNCHANGED <<cooldown, velocity, velocityEnds, daily, recorder, gate>>
    <3>1. UNCHANGED guardVars
      BY <2>3 DEF guardVars, Rate!RateStep, Rate!Arrive, Rate!Increment, Rate!SetExpiry, Rate!RequestDies
    <3> QED BY <2>3, <3>1, GuardsUnchanged, ArriveKeepsRateInv, IncrementKeepsRateInv,
              RestOfRequestKeepsRateInv DEF Rate!RateStep
  <2>4. CASE UNCHANGED redisVars
    <3>1. UNCHANGED guardVars /\ UNCHANGED <<clock, counter, counterEnds, request>>
      BY <2>4 DEF redisVars, guardVars
    <3> QED BY <3>1, GuardsUnchanged, RatesUnchanged
  <2> QED BY <2>1, <2>2, <2>3, <2>4 DEF RedisNext
<1> QED BY <1>1, <1>2, PTL DEF RedisSpec

\* A recorded attempt counts for the whole of its window, once its own EXPIRE
\* has come in time, for any number of calls that share the key or die over it.
THEOREM AttemptsCount == RedisSpec => []CountedForItsWindow
<1>1. GuardInv => CountedForItsWindow
  BY DEF GuardInv, RefreshedIsAlive, CountedForItsWindow
<1> QED BY <1>1, SpecRedisInv, PTL

\* No case is stopped by attempts older than the velocity window.
THEOREM OldAttemptsDoNotStop == RedisSpec => NotStoppedByOldAttempts
<1>1. GuardInv /\ [RedisNext]_redisVars =>
        [\A c \in Cases :
           "velocity" \in gate'[c].found \ gate[c].found
             => Cardinality(Recent(c)) >= VelocityThreshold]_guardVars
  BY StoppedByRecentAttempts
<1> QED BY <1>1, SpecRedisInv, PTL DEF RedisSpec, NotStoppedByOldAttempts

\* A refused client has sent more than the limit within that very window.
THEOREM RefusalsAreEarned == RedisSpec => []RefusedOnlyWhenFull
<1>1. RateInv => RefusedOnlyWhenFull
  BY DEF RateInv, RefusedOnlyWhenFull
<1> QED BY <1>1, SpecRedisInv, PTL
=============================================================================
