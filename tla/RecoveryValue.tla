---------------------------- MODULE RecoveryValue ----------------------------
(***************************************************************************)
(* What the statistics of past recoveries are used for: a case of the      *)
(* benchmark, which ranks the actions by expected value before each round, *)
(* as the agent's tools do, and an A/B experiment over two actions.  Both  *)
(* read the outcome tables by one statement after the other (READ          *)
(* COMMITTED), while workers and other benchmark runs commit rows.         *)
(* Readers change nothing that others read, so one of them is enough.      *)
(*                                                                         *)
(* Rows of one failure code and one amount bucket; the real rows are those *)
(* of the merchant of the case.  Money is in whole units, a probability a  *)
(* fraction, the smoothing parameters alpha and beta are 1, as configured. *)
(***************************************************************************)
EXTENDS PolicyEngine

CONSTANTS
  Candidates,          \* INTERVENTIONAL_ACTIONS, in their order
  FirstTables,         \* synthetic outcomes there may be to begin with
  TrainingRows,        \* what _ensure_training_data of another run adds
  MinSampleSize,       \* RecoveryConfig.min_sample_size
  ActionCost,          \* by action
  DefaultProbability,  \* by action, as [num, den]
  FailureCode, Amount, RiskScore,  \* features of the benchmark case
  RiskCost,            \* its expected_risk_cost
  PolicyConfigs,       \* configurations the benchmark may run with
  ArmA, ArmB,          \* the actions of the experiment
  MaxRows              \* bound: real outcomes of an action

Actions == { Candidates[i] : i \in 1..Len(Candidates) }

\* Counts of rows, and the shares of recovered ones: those between 0 and 1.
Stats  == [successes : Nat, total : Nat]
NoRows == [successes |-> 0, total |-> 0]
Rates  == { s \in Stats : s.successes <= s.total }

\* Synthetic rows of the case's merchant, of others with its payment method,
\* and of other payment methods: each tier counts more of them.
Origins == { "merchant", "method", "other" }
Tables  == [Origins -> [Actions -> Rates]]

\* The columns are integers; PUT /policy/config would also take negative ones,
\* with which a benchmark case has no round at all.
ASSUME RecoveryValueAssumption ==
  /\ Candidates \in Seq(InterventionActions) /\ Candidates # <<>>
  /\ FirstTables \subseteq Tables /\ TrainingRows \in Tables
  /\ MinSampleSize \in Nat
  /\ \A a \in Actions :
       LET p == DefaultProbability[a] IN
       p.num \in Nat /\ p.den \in Nat /\ 0 < p.num /\ p.num < p.den
  /\ \A cfg \in PolicyConfigs : cfg.maxRetryCount \in Nat /\ cfg.maxInterventions \in Nat
  /\ {ArmA, ArmB} \subseteq Actions

VARIABLES
  real,       \* merchant_recovery_outcomes: counts by action
  synthetic,  \* synthetic_recovery_outcomes: counts by origin and action
  trained,    \* the other benchmark run has committed
  reader      \* the benchmark case or the experiment under way

valueVars == <<real, synthetic, trained, reader>>

-----------------------------------------------------------------------------
(* outcomes_repository: counts of rows, and of recovered ones among them.  *)

\* Mutant: the real rows are counted among the successes only.
PlusSuccesses(s, t) == [successes |-> s.successes + t.successes, total |-> t.total]

Plus(s, t) == [successes |-> s.successes + t.successes, total |-> s.total + t.total]

MerchantStats(a) == synthetic["merchant"][a]
SegmentStats(a)  == Plus(MerchantStats(a), synthetic["method"][a])
BaselineStats(a) == Plus(SegmentStats(a), synthetic["other"][a])

-----------------------------------------------------------------------------
(* The estimate, and the expected value it leads to.                       *)

Smooth(s, tier) ==
  [num |-> s.successes + 1, den |-> s.total + 2, tier |-> tier, sample |-> s.total]

Default(a) ==
  [num |-> DefaultProbability[a].num, den |-> DefaultProbability[a].den,
   tier |-> "deterministic_default", sample |-> 0]

\* calculate_expected_value, times the estimate's denominator.
ScaledValue(a, e) == e.num * Amount - (ActionCost[a] + RiskCost) * e.den

WorthMore(a, e, b, f) == ScaledValue(a, e) * f.den > ScaledValue(b, f) * e.den

WorthTrying(a, e) == ScaledValue(a, e) > 0

\* The first of the candidates with the highest value: the sort is stable.
IsBest(i, estimates) ==
  \A j \in 1..Len(Candidates) :
    /\ ~ WorthMore(Candidates[j], estimates[j], Candidates[i], estimates[i])
    /\ j < i => WorthMore(Candidates[i], estimates[i], Candidates[j], estimates[j])

-----------------------------------------------------------------------------
NewCase ==
  { [kind |-> "case", pc |-> "real", seen |-> NoRows, estimates |-> <<>>,
     actions |-> 0, retries |-> 0, outcome |-> "none", policy |-> cfg] : cfg \in PolicyConfigs }

NewExperiment ==
  [kind |-> "experiment", pc |-> "synthetic_a", a |-> NoRows, b |-> NoRows, result |-> "none"]

ValueInit ==
  /\ real = [a \in Actions |-> NoRows]
  /\ synthetic \in FirstTables
  /\ trained = FALSE
  /\ reader \in NewCase \cup {NewExperiment}

\* record_merchant_outcome, in the transaction of some worker.
OutcomeIsCommitted(a, recovered) ==
  /\ real[a].total < MaxRows
  /\ real' = [real EXCEPT ![a] =
       Plus(@, [successes |-> IF recovered THEN 1 ELSE 0, total |-> 1])]
  /\ UNCHANGED <<synthetic, trained, reader>>

\* _ensure_training_data of a run that found too few rows: all of them or none.
TrainingIsCommitted ==
  /\ ~ trained
  /\ trained' = TRUE
  /\ synthetic' = [o \in Origins |-> [a \in Actions |-> Plus(synthetic[o][a], TrainingRows[o][a])]]
  /\ UNCHANGED <<real, reader>>

-----------------------------------------------------------------------------
(* run_intelligent_recovery_case: a round of evaluations, then one action. *)

Todo == Candidates[Len(reader.estimates) + 1]

CaseReads(pc) == reader.kind = "case" /\ reader.pc = pc

Estimated(e) ==
  reader' = [reader EXCEPT
    !.estimates = Append(@, e), !.seen = NoRows,
    !.pc = IF Len(reader.estimates) + 1 = Len(Candidates) THEN "act" ELSE "real"]

\* A tier is used if it has enough rows, else the next statement is sent.
UseTier(s, tier, next) ==
  IF s.total >= MinSampleSize THEN Estimated(Smooth(s, tier))
  ELSE reader' = [reader EXCEPT !.pc = next]

ReadReal ==
  /\ CaseReads("real")
  /\ reader' = [reader EXCEPT !.pc = "merchant", !.seen = real[Todo]]
  /\ UNCHANGED <<real, synthetic, trained>>

ReadMerchant ==
  /\ CaseReads("merchant")
  /\ UseTier(Plus(reader.seen, MerchantStats(Todo)), "merchant_specific", "segment")
  /\ UNCHANGED <<real, synthetic, trained>>

ReadSegment ==
  /\ CaseReads("segment")
  /\ UseTier(SegmentStats(Todo), "segment", "baseline")
  /\ UNCHANGED <<real, synthetic, trained>>

ReadBaseline ==
  /\ CaseReads("baseline")
  /\ LET s == BaselineStats(Todo) IN
     Estimated(IF s.total >= MinSampleSize THEN Smooth(s, "global_baseline") ELSE Default(Todo))
  /\ UNCHANGED <<real, synthetic, trained>>

\* Mutant: the interventions of a case are not counted.
PolicyContextUncounted(action) ==
  [failureCode |-> FailureCode, action |-> action, amount |-> Amount,
   retryCount |-> reader.retries, interventionCount |-> 0, dailyAttempts |-> 0,
   riskScore |-> RiskScore, cooldownSatisfied |-> TRUE, suspiciousVelocity |-> FALSE, hour |-> 12]

PolicyContext(action) ==
  [failureCode |-> FailureCode, action |-> action, amount |-> Amount,
   retryCount |-> reader.retries, interventionCount |-> reader.actions, dailyAttempts |-> 0,
   riskScore |-> RiskScore, cooldownSatisfied |-> TRUE, suspiciousVelocity |-> FALSE, hour |-> 12]

EndCase(outcome) == reader' = [reader EXCEPT !.pc = "done", !.outcome = outcome]

\* Nothing is worth its cost, or the policy refuses the best action.
StopCase(best) ==
  LET action  == Candidates[best]
      verdict == Evaluate(PolicyContext(action), reader.policy)
  IN
  /\ CaseReads("act")
  /\ IsBest(best, reader.estimates)
  /\ IF ~ WorthTrying(action, reader.estimates[best]) THEN EndCase("STOPPED")
     ELSE /\ verdict.type # "ALLOW"
          /\ EndCase(IF verdict.escalate THEN "ESCALATED" ELSE "STOPPED")
  /\ UNCHANGED <<real, synthetic, trained>>

\* The action is taken and recovers the case or not; there are as many rounds
\* as the policy allows retries, and one.
ActOnCase(best) ==
  LET action == Candidates[best]
      acted  == [reader EXCEPT !.actions = @ + 1,
                               !.retries = IF action = "RETRY" THEN @ + 1 ELSE @]
  IN
  /\ CaseReads("act")
  /\ IsBest(best, reader.estimates)
  /\ WorthTrying(action, reader.estimates[best])
  /\ Evaluate(PolicyContext(action), reader.policy).type = "ALLOW"
  /\ \/ reader' = [acted EXCEPT !.pc = "done", !.outcome = "RECOVERED"]
     \/ reader' = IF acted.actions <= reader.policy.maxRetryCount
                    THEN [acted EXCEPT !.pc = "real", !.estimates = <<>>]
                    ELSE [acted EXCEPT !.pc = "done", !.outcome = "FAILED"]
  /\ UNCHANGED <<real, synthetic, trained>>

CaseStep ==
  \/ ReadReal \/ ReadMerchant \/ ReadSegment \/ ReadBaseline
  \/ \E best \in 1..Len(Candidates) : StopCase(best) \/ ActOnCase(best)

-----------------------------------------------------------------------------
(* run_ab_experiment: two statements for each arm, then the test.          *)

ReadArm(pc, arm, s, next) ==
  /\ reader.kind = "experiment" /\ reader.pc = pc
  /\ reader' = [reader EXCEPT ![arm] = Plus(@, s), !.pc = next]
  /\ UNCHANGED <<real, synthetic, trained>>

\* |z| > 1.96, for the difference of two proportions with a pooled variance; a
\* pooled rate of 0 or 1 has no test.
Significant(a, b) ==
  LET n == a.total + b.total
      x == a.successes + b.successes
      d == a.successes * b.total - b.successes * a.total
  IN /\ x \notin { 0, n }
     /\ 10000 * d * d * n > 38416 * a.total * b.total * x * (n - x)

BetterRate(a, b) == a.successes * b.total > b.successes * a.total

\* Mutant: the arm with more recovered cases wins.
ResultByCount(a, b) ==
  CASE a.total < MinSampleSize \/ b.total < MinSampleSize -> "INSUFFICIENT_EVIDENCE"
    [] a.total >= MinSampleSize /\ b.total >= MinSampleSize ->
         IF ~ Significant(a, b) THEN "NOT_SIGNIFICANT"
         ELSE IF a.successes > b.successes THEN "WINNER_A" ELSE "WINNER_B"

Result(a, b) ==
  CASE a.total < MinSampleSize \/ b.total < MinSampleSize -> "INSUFFICIENT_EVIDENCE"
    [] a.total >= MinSampleSize /\ b.total >= MinSampleSize ->
         IF ~ Significant(a, b) THEN "NOT_SIGNIFICANT"
         ELSE IF BetterRate(a, b) THEN "WINNER_A" ELSE "WINNER_B"

Conclude ==
  /\ reader.kind = "experiment" /\ reader.pc = "test"
  /\ reader' = [reader EXCEPT !.pc = "done", !.result = Result(reader.a, reader.b)]
  /\ UNCHANGED <<real, synthetic, trained>>

ExperimentStep ==
  \/ ReadArm("synthetic_a", "a", SegmentStats(ArmA), "real_a")
  \/ ReadArm("real_a", "a", real[ArmA], "synthetic_b")
  \/ ReadArm("synthetic_b", "b", SegmentStats(ArmB), "real_b")
  \/ ReadArm("real_b", "b", real[ArmB], "test")
  \/ Conclude

ValueNext ==
  \/ \E a \in Actions, recovered \in BOOLEAN : OutcomeIsCommitted(a, recovered)
  \/ TrainingIsCommitted
  \/ CaseStep
  \/ ExperimentStep

ValueSpec == ValueInit /\ [][ValueNext]_valueVars

-----------------------------------------------------------------------------
\* Whatever is committed between the statements, what they add up to is a rate:
\* an estimate lies between 0 and 1, from a tier with enough rows, and no arm of
\* an experiment has more successes than attempts.
EstimatesAreRates ==
  IF reader.kind = "case"
    THEN \A i \in 1..Len(reader.estimates) :
           LET e == reader.estimates[i] IN
           /\ 0 < e.num /\ e.num < e.den
           /\ e.tier = "deterministic_default" \/ e.sample >= MinSampleSize
    ELSE /\ reader.a.successes <= reader.a.total
         /\ reader.b.successes <= reader.b.total

\* A benchmark case takes one action more than the policy allows retries at the
\* most, never more interventions or retries than the policy allows, and fails
\* only after all its rounds, which a case that was only ever retried cannot
\* reach: the policy stops it a round earlier.
IntelligentCaseIsBounded ==
  reader.kind = "case" =>
    /\ reader.actions <= reader.policy.maxRetryCount + 1
    /\ reader.actions <= reader.policy.maxInterventions
    /\ reader.retries <= reader.policy.maxRetryCount
    /\ reader.outcome = "FAILED" =>
         /\ reader.actions = reader.policy.maxRetryCount + 1
         /\ reader.retries < reader.actions

\* An experiment names a winner only with enough rows for both arms, and then
\* the one that recovered the larger share of its cases, not the larger number;
\* the order of the arms does not matter.
WinnerIsBetter ==
  reader.kind = "experiment" /\ reader.result \in { "WINNER_A", "WINNER_B" } =>
    /\ reader.a.total >= MinSampleSize /\ reader.b.total >= MinSampleSize
    /\ reader.result = "WINNER_A" <=> BetterRate(reader.a, reader.b)
    /\ reader.result = "WINNER_B" <=> BetterRate(reader.b, reader.a)
=============================================================================
