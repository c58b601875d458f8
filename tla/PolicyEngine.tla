---------------------------- MODULE PolicyEngine ----------------------------
(***************************************************************************)
(* services/policy/engine.py: the pure function evaluate(context, config), *)
(* "the only authority that can approve execution".  Money, risk scores    *)
(* and hours are integers; a failure code is any value.                    *)
(***************************************************************************)
EXTENDS Transitions

CONSTANT
  FailureCodes      \* failure codes of cases, "" of a case without one included

Contexts ==
  [ failureCode        : FailureCodes,
    action             : RecoveryActions,
    amount             : Int,
    retryCount         : Nat,
    interventionCount  : Nat,
    dailyAttempts      : Nat,
    riskScore          : Int,
    cooldownSatisfied  : BOOLEAN,
    suspiciousVelocity : BOOLEAN,
    hour               : 0..23 ]

Configs ==
  [ maxRetryCount      : Int,
    maxInterventions   : Int,
    maxDailyAttempts   : Int,
    maxAmount          : Int,
    highValue          : Int,
    prohibitedRetry    : SUBSET FailureCodes,
    listedCodes        : SUBSET FailureCodes,   \* keys of the mapping below
    allowedActions     : [FailureCodes -> SUBSET RecoveryActions],
    hoursStart         : Int,
    hoursEnd           : Int,
    riskThreshold      : Int ]

ForceAction(a, rule, esc) ==
  [type |-> "FORCE_ACTION", action |-> a, rule |-> rule, escalate |-> esc]
Deny(rule, esc) ==
  [type |-> "DENY", action |-> "NONE", rule |-> rule, escalate |-> esc]
Allow(a) ==
  [type |-> "ALLOW", action |-> a, rule |-> "policy_conditions_satisfied",
   escalate |-> FALSE]

\* The conditions of the rules, each under the name of what it finds.
RetriesUsedUp(x, cfg) == x.retryCount >= cfg.maxRetryCount

Intervenes(x) == x.action \in InterventionActions

InterventionsUsedUp(x, cfg) ==
  Intervenes(x) /\ x.interventionCount >= cfg.maxInterventions

DailyAttemptsUsedUp(x, cfg) ==
  Intervenes(x) /\ x.dailyAttempts >= cfg.maxDailyAttempts

AmountTooLarge(x, cfg) == Intervenes(x) /\ x.amount > cfg.maxAmount
AmountIsHigh(x, cfg)   == Intervenes(x) /\ x.amount > cfg.highValue

RetryProhibited(x, cfg) ==
  x.action = "RETRY" /\ x.failureCode \in cfg.prohibitedRetry

NotListed(x, cfg) ==
  /\ x.failureCode \in cfg.listedCodes
  /\ x.action \notin cfg.allowedActions[x.failureCode]
  /\ x.action # "STOP"

OutsideHours(x, cfg) ==
  /\ x.action \in CommunicationActions
  /\ ~ (cfg.hoursStart <= x.hour /\ x.hour < cfg.hoursEnd)

\* Mutant: a live cooldown key counts as "satisfied".
CooledDown(x, cfg) == x.action = "RETRY" /\ x.cooldownSatisfied

CoolingDown(x, cfg) == x.action = "RETRY" /\ ~ x.cooldownSatisfied

TooRisky(x, cfg) == x.action = "RETRY" /\ x.riskScore >= cfg.riskThreshold

\* evaluate(): the first rule that fires decides.
Evaluate(x, cfg) ==
  IF x.suspiciousVelocity
    THEN ForceAction("STOP", "suspicious_velocity_stop_and_escalate", TRUE)
  ELSE IF RetriesUsedUp(x, cfg)
    THEN ForceAction("STOP", "max_retry_count_exceeded", FALSE)
  ELSE IF InterventionsUsedUp(x, cfg)
    THEN ForceAction("STOP", "max_interventions_per_case_exceeded", FALSE)
  ELSE IF DailyAttemptsUsedUp(x, cfg)
    THEN Deny("max_daily_attempts_per_customer_exceeded", FALSE)
  ELSE IF AmountTooLarge(x, cfg)
    THEN Deny("amount_exceeds_max_automated_recovery_amount", TRUE)
  ELSE IF AmountIsHigh(x, cfg)
    THEN ForceAction("ESCALATE_TO_HUMAN", "high_value_requires_human_approval", TRUE)
  ELSE IF RetryProhibited(x, cfg)
    THEN Deny("prohibited_retry_failure_code", FALSE)
  ELSE IF NotListed(x, cfg)
    THEN Deny("action_not_allowed_for_failure_code", FALSE)
  ELSE IF OutsideHours(x, cfg)
    THEN Deny("outside_allowed_communication_hours", FALSE)
  ELSE IF CoolingDown(x, cfg)
    THEN Deny("cooldown_not_satisfied", FALSE)
  ELSE IF TooRisky(x, cfg)
    THEN Deny("risk_score_exceeds_threshold", FALSE)
  ELSE Allow(x.action)

\* case_orchestrator.py: the rules that stop a case before the agent is asked.
DeterministicStopRules ==
  { "suspicious_velocity_stop_and_escalate", "max_retry_count_exceeded" }

-----------------------------------------------------------------------------
(* What evaluate() promises, said without an order of rules.               *)

\* Everything that has to hold before an action is executed.
Permitted(x, cfg) ==
  /\ ~ x.suspiciousVelocity
  /\ x.retryCount < cfg.maxRetryCount
  /\ x.action \in InterventionActions =>
       /\ x.interventionCount < cfg.maxInterventions
       /\ x.dailyAttempts < cfg.maxDailyAttempts
       /\ x.amount <= cfg.maxAmount
       /\ x.amount <= cfg.highValue
  /\ x.action = "RETRY" =>
       /\ x.failureCode \notin cfg.prohibitedRetry
       /\ x.cooldownSatisfied
       /\ x.riskScore < cfg.riskThreshold
  /\ x.action \in CommunicationActions => x.hour \in cfg.hoursStart..(cfg.hoursEnd - 1)
  /\ \/ x.action = "STOP"
     \/ x.failureCode \notin cfg.listedCodes
     \/ x.action \in cfg.allowedActions[x.failureCode]

\* y is x a while later: counts, amount and risk have only grown, a cooldown
\* may have begun and a velocity alarm may have been raised.
Worse(x, y) ==
  /\ y.failureCode = x.failureCode /\ y.action = x.action /\ y.hour = x.hour
  /\ y.amount >= x.amount
  /\ y.retryCount >= x.retryCount
  /\ y.interventionCount >= x.interventionCount
  /\ y.dailyAttempts >= x.dailyAttempts
  /\ y.riskScore >= x.riskScore
  /\ y.cooldownSatisfied => x.cooldownSatisfied
  /\ x.suspiciousVelocity => y.suspiciousVelocity
=============================================================================
