----------------------------- MODULE PolicyGate -----------------------------
(***************************************************************************)
(* One case's way through the policy engine.  It is asked twice:           *)
(* check_deterministic_stop asks on behalf of STOP before the agent runs,  *)
(* check_action_before_execution asks for the proposed action afterwards.  *)
(* Each time the facts and the active configuration are read afresh, and   *)
(* both may have moved while the agent was thinking.                       *)
(***************************************************************************)
EXTENDS PolicyEngine

CONSTANTS
  Amounts, Counts, Risks, Hours,   \* the values the facts are drawn from
  ActiveConfigs                    \* the configurations that may be in force

Facts ==
  [ failureCode : FailureCodes, action : RecoveryActions, amount : Amounts,
    retryCount : Counts, interventionCount : Counts, dailyAttempts : Counts,
    riskScore : Risks, cooldownSatisfied : BOOLEAN,
    suspiciousVelocity : BOOLEAN, hour : Hours ]

ASSUME PolicyGateAssumption ==
  /\ Amounts \subseteq Int /\ Risks \subseteq Int
  /\ Counts \subseteq Nat
  /\ Hours \subseteq 0..23
  /\ ActiveConfigs \subseteq Configs

VARIABLES
  facts,       \* what build_policy_context would find now
  config,      \* what get_active_config would find now
  stage,       \* "screen", "agent", "gate", "done"
  skipRule,    \* the rule for which the agent was skipped, or "none"
  verdict,     \* the gate's verdict
  moved        \* something moved between the two evaluations

gateVars == <<facts, config, stage, skipRule, verdict, moved>>

NoVerdict == [type |-> "NONE", action |-> "NONE", rule |-> "NONE", escalate |-> FALSE]

GateInit ==
  /\ facts \in { x \in Facts : x.action = "STOP" }
  /\ config \in ActiveConfigs
  /\ stage = "screen"
  /\ skipRule = "none"
  /\ verdict = NoVerdict
  /\ moved = FALSE

\* Mutant: any rule that stops a STOP skips the agent, the last one too.
ScreenAny ==
  LET v == Evaluate(facts, config) IN
  /\ stage = "screen"
  /\ skipRule' = v.rule
  /\ stage' = "gate"
  /\ UNCHANGED <<facts, config, verdict, moved>>

\* check_deterministic_stop, and _record_skipped_decision when it finds a rule.
Screen ==
  LET v == Evaluate(facts, config) IN
  /\ stage = "screen"
  /\ IF v.rule \in DeterministicStopRules
       THEN skipRule' = v.rule /\ stage' = "gate"
       ELSE skipRule' = skipRule /\ stage' = "agent"
  /\ UNCHANGED <<facts, config, verdict, moved>>

\* get_agent_decision: any action at all may be proposed.
Propose(a) ==
  /\ stage = "agent"
  /\ facts' = [facts EXCEPT !.action = a]
  /\ stage' = "gate"
  /\ UNCHANGED <<config, skipRule, verdict, moved>>

\* Time passes, other cases of the customer are acted upon, a reviewer puts a
\* new configuration in force.  The counts of this case stay: its row is held.
WorldMoves ==
  /\ stage \in { "agent", "gate" }
  /\ \E n \in Counts, cool, fast \in BOOLEAN, h \in Hours :
       facts' = [facts EXCEPT !.dailyAttempts = n, !.cooldownSatisfied = cool,
                              !.suspiciousVelocity = fast, !.hour = h]
  /\ config' \in ActiveConfigs
  /\ moved' = TRUE
  /\ UNCHANGED <<stage, skipRule, verdict>>

\* Mutant: the verdict of an earlier evaluation is used again.
GateFromCache ==
  /\ stage = "gate"
  /\ verdict' = IF skipRule # "none" THEN ForceAction("STOP", skipRule, FALSE)
                ELSE Allow(facts.action)
  /\ stage' = "done"
  /\ UNCHANGED <<facts, config, skipRule, moved>>

\* check_action_before_execution.
Gate ==
  /\ stage = "gate"
  /\ verdict' = Evaluate(facts, config)
  /\ stage' = "done"
  /\ UNCHANGED <<facts, config, skipRule, moved>>

GateNext ==
  \/ Screen
  \/ \E a \in RecoveryActions : Propose(a)
  \/ WorldMoves
  \/ Gate

GateSpec == GateInit /\ [][GateNext]_gateVars

-----------------------------------------------------------------------------
GateTypeOK ==
  /\ facts \in Facts
  /\ config \in ActiveConfigs
  /\ stage \in { "screen", "agent", "gate", "done" }
  /\ skipRule \in DeterministicStopRules \cup { "none" }
  /\ verdict.type \in { "NONE", "ALLOW", "DENY", "FORCE_ACTION" }
  /\ moved \in BOOLEAN

\* An action is approved exactly when every condition of the configuration in
\* force at that moment holds of the facts at that moment, in whatever order
\* the rules are tried and whatever was found before the agent ran.
ApprovedIffPermitted ==
  stage = "done" => (verdict.type = "ALLOW" <=> Permitted(facts, config))

\* Skipping the agent changes nothing: while nothing has moved, whatever it had
\* proposed would have been turned into STOP for the same reason.
SkipIsSound ==
  skipRule # "none" /\ ~ moved =>
    \A a \in RecoveryActions :
      LET v == Evaluate([facts EXCEPT !.action = a], config) IN
      v.type = "FORCE_ACTION" /\ v.action = "STOP" /\ v.rule = skipRule

\* Stopping is always possible: a proposed STOP is never denied and never
\* turned into anything else.
StopIsNeverBlocked ==
  stage = "done" /\ facts.action = "STOP" => verdict.action = "STOP"

\* A world that only gets worse never makes an action permissible.
NeverLooser ==
  [][config' = config /\ Worse(facts, facts')
       => (Evaluate(facts', config').type = "ALLOW"
             => Evaluate(facts, config).type = "ALLOW")]_gateVars
=============================================================================
