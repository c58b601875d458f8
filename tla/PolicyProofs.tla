---------------------------- MODULE PolicyProofs ----------------------------
(***************************************************************************)
(* Theorems about the policy engine for every context and configuration,   *)
(* and about the two evaluations of PolicyGate.                            *)
(***************************************************************************)
EXTENDS PolicyGate, TLAPS

\* The ordered rules allow an action exactly when all conditions hold.
LEMMA AllowIffPermitted ==
  ASSUME NEW x \in Contexts, NEW cfg \in Configs
  PROVE  Evaluate(x, cfg).type = "ALLOW" <=> Permitted(x, cfg)
<1> DEFINE Fires == \/ x.suspiciousVelocity
                    \/ RetriesUsedUp(x, cfg) \/ InterventionsUsedUp(x, cfg)
                    \/ DailyAttemptsUsedUp(x, cfg) \/ AmountTooLarge(x, cfg)
                    \/ AmountIsHigh(x, cfg) \/ RetryProhibited(x, cfg)
                    \/ NotListed(x, cfg) \/ OutsideHours(x, cfg)
                    \/ CoolingDown(x, cfg) \/ TooRisky(x, cfg)
<1>1. Evaluate(x, cfg).type = "ALLOW" <=> ~ Fires
  BY DEF Evaluate, ForceAction, Deny, Allow
<1>2. /\ x.retryCount \in Nat /\ x.interventionCount \in Nat /\ x.dailyAttempts \in Nat
      /\ x.amount \in Int /\ x.riskScore \in Int /\ x.hour \in Int
      /\ cfg.maxRetryCount \in Int /\ cfg.maxInterventions \in Int
      /\ cfg.maxDailyAttempts \in Int /\ cfg.maxAmount \in Int /\ cfg.highValue \in Int
      /\ cfg.riskThreshold \in Int /\ cfg.hoursStart \in Int /\ cfg.hoursEnd \in Int
  BY DEF Contexts, Configs
<1>3. ~ Fires <=> Permitted(x, cfg)
  BY <1>2 DEF RetriesUsedUp, Intervenes, InterventionsUsedUp, DailyAttemptsUsedUp,
     AmountTooLarge, AmountIsHigh, RetryProhibited, NotListed, OutsideHours,
     CoolingDown, TooRisky, Permitted
<1>4. QED
  BY <1>1, <1>3

\* Asking on behalf of STOP finds a deterministic rule only if the same rule
\* would stop every action.
LEMMA DeterministicStopIsForAll ==
  ASSUME NEW x \in Contexts, NEW cfg \in Configs, x.action = "STOP",
         Evaluate(x, cfg).rule \in DeterministicStopRules,
         NEW a \in RecoveryActions
  PROVE  LET v == Evaluate([x EXCEPT !.action = a], cfg)
         IN  /\ v.type = "FORCE_ACTION" /\ v.action = "STOP"
             /\ v.rule = Evaluate(x, cfg).rule
<1> DEFINE y == [x EXCEPT !.action = a]
<1>1. /\ y.suspiciousVelocity = x.suspiciousVelocity
      /\ RetriesUsedUp(y, cfg) <=> RetriesUsedUp(x, cfg)
  BY DEF Contexts, RetriesUsedUp
<1>2. x.suspiciousVelocity \/ RetriesUsedUp(x, cfg)
  BY DEF Evaluate, ForceAction, Deny, Allow, DeterministicStopRules
<1>3. CASE x.suspiciousVelocity
  BY <1>1, <1>3 DEF Evaluate, ForceAction
<1>4. CASE ~ x.suspiciousVelocity /\ RetriesUsedUp(x, cfg)
  BY <1>1, <1>4 DEF Evaluate, ForceAction
<1>5. QED
  BY <1>2, <1>3, <1>4

\* A proposed STOP ends as STOP, allowed or forced.
LEMMA StopStaysStop ==
  ASSUME NEW x \in Contexts, NEW cfg \in Configs, x.action = "STOP"
  PROVE  Evaluate(x, cfg).action = "STOP"
<1>1. /\ ~ Intervenes(x) /\ ~ RetryProhibited(x, cfg) /\ ~ NotListed(x, cfg)
      /\ ~ OutsideHours(x, cfg) /\ ~ CoolingDown(x, cfg) /\ ~ TooRisky(x, cfg)
  BY DEF Intervenes, InterventionActions, RetryProhibited, NotListed, OutsideHours,
         CommunicationActions, CoolingDown, TooRisky
<1>2. QED
  BY <1>1 DEF Evaluate, ForceAction, Allow, InterventionsUsedUp, DailyAttemptsUsedUp,
              AmountTooLarge, AmountIsHigh

\* The engine is monotone: what is allowed in a worse world is allowed now.
THEOREM EngineIsMonotone ==
  ASSUME NEW x \in Contexts, NEW y \in Contexts, NEW cfg \in Configs,
         Worse(x, y), Evaluate(y, cfg).type = "ALLOW"
  PROVE  Evaluate(x, cfg).type = "ALLOW"
<1>1. Permitted(y, cfg)
  BY AllowIffPermitted
<1>2. /\ x.retryCount \in Int /\ x.interventionCount \in Int /\ x.dailyAttempts \in Int
      /\ x.amount \in Int /\ x.riskScore \in Int
      /\ y.retryCount \in Int /\ y.interventionCount \in Int /\ y.dailyAttempts \in Int
      /\ y.amount \in Int /\ y.riskScore \in Int
      /\ cfg.maxRetryCount \in Int /\ cfg.maxInterventions \in Int
      /\ cfg.maxDailyAttempts \in Int /\ cfg.maxAmount \in Int /\ cfg.highValue \in Int
      /\ cfg.riskThreshold \in Int
  BY DEF Contexts, Configs
<1>3. Permitted(x, cfg)
  BY <1>1, <1>2 DEF Worse, Permitted
<1>4. QED
  BY <1>3, AllowIffPermitted

-----------------------------------------------------------------------------
\* The gate's verdict is the engine's answer of that moment; a skip was the
\* engine's answer for STOP, and still is while nothing has moved.
GateInv ==
  /\ facts \in Facts /\ config \in ActiveConfigs
  /\ stage = "done" => verdict = Evaluate(facts, config)
  /\ stage = "screen" => facts.action = "STOP" /\ skipRule = "none"
  /\ stage = "agent" => skipRule = "none"
  /\ skipRule # "none" => facts.action = "STOP" /\ skipRule \in DeterministicStopRules
  /\ skipRule # "none" /\ ~ moved => Evaluate(facts, config).rule = skipRule

LEMMA FactsAreContexts == Facts \subseteq Contexts /\ ActiveConfigs \subseteq Configs
BY PolicyGateAssumption DEF Facts, Contexts

LEMMA GateInvInductive == GateSpec => []GateInv
<1>1. GateInit => GateInv
  BY DEF GateInit, GateInv
<1>2. GateInv /\ [GateNext]_gateVars => GateInv'
  <2> SUFFICES ASSUME GateInv, [GateNext]_gateVars PROVE GateInv'
    OBVIOUS
  <2>1. CASE Screen
    BY <2>1 DEF Screen, GateInv
  <2>2. ASSUME NEW a \in RecoveryActions, Propose(a)
        PROVE  GateInv'
    <3>1. facts' \in Facts
      BY <2>2 DEF Propose, GateInv, Facts
    <3>2. QED
      BY <2>2, <3>1 DEF Propose, GateInv
  <2>3. CASE WorldMoves
    <3>1. facts' \in Facts /\ facts'.action = facts.action
      BY <2>3 DEF WorldMoves, GateInv, Facts
    <3>2. QED
      BY <2>3, <3>1 DEF WorldMoves, GateInv
  <2>4. CASE Gate
    BY <2>4 DEF Gate, GateInv
  <2>5. CASE UNCHANGED gateVars
    BY <2>5 DEF gateVars, GateInv
  <2>6. QED
    BY <2>1, <2>2, <2>3, <2>4, <2>5 DEF GateNext
<1>3. QED
  BY <1>1, <1>2, PTL DEF GateSpec

\* For every set of facts and every set of configurations: what is approved is
\* exactly what all configured conditions permit at that moment.
THEOREM OnlyPermittedIsApproved == GateSpec => []ApprovedIffPermitted
<1>1. GateInv => ApprovedIffPermitted
  BY FactsAreContexts, AllowIffPermitted DEF GateInv, ApprovedIffPermitted
<1>2. QED
  BY <1>1, GateInvInductive, PTL

\* The agent is only skipped when no answer of it could have mattered.
THEOREM SkippingIsSound == GateSpec => []SkipIsSound
<1>1. GateInv => SkipIsSound
  BY FactsAreContexts, DeterministicStopIsForAll DEF GateInv, SkipIsSound
<1>2. QED
  BY <1>1, GateInvInductive, PTL

\* A proposed STOP is never blocked.
THEOREM StoppingIsNeverBlocked == GateSpec => []StopIsNeverBlocked
<1>1. GateInv => StopIsNeverBlocked
  BY FactsAreContexts, StopStaysStop DEF GateInv, StopIsNeverBlocked
<1>2. QED
  BY <1>1, GateInvInductive, PTL

\* No step to a worse world makes an action permissible.
THEOREM WorldNeverLooser == GateSpec => NeverLooser
<1>1. GateInv /\ GateInv' /\ config' = config /\ Worse(facts, facts')
      /\ Evaluate(facts', config').type = "ALLOW"
      => Evaluate(facts, config).type = "ALLOW"
  BY FactsAreContexts, EngineIsMonotone DEF GateInv
<1>2. GateInv /\ GateInv' /\ [GateNext]_gateVars =>
        [config' = config /\ Worse(facts, facts')
           => (Evaluate(facts', config').type = "ALLOW"
                 => Evaluate(facts, config).type = "ALLOW")]_gateVars
  BY <1>1
<1>3. QED
  BY <1>2, GateInvInductive, PTL DEF GateSpec, NeverLooser
=============================================================================
