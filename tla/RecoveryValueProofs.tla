------------------------- MODULE RecoveryValueProofs -------------------------
(***************************************************************************)
(* The three invariants of RecoveryValue for every table, configuration    *)
(* and order of commits.  The invariant ValueInv types the reader, with    *)
(* rates wherever rows are counted, and relates the counters of a case.    *)
(***************************************************************************)
EXTENDS RecoveryValue, TLAPS

Tiers == { "merchant_specific", "segment", "global_baseline", "deterministic_default" }

Estimates ==
  { e \in [num : Nat, den : Nat, tier : Tiers, sample : Nat] :
      /\ 0 < e.num /\ e.num < e.den
      /\ e.tier = "deterministic_default" \/ e.sample >= MinSampleSize }

Reading == { "real", "merchant", "segment", "baseline" }

CaseReaders ==
  [ kind : {"case"}, pc : Reading \cup { "act", "done" }, seen : Rates,
    estimates : Seq(Estimates), actions : Nat, retries : Nat,
    outcome : { "none", "STOPPED", "ESCALATED", "RECOVERED", "FAILED" }, policy : PolicyConfigs ]

Results == { "none", "INSUFFICIENT_EVIDENCE", "NOT_SIGNIFICANT", "WINNER_A", "WINNER_B" }

ExperimentReaders ==
  [ kind : {"experiment"}, a : Rates, b : Rates, result : Results,
    pc : { "synthetic_a", "real_a", "synthetic_b", "real_b", "test", "done" } ]

\* Between its rounds a case has used no more actions than retries are allowed,
\* or its rounds would be over; what it has retried is among its actions.
CaseInv(x) ==
  /\ x \in CaseReaders
  /\ x.pc \in Reading => Len(x.estimates) < Len(Candidates)
  /\ x.retries <= x.actions
  /\ x.retries <= x.policy.maxRetryCount
  /\ x.actions <= x.policy.maxInterventions
  /\ x.actions <= x.policy.maxRetryCount + 1
  /\ x.pc # "done" => x.actions <= x.policy.maxRetryCount /\ x.outcome = "none"
  /\ x.outcome = "FAILED" => x.actions = x.policy.maxRetryCount + 1

ExperimentInv(x) ==
  /\ x \in ExperimentReaders
  /\ x.pc # "done" => x.result = "none"
  /\ x.pc = "done" => x.result = Result(x.a, x.b)

TablesInv ==
  /\ real \in [Actions -> Rates]
  /\ synthetic \in Tables

ValueInv ==
  /\ TablesInv
  /\ CaseInv(reader) \/ ExperimentInv(reader)

-----------------------------------------------------------------------------
\* Rates of disjoint or of different moments' rows add up to a rate.
LEMMA PlusOfRates ==
  ASSUME NEW s \in Rates, NEW t \in Rates
  PROVE  Plus(s, t) \in Rates
BY DEF Rates, Stats, Plus

LEMMA NoRowsIsRate == NoRows \in Rates
BY DEF NoRows, Rates, Stats

\* The statements of the outcome repository answer with rates.
LEMMA StatementsAreRates ==
  ASSUME TablesInv, NEW a \in Actions
  PROVE  /\ real[a] \in Rates /\ MerchantStats(a) \in Rates
         /\ SegmentStats(a) \in Rates /\ BaselineStats(a) \in Rates
<1>1. /\ synthetic["merchant"][a] \in Rates /\ synthetic["method"][a] \in Rates
      /\ synthetic["other"][a] \in Rates /\ real[a] \in Rates
  BY DEF TablesInv, Tables, Origins
<1>2. SegmentStats(a) \in Rates
  BY <1>1, PlusOfRates DEF SegmentStats, MerchantStats
<1>3. BaselineStats(a) \in Rates
  BY <1>1, <1>2, PlusOfRates DEF BaselineStats
<1>4. QED
  BY <1>1, <1>2, <1>3 DEF MerchantStats

LEMMA SmoothIsEstimate ==
  ASSUME NEW s \in Rates, s.total >= MinSampleSize, NEW tier \in Tiers
  PROVE  Smooth(s, tier) \in Estimates
BY RecoveryValueAssumption DEF Rates, Stats, Smooth, Estimates

LEMMA DefaultIsEstimate ==
  ASSUME NEW a \in Actions
  PROVE  Default(a) \in Estimates
<1>1. /\ DefaultProbability[a].num \in Nat /\ DefaultProbability[a].den \in Nat
      /\ 0 < DefaultProbability[a].num /\ DefaultProbability[a].num < DefaultProbability[a].den
  BY RecoveryValueAssumption
<1>2. QED
  BY <1>1 DEF Default, Estimates, Tiers

LEMMA CandidatesAreActions ==
  ASSUME NEW i \in 1..Len(Candidates)
  PROVE  Candidates[i] \in Actions /\ Candidates[i] \in InterventionActions
BY RecoveryValueAssumption DEF Actions

\* What the engine allows is within the two limits of the configuration.
LEMMA AllowedIsWithinLimits ==
  ASSUME NEW x, NEW cfg, x.action \in InterventionActions, Evaluate(x, cfg).type = "ALLOW"
  PROVE  ~ (x.retryCount >= cfg.maxRetryCount)
         /\ ~ (x.interventionCount >= cfg.maxInterventions)
BY DEF Evaluate, ForceAction, Deny, Allow, RetriesUsedUp, InterventionsUsedUp, Intervenes

-----------------------------------------------------------------------------
LEMMA ValueInvInit == ValueInit => ValueInv
<1> SUFFICES ASSUME ValueInit PROVE ValueInv
  OBVIOUS
<1>1. TablesInv
  <2>1. real = [a \in Actions |-> NoRows] /\ synthetic \in FirstTables
    BY DEF ValueInit
  <2>2. QED
    BY <2>1, NoRowsIsRate, RecoveryValueAssumption DEF TablesInv
<1>2. ASSUME NEW cfg \in PolicyConfigs,
             reader = [kind |-> "case", pc |-> "real", seen |-> NoRows, estimates |-> <<>>,
                       actions |-> 0, retries |-> 0, outcome |-> "none", policy |-> cfg]
      PROVE  CaseInv(reader)
  <2>1. cfg.maxRetryCount \in Nat /\ cfg.maxInterventions \in Nat /\ 0 < Len(Candidates)
    BY RecoveryValueAssumption
  <2>2. reader \in CaseReaders
    BY <1>2, NoRowsIsRate DEF CaseReaders, Reading
  <2>3. QED
    BY <1>2, <2>1, <2>2 DEF CaseInv
<1>3. ASSUME reader = NewExperiment
      PROVE  ExperimentInv(reader)
  BY <1>3, NoRowsIsRate DEF NewExperiment, ExperimentInv, ExperimentReaders, Results
<1>4. (\E cfg \in PolicyConfigs :
         reader = [kind |-> "case", pc |-> "real", seen |-> NoRows, estimates |-> <<>>,
                   actions |-> 0, retries |-> 0, outcome |-> "none", policy |-> cfg])
      \/ reader = NewExperiment
  BY DEF ValueInit, NewCase
<1>5. QED
  BY <1>1, <1>2, <1>3, <1>4 DEF ValueInv

-----------------------------------------------------------------------------
\* The writers keep the tables tables of rates.
LEMMA OutcomeKeepsRates ==
  ASSUME ValueInv, NEW a \in Actions, NEW recovered \in BOOLEAN, OutcomeIsCommitted(a, recovered)
  PROVE  ValueInv'
<1> DEFINE row == [successes |-> IF recovered THEN 1 ELSE 0, total |-> 1]
<1>1. row \in Rates
  BY DEF Rates, Stats
<1>2. real' = [real EXCEPT ![a] = Plus(@, row)]
  BY DEF OutcomeIsCommitted
<1> HIDE DEF row
<1>3. Plus(real[a], row) \in Rates
  BY <1>1, PlusOfRates DEF ValueInv, TablesInv
<1>4. real' \in [Actions -> Rates]
  BY <1>2, <1>3 DEF ValueInv, TablesInv
<1>5. synthetic' = synthetic /\ reader' = reader
  BY DEF OutcomeIsCommitted
<1>6. QED
  BY <1>4, <1>5 DEF ValueInv, TablesInv, CaseInv, ExperimentInv

LEMMA TrainingKeepsRates ==
  ASSUME ValueInv, TrainingIsCommitted
  PROVE  ValueInv'
<1>1. synthetic' = [o \in Origins |-> [a \in Actions |-> Plus(synthetic[o][a], TrainingRows[o][a])]]
  BY DEF TrainingIsCommitted
<1>2. ASSUME NEW o \in Origins, NEW a \in Actions
      PROVE  Plus(synthetic[o][a], TrainingRows[o][a]) \in Rates
  <2>1. synthetic[o][a] \in Rates /\ TrainingRows[o][a] \in Rates
    BY RecoveryValueAssumption DEF ValueInv, TablesInv, Tables
  <2>2. QED
    BY <2>1, PlusOfRates
<1>3. synthetic' \in Tables
  BY <1>1, <1>2 DEF Tables
<1>4. real' = real /\ reader' = reader
  BY DEF TrainingIsCommitted
<1>5. QED
  BY <1>3, <1>4 DEF ValueInv, TablesInv, CaseInv, ExperimentInv

-----------------------------------------------------------------------------
\* A case is not an experiment.
LEMMA CaseReadsCase ==
  ASSUME ValueInv, NEW pc, CaseReads(pc)
  PROVE  CaseInv(reader) /\ reader.pc = pc
BY DEF ValueInv, CaseReads, ExperimentInv, ExperimentReaders

\* The action that is evaluated next.
LEMMA TodoIsAction ==
  ASSUME CaseInv(reader), reader.pc \in Reading
  PROVE  Todo \in Actions
<1>1. Len(reader.estimates) \in Nat /\ Len(reader.estimates) < Len(Candidates)
  BY DEF CaseInv, CaseReaders
<1>2. Len(reader.estimates) + 1 \in 1..Len(Candidates)
  BY <1>1, RecoveryValueAssumption
<1>3. QED
  BY <1>2, CandidatesAreActions DEF Todo

LEMMA EstimatedKeepsInv ==
  ASSUME CaseInv(reader), reader.pc \in Reading, NEW e \in Estimates, Estimated(e)
  PROVE  CaseInv(reader')
<1> DEFINE es == Append(reader.estimates, e)
           next == IF Len(reader.estimates) + 1 = Len(Candidates) THEN "act" ELSE "real"
<1>1. reader \in CaseReaders /\ Len(reader.estimates) < Len(Candidates)
  BY DEF CaseInv
<1>2. es \in Seq(Estimates) /\ Len(es) = Len(reader.estimates) + 1 /\ Len(reader.estimates) \in Nat
  BY <1>1 DEF CaseReaders
<1>3. reader' = [reader EXCEPT !.estimates = es, !.seen = NoRows, !.pc = next]
  BY DEF Estimated
<1>4. next \in { "real", "act" } /\ (next = "real" => Len(es) < Len(Candidates))
  BY <1>1, <1>2, RecoveryValueAssumption
<1> HIDE DEF es, next
<1>5. reader' \in CaseReaders
  BY <1>1, <1>2, <1>3, <1>4, NoRowsIsRate DEF CaseReaders, Reading
<1>6. /\ reader'.estimates = es /\ reader'.pc = next
      /\ reader'.actions = reader.actions /\ reader'.retries = reader.retries
      /\ reader'.policy = reader.policy /\ reader'.outcome = reader.outcome
  BY <1>1, <1>3 DEF CaseReaders
<1>7. QED
  BY <1>4, <1>5, <1>6 DEF CaseInv, Reading

\* Going on to the next statement.
LEMMA NextStatementKeepsInv ==
  ASSUME CaseInv(reader), reader.pc \in Reading, NEW pc \in Reading, NEW s \in Rates,
         reader' = [reader EXCEPT !.pc = pc, !.seen = s]
  PROVE  CaseInv(reader')
<1>1. reader' \in CaseReaders
  BY DEF CaseInv, CaseReaders, Reading
<1>2. /\ reader'.estimates = reader.estimates /\ reader'.pc = pc
      /\ reader'.actions = reader.actions /\ reader'.retries = reader.retries
      /\ reader'.policy = reader.policy /\ reader'.outcome = reader.outcome
  BY DEF CaseInv, CaseReaders
<1>3. QED
  BY <1>1, <1>2 DEF CaseInv, Reading

LEMMA UseTierKeepsInv ==
  ASSUME CaseInv(reader), reader.pc \in Reading, NEW s \in Rates, NEW tier \in Tiers,
         NEW next \in Reading, UseTier(s, tier, next)
  PROVE  CaseInv(reader')
<1>1. CASE s.total >= MinSampleSize
  <2>1. Estimated(Smooth(s, tier)) /\ Smooth(s, tier) \in Estimates
    BY <1>1, SmoothIsEstimate DEF UseTier
  <2>2. QED
    BY <2>1, EstimatedKeepsInv
<1>2. CASE ~ (s.total >= MinSampleSize)
  <2>1. reader \in CaseReaders /\ reader' = [reader EXCEPT !.pc = next]
    BY <1>2 DEF UseTier, CaseInv
  <2>2. reader' = [reader EXCEPT !.pc = next, !.seen = reader.seen] /\ reader.seen \in Rates
    BY <2>1 DEF CaseReaders
  <2>3. QED
    BY <2>2, NextStatementKeepsInv
<1>3. QED
  BY <1>1, <1>2

\* One action more, a retry perhaps, of a case below both limits.
LEMMA OneMoreAction ==
  ASSUME NEW actions \in Nat, NEW retries \in Nat, NEW maxRetries \in Nat, NEW limit \in Nat,
         retries <= actions, actions <= maxRetries,
         ~ (retries >= maxRetries), ~ (actions >= limit),
         NEW n, n = retries \/ n = retries + 1
  PROVE  /\ actions + 1 \in Nat /\ n \in Nat /\ n <= actions + 1
         /\ n <= maxRetries /\ actions + 1 <= limit /\ actions + 1 <= maxRetries + 1
<1>1. CASE n = retries
  BY <1>1
<1>2. CASE n = retries + 1
  BY <1>2
<1>3. QED
  BY <1>1, <1>2

-----------------------------------------------------------------------------
LEMMA CaseStepKeepsInv ==
  ASSUME ValueInv, CaseStep
  PROVE  ValueInv'
<1> SUFFICES CaseInv(reader')
  <2>1. UNCHANGED <<real, synthetic>>
    BY DEF CaseStep, ReadReal, ReadMerchant, ReadSegment, ReadBaseline, StopCase, ActOnCase
  <2>2. TablesInv'
    BY <2>1 DEF ValueInv, TablesInv
  <2>3. QED
    BY <2>2 DEF ValueInv, CaseInv
<1> USE DEF Reading
<1>1. CASE ReadReal
  <2>1. CaseInv(reader) /\ reader.pc = "real"
    BY <1>1, CaseReadsCase DEF ReadReal
  <2>2. reader' = [reader EXCEPT !.pc = "merchant", !.seen = real[Todo]] /\ real[Todo] \in Rates
    BY <1>1, <2>1, TodoIsAction, StatementsAreRates DEF ReadReal, ValueInv
  <2>3. QED
    BY <2>1, <2>2, NextStatementKeepsInv
<1>2. CASE ReadMerchant
  <2>1. CaseInv(reader) /\ reader.pc = "merchant"
    BY <1>2, CaseReadsCase DEF ReadMerchant
  <2>2. reader.seen \in Rates /\ MerchantStats(Todo) \in Rates
    BY <2>1, TodoIsAction, StatementsAreRates DEF CaseInv, CaseReaders, ValueInv
  <2>3. Plus(reader.seen, MerchantStats(Todo)) \in Rates
    BY <2>2, PlusOfRates
  <2>4. UseTier(Plus(reader.seen, MerchantStats(Todo)), "merchant_specific", "segment")
    BY <1>2 DEF ReadMerchant
  <2>5. QED
    BY <2>1, <2>3, <2>4, UseTierKeepsInv DEF Tiers
<1>3. CASE ReadSegment
  <2>1. CaseInv(reader) /\ reader.pc = "segment"
    BY <1>3, CaseReadsCase DEF ReadSegment
  <2>2. SegmentStats(Todo) \in Rates
    BY <2>1, TodoIsAction, StatementsAreRates DEF ValueInv
  <2>3. UseTier(SegmentStats(Todo), "segment", "baseline")
    BY <1>3 DEF ReadSegment
  <2>4. QED
    BY <2>1, <2>2, <2>3, UseTierKeepsInv DEF Tiers
<1>4. CASE ReadBaseline
  <2>1. CaseInv(reader) /\ reader.pc = "baseline"
    BY <1>4, CaseReadsCase DEF ReadBaseline
  <2>2. Todo \in Actions /\ BaselineStats(Todo) \in Rates
    BY <2>1, TodoIsAction, StatementsAreRates DEF ValueInv
  <2> DEFINE e == IF BaselineStats(Todo).total >= MinSampleSize
                    THEN Smooth(BaselineStats(Todo), "global_baseline") ELSE Default(Todo)
  <2>3. e \in Estimates
    BY <2>2, SmoothIsEstimate, DefaultIsEstimate DEF Tiers
  <2>4. Estimated(e)
    BY <1>4 DEF ReadBaseline
  <2> HIDE DEF e
  <2>5. QED
    BY <2>1, <2>3, <2>4, EstimatedKeepsInv
<1>5. ASSUME NEW best \in 1..Len(Candidates), StopCase(best)
      PROVE  CaseInv(reader')
  <2>1. CaseInv(reader) /\ reader.pc = "act"
    BY <1>5, CaseReadsCase DEF StopCase
  <2>2. PICK outcome \in { "STOPPED", "ESCALATED" } :
          reader' = [reader EXCEPT !.pc = "done", !.outcome = outcome]
    BY <1>5 DEF StopCase, EndCase
  <2>3. reader' \in CaseReaders
    BY <2>1, <2>2 DEF CaseInv, CaseReaders
  <2>4. /\ reader'.pc = "done" /\ reader'.outcome = outcome
        /\ reader'.actions = reader.actions /\ reader'.retries = reader.retries
        /\ reader'.policy = reader.policy
    BY <2>1, <2>2 DEF CaseInv, CaseReaders
  <2>5. QED
    BY <2>1, <2>3, <2>4 DEF CaseInv
<1>6. ASSUME NEW best \in 1..Len(Candidates), ActOnCase(best)
      PROVE  CaseInv(reader')
  <2> DEFINE action == Candidates[best]
             actions == reader.actions + 1
             retries == IF action = "RETRY" THEN reader.retries + 1 ELSE reader.retries
  <2>1. CaseInv(reader) /\ reader.pc = "act" /\ reader \in CaseReaders
    BY <1>6, CaseReadsCase DEF ActOnCase, CaseInv
  <2>2. /\ reader.actions \in Nat /\ reader.retries \in Nat
        /\ reader.policy.maxRetryCount \in Nat /\ reader.policy.maxInterventions \in Nat
    BY <2>1, RecoveryValueAssumption DEF CaseReaders
  <2>3. /\ ~ (reader.retries >= reader.policy.maxRetryCount)
        /\ ~ (reader.actions >= reader.policy.maxInterventions)
    <3>1. Evaluate(PolicyContext(action), reader.policy).type = "ALLOW"
      BY <1>6 DEF ActOnCase
    <3>2. /\ PolicyContext(action).action = action /\ action \in InterventionActions
          /\ PolicyContext(action).retryCount = reader.retries
          /\ PolicyContext(action).interventionCount = reader.actions
      BY CandidatesAreActions DEF PolicyContext
    <3>3. QED
      BY <3>1, <3>2, AllowedIsWithinLimits
  <2>4. /\ actions \in Nat /\ retries \in Nat /\ retries <= actions
        /\ retries <= reader.policy.maxRetryCount /\ actions <= reader.policy.maxInterventions
        /\ actions <= reader.policy.maxRetryCount + 1
    <3>1. reader.retries <= reader.actions /\ reader.actions <= reader.policy.maxRetryCount
      BY <2>1 DEF CaseInv
    <3>2. actions = reader.actions + 1 /\ (retries = reader.retries \/ retries = reader.retries + 1)
      <4>1. CASE action = "RETRY"
        BY <4>1
      <4>2. CASE action # "RETRY"
        BY <4>2
      <4>3. QED
        BY <4>1, <4>2
    <3>3. /\ actions \in Nat /\ retries \in Nat /\ retries <= actions
          /\ retries <= reader.policy.maxRetryCount /\ actions <= reader.policy.maxInterventions
          /\ actions <= reader.policy.maxRetryCount + 1
      <4> DEFINE oldActions == reader.actions
                 oldRetries == reader.retries
                 maxRetries == reader.policy.maxRetryCount
                 limit      == reader.policy.maxInterventions
      <4>1. /\ oldActions \in Nat /\ oldRetries \in Nat /\ maxRetries \in Nat /\ limit \in Nat
            /\ oldRetries <= oldActions /\ oldActions <= maxRetries
            /\ ~ (oldRetries >= maxRetries) /\ ~ (oldActions >= limit)
        BY <2>2, <2>3, <3>1
      <4>2. actions = oldActions + 1 /\ (retries = oldRetries \/ retries = oldRetries + 1)
        BY <3>2
      <4> HIDE DEF oldActions, oldRetries, maxRetries, limit, actions, retries
      <4>3. /\ actions \in Nat /\ retries \in Nat /\ retries <= actions
            /\ retries <= maxRetries /\ actions <= limit /\ actions <= maxRetries + 1
        BY <4>1, <4>2, OneMoreAction
      <4>4. QED
        BY <4>3 DEF maxRetries, limit
    <3>4. QED
      BY <3>3
  <2>5. PICK pc \in { "real", "done" }, outcome \in { "none", "RECOVERED", "FAILED" },
             es \in { <<>>, reader.estimates } :
          /\ reader' = [reader EXCEPT !.pc = pc, !.outcome = outcome, !.estimates = es,
                                      !.actions = actions, !.retries = retries]
          /\ pc = "real" => es = <<>> /\ outcome = "none" /\ actions <= reader.policy.maxRetryCount
          /\ outcome = "FAILED" => ~ (actions <= reader.policy.maxRetryCount)
    <3> DEFINE acted == [reader EXCEPT !.actions = actions, !.retries = retries]
    <3>0. /\ acted.actions = actions
          /\ \/ reader' = [acted EXCEPT !.pc = "done", !.outcome = "RECOVERED"]
             \/ reader' = IF acted.actions <= reader.policy.maxRetryCount
                            THEN [acted EXCEPT !.pc = "real", !.estimates = <<>>]
                            ELSE [acted EXCEPT !.pc = "done", !.outcome = "FAILED"]
      BY <1>6, <2>1 DEF ActOnCase, CaseReaders
    <3> HIDE DEF actions, retries
    <3>1. CASE reader' = [acted EXCEPT !.pc = "done", !.outcome = "RECOVERED"]
      <4>1. reader' = [reader EXCEPT !.pc = "done", !.outcome = "RECOVERED",
                         !.estimates = reader.estimates, !.actions = actions, !.retries = retries]
        BY <2>1, <3>1 DEF CaseReaders
      <4>2. QED
        BY <4>1
    <3>2. CASE /\ actions <= reader.policy.maxRetryCount
               /\ reader' = [acted EXCEPT !.pc = "real", !.estimates = <<>>]
      <4>1. reader' = [reader EXCEPT !.pc = "real", !.outcome = "none",
                         !.estimates = <<>>, !.actions = actions, !.retries = retries]
        BY <2>1, <3>2 DEF CaseReaders, CaseInv
      <4>2. QED
        BY <3>2, <4>1
    <3>3. CASE /\ ~ (actions <= reader.policy.maxRetryCount)
               /\ reader' = [acted EXCEPT !.pc = "done", !.outcome = "FAILED"]
      <4>1. reader' = [reader EXCEPT !.pc = "done", !.outcome = "FAILED",
                         !.estimates = reader.estimates, !.actions = actions, !.retries = retries]
        BY <2>1, <3>3 DEF CaseReaders
      <4>2. QED
        BY <3>3, <4>1
    <3>4. QED
      BY <3>0, <3>1, <3>2, <3>3
  <2> HIDE DEF actions, retries
  <2>6. reader' \in CaseReaders
    <3>1. es \in Seq(Estimates)
      <4>1. reader.estimates \in Seq(Estimates) /\ <<>> \in Seq(Estimates)
        BY <2>1 DEF CaseReaders
      <4>2. QED
        BY <2>5, <4>1
    <3>2. QED
      BY <2>1, <2>4, <2>5, <3>1 DEF CaseReaders
  <2>7. /\ reader'.pc = pc /\ reader'.outcome = outcome /\ reader'.estimates = es
        /\ reader'.actions = actions /\ reader'.retries = retries
        /\ reader'.policy = reader.policy
    BY <2>1, <2>5 DEF CaseReaders
  <2>8. pc \in Reading => Len(es) < Len(Candidates)
    BY <2>5, RecoveryValueAssumption
  <2>9. pc # "done" => actions <= reader.policy.maxRetryCount /\ outcome = "none"
    BY <2>5
  <2>10. outcome = "FAILED" => actions = reader.policy.maxRetryCount + 1
    BY <2>2, <2>4, <2>5
  <2>11. QED
    BY <2>4, <2>6, <2>7, <2>8, <2>9, <2>10 DEF CaseInv
<1>7. QED
  BY <1>1, <1>2, <1>3, <1>4, <1>5, <1>6 DEF CaseStep

LEMMA ExperimentStepKeepsInv ==
  ASSUME ValueInv, ExperimentStep
  PROVE  ValueInv'
<1>1. reader.kind = "experiment" /\ UNCHANGED <<real, synthetic>>
  BY DEF ExperimentStep, ReadArm, Conclude
<1>2. ExperimentInv(reader) /\ reader \in ExperimentReaders
  BY <1>1 DEF ValueInv, CaseInv, CaseReaders, ExperimentInv
<1> SUFFICES ExperimentInv(reader')
  <2>1. TablesInv'
    BY <1>1 DEF ValueInv, TablesInv
  <2>2. QED
    BY <2>1 DEF ValueInv
<1>4. ASSUME NEW from \in { "synthetic_a", "real_a", "synthetic_b", "real_b" },
             NEW next \in { "real_a", "synthetic_b", "real_b", "test" },
             NEW s \in Rates, ReadArm(from, "a", s, next) \/ ReadArm(from, "b", s, next)
      PROVE  ExperimentInv(reader')
  <2>1. Plus(reader.a, s) \in Rates /\ Plus(reader.b, s) \in Rates
    BY <1>2, PlusOfRates DEF ExperimentReaders
  <2>2. /\ reader.pc = from
        /\ \/ reader' = [reader EXCEPT !.a = Plus(reader.a, s), !.pc = next]
           \/ reader' = [reader EXCEPT !.b = Plus(reader.b, s), !.pc = next]
    BY <1>2, <1>4 DEF ReadArm, ExperimentReaders
  <2>3. reader' \in ExperimentReaders /\ reader'.pc = next /\ reader'.result = reader.result
    BY <1>2, <2>1, <2>2 DEF ExperimentReaders
  <2>4. QED
    BY <1>2, <2>2, <2>3 DEF ExperimentInv
<1>5. /\ SegmentStats(ArmA) \in Rates /\ SegmentStats(ArmB) \in Rates
      /\ real[ArmA] \in Rates /\ real[ArmB] \in Rates
  BY StatementsAreRates, RecoveryValueAssumption DEF ValueInv
<1>6. CASE Conclude
  <2>1. reader' = [reader EXCEPT !.pc = "done", !.result = Result(reader.a, reader.b)]
    BY <1>6 DEF Conclude
  <2>2. Result(reader.a, reader.b) \in Results
    <3>1. reader.a.total \in Nat /\ reader.b.total \in Nat /\ MinSampleSize \in Nat
      BY <1>2, RecoveryValueAssumption DEF ExperimentReaders, Rates, Stats
    <3>2. QED
      BY <3>1 DEF Result, Results
  <2>3. /\ reader' \in ExperimentReaders /\ reader'.pc = "done" /\ reader'.a = reader.a
        /\ reader'.b = reader.b /\ reader'.result = Result(reader.a, reader.b)
    BY <1>2, <2>1, <2>2 DEF ExperimentReaders
  <2>4. QED
    BY <2>3 DEF ExperimentInv
<1>7. CASE ReadArm("synthetic_a", "a", SegmentStats(ArmA), "real_a")
  BY <1>4, <1>5, <1>7
<1>8. CASE ReadArm("real_a", "a", real[ArmA], "synthetic_b")
  BY <1>4, <1>5, <1>8
<1>9. CASE ReadArm("synthetic_b", "b", SegmentStats(ArmB), "real_b")
  BY <1>4, <1>5, <1>9
<1>10. CASE ReadArm("real_b", "b", real[ArmB], "test")
  BY <1>4, <1>5, <1>10
<1>11. QED
  BY <1>6, <1>7, <1>8, <1>9, <1>10 DEF ExperimentStep

\* The inductive invariant of RecoveryValue.
THEOREM SpecValueInv == ValueSpec => []ValueInv
<1>1. ValueInv /\ [ValueNext]_valueVars => ValueInv'
  <2> SUFFICES ASSUME ValueInv, [ValueNext]_valueVars PROVE ValueInv'
    OBVIOUS
  <2>1. CASE UNCHANGED valueVars
    BY <2>1 DEF valueVars, ValueInv, TablesInv, CaseInv, ExperimentInv
  <2>2. QED
    BY <2>1, OutcomeKeepsRates, TrainingKeepsRates, CaseStepKeepsInv, ExperimentStepKeepsInv
       DEF ValueNext
<1>2. QED
  BY ValueInvInit, <1>1, PTL DEF ValueSpec

-----------------------------------------------------------------------------
\* Whatever is committed between the statements of a reader, its estimates and
\* its arms are rates.
THEOREM EstimatesStayRates == ValueSpec => []EstimatesAreRates
<1>1. ValueInv => EstimatesAreRates
  <2> SUFFICES ASSUME ValueInv PROVE EstimatesAreRates
    OBVIOUS
  <2>1. CASE CaseInv(reader)
    <3>1. reader.kind = "case" /\ reader.estimates \in Seq(Estimates)
      BY <2>1 DEF CaseInv, CaseReaders
    <3>2. ASSUME NEW i \in 1..Len(reader.estimates)
          PROVE  reader.estimates[i] \in Estimates
      BY <3>1
    <3>3. QED
      BY <3>1, <3>2 DEF EstimatesAreRates, Estimates
  <2>2. CASE ExperimentInv(reader)
    BY <2>2 DEF ExperimentInv, ExperimentReaders, EstimatesAreRates, Rates
  <2>3. QED
    BY <2>1, <2>2 DEF ValueInv
<1>2. QED
  BY <1>1, SpecValueInv, PTL

\* A benchmark case keeps to its rounds and to the limits of its policy.
THEOREM CasesAreBounded == ValueSpec => []IntelligentCaseIsBounded
<1>1. ValueInv => IntelligentCaseIsBounded
  <2> SUFFICES ASSUME CaseInv(reader) PROVE IntelligentCaseIsBounded
    BY DEF ValueInv, ExperimentInv, ExperimentReaders, IntelligentCaseIsBounded
  <2>1. /\ reader.actions \in Nat /\ reader.retries \in Nat /\ reader.policy.maxRetryCount \in Nat
    BY RecoveryValueAssumption DEF CaseInv, CaseReaders
  <2>2. QED
    BY <2>1 DEF CaseInv, IntelligentCaseIsBounded
<1>2. QED
  BY <1>1, SpecValueInv, PTL

\* Arms with the same rate are never significantly different.
LEMMA SignificantArmsDiffer ==
  ASSUME NEW a \in Rates, NEW b \in Rates, Significant(a, b)
  PROVE  a.successes * b.total # b.successes * a.total
<1> DEFINE n == a.total + b.total
           x == a.successes + b.successes
           d == a.successes * b.total - b.successes * a.total
<1>1. /\ a.successes \in Nat /\ a.total \in Nat /\ b.successes \in Nat /\ b.total \in Nat
      /\ a.successes <= a.total /\ b.successes <= b.total
  BY DEF Rates, Stats
<1>2. 10000 * d * d * n > 38416 * a.total * b.total * x * (n - x)
  BY DEF Significant
<1>3. x \in Nat /\ n \in Nat /\ n - x \in Nat
  BY <1>1
<1>4. SUFFICES ASSUME d = 0 PROVE FALSE
  BY <1>1
<1> HIDE DEF n, x, d
<1>5. 10000 * d * d * n = 0
  BY <1>3, <1>4
<1>6. \A p \in Nat, q \in Nat : p * q \in Nat
  OBVIOUS
<1>7. 38416 * a.total \in Nat
  BY <1>1
<1>8. 38416 * a.total * b.total \in Nat
  BY <1>1, <1>6, <1>7
<1>9. 38416 * a.total * b.total * x \in Nat
  BY <1>3, <1>6, <1>8
<1>10. 38416 * a.total * b.total * x * (n - x) \in Nat
  BY <1>3, <1>6, <1>9
<1>11. QED
  BY <1>2, <1>5, <1>10

\* A winner has enough rows and the larger share of recovered cases.
THEOREM WinnersAreBetter == ValueSpec => []WinnerIsBetter
<1>1. ValueInv => WinnerIsBetter
  <2> SUFFICES ASSUME ExperimentInv(reader), reader.result \in { "WINNER_A", "WINNER_B" }
               PROVE  WinnerIsBetter
    BY DEF ValueInv, CaseInv, CaseReaders, WinnerIsBetter
  <2> DEFINE a == reader.a
             b == reader.b
  <2>1. reader.result = Result(a, b) /\ a \in Rates /\ b \in Rates
    BY DEF ExperimentInv, ExperimentReaders
  <2>2. a.total \in Nat /\ b.total \in Nat /\ MinSampleSize \in Nat
    BY <2>1, RecoveryValueAssumption DEF Rates, Stats
  <2>3. /\ a.total >= MinSampleSize /\ b.total >= MinSampleSize /\ Significant(a, b)
        /\ reader.result = IF BetterRate(a, b) THEN "WINNER_A" ELSE "WINNER_B"
    BY <2>1, <2>2 DEF Result
  <2>4. a.successes * b.total \in Int /\ b.successes * a.total \in Int
    BY <2>1 DEF Rates, Stats
  <2>5. BetterRate(b, a) <=> ~ BetterRate(a, b)
    BY <2>1, <2>3, <2>4, SignificantArmsDiffer DEF BetterRate
  <2>6. QED
    BY <2>3, <2>5 DEF WinnerIsBetter
<1>2. QED
  BY <1>1, SpecValueInv, PTL
=============================================================================
