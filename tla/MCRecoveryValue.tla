--------------------------- MODULE MCRecoveryValue ---------------------------
(* A small instance of RecoveryValue for TLC. *)
EXTENDS RecoveryValue

MCCandidates == << "RETRY", "SEND_RECOVERY_LINK", "SUGGEST_ALTERNATIVE_PAYMENT_METHOD" >>

MCCodes == { "bank_timeout" }

N(successes, total) == [successes |-> successes, total |-> total]
Table(merchant, method, other) ==
  [merchant |-> merchant, method |-> method, other |-> other]
Row(retry, link) ==
  [RETRY |-> retry, SEND_RECOVERY_LINK |-> link,
   SUGGEST_ALTERNATIVE_PAYMENT_METHOD |-> N(0, 0)]
Empty == Row(N(0, 0), N(0, 0))

\* No rows; rows in the wider tiers only; the larger number of successes in the
\* arm with the lower rate; the smallest samples there are.
MCFirstTables ==
  { Table(Empty, Empty, Empty),
    Table(Empty, Row(N(1, 1), N(0, 2)), Row(N(2, 4), N(4, 4))),
    Table(Row(N(3, 3), N(3, 10)), Empty, Empty),
    Table(Row(N(0, 2), N(4, 4)), Row(N(0, 1), N(0, 0)), Empty) }

MCTrainingRows == Table(Row(N(1, 1), N(0, 1)), Row(N(0, 1), N(1, 2)), Row(N(1, 2), N(1, 1)))

MCActionCost == [RETRY |-> 2, SEND_RECOVERY_LINK |-> 1, SUGGEST_ALTERNATIVE_PAYMENT_METHOD |-> 1]
MCDefaultProbability ==
  [RETRY |-> [num |-> 20, den |-> 100], SEND_RECOVERY_LINK |-> [num |-> 15, den |-> 100],
   SUGGEST_ALTERNATIVE_PAYMENT_METHOD |-> [num |-> 10, den |-> 100]]

\* As many interventions as retries; more of them, as in the default
\* configuration; an amount that needs a human; a risk too high to retry.
MCConfig(maxInterventions, highValue, riskThreshold) ==
  [ maxRetryCount |-> 2, maxInterventions |-> maxInterventions, maxDailyAttempts |-> 5,
    maxAmount |-> 50, highValue |-> highValue, prohibitedRetry |-> {}, listedCodes |-> {},
    allowedActions |-> [c \in MCCodes |-> {}],
    hoursStart |-> 8, hoursEnd |-> 21, riskThreshold |-> riskThreshold ]

MCPolicyConfigs == 
  { MCConfig(2, 20, 7), MCConfig(5, 20, 7), MCConfig(5, 5, 7), MCConfig(5, 20, 3) }
=============================================================================
