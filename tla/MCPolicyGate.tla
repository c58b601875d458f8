---------------------------- MODULE MCPolicyGate ----------------------------
(* A small instance of PolicyGate for TLC. *)
EXTENDS PolicyGate

MCFailureCodes == { "upi_timeout", "insufficient_funds" }
MCAmounts == { 10, 30, 60 }
MCCounts  == { 0, 1 }
MCRisks   == { 1, 7 }
MCHours   == { 8, 21 }

\* Thresholds that cut through the middle of every set of values above.
MCStrict ==
  [ maxRetryCount |-> 1, maxInterventions |-> 1, maxDailyAttempts |-> 1,
    maxAmount |-> 50, highValue |-> 20,
    prohibitedRetry |-> { "insufficient_funds" },
    listedCodes |-> {}, allowedActions |-> [c \in MCFailureCodes |-> {}],
    hoursStart |-> 8, hoursEnd |-> 21, riskThreshold |-> 7 ]

\* The ceiling below the high-value threshold, a list of allowed actions, and
\* no limit on counts.
MCListed ==
  [ maxRetryCount |-> 9, maxInterventions |-> 9, maxDailyAttempts |-> 9,
    maxAmount |-> 20, highValue |-> 50, prohibitedRetry |-> {},
    listedCodes |-> { "upi_timeout" },
    allowedActions |-> [c \in MCFailureCodes |-> { "RETRY", "SEND_RECOVERY_LINK" }],
    hoursStart |-> 0, hoursEnd |-> 24, riskThreshold |-> 9 ]

MCActiveConfigs == { MCStrict, MCListed }
=============================================================================
