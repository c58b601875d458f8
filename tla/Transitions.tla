----------------------------- MODULE Transitions -----------------------------
(***************************************************************************)
(* The vocabulary of models/enums.py and the transition table of           *)
(* services/recovery/transitions.py.  No variables: every other module     *)
(* that speaks of a case's state extends this one.                         *)
(***************************************************************************)
EXTENDS Integers, Sequences

CaseStates ==
  { "RECEIVED", "SCREENING", "DIAGNOSING", "ELIGIBILITY_CHECK", "DECISION",
    "ACTION_PENDING", "ACTION_EXECUTED", "VERIFICATION_PENDING",
    "RECOVERED", "FAILED", "ESCALATED", "STOPPED" }

\* `from_state is None`: the row of the case does not exist yet.
NoCase == "NO_CASE"

TerminalStates == { "RECOVERED", "STOPPED" }

AllowedTransitions ==
  [ RECEIVED             |-> { "SCREENING" },
    SCREENING            |-> { "DIAGNOSING", "ESCALATED", "STOPPED" },
    DIAGNOSING           |-> { "ELIGIBILITY_CHECK", "ESCALATED", "STOPPED" },
    ELIGIBILITY_CHECK    |-> { "DECISION", "ESCALATED", "STOPPED" },
    DECISION             |-> { "ACTION_PENDING", "ESCALATED", "STOPPED" },
    ACTION_PENDING       |-> { "ACTION_EXECUTED", "STOPPED" },
    ACTION_EXECUTED      |-> { "VERIFICATION_PENDING" },
    VERIFICATION_PENDING |-> { "RECOVERED", "FAILED", "ESCALATED" },
    RECOVERED            |-> {},
    FAILED               |-> { "VERIFICATION_PENDING", "DECISION" },
    ESCALATED            |-> { "ACTION_PENDING", "STOPPED" },
    STOPPED              |-> {} ]

IsAllowed(from, to) ==
  IF from = NoCase THEN to = "RECEIVED" ELSE to \in AllowedTransitions[from]

RecoveryActions ==
  { "RETRY", "SEND_RECOVERY_REMINDER", "SEND_RECOVERY_LINK",
    "SUGGEST_ALTERNATIVE_PAYMENT_METHOD", "ESCALATE_TO_HUMAN", "STOP" }

InterventionActions == RecoveryActions \ { "STOP", "ESCALATE_TO_HUMAN" }

CommunicationActions ==
  { "SEND_RECOVERY_REMINDER", "SEND_RECOVERY_LINK",
    "SUGGEST_ALTERNATIVE_PAYMENT_METHOD" }

\* Every move from one element of the sequence to the next is in the table.
IsPath(s) == \A i \in 1..(Len(s) - 1) : IsAllowed(s[i], s[i + 1])
=============================================================================
