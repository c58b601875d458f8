----------------------------- MODULE VerdictBook -----------------------------
(***************************************************************************)
(* What verification promises to whoever reads the books: a verdict is     *)
(* what the provider answers at the very moment it is given, and is        *)
(* entered together with the state of the case and its outcome row, in a   *)
(* single step.  No session, lock, queue, crash or flag is visible here;   *)
(* Settlement implements this with all of them.                            *)
(***************************************************************************)
EXTENDS Transitions

VARIABLES
  answers,    \* what the provider answers now: at most one verdict
  state,      \* cases.current_state
  verdicts,   \* payment_verifications.outcome, oldest first
  outcomes    \* merchant_recovery_outcomes.recovered, oldest first

bookVars == <<answers, state, verdicts, outcomes>>

Settled  == { "RECOVERED", "FAILED" }
Verdicts == Settled \cup { "ESCALATED", "STILL_PENDING" }

BookInit ==
  /\ answers = {}
  /\ state = NoCase
  /\ verdicts = <<>>
  /\ outcomes = <<>>

\* The first event of an order.  A case has a payment to ask about, or never will.
OpenCase ==
  /\ state = NoCase
  /\ state' = "RECEIVED"
  /\ answers' \in {{}} \cup { {v} : v \in Verdicts }
  /\ UNCHANGED <<verdicts, outcomes>>

\* Any other event may change the provider's mind.
HearOfPayment ==
  /\ state # NoCase
  /\ answers # {}
  /\ answers' \in { {v} : v \in Verdicts }
  /\ UNCHANGED <<state, verdicts, outcomes>>

\* run_verification and record_merchant_outcome, as a whole.
GiveVerdict ==
  /\ state \in { "RECEIVED", "FAILED", "ESCALATED" }
  /\ \E v \in answers :
       /\ state' = IF v = "STILL_PENDING" THEN "VERIFICATION_PENDING" ELSE v
       /\ verdicts' = Append(verdicts, v)
       /\ outcomes' = IF v \in Settled THEN Append(outcomes, v = "RECOVERED") ELSE outcomes
  /\ UNCHANGED answers

\* The policy or a reviewer stops the case.
StopCase ==
  /\ state \in { "RECEIVED", "ESCALATED" }
  /\ state' = "STOPPED"
  /\ UNCHANGED <<answers, verdicts, outcomes>>

BookNext == OpenCase \/ HearOfPayment \/ GiveVerdict \/ StopCase

BookSpec == BookInit /\ [][BookNext]_bookVars
=============================================================================
