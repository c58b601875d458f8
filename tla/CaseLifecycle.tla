---------------------------- MODULE CaseLifecycle ----------------------------
(***************************************************************************)
(* What the recovery pipeline promises of a case to whoever reads the      *)
(* database: a case is opened once, and after that one complete job at a   *)
(* time is added to its audit trail, by a job that starts from the state   *)
(* the case is in.  No session, lock, queue or crash is visible here;      *)
(* RecoveryCases implements this with all of them.                         *)
(***************************************************************************)
EXTENDS Transitions

CONSTANT Cases

VARIABLES
  caseState,   \* cases.current_state
  log          \* case_state_transitions.to_state, oldest first

vars == <<caseState, log>>

Verdicts == { "RECOVERED", "FAILED", "ESCALATED" }

\* The ends of a job that reaches its verification: a verdict, or none yet.
Verified(path) == {path} \cup { Append(path, v) : v \in Verdicts }

\* The ends of a job that reaches the policy gate.
Gated(path) ==
  {Append(path, "STOPPED")} \cup
  Verified(path \o <<"ACTION_EXECUTED", "VERIFICATION_PENDING">>)

\* run_case_pipeline.
PipelineJobs ==
  Gated(<<"SCREENING", "DIAGNOSING", "ELIGIBILITY_CHECK", "DECISION", "ACTION_PENDING">>)

\* reconcile_and_reverify.
ReconcileJobs == Verified(<<"VERIFICATION_PENDING">>)

\* review_escalated_case: a rejection, or an approval and its gate.
ReviewJobs == {<<"STOPPED">>} \cup Gated(<<"ACTION_PENDING">>)

\* The jobs that a case in a given state can be given.
JobsFrom(state) ==
  CASE state = "RECEIVED"  -> PipelineJobs
    [] state = "FAILED"    -> ReconcileJobs
    [] state = "ESCALATED" -> ReviewJobs
    [] OTHER               -> {}

Init ==
  /\ caseState = [c \in Cases |-> NoCase]
  /\ log = [c \in Cases |-> <<>>]

Open(c) ==
  /\ caseState[c] = NoCase
  /\ caseState' = [caseState EXCEPT ![c] = "RECEIVED"]
  /\ log' = [log EXCEPT ![c] = <<"RECEIVED">>]

DoJob(c) ==
  \E path \in JobsFrom(caseState[c]) :
    /\ caseState' = [caseState EXCEPT ![c] = path[Len(path)]]
    /\ log' = [log EXCEPT ![c] = @ \o path]

Next == \E c \in Cases : Open(c) \/ DoJob(c)

Spec == Init /\ [][Next]_vars
=============================================================================
