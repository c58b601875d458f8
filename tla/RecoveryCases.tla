---------------------------- MODULE RecoveryCases ----------------------------
(***************************************************************************)
(* The life of a recovery case: the webhook handlers of apps/api that open *)
(* it and publish work, the RabbitMQ queue, the workers that run the       *)
(* pipeline, the reviewers that act on escalations, and the PostgreSQL row *)
(* they all meet at.                                                       *)
(*                                                                         *)
(* A worker or reviewer runs ONE database transaction per job.  It reads   *)
(* the case without a lock (get_case), takes the row lock at its first     *)
(* transition (session.get(..., with_for_update=True)) and keeps it to the *)
(* commit.  The case object stays in the session's identity map: the       *)
(* locking read does not overwrite the attributes of an object that is     *)
(* already loaded, so view[p] is what p read before it had the lock.  The  *)
(* counts of attempts are SQL queries and always see committed rows.       *)
(***************************************************************************)
EXTENDS Transitions

CONSTANTS
  Cases,             \* payments that may get a case (the first case of each)
  Handlers,          \* concurrent runs of the webhook endpoint
  Workers,           \* worker processes, each with prefetch_count = 1
  Reviewers,         \* concurrent runs of the review endpoint
  Actions,           \* the recovery actions the agent and reviewers pick from
  None,
  MaxRetryCount,     \* PolicyConfig.max_retry_count
  MaxInterventions,  \* PolicyConfig.max_interventions_per_case
  MaxRows,           \* bound: no review of a case whose log is longer
  MaxCrashes         \* bound: crashes of workers and of webhook handlers

Actors == Workers \cup Reviewers
Procs  == Handlers \cup Actors

ASSUME RecoveryCasesAssumption ==
  /\ None \notin Procs \cup RecoveryActions \cup CaseStates
  /\ Handlers \cap Workers = {}
  /\ Handlers \cap Reviewers = {}
  /\ Workers \cap Reviewers = {}
  /\ Actions \subseteq RecoveryActions
  /\ "STOP" \in Actions
  /\ MaxRetryCount \in Nat
  /\ MaxInterventions \in Nat
  /\ MaxRows \in Nat
  /\ MaxCrashes \in Nat

VARIABLES
  caseState,          \* cases.current_state, as committed
  log,                \* case_state_transitions.to_state, in commit order
  retryCount,         \* committed ACTION_EXECUTED rows whose action is RETRY
  interventionCount,  \* committed ACTION_EXECUTED rows
  proposed,           \* proposed_action of the latest committed AgentDecision
  lock,               \* holder of the row lock of the case
  queue,              \* the case_processing queue
  dead,               \* the dead-letter queue
  payment,            \* what the payment provider answers
  notices,            \* webhook events the provider still has to deliver
  pc, job,
  view,               \* current_state of the case object in the session
  rows,               \* transition rows flushed and not yet committed
  action,             \* the action decided on
  executed,           \* one of the flushed rows is ACTION_EXECUTED
  crashes

dbVars   == <<caseState, log, retryCount, interventionCount, proposed>>
mqVars   == <<queue, dead>>
payVars  == <<payment, notices>>
sessVars == <<pc, job, view, rows, action, executed>>
vars     == <<dbVars, lock, mqVars, payVars, sessVars, crashes>>

-----------------------------------------------------------------------------
(* Payments: external, modelled from the statuses _classify tells apart.   *)

PaymentStatuses ==
  { "created", "authorized", "failed", "captured", "mismatched", "refunded" }

\* "mismatched": captured with an amount outside AMOUNT_MISMATCH_TOLERANCE.
PaymentMoves ==
  { <<"created", "authorized">>, <<"created", "failed">>,
    <<"created", "captured">>, <<"authorized", "failed">>,
    <<"authorized", "captured">>, <<"authorized", "mismatched">>,
    <<"failed", "captured">>, <<"captured", "refunded">>,
    <<"mismatched", "refunded">> }

\* The webhook events of a move; a refund has none in RAZORPAY_EVENT_TYPE_MAP.
\* A capture of the full amount also pays the order.  A case that order.paid opens
\* has no payment to verify; that its jobs can only stop or fail is in Settlement.
EventsOf(status) ==
  CASE status = "authorized" -> { "payment.authorized" }
    [] status = "failed"     -> { "payment.failed" }
    [] status = "captured"   -> { "payment.captured", "order.paid" }
    [] status = "mismatched" -> { "payment.captured" }
    [] OTHER -> {}

Events  == { "payment.authorized", "payment.failed", "payment.captured", "order.paid" }
Notices == [case : Cases, event : Events]

ReconcilingEvents == { "payment.captured", "order.paid" }

\* Mutant: an authorization already counts as success.
ClassifyAuthorized(status) ==
  CASE status \in { "captured", "authorized" } -> "RECOVERED"
    [] status \in { "failed", "refunded" }     -> "FAILED"
    [] status = "created"                     -> "STILL_PENDING"
    [] OTHER                                  -> "ESCALATED"

Classify(status) ==
  CASE status = "captured"                  -> "RECOVERED"
    [] status \in { "failed", "refunded" }    -> "FAILED"
    [] status \in { "created", "authorized" } -> "STILL_PENDING"
    [] OTHER                                -> "ESCALATED"

-----------------------------------------------------------------------------
(* Jobs.  "process" and "reconcile" are queue messages without and with    *)
(* reconciliation_needed; the others are a reviewer's decision.            *)

MessageKinds == { "process", "reconcile" }
ReviewKinds  == { "APPROVE", "REJECT", "OVERRIDE" }
Messages     == [case : Cases, kind : MessageKinds]
Jobs         == [case : Cases, kind : MessageKinds \cup ReviewKinds]
NoJob        == [case |-> None, kind |-> None]

\* The state a job requires of the case it finds.
EntryState(kind) ==
  CASE kind = "process"        -> "RECEIVED"
    [] kind = "reconcile"      -> "FAILED"
    [] kind \in ReviewKinds    -> "ESCALATED"

\* The transitions a job makes as soon as it holds the row.
EntryPath(kind) ==
  CASE kind = "process"   -> <<"SCREENING", "DIAGNOSING",
                               "ELIGIBILITY_CHECK", "DECISION">>
    [] kind = "reconcile" -> <<"VERIFICATION_PENDING">>
    [] kind = "REJECT"    -> <<"STOPPED">>
    [] kind \in { "APPROVE", "OVERRIDE" } -> <<"ACTION_PENDING">>

\* What comes after them.
AfterEntry(kind) ==
  CASE kind = "process"   -> "decide"
    [] kind = "reconcile" -> "verify"
    [] kind = "REJECT"    -> "commit"
    [] kind \in { "APPROVE", "OVERRIDE" } -> "gate"

HoldingPcs == { "decide", "gate", "execute", "verify", "commit" }
SessionPcs == { "lock" } \cup HoldingPcs

Holds(p)     == pc[p] \in HoldingPcs
InSession(p) == pc[p] \in SessionPcs

Init ==
  /\ caseState = [c \in Cases |-> NoCase]
  /\ log = [c \in Cases |-> <<>>]
  /\ retryCount = [c \in Cases |-> 0]
  /\ interventionCount = [c \in Cases |-> 0]
  /\ proposed = [c \in Cases |-> None]
  /\ lock = [c \in Cases |-> None]
  /\ queue = <<>>
  /\ dead = <<>>
  /\ payment = [c \in Cases |-> "created"]
  /\ notices = {}
  /\ pc = [p \in Procs |-> "idle"]
  /\ job = [p \in Procs |-> NoJob]
  /\ view = [p \in Procs |-> None]
  /\ rows = [p \in Procs |-> <<>>]
  /\ action = [p \in Procs |-> None]
  /\ executed = [p \in Procs |-> FALSE]
  /\ crashes = 0

\* Mutant: a session kept for the next job, its flushed rows with it.
EndSessionKeepingRows(p) ==
  /\ pc' = [pc EXCEPT ![p] = "idle"]
  /\ job' = [job EXCEPT ![p] = NoJob]
  /\ view' = [view EXCEPT ![p] = None]
  /\ UNCHANGED rows
  /\ action' = [action EXCEPT ![p] = None]
  /\ executed' = [executed EXCEPT ![p] = FALSE]

\* session.close(): nothing of the job is left in the process.
EndSession(p) ==
  /\ pc' = [pc EXCEPT ![p] = "idle"]
  /\ job' = [job EXCEPT ![p] = NoJob]
  /\ view' = [view EXCEPT ![p] = None]
  /\ rows' = [rows EXCEPT ![p] = <<>>]
  /\ action' = [action EXCEPT ![p] = None]
  /\ executed' = [executed EXCEPT ![p] = FALSE]

\* A rollback or a commit gives the row back, if p holds it.
ReleaseRow(p) ==
  lock' = [c \in Cases |-> IF lock[c] = p THEN None ELSE lock[c]]

\* RecoveryStateMachine.transition along `path`: each step is checked against
\* the state in the identity map, added to the log and flushed.
Walk(p, path) ==
  /\ IsPath(<<view[p]>> \o path)
  /\ rows' = [rows EXCEPT ![p] = @ \o path]
  /\ view' = [view EXCEPT ![p] = path[Len(path)]]
-----------------------------------------------------------------------------
(* The provider and the webhook endpoint.                                  *)

PaymentMovesOn(c, status) ==
  /\ <<payment[c], status>> \in PaymentMoves
  /\ payment' = [payment EXCEPT ![c] = status]
  /\ notices' = notices \cup [case : {c}, event : EventsOf(status)]
  /\ UNCHANGED <<dbVars, lock, mqVars, sessVars, crashes>>

\* _find_matching_case and the decision on reconciliation_needed: a plain read
\* of the committed state.  Notices arrive in any order.  A second handler that
\* would open a second case for the same payment is left to module WebhookApi.
Ingest(h, n) ==
  /\ pc[h] = "idle"
  /\ n \in notices
  /\ caseState[n.case] = NoCase =>
       ~ \E g \in Handlers : pc[g] = "persist" /\ job[g].case = n.case
  /\ notices' = notices \ {n}
  /\ job' = [job EXCEPT ![h] =
       [case |-> n.case,
        kind |-> IF caseState[n.case] = "FAILED" /\ n.event \in ReconcilingEvents
                   THEN "reconcile" ELSE "process"]]
  /\ pc' = [pc EXCEPT ![h] = "persist"]
  /\ UNCHANGED <<dbVars, lock, mqVars, payment, view, rows, action, executed, crashes>>

\* create_case or, for an existing case, the payment_events row, whose foreign
\* key needs the case row unlocked; then db.commit().
Persist(h) ==
  LET c == job[h].case IN
  /\ pc[h] = "persist"
  /\ lock[c] = None
  /\ IF caseState[c] = NoCase
       THEN /\ caseState' = [caseState EXCEPT ![c] = "RECEIVED"]
            /\ log' = [log EXCEPT ![c] = Append(@, "RECEIVED")]
       ELSE UNCHANGED <<caseState, log>>
  /\ pc' = [pc EXCEPT ![h] = "publish"]
  /\ UNCHANGED <<retryCount, interventionCount, proposed, lock, mqVars, payVars,
                 job, view, rows, action, executed, crashes>>

Publish(h) ==
  /\ pc[h] = "publish"
  /\ queue' = Append(queue, job[h])
  /\ EndSession(h)
  /\ UNCHANGED <<dbVars, lock, dead, payVars, crashes>>

\* The process dies, or RabbitMQ refuses the connection, after db.commit().
\* The provider sends the event again; the unique razorpay_event_id makes that
\* a "duplicate", which publishes nothing.
LosePublish(h) ==
  /\ pc[h] = "publish"
  /\ crashes < MaxCrashes
  /\ crashes' = crashes + 1
  /\ EndSession(h)
  /\ UNCHANGED <<dbVars, lock, mqVars, payVars>>

-----------------------------------------------------------------------------
(* The worker: _on_message around process_case_event.                      *)

\* Mutant: the state is taken from the message instead of the database.
ReceiveTrusting(w) ==
  LET m == Head(queue) IN
  /\ pc[w] = "idle"
  /\ queue # <<>>
  /\ queue' = Tail(queue)
  /\ job' = [job EXCEPT ![w] = m]
  /\ view' = [view EXCEPT ![w] = EntryState(m.kind)]
  /\ pc' = [pc EXCEPT ![w] = "lock"]
  /\ UNCHANGED <<dbVars, lock, dead, payVars, rows, action, executed, crashes>>

\* basic_deliver and the unlocked get_case.  A message that does not find the
\* state it is about is a no-op that only has to be acknowledged.
Receive(w) ==
  LET m == Head(queue) IN
  /\ pc[w] = "idle"
  /\ queue # <<>>
  /\ queue' = Tail(queue)
  /\ job' = [job EXCEPT ![w] = m]
  /\ view' = [view EXCEPT ![w] = caseState[m.case]]
  /\ pc' = [pc EXCEPT ![w] =
       IF caseState[m.case] = EntryState(m.kind) THEN "lock" ELSE "ack"]
  /\ UNCHANGED <<dbVars, lock, dead, payVars, rows, action, executed, crashes>>

\* Mutant: get() without with_for_update.
AcquireNothing(p) ==
  LET c == job[p].case
      k == job[p].kind
  IN
  /\ pc[p] = "lock"
  /\ lock' = [lock EXCEPT ![c] = p]
  /\ Walk(p, EntryPath(k))
  /\ pc' = [pc EXCEPT ![p] = AfterEntry(k)]
  /\ UNCHANGED <<dbVars, mqVars, payVars, job, action, executed, crashes>>

\* The first transition waits for the row; the ones behind it hold it already.
AcquireRow(p) ==
  LET c == job[p].case
      k == job[p].kind
  IN
  /\ pc[p] = "lock"
  /\ lock[c] = None
  /\ lock' = [lock EXCEPT ![c] = p]
  /\ Walk(p, EntryPath(k))
  /\ pc' = [pc EXCEPT ![p] = AfterEntry(k)]
  /\ UNCHANGED <<dbVars, mqVars, payVars, job, action, executed, crashes>>

\* check_deterministic_stop skips the agent once the retries are used up.
Decide(w) ==
  /\ pc[w] = "decide"
  /\ \E a \in Actions :
       /\ retryCount[job[w].case] >= MaxRetryCount => a = "STOP"
       /\ action' = [action EXCEPT ![w] = a]
  /\ Walk(w, <<"ACTION_PENDING">>)
  /\ pc' = [pc EXCEPT ![w] = "gate"]
  /\ UNCHANGED <<dbVars, lock, mqVars, payVars, job, executed, crashes>>

\* The rules that count this case's attempts; the other rules of the policy
\* engine (module PolicyEngine) only ever turn an ALLOW into a stop.
GateMayAllow(c, a) ==
  /\ retryCount[c] < MaxRetryCount
  /\ a \in InterventionActions => interventionCount[c] < MaxInterventions

\* Mutant: the gate commits its decision before the action is executed.
GateApprovesAndCommits(p) ==
  LET c == job[p].case IN
  /\ pc[p] = "gate"
  /\ GateMayAllow(c, action[p])
  /\ caseState' = [caseState EXCEPT ![c] = view[p]]
  /\ log' = [log EXCEPT ![c] = @ \o rows[p]]
  /\ rows' = [rows EXCEPT ![p] = <<>>]
  /\ pc' = [pc EXCEPT ![p] = "execute"]
  /\ UNCHANGED <<retryCount, interventionCount, proposed, lock, mqVars, payVars,
                 job, view, action, executed, crashes>>

GateApproves(p) ==
  /\ pc[p] = "gate"
  /\ view[p] = "ACTION_PENDING"
  /\ GateMayAllow(job[p].case, action[p])
  /\ pc' = [pc EXCEPT ![p] = "execute"]
  /\ UNCHANGED <<dbVars, lock, mqVars, payVars, job, view, rows, action, executed, crashes>>

\* DENY and FORCE_ACTION alike end in STOPPED.
GateStops(p) ==
  /\ pc[p] = "gate"
  /\ Walk(p, <<"STOPPED">>)
  /\ pc' = [pc EXCEPT ![p] = "commit"]
  /\ UNCHANGED <<dbVars, lock, mqVars, payVars, job, action, executed, crashes>>

ExecuteAction(p) ==
  /\ pc[p] = "execute"
  /\ Walk(p, <<"ACTION_EXECUTED", "VERIFICATION_PENDING">>)
  /\ executed' = [executed EXCEPT ![p] = TRUE]
  /\ pc' = [pc EXCEPT ![p] = "verify"]
  /\ UNCHANGED <<dbVars, lock, mqVars, payVars, job, action, crashes>>

\* run_verification: only a settled outcome makes a transition.  The provider
\* may also fail, which _record_error turns into outcome ERROR.
RunVerification(p) ==
  /\ pc[p] = "verify"
  /\ view[p] = "VERIFICATION_PENDING"
  /\ \E outcome \in { Classify(payment[job[p].case]), "ERROR" } :
       IF outcome \in { "STILL_PENDING", "ERROR" }
         THEN UNCHANGED <<view, rows>>
         ELSE Walk(p, <<outcome>>)
  /\ pc' = [pc EXCEPT ![p] = "commit"]
  /\ UNCHANGED <<dbVars, lock, mqVars, payVars, job, action, executed, crashes>>

\* session.commit(): everything flushed becomes visible and the row is free.
Commit(p) ==
  LET c == job[p].case IN
  /\ pc[p] = "commit"
  /\ caseState' = [caseState EXCEPT ![c] = view[p]]
  /\ log' = [log EXCEPT ![c] = @ \o rows[p]]
  /\ retryCount' = [retryCount EXCEPT ![c] =
       IF executed[p] /\ action[p] = "RETRY" THEN @ + 1 ELSE @]
  /\ interventionCount' = [interventionCount EXCEPT ![c] =
       IF executed[p] THEN @ + 1 ELSE @]
  /\ proposed' = [proposed EXCEPT ![c] =
       IF job[p].kind = "process" THEN action[p] ELSE @]
  /\ ReleaseRow(p)
  /\ IF p \in Workers
       THEN /\ pc' = [pc EXCEPT ![p] = "ack"]
            /\ UNCHANGED <<job, view, rows, action, executed>>
       ELSE EndSession(p)
  /\ UNCHANGED <<mqVars, payVars, crashes>>

Ack(w) ==
  /\ pc[w] = "ack"
  /\ EndSession(w)
  /\ UNCHANGED <<dbVars, lock, mqVars, payVars, crashes>>

\* Mutant: basic_nack(requeue=True).
FailRequeueing(p) ==
  /\ InSession(p)
  /\ queue' = IF p \in Workers THEN Append(queue, job[p]) ELSE queue
  /\ ReleaseRow(p)
  /\ EndSession(p)
  /\ UNCHANGED <<dbVars, dead, payVars, crashes>>

\* Mutant: the exception path without session.rollback().
FailHoldingRow(p) ==
  /\ InSession(p)
  /\ dead' = IF p \in Workers THEN Append(dead, job[p]) ELSE dead
  /\ EndSession(p)
  /\ UNCHANGED <<dbVars, lock, queue, payVars, crashes>>

\* Any exception before the commit: the worker rolls back and rejects the
\* message to the dead-letter queue, the review endpoint rolls back.
Fail(p) ==
  /\ InSession(p)
  /\ dead' = IF p \in Workers THEN Append(dead, job[p]) ELSE dead
  /\ ReleaseRow(p)
  /\ EndSession(p)
  /\ UNCHANGED <<dbVars, queue, payVars, crashes>>

\* Mutant: basic_consume(auto_ack=True), the message dies with the worker.
CrashLosing(w) ==
  /\ InSession(w) \/ pc[w] = "ack"
  /\ crashes < MaxCrashes
  /\ crashes' = crashes + 1
  /\ ReleaseRow(w)
  /\ EndSession(w)
  /\ UNCHANGED <<dbVars, mqVars, payVars>>

\* Mutant: the job is cleared before it is given back.
CrashClearing(w) ==
  /\ InSession(w) \/ pc[w] = "ack"
  /\ crashes < MaxCrashes
  /\ crashes' = crashes + 1
  /\ ReleaseRow(w)
  /\ EndSession(w)
  /\ queue' = <<job'[w]>> \o queue
  /\ UNCHANGED <<dbVars, dead, payVars>>

\* The worker process dies: PostgreSQL rolls its transaction back, RabbitMQ
\* puts the unacknowledged message back at the head of the queue.
Crash(w) ==
  /\ InSession(w) \/ pc[w] = "ack"
  /\ crashes < MaxCrashes
  /\ crashes' = crashes + 1
  /\ queue' = <<job[w]>> \o queue
  /\ ReleaseRow(w)
  /\ EndSession(w)
  /\ UNCHANGED <<dbVars, dead, payVars>>

-----------------------------------------------------------------------------
(* The review endpoint: review_escalated_case.                             *)

\* The unlocked get_case and the checks on the decision.  APPROVE repeats the
\* agent's latest proposal if there is one, OVERRIDE names any action.
Review(r, c, kind) ==
  /\ pc[r] = "idle"
  /\ caseState[c] = "ESCALATED"
  /\ Len(log[c]) <= MaxRows
  /\ job' = [job EXCEPT ![r] = [case |-> c, kind |-> kind]]
  /\ view' = [view EXCEPT ![r] = caseState[c]]
  /\ CASE kind = "REJECT"   -> UNCHANGED action
       [] kind = "APPROVE"  -> \E a \in Actions :
                                 /\ proposed[c] # None => a = proposed[c]
                                 /\ action' = [action EXCEPT ![r] = a]
       [] kind = "OVERRIDE" -> \E a \in Actions : action' = [action EXCEPT ![r] = a]
  /\ pc' = [pc EXCEPT ![r] = "lock"]
  /\ UNCHANGED <<dbVars, lock, mqVars, payVars, rows, executed, crashes>>

-----------------------------------------------------------------------------
PipelineStep(p) ==
  \/ AcquireRow(p) \/ Decide(p) \/ GateApproves(p) \/ GateStops(p)
  \/ ExecuteAction(p) \/ RunVerification(p) \/ Commit(p)

Next ==
  \/ \E c \in Cases, status \in PaymentStatuses : PaymentMovesOn(c, status)
  \/ \E h \in Handlers, n \in Notices : Ingest(h, n)
  \/ \E h \in Handlers : Persist(h) \/ Publish(h) \/ LosePublish(h)
  \/ \E w \in Workers : Receive(w) \/ Ack(w) \/ Crash(w)
  \/ \E r \in Reviewers, c \in Cases, kind \in ReviewKinds : Review(r, c, kind)
  \/ \E p \in Actors : PipelineStep(p) \/ Fail(p)

Spec == Init /\ [][Next]_vars

\* A handler, worker or request thread that has begun goes on; a worker that is
\* idle takes the next message; waiters on a row lock are served in turn.
\* Payments, reviews, failures and crashes are not promised.
Fairness ==
  /\ \A h \in Handlers : WF_vars(Persist(h)) /\ WF_vars(Publish(h))
  /\ \A w \in Workers : WF_vars(Receive(w)) /\ WF_vars(Ack(w))
  /\ \A p \in Actors :
       WF_vars(PipelineStep(p)) /\ SF_vars(AcquireRow(p))

FairSpec == Spec /\ Fairness

-----------------------------------------------------------------------------
(* Invariants that hold for any number of handlers, workers and reviewers. *)

TypeOK ==
  /\ caseState \in [Cases -> CaseStates \cup {NoCase}]
  /\ log \in [Cases -> Seq(CaseStates)]
  /\ retryCount \in [Cases -> Nat]
  /\ interventionCount \in [Cases -> Nat]
  /\ proposed \in [Cases -> Actions \cup {None}]
  /\ lock \in [Cases -> Actors \cup {None}]
  /\ queue \in Seq(Messages)
  /\ dead \in Seq(Messages)
  /\ payment \in [Cases -> PaymentStatuses]
  /\ notices \subseteq Notices
  /\ pc \in [Procs -> { "idle", "persist", "publish", "ack" } \cup SessionPcs]
  /\ job \in [Procs -> Jobs \cup {NoJob}]
  /\ view \in [Procs -> CaseStates \cup {None, NoCase}]
  /\ rows \in [Procs -> Seq(CaseStates)]
  /\ action \in [Procs -> Actions \cup {None}]
  /\ executed \in [Procs -> BOOLEAN]
  /\ crashes \in 0..MaxCrashes

\* A case has at most one session between its first transition and its commit,
\* and the row lock names it: what with_for_update=True is for.
RowLockExclusive ==
  \A p \in Actors, c \in Cases :
    Holds(p) /\ job[p].case = c <=> lock[c] = p

\* The states in which a committed case can be found.
RestingStates ==
  { "RECEIVED", "VERIFICATION_PENDING", "RECOVERED", "FAILED", "ESCALATED", "STOPPED" }

\* A job is all or nothing: whatever exception, crash or redelivery happens, no
\* reader ever finds a case in the middle of the pipeline, where no message and
\* no endpoint would pick it up again.
OnlyRestingStates ==
  \A c \in Cases : caseState[c] \in RestingStates \cup {NoCase}

\* The policy's retry limit holds for the case however its messages, reviews,
\* crashes and redeliveries interleave: a gate that looked at the count still
\* holds the row when its own RETRY is committed.
RetryCap == \A c \in Cases : retryCount[c] <= MaxRetryCount

\* "RECOVERED" only ever says that the provider reported the full capture; a
\* refund may have followed.
RecoveredWasCaptured ==
  \A c \in Cases : caseState[c] = "RECOVERED" => payment[c] \in { "captured", "refunded" }

\* What a process that holds a job knows at each point of its code.  A count
\* that let the gate approve is still below its limit, and a capture that made
\* the verification settle on RECOVERED is still a capture, until the commit.
ActorShape(p) ==
  LET c == job[p].case
      k == job[p].kind
  IN
  /\ pc[p] \notin { "persist", "publish" }
  /\ p \in Reviewers => pc[p] # "ack"
  /\ pc[p] # "idle" => job[p] \in Jobs
  /\ pc[p] # "idle" /\ p \in Workers => job[p] \in Messages
  /\ pc[p] = "lock" => view[p] = EntryState(k)
  /\ pc[p] \in { "idle", "lock", "decide", "gate", "execute" } => ~ executed[p]
  /\ pc[p] = "decide" => k = "process" /\ view[p] = "DECISION"
  /\ pc[p] \in { "gate", "execute" } => view[p] = "ACTION_PENDING"
  /\ pc[p] = "execute" \/ (executed[p] /\ pc[p] \in { "verify", "commit" })
       => retryCount[c] < MaxRetryCount
  /\ pc[p] = "verify" => view[p] = "VERIFICATION_PENDING"
  /\ pc[p] = "commit" => view[p] \in RestingStates
  /\ pc[p] = "commit" /\ view[p] = "RECOVERED"
       => payment[c] \in { "captured", "refunded" }

HandlerShape(h) ==
  /\ pc[h] \in { "idle", "persist", "publish" }
  /\ pc[h] # "idle" => job[h] \in Messages

\* The inductive invariant behind the five properties above.
IInv ==
  /\ TypeOK
  /\ \A p \in Actors : ActorShape(p)
  /\ \A h \in Handlers : HandlerShape(h)
  /\ RowLockExclusive
  /\ OnlyRestingStates
  /\ RetryCap
  /\ RecoveredWasCaptured

-----------------------------------------------------------------------------
(* Properties of a deployment with one worker and one reviewer at a time.  *)

\* The audit trail of a case is one path through ALLOWED_TRANSITIONS, and it
\* ends in the current state.
AuditTrailIsPath ==
  \A c \in Cases :
    /\ IsPath(<<NoCase>> \o log[c])
    /\ caseState[c] = IF log[c] = <<>> THEN NoCase ELSE log[c][Len(log[c])]

\* RECOVERED and STOPPED are never left.
TerminalIsFinal ==
  [][\A c \in Cases : caseState[c] \in TerminalStates => caseState'[c] = caseState[c]]_vars

\* Sessions, the row lock, redeliveries and crashes are invisible: what is
\* committed is a sequence of complete jobs, each started from the state the
\* one before it left (module CaseLifecycle).
Lifecycle == INSTANCE CaseLifecycle
  WITH Cases <- Cases, caseState <- caseState, log <- log
JobsAreSerial == Lifecycle!Spec

\* The pipeline is entered at most once for a case, whatever is redelivered or
\* duplicated: nothing leads back to RECEIVED.
PipelineRunsOnce ==
  \A c \in Cases, i, j \in 1..MaxRows :
    /\ i < j
    /\ j <= Len(log[c])
    => ~ (log[c][i] = "SCREENING" /\ log[c][j] = "SCREENING")

-----------------------------------------------------------------------------
(* Liveness, under FairSpec.                                               *)

MessageFor(c) == \E i \in 1..Len(queue) : queue[i].case = c
DeadLetterFor(c) == \E i \in 1..Len(dead) : dead[i].case = c

\* A new case whose message reached the broker is worked on, or the message is
\* kept in the dead-letter queue, also when the worker crashes on it.
PublishedIsProcessed ==
  \A c \in Cases :
    caseState[c] = "RECEIVED" /\ MessageFor(c)
      ~> caseState[c] # "RECEIVED" \/ DeadLetterFor(c)

\* The README's promise for ingestion and worker together: every received case
\* is worked on or dead-lettered, never silently dropped.
ReceivedIsProcessed ==
  \A c \in Cases :
    caseState[c] = "RECEIVED" ~> caseState[c] # "RECEIVED" \/ DeadLetterFor(c)

\* No message circulates for ever.
QueueDrains == []<>(queue = <<>>)

\* Every session gives its row back, also one that failed.
RowIsFreed == \A c \in Cases : lock[c] # None ~> lock[c] = None
=============================================================================
