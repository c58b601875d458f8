# Rayvex in TLA+

Rayvex recovers failed payments: webhooks of a payment provider open *recovery
cases*, workers run each case through screening, an agent's proposal, a policy
gate, an action and a verification, and reviewers act on what was escalated.
This directory models the parts of it where order, concurrency and failure
decide whether it is right, checks them with TLC on small instances, and proves
what matters most with TLAPS for every instance. `PROJECT.json` lists
components, runs, mutants, the source lines of each definition, findings,
hazards and theorems.

To check: `tlc -config OneWorker.cfg MCRecoveryCases` (and so on, see *Runs*);
to prove: `tlapm RecoveryCasesProofs.tla`, and the same for each module whose
name ends in `Proofs`.

## 1. Inventory

Paths are below `src/`.

| Component | State it keeps | Operations | Talks to | Modelled in |
|---|---|---|---|---|
| Case state machine (`services/recovery/state_machine.py`, `transitions.py`, `models/case*.py`) | `cases.current_state`, the rows of `case_state_transitions` | `create_case`, `transition` | everybody who moves a case | Transitions, CaseLifecycle, RecoveryCases |
| Pipeline (`case_orchestrator.py`, `action_gate.py`, `attempt_counts.py`, `action_executor.py`) | none of its own; one session per message | screening, decision, gate, execution | state machine, agent, policy, verification | RecoveryCases, CaseLifecycle, PolicyGate |
| Worker and queue (`apps/worker`, `services/ingestion/queue.py`) | RabbitMQ queue and dead-letter queue | consume, ack, reject, publish | pipeline, reconciliation | RecoveryCases, Settlement |
| Human review (`human_review.py`, `routers/escalations.py`) | `human_review_actions` | APPROVE, REJECT, OVERRIDE | state machine, execution | RecoveryCases, WebhookApi |
| Verification and reconciliation (`services/payments/verification.py`, `reconciliation.py`) | `payment_verifications` | `run_verification`, `reconcile_and_reverify` | provider, state machine, merchant outcomes | RecoveryCases, Settlement, VerdictBook |
| Simulated provider (`simulation_provider.py`) | none, reads `payment_events` | `verify_payment` | verification | Settlement |
| Merchant outcomes (`merchant_outcomes.py`) | `merchant_recovery_outcomes` | `record_merchant_outcome` | verification, probability | Settlement, VerdictBook, RecoveryValue |
| Webhook ingestion (`webhook_processor.py`, `routers/webhooks.py`) | `raw_webhook_events`, `payment_events` | deduplicate, match, store, publish | state machine, queue | WebhookApi, EventIntake, RecoveryCases, Settlement |
| API processes (`Dockerfile.api`, `apps/api/deps.py`) | an event loop and sessions per request | enter and exit `get_db`, run handlers | all routers | WebhookApi |
| Policy engine (`services/policy/engine.py`) | none, pure | `evaluate` | gate, screening, agent's preview | PolicyEngine, PolicyGate |
| Policy configuration (`config_repository.py`, `routers/policy.py`) | `policy_configs`, one active row per scope | activate, seed, read with fallback | gate, screening, reviewers | PolicyConfigs, VersionHistory |
| Redis guards (`redis_guards.py`) | cooldown keys, velocity sorted sets, daily counters | record, read | gate, screening, risk score | AttemptGuards, RedisKeys |
| Webhook rate limit (`apps/api/rate_limit.py`) | a Redis counter per client and window | `check_rate_limit` | webhook endpoint | RateLimit, RedisKeys |
| Recovery probability and expected value (`probability.py`, `expected_value.py`, `outcomes_repository.py`) | none, reads the outcome tables | `estimate`, `calculate_expected_value`, ranking | agent's tools, benchmark | RecoveryValue |
| Benchmark and A/B experiments (`services/evaluation`) | `synthetic_recovery_outcomes` | `run_intelligent_recovery_case`, `run_ab_experiment` | policy engine, probability | RecoveryValue |
| Agent (`services/agent`) | `agent_decisions` | `propose`, its tools | policy, configuration, provider | AgentLoop |
| Risk score, recovery configuration, accounts, machine learning, read-only API, simulator, front end, logging, seed | see `PROJECT.json` | | | not modelled, reasons there |

How they interact: the webhook endpoint commits a case and then publishes a
message; a worker takes the message and does all its work in one database
transaction, committed before the acknowledgement; a reviewer's request does the
same in the transaction of its request. Shared state is PostgreSQL (rows, row
locks, unique indexes), RabbitMQ and Redis. There is no in-memory state beyond
one request or one message except each API process's event loop.

What is hard: two sessions on one case (a locking read that does not refresh an
object already loaded); commit and publish, and commit and acknowledge, as two
steps; a crash between any two of them; blocking calls on an event loop whose
thread-pool requests need that loop to commit; the policy being evaluated twice
with facts and configuration that move in between; READ COMMITTED sessions that
race for a partial unique index; several Redis commands where one would be
needed; statistics read by several statements while rows are committed; events
stored while the verification that reads them is under way. `PROJECT.json` lists each at its line.

## 2. Modules

| Module | Models | State and actions |
|---|---|---|
| Transitions | states, transition table, actions | constants and `IsPath` |
| CaseLifecycle | what a reader of the database is promised of a case | `Open`, `DoJob`: one complete job at a time |
| RecoveryCases | life of a case, end to end; `JobsAreSerial` maps it to CaseLifecycle | see below |
| Settlement | events of an order, the simulated provider, verdicts and outcome rows; `VerdictsAreAtomic` maps it to VerdictBook | see below |
| VerdictBook | what verification promises to a reader of its books | `OpenCase`, `HearOfPayment`, `GiveVerdict`, `StopCase` |
| PolicyEngine | `evaluate()`, rule by rule, first match wins | operators; `Permitted` states the same without an order |
| PolicyGate | the two evaluations of one case | `Screen`, `Propose`, `WorldMoves`, `Gate` |
| WebhookApi | deliveries and reviews inside the API processes; `IntakeIsAtomic` maps it to EventIntake | see below |
| EventIntake | what the webhook endpoint promises to the provider | `TakeIn`, `LosePublish`, one action per answer |
| PolicyConfigs | versions of the configuration at READ COMMITTED; `VersionsAdvance` maps it to VersionHistory | see below |
| VersionHistory | what the configuration promises to its readers | `PutInForce`, `FileFor` |
| AgentLoop | one conversation of the agent in its worker's session | `Ask`, `Answer`, `Raise`, `Record`, `GiveUp`, commit, failure, redelivery |
| AttemptGuards | the Redis keys of one customer, command by command | `SetCooldown` … `CountAttempt`, `RecorderDies`, `ReadDaily` … `ReadVelocity`, `Judge`, `Tick` |
| RateLimit | the request counters of one client | `Arrive`, `Increment`, `SetExpiry`, `RequestDies` |
| RedisKeys | AttemptGuards and RateLimit on one Redis under one clock | their steps, and one tick for both |
| RecoveryValue | estimate, expected value, a benchmark case, an A/B experiment | see below |
| RecoveryCasesProofs, PolicyProofs, WebhookApiProofs, RecoveryValueProofs, RedisProofs, SettlementProofs, PolicyConfigsProofs, AgentLoopProofs | theorems | see *Proofs* |
| MCRecoveryCases, MCPolicyGate, MCWebhookApi, MCSettlement, MCRedisKeys, MCRecoveryValue | values for the constants, symmetry | |

**RecoveryCases.** `caseState`, `log`, `retryCount`, `interventionCount` and
`proposed` are committed rows; `queue` and `dead` the two RabbitMQ queues;
`payment` and `notices` the provider. Each process has a program counter, a job,
and — the point of the module — `view`, the state of the case *object in its
session*. `get_case` reads without a lock; the first `transition` takes the row
lock with `session.get(..., with_for_update=True)`, which waits for the row but
leaves the attributes of a loaded object alone, so `AcquireRow` lets the process
go on from `view` and not from `caseState`. Counts of attempts are SQL queries
and see committed rows. `rows` are flushed transitions; `Commit` makes them part
of `log`, `Fail` and `Crash` drop them. A delivery whose endpoint fails before
its commit changes nothing and can be delivered again: it is as if it had not
been delivered yet, and has no action. A capture of the full amount sends
`payment.captured` and `order.paid`, and either may reconcile; that a case opened by
`order.paid` has no payment to verify is in Settlement.

**CaseLifecycle** has the two columns a reader sees, `caseState` and `log`.
`DoJob` appends one of the paths that `JobsFrom` allows from the present state:
a run of the pipeline, a reconciliation, a review. The mapping from
RecoveryCases is the identity on `caseState` and `log`; queues, locks, sessions
and crashes are not mapped to anything.

**Settlement** has what RecoveryCases abstracts from: `events` are the rows of
`payment_events` with the order of their ingestion, `Verdict` is
`SimulationProvider.verify_payment` over them followed by `_classify`, and
`verdicts`, `acted` and `outcomes` are the rows a job leaves behind. `Ingest`
fixes the reconciliation flag from the committed state of the case; `Store`
waits for the row of the case, because of the foreign key; the jobs run one at a
time, as `JobsAreSerial` shows of one worker and one reviewer. Two facts of the
code that the module contains, and nothing promises otherwise: a capture that is
ingested while the job that ends in FAILED still runs is published without the
flag and never looked at; a case opened by `order.paid` has no `payment_id`, so
that every job on it is stopped by the policy or fails.

**VerdictBook** has the state of the case, the verdicts and the outcomes, and
`answers`: the one verdict the provider would give at this moment, or none for a
case without a payment. `GiveVerdict` is `run_verification` and
`record_merchant_outcome` in one step: the verdict is the answer of that very
moment, and state and outcome row come with it. The mapping sends `answers` to
the provider's answer over the stored events and `state` to the case's; of
handlers, queue, session, `acted` and crashes nothing is left. Settlement's
commit is a `GiveVerdict` or a `StopCase`, its `Store` an `OpenCase`, a
`HearOfPayment` or nothing.

**WebhookApi.** `receive_razorpay_webhook` is `async def` and blocks: from
`CallWebhook` to its return it owns `loop[home]`. `review_case` is a plain
`def`: it runs in a thread, but needs a free loop to be called (`CallReview`)
and to leave `get_db` (`Exit`), where its commit is. `key[e]` is the open
transaction that inserted the raw row of event `e`, on which a second delivery
waits; `row[c]` the row lock of a case, which storing a payment event needs too
(foreign key). Signature and payload checks are nondeterministic refusals.

**EventIntake** has `stored` and `cases`, as they are committed, the deliveries
that were `accepted` and not answered yet, and the `replies` that were sent.
`TakeIn` is all of `ingest_webhook` and its commit in one step, for an event that
is not stored yet; a duplicate is answered when the event is stored, and an
unrecognized event is stored as it is answered, because its commit is in the exit
of `get_db`. That two processes may open a case each for one payment is written
into `TakeIn`, as the code allows it (finding 3). The mapping takes `accepted` and
`replies` from program counters and answers; loops, keys, rows, reviews and
workers are not mapped to anything.

**PolicyConfigs.** A writer selects the active row, updates it, inserts its
successor, re-reads it for the answer and commits, each a step of its own. An
update waits for the session that holds the row, an insert for the session with
a change of the same index entry open, and raises IntegrityError when another
active row of the scope is committed. NULL counts as one value (the index is
`NULLS NOT DISTINCT`). An evaluation reads the merchant's row, then the default,
and files a decision. `was` is history: what was in force when an evaluation
began and since. `recovery_configs` has the same code and no endpoint.

**VersionHistory** is one counter per scope. `PutInForce` makes the next version
the one in force, in one step, and each writer does it once at most; `FileFor`
files a decision that names an issued version. The mapping reads the counter from
the active row of a scope (0 without one) and what was `issued` from all rows; a
writer's commit is a `PutInForce` or nothing, an evaluation's record a `FileFor`,
every other step a stutter.

**AgentLoop.** `messages` is the transcript, `pending` the calls of the last
response not handled yet, `llmCallCount` the turns taken, which the row of a
decision carries, `trace` the persisted tool trace, `flushed` the rows of the
session. Tools answer or raise; none but `record_decision` writes. The calls are
those of `response.tool_calls`: a call whose arguments do not parse is in
`invalid_tool_calls`, which `propose` does not look at and never answers.

**AttemptGuards, RateLimit, RedisKeys.** `Recorders` are the callers of
`record_action_attempt`. These are the seed script and the tests: although
`src/README.md:175` names "real Redis-backed cooldown/velocity/daily-attempt
guards", nothing in the pipeline records an attempt, so the module has no action
that would write the keys from there. Each command is a step; a recorder or a request
may die between two of them; a key expires at the tick at which its time is up.
A gate reads all its guards, pruning included, before it judges any of them, as
`build_policy_context` and `evaluate` do.
`added` and `refreshed` are history, for the properties.

**RecoveryValue.** One reader, a benchmark case or an experiment, sends one
statement per step, while other transactions commit rows (`OutcomeIsCommitted`,
`TrainingIsCommitted`); readers change nothing others read. Probabilities are
fractions and are compared by multiplying out; the significance test is
`|z| > 1.96` with both sides squared. Rows of one failure code, payment method
and amount bucket are counted, by how far they are from the case (`Origins`).

## 3. Runs

| Run | Module, cfg | Instance | Shows |
|---|---|---|---|
| one_worker | MCRecoveryCases, OneWorker.cfg | 1 case, 2 handlers, 1 worker, 1 reviewer, 1 crash, 3 actions | `AuditTrailIsPath`, `PipelineRunsOnce`, `TerminalIsFinal`, the refinement `JobsAreSerial`, and the liveness properties `PublishedIsProcessed`, `QueueDrains`, `RowIsFreed` |
| many_actors | MCRecoveryCases, ManyActors.cfg | 1 case, 2 workers, 2 reviewers, symmetric | what holds under every interleaving: `RowLockExclusive`, `OnlyRestingStates`, `RetryCap`, `RecoveredWasCaptured` |
| two_workers | MCRecoveryCases, TwoWorkers.cfg | 1 case, 2 workers | violated: `PipelineRunsOnce` |
| lost_publish | MCRecoveryCases, LostPublish.cfg | 1 case, 1 handler, 1 worker | violated under fairness: `ReceivedIsProcessed` |
| policy_gate | MCPolicyGate, PolicyGate.cfg | 2 codes, values on both sides of every threshold, 2 configurations | rules against their order-free meaning, the soundness of the skip |
| webhook_api | MCWebhookApi, WebhookApi.cfg | 2 events of a payment at 2 processes, one of them delivered again at the same process or at the other; a review at the second process, a worker | idempotency, durability of answers, the refinement `IntakeIsAtomic`; every accepted request is answered, or caught in a circle of waits through an event loop (`AnsweredUnlessCircular`), and answered if the requests are served apart (`RequestIsAnswered`) |
| two_processes | MCWebhookApi, TwoProcesses.cfg | 2 events of a payment at 2 processes | violated: `OneCasePerPayment` |
| policy_configs | PolicyConfigs, PolicyConfigs.cfg | 2 updates, 1 seed, 1 evaluation, 1 merchant and the default | `VersionsAreAHistory`, `DefaultIsFound`, `DecisionWasInForce`, the refinement `VersionsAdvance`, `PutIsAnswered` |
| agent_loop | AgentLoop, AgentLoop.cfg | 3 responses of up to 2 calls, 2 deliveries | `EveryCallIsAnswered`, `RecordIsTheDecision`, `FirstRecordCounts`, `ProposeEnds` |
| settlement | MCSettlement, Settlement.cfg | 2 payments of an order, 2 handlers, 4 events, 1 crash | `VerdictFitsTheEvents`, `ReconciliationIsNotLost`, `RecoveredCountsOnce`, `UnverifiableIsNeverSettled`, the refinement `VerdictsAreAtomic` |
| redis_guards | MCRedisKeys, RedisKeys.cfg | 2 recorders, a gate, 3 requests, 6 ticks | `CountedForItsWindow`, `NotStoppedByOldAttempts`, `RefusedOnlyWhenFull` |
| recovery_value | MCRecoveryValue, RecoveryValue.cfg | 3 actions, 4 first tables, 4 policies, up to 2 real rows an action | `EstimatesAreRates`, `IntelligentCaseIsBounded`, `WinnerIsBetter` |

The run one_worker checks the type invariant TypeOK. Those of WebhookApi,
Settlement, PolicyConfigs and AgentLoop are the first conjunct of a proved
invariant; GateTypeOK is there to be read, and for whoever changes the module.
`DuplicateIsStored` and `AcknowledgedIsStored` are theorems without a run of their
own: `IntakeIsAtomic` says more, and is checked.

**Bounds.**

- RecoveryCases: cases share nothing but the queue, so one case shows every race
  on its row; two sessions are enough for a stale view, two handlers for two
  messages of one case. `MaxRows` only stops *new reviews* of a case with a long
  log and `MaxCrashes` new crashes; both are above what any counterexample
  needs. `MaxRetryCount = 1` lets a retry be both allowed and refused.
- PolicyGate: the values of each fact lie below, on and above the thresholds.
- WebhookApi: the first event comes at one process (`w1`), and once more at the
  other (`w2`) or at the same (`w4`); the constraint `DeliveredTwice` leaves out
  the behaviours in which all three come. As no request has to come, what it cuts
  off leaves fair behaviours fair. With `w2` the second delivery waits across
  processes, and on the loop the review needs; with `w4` it waits on the loop the
  first needs; without either, or without the review, requests are served apart.
- PolicyConfigs: three writers make a race of two with a version before or
  after it.
- AgentLoop: `MaxSteps = 3` (8 in the code) separates the first, a middle and
  the last turn; two calls per response allow a call before and after a record.
- Settlement: two payments let an order be paid by the attempt that is not the
  case's; four events let a payment fail, be captured late or twice reported,
  and another one interfere; `MaxVerdicts` only stops new reviews.
- RedisKeys: the velocity window is 3 ticks of 6, so that members grow old, keys
  expire and are refreshed; a request window is 2 ticks, so there are four; a
  day of 3 ticks changes twice. Three requests exceed the limit of 2, two
  recorders reach the threshold of 2. The constraint `OneOfThem` looks at the
  behaviours in which only the guards or only the counters have moved: the two
  share nothing but the clock and no property speaks of both.
- RecoveryValue: the tables have no rows, rows in the wider tiers only, more
  successes in the arm with the lower rate, and samples just below and at
  `MinSampleSize = 3`; with the rows committed meanwhile, every tier is both
  used and passed over. A policy allows more interventions than attempts, as
  many, or refuses the action.

Symmetry is used where processes, payments or recorders are not named by any
action or property, and never with a liveness property.

**Deadlock** is not checked (`CHECK_DEADLOCK FALSE`): each system may really
stop, when payments are settled, messages processed and requests answered, or
when a bound is reached. That nobody waits for ever is said by the liveness
properties instead.

**Fairness.** `FairSpec` asks weak fairness of each handler, worker and request
that has begun, because it is a running thread, and strong fairness of
`AcquireRow`, because PostgreSQL serves the waiters of a lock in turn. Payments,
reviews, failures, crashes and lost publishes are never promised. A worker that
crashed is fair again: that somebody restarts it is an assumption about the
deployment (no file here does it for the worker). `ApiFairSpec`
asks strong fairness of the next step of each request that was accepted (a loop that
becomes free takes ready callbacks in turn; none has to come) and weak fairness of a worker's end. `ConfigFairSpec`
asks weak fairness of each session; sessions are finite in number, so no waiter
can be overtaken for ever. `AgentSpec` asks that the model answers; `FailAgent`
covers that it raises. Settlement, RedisKeys and RecoveryValue state none, and
no liveness.

**Mutants.** Each property of a passing run has a mutant: a definition, marked
`Mutant:` where it stands, that replaces a modelled one by a plausible bug and
makes the property fail.

## 4. Findings

1. *two_workers*: a second worker with a message for the same new case runs the
   pipeline again, because the locking read does not refresh the loaded case.
2. *lost_publish*: commit and publish are not atomic, and a redelivered webhook
   is answered "duplicate" without publishing: a received case can stay so.
3. *two_processes*: nothing keeps two processes from opening two cases for one
   payment.

Seen while modelling, but about nothing that a document, comment or test
promises, and therefore without a run:

- The stale view of finding 1 also lets two reviews of one escalation both act,
  the second from a terminal state. RecoveryCases with two reviewers contains
  it, which is why `TerminalIsFinal` is stated of one.
- Requests at one API process can wait for each other for ever, in circles through
  its event loop that PostgreSQL does not see as deadlocks. (1) A webhook's handler
  blocks the loop on the row of a case that a review has locked, and the review
  needs that loop to get to the commit in `get_db`. (2) A delivery of an event that
  is refused (bad signature) or not recognized has returned with its raw row not
  committed; a second delivery of the event blocks the loop on the unique key of
  that row. (3) With several processes, both kinds of waits form longer circles.
  WebhookApi contains them all: the run webhook_api passes through them, and
  `AnsweredUnlessCircular` allows a request to stay without an answer in such a
  circle, or behind one, and nowhere else. `ServedApart` is a division of the
  accepted requests over the processes that excludes them, and the hypothesis of
  `RequestIsAnswered`. Nothing in the code sees to it.
- STILL_PENDING leaves a case in VERIFICATION_PENDING, which nothing ever picks
  up; nor is a capture looked at that is ingested just before a case becomes
  FAILED (Settlement).
- Outcomes of a case without a failure code or payment method are stored as
  "unknown" and looked up as "".

## 5. Proofs

All for every value of the constants, from the assumptions named in the modules.

**RecoveryCasesProofs.** `SpecIInv` proves the inductive invariant `IInv`, from
which `TypeCorrect`, `RowLockIsExclusive`, `NoHalfDoneCase`, `RetryLimitHolds`
and `RecoveredMeansCaptured` follow. The four properties are not inductive by
themselves: `ActorShape` says what a process knows at each point of its code
(that it has the row, what it is about to write, that the count its gate looked
at is still below the limit, that the capture its verification saw is still a
capture), `RowLockExclusive` makes that knowledge stable against the others, and
`HandlerShape` keeps handlers out of the pipeline. One step per action; lemmas
say that `Walk` follows the table and that ending a session keeps the types.

The second half of the module is about what needs serial jobs: each of its
theorems assumes `OneOfEach`, that there is at most one worker and one reviewer.
That is not yet a single process: the two run beside each other. The invariant
says that the state a session started from is still the committed one, and which
rows it has flushed at each point; as a worker starts from RECEIVED or FAILED and a reviewer from ESCALATED,
they are never in the middle of the same case, although no lock is held between
the first read and the first transition.
`ImplementsLifecycle` concludes that RecoveryCases implements CaseLifecycle: a
commit is a `DoJob`, a handler's commit an `Open` or nothing, every other step a
stutter. `AuditTrailIsAPath`, `OnePipelineRun` and `TerminalStatesAreFinal`
follow from the same invariant. The run two_workers shows the assumption to be
needed.

**PolicyProofs.** The first-match rules approve exactly what `Permitted` says
(`OnlyPermittedIsApproved`), whatever the facts and the configuration; worse
facts never turn a refusal into an approval (`EngineIsMonotone`,
`WorldNeverLooser`); a rule that skips the agent would have stopped every
proposal (`SkippingIsSound`); a proposed STOP stands (`StoppingIsNeverBlocked`).

**WebhookApiProofs.** `SpecApiInv` proves `ApiInv`, for any deliveries, reviews,
workers and distribution over processes. `DeliveryShape` ties the program
counter of a delivery to the event loop and the key it holds; uniqueness of the
ingestion then follows from the key, and `OneCasePerProcess` from the loop that
is held from the search to the commit. `OneProcessOneCase` concludes that with
one process every payment has one case — which two_processes shows to need the
hypothesis. `ImplementsIntake` shows step by step that WebhookApi implements
EventIntake: the commit in `Store` is a `TakeIn`, because the key kept every other
delivery of the event from storing it and the loop every other handler of the
process from opening a case; the step in which `get_db` is left is the answer, and
`DeliveryShape` makes it true at that moment. `ServedApartNeverCircular` is the part
of `RequestIsAnswered` that is safety: under `ServedApart` no circle of waits can
form. In a circle nobody could have a case's row, since a review that has one waits
at most for a loop, and the loops of its process are never blocked by a webhook;
what is left is a delivery that waits for a key, whose holder waits for the loop of
its own process, whose owner waits for a key in turn: two events with several
deliveries, or two deliveries of one event at one process. `WaitSound` is the
invariant that ties loops, rows and program counters for this argument.

**PolicyConfigsProofs.** `ConfigInv`, for any merchants, updates, seeds and
evaluations. That versions are a history is about the committed rows and so says
nothing of a session about to insert one; `InsertersAreAlone` adds that from its
INSERT to its commit a session is the only one of its scope and that whatever
row is in force is the one it replaces, which the partial unique index and the
row locks give it together. `EvaluationsRemember` says what an evaluation has
seen between its two selects and its record. `ImplementsHistory` shows that
PolicyConfigs implements VersionHistory: a commit replaces the active row of its
scope by one with the next number, which is `InsertersAreAlone` again, and changes
what is in force in no other scope.

**SettlementProofs.** `SettleInv`, for any payments, handlers, events and
crashes. `CommitIsCurrent` is the point: from verification to commit the verdict
is what the events say *now*, because the row lock keeps the foreign key of a
new event waiting. `FlagsWillBeSeen` follows a flagged capture of a FAILED case
from its handler through the queue to the session that looks at it, so that
`ReconciliationIsNotLost` is what remains when all of them are at rest;
`StampsAreUnique` makes "the newest event" one event. That a newest event exists
is proved by well-founded induction on the bounded timestamps.
`RecoveriesCountOnce` counts: the outcome of the n-th settled verdict is row n,
which a lemma on the cardinality of a growing set of positions carries over an
`Append`, and RECOVERED is a state no job starts from, so that its row is the
last. `ImplementsVerdictBook` maps each step to VerdictBook; its only difficult
step is the commit, where `CommitIsCurrent` gives that the verdict is the answer
of this moment, `VerdictIsFounded` that the session started from the state the
case still has and that an action stands behind the verdict, and
`ReconcilersVerify` that a reconciliation never ends in STOPPED.

**AgentLoopProofs.** `AgentInv`, for any limits and any responses. The
properties speak of positions in the transcript; the invariant adds where the
conversation is. `BlocksApart` says that one response and its answers end before
the next begins, `PendingIsTheRest` that what is pending is the rest of the last
response, `TraceIsAnswered` that the trace is the calls that were answered, in
order and without a record, plus the record at the end. From these follow
`CallsAreAnswered`, `DecisionIsOnRecord` and `FirstRecordIsTheDecision`. The
lemmas say what appending a message does to a conversation, to the set of its
responses and to the count of its answers; no sequence is filtered, so that no
induction is needed.

**RedisProofs.** `GuardInv` and `RateInv`. `RefreshedIsAlive` adds to
`CountedForItsWindow` that the key itself lives to the end of the member's
window, whatever `EXPIRE` others send or fail to send; `PrunedIsRecent` says
what a gate has left in the set between its two commands. `RateInv` bounds each
counter by the number of requests counted in its window: it may be less, after
the key of a window has expired, and never more.

**RecoveryValueProofs.** `ValueInv` types what a reader has collected, with
successes never above totals although they come from different moments, and
relates the counters of a case to the policy it runs with, so that
`CasesAreBounded` can use the rules of PolicyEngine at each action. It is about
configurations whose limits are not negative.

Each abstract specification is refined by a mapping that the run checks on its
instance and the theorem proves for all: `JobsAreSerial`, `IntakeIsAtomic`,
`VersionsAdvance`, `VerdictsAreAtomic`.

**Only model-checked:** the liveness properties `PublishedIsProcessed`,
`QueueDrains`, `RowIsFreed`, `RequestIsAnswered`, `AnsweredUnlessCircular`,
`PutIsAnswered` and `ProposeEnds`, which are out of the prover's reach. Every
invariant, action property and refinement that a passing run checks is a theorem.

## 6. Not modelled

- The lost broker connection of a worker whose session goes on
  (`apps/worker/consumer.py:48`): with one worker it ends like a crash between
  commit and acknowledgement, which the runs have, and with two it is the second
  session of two_workers.
- A message whose body does not parse (`apps/worker/consumer.py:16`, outside the
  `try`): it would end the worker and come back. `publish_case_event` is the only
  publisher and writes JSON, so `QueueDrains` is about its messages.
- Machine learning: training on floats, offline; its estimator answers fractions
  like those RecoveryValue gets from the tables.
- Of the evaluation: the naive strategy, the sampling of synthetic cases and the
  metrics, which are sequential arithmetic.
- The risk score, a pure function of counts; PolicyGate takes scores from a set.
- The recovery configuration: the same code as the policy configuration over
  another table, without an endpoint that writes it.
- Accounts: users with two roles behind HTTP Basic, one row per request and a
  unique name in the schema.
- Read-only endpoints, the simulator endpoint (a preview that runs the
  benchmark twice, with the policy in force and with a draft of it, and stores nothing), prompts and costs of the agent, masking, logging, the front end,
  the seed and the migrations.

`PROJECT.json` gives the reason for each.

## 7. Plan

The plan's modules are written and its theorems proved, except what *Only
model-checked* and *Not modelled* name. What would come next, in this order:

1. Accounts: promotion and self-registration racing for one name.
2. Settlement with a Razorpay provider beside the simulated one: an answer that
   is not derived from stored events, and ERROR.
3. Abstract specifications of AgentLoop (a decision and its trace in one step) and
   of RedisKeys (a window of attempts) with their refinements.
