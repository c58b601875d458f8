----------------------------- MODULE Settlement -----------------------------
(***************************************************************************)
(* From the events of an order to the verdict on its case: the payments    *)
(* tried for one order, the webhook handlers that store what the provider  *)
(* reports of them, SimulationProvider, which answers a verification from  *)
(* the stored events, and the rows a verification leaves behind.           *)
(*                                                                         *)
(* The jobs of workers and reviewers on the case run one at a time here,   *)
(* which RecoveryCases!JobsAreSerial shows of one worker and one reviewer. *)
(* The handlers run beside them.  SimulationProvider itself cannot fail    *)
(* short of the database, so a verification never ends in ERROR here.      *)
(***************************************************************************)
EXTENDS Transitions, FiniteSets

CONSTANTS
  Payments,     \* the attempts to pay one order
  Handlers,     \* concurrent runs of the webhook endpoint
  None,
  MaxEvents,    \* bound: webhooks ingested
  MaxVerdicts,  \* bound: no review of a case verified more often
  MaxCrashes    \* bound: crashes of the worker and of webhook handlers

ASSUME SettleAssumption == {MaxEvents, MaxVerdicts, MaxCrashes} \subseteq Nat

VARIABLES
  payment,     \* the status of each payment at the provider
  notices,     \* webhooks that the provider still has to deliver
  clock,       \* webhooks ingested so far: the time an event is stamped with
  handler,     \* what each webhook handler does next, and its event
  events,      \* payment_events, as committed
  case,        \* the cases row
  queue,       \* kinds of the messages about the case
  setAside,    \* a message was dead-lettered or could not be published
  session,     \* the worker's or reviewer's transaction
  verdicts,    \* payment_verifications.outcome, oldest first
  acted,       \* an ACTION_EXECUTED row is committed
  outcomes,    \* merchant_recovery_outcomes.recovered, oldest first
  crashes

worldVars == <<payment, notices>>
caseVars  == <<case, verdicts, acted, outcomes>>
settleVars ==
  <<worldVars, clock, handler, events, caseVars, queue, setAside, session, crashes>>

EventTypes == { "payment.failed", "payment.authorized", "payment.captured", "order.paid" }
Amounts    == { "full", "part" }

Notices == [payment : Payments \cup {None}, type : EventTypes, amount : Amounts]

\* A payment_events row, with the flag its message was published with.
EventRows == [notice : Notices, timestamp : 1..MaxEvents, reconciling : BOOLEAN]

NoCaseRow == [state |-> NoCase, payment |-> None, amount |-> "full"]
Kinds     == { "process", "reconcile", "APPROVE", "REJECT" }
Verdicts  == { "RECOVERED", "FAILED", "ESCALATED", "STILL_PENDING" }
NoSession == [pc |-> "idle", kind |-> None, verdict |-> None, acted |-> FALSE]
AtRest    == [pc |-> "idle", event |-> None]

SettleInit ==
  /\ payment = [p \in Payments |-> "created"]
  /\ notices = {}
  /\ clock = 0
  /\ handler = [h \in Handlers |-> AtRest]
  /\ events = {}
  /\ case = NoCaseRow
  /\ queue = <<>>
  /\ setAside = FALSE
  /\ session = NoSession
  /\ verdicts = <<>>
  /\ acted = FALSE
  /\ outcomes = <<>>
  /\ crashes = 0

-----------------------------------------------------------------------------
(* The provider: a payment moves on, and an order is paid by one of them.  *)

Moves ==
  { <<"created", "failed">>, <<"created", "authorized">>, <<"authorized", "failed">>,
    <<"created", "captured">>, <<"authorized", "captured">>, <<"failed", "captured">> }

ReportOf(status) ==
  CASE status = "failed"     -> "payment.failed"
    [] status = "authorized" -> "payment.authorized"
    [] status = "captured"   -> "payment.captured"

PaymentMovesOn(p, status, amount) ==
  /\ <<payment[p], status>> \in Moves
  /\ status = "captured" => \A q \in Payments : payment[q] # "captured"
  /\ amount = "part" => status = "captured"
  /\ payment' = [payment EXCEPT ![p] = status]
  /\ notices' = notices
       \cup { [payment |-> p, type |-> ReportOf(status), amount |-> amount] }
       \cup { n \in {[payment |-> None, type |-> "order.paid", amount |-> "full"]} :
                status = "captured" /\ amount = "full" }
  /\ UNCHANGED <<clock, handler, events, caseVars, queue, setAside, session, crashes>>

-----------------------------------------------------------------------------
(* The webhook endpoint.                                                   *)

ReconcilingTypes == { "payment.captured", "order.paid" }

\* A transaction that made a transition holds the case row to its end.
RowIsHeld == session.pc \in { "decide", "verify", "commit" }

\* Webhooks arrive in any order.  _find_matching_case and the reconciliation
\* flag read the committed case; the event gets its timestamp.  Two handlers
\* that both find no case are left to module WebhookApi.
Ingest(h, n) ==
  /\ handler[h] = AtRest
  /\ n \in notices
  /\ clock < MaxEvents
  /\ case = NoCaseRow => \A g \in Handlers : handler[g].pc # "store"
  /\ clock' = clock + 1
  /\ notices' = notices \ {n}
  /\ handler' = [handler EXCEPT ![h] =
       [pc |-> "store",
        event |-> [notice |-> n, timestamp |-> clock',
                   reconciling |-> case.state = "FAILED" /\ n.type \in ReconcilingTypes]]]
  /\ UNCHANGED <<payment, events, caseVars, queue, setAside, session, crashes>>

\* Mutant: a payment_events table without its foreign key.
StoreAtOnce(h) ==
  LET e == handler[h].event IN
  /\ handler[h].pc = "store"
  /\ events' = events \cup {e}
  /\ case' = IF case = NoCaseRow
               THEN [state |-> "RECEIVED", payment |-> e.notice.payment, amount |-> e.notice.amount]
               ELSE case
  /\ handler' = [handler EXCEPT ![h].pc = "publish"]
  /\ UNCHANGED <<worldVars, clock, verdicts, acted, outcomes, queue, setAside, session, crashes>>

\* The INSERT's foreign key waits for the case row; then db.commit().  Whatever
\* the first event of an order is, it opens the case and lends it its payment.
Store(h) ==
  LET e == handler[h].event IN
  /\ handler[h].pc = "store"
  /\ ~ RowIsHeld
  /\ events' = events \cup {e}
  /\ case' = IF case = NoCaseRow
               THEN [state |-> "RECEIVED", payment |-> e.notice.payment, amount |-> e.notice.amount]
               ELSE case
  /\ handler' = [handler EXCEPT ![h].pc = "publish"]
  /\ UNCHANGED <<worldVars, clock, verdicts, acted, outcomes, queue, setAside, session, crashes>>

Publish(h) ==
  /\ handler[h].pc = "publish"
  /\ queue' = Append(queue, IF handler[h].event.reconciling THEN "reconcile" ELSE "process")
  /\ handler' = [handler EXCEPT ![h] = AtRest]
  /\ UNCHANGED <<worldVars, clock, events, caseVars, setAside, session, crashes>>

\* The API process dies, or the broker is away, after the commit.
LosePublish(h) ==
  /\ handler[h].pc = "publish"
  /\ crashes < MaxCrashes
  /\ crashes' = crashes + 1
  /\ setAside' = TRUE
  /\ handler' = [handler EXCEPT ![h] = AtRest]
  /\ UNCHANGED <<worldVars, clock, events, caseVars, queue, session>>

-----------------------------------------------------------------------------
(* SimulationProvider.                                                     *)

StatusOf(type) ==
  CASE type = "payment.captured"   -> "captured"
    [] type = "payment.authorized" -> "authorized"
    [] type = "payment.failed"     -> "failed"
    [] type = "order.paid"         -> "captured"

EventsOf(p) == { e \in events : e.notice.payment = p }

\* ORDER BY timestamp DESC: the event ingested last, not the one that happened last.
LatestEventFor(p) ==
  LET rows == EventsOf(p) IN CHOOSE e \in rows : \A f \in rows : f.timestamp <= e.timestamp

\* verify_payment and _classify.
Verdict ==
  LET latest == LatestEventFor(case.payment)
      status == IF EventsOf(case.payment) = {} THEN "created" ELSE StatusOf(latest.notice.type)
  IN CASE status = "captured" /\ latest.notice.amount = case.amount -> "RECOVERED"
       [] status = "captured" /\ latest.notice.amount # case.amount -> "ESCALATED"
       [] status = "failed" -> "FAILED"
       [] status \in { "created", "authorized" } -> "STILL_PENDING"

-----------------------------------------------------------------------------
(* Jobs on the case.                                                       *)

EntryState(kind) ==
  CASE kind = "process" -> "RECEIVED" [] kind = "reconcile" -> "FAILED" [] OTHER -> "ESCALATED"

\* process_case_event: a message that finds another state is only acknowledged.
Receive ==
  LET kind == Head(queue) IN
  /\ session = NoSession
  /\ queue # <<>>
  /\ queue' = Tail(queue)
  /\ session' = [NoSession EXCEPT !.kind = kind,
       !.pc = IF case.state # EntryState(kind) THEN "ack"
              ELSE IF kind = "process" THEN "decide" ELSE "verify"]
  /\ UNCHANGED <<worldVars, clock, handler, events, caseVars, setAside, crashes>>

\* review_escalated_case.
Review(kind) ==
  /\ session = NoSession
  /\ case.state = EntryState(kind)
  /\ Len(verdicts) < MaxVerdicts
  /\ session' = IF kind = "REJECT"
       THEN [NoSession EXCEPT !.kind = kind, !.pc = "commit", !.verdict = "STOPPED"]
       ELSE [NoSession EXCEPT !.kind = kind, !.pc = "decide"]
  /\ UNCHANGED <<worldVars, clock, handler, events, caseVars, queue, setAside, crashes>>

\* The policy stops the case, or the action is executed.
Decide ==
  /\ session.pc = "decide"
  /\ \/ session' = [session EXCEPT !.pc = "commit", !.verdict = "STOPPED"]
     \/ session' = [session EXCEPT !.pc = "verify", !.acted = TRUE]
  /\ UNCHANGED <<worldVars, clock, handler, events, caseVars, queue, setAside, crashes>>

\* Mutant: a case without a payment id is looked up like any other.
VerifyAnyCase ==
  /\ session.pc = "verify"
  /\ session' = [session EXCEPT !.pc = "commit", !.verdict = Verdict]
  /\ UNCHANGED <<worldVars, clock, handler, events, caseVars, queue, setAside, crashes>>

\* run_verification raises a ValueError for a case without a payment id.
Verify ==
  /\ session.pc = "verify"
  /\ case.payment # None
  /\ session' = [session EXCEPT !.pc = "commit", !.verdict = Verdict]
  /\ UNCHANGED <<worldVars, clock, handler, events, caseVars, queue, setAside, crashes>>

\* The rows the transaction has added, its merchant outcome among them:
\* record_merchant_outcome finds the action of this job or of an earlier one.
WriteRows ==
  /\ verdicts' = IF session.verdict = "STOPPED" THEN verdicts ELSE Append(verdicts, session.verdict)
  /\ acted' = (acted \/ session.acted)
  /\ outcomes' = IF acted' /\ session.verdict \in { "RECOVERED", "FAILED" }
                   THEN Append(outcomes, session.verdict = "RECOVERED") ELSE outcomes

Commit ==
  /\ session.pc = "commit"
  /\ WriteRows
  /\ case' = [case EXCEPT !.state =
       IF session.verdict = "STILL_PENDING" THEN "VERIFICATION_PENDING" ELSE session.verdict]
  /\ session' = IF session.kind \in { "process", "reconcile" }
       THEN [NoSession EXCEPT !.kind = session.kind, !.pc = "ack"] ELSE NoSession
  /\ UNCHANGED <<worldVars, clock, handler, events, queue, setAside, crashes>>

Ack ==
  /\ session.pc = "ack"
  /\ session' = NoSession
  /\ UNCHANGED <<worldVars, clock, handler, events, caseVars, queue, setAside, crashes>>

\* Mutant: the rows already added are committed when a later step fails.
FailKeepingRows ==
  /\ session.pc = "commit"
  /\ WriteRows
  /\ session' = NoSession
  /\ setAside' = (setAside \/ session.kind \in { "process", "reconcile" })
  /\ UNCHANGED <<worldVars, clock, handler, events, case, queue, crashes>>

\* Any exception: rollback, and the worker's message is dead-lettered.
Fail ==
  /\ RowIsHeld
  /\ session' = NoSession
  /\ setAside' = (setAside \/ session.kind \in { "process", "reconcile" })
  /\ UNCHANGED <<worldVars, clock, handler, events, caseVars, queue, crashes>>

\* Mutant: auto_ack=True, the message dies with the worker.
CrashLosing ==
  /\ session.kind \in { "process", "reconcile" }
  /\ crashes < MaxCrashes
  /\ crashes' = crashes + 1
  /\ session' = NoSession
  /\ UNCHANGED <<worldVars, clock, handler, events, caseVars, queue, setAside>>

\* The worker dies, its transaction is rolled back, the message comes back
\* to the head of the queue: also when only the acknowledgement was missing.
Crash ==
  /\ session.kind \in { "process", "reconcile" }
  /\ crashes < MaxCrashes
  /\ crashes' = crashes + 1
  /\ session' = NoSession
  /\ queue' = <<session.kind>> \o queue
  /\ UNCHANGED <<worldVars, clock, handler, events, caseVars, setAside>>

JobStep == Decide \/ Verify \/ Commit \/ Ack

SettleNext ==
  \/ \E p \in Payments, status \in { "failed", "authorized", "captured" }, amount \in Amounts :
       PaymentMovesOn(p, status, amount)
  \/ \E h \in Handlers, n \in notices : Ingest(h, n)
  \/ \E h \in Handlers : Store(h) \/ Publish(h) \/ LosePublish(h)
  \/ Receive
  \/ \E kind \in { "APPROVE", "REJECT" } : Review(kind)
  \/ JobStep
  \/ Fail
  \/ Crash

SettleSpec == SettleInit /\ [][SettleNext]_settleVars

-----------------------------------------------------------------------------
SettleTypeOK ==
  /\ payment \in [Payments -> { "created", "authorized", "failed", "captured" }]
  /\ notices \subseteq Notices
  /\ clock \in 0..MaxEvents
  /\ handler \in
       [Handlers -> [pc : { "idle", "store", "publish" }, event : EventRows \cup {None}]]
  /\ events \subseteq EventRows
  /\ case \in [state : CaseStates \cup {NoCase}, payment : Payments \cup {None}, amount : Amounts]
  /\ queue \in Seq({ "process", "reconcile" })
  /\ setAside \in BOOLEAN
  /\ session \in
       [pc : { "idle", "decide", "verify", "commit", "ack" }, kind : Kinds \cup {None},
        verdict : Verdicts \cup { "STOPPED", None }, acted : BOOLEAN]
  /\ verdicts \in Seq(Verdicts)
  /\ acted \in BOOLEAN
  /\ outcomes \in Seq(BOOLEAN)
  /\ crashes \in 0..MaxCrashes

\* A verdict still fits the stored events at the moment it is committed,
\* although the verification read them some steps before and the handlers never
\* stop: an event of the case cannot slip in between.
VerdictFitsTheEvents ==
  [][verdicts' # verdicts => verdicts'[Len(verdicts')] = Verdict]_settleVars

Quiescent ==
  /\ \A h \in Handlers : handler[h] = AtRest
  /\ session = NoSession
  /\ queue = <<>>

\* A capture that arrives for a FAILED case is never forgotten: once everything
\* published has been worked on, and unless a message was set aside, the case
\* has left FAILED or a newer event of the payment says that it failed again.
\* It does not cover a capture that arrives while the job that ends in FAILED
\* is still running: that one is published without the flag.
ReconciliationIsNotLost ==
  Quiescent /\ ~ setAside /\ case.state = "FAILED" =>
    LET e == LatestEventFor(case.payment) IN
    StatusOf(e.notice.type) = "captured" => ~ e.reconciling

Settling == { "RECOVERED", "FAILED" }
SettledUpTo(vs, i) == { j \in 1..i : vs[j] \in Settling }

\* One outcome for each settled verdict, in their order.
OutcomesAreTheVerdicts ==
  /\ Len(outcomes) = Cardinality(SettledUpTo(verdicts, Len(verdicts)))
  /\ \A i \in DOMAIN verdicts :
       verdicts[i] \in Settling =>
         outcomes[Cardinality(SettledUpTo(verdicts, i))] = (verdicts[i] = "RECOVERED")

\* The statistics the next decisions are based on have one row for each settled
\* verdict, in order, and a case enters them as recovered once at most, as its
\* last row and exactly if it is RECOVERED, whatever crashes and is redelivered.
RecoveredCountsOnce ==
  /\ OutcomesAreTheVerdicts
  /\ \A i \in DOMAIN outcomes :
       outcomes[i] <=> i = Len(outcomes) /\ case.state = "RECOVERED"

\* A case opened by order.paid has no payment to ask about: it is stopped, or
\* each of its messages is dead-lettered, but it is never given a verdict and
\* never left in the middle.
UnverifiableIsNeverSettled ==
  case.payment = None => case.state \in { NoCase, "RECEIVED", "STOPPED" }

\* The provider's answer about the case as of now, if there is one to ask for.
AnswersNow == IF case.payment = None THEN {} ELSE { Verdict }

\* With its handlers, sessions, crashes and redeliveries the whole implements a
\* book in which a verdict is entered in one step, as the provider's answer of
\* that moment, with the state and the outcome that belong to it (VerdictBook).
Book == INSTANCE VerdictBook WITH answers <- AnswersNow, state <- case.state

VerdictsAreAtomic == Book!BookSpec
=============================================================================
