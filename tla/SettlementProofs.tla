-------------------------- MODULE SettlementProofs --------------------------
(***************************************************************************)
(* What Settlement promises for any number of payments and handlers, any   *)
(* order of the webhooks and any crashes.  SettleInv relates what a        *)
(* session is about to commit to the events it read, and each flagged      *)
(* capture of a FAILED case to the message that will look at it.           *)
(***************************************************************************)
EXTENDS Settlement, SequenceTheorems, FiniteSetTheorems, WellFoundedInduction, TLAPS

Sessions ==
  [ pc : { "idle", "decide", "verify", "commit", "ack" }, kind : Kinds \cup {None},
    verdict : Verdicts \cup { "STOPPED", None }, acted : BOOLEAN ]

HandlerRows == [ pc : { "idle", "store", "publish" }, event : EventRows \cup {None} ]

\* An event has the time of its ingestion to itself.
StampsAreUnique ==
  /\ \A e \in events : e.timestamp <= clock
  /\ \A e, f \in events : e.timestamp = f.timestamp => e = f
  /\ \A h \in Handlers :
       handler[h].pc # "idle" =>
         handler[h].event \in EventRows /\ handler[h].event.timestamp <= clock
  /\ \A h \in Handlers : handler[h].pc = "store" =>
       /\ \A e \in events : e.timestamp # handler[h].event.timestamp
       /\ \A g \in Handlers \ {h} :
            handler[g].pc = "store" =>
              handler[g].event.timestamp # handler[h].event.timestamp

\* What is about to be committed is what the events say now.
CommitIsCurrent ==
  session.pc = "commit" =>
    session.verdict = "STOPPED" \/ (session.verdict = Verdict /\ case.payment # None)

FailedHasEvents == case.state = "FAILED" => EventsOf(case.payment) # {}

\* The newest event of the case's payment.
IsLatest(e) ==
  e \in EventsOf(case.payment) /\ \A f \in EventsOf(case.payment) : f.timestamp <= e.timestamp

\* Who will still look at event e: the handler about to publish it, a message
\* in the queue, or the session that works on such a message.
WillBeSeen(e) ==
  \/ setAside
  \/ \E h \in Handlers : handler[h].pc = "publish" /\ handler[h].event = e
  \/ \E i \in 1..Len(queue) : queue[i] = "reconcile"
  \/ session.pc \in { "verify", "commit" } /\ session.kind = "reconcile"

FlagsWillBeSeen ==
  case.state = "FAILED" =>
    \A e \in events :
      IsLatest(e) /\ StatusOf(e.notice.type) = "captured" /\ e.reconciling => WillBeSeen(e)

\* A session starts from the state its kind is for, and a verdict on a case has
\* an executed action behind it: of its own job or of an earlier one.
VerdictIsFounded ==
  /\ RowIsHeld => session.kind \in Kinds /\ case.state = EntryState(session.kind)
  /\ session.pc = "verify" \/ (session.pc = "commit" /\ session.verdict # "STOPPED") =>
       session.acted \/ session.kind = "reconcile"
  /\ case.state = "FAILED" => acted

SettleInv ==
  /\ SettleTypeOK
  /\ StampsAreUnique
  /\ CommitIsCurrent
  /\ UnverifiableIsNeverSettled
  /\ FailedHasEvents
  /\ FlagsWillBeSeen
  /\ VerdictIsFounded
  /\ RecoveredCountsOnce

-----------------------------------------------------------------------------
(* The newest event, and the verdict it leads to.                          *)

\* Timestamps are bounded, so that a payment with events has a newest one.
LEMMA LatestExists ==
  ASSUME SettleTypeOK, NEW p, EventsOf(p) # {}
  PROVE  /\ LatestEventFor(p) \in EventsOf(p)
         /\ \A f \in EventsOf(p) : f.timestamp <= LatestEventFor(p).timestamp
<1> DEFINE R == OpToRel(<, Nat)
           T == { MaxEvents - e.timestamp : e \in EventsOf(p) }
<1>1. MaxEvents \in Nat /\ \A e \in EventsOf(p) : e.timestamp \in 1..MaxEvents
  BY SettleAssumption DEF SettleTypeOK, EventsOf, EventRows
<1>2. T \subseteq Nat /\ T # {}
  BY <1>1
<1>3. \A x, y \in Nat : <<x, y>> \in R <=> x < y
  BY DEF OpToRel
<1>4. PICK x \in T : \A y \in T : ~ (<<y, x>> \in R)
  <2> HIDE DEF T, R
  <2>1. IsWellFoundedOn(R, Nat)
    BY NatLessThanWellFounded DEF R
  <2> QED BY <1>2, <2>1, WFMin
<1>5. PICK e \in EventsOf(p) : x = MaxEvents - e.timestamp
  BY <1>4
<1>6. \A f \in EventsOf(p) : f.timestamp <= e.timestamp
  <2> TAKE f \in EventsOf(p)
  <2>1. MaxEvents - f.timestamp \in T
    OBVIOUS
  <2>2. ~ (MaxEvents - f.timestamp < x)
    <3> HIDE DEF T, R
    <3> QED BY <2>1, <1>2, <1>3, <1>4
  <2> QED BY <2>2, <1>1, <1>5
<1> QED BY <1>6 DEF LatestEventFor

LEMMA LatestIsUnique ==
  ASSUME SettleTypeOK, StampsAreUnique, NEW e, IsLatest(e)
  PROVE  LatestEventFor(case.payment) = e
<1> DEFINE l == LatestEventFor(case.payment)
<1>1. /\ l \in EventsOf(case.payment) /\ e \in EventsOf(case.payment)
      /\ e.timestamp <= l.timestamp /\ l.timestamp <= e.timestamp
  BY LatestExists DEF IsLatest
<1>2. l \in events /\ e \in events /\ e.timestamp \in Int /\ l.timestamp \in Int
  BY <1>1 DEF EventsOf, SettleTypeOK, EventRows
<1>3. l.timestamp = e.timestamp
  BY <1>1, <1>2
<1> QED BY <1>2, <1>3 DEF StampsAreUnique

LEMMA VerdictType ==
  ASSUME SettleTypeOK
  PROVE  Verdict \in Verdicts
<1> DEFINE e == LatestEventFor(case.payment)
<1>1. EventsOf(case.payment) # {} => e.notice.type \in EventTypes
  BY LatestExists DEF EventsOf, SettleTypeOK, EventRows, Notices
<1>2. EventsOf(case.payment) # {} => StatusOf(e.notice.type) \in { "captured", "authorized", "failed" }
  BY <1>1 DEF StatusOf, EventTypes
<1> QED BY <1>2 DEF Verdict, Verdicts

\* A verdict of FAILED has read an event, and not one that says captured.
LEMMA FailedVerdict ==
  ASSUME SettleTypeOK, Verdict = "FAILED"
  PROVE  /\ EventsOf(case.payment) # {}
         /\ StatusOf(LatestEventFor(case.payment).notice.type) # "captured"
<1> DEFINE e == LatestEventFor(case.payment)
<1>1. EventsOf(case.payment) # {} => StatusOf(e.notice.type) \in { "captured", "authorized", "failed" }
  <2>1. EventsOf(case.payment) # {} => e.notice.type \in EventTypes
    BY LatestExists DEF EventsOf, SettleTypeOK, EventRows, Notices
  <2> QED BY <2>1 DEF StatusOf, EventTypes
<1> QED BY <1>1 DEF Verdict

-----------------------------------------------------------------------------
(* Types.                                                                  *)

LEMMA SettleTypeInit == SettleInit => SettleTypeOK
<1> SUFFICES ASSUME SettleInit PROVE SettleTypeOK
  OBVIOUS
<1>1. /\ payment \in [Payments -> { "created", "authorized", "failed", "captured" }]
      /\ handler \in [Handlers -> HandlerRows]
  BY DEF SettleInit, HandlerRows, AtRest
<1>2. case \in [state : CaseStates \cup {NoCase}, payment : Payments \cup {None}, amount : Amounts]
  BY DEF SettleInit, NoCaseRow, Amounts
<1>3. session \in Sessions
  BY DEF SettleInit, NoSession, Sessions
<1>4. clock \in 0..MaxEvents /\ crashes \in 0..MaxCrashes
  BY SettleAssumption DEF SettleInit
<1>5. /\ queue \in Seq({ "process", "reconcile" })
      /\ verdicts \in Seq(Verdicts)
      /\ outcomes \in Seq(BOOLEAN)
  BY DEF SettleInit
<1> QED BY <1>1, <1>2, <1>3, <1>4, <1>5 DEF SettleInit, SettleTypeOK, HandlerRows, Sessions

LEMMA PaymentMovesOnType ==
  ASSUME SettleTypeOK, NEW p \in Payments, NEW status \in { "failed", "authorized", "captured" },
         NEW amount \in Amounts, PaymentMovesOn(p, status, amount)
  PROVE  SettleTypeOK'
<1>1. payment' \in [Payments -> { "created", "authorized", "failed", "captured" }]
  BY DEF SettleTypeOK, PaymentMovesOn
<1>2. /\ [payment |-> p, type |-> ReportOf(status), amount |-> amount] \in Notices
      /\ [payment |-> None, type |-> "order.paid", amount |-> "full"] \in Notices
  BY DEF Notices, ReportOf, EventTypes, Amounts
<1>3. notices' \subseteq Notices
  BY <1>2 DEF SettleTypeOK, PaymentMovesOn
<1> QED BY <1>1, <1>3 DEF SettleTypeOK, PaymentMovesOn, caseVars

\* One handler changes and the others do not.
LEMMA OneHandler ==
  ASSUME SettleTypeOK, NEW h \in Handlers, NEW x \in HandlerRows, handler' = [handler EXCEPT ![h] = x]
  PROVE  /\ handler' \in [Handlers -> HandlerRows]
         /\ handler'[h] = x
         /\ \A g \in Handlers : g # h => handler'[g] = handler[g]
BY DEF SettleTypeOK, HandlerRows

LEMMA IngestFacts ==
  ASSUME SettleTypeOK, NEW h \in Handlers, NEW n \in notices, Ingest(h, n)
  PROVE  /\ clock \in Nat /\ clock' = clock + 1 /\ clock' <= MaxEvents
         /\ handler[h].pc = "idle"
         /\ handler' \in [Handlers -> HandlerRows]
         /\ handler'[h].pc = "store"
         /\ handler'[h].event \in EventRows
         /\ handler'[h].event.timestamp = clock'
         /\ \A g \in Handlers : g # h => handler'[g] = handler[g]
<1> DEFINE flag == case.state = "FAILED" /\ n.type \in ReconcilingTypes
<1>1. /\ clock \in Nat /\ clock' = clock + 1 /\ clock' <= MaxEvents /\ n \in Notices
      /\ clock' \in 1..MaxEvents
      /\ handler[h].pc = "idle"
  BY SettleAssumption DEF SettleTypeOK, Ingest, AtRest
<1>2. flag \in BOOLEAN
  OBVIOUS
<1>3. handler' = [handler EXCEPT ![h] =
        [pc |-> "store", event |-> [notice |-> n, timestamp |-> clock', reconciling |-> flag]]]
  BY DEF Ingest
<1> HIDE DEF flag
<1> DEFINE e == [notice |-> n, timestamp |-> clock', reconciling |-> flag]
           x == [pc |-> "store", event |-> e]
<1>4. e \in EventRows /\ e.timestamp = clock'
  BY <1>1, <1>2 DEF EventRows
<1>5. x \in HandlerRows /\ x.pc = "store" /\ x.event = e
  BY <1>4 DEF HandlerRows
<1>6. /\ handler' \in [Handlers -> HandlerRows]
      /\ handler'[h] = x
      /\ \A g \in Handlers : g # h => handler'[g] = handler[g]
  BY <1>3, <1>5, OneHandler
<1> QED BY <1>1, <1>4, <1>5, <1>6

LEMMA StoreFacts ==
  ASSUME SettleTypeOK, StampsAreUnique, NEW h \in Handlers, Store(h)
  PROVE  /\ handler[h].pc = "store" /\ handler[h].event \in EventRows
         /\ handler' \in [Handlers -> HandlerRows]
         /\ handler'[h].pc = "publish"
         /\ handler'[h].event = handler[h].event
         /\ \A g \in Handlers : g # h => handler'[g] = handler[g]
<1> DEFINE x == [handler[h] EXCEPT !.pc = "publish"]
<1>1. /\ handler[h].pc = "store" /\ handler[h].event \in EventRows
      /\ handler[h] \in HandlerRows
  BY DEF Store, StampsAreUnique, SettleTypeOK, HandlerRows
<1>2. x \in HandlerRows /\ x.pc = "publish" /\ x.event = handler[h].event
  BY <1>1 DEF HandlerRows
<1>3. handler' = [handler EXCEPT ![h] = x]
  BY DEF Store
<1>4. /\ handler' \in [Handlers -> HandlerRows]
      /\ handler'[h] = x
      /\ \A g \in Handlers : g # h => handler'[g] = handler[g]
  BY <1>2, <1>3, OneHandler
<1> QED BY <1>1, <1>2, <1>4

LEMMA RestFacts ==
  ASSUME SettleTypeOK, NEW h \in Handlers, Publish(h) \/ LosePublish(h)
  PROVE  /\ handler[h].pc = "publish"
         /\ handler' \in [Handlers -> HandlerRows]
         /\ handler'[h].pc = "idle"
         /\ \A g \in Handlers : g # h => handler'[g] = handler[g]
<1>1. AtRest \in HandlerRows /\ AtRest.pc = "idle"
  BY DEF AtRest, HandlerRows
<1>2. handler[h].pc = "publish" /\ handler' = [handler EXCEPT ![h] = AtRest]
  BY DEF Publish, LosePublish
<1> QED BY <1>1, <1>2, OneHandler

LEMMA HandlerStepsType ==
  ASSUME SettleTypeOK, StampsAreUnique, NEW h \in Handlers,
         (\E n \in notices : Ingest(h, n)) \/ Store(h) \/ Publish(h) \/ LosePublish(h)
  PROVE  SettleTypeOK'
<1>1. ASSUME NEW n \in notices, Ingest(h, n)
      PROVE  SettleTypeOK'
  <2>1. clock' \in 0..MaxEvents
    BY <1>1, IngestFacts, SettleAssumption
  <2>2. handler' \in [Handlers -> HandlerRows]
    BY <1>1, IngestFacts
  <2>3. notices' \subseteq Notices
    BY <1>1 DEF SettleTypeOK, Ingest
  <2> QED BY <1>1, <2>1, <2>2, <2>3 DEF SettleTypeOK, Ingest, caseVars, HandlerRows
<1>2. CASE Store(h)
  <2> DEFINE e == handler[h].event
  <2>1. handler' \in [Handlers -> HandlerRows] /\ e \in EventRows
    BY <1>2, StoreFacts
  <2>2. [state |-> "RECEIVED", payment |-> e.notice.payment, amount |-> e.notice.amount]
          \in [state : CaseStates \cup {NoCase}, payment : Payments \cup {None}, amount : Amounts]
    BY <2>1 DEF EventRows, Notices, CaseStates
  <2>3. /\ case' \in [state : CaseStates \cup {NoCase}, payment : Payments \cup {None}, amount : Amounts]
        /\ events' \subseteq EventRows
    BY <1>2, <2>1, <2>2 DEF Store, SettleTypeOK
  <2> QED BY <1>2, <2>1, <2>3 DEF Store, SettleTypeOK, HandlerRows, worldVars
<1>3. CASE Publish(h)
  <2>1. handler' \in [Handlers -> HandlerRows]
    BY <1>3, RestFacts
  <2>2. queue' \in Seq({ "process", "reconcile" })
    BY <1>3 DEF Publish, SettleTypeOK
  <2> QED BY <1>3, <2>1, <2>2 DEF Publish, SettleTypeOK, HandlerRows, worldVars, caseVars
<1>4. CASE LosePublish(h)
  <2>1. handler' \in [Handlers -> HandlerRows]
    BY <1>4, RestFacts
  <2>2. crashes' \in 0..MaxCrashes
    BY <1>4, SettleAssumption DEF LosePublish, SettleTypeOK
  <2> QED BY <1>4, <2>1, <2>2 DEF LosePublish, SettleTypeOK, HandlerRows, worldVars, caseVars
<1> QED BY <1>1, <1>2, <1>3, <1>4

LEMMA NoSessionType == NoSession \in Sessions /\ NoSession.pc = "idle"
BY DEF NoSession, Sessions

LEMMA SessionStepsType ==
  ASSUME SettleTypeOK,
         Receive \/ Review("APPROVE") \/ Review("REJECT") \/ Decide \/ Verify \/ Ack
  PROVE  SettleTypeOK'
<1>1. /\ UNCHANGED <<worldVars, clock, handler, events, caseVars, setAside, crashes>>
      /\ session \in Sessions
  BY DEF Receive, Review, Decide, Verify, Ack, SettleTypeOK, Sessions
<1>2. CASE Receive
  <2>1. queue # <<>> /\ queue \in Seq({ "process", "reconcile" })
    BY <1>2 DEF Receive, SettleTypeOK
  <2>2. Head(queue) \in Kinds /\ queue' \in Seq({ "process", "reconcile" })
    BY <1>2, <2>1 DEF Receive, Kinds
  <2>3. session' \in Sessions
    BY <1>2, <2>2 DEF Receive, NoSession, Sessions
  <2> QED BY <1>1, <2>2, <2>3 DEF SettleTypeOK, Sessions, worldVars, caseVars
<1>3. CASE Review("APPROVE") \/ Review("REJECT") \/ Decide \/ Ack
  <2>1. session' \in Sessions
    <3>1. CASE Review("APPROVE")
      BY <3>1 DEF Review, NoSession, Sessions, Kinds
    <3>2. CASE Review("REJECT")
      BY <3>2 DEF Review, NoSession, Sessions, Kinds
    <3>3. CASE Decide
      BY <1>1, <3>3 DEF Decide, Sessions
    <3>4. CASE Ack
      BY <3>4, NoSessionType DEF Ack
    <3> QED BY <1>3, <3>1, <3>2, <3>3, <3>4
  <2> QED BY <1>1, <1>3, <2>1 DEF Review, Decide, Ack, SettleTypeOK, Sessions, worldVars, caseVars
<1>4. CASE Verify
  <2>1. session' \in Sessions
    BY <1>1, <1>4, VerdictType DEF Verify, Sessions
  <2> QED BY <1>1, <1>4, <2>1 DEF Verify, SettleTypeOK, Sessions, worldVars, caseVars
<1> QED BY <1>2, <1>3, <1>4

LEMMA CommitType ==
  ASSUME SettleTypeOK, CommitIsCurrent, Commit
  PROVE  SettleTypeOK'
<1>1. session.verdict \in Verdicts \cup {"STOPPED"}
  BY VerdictType DEF Commit, CommitIsCurrent
<1>2. session' \in Sessions
  BY NoSessionType DEF Commit, SettleTypeOK, Sessions, NoSession
<1>3. case' \in [state : CaseStates \cup {NoCase}, payment : Payments \cup {None}, amount : Amounts]
  BY <1>1 DEF Commit, SettleTypeOK, Verdicts, CaseStates
<1>4. verdicts' \in Seq(Verdicts)
  BY <1>1 DEF Commit, WriteRows, SettleTypeOK
<1>5. acted' \in BOOLEAN
  BY DEF Commit, WriteRows, SettleTypeOK
<1>6. outcomes' \in Seq(BOOLEAN)
  <2> DEFINE b == session.verdict = "RECOVERED"
  <2>1. b \in BOOLEAN
    OBVIOUS
  <2>2. outcomes' = Append(outcomes, b) \/ outcomes' = outcomes
    BY DEF Commit, WriteRows
  <2>3. outcomes \in Seq(BOOLEAN)
    BY DEF SettleTypeOK
  <2> HIDE DEF b
  <2> QED BY <2>1, <2>2, <2>3, AppendProperties
<1> QED BY <1>2, <1>3, <1>4, <1>5, <1>6 DEF Commit, SettleTypeOK, Sessions, worldVars

LEMMA FailureType ==
  ASSUME SettleTypeOK, Fail \/ Crash
  PROVE  SettleTypeOK'
<1>1. session' \in Sessions
  BY NoSessionType DEF Fail, Crash
<1>2. setAside' \in BOOLEAN
  BY DEF Fail, Crash, SettleTypeOK
<1>3. queue' \in Seq({ "process", "reconcile" })
  <2>1. queue \in Seq({ "process", "reconcile" })
    BY DEF SettleTypeOK
  <2>2. CASE Fail
    BY <2>1, <2>2 DEF Fail
  <2>3. CASE Crash
    <3>1. <<session.kind>> \in Seq({ "process", "reconcile" }) /\ queue' = <<session.kind>> \o queue
      BY <2>3 DEF Crash
    <3> QED BY <2>1, <3>1, ConcatProperties
  <2> QED BY <2>2, <2>3
<1>4. crashes' \in 0..MaxCrashes
  BY SettleAssumption DEF Fail, Crash, SettleTypeOK
<1> QED BY <1>1, <1>2, <1>3, <1>4 DEF Fail, Crash, SettleTypeOK, Sessions, worldVars, caseVars

LEMMA SettleTypeStep ==
  ASSUME SettleTypeOK, StampsAreUnique, CommitIsCurrent, [SettleNext]_settleVars
  PROVE  SettleTypeOK'
<1>1. CASE UNCHANGED settleVars
  BY <1>1 DEF settleVars, worldVars, caseVars, SettleTypeOK
<1> QED BY <1>1, PaymentMovesOnType, HandlerStepsType, SessionStepsType, CommitType, FailureType
      DEF SettleNext, JobStep

-----------------------------------------------------------------------------
(* Timestamps.                                                             *)

LEMMA StampsStep ==
  ASSUME SettleTypeOK, StampsAreUnique, [SettleNext]_settleVars
  PROVE  StampsAreUnique'
<1>1. /\ clock \in Nat
      /\ \A e \in events : e.timestamp \in Nat
      /\ \A h \in Handlers :
           handler[h].pc # "idle" => handler[h].event.timestamp \in Nat
  BY SettleAssumption DEF SettleTypeOK, StampsAreUnique, EventRows
<1>2. ASSUME NEW h \in Handlers, NEW n \in notices, Ingest(h, n)
      PROVE  StampsAreUnique'
  <2>1. UNCHANGED events
    BY <1>2 DEF Ingest
  <2> QED BY <1>1, <1>2, <2>1, IngestFacts DEF StampsAreUnique
<1>3. ASSUME NEW h \in Handlers, Store(h)
      PROVE  StampsAreUnique'
  <2>1. /\ events' = events \cup { handler[h].event }
        /\ UNCHANGED clock
    BY <1>3 DEF Store
  <2> QED BY <1>1, <1>3, <2>1, StoreFacts DEF StampsAreUnique
<1>4. ASSUME NEW h \in Handlers, Publish(h) \/ LosePublish(h)
      PROVE  StampsAreUnique'
  <2>1. UNCHANGED <<events, clock>>
    BY <1>4 DEF Publish, LosePublish
  <2> QED BY <1>4, <2>1, RestFacts DEF StampsAreUnique
<1>5. ASSUME UNCHANGED <<handler, events, clock>>
      PROVE  StampsAreUnique'
  BY <1>5 DEF StampsAreUnique
<1> QED BY <1>2, <1>3, <1>4, <1>5 DEF SettleNext, settleVars, PaymentMovesOn, Receive, Review,
      JobStep, Decide, Verify, Commit, Ack, Fail, Crash

-----------------------------------------------------------------------------
(* What is committed.                                                      *)

\* A session other than the committing one leaves the case and the events alone;
\* an event is only stored while no session holds the case.
LEMMA VerdictStays ==
  ASSUME UNCHANGED <<events, case>>
  PROVE  /\ Verdict' = Verdict
         /\ \A p : EventsOf(p)' = EventsOf(p)
         /\ \A e : IsLatest(e)' <=> IsLatest(e)
<1>1. \A p : EventsOf(p)' = EventsOf(p)
  BY DEF EventsOf
<1>2. LatestEventFor(case.payment)' = LatestEventFor(case.payment)
  BY DEF LatestEventFor, EventsOf
<1>3. Verdict' = Verdict
  BY <1>1, <1>2 DEF Verdict
<1> QED BY <1>1, <1>3 DEF IsLatest

\* The steps that change neither the events nor the case, nor start a commit.
QuietStep ==
  \/ \E p \in Payments, status \in { "failed", "authorized", "captured" }, amount \in Amounts :
       PaymentMovesOn(p, status, amount)
  \/ \E h \in Handlers, n \in notices : Ingest(h, n)
  \/ \E h \in Handlers : Publish(h) \/ LosePublish(h)
  \/ Receive \/ Review("APPROVE") \/ Review("REJECT") \/ Decide \/ Ack \/ Fail \/ Crash
  \/ UNCHANGED settleVars

LEMMA StepKinds ==
  ASSUME [SettleNext]_settleVars
  PROVE  QuietStep \/ Verify \/ Commit \/ \E h \in Handlers : Store(h)
BY DEF SettleNext, JobStep, QuietStep

LEMMA QuietStepFacts ==
  ASSUME SettleTypeOK, QuietStep
  PROVE  /\ UNCHANGED <<events, case, verdicts>>
         /\ session'.pc = "commit" =>
              UNCHANGED session \/ session'.verdict = "STOPPED"
<1>1. UNCHANGED <<events, case, verdicts>>
  BY DEF QuietStep, PaymentMovesOn, Ingest, Publish, LosePublish, Receive, Review, Decide, Ack,
    Fail, Crash, settleVars, caseVars
<1>2. UNCHANGED session \/ Receive \/ Review("APPROVE") \/ Review("REJECT") \/ Decide
        \/ session' = NoSession
  BY DEF QuietStep, PaymentMovesOn, Ingest, Publish, LosePublish, Ack, Fail, Crash, settleVars
<1>3. CASE Receive
  BY <1>1, <1>3 DEF Receive, NoSession
<1>4. CASE Review("APPROVE")
  BY <1>1, <1>4 DEF Review, NoSession
<1>5. CASE Review("REJECT")
  BY <1>1, <1>5 DEF Review, NoSession
<1>6. CASE Decide
  BY <1>1, <1>6 DEF Decide, SettleTypeOK
<1>7. CASE UNCHANGED session \/ session' = NoSession
  BY <1>1, <1>7 DEF NoSession
<1> QED BY <1>2, <1>3, <1>4, <1>5, <1>6, <1>7

LEMMA CommitStaysCurrent ==
  ASSUME SettleTypeOK, CommitIsCurrent, [SettleNext]_settleVars
  PROVE  CommitIsCurrent'
<1>1. CASE QuietStep
  BY <1>1, QuietStepFacts, VerdictStays DEF CommitIsCurrent
<1>2. CASE Verify
  <2>1. UNCHANGED <<events, case>> /\ session'.verdict = Verdict /\ case.payment # None
    BY <1>2 DEF Verify, caseVars, SettleTypeOK
  <2> QED BY <2>1, VerdictStays DEF CommitIsCurrent
<1>3. CASE Commit
  BY <1>3 DEF Commit, CommitIsCurrent, NoSession
<1>4. ASSUME NEW h \in Handlers, Store(h)
      PROVE  CommitIsCurrent'
  BY <1>4 DEF Store, RowIsHeld, CommitIsCurrent
<1> QED BY <1>1, <1>2, <1>3, <1>4, StepKinds

LEMMA UnverifiableStep ==
  ASSUME SettleTypeOK, CommitIsCurrent, UnverifiableIsNeverSettled, [SettleNext]_settleVars
  PROVE  UnverifiableIsNeverSettled'
<1>1. CASE QuietStep \/ Verify
  <2>1. UNCHANGED case
    BY <1>1, QuietStepFacts DEF Verify, caseVars
  <2> QED BY <2>1 DEF UnverifiableIsNeverSettled
<1>2. CASE Commit
  <2>1. case'.payment = case.payment /\ (session.verdict = "STOPPED" => case'.state = "STOPPED")
    BY <1>2 DEF Commit, SettleTypeOK
  <2> QED BY <1>2, <2>1 DEF Commit, CommitIsCurrent, UnverifiableIsNeverSettled
<1>3. ASSUME NEW h \in Handlers, Store(h)
      PROVE  UnverifiableIsNeverSettled'
  BY <1>3 DEF Store, UnverifiableIsNeverSettled
<1> QED BY <1>1, <1>2, <1>3, StepKinds

LEMMA FailedHasEventsStep ==
  ASSUME SettleTypeOK, CommitIsCurrent, FailedHasEvents, [SettleNext]_settleVars
  PROVE  FailedHasEvents'
<1>1. CASE QuietStep \/ Verify
  <2>1. UNCHANGED <<events, case>>
    BY <1>1, QuietStepFacts DEF Verify, caseVars
  <2> QED BY <2>1, VerdictStays DEF FailedHasEvents
<1>2. CASE Commit
  <2>1. /\ case'.payment = case.payment /\ UNCHANGED events
        /\ case'.state = "FAILED" => session.verdict = "FAILED"
    BY <1>2 DEF Commit, SettleTypeOK
  <2>2. case'.state = "FAILED" => EventsOf(case.payment) # {}
    BY <1>2, <2>1, FailedVerdict DEF Commit, CommitIsCurrent
  <2> QED BY <2>1, <2>2 DEF FailedHasEvents, EventsOf
<1>3. ASSUME NEW h \in Handlers, Store(h)
      PROVE  FailedHasEvents'
  <2>1. events \subseteq events' /\ (case'.state = "FAILED" => UNCHANGED case)
    BY <1>3 DEF Store
  <2> QED BY <2>1 DEF FailedHasEvents, EventsOf
<1> QED BY <1>1, <1>2, <1>3, StepKinds

-----------------------------------------------------------------------------
(* Flagged captures.                                                       *)

\* A message about a FAILED case moves from the handler to the queue, from
\* there to the session, and back to the queue when the worker dies.
LEMMA SeenThroughHandlers ==
  ASSUME SettleTypeOK, NEW e, e.reconciling, WillBeSeen(e),
         NEW h \in Handlers, (\E n \in notices : Ingest(h, n)) \/ Publish(h) \/ LosePublish(h)
  PROVE  WillBeSeen(e)'
<1>1. ASSUME NEW n \in notices, Ingest(h, n)
      PROVE  WillBeSeen(e)'
  <2>1. UNCHANGED <<setAside, queue, session>>
    BY <1>1 DEF Ingest
  <2>2. \A g \in Handlers : handler[g].pc = "publish" => handler'[g] = handler[g]
    BY <1>1, IngestFacts
  <2> QED BY <2>1, <2>2 DEF WillBeSeen
<1>2. CASE Publish(h)
  <2>1. UNCHANGED <<setAside, session>>
    BY <1>2 DEF Publish
  <2>2. \A g \in Handlers : g # h => handler'[g] = handler[g]
    BY <1>2, RestFacts
  <2>3. /\ \A i \in 1..Len(queue) : i \in 1..Len(queue') /\ queue'[i] = queue[i]
        /\ \E i \in 1..Len(queue') :
             queue'[i] = IF handler[h].event.reconciling THEN "reconcile" ELSE "process"
    <3> DEFINE k == IF handler[h].event.reconciling THEN "reconcile" ELSE "process"
    <3>1. queue' = Append(queue, k) /\ k \in { "process", "reconcile" }
      BY <1>2 DEF Publish
    <3>2. queue \in Seq({ "process", "reconcile" })
      BY DEF SettleTypeOK
    <3> HIDE DEF k
    <3>3. /\ Len(queue') = Len(queue) + 1 /\ Len(queue) \in Nat
          /\ \A i \in 1..Len(queue) : queue'[i] = queue[i]
          /\ queue'[Len(queue) + 1] = k
      BY <3>1, <3>2, AppendProperties
    <3> QED BY <3>3 DEF k
  <2> QED BY <2>1, <2>2, <2>3 DEF WillBeSeen
<1>3. CASE LosePublish(h)
  BY <1>3 DEF LosePublish, WillBeSeen
<1> QED BY <1>1, <1>2, <1>3

LEMMA SeenThroughReceive ==
  ASSUME SettleTypeOK, case.state = "FAILED", NEW e, WillBeSeen(e), Receive
  PROVE  WillBeSeen(e)'
<1>1. queue # <<>> /\ queue \in Seq({ "process", "reconcile" }) /\ session.pc = "idle"
  BY DEF Receive, SettleTypeOK, NoSession
<1>2. UNCHANGED <<setAside, handler>> /\ queue' = Tail(queue)
  BY DEF Receive
<1>3. CASE Head(queue) = "reconcile"
  BY <1>3 DEF Receive, WillBeSeen, EntryState, NoSession
<1>4. ASSUME Head(queue) # "reconcile", NEW i \in 1..Len(queue), queue[i] = "reconcile"
      PROVE  \E j \in 1..Len(queue') : queue'[j] = "reconcile"
  <2>1. i - 1 \in 1..Len(queue') /\ queue'[i - 1] = "reconcile"
    BY <1>1, <1>2, <1>4
  <2> QED BY <2>1
<1> QED BY <1>1, <1>2, <1>3, <1>4 DEF WillBeSeen

LEMMA SeenThroughFailure ==
  ASSUME SettleTypeOK, NEW e, WillBeSeen(e), Fail \/ Crash
  PROVE  WillBeSeen(e)'
<1>1. CASE Fail
  BY <1>1 DEF Fail, WillBeSeen, SettleTypeOK
<1>2. CASE Crash
  <2>1. UNCHANGED <<setAside, handler>> /\ queue' = <<session.kind>> \o queue
    BY <1>2 DEF Crash
  <2>2. /\ queue \in Seq({ "process", "reconcile" })
        /\ <<session.kind>> \in Seq({ "process", "reconcile" })
    BY <1>2 DEF Crash, SettleTypeOK
  <2>3. /\ Len(queue') = Len(queue) + 1 /\ Len(queue) \in Nat
        /\ queue'[1] = session.kind
        /\ \A i \in 1..Len(queue) : queue'[i + 1] = queue[i]
    BY <2>1, <2>2
  <2>4. ASSUME NEW i \in 1..Len(queue), queue[i] = "reconcile"
        PROVE  \E j \in 1..Len(queue') : queue'[j] = "reconcile"
    BY <2>3, <2>4
  <2>5. session.kind = "reconcile" => \E j \in 1..Len(queue') : queue'[j] = "reconcile"
    BY <2>3
  <2> QED BY <2>1, <2>4, <2>5 DEF WillBeSeen
<1> QED BY <1>1, <1>2

LEMMA SeenThroughSession ==
  ASSUME SettleTypeOK, NEW e, WillBeSeen(e),
         Review("APPROVE") \/ Review("REJECT") \/ Decide \/ Verify \/ Ack
  PROVE  WillBeSeen(e)'
<1>1. UNCHANGED <<setAside, handler, queue>>
  BY DEF Review, Decide, Verify, Ack
<1>2. session.pc \in { "verify", "commit" } => Verify
  BY DEF Review, Decide, Ack, NoSession
<1>3. Verify => session'.pc = "commit" /\ session'.kind = session.kind
  BY DEF Verify, SettleTypeOK
<1> QED BY <1>1, <1>2, <1>3 DEF WillBeSeen

LEMMA FlagsStep ==
  ASSUME SettleInv, [SettleNext]_settleVars
  PROVE  FlagsWillBeSeen'
<1> USE DEF SettleInv
<1>1. CASE QuietStep \/ Verify
  <2>1. UNCHANGED <<events, case>>
    BY <1>1, QuietStepFacts DEF Verify, caseVars
  <2> SUFFICES ASSUME case.state = "FAILED", NEW e \in events, e.reconciling, WillBeSeen(e)
               PROVE  WillBeSeen(e)'
    BY <2>1, VerdictStays DEF FlagsWillBeSeen
  <2>2. CASE UNCHANGED <<setAside, handler, queue, session>>
    BY <2>2 DEF WillBeSeen
  <2> QED BY <1>1, <2>2, SeenThroughHandlers, SeenThroughReceive, SeenThroughFailure,
        SeenThroughSession DEF QuietStep, PaymentMovesOn, settleVars
\* A case that fails has just seen its newest event, which says so.
<1>2. CASE Commit
  <2>1. /\ UNCHANGED events /\ case'.payment = case.payment
        /\ case'.state = "FAILED" => session.verdict = "FAILED"
    BY <1>2 DEF Commit, SettleTypeOK
  <2>2. case'.state = "FAILED" => Verdict = "FAILED"
    BY <1>2, <2>1 DEF Commit, CommitIsCurrent
  <2>3. \A e : IsLatest(e)' <=> IsLatest(e)
    BY <2>1 DEF IsLatest, EventsOf
  <2>4. ASSUME case'.state = "FAILED", NEW e \in events, IsLatest(e)
        PROVE  StatusOf(e.notice.type) # "captured"
    BY <2>2, <2>4, FailedVerdict, LatestIsUnique
  <2> QED BY <2>1, <2>3, <2>4 DEF FlagsWillBeSeen
\* A stored event is seen by its own handler; others keep what will see them.
<1>3. ASSUME NEW h \in Handlers, Store(h)
      PROVE  FlagsWillBeSeen'
  <2> SUFFICES ASSUME case'.state = "FAILED", NEW e \in events', IsLatest(e)',
                      StatusOf(e.notice.type) = "captured", e.reconciling
               PROVE  WillBeSeen(e)'
    BY DEF FlagsWillBeSeen
  <2>1. /\ events' = events \cup { handler[h].event }
        /\ UNCHANGED <<case, setAside, queue, session>>
    BY <1>3 DEF Store
  <2>2. CASE e = handler[h].event
    <3>1. handler'[h].pc = "publish" /\ handler'[h].event = e
      BY <1>3, <2>2, StoreFacts
    <3> QED BY <3>1 DEF WillBeSeen
  <2>3. CASE e \in events
    <3>1. IsLatest(e)
      BY <2>1, <2>3 DEF IsLatest, EventsOf
    <3>2. WillBeSeen(e)
      BY <2>1, <2>3, <3>1 DEF FlagsWillBeSeen
    <3>3. \A g \in Handlers : handler[g].pc = "publish" => handler'[g] = handler[g]
      BY <1>3, StoreFacts
    <3> QED BY <2>1, <3>2, <3>3 DEF WillBeSeen
  <2> QED BY <2>1, <2>2, <2>3
<1> QED BY <1>1, <1>2, <1>3, StepKinds

-----------------------------------------------------------------------------
(* The outcomes.                                                           *)

LEMMA SettledCounts ==
  ASSUME SettleTypeOK
  PROVE  /\ Len(verdicts) \in Nat /\ DOMAIN verdicts = 1..Len(verdicts)
         /\ Len(outcomes) \in Nat /\ DOMAIN outcomes = 1..Len(outcomes)
         /\ \A i \in 0..Len(verdicts) :
              IsFiniteSet(SettledUpTo(verdicts, i)) /\ Cardinality(SettledUpTo(verdicts, i)) \in Nat
<1>1. verdicts \in Seq(Verdicts) /\ outcomes \in Seq(BOOLEAN)
  BY DEF SettleTypeOK
<1>2. /\ Len(verdicts) \in Nat /\ DOMAIN verdicts = 1..Len(verdicts)
      /\ Len(outcomes) \in Nat /\ DOMAIN outcomes = 1..Len(outcomes)
  BY <1>1
<1>3. ASSUME NEW i \in 0..Len(verdicts)
      PROVE  IsFiniteSet(SettledUpTo(verdicts, i)) /\ Cardinality(SettledUpTo(verdicts, i)) \in Nat
  <2>1. SettledUpTo(verdicts, i) \subseteq 1..i /\ i \in Nat
    BY <1>2 DEF SettledUpTo
  <2>2. IsFiniteSet(1..i)
    BY <2>1, FS_Interval
  <2> QED BY <2>1, <2>2, FS_Subset, FS_CardinalityType
<1> QED BY <1>2, <1>3

\* The rank of a settled verdict is that of an outcome.
LEMMA RankOfVerdict ==
  ASSUME SettleTypeOK, NEW i \in DOMAIN verdicts, verdicts[i] \in Settling
  PROVE  Cardinality(SettledUpTo(verdicts, i)) \in 1..Cardinality(SettledUpTo(verdicts, Len(verdicts)))
<1>1. /\ Len(verdicts) \in Nat /\ i \in 1..Len(verdicts)
      /\ i \in 0..Len(verdicts) /\ Len(verdicts) \in 0..Len(verdicts)
  BY SettledCounts
<1>2. SettledUpTo(verdicts, i) \subseteq SettledUpTo(verdicts, Len(verdicts)) /\ i \in SettledUpTo(verdicts, i)
  BY <1>1 DEF SettledUpTo
<1>3. Cardinality(SettledUpTo(verdicts, i)) <= Cardinality(SettledUpTo(verdicts, Len(verdicts)))
  BY <1>1, <1>2, SettledCounts, FS_Subset
<1>4. Cardinality(SettledUpTo(verdicts, i)) # 0
  BY <1>1, <1>2, SettledCounts, FS_EmptySet
<1>5. Cardinality(SettledUpTo(verdicts, i)) \in Nat /\ Cardinality(SettledUpTo(verdicts, Len(verdicts))) \in Nat
  BY <1>1, SettledCounts
<1> QED BY <1>3, <1>4, <1>5

\* A verdict v is appended: a settled one adds one to the count, another none.
LEMMA VerdictAppended ==
  ASSUME SettleTypeOK, NEW v \in Verdicts, verdicts' = Append(verdicts, v)
  PROVE  /\ Len(verdicts') = Len(verdicts) + 1 /\ DOMAIN verdicts' = 1..(Len(verdicts) + 1)
         /\ \A i \in 1..Len(verdicts) : verdicts'[i] = verdicts[i]
         /\ verdicts'[Len(verdicts) + 1] = v
         /\ \A i \in 0..Len(verdicts) : SettledUpTo(verdicts', i) = SettledUpTo(verdicts, i)
         /\ Cardinality(SettledUpTo(verdicts', Len(verdicts) + 1)) =
              IF v \in Settling THEN Cardinality(SettledUpTo(verdicts, Len(verdicts))) + 1
              ELSE Cardinality(SettledUpTo(verdicts, Len(verdicts)))
<1> DEFINE L == Len(verdicts)
<1>1. verdicts \in Seq(Verdicts)
  BY DEF SettleTypeOK
<1>2. /\ L \in Nat /\ Len(verdicts') = L + 1 /\ DOMAIN verdicts' = 1..(L + 1)
      /\ \A i \in 1..L : verdicts'[i] = verdicts[i]
      /\ verdicts'[L + 1] = v
  BY <1>1
<1>3. \A i \in 0..L : SettledUpTo(verdicts', i) = SettledUpTo(verdicts, i)
  BY <1>2 DEF SettledUpTo
<1>4. CASE v \in Settling
  <2>1. SettledUpTo(verdicts', L + 1) = SettledUpTo(verdicts, L) \cup { L + 1 }
    BY <1>2, <1>4 DEF SettledUpTo
  <2>2. L + 1 \notin SettledUpTo(verdicts, L) /\ L \in 0..L
    BY <1>2 DEF SettledUpTo
  <2>3. IsFiniteSet(SettledUpTo(verdicts, L))
    BY <2>2, SettledCounts
  <2>4. Cardinality(SettledUpTo(verdicts', L + 1)) = Cardinality(SettledUpTo(verdicts, L)) + 1
    BY <2>1, <2>2, <2>3, FS_AddElement
  <2> QED BY <1>2, <1>3, <1>4, <2>4
<1>5. CASE v \notin Settling
  <2>1. SettledUpTo(verdicts', L + 1) = SettledUpTo(verdicts, L)
    BY <1>2, <1>5 DEF SettledUpTo
  <2> QED BY <1>2, <1>3, <1>5, <2>1
<1> QED BY <1>4, <1>5

\* What only a commit changes, and where a session goes meanwhile.
LEMMA UnfoundedSteps ==
  ASSUME SettleTypeOK, QuietStep \/ Verify \/ \E h \in Handlers : Store(h)
  PROVE  /\ UNCHANGED <<verdicts, acted, outcomes>>
         /\ UNCHANGED case \/ (case = NoCaseRow /\ case'.state = "RECEIVED" /\ UNCHANGED session
                               /\ ~ RowIsHeld)
<1>1. CASE QuietStep \/ Verify
  BY <1>1 DEF QuietStep, PaymentMovesOn, Ingest, Publish, LosePublish, Receive, Review, Decide,
    Ack, Fail, Crash, Verify, settleVars, caseVars
<1>2. CASE \E h \in Handlers : Store(h)
  BY <1>2 DEF Store
<1> QED BY <1>1, <1>2

LEMMA FoundedThroughSession ==
  ASSUME SettleTypeOK, VerdictIsFounded, QuietStep \/ Verify
  PROVE  VerdictIsFounded'
<1>1. UNCHANGED <<acted, case>>
  BY DEF QuietStep, PaymentMovesOn, Ingest, Publish, LosePublish, Receive, Review, Decide,
    Ack, Fail, Crash, Verify, settleVars, caseVars
<1>2. session \in Sessions
  BY DEF SettleTypeOK, Sessions
<1>3. UNCHANGED session \/ Receive \/ Review("APPROVE") \/ Review("REJECT") \/ Decide \/ Verify
        \/ session' = NoSession
  BY DEF QuietStep, PaymentMovesOn, Ingest, Publish, LosePublish, Ack, Fail, Crash, settleVars
<1>4. CASE UNCHANGED session
  BY <1>1, <1>4 DEF VerdictIsFounded, RowIsHeld
<1>5. CASE session' = NoSession
  BY <1>1, <1>5 DEF VerdictIsFounded, RowIsHeld, NoSession
<1>6. CASE Receive
  <2>1. Head(queue) \in { "process", "reconcile" }
    BY <1>6 DEF Receive, SettleTypeOK
  <2>2. /\ session'.kind = Head(queue)
        /\ session'.pc \in { "ack", "decide", "verify" }
        /\ session'.pc # "ack" => case.state = EntryState(Head(queue))
        /\ session'.pc = "verify" => Head(queue) = "reconcile"
    BY <1>6, <2>1 DEF Receive, NoSession
  <2> QED BY <1>1, <2>1, <2>2 DEF VerdictIsFounded, RowIsHeld, Kinds
<1>7. CASE Review("APPROVE")
  <2>1. session'.kind = "APPROVE" /\ session'.pc = "decide" /\ case.state = EntryState("APPROVE")
    BY <1>7 DEF Review, NoSession
  <2> QED BY <1>1, <2>1 DEF VerdictIsFounded, RowIsHeld, Kinds
<1>8. CASE Review("REJECT")
  <2>1. session'.kind = "REJECT" /\ session'.pc = "commit" /\ session'.verdict = "STOPPED"
        /\ case.state = EntryState("REJECT")
    BY <1>8 DEF Review, NoSession
  <2> QED BY <1>1, <2>1 DEF VerdictIsFounded, RowIsHeld, Kinds
<1>9. CASE Decide
  <2>1. RowIsHeld /\ session'.kind = session.kind
    BY <1>2, <1>9 DEF Decide, RowIsHeld, Sessions
  <2>2. \/ session'.pc = "commit" /\ session'.verdict = "STOPPED"
        \/ session'.pc = "verify" /\ session'.acted = TRUE
    BY <1>2, <1>9 DEF Decide, Sessions
  <2> QED BY <1>1, <2>1, <2>2 DEF VerdictIsFounded, RowIsHeld
<1>10. CASE Verify
  <2>1. RowIsHeld /\ session'.kind = session.kind /\ session'.pc = "commit"
        /\ session'.acted = session.acted /\ session.pc = "verify"
    BY <1>2, <1>10 DEF Verify, RowIsHeld, Sessions, VerdictIsFounded
  <2> QED BY <1>1, <2>1 DEF VerdictIsFounded, RowIsHeld
<1> QED BY <1>3, <1>4, <1>5, <1>6, <1>7, <1>8, <1>9, <1>10

LEMMA FoundedStep ==
  ASSUME SettleTypeOK, CommitIsCurrent, VerdictIsFounded, [SettleNext]_settleVars
  PROVE  VerdictIsFounded'
<1>1. CASE Commit
  <2>1. /\ session \in Sessions /\ session.pc = "commit"
        /\ session'.pc \in { "idle", "ack" }
        /\ acted' = (acted \/ session.acted)
        /\ case'.state = "FAILED" => session.verdict = "FAILED"
    BY <1>1 DEF SettleTypeOK, Sessions, Commit, WriteRows, NoSession
  <2>2. case'.state = "FAILED" => acted'
    <3>1. CASE session.kind = "reconcile"
      BY <2>1, <3>1 DEF VerdictIsFounded, RowIsHeld, EntryState
    <3>2. CASE session.kind # "reconcile"
      BY <2>1, <3>2 DEF VerdictIsFounded
    <3> QED BY <3>1, <3>2
  <2> QED BY <2>1, <2>2 DEF VerdictIsFounded, RowIsHeld
<1>2. ASSUME NEW h \in Handlers, Store(h)
      PROVE  VerdictIsFounded'
  <2>1. UNCHANGED <<session, acted>> /\ ~ RowIsHeld /\ (case'.state = "FAILED" => UNCHANGED case)
    BY <1>2 DEF Store
  <2> QED BY <2>1 DEF VerdictIsFounded, RowIsHeld
<1> QED BY <1>1, <1>2, FoundedThroughSession, StepKinds

\* The rows a commit writes: a settled verdict, and only that, has an outcome.
LEMMA RowsWritten ==
  ASSUME SettleTypeOK, CommitIsCurrent, VerdictIsFounded, Commit
  PROVE  /\ session.verdict = "STOPPED" => UNCHANGED <<verdicts, outcomes>>
         /\ session.verdict # "STOPPED" =>
              /\ session.verdict \in Verdicts
              /\ verdicts' = Append(verdicts, session.verdict)
              /\ session.verdict \in Settling =>
                   \E b \in BOOLEAN :
                     b = (session.verdict = "RECOVERED") /\ outcomes' = Append(outcomes, b)
              /\ session.verdict \notin Settling => UNCHANGED outcomes
         /\ case'.state = IF session.verdict = "STILL_PENDING" THEN "VERIFICATION_PENDING"
                          ELSE session.verdict
         /\ case.state # "RECOVERED"
<1>1. session.pc = "commit" /\ WriteRows /\ RowIsHeld
  BY DEF Commit, RowIsHeld
<1>2. case.state # "RECOVERED"
  BY <1>1 DEF VerdictIsFounded, EntryState
<1>3. case'.state = IF session.verdict = "STILL_PENDING" THEN "VERIFICATION_PENDING"
                    ELSE session.verdict
  BY DEF Commit, SettleTypeOK
<1>4. CASE session.verdict = "STOPPED"
  BY <1>1, <1>2, <1>3, <1>4 DEF WriteRows
<1>5. CASE session.verdict # "STOPPED"
  <2>1. session.verdict \in Verdicts
    BY <1>1, <1>5, VerdictType DEF CommitIsCurrent
  <2>2. acted'
    <3>1. CASE session.kind = "reconcile"
      BY <1>1, <3>1 DEF VerdictIsFounded, EntryState, WriteRows
    <3>2. CASE session.kind # "reconcile"
      BY <1>1, <1>5, <3>2 DEF VerdictIsFounded, WriteRows
    <3> QED BY <3>1, <3>2
  <2>3. verdicts' = Append(verdicts, session.verdict)
    BY <1>1, <1>5 DEF WriteRows
  <2>4. outcomes' = IF session.verdict \in Settling
                      THEN Append(outcomes, session.verdict = "RECOVERED") ELSE outcomes
    BY <1>1, <2>2 DEF WriteRows, Settling
  <2> QED BY <1>2, <1>3, <1>5, <2>1, <2>3, <2>4
<1> QED BY <1>4, <1>5

\* A row b of a settled verdict is appended to the outcomes.
LEMMA OutcomeAppended ==
  ASSUME SettleTypeOK, NEW b \in BOOLEAN, outcomes' = Append(outcomes, b)
  PROVE  /\ Len(outcomes') = Len(outcomes) + 1 /\ DOMAIN outcomes' = 1..(Len(outcomes) + 1)
         /\ \A i \in 1..Len(outcomes) : outcomes'[i] = outcomes[i]
         /\ outcomes'[Len(outcomes) + 1] = b
BY DEF SettleTypeOK

LEMMA OutcomesStep ==
  ASSUME SettleTypeOK, CommitIsCurrent, VerdictIsFounded, RecoveredCountsOnce,
         [SettleNext]_settleVars
  PROVE  RecoveredCountsOnce'
<1> USE DEF RecoveredCountsOnce, OutcomesAreTheVerdicts
<1>1. CASE QuietStep \/ Verify \/ \E h \in Handlers : Store(h)
  <2>1. UNCHANGED <<verdicts, outcomes>>
    BY <1>1, UnfoundedSteps
  <2>2. case'.state = "RECOVERED" <=> case.state = "RECOVERED"
    BY <1>1, UnfoundedSteps DEF NoCaseRow, NoCase
  <2> QED BY <2>1, <2>2 DEF SettledUpTo
<1>2. CASE Commit
  <2> DEFINE v == session.verdict
             L == Len(verdicts)
             N == Len(outcomes)
  <2>1. /\ L \in Nat /\ DOMAIN verdicts = 1..L /\ N \in Nat /\ DOMAIN outcomes = 1..N
        /\ N = Cardinality(SettledUpTo(verdicts, L)) /\ L \in 0..L
    BY SettledCounts
  <2>2. \A i \in 1..N : ~ outcomes[i]
    BY <1>2, <2>1, RowsWritten
  <2>3. CASE v = "STOPPED"
    <3>1. UNCHANGED <<verdicts, outcomes>> /\ case'.state # "RECOVERED"
      BY <1>2, <2>3, RowsWritten
    <3> QED BY <2>1, <2>2, <3>1 DEF SettledUpTo
  <2>4. ASSUME v # "STOPPED", v \notin Settling
        PROVE  RecoveredCountsOnce'
    <3>1. /\ v \in Verdicts /\ verdicts' = Append(verdicts, v) /\ UNCHANGED outcomes
          /\ case'.state # "RECOVERED"
      BY <1>2, <2>4, RowsWritten DEF Settling
    <3>2. /\ Len(verdicts') = L + 1 /\ DOMAIN verdicts' = 1..(L + 1)
          /\ \A i \in 1..L : verdicts'[i] = verdicts[i] /\ SettledUpTo(verdicts', i) = SettledUpTo(verdicts, i)
          /\ verdicts'[L + 1] = v
          /\ Cardinality(SettledUpTo(verdicts', L + 1)) = Cardinality(SettledUpTo(verdicts, L))
      BY <2>1, <2>4, <3>1, VerdictAppended
    <3>4. Len(outcomes') = Cardinality(SettledUpTo(verdicts', Len(verdicts')))
      BY <2>1, <3>1, <3>2
    <3>5. ASSUME NEW i \in DOMAIN verdicts', verdicts'[i] \in Settling
          PROVE  outcomes'[Cardinality(SettledUpTo(verdicts', i))] = (verdicts'[i] = "RECOVERED")
      BY <2>1, <2>4, <3>1, <3>2, <3>5
    <3>6. \A i \in DOMAIN outcomes' : outcomes'[i] <=> i = Len(outcomes') /\ case'.state = "RECOVERED"
      BY <2>1, <2>2, <3>1
    <3> QED BY <3>4, <3>5, <3>6
  <2>5. ASSUME v # "STOPPED", v \in Settling
        PROVE  RecoveredCountsOnce'
    <3>1. v \in Verdicts /\ verdicts' = Append(verdicts, v)
      BY <1>2, <2>5, RowsWritten
    <3>2. PICK b \in BOOLEAN : b = (v = "RECOVERED") /\ outcomes' = Append(outcomes, b)
      BY <1>2, <2>5, RowsWritten
    <3>3. case'.state = v
      BY <1>2, <2>5, RowsWritten DEF Settling
    <3> HIDE DEF v
    <3>4. /\ Len(verdicts') = L + 1 /\ DOMAIN verdicts' = 1..(L + 1)
          /\ \A i \in 1..L : verdicts'[i] = verdicts[i] /\ SettledUpTo(verdicts', i) = SettledUpTo(verdicts, i)
          /\ verdicts'[L + 1] = v
          /\ Cardinality(SettledUpTo(verdicts', L + 1)) = N + 1
      BY <2>1, <2>5, <3>1, VerdictAppended
    <3>5. /\ Len(outcomes') = N + 1 /\ DOMAIN outcomes' = 1..(N + 1)
          /\ \A i \in 1..N : outcomes'[i] = outcomes[i]
          /\ outcomes'[N + 1] = b
      BY <3>2, OutcomeAppended
    <3>7. Len(outcomes') = Cardinality(SettledUpTo(verdicts', Len(verdicts')))
      BY <3>4, <3>5
    <3>8. ASSUME NEW i \in 1..L, verdicts'[i] \in Settling
          PROVE  outcomes'[Cardinality(SettledUpTo(verdicts', i))] = (verdicts'[i] = "RECOVERED")
      <4>1. verdicts[i] \in Settling /\ i \in DOMAIN verdicts /\ SettledUpTo(verdicts', i) = SettledUpTo(verdicts, i)
        BY <2>1, <3>4, <3>8
      <4>2. Cardinality(SettledUpTo(verdicts, i)) \in 1..N
        BY <2>1, <4>1, RankOfVerdict
      <4>3. outcomes[Cardinality(SettledUpTo(verdicts, i))] = (verdicts[i] = "RECOVERED")
        BY <4>1
      <4> QED BY <3>4, <3>5, <3>8, <4>1, <4>2, <4>3
    <3>9. outcomes'[Cardinality(SettledUpTo(verdicts', L + 1))] = (verdicts'[L + 1] = "RECOVERED")
      BY <3>2, <3>4, <3>5
    <3>10. ASSUME NEW i \in DOMAIN verdicts', verdicts'[i] \in Settling
           PROVE  outcomes'[Cardinality(SettledUpTo(verdicts', i))] = (verdicts'[i] = "RECOVERED")
      <4>1. i \in 1..L \/ i = L + 1
        BY <2>1, <3>4
      <4> QED BY <3>8, <3>9, <3>10, <4>1
    <3>11. b <=> case'.state = "RECOVERED"
      BY <3>2, <3>3
    <3>12. \A i \in 1..N : ~ outcomes'[i] /\ i # Len(outcomes')
      BY <2>1, <2>2, <3>5
    <3>13. ASSUME NEW i \in DOMAIN outcomes'
           PROVE  outcomes'[i] <=> i = Len(outcomes') /\ case'.state = "RECOVERED"
      <4>1. i \in 1..N \/ i = Len(outcomes')
        BY <2>1, <3>5
      <4>2. CASE i \in 1..N
        BY <3>12, <4>2
      <4>3. CASE i = Len(outcomes')
        <5>1. outcomes'[i] = b
          BY <3>5, <4>3
        <5> QED BY <3>11, <4>3, <5>1
      <4> QED BY <4>1, <4>2, <4>3
    <3> QED BY <3>7, <3>10, <3>13
  <2> QED BY <2>3, <2>4, <2>5
<1> QED BY <1>1, <1>2, StepKinds

-----------------------------------------------------------------------------
\* The types, and what the invariant says of timestamps, commits and flags,
\* hold in every state.
THEOREM SpecSettleInv == SettleSpec => []SettleInv
<1>1. SettleInit => SettleInv
  <2> SUFFICES ASSUME SettleInit PROVE SettleInv
    OBVIOUS
  <2>1. StampsAreUnique
    BY DEF SettleInit, StampsAreUnique, AtRest
  <2>2. CommitIsCurrent /\ UnverifiableIsNeverSettled /\ FailedHasEvents /\ FlagsWillBeSeen
    BY DEF SettleInit, NoSession, NoCaseRow, NoCase, CommitIsCurrent, UnverifiableIsNeverSettled,
      FailedHasEvents, FlagsWillBeSeen
  <2>3. VerdictIsFounded
    BY DEF SettleInit, NoSession, NoCaseRow, NoCase, VerdictIsFounded, RowIsHeld
  <2>4. RecoveredCountsOnce
    <3>1. DOMAIN verdicts = {} /\ Len(verdicts) = 0 /\ DOMAIN outcomes = {} /\ Len(outcomes) = 0
      BY DEF SettleInit
    <3>2. SettledUpTo(verdicts, 0) = {} /\ Cardinality({}) = 0
      BY FS_EmptySet DEF SettledUpTo
    <3> QED BY <3>1, <3>2 DEF RecoveredCountsOnce, OutcomesAreTheVerdicts
  <2> QED BY <2>1, <2>2, <2>3, <2>4, SettleTypeInit DEF SettleInv
<1>2. SettleInv /\ [SettleNext]_settleVars => SettleInv'
  BY SettleTypeStep, StampsStep, CommitStaysCurrent, UnverifiableStep, FailedHasEventsStep, FlagsStep,
     FoundedStep, OutcomesStep DEF SettleInv
<1> QED BY <1>1, <1>2, PTL DEF SettleSpec

\* No event of the case comes between the reading of its events and the commit
\* of the verdict on them.
THEOREM VerdictsFit == SettleSpec => VerdictFitsTheEvents
<1>1. SettleInv /\ [SettleNext]_settleVars =>
        [verdicts' # verdicts => verdicts'[Len(verdicts')] = Verdict]_settleVars
  <2> SUFFICES ASSUME SettleInv, [SettleNext]_settleVars, verdicts' # verdicts
               PROVE  verdicts'[Len(verdicts')] = Verdict
    OBVIOUS
  <2>1. Commit
    BY QuietStepFacts, StepKinds DEF SettleInv, Verify, Store, caseVars
  <2>2. session.verdict = Verdict /\ verdicts' = Append(verdicts, Verdict)
    BY <2>1 DEF Commit, WriteRows, SettleInv, CommitIsCurrent
  <2>3. verdicts \in Seq(Verdicts) /\ Verdict \in Verdicts
    BY VerdictType DEF SettleInv, SettleTypeOK
  <2> QED BY <2>2, <2>3, AppendProperties
<1> QED BY <1>1, SpecSettleInv, PTL DEF SettleSpec, VerdictFitsTheEvents

\* A case without a payment is stopped or waits, and is never settled.
THEOREM NeverSettledUnseen == SettleSpec => []UnverifiableIsNeverSettled
<1>1. SettleInv => UnverifiableIsNeverSettled
  BY DEF SettleInv
<1> QED BY <1>1, SpecSettleInv, PTL

\* The merchant's statistics have one row for each settled verdict, and a case
\* is in them as recovered once at most, whatever is redelivered or crashes.
THEOREM RecoveriesCountOnce == SettleSpec => []RecoveredCountsOnce
<1>1. SettleInv => RecoveredCountsOnce
  BY DEF SettleInv
<1> QED BY <1>1, SpecSettleInv, PTL

\* When everything published has been worked on, no FAILED case has a flagged
\* capture as its newest event, unless a message was set aside.
THEOREM FlaggedCapturesAreSeen == SettleSpec => []ReconciliationIsNotLost
<1>1. SettleInv => ReconciliationIsNotLost
  <2> SUFFICES ASSUME SettleInv, Quiescent, ~ setAside, case.state = "FAILED",
                      NEW e, e = LatestEventFor(case.payment),
                      StatusOf(e.notice.type) = "captured", e.reconciling
               PROVE  FALSE
    BY DEF ReconciliationIsNotLost
  <2>1. e \in events /\ IsLatest(e)
    BY LatestExists DEF SettleInv, FailedHasEvents, IsLatest, EventsOf
  <2>2. WillBeSeen(e)
    BY <2>1 DEF SettleInv, FlagsWillBeSeen
  <2> QED BY <2>2 DEF WillBeSeen, Quiescent, AtRest, NoSession
<1> QED BY <1>1, SpecSettleInv, PTL

-----------------------------------------------------------------------------
(* Settlement implements VerdictBook.                                      *)

\* Only a reconciliation starts with its verification.
ReconcilersVerify ==
  session.kind = "reconcile" =>
    session.pc # "decide" /\ (session.pc = "commit" => session.verdict # "STOPPED")

LEMMA ReconcilersVerifyStep ==
  ASSUME SettleInv, ReconcilersVerify, [SettleNext]_settleVars
  PROVE  ReconcilersVerify'
<1>1. session \in Sessions /\ Verdict # "STOPPED"
  BY VerdictType DEF SettleInv, SettleTypeOK, Sessions, Verdicts
<1>2. UNCHANGED session \/ Receive \/ Review("APPROVE") \/ Review("REJECT") \/ Decide \/ Verify
        \/ session'.pc \in { "idle", "ack" }
  <2>1. NoSession.pc = "idle" /\ [NoSession EXCEPT !.kind = session.kind, !.pc = "ack"].pc = "ack"
    BY DEF NoSession
  <2>2. CASE QuietStep
    <3>1. UNCHANGED session \/ Receive \/ Review("APPROVE") \/ Review("REJECT") \/ Decide
            \/ session' = NoSession
      BY <2>2 DEF QuietStep, PaymentMovesOn, Ingest, Publish, LosePublish, Ack, Fail, Crash, settleVars
    <3> QED BY <2>1, <3>1
  <2>3. CASE Commit
    <3>1. session' = NoSession \/ session' = [NoSession EXCEPT !.kind = session.kind, !.pc = "ack"]
      BY <2>3 DEF Commit
    <3> QED BY <2>1, <3>1
  <2>4. CASE \E h \in Handlers : Store(h)
    BY <2>4 DEF Store
  <2> QED BY <2>2, <2>3, <2>4, StepKinds
<1>3. CASE UNCHANGED session \/ session'.pc \in { "idle", "ack" }
  BY <1>3 DEF ReconcilersVerify
<1>4. CASE Receive
  <2>1. session'.kind = Head(queue) /\ session'.pc \in { "ack", "decide", "verify" }
        /\ (Head(queue) = "reconcile" => session'.pc # "decide")
    BY <1>4 DEF Receive, NoSession
  <2> QED BY <2>1 DEF ReconcilersVerify
<1>5. CASE Review("APPROVE") \/ Review("REJECT")
  <2>1. session'.kind \in { "APPROVE", "REJECT" }
    BY <1>5 DEF Review, NoSession
  <2> QED BY <2>1 DEF ReconcilersVerify
<1>6. CASE Decide
  <2>1. session'.kind = session.kind /\ session.pc = "decide"
    BY <1>1, <1>6 DEF Decide, Sessions
  <2> QED BY <2>1 DEF ReconcilersVerify
<1>7. CASE Verify
  <2>1. session'.pc = "commit" /\ session'.verdict = Verdict
    BY <1>1, <1>7 DEF Verify, Sessions
  <2> QED BY <1>1, <2>1 DEF ReconcilersVerify
<1> QED BY <1>2, <1>3, <1>4, <1>5, <1>6, <1>7

\* A case row that is not there says nothing.
UnopenedIsEmpty == case.state = NoCase => case = NoCaseRow

LEMMA UnopenedIsEmptyStep ==
  ASSUME SettleInv, UnopenedIsEmpty, [SettleNext]_settleVars
  PROVE  UnopenedIsEmpty'
<1>1. CASE QuietStep \/ Verify \/ \E h \in Handlers : Store(h)
  <2>1. UNCHANGED case \/ case'.state = "RECEIVED"
    BY <1>1, UnfoundedSteps DEF SettleInv
  <2> QED BY <2>1 DEF UnopenedIsEmpty, NoCase
<1>2. CASE Commit
  <2>1. case'.state \in Verdicts \cup { "STOPPED", "VERIFICATION_PENDING" }
    BY <1>2, RowsWritten DEF SettleInv
  <2> QED BY <2>1 DEF UnopenedIsEmpty, NoCase, Verdicts
<1> QED BY <1>1, <1>2, StepKinds

\* The provider's answer after a step is a verdict, too.
HasAnswer == Verdict \in Verdicts

LEMMA AnswersAfter == SettleTypeOK' => HasAnswer'
<1>1. SettleTypeOK => HasAnswer
  BY VerdictType DEF HasAnswer
<1> QED BY <1>1, PTL

LEMMA SameAnswers ==
  ASSUME UNCHANGED <<events, case>>
  PROVE  AnswersNow' = AnswersNow
BY VerdictStays DEF AnswersNow

\* A commit gives a verdict or stops the case.
LEMMA CommitIsEntered ==
  ASSUME SettleInv, ReconcilersVerify, Commit
  PROVE  Book!GiveVerdict \/ Book!StopCase
<1>1. /\ session.pc = "commit" /\ RowIsHeld /\ UNCHANGED events
      /\ case'.payment = case.payment /\ case'.amount = case.amount
  BY DEF Commit, RowIsHeld, SettleInv, SettleTypeOK
<1>2. AnswersNow' = AnswersNow
  <2>1. LatestEventFor(case.payment)' = LatestEventFor(case.payment)
    BY <1>1 DEF LatestEventFor, EventsOf
  <2>2. EventsOf(case.payment)' = EventsOf(case.payment)
    BY <1>1 DEF EventsOf
  <2>3. Verdict' = Verdict
    BY <1>1, <2>1, <2>2 DEF Verdict
  <2> QED BY <1>1, <2>3 DEF AnswersNow
<1>3. session.kind \in Kinds /\ case.state = EntryState(session.kind)
  BY <1>1 DEF SettleInv, VerdictIsFounded
<1>4. case'.state = IF session.verdict = "STILL_PENDING" THEN "VERIFICATION_PENDING" ELSE session.verdict
  BY RowsWritten DEF SettleInv
<1>5. CASE session.verdict = "STOPPED"
  <2>1. session.kind # "reconcile"
    BY <1>1, <1>5 DEF ReconcilersVerify
  <2>2. case.state \in { "RECEIVED", "ESCALATED" }
    BY <1>3, <2>1 DEF EntryState, Kinds
  <2>3. UNCHANGED <<verdicts, outcomes>>
    BY <1>5, RowsWritten DEF SettleInv
  <2> QED BY <1>2, <1>4, <1>5, <2>2, <2>3 DEF Book!StopCase
<1>6. CASE session.verdict # "STOPPED"
  <2>1. AnswersNow = { session.verdict }
    BY <1>1, <1>6 DEF SettleInv, CommitIsCurrent, AnswersNow
  <2>2. case.state \in { "RECEIVED", "FAILED", "ESCALATED" }
    BY <1>3 DEF EntryState, Kinds
  <2>3. verdicts' = Append(verdicts, session.verdict)
    BY <1>6, RowsWritten DEF SettleInv
  <2>4. outcomes' = IF session.verdict \in Book!Settled
                      THEN Append(outcomes, session.verdict = "RECOVERED") ELSE outcomes
    <3>1. CASE session.verdict \in Settling
      <4>1. PICK b \in BOOLEAN : b = (session.verdict = "RECOVERED") /\ outcomes' = Append(outcomes, b)
        BY <1>6, <3>1, RowsWritten DEF SettleInv
      <4> QED BY <3>1, <4>1 DEF Settling, Book!Settled
    <3>2. CASE session.verdict \notin Settling
      BY <1>6, <3>2, RowsWritten DEF SettleInv, Settling, Book!Settled
    <3> QED BY <3>1, <3>2
  <2> QED BY <1>2, <1>4, <2>1, <2>2, <2>3, <2>4 DEF Book!GiveVerdict
<1> QED BY <1>5, <1>6

\* A stored event opens the case, or is heard of.
LEMMA StoreIsHeard ==
  ASSUME SettleInv, UnopenedIsEmpty, SettleTypeOK', NEW h \in Handlers, Store(h)
  PROVE  [Book!BookNext]_(Book!bookVars)
<1>1. UNCHANGED <<verdicts, outcomes>>
  BY DEF Store
<1>2. Verdict' \in Verdicts
  BY AnswersAfter DEF HasAnswer
<1>3. Book!Verdicts = Verdicts
  BY DEF Book!Verdicts, Book!Settled, Verdicts
<1>4. CASE case = NoCaseRow
  <2>1. case'.state = "RECEIVED" /\ case.state = NoCase
    BY <1>4 DEF Store, NoCaseRow
  <2>2. AnswersNow' \in {{}} \cup { {v} : v \in Verdicts }
    BY <1>2 DEF AnswersNow
  <2> QED BY <1>1, <1>3, <2>1, <2>2 DEF Book!OpenCase, Book!BookNext, NoCase, Book!NoCase
<1>5. CASE case # NoCaseRow
  <2>1. case' = case
    BY <1>5 DEF Store
  <2>2. CASE case.payment = None
    <3>1. AnswersNow = {} /\ AnswersNow' = {}
      BY <2>1, <2>2 DEF AnswersNow
    <3> QED BY <1>1, <2>1, <3>1 DEF Book!bookVars
  <2>3. CASE case.payment # None
    <3>1. AnswersNow = { Verdict } /\ AnswersNow' = { Verdict' }
      BY <2>1, <2>3 DEF AnswersNow
    <3>2. AnswersNow # {} /\ AnswersNow' \in { {v} : v \in Verdicts }
      BY <1>2, <3>1
    <3>3. case.state # NoCase
      BY <1>5 DEF UnopenedIsEmpty
    <3> QED BY <1>1, <1>3, <2>1, <3>2, <3>3 DEF Book!HearOfPayment, Book!BookNext, NoCase, Book!NoCase
  <2> QED BY <2>2, <2>3
<1> QED BY <1>4, <1>5

LEMMA NextIsBook ==
  ASSUME SettleInv, ReconcilersVerify, UnopenedIsEmpty, SettleTypeOK', [SettleNext]_settleVars
  PROVE  [Book!BookNext]_(Book!bookVars)
<1>1. CASE QuietStep \/ Verify
  <2>1. UNCHANGED <<events, case, verdicts, outcomes>>
    BY <1>1 DEF QuietStep, PaymentMovesOn, Ingest, Publish, LosePublish, Receive, Review, Decide,
      Ack, Fail, Crash, Verify, settleVars, caseVars
  <2> QED BY <2>1, SameAnswers DEF Book!bookVars
<1>2. CASE Commit
  BY <1>2, CommitIsEntered DEF Book!BookNext
<1>3. CASE \E h \in Handlers : Store(h)
  BY <1>3, StoreIsHeard
<1> QED BY <1>1, <1>2, <1>3, StepKinds

\* A verdict is entered in one step, as the provider's answer of that moment, with
\* the state and the outcome that belong to it, whatever crashes, is redelivered
\* or arrives meanwhile.
THEOREM ImplementsVerdictBook == SettleSpec => VerdictsAreAtomic
<1>1. SettleInit => Book!BookInit /\ ReconcilersVerify /\ UnopenedIsEmpty
  BY DEF SettleInit, Book!BookInit, ReconcilersVerify, UnopenedIsEmpty, NoCaseRow, NoSession, AnswersNow,
    NoCase, Book!NoCase
<1>2. SettleInv /\ ReconcilersVerify /\ UnopenedIsEmpty /\ [SettleNext]_settleVars =>
        ReconcilersVerify' /\ UnopenedIsEmpty'
  BY ReconcilersVerifyStep, UnopenedIsEmptyStep
<1>3. SettleInv /\ ReconcilersVerify /\ UnopenedIsEmpty /\ SettleInv' /\ [SettleNext]_settleVars =>
        [Book!BookNext]_(Book!bookVars)
  BY NextIsBook DEF SettleInv
<1>4. SettleSpec => [](ReconcilersVerify /\ UnopenedIsEmpty)
  BY <1>1, <1>2, SpecSettleInv, PTL DEF SettleSpec
<1> QED BY <1>1, <1>3, <1>4, SpecSettleInv, PTL DEF SettleSpec, VerdictsAreAtomic, Book!BookSpec
=============================================================================
