------------------------- MODULE RecoveryCasesProofs -------------------------
(***************************************************************************)
(* Theorems about RecoveryCases for any set of payments, handlers, workers *)
(* and reviewers, any limits and any number of crashes.  IInv is shown to  *)
(* be inductive, one lemma per action; the safety properties follow.  The  *)
(* second half assumes one worker and one reviewer: that RecoveryCases     *)
(* implements CaseLifecycle, and what follows from serial jobs.            *)
(***************************************************************************)
EXTENDS RecoveryCases, SequenceTheorems, TLAPS

\* The part of the invariant that speaks of committed rows only.
CommittedSafe == OnlyRestingStates /\ RetryCap /\ RecoveredWasCaptured

\* The sets of processes are disjoint and no process is None.
LEMMA ProcsApart ==
  /\ Actors \subseteq Procs
  /\ Handlers \subseteq Procs
  /\ Handlers \cap Actors = {}
  /\ None \notin Procs
  /\ Workers \cap Reviewers = {}
BY RecoveryCasesAssumption DEF Procs, Actors

\* A step that leaves the committed rows and the payments alone keeps what is
\* known of them.
LEMMA CommittedFrame ==
  ASSUME CommittedSafe, UNCHANGED <<caseState, retryCount, payment>>
  PROVE  CommittedSafe'
BY DEF CommittedSafe, OnlyRestingStates, RetryCap, RecoveredWasCaptured

\* A step that does not touch the session of q nor the rows it relies on keeps
\* what is known of q.
LEMMA ActorFrame ==
  ASSUME NEW q \in Actors, ActorShape(q),
         pc'[q] = pc[q], job'[q] = job[q], view'[q] = view[q],
         executed'[q] = executed[q],
         retryCount' = retryCount, payment' = payment
  PROVE  ActorShape(q)'
BY DEF ActorShape, EntryState

LEMMA HandlerFrame ==
  ASSUME NEW h \in Handlers, HandlerShape(h),
         pc'[h] = pc[h], job'[h] = job[h]
  PROVE  HandlerShape(h)'
BY DEF HandlerShape

\* Where the entry path of a job ends.
EntryTarget(kind) ==
  CASE kind = "process"   -> "DECISION"
    [] kind = "reconcile" -> "VERIFICATION_PENDING"
    [] kind = "REJECT"    -> "STOPPED"
    [] kind \in { "APPROVE", "OVERRIDE" } -> "ACTION_PENDING"

\* An entry path is a sequence of states that ends at the job's target.
LEMMA EntryPathIsSeq ==
  ASSUME NEW kind \in MessageKinds \cup ReviewKinds
  PROVE  /\ EntryPath(kind) \in Seq(CaseStates)
         /\ EntryPath(kind)[Len(EntryPath(kind))] = EntryTarget(kind)
         /\ EntryTarget(kind) \in CaseStates
<1>1. CASE kind = "process"
  <2>1. EntryPath(kind) = <<"SCREENING", "DIAGNOSING",
                           "ELIGIBILITY_CHECK", "DECISION">>
    BY <1>1 DEF EntryPath
  <2>2. EntryTarget(kind) = "DECISION"
    BY <1>1 DEF EntryTarget
  <2>3. QED
    BY <2>1, <2>2 DEF CaseStates
<1>2. CASE kind = "reconcile"
  <2>1. EntryPath(kind) = <<"VERIFICATION_PENDING">>
    BY <1>2 DEF EntryPath
  <2>2. EntryTarget(kind) = "VERIFICATION_PENDING"
    BY <1>2 DEF EntryTarget
  <2>3. QED
    BY <2>1, <2>2 DEF CaseStates
<1>3. CASE kind = "REJECT"
  <2>1. EntryPath(kind) = <<"STOPPED">>
    BY <1>3 DEF EntryPath
  <2>2. EntryTarget(kind) = "STOPPED"
    BY <1>3 DEF EntryTarget
  <2>3. QED
    BY <2>1, <2>2 DEF CaseStates
<1>4. CASE kind \in { "APPROVE", "OVERRIDE" }
  <2>1. EntryPath(kind) = <<"ACTION_PENDING">>
    BY <1>4 DEF EntryPath
  <2>2. EntryTarget(kind) = "ACTION_PENDING"
    BY <1>4 DEF EntryTarget
  <2>3. QED
    BY <2>1, <2>2 DEF CaseStates
<1>5. QED
  BY <1>1, <1>2, <1>3, <1>4 DEF MessageKinds, ReviewKinds

\* A walk adds its path to the flushed rows of p and moves its view to the end
\* of the path.
LEMMA WalkEffect ==
  ASSUME TypeOK, NEW p \in Procs, NEW path \in Seq(CaseStates),
         path[Len(path)] \in CaseStates, Walk(p, path)
  PROVE  /\ rows' \in [Procs -> Seq(CaseStates)]
         /\ view' \in [Procs -> CaseStates \cup {None, NoCase}]
         /\ view'[p] = path[Len(path)]
         /\ \A q \in Procs : q # p => view'[q] = view[q]
<1>1. rows[p] \o path \in Seq(CaseStates)
  BY ConcatProperties DEF TypeOK
<1>2. QED
  BY <1>1 DEF TypeOK, Walk

\* What is left of a session that ends.
LEMMA EndSessionEffect ==
  ASSUME TypeOK, NEW p \in Procs, EndSession(p)
  PROVE  /\ pc' \in [Procs -> { "idle", "persist", "publish", "ack" } \cup SessionPcs]
         /\ job' \in [Procs -> Jobs \cup {NoJob}]
         /\ view' \in [Procs -> CaseStates \cup {None, NoCase}]
         /\ rows' \in [Procs -> Seq(CaseStates)]
         /\ action' \in [Procs -> Actions \cup {None}]
         /\ executed' \in [Procs -> BOOLEAN]
         /\ pc'[p] = "idle" /\ ~ executed'[p]
         /\ \A q \in Procs : q # p =>
              /\ pc'[q] = pc[q]
              /\ job'[q] = job[q]
              /\ view'[q] = view[q]
              /\ executed'[q] = executed[q]
<1>1. <<>> \in Seq(CaseStates)
  OBVIOUS
<1>2. QED
  BY <1>1 DEF TypeOK, EndSession
-----------------------------------------------------------------------------
(* Steps of a pipeline that holds the row and stays inside its transaction. *)

\* Nothing committed, no lock and no handler is touched by a step that only
\* moves the pc of an actor between pcs that hold the row.
LEMMA HoldingStep ==
  ASSUME IInv, NEW p \in Actors, NEW to \in HoldingPcs,
         pc[p] \in HoldingPcs, pc' = [pc EXCEPT ![p] = to],
         UNCHANGED <<dbVars, lock, mqVars, payVars, job, crashes>>
  PROVE  /\ \A h \in Handlers : HandlerShape(h)'
         /\ RowLockExclusive'
         /\ CommittedSafe'
<1>1. CommittedSafe'
  BY CommittedFrame DEF IInv, CommittedSafe, dbVars, payVars
<1>2. \A h \in Handlers : HandlerShape(h)'
  <2>1. TAKE h \in Handlers
  <2>2. h # p /\ h \in Procs
    BY ProcsApart
  <2>3. pc'[h] = pc[h] /\ job'[h] = job[h]
    BY <2>2 DEF IInv, TypeOK
  <2>4. QED
    BY <2>3, HandlerFrame DEF IInv
<1>3. RowLockExclusive'
  <2>1. \A q \in Actors : Holds(q)' <=> Holds(q)
    BY ProcsApart DEF Holds, IInv, TypeOK
  <2>2. QED
    BY <2>1 DEF RowLockExclusive, IInv
<1>4. QED
  BY <1>1, <1>2, <1>3

\* Decide keeps the invariant: the agent's choice moves the session to the gate.
LEMMA DecideKeepsInv ==
  ASSUME IInv, NEW w \in Actors, Decide(w)
  PROVE  IInv'
<1>1. w \in Procs /\ TypeOK
  BY ProcsApart DEF IInv
<1>2. /\ <<"ACTION_PENDING">> \in Seq(CaseStates)
      /\ <<"ACTION_PENDING">>[Len(<<"ACTION_PENDING">>)] = "ACTION_PENDING"
      /\ "ACTION_PENDING" \in CaseStates
  BY DEF CaseStates
<1>3. /\ rows' \in [Procs -> Seq(CaseStates)]
      /\ view' \in [Procs -> CaseStates \cup {None, NoCase}]
      /\ view'[w] = "ACTION_PENDING"
      /\ \A q \in Procs : q # w => view'[q] = view[q]
  BY <1>1, <1>2, WalkEffect DEF Decide
<1>4. TypeOK'
  BY <1>1, <1>3 DEF TypeOK, Decide, dbVars, mqVars, payVars, SessionPcs, HoldingPcs
<1>5. \A q \in Actors : ActorShape(q)'
  <2>1. TAKE q \in Actors
  <2>2. CASE q = w
    BY <1>1, <1>3, <2>2 DEF IInv, TypeOK, ActorShape, Decide, dbVars, payVars
  <2>3. CASE q # w
    BY <1>1, <1>3, <2>3, ProcsApart, ActorFrame DEF IInv, TypeOK, Decide, dbVars, payVars
  <2>4. QED
    BY <2>2, <2>3
<1>6. QED
  BY <1>4, <1>5, HoldingStep DEF IInv, CommittedSafe, Decide, HoldingPcs
\* The gate approves only below the retry limit, which the session then knows.
LEMMA GateApprovesKeepsInv ==
  ASSUME IInv, NEW p \in Actors, GateApproves(p)
  PROVE  IInv'
<1>1. p \in Procs /\ TypeOK
  BY ProcsApart DEF IInv
<1>2. TypeOK'
  BY <1>1 DEF TypeOK, GateApproves, dbVars, mqVars, payVars, SessionPcs, HoldingPcs
<1>3. \A q \in Actors : ActorShape(q)'
  <2>1. TAKE q \in Actors
  <2>2. CASE q = p
    BY <1>1, <2>2 DEF IInv, TypeOK, ActorShape, GateApproves, GateMayAllow, dbVars, payVars
  <2>3. CASE q # p
    BY <1>1, <2>3, ProcsApart, ActorFrame DEF IInv, TypeOK, GateApproves, dbVars, payVars
  <2>4. QED
    BY <2>2, <2>3
<1>4. QED
  BY <1>2, <1>3, HoldingStep DEF IInv, CommittedSafe, GateApproves, HoldingPcs

\* A gate that does not approve leaves the session in STOPPED, which may rest.
LEMMA GateStopsKeepsInv ==
  ASSUME IInv, NEW p \in Actors, GateStops(p)
  PROVE  IInv'
<1>1. p \in Procs /\ TypeOK
  BY ProcsApart DEF IInv
<1>2. /\ <<"STOPPED">> \in Seq(CaseStates)
      /\ <<"STOPPED">>[Len(<<"STOPPED">>)] = "STOPPED"
      /\ "STOPPED" \in CaseStates \cap RestingStates
  BY DEF CaseStates, RestingStates
<1>3. /\ rows' \in [Procs -> Seq(CaseStates)]
      /\ view' \in [Procs -> CaseStates \cup {None, NoCase}]
      /\ view'[p] = "STOPPED"
      /\ \A q \in Procs : q # p => view'[q] = view[q]
  BY <1>1, <1>2, WalkEffect DEF GateStops
<1>4. TypeOK'
  BY <1>1, <1>3 DEF TypeOK, GateStops, dbVars, mqVars, payVars, SessionPcs, HoldingPcs
<1>5. \A q \in Actors : ActorShape(q)'
  <2>1. TAKE q \in Actors
  <2>2. CASE q = p
    BY <1>1, <1>2, <1>3, <2>2 DEF IInv, TypeOK, ActorShape, GateStops, dbVars, payVars
  <2>3. CASE q # p
    BY <1>1, <1>3, <2>3, ProcsApart, ActorFrame DEF IInv, TypeOK, GateStops, dbVars, payVars
  <2>4. QED
    BY <2>2, <2>3
<1>6. QED
  BY <1>4, <1>5, HoldingStep DEF IInv, CommittedSafe, GateStops, HoldingPcs

\* The action is executed below the limit the gate saw: no one else can have
\* committed an attempt of this case since.
LEMMA ExecuteActionKeepsInv ==
  ASSUME IInv, NEW p \in Actors, ExecuteAction(p)
  PROVE  IInv'
<1>1. p \in Procs /\ TypeOK
  BY ProcsApart DEF IInv
<1> DEFINE path == <<"ACTION_EXECUTED", "VERIFICATION_PENDING">>
<1>2. /\ path \in Seq(CaseStates)
      /\ path[Len(path)] = "VERIFICATION_PENDING"
      /\ "VERIFICATION_PENDING" \in CaseStates
  BY DEF CaseStates
<1>3. Walk(p, path)
  BY DEF ExecuteAction
<1> HIDE DEF path
<1>4. /\ rows' \in [Procs -> Seq(CaseStates)]
      /\ view' \in [Procs -> CaseStates \cup {None, NoCase}]
      /\ view'[p] = "VERIFICATION_PENDING"
      /\ \A q \in Procs : q # p => view'[q] = view[q]
  BY <1>1, <1>2, <1>3, WalkEffect
<1>5. TypeOK'
  BY <1>1, <1>4 DEF TypeOK, ExecuteAction, dbVars, mqVars, payVars, SessionPcs, HoldingPcs
<1>6. \A q \in Actors : ActorShape(q)'
  <2>1. TAKE q \in Actors
  <2>2. CASE q = p
    BY <1>1, <1>4, <2>2 DEF IInv, TypeOK, ActorShape, ExecuteAction, dbVars, payVars
  <2>3. CASE q # p
    BY <1>1, <1>4, <2>3, ProcsApart, ActorFrame DEF IInv, TypeOK, ExecuteAction, dbVars, payVars
  <2>4. QED
    BY <2>2, <2>3
<1>7. QED
  BY <1>5, <1>6, HoldingStep DEF IInv, CommittedSafe, ExecuteAction, HoldingPcs

\* Only a captured payment is classified as RECOVERED.
LEMMA ClassifyRecovered ==
  ASSUME NEW status \in PaymentStatuses
  PROVE  /\ Classify(status) \in { "RECOVERED", "FAILED", "STILL_PENDING", "ESCALATED" }
         /\ Classify(status) = "RECOVERED" => status = "captured"
BY DEF PaymentStatuses, Classify

\* Verification ends in a state that may rest, and in RECOVERED only on a
\* capture.
LEMMA RunVerificationKeepsInv ==
  ASSUME IInv, NEW p \in Actors, RunVerification(p)
  PROVE  IInv'
<1>1. p \in Procs /\ TypeOK
  BY ProcsApart DEF IInv
<1>2. payment[job[p].case] \in PaymentStatuses
  <2>1. pc[p] = "verify"
    BY DEF RunVerification
  <2>2. job[p] \in Jobs
    BY <2>1 DEF IInv, ActorShape
  <2>3. QED
    BY <2>2 DEF IInv, TypeOK, Jobs
<1>3. PICK outcome \in { Classify(payment[job[p].case]), "ERROR" } :
        IF outcome \in { "STILL_PENDING", "ERROR" }
          THEN UNCHANGED <<view, rows>>
          ELSE Walk(p, <<outcome>>)
  BY DEF RunVerification
<1>4. outcome \in { "RECOVERED", "FAILED", "ESCALATED" } =>
        /\ <<outcome>> \in Seq(CaseStates)
        /\ <<outcome>>[Len(<<outcome>>)] = outcome
        /\ outcome \in CaseStates \cap RestingStates
  BY DEF CaseStates, RestingStates
<1>5. outcome \notin { "STILL_PENDING", "ERROR" } =>
        outcome \in { "RECOVERED", "FAILED", "ESCALATED" }
  BY <1>2, ClassifyRecovered
<1>6. /\ rows' \in [Procs -> Seq(CaseStates)]
      /\ view' \in [Procs -> CaseStates \cup {None, NoCase}]
      /\ view'[p] = view[p] \/ (view'[p] = outcome /\ outcome \in RestingStates)
      /\ \A q \in Procs : q # p => view'[q] = view[q]
  <2>1. CASE outcome \in { "STILL_PENDING", "ERROR" }
    BY <1>1, <1>3, <2>1 DEF TypeOK
  <2>2. CASE outcome \notin { "STILL_PENDING", "ERROR" }
    BY <1>1, <1>3, <1>4, <1>5, <2>2, WalkEffect
  <2>3. QED
    BY <2>1, <2>2
<1>7. TypeOK'
  BY <1>1, <1>6 DEF TypeOK, RunVerification, dbVars, mqVars, payVars, SessionPcs, HoldingPcs
<1>8. \A q \in Actors : ActorShape(q)'
  <2>1. TAKE q \in Actors
  <2>2. CASE q = p
    <3>1. view'[p] \in RestingStates
      BY <1>6 DEF IInv, ActorShape, RunVerification, RestingStates
    <3>2. view'[p] = "RECOVERED" => payment[job[p].case] = "captured"
      BY <1>2, <1>6, ClassifyRecovered DEF IInv, ActorShape, RunVerification
    <3>3. QED
      BY <1>1, <2>2, <3>1, <3>2 DEF IInv, TypeOK, ActorShape, RunVerification, dbVars, payVars
  <2>3. CASE q # p
    BY <1>1, <1>6, <2>3, ProcsApart, ActorFrame
       DEF IInv, TypeOK, RunVerification, dbVars, payVars
  <2>4. QED
    BY <2>2, <2>3
<1>9. QED
  BY <1>7, <1>8, HoldingStep DEF IInv, CommittedSafe, RunVerification, HoldingPcs
-----------------------------------------------------------------------------
(* Taking the row and giving it back.                                      *)

\* The row is taken free, so nobody else holds it; the session goes on from
\* the end of its entry path.
LEMMA AcquireRowKeepsInv ==
  ASSUME IInv, NEW p \in Actors, AcquireRow(p)
  PROVE  IInv'
<1> DEFINE k == job[p].kind
           c == job[p].case
<1>1. p \in Procs /\ TypeOK /\ job[p] \in Jobs /\ pc[p] = "lock"
  BY ProcsApart DEF IInv, ActorShape, AcquireRow
<1>2. k \in MessageKinds \cup ReviewKinds /\ c \in Cases
  BY <1>1 DEF Jobs
<1>3. /\ rows' \in [Procs -> Seq(CaseStates)]
      /\ view' \in [Procs -> CaseStates \cup {None, NoCase}]
      /\ view'[p] = EntryTarget(k)
      /\ \A q \in Procs : q # p => view'[q] = view[q]
  BY <1>1, <1>2, EntryPathIsSeq, WalkEffect DEF AcquireRow
<1>4. /\ pc' = [pc EXCEPT ![p] = AfterEntry(k)]
      /\ AfterEntry(k) \in HoldingPcs \cap { "decide", "verify", "commit", "gate" }
  BY <1>2 DEF AcquireRow, AfterEntry, HoldingPcs, MessageKinds, ReviewKinds
<1>5. TypeOK'
  BY <1>1, <1>2, <1>3, <1>4
     DEF TypeOK, AcquireRow, dbVars, mqVars, payVars, SessionPcs
<1>6. \A q \in Actors : ActorShape(q)'
  <2>1. TAKE q \in Actors
  <2>2. CASE q = p
    <3>1. /\ pc'[p] = AfterEntry(k) /\ job'[p] = job[p] /\ executed'[p] = executed[p]
          /\ view'[p] = EntryTarget(k) /\ ~ executed[p]
      BY <1>1, <1>3, <1>4 DEF IInv, TypeOK, ActorShape, AcquireRow
    <3>2. /\ AfterEntry(k) = "decide" => k = "process" /\ EntryTarget(k) = "DECISION"
          /\ AfterEntry(k) = "gate" => EntryTarget(k) = "ACTION_PENDING"
          /\ AfterEntry(k) = "verify" => EntryTarget(k) = "VERIFICATION_PENDING"
          /\ AfterEntry(k) = "commit" => EntryTarget(k) = "STOPPED"
      BY <1>2 DEF AfterEntry, EntryTarget, MessageKinds, ReviewKinds
    <3>3. "STOPPED" \in RestingStates
      BY DEF RestingStates
    <3>4. p \in Workers => job[p] \in Messages
      BY <1>1 DEF IInv, ActorShape
    <3>5. QED
      BY <1>1, <1>4, <2>2, <3>1, <3>2, <3>3, <3>4 DEF ActorShape
  <2>3. CASE q # p
    BY <1>1, <1>3, <2>3, ProcsApart, ActorFrame DEF IInv, TypeOK, AcquireRow, dbVars, payVars
  <2>4. QED
    BY <2>2, <2>3
<1>7. \A h \in Handlers : HandlerShape(h)'
  BY <1>1, <1>4, ProcsApart, HandlerFrame DEF IInv, TypeOK, AcquireRow
<1>8. RowLockExclusive'
  <2>1. SUFFICES ASSUME NEW q \in Actors, NEW d \in Cases
                 PROVE  (Holds(q) /\ job[q].case = d <=> lock[d] = q)'
    BY DEF RowLockExclusive
  <2>2. lock' = [lock EXCEPT ![c] = p] /\ lock[c] = None /\ job' = job
    BY DEF AcquireRow
  <2>3. q # None /\ q \in Procs
    BY ProcsApart
  <2>4. Holds(q) /\ job[q].case = d <=> lock[d] = q
    BY DEF IInv, RowLockExclusive
  <2>5. CASE q = p
    <3>1. Holds(p)' /\ ~ Holds(p)
      BY <1>1, <1>4 DEF Holds, TypeOK, HoldingPcs
    <3>2. QED
      BY <1>1, <1>2, <2>2, <2>4, <2>5, <3>1 DEF TypeOK
  <2>6. CASE q # p
    <3>1. Holds(q)' <=> Holds(q)
      BY <1>1, <1>4, <2>3, <2>6 DEF Holds, TypeOK
    <3>2. QED
      BY <1>1, <1>2, <2>2, <2>3, <2>4, <2>6, <3>1 DEF TypeOK
  <2>7. QED
    BY <2>5, <2>6
<1>9. CommittedSafe'
  BY CommittedFrame DEF IInv, CommittedSafe, AcquireRow, dbVars, payVars
<1>10. QED
  BY <1>5, <1>6, <1>7, <1>8, <1>9 DEF IInv, CommittedSafe

\* A session that ends gives its row back and disturbs nobody.
LEMMA SessionEnd ==
  ASSUME IInv, NEW p \in Procs, EndSession(p), ReleaseRow(p),
         UNCHANGED <<caseState, retryCount, payment>>
  PROVE  /\ lock' \in [Cases -> Actors \cup {None}]
         /\ \A q \in Actors : ActorShape(q)'
         /\ \A h \in Handlers : HandlerShape(h)'
         /\ RowLockExclusive'
         /\ CommittedSafe'
<1>1. TypeOK
  BY DEF IInv
<1>2. /\ pc'[p] = "idle" /\ ~ executed'[p]
      /\ \A q \in Procs : q # p =>
           /\ pc'[q] = pc[q]
           /\ job'[q] = job[q]
           /\ view'[q] = view[q]
           /\ executed'[q] = executed[q]
  BY <1>1, EndSessionEffect
<1>3. lock' \in [Cases -> Actors \cup {None}]
  BY <1>1 DEF TypeOK, ReleaseRow
<1>4. \A q \in Actors : ActorShape(q)'
  <2>1. TAKE q \in Actors
  <2>2. CASE q = p
    BY <1>2, <2>2 DEF ActorShape
  <2>3. CASE q # p
    BY <1>2, <2>3, ProcsApart, ActorFrame DEF IInv
  <2>4. QED
    BY <2>2, <2>3
<1>5. \A h \in Handlers : HandlerShape(h)'
  <2>1. TAKE h \in Handlers
  <2>2. CASE h = p
    BY <1>2, <2>2 DEF HandlerShape
  <2>3. CASE h # p
    BY <1>2, <2>3, ProcsApart, HandlerFrame DEF IInv
  <2>4. QED
    BY <2>2, <2>3
<1>6. RowLockExclusive'
  <2>1. SUFFICES ASSUME NEW q \in Actors, NEW d \in Cases
                 PROVE  (Holds(q) /\ job[q].case = d <=> lock[d] = q)'
    BY DEF RowLockExclusive
  <2>2. Holds(q) /\ job[q].case = d <=> lock[d] = q
    BY DEF IInv, RowLockExclusive
  <2>3. lock'[d] = IF lock[d] = p THEN None ELSE lock[d]
    BY DEF ReleaseRow
  <2>4. q # None /\ q \in Procs
    BY ProcsApart
  <2>5. CASE q = p
    BY <1>2, <2>3, <2>4, <2>5 DEF Holds, HoldingPcs
  <2>6. CASE q # p
    BY <1>2, <2>2, <2>3, <2>4, <2>6 DEF Holds
  <2>7. QED
    BY <2>5, <2>6
<1>7. CommittedSafe'
  BY CommittedFrame DEF IInv, CommittedSafe
<1>8. QED
  BY <1>3, <1>4, <1>5, <1>6, <1>7

\* A process that is not inside a transaction holds no row.
LEMMA NothingToRelease ==
  ASSUME IInv, NEW p \in Procs, p \in Actors => ~ Holds(p), UNCHANGED lock
  PROVE  ReleaseRow(p)
<1>1. \A c \in Cases : lock[c] # p
  BY ProcsApart DEF IInv, RowLockExclusive, TypeOK
<1>2. QED
  BY <1>1 DEF IInv, TypeOK, ReleaseRow
-----------------------------------------------------------------------------
(* Steps that end a session.                                               *)

\* An exception gives the row back and leaves the message in one place.
LEMMA FailKeepsInv ==
  ASSUME IInv, NEW p \in Actors, Fail(p)
  PROVE  IInv'
<1>1. p \in Procs /\ TypeOK
  BY ProcsApart DEF IInv, Actors
<1>2. EndSession(p) /\ ReleaseRow(p) /\ UNCHANGED <<caseState, retryCount, payment>>
  BY DEF Fail, dbVars, payVars
<1>3. queue' \in Seq(Messages) /\ dead' \in Seq(Messages)
  <2>1. p \in Workers => job[p] \in Messages
    BY DEF Fail, InSession, SessionPcs, HoldingPcs, IInv, ActorShape
  <2>2. QED
    BY <1>1, <2>1 DEF Fail, TypeOK
<1>4. TypeOK'
  <2>1. lock' \in [Cases -> Actors \cup {None}]
    BY <1>1, <1>2, SessionEnd
  <2>2. crashes' \in 0..MaxCrashes
    BY <1>1, RecoveryCasesAssumption DEF Fail, TypeOK
  <2>3. UNCHANGED <<dbVars, payVars>>
    BY DEF Fail
  <2>4. QED
    BY <1>1, <1>2, <1>3, <2>1, <2>2, <2>3, EndSessionEffect DEF TypeOK, dbVars, payVars
<1>5. QED
  BY <1>1, <1>2, <1>4, SessionEnd DEF IInv, CommittedSafe

\* A crash gives the row back and the message with it.
LEMMA CrashKeepsInv ==
  ASSUME IInv, NEW p \in Workers, Crash(p)
  PROVE  IInv'
<1>1. p \in Procs /\ TypeOK
  BY ProcsApart DEF IInv, Actors
<1>2. EndSession(p) /\ ReleaseRow(p) /\ UNCHANGED <<caseState, retryCount, payment>>
  BY DEF Crash, dbVars, payVars
<1>3. queue' \in Seq(Messages) /\ dead' \in Seq(Messages)
  <2>1. job[p] \in Messages
    BY DEF Crash, InSession, SessionPcs, HoldingPcs, IInv, ActorShape, Actors
  <2>2. <<job[p]>> \in Seq(Messages)
    BY <2>1
  <2>3. QED
    BY <1>1, <2>2, ConcatProperties DEF Crash, TypeOK
<1>4. TypeOK'
  <2>1. lock' \in [Cases -> Actors \cup {None}]
    BY <1>1, <1>2, SessionEnd
  <2>2. crashes' \in 0..MaxCrashes
    BY <1>1, RecoveryCasesAssumption DEF Crash, TypeOK
  <2>3. UNCHANGED <<dbVars, payVars>>
    BY DEF Crash
  <2>4. QED
    BY <1>1, <1>2, <1>3, <2>1, <2>2, <2>3, EndSessionEffect DEF TypeOK, dbVars, payVars
<1>5. QED
  BY <1>1, <1>2, <1>4, SessionEnd DEF IInv, CommittedSafe

\* An acknowledged message leaves nothing behind.
LEMMA AckKeepsInv ==
  ASSUME IInv, NEW p \in Workers, Ack(p)
  PROVE  IInv'
<1>1. p \in Procs /\ TypeOK
  BY ProcsApart DEF IInv, Actors
<1>2. EndSession(p) /\ ReleaseRow(p) /\ UNCHANGED <<caseState, retryCount, payment>>
  BY <1>1, NothingToRelease DEF Ack, dbVars, payVars, Holds, HoldingPcs
<1>3. queue' \in Seq(Messages) /\ dead' \in Seq(Messages)
  BY <1>1 DEF Ack, TypeOK, mqVars
<1>4. TypeOK'
  <2>1. lock' \in [Cases -> Actors \cup {None}]
    BY <1>1, <1>2, SessionEnd
  <2>2. crashes' \in 0..MaxCrashes
    BY <1>1, RecoveryCasesAssumption DEF Ack, TypeOK
  <2>3. UNCHANGED <<dbVars, payVars>>
    BY DEF Ack
  <2>4. QED
    BY <1>1, <1>2, <1>3, <2>1, <2>2, <2>3, EndSessionEffect DEF TypeOK, dbVars, payVars
<1>5. QED
  BY <1>1, <1>2, <1>4, SessionEnd DEF IInv, CommittedSafe

\* A published message is a message of the queue.
LEMMA PublishKeepsInv ==
  ASSUME IInv, NEW p \in Handlers, Publish(p)
  PROVE  IInv'
<1>1. p \in Procs /\ TypeOK
  BY ProcsApart DEF IInv, Actors
<1>2. EndSession(p) /\ ReleaseRow(p) /\ UNCHANGED <<caseState, retryCount, payment>>
  BY <1>1, NothingToRelease, ProcsApart DEF Publish, dbVars, payVars
<1>3. queue' \in Seq(Messages) /\ dead' \in Seq(Messages)
  <2>1. job[p] \in Messages
    BY DEF Publish, IInv, HandlerShape
  <2>2. QED
    BY <1>1, <2>1 DEF Publish, TypeOK
<1>4. TypeOK'
  <2>1. lock' \in [Cases -> Actors \cup {None}]
    BY <1>1, <1>2, SessionEnd
  <2>2. crashes' \in 0..MaxCrashes
    BY <1>1, RecoveryCasesAssumption DEF Publish, TypeOK
  <2>3. UNCHANGED <<dbVars, payVars>>
    BY DEF Publish
  <2>4. QED
    BY <1>1, <1>2, <1>3, <2>1, <2>2, <2>3, EndSessionEffect DEF TypeOK, dbVars, payVars
<1>5. QED
  BY <1>1, <1>2, <1>4, SessionEnd DEF IInv, CommittedSafe

\* A publish that is lost changes the handler alone.
LEMMA LosePublishKeepsInv ==
  ASSUME IInv, NEW p \in Handlers, LosePublish(p)
  PROVE  IInv'
<1>1. p \in Procs /\ TypeOK
  BY ProcsApart DEF IInv, Actors
<1>2. EndSession(p) /\ ReleaseRow(p) /\ UNCHANGED <<caseState, retryCount, payment>>
  BY <1>1, NothingToRelease, ProcsApart DEF LosePublish, dbVars, payVars
<1>3. queue' \in Seq(Messages) /\ dead' \in Seq(Messages)
  BY <1>1 DEF LosePublish, TypeOK, mqVars
<1>4. TypeOK'
  <2>1. lock' \in [Cases -> Actors \cup {None}]
    BY <1>1, <1>2, SessionEnd
  <2>2. crashes' \in 0..MaxCrashes
    BY <1>1, RecoveryCasesAssumption DEF LosePublish, TypeOK
  <2>3. UNCHANGED <<dbVars, payVars>>
    BY DEF LosePublish
  <2>4. QED
    BY <1>1, <1>2, <1>3, <2>1, <2>2, <2>3, EndSessionEffect DEF TypeOK, dbVars, payVars
<1>5. QED
  BY <1>1, <1>2, <1>4, SessionEnd DEF IInv, CommittedSafe
-----------------------------------------------------------------------------
(* The commit.                                                             *)

\* What a committing session writes: a state that may rest, a count that stays
\* within the limit, and RECOVERED only after a capture.
LEMMA CommitWrites ==
  ASSUME IInv, NEW p \in Actors, Commit(p)
  PROVE  CommittedSafe'
<1> DEFINE c == job[p].case
<1>1. TypeOK /\ p \in Procs /\ pc[p] = "commit" /\ c \in Cases
  BY ProcsApart DEF IInv, ActorShape, Commit, Jobs
<1>2. /\ view[p] \in RestingStates
      /\ view[p] = "RECOVERED" => payment[c] \in { "captured", "refunded" }
      /\ executed[p] => retryCount[c] < MaxRetryCount
  BY <1>1 DEF IInv, ActorShape
<1>3. OnlyRestingStates'
  BY <1>1, <1>2 DEF IInv, OnlyRestingStates, Commit, TypeOK
<1>4. RetryCap'
  BY <1>1, <1>2, RecoveryCasesAssumption DEF IInv, RetryCap, Commit, TypeOK
<1>5. RecoveredWasCaptured'
  BY <1>1, <1>2 DEF IInv, RecoveredWasCaptured, Commit, TypeOK, payVars
<1>6. QED
  BY <1>3, <1>4, <1>5 DEF CommittedSafe

\* The commit keeps the types: the view it writes is a state of a case.
LEMMA CommitTypes ==
  ASSUME IInv, NEW p \in Actors, Commit(p)
  PROVE  TypeOK'
<1> DEFINE c == job[p].case
<1>1. TypeOK /\ p \in Procs /\ pc[p] = "commit" /\ c \in Cases
  BY ProcsApart DEF IInv, ActorShape, Commit, Jobs
<1>2. view[p] \in CaseStates
  BY <1>1 DEF IInv, ActorShape, RestingStates, CaseStates
<1>3. caseState' \in [Cases -> CaseStates \cup {NoCase}]
  BY <1>1, <1>2 DEF Commit, TypeOK
<1>4. log' \in [Cases -> Seq(CaseStates)]
  <2>1. log[c] \o rows[p] \in Seq(CaseStates)
    BY <1>1, ConcatProperties DEF TypeOK
  <2>2. QED
    BY <1>1, <2>1 DEF Commit, TypeOK
<1>5. retryCount' \in [Cases -> Nat] /\ interventionCount' \in [Cases -> Nat]
  <2>1. retryCount \in [Cases -> Nat] /\ interventionCount \in [Cases -> Nat]
    BY <1>1 DEF TypeOK
  <2>2. \E n \in { retryCount[c], retryCount[c] + 1 } : retryCount' = [retryCount EXCEPT ![c] = n]
    BY DEF Commit
  <2>3. \E n \in { interventionCount[c], interventionCount[c] + 1 } :
          interventionCount' = [interventionCount EXCEPT ![c] = n]
    BY DEF Commit
  <2>4. retryCount[c] + 1 \in Nat /\ interventionCount[c] + 1 \in Nat
    BY <1>1, <2>1
  <2>5. QED
    BY <1>1, <2>1, <2>2, <2>3, <2>4
<1>6. proposed' \in [Cases -> Actions \cup {None}]
  BY <1>1 DEF Commit, TypeOK
<1>7. lock' \in [Cases -> Actors \cup {None}]
  BY <1>1 DEF Commit, ReleaseRow, TypeOK
<1>8. /\ pc' \in [Procs -> { "idle", "persist", "publish", "ack" } \cup SessionPcs]
      /\ job' \in [Procs -> Jobs \cup {NoJob}]
      /\ view' \in [Procs -> CaseStates \cup {None, NoCase}]
      /\ rows' \in [Procs -> Seq(CaseStates)]
      /\ action' \in [Procs -> Actions \cup {None}]
      /\ executed' \in [Procs -> BOOLEAN]
  <2>1. CASE p \in Workers
    BY <1>1, <2>1 DEF Commit, TypeOK
  <2>2. CASE p \notin Workers
    BY <1>1, <2>2, EndSessionEffect DEF Commit
  <2>3. QED
    BY <2>1, <2>2
<1>9. UNCHANGED <<queue, dead, payment, notices, crashes>>
  BY DEF Commit, mqVars, payVars
<1>10. QED
  BY <1>1, <1>3, <1>4, <1>5, <1>6, <1>7, <1>8, <1>9 DEF TypeOK

\* The commit keeps the invariant.  Only this step moves a count that other
\* sessions rely on, and a session that relies on it would hold the same row.
LEMMA CommitKeepsInv ==
  ASSUME IInv, NEW p \in Actors, Commit(p)
  PROVE  IInv'
<1> DEFINE c == job[p].case
<1>1. TypeOK /\ p \in Procs /\ pc[p] = "commit" /\ c \in Cases
  BY ProcsApart DEF IInv, ActorShape, Commit, Jobs
<1>2. lock[c] = p /\ \A d \in Cases : lock[d] = p => d = c
  BY <1>1 DEF IInv, RowLockExclusive, Holds, HoldingPcs
<1>3. /\ pc'[p] \in { "idle", "ack" }
      /\ pc'[p] = "ack" => p \in Workers /\ job'[p] = job[p]
      /\ pc'[p] = "idle" => ~ executed'[p]
      /\ \A q \in Procs : q # p =>
           /\ pc'[q] = pc[q]
           /\ job'[q] = job[q]
           /\ view'[q] = view[q]
           /\ executed'[q] = executed[q]
  <2>1. CASE p \in Workers
    BY <1>1, <2>1 DEF Commit, TypeOK
  <2>2. CASE p \notin Workers
    BY <1>1, <2>2, EndSessionEffect DEF Commit
  <2>3. QED
    BY <2>1, <2>2
<1>4. \A q \in Actors : ActorShape(q)'
  <2>1. TAKE q \in Actors
  <2>2. CASE q = p
    BY <1>1, <1>3, <2>2, RecoveryCasesAssumption DEF IInv, ActorShape
  <2>3. CASE q # p
    <3>1. /\ pc'[q] = pc[q] /\ job'[q] = job[q] /\ view'[q] = view[q]
          /\ executed'[q] = executed[q] /\ payment' = payment /\ ActorShape(q)
      BY <1>3, <2>3, ProcsApart DEF IInv, Commit, payVars
    <3>2. Holds(q) => job[q].case # c /\ retryCount'[job[q].case] = retryCount[job[q].case]
      <4>1. ASSUME Holds(q)
            PROVE  job[q].case \in Cases
        BY <4>1 DEF Holds, HoldingPcs, IInv, ActorShape, Jobs
      <4>2. Holds(q) => job[q].case # c
        BY <1>1, <1>2, <2>3 DEF IInv, RowLockExclusive
      <4>3. QED
        BY <1>1, <4>1, <4>2 DEF Commit, TypeOK
    <3>3. QED
      BY <3>1, <3>2 DEF ActorShape, EntryState, Holds, HoldingPcs
  <2>4. QED
    BY <2>2, <2>3
<1>5. \A h \in Handlers : HandlerShape(h)'
  BY <1>3, ProcsApart, HandlerFrame DEF IInv
<1>6. RowLockExclusive'
  <2>1. SUFFICES ASSUME NEW q \in Actors, NEW d \in Cases
                 PROVE  (Holds(q) /\ job[q].case = d <=> lock[d] = q)'
    BY DEF RowLockExclusive
  <2>2. Holds(q) /\ job[q].case = d <=> lock[d] = q
    BY DEF IInv, RowLockExclusive
  <2>3. lock'[d] = IF lock[d] = p THEN None ELSE lock[d]
    BY DEF Commit, ReleaseRow
  <2>4. q # None /\ q \in Procs
    BY ProcsApart
  <2>5. CASE q = p
    BY <1>3, <2>3, <2>4, <2>5 DEF Holds, HoldingPcs
  <2>6. CASE q # p
    BY <1>3, <2>2, <2>3, <2>4, <2>6 DEF Holds
  <2>7. QED
    BY <2>5, <2>6
<1>7. QED
  BY <1>4, <1>5, <1>6, CommitTypes, CommitWrites DEF IInv, CommittedSafe

-----------------------------------------------------------------------------
(* Steps before the row is taken.                                          *)

\* A step of a process that neither held nor takes a row.
LEMMA OutsideStep ==
  ASSUME IInv, NEW p \in Procs, pc[p] \notin HoldingPcs,
         pc'[p] \notin HoldingPcs, UNCHANGED lock,
         \A q \in Procs : q # p => pc'[q] = pc[q] /\ job'[q] = job[q]
  PROVE  RowLockExclusive'
<1>1. SUFFICES ASSUME NEW q \in Actors, NEW d \in Cases
               PROVE  (Holds(q) /\ job[q].case = d <=> lock[d] = q)'
  BY DEF RowLockExclusive
<1>2. (Holds(q) /\ job[q].case = d <=> lock[d] = q) /\ q \in Procs
  BY ProcsApart DEF IInv, RowLockExclusive
<1>3. QED
  BY <1>2 DEF Holds

\* A message taken from the queue is a job whose session knows the state it
\* requires, or one that only waits for its acknowledgement.
LEMMA ReceiveKeepsInv ==
  ASSUME IInv, NEW w \in Workers, Receive(w)
  PROVE  IInv'
<1> DEFINE m == Head(queue)
<1>1. w \in Procs /\ w \in Actors /\ w \notin Reviewers /\ TypeOK /\ pc[w] = "idle"
  BY ProcsApart DEF IInv, Actors, Receive
<1>2. m \in Messages /\ queue' \in Seq(Messages)
  BY HeadTailProperties DEF Receive, IInv, TypeOK
<1>3. m \in Jobs /\ m.case \in Cases
  BY <1>2 DEF Messages, Jobs
<1>4. pc'[w] \in { "lock", "ack" } /\ job'[w] = m /\ view'[w] = caseState[m.case]
  BY <1>1 DEF Receive, TypeOK
<1>5. /\ pc'[w] = "lock" => view'[w] = EntryState(m.kind)
      /\ \A q \in Procs : q # w =>
           pc'[q] = pc[q] /\ job'[q] = job[q] /\ view'[q] = view[q]
      /\ UNCHANGED <<dbVars, lock, dead, payVars, rows, action, executed, crashes>>
  BY <1>1 DEF Receive, TypeOK
<1>6. TypeOK'
  BY <1>1, <1>2, <1>3 DEF TypeOK, Receive, dbVars, payVars, SessionPcs
<1>7. ActorShape(w)'
  <2>1. w \in Actors => ActorShape(w)
    BY DEF IInv
  <2>2. QED
    BY <1>1, <1>2, <1>3, <1>4, <1>5, <2>1 DEF ActorShape
<1>8. \A q \in Actors : ActorShape(q)'
  BY <1>5, <1>7, ProcsApart, ActorFrame DEF IInv, dbVars, payVars
<1>9. \A h \in Handlers : HandlerShape(h)'
  BY <1>1, <1>5, ProcsApart, HandlerFrame DEF IInv
<1>10. RowLockExclusive'
  BY <1>1, <1>4, <1>5, OutsideStep DEF HoldingPcs
<1>11. CommittedSafe'
  BY <1>5, CommittedFrame DEF IInv, CommittedSafe, dbVars, payVars
<1>12. QED
  BY <1>6, <1>8, <1>9, <1>10, <1>11 DEF IInv, CommittedSafe
\* A reviewer's request starts from an escalated case, with an action at hand.
LEMMA ReviewKeepsInv ==
  ASSUME IInv, NEW r \in Reviewers, NEW c \in Cases, NEW kind \in ReviewKinds,
         Review(r, c, kind)
  PROVE  IInv'
<1>1. r \in Procs /\ r \in Actors /\ r \notin Workers /\ TypeOK /\ pc[r] = "idle"
  BY ProcsApart DEF IInv, Actors, Review
<1>2. [case |-> c, kind |-> kind] \in Jobs /\ EntryState(kind) = "ESCALATED"
  BY DEF Jobs, EntryState, ReviewKinds
<1>3. action' \in [Procs -> Actions \cup {None}]
  <2>1. CASE kind = "REJECT"
    BY <1>1, <2>1 DEF Review, TypeOK
  <2>2. CASE kind = "APPROVE"
    BY <1>1, <2>2 DEF Review, TypeOK
  <2>3. CASE kind = "OVERRIDE"
    BY <1>1, <2>3 DEF Review, TypeOK
  <2>4. QED
    BY <2>1, <2>2, <2>3 DEF ReviewKinds
<1>4. /\ pc' = [pc EXCEPT ![r] = "lock"]
      /\ job' = [job EXCEPT ![r] = [case |-> c, kind |-> kind]]
      /\ view' = [view EXCEPT ![r] = "ESCALATED"]
      /\ UNCHANGED <<dbVars, lock, mqVars, payVars, rows, executed, crashes>>
  BY DEF Review
<1>5. TypeOK'
  BY <1>1, <1>2, <1>3, <1>4
     DEF TypeOK, dbVars, mqVars, payVars, SessionPcs, CaseStates
<1>6. ActorShape(r)'
  <2>1. ActorShape(r)
    BY <1>1 DEF IInv
  <2>2. QED
    BY <1>1, <1>2, <1>4, <2>1 DEF ActorShape, TypeOK
<1>7. \A q \in Procs : q # r =>
        /\ pc'[q] = pc[q] /\ job'[q] = job[q]
        /\ view'[q] = view[q] /\ executed'[q] = executed[q]
  BY <1>1, <1>4 DEF TypeOK
<1>8. \A q \in Actors : ActorShape(q)'
  BY <1>4, <1>6, <1>7, ProcsApart, ActorFrame DEF IInv, dbVars, payVars
<1>9. \A h \in Handlers : HandlerShape(h)'
  BY <1>1, <1>7, ProcsApart, HandlerFrame DEF IInv
<1>10. RowLockExclusive'
  BY <1>1, <1>4, <1>7, OutsideStep DEF HoldingPcs, TypeOK
<1>11. CommittedSafe'
  BY <1>4, CommittedFrame DEF IInv, CommittedSafe, dbVars, payVars
<1>12. QED
  BY <1>5, <1>8, <1>9, <1>10, <1>11 DEF IInv, CommittedSafe

-----------------------------------------------------------------------------
(* The provider and the webhook endpoint.                                  *)

\* A handler prepares a message, whatever it read of the case.
LEMMA IngestKeepsInv ==
  ASSUME IInv, NEW h \in Handlers, NEW n \in Notices, Ingest(h, n)
  PROVE  IInv'
<1>1. h \in Procs /\ h \notin Actors /\ TypeOK /\ pc[h] = "idle"
  BY ProcsApart DEF IInv, Ingest
<1>2. PICK kind \in MessageKinds :
        job' = [job EXCEPT ![h] = [case |-> n.case, kind |-> kind]]
  BY DEF Ingest, MessageKinds
<1>3. [case |-> n.case, kind |-> kind] \in Messages \cap Jobs
  BY DEF Notices, Messages, Jobs
<1>4. /\ pc' = [pc EXCEPT ![h] = "persist"]
      /\ notices' \subseteq Notices
      /\ UNCHANGED <<dbVars, lock, mqVars, payment, view, rows, action, executed, crashes>>
  BY <1>1 DEF Ingest, TypeOK
<1>5. TypeOK'
  BY <1>1, <1>2, <1>3, <1>4 DEF TypeOK, dbVars, mqVars
<1>6. HandlerShape(h)'
  BY <1>1, <1>2, <1>3, <1>4 DEF HandlerShape, TypeOK
<1>7. \A q \in Procs : q # h =>
        /\ pc'[q] = pc[q] /\ job'[q] = job[q]
        /\ view'[q] = view[q] /\ executed'[q] = executed[q]
  BY <1>1, <1>2, <1>4 DEF TypeOK
<1>8. \A q \in Actors : ActorShape(q)'
  BY <1>1, <1>4, <1>7, ProcsApart, ActorFrame DEF IInv, dbVars
<1>9. \A g \in Handlers : HandlerShape(g)'
  BY <1>6, <1>7, ProcsApart, HandlerFrame DEF IInv
<1>10. RowLockExclusive'
  BY <1>1, <1>4, <1>7, OutsideStep DEF HoldingPcs, TypeOK
<1>11. CommittedSafe'
  BY <1>4, CommittedFrame DEF IInv, CommittedSafe, dbVars
<1>12. QED
  BY <1>5, <1>8, <1>9, <1>10, <1>11 DEF IInv, CommittedSafe

\* A handler's commit opens the case in RECEIVED or leaves it as it is.
LEMMA PersistKeepsInv ==
  ASSUME IInv, NEW h \in Handlers, Persist(h)
  PROVE  IInv'
<1> DEFINE c == job[h].case
<1>1. /\ h \in Procs /\ h \notin Actors /\ TypeOK /\ pc[h] = "persist"
      /\ job[h] \in Messages /\ c \in Cases
  BY ProcsApart DEF IInv, HandlerShape, Persist, Messages
<1>2. /\ pc' = [pc EXCEPT ![h] = "publish"]
      /\ UNCHANGED <<retryCount, interventionCount, proposed, lock, mqVars, payVars,
                     job, view, rows, action, executed, crashes>>
      /\ \/ caseState' = [caseState EXCEPT ![c] = "RECEIVED"]
         \/ caseState' = caseState
      /\ \/ log' = [log EXCEPT ![c] = Append(@, "RECEIVED")]
         \/ log' = log
  BY DEF Persist
<1>3. "RECEIVED" \in CaseStates \cap RestingStates
  BY DEF CaseStates, RestingStates
<1>4. TypeOK'
  <2>1. caseState' \in [Cases -> CaseStates \cup {NoCase}]
    BY <1>1, <1>2, <1>3 DEF TypeOK
  <2>2. log' \in [Cases -> Seq(CaseStates)]
    <3>1. Append(log[c], "RECEIVED") \in Seq(CaseStates)
      BY <1>1, <1>3, AppendProperties DEF TypeOK
    <3>2. QED
      BY <1>1, <1>2, <3>1 DEF TypeOK
  <2>3. QED
    BY <1>1, <1>2, <2>1, <2>2 DEF TypeOK, mqVars, payVars
<1>5. HandlerShape(h)'
  BY <1>1, <1>2 DEF HandlerShape, TypeOK
<1>6. \A q \in Procs : q # h =>
        /\ pc'[q] = pc[q] /\ job'[q] = job[q]
        /\ view'[q] = view[q] /\ executed'[q] = executed[q]
  BY <1>1, <1>2 DEF TypeOK
<1>7. \A q \in Actors : ActorShape(q)'
  BY <1>1, <1>2, <1>6, ProcsApart, ActorFrame DEF IInv, payVars
<1>8. \A g \in Handlers : HandlerShape(g)'
  BY <1>5, <1>6, ProcsApart, HandlerFrame DEF IInv
<1>9. RowLockExclusive'
  BY <1>1, <1>2, <1>6, OutsideStep DEF HoldingPcs, TypeOK
<1>10. CommittedSafe'
  <2>1. \A d \in Cases : caseState'[d] = caseState[d] \/ caseState'[d] = "RECEIVED"
    BY <1>1, <1>2 DEF TypeOK
  <2>2. UNCHANGED <<retryCount, payment>>
    BY <1>2 DEF payVars
  <2>3. QED
    BY <1>3, <2>1, <2>2
       DEF IInv, CommittedSafe, OnlyRestingStates, RetryCap, RecoveredWasCaptured
<1>11. QED
  BY <1>4, <1>7, <1>8, <1>9, <1>10 DEF IInv, CommittedSafe

\* A payment that was captured is captured or refunded ever after.
LEMMA PaymentMovesOnKeepsInv ==
  ASSUME IInv, NEW c \in Cases, NEW status \in PaymentStatuses,
         PaymentMovesOn(c, status)
  PROVE  IInv'
<1>1. TypeOK
  BY DEF IInv
<1>2. /\ payment' = [payment EXCEPT ![c] = status]
      /\ UNCHANGED <<dbVars, lock, mqVars, sessVars, crashes>>
  BY DEF PaymentMovesOn
<1>2a. notices' \subseteq Notices
  <2>1. EventsOf(status) \subseteq Events
    BY DEF EventsOf, Events, PaymentStatuses
  <2>2. [case : {c}, event : EventsOf(status)] \subseteq Notices
    BY <2>1 DEF Notices
  <2>3. QED
    BY <1>1, <2>2 DEF PaymentMovesOn, TypeOK
<1>3. \A d \in Cases : payment[d] \in { "captured", "refunded" } =>
        payment'[d] \in { "captured", "refunded" }
  BY <1>1 DEF PaymentMovesOn, PaymentMoves, TypeOK
<1>4. TypeOK'
  BY <1>1, <1>2, <1>2a DEF PaymentMovesOn, TypeOK, dbVars, mqVars, sessVars
<1>5. \A q \in Actors : ActorShape(q)'
  <2>1. TAKE q \in Actors
  <2>2. ActorShape(q) /\ UNCHANGED <<retryCount, pc, job, view, executed>>
    BY <1>2 DEF IInv, dbVars, sessVars
  <2>3. pc[q] # "idle" => job[q].case \in Cases
    BY <2>2 DEF ActorShape, Jobs
  <2>4. QED
    BY <1>3, <2>2, <2>3 DEF ActorShape, EntryState
<1>6. (\A h \in Handlers : HandlerShape(h)') /\ RowLockExclusive'
  BY <1>2 DEF IInv, HandlerShape, RowLockExclusive, Holds, sessVars
<1>7. CommittedSafe'
  BY <1>2, <1>3 DEF IInv, CommittedSafe, OnlyRestingStates, RetryCap,
                    RecoveredWasCaptured, dbVars
<1>8. QED
  BY <1>4, <1>5, <1>6, <1>7 DEF IInv, CommittedSafe

-----------------------------------------------------------------------------
(* The invariant and what follows from it.                                 *)

\* Nothing has happened yet: no case, no message, no session.
LEMMA InitIInv == Init => IInv
<1> SUFFICES ASSUME Init PROVE IInv
  OBVIOUS
<1>1. TypeOK
  <2>1. <<>> \in Seq(CaseStates) /\ <<>> \in Seq(Messages)
    OBVIOUS
  <2>2. QED
    BY <2>1, RecoveryCasesAssumption DEF Init, TypeOK, PaymentStatuses
<1>2. (\A p \in Actors : ActorShape(p)) /\ \A h \in Handlers : HandlerShape(h)
  BY ProcsApart DEF Init, ActorShape, HandlerShape
<1>3. RowLockExclusive
  BY ProcsApart DEF Init, RowLockExclusive, Holds, HoldingPcs
<1>4. OnlyRestingStates /\ RetryCap /\ RecoveredWasCaptured
  BY RecoveryCasesAssumption
     DEF Init, OnlyRestingStates, RetryCap, RecoveredWasCaptured, NoCase
<1>5. QED
  BY <1>1, <1>2, <1>3, <1>4 DEF IInv

\* No step breaks the invariant.
LEMMA NextKeepsIInv == IInv /\ [Next]_vars => IInv'
<1> SUFFICES ASSUME IInv, [Next]_vars PROVE IInv'
  OBVIOUS
<1>1. ASSUME NEW c \in Cases, NEW status \in PaymentStatuses, PaymentMovesOn(c, status)
      PROVE  IInv'
  BY <1>1, PaymentMovesOnKeepsInv
<1>2. ASSUME NEW h \in Handlers, NEW n \in Notices, Ingest(h, n)
      PROVE  IInv'
  BY <1>2, IngestKeepsInv
<1>3. ASSUME NEW h \in Handlers, Persist(h) \/ Publish(h) \/ LosePublish(h)
      PROVE  IInv'
  BY <1>3, PersistKeepsInv, PublishKeepsInv, LosePublishKeepsInv
<1>4. ASSUME NEW w \in Workers, Receive(w) \/ Ack(w) \/ Crash(w)
      PROVE  IInv'
  BY <1>4, ReceiveKeepsInv, AckKeepsInv, CrashKeepsInv
<1>5. ASSUME NEW r \in Reviewers, NEW c \in Cases, NEW kind \in ReviewKinds,
             Review(r, c, kind)
      PROVE  IInv'
  BY <1>5, ReviewKeepsInv
<1>6. ASSUME NEW p \in Actors, PipelineStep(p)
      PROVE  IInv'
  BY <1>6, AcquireRowKeepsInv, DecideKeepsInv, GateApprovesKeepsInv,
     GateStopsKeepsInv, ExecuteActionKeepsInv, RunVerificationKeepsInv,
     CommitKeepsInv DEF PipelineStep
<1>7. ASSUME NEW p \in Actors, Fail(p)
      PROVE  IInv'
  BY <1>7, FailKeepsInv
<1>8. CASE UNCHANGED vars
  <2>1. UNCHANGED <<dbVars, lock, mqVars, payVars, sessVars, crashes>>
    BY <1>8 DEF vars
  <2>2. TypeOK'
    BY <2>1 DEF IInv, TypeOK, dbVars, mqVars, payVars, sessVars
  <2>3. (\A p \in Actors : ActorShape(p)') /\ \A h \in Handlers : HandlerShape(h)'
    BY <2>1, ActorFrame, HandlerFrame DEF IInv, dbVars, payVars, sessVars
  <2>4. RowLockExclusive' /\ CommittedSafe'
    BY <2>1, CommittedFrame
       DEF IInv, RowLockExclusive, Holds, CommittedSafe, dbVars, payVars, sessVars
  <2>5. QED
    BY <2>2, <2>3, <2>4 DEF IInv, CommittedSafe
<1>9. QED
  BY <1>1, <1>2, <1>3, <1>4, <1>5, <1>6, <1>7, <1>8 DEF Next

\* The inductive invariant holds in every reachable state.
THEOREM SpecIInv == Spec => []IInv
BY InitIInv, NextKeepsIInv, PTL DEF Spec

\* Every variable keeps its type, for any number of processes.
THEOREM TypeCorrect == Spec => []TypeOK
<1>1. IInv => TypeOK
  BY DEF IInv
<1>2. QED
  BY <1>1, SpecIInv, PTL

\* with_for_update gives at most one session a case, and only that one.
THEOREM RowLockIsExclusive == Spec => []RowLockExclusive
<1>1. IInv => RowLockExclusive
  BY DEF IInv
<1>2. QED
  BY <1>1, SpecIInv, PTL

\* No reader ever finds a case in the middle of the pipeline, whatever fails.
THEOREM NoHalfDoneCase == Spec => []OnlyRestingStates
<1>1. IInv => OnlyRestingStates
  BY DEF IInv
<1>2. QED
  BY <1>1, SpecIInv, PTL

\* The policy's retry limit holds under every interleaving of any number of
\* workers and reviewers, although the gate's count and the commit of the
\* attempt it allows are different steps.
THEOREM RetryLimitHolds == Spec => []RetryCap
<1>1. IInv => RetryCap
  BY DEF IInv
<1>2. QED
  BY <1>1, SpecIInv, PTL

\* A case counts as recovered only if its payment was captured in full.
THEOREM RecoveredMeansCaptured == Spec => []RecoveredWasCaptured
<1>1. IInv => RecoveredWasCaptured
  BY DEF IInv
<1>2. QED
  BY <1>1, SpecIInv, PTL

-----------------------------------------------------------------------------
(***************************************************************************)
(* With at most one worker and one reviewer the sessions of RecoveryCases  *)
(* are serial: it implements CaseLifecycle, and the audit trail, the final *)
(* states and the single run of the pipeline follow.  The invariant says   *)
(* that the state a session started from is still the committed one, and   *)
(* which rows it has flushed at each point of its code.                    *)
(***************************************************************************)

\* The deployment these theorems are about.
OneOfEach ==
  /\ \A v, w \in Workers : v = w
  /\ \A r, s \in Reviewers : r = s

-----------------------------------------------------------------------------
(* Paths.                                                                  *)

\* Two paths that meet make one.
LEMMA PathConcat ==
  ASSUME NEW s \in Seq(CaseStates \cup {NoCase}), NEW t \in Seq(CaseStates),
         s # <<>>, IsPath(s), IsPath(<<s[Len(s)]>> \o t)
  PROVE  IsPath(s \o t)
<1> DEFINE u == <<s[Len(s)]>> \o t
<1>1. Len(s) \in Nat /\ Len(s) > 0 /\ Len(t) \in Nat /\ Len(s \o t) = Len(s) + Len(t)
  OBVIOUS
<1>2. s[Len(s)] \in CaseStates \cup {NoCase}
  BY <1>1
<1>3. Len(u) = Len(t) + 1 /\ u[1] = s[Len(s)]
      /\ \A j \in 1..Len(t) : u[j + 1] = t[j]
  BY <1>1, <1>2
<1>4. SUFFICES ASSUME NEW i \in 1..(Len(s) + Len(t) - 1)
               PROVE  IsAllowed((s \o t)[i], (s \o t)[i + 1])
  BY <1>1 DEF IsPath
<1>5. CASE i < Len(s)
  <2>1. (s \o t)[i] = s[i] /\ (s \o t)[i + 1] = s[i + 1] /\ i \in 1..(Len(s) - 1)
    BY <1>1, <1>5
  <2>2. QED
    BY <2>1 DEF IsPath
<1>6. CASE i = Len(s)
  <2>1. (s \o t)[i] = u[1] /\ (s \o t)[i + 1] = t[1] /\ 1 \in 1..Len(t)
    BY <1>1, <1>3, <1>6
  <2>2. u[1 + 1] = t[1] /\ 1 \in 1..(Len(u) - 1)
    BY <1>1, <1>3, <2>1
  <2>3. IsAllowed(u[1], u[1 + 1])
    BY <2>2 DEF IsPath
  <2>4. QED
    BY <2>1, <2>2, <2>3
<1>7. CASE i > Len(s)
  <2> DEFINE j == i - Len(s)
  <2>1. /\ j \in 1..Len(t) /\ j + 1 \in 1..Len(t) /\ j + 1 \in 1..(Len(u) - 1)
        /\ (s \o t)[i] = t[j] /\ (s \o t)[i + 1] = t[j + 1]
    <3>1. i \in Int /\ i \in 1..Len(s \o t) /\ i + 1 \in 1..Len(s \o t) /\ i + 1 > Len(s)
      BY <1>1, <1>7
    <3>2. j \in 1..Len(t) /\ j + 1 \in 1..Len(t)
      BY <1>1, <1>7
    <3>3. j + 1 \in 1..(Len(u) - 1)
      BY <1>1, <1>3, <3>2
    <3>4. (s \o t)[i] = t[j]
      BY <1>1, <1>7, <3>1
    <3>5. (s \o t)[i + 1] = t[(i + 1) - Len(s)]
      BY <1>1, <3>1
    <3>6. (i + 1) - Len(s) = j + 1
      BY <1>1, <3>1
    <3>7. QED
      BY <3>2, <3>3, <3>4, <3>5, <3>6
  <2>2. u[j + 1] = t[j] /\ u[(j + 1) + 1] = t[j + 1]
    BY <1>3, <2>1
  <2>3. IsAllowed(u[j + 1], u[(j + 1) + 1])
    BY <2>1 DEF IsPath
  <2>4. QED
    BY <2>1, <2>2, <2>3
<1>8. QED
  BY <1>1, <1>5, <1>6, <1>7

\* What a complete job adds to the audit trail of a case in `state`: a path
\* from there to another state, with SCREENING in it only if it is the
\* pipeline, and only at its start.
CompleteJob(state, t) ==
  /\ t \in Seq(CaseStates)
  /\ t # <<>>
  /\ t[Len(t)] \in CaseStates \ { "RECEIVED" }
  /\ IsPath(<<state>> \o t)
  /\ \A i \in 1..Len(t) : t[i] = "SCREENING" => i = 1 /\ state = "RECEIVED"

\* A run of the pipeline leads from RECEIVED to a resting state.
LEMMA PipelineJobIsComplete ==
  ASSUME NEW t \in Lifecycle!PipelineJobs
  PROVE  CompleteJob("RECEIVED", t)
<1>1. CASE t = <<"SCREENING", "DIAGNOSING", "ELIGIBILITY_CHECK", "DECISION",
                 "ACTION_PENDING", "STOPPED">>
  <2>1. t \in Seq(CaseStates) /\ Len(t) = 6
    BY <1>1 DEF CaseStates
  <2>2. IsPath(<<"RECEIVED">> \o t)
    BY <1>1 DEF IsPath, IsAllowed, AllowedTransitions, NoCase
  <2>3. QED
    BY <1>1, <2>1, <2>2 DEF CompleteJob, CaseStates
<1>2. CASE t = <<"SCREENING", "DIAGNOSING", "ELIGIBILITY_CHECK", "DECISION",
                 "ACTION_PENDING", "ACTION_EXECUTED", "VERIFICATION_PENDING">>
  <2>1. t \in Seq(CaseStates) /\ Len(t) = 7
    BY <1>2 DEF CaseStates
  <2>2. IsPath(<<"RECEIVED">> \o t)
    BY <1>2 DEF IsPath, IsAllowed, AllowedTransitions, NoCase
  <2>3. QED
    BY <1>2, <2>1, <2>2 DEF CompleteJob, CaseStates
<1>3. CASE t = <<"SCREENING", "DIAGNOSING", "ELIGIBILITY_CHECK", "DECISION",
                 "ACTION_PENDING", "ACTION_EXECUTED", "VERIFICATION_PENDING", "RECOVERED">>
  <2>1. t \in Seq(CaseStates) /\ Len(t) = 8
    BY <1>3 DEF CaseStates
  <2>2. IsPath(<<"RECEIVED">> \o t)
    BY <1>3 DEF IsPath, IsAllowed, AllowedTransitions, NoCase
  <2>3. QED
    BY <1>3, <2>1, <2>2 DEF CompleteJob, CaseStates
<1>4. CASE t = <<"SCREENING", "DIAGNOSING", "ELIGIBILITY_CHECK", "DECISION",
                 "ACTION_PENDING", "ACTION_EXECUTED", "VERIFICATION_PENDING", "FAILED">>
  <2>1. t \in Seq(CaseStates) /\ Len(t) = 8
    BY <1>4 DEF CaseStates
  <2>2. IsPath(<<"RECEIVED">> \o t)
    BY <1>4 DEF IsPath, IsAllowed, AllowedTransitions, NoCase
  <2>3. QED
    BY <1>4, <2>1, <2>2 DEF CompleteJob, CaseStates
<1>5. CASE t = <<"SCREENING", "DIAGNOSING", "ELIGIBILITY_CHECK", "DECISION",
                 "ACTION_PENDING", "ACTION_EXECUTED", "VERIFICATION_PENDING", "ESCALATED">>
  <2>1. t \in Seq(CaseStates) /\ Len(t) = 8
    BY <1>5 DEF CaseStates
  <2>2. IsPath(<<"RECEIVED">> \o t)
    BY <1>5 DEF IsPath, IsAllowed, AllowedTransitions, NoCase
  <2>3. QED
    BY <1>5, <2>1, <2>2 DEF CompleteJob, CaseStates
<1>6. QED
  BY <1>1, <1>2, <1>3, <1>4, <1>5
     DEF Lifecycle!PipelineJobs, Lifecycle!Gated, Lifecycle!Verified, Lifecycle!Verdicts

\* A reconciliation leads from FAILED to a verdict, or waits for one.
LEMMA ReconcileJobIsComplete ==
  ASSUME NEW t \in Lifecycle!ReconcileJobs
  PROVE  CompleteJob("FAILED", t)
<1>1. CASE t = <<"VERIFICATION_PENDING">>
  <2>1. t \in Seq(CaseStates) /\ Len(t) = 1
    BY <1>1 DEF CaseStates
  <2>2. IsPath(<<"FAILED">> \o t)
    BY <1>1 DEF IsPath, IsAllowed, AllowedTransitions, NoCase
  <2>3. QED
    BY <1>1, <2>1, <2>2 DEF CompleteJob, CaseStates
<1>2. CASE t = <<"VERIFICATION_PENDING", "RECOVERED">>
  <2>1. t \in Seq(CaseStates) /\ Len(t) = 2
    BY <1>2 DEF CaseStates
  <2>2. IsPath(<<"FAILED">> \o t)
    BY <1>2 DEF IsPath, IsAllowed, AllowedTransitions, NoCase
  <2>3. QED
    BY <1>2, <2>1, <2>2 DEF CompleteJob, CaseStates
<1>3. CASE t = <<"VERIFICATION_PENDING", "FAILED">>
  <2>1. t \in Seq(CaseStates) /\ Len(t) = 2
    BY <1>3 DEF CaseStates
  <2>2. IsPath(<<"FAILED">> \o t)
    BY <1>3 DEF IsPath, IsAllowed, AllowedTransitions, NoCase
  <2>3. QED
    BY <1>3, <2>1, <2>2 DEF CompleteJob, CaseStates
<1>4. CASE t = <<"VERIFICATION_PENDING", "ESCALATED">>
  <2>1. t \in Seq(CaseStates) /\ Len(t) = 2
    BY <1>4 DEF CaseStates
  <2>2. IsPath(<<"FAILED">> \o t)
    BY <1>4 DEF IsPath, IsAllowed, AllowedTransitions, NoCase
  <2>3. QED
    BY <1>4, <2>1, <2>2 DEF CompleteJob, CaseStates
<1>5. QED
  BY <1>1, <1>2, <1>3, <1>4
     DEF Lifecycle!ReconcileJobs, Lifecycle!Verified, Lifecycle!Verdicts

\* A review leads from ESCALATED through the gate, or to a rejection.
LEMMA ReviewJobIsComplete ==
  ASSUME NEW t \in Lifecycle!ReviewJobs
  PROVE  CompleteJob("ESCALATED", t)
<1>1. CASE t = <<"STOPPED">>
  <2>1. t \in Seq(CaseStates) /\ Len(t) = 1
    BY <1>1 DEF CaseStates
  <2>2. IsPath(<<"ESCALATED">> \o t)
    BY <1>1 DEF IsPath, IsAllowed, AllowedTransitions, NoCase
  <2>3. QED
    BY <1>1, <2>1, <2>2 DEF CompleteJob, CaseStates
<1>2. CASE t = <<"ACTION_PENDING", "STOPPED">>
  <2>1. t \in Seq(CaseStates) /\ Len(t) = 2
    BY <1>2 DEF CaseStates
  <2>2. IsPath(<<"ESCALATED">> \o t)
    BY <1>2 DEF IsPath, IsAllowed, AllowedTransitions, NoCase
  <2>3. QED
    BY <1>2, <2>1, <2>2 DEF CompleteJob, CaseStates
<1>3. CASE t = <<"ACTION_PENDING", "ACTION_EXECUTED", "VERIFICATION_PENDING">>
  <2>1. t \in Seq(CaseStates) /\ Len(t) = 3
    BY <1>3 DEF CaseStates
  <2>2. IsPath(<<"ESCALATED">> \o t)
    BY <1>3 DEF IsPath, IsAllowed, AllowedTransitions, NoCase
  <2>3. QED
    BY <1>3, <2>1, <2>2 DEF CompleteJob, CaseStates
<1>4. CASE t = <<"ACTION_PENDING", "ACTION_EXECUTED", "VERIFICATION_PENDING",
               "RECOVERED">>
  <2>1. t \in Seq(CaseStates) /\ Len(t) = 4
    BY <1>4 DEF CaseStates
  <2>2. IsPath(<<"ESCALATED">> \o t)
    BY <1>4 DEF IsPath, IsAllowed, AllowedTransitions, NoCase
  <2>3. QED
    BY <1>4, <2>1, <2>2 DEF CompleteJob, CaseStates
<1>5. CASE t = <<"ACTION_PENDING", "ACTION_EXECUTED", "VERIFICATION_PENDING",
               "FAILED">>
  <2>1. t \in Seq(CaseStates) /\ Len(t) = 4
    BY <1>5 DEF CaseStates
  <2>2. IsPath(<<"ESCALATED">> \o t)
    BY <1>5 DEF IsPath, IsAllowed, AllowedTransitions, NoCase
  <2>3. QED
    BY <1>5, <2>1, <2>2 DEF CompleteJob, CaseStates
<1>6. CASE t = <<"ACTION_PENDING", "ACTION_EXECUTED", "VERIFICATION_PENDING",
               "ESCALATED">>
  <2>1. t \in Seq(CaseStates) /\ Len(t) = 4
    BY <1>6 DEF CaseStates
  <2>2. IsPath(<<"ESCALATED">> \o t)
    BY <1>6 DEF IsPath, IsAllowed, AllowedTransitions, NoCase
  <2>3. QED
    BY <1>6, <2>1, <2>2 DEF CompleteJob, CaseStates
<1>7. QED
  BY <1>1, <1>2, <1>3, <1>4, <1>5, <1>6
     DEF Lifecycle!ReviewJobs, Lifecycle!Gated, Lifecycle!Verified, Lifecycle!Verdicts

\* Every job that may be given to a case is complete.
LEMMA JobIsComplete ==
  ASSUME NEW state, NEW t \in Lifecycle!JobsFrom(state)
  PROVE  CompleteJob(state, t)
<1>1. CASE state = "RECEIVED"
  BY <1>1, PipelineJobIsComplete DEF Lifecycle!JobsFrom
<1>2. CASE state = "FAILED"
  BY <1>2, ReconcileJobIsComplete DEF Lifecycle!JobsFrom
<1>3. CASE state = "ESCALATED"
  BY <1>3, ReviewJobIsComplete DEF Lifecycle!JobsFrom
<1>4. CASE state \notin { "RECEIVED", "FAILED", "ESCALATED" }
  BY <1>4 DEF Lifecycle!JobsFrom
<1>5. QED
  BY <1>1, <1>2, <1>3, <1>4

-----------------------------------------------------------------------------
(* The invariant.                                                          *)

\* The rows a job has flushed when it comes to the gate, and when it comes to
\* the verification.
GateRows(kind) ==
  IF kind = "process"
    THEN <<"SCREENING", "DIAGNOSING", "ELIGIBILITY_CHECK", "DECISION", "ACTION_PENDING">>
    ELSE <<"ACTION_PENDING">>

VerifyRows(kind) ==
  IF kind = "reconcile"
    THEN <<"VERIFICATION_PENDING">>
    ELSE GateRows(kind) \o <<"ACTION_EXECUTED", "VERIFICATION_PENDING">>

GatedKinds   == { "process", "APPROVE", "OVERRIDE" }
VerifiedKinds == GatedKinds \cup { "reconcile" }

\* The committed state is the one the session read, and the flushed rows are
\* the beginning of one of the jobs that start there.
SessionSerial(p) ==
  LET k == job[p].kind IN
  /\ p \in Reviewers /\ pc[p] # "idle" => k \in ReviewKinds
  /\ InSession(p) => caseState[job[p].case] = EntryState(k)
  /\ pc[p] \in { "idle", "lock" } => rows[p] = <<>>
  /\ pc[p] = "decide" => rows[p] = EntryPath("process")
  /\ pc[p] \in { "gate", "execute" } => k \in GatedKinds /\ rows[p] = GateRows(k)
  /\ pc[p] = "verify" => k \in VerifiedKinds /\ rows[p] = VerifyRows(k)
  /\ pc[p] = "commit" =>
       /\ rows[p] \in Lifecycle!JobsFrom(EntryState(k))
       /\ view[p] = rows[p][Len(rows[p])]

Serial ==
  /\ IInv
  /\ OneOfEach
  /\ \A p \in Actors : SessionSerial(p)

\* At the gate and at the verification a job is one step from being complete.
LEMMA JobsEnd ==
  ASSUME NEW k
  PROVE  /\ k \in GatedKinds =>
              Lifecycle!Gated(GateRows(k)) \subseteq Lifecycle!JobsFrom(EntryState(k))
         /\ k \in VerifiedKinds =>
              Lifecycle!Verified(VerifyRows(k)) \subseteq Lifecycle!JobsFrom(EntryState(k))
<1>1. CASE k = "process"
  <2>1. EntryState(k) = "RECEIVED"
    BY <1>1 DEF EntryState, ReviewKinds
  <2>2. Lifecycle!JobsFrom("RECEIVED") = Lifecycle!Gated(GateRows(k))
    BY <1>1 DEF Lifecycle!JobsFrom, Lifecycle!PipelineJobs, GateRows
  <2>3. Lifecycle!Verified(VerifyRows(k)) \subseteq Lifecycle!Gated(GateRows(k))
    BY <1>1 DEF VerifyRows, Lifecycle!Gated
  <2>4. QED
    BY <2>1, <2>2, <2>3
<1>2. CASE k \in { "APPROVE", "OVERRIDE" }
  <2>1. EntryState(k) = "ESCALATED"
    BY <1>2 DEF EntryState, ReviewKinds
  <2>2. Lifecycle!Gated(GateRows(k)) \subseteq Lifecycle!JobsFrom("ESCALATED")
    BY <1>2 DEF Lifecycle!JobsFrom, Lifecycle!ReviewJobs, GateRows
  <2>3. Lifecycle!Verified(VerifyRows(k)) \subseteq Lifecycle!Gated(GateRows(k))
    BY <1>2 DEF VerifyRows, Lifecycle!Gated
  <2>4. QED
    BY <2>1, <2>2, <2>3
<1>3. CASE k = "reconcile"
  <2>1. EntryState(k) = "FAILED"
    BY <1>3 DEF EntryState, ReviewKinds
  <2>2. Lifecycle!JobsFrom("FAILED") = Lifecycle!Verified(VerifyRows(k))
    BY <1>3 DEF Lifecycle!JobsFrom, Lifecycle!ReconcileJobs, VerifyRows
  <2>3. k \notin GatedKinds
    BY <1>3 DEF GatedKinds
  <2>4. QED
    BY <2>1, <2>2, <2>3
<1>4. QED
  BY <1>1, <1>2, <1>3 DEF GatedKinds, VerifiedKinds

\* A session that a step does not touch stays as it is.
LEMMA SessionFrame ==
  ASSUME NEW q \in Actors, SessionSerial(q),
         pc'[q] = pc[q], job'[q] = job[q], view'[q] = view[q], rows'[q] = rows[q],
         InSession(q) => caseState'[job[q].case] = caseState[job[q].case]
  PROVE  SessionSerial(q)'
BY DEF SessionSerial, InSession

\* Nor does one of another process that leaves the committed state alone.
LEMMA OthersKeep ==
  ASSUME Serial, NEW p \in Procs,
         p \in Actors => SessionSerial(p)',
         UNCHANGED caseState,
         \A q \in Procs : q # p =>
           /\ pc'[q] = pc[q] /\ job'[q] = job[q]
           /\ view'[q] = view[q] /\ rows'[q] = rows[q]
  PROVE  \A q \in Actors : SessionSerial(q)'
<1>1. TAKE q \in Actors
<1>2. CASE q = p
  BY <1>2
<1>3. CASE q # p
  BY <1>3, ProcsApart, SessionFrame DEF Serial
<1>4. QED
  BY <1>2, <1>3

\* An ended session has no rows.
LEMMA EndedIsSerial ==
  ASSUME Serial, NEW p \in Procs, EndSession(p), UNCHANGED caseState
  PROVE  \A q \in Actors : SessionSerial(q)'
<1>1. TypeOK
  BY DEF Serial, IInv
<1>2. pc'[p] = "idle" /\ rows'[p] = <<>>
  BY <1>1 DEF EndSession, TypeOK
<1>3. p \in Actors => SessionSerial(p)'
  BY <1>2 DEF SessionSerial, InSession, SessionPcs, HoldingPcs
<1>4. QED
  BY <1>1, <1>3, OthersKeep DEF EndSession, TypeOK

-----------------------------------------------------------------------------
(* Steps inside a transaction.                                             *)

LEMMA AppendIsOneMore ==
  ASSUME NEW s \in Seq(CaseStates), NEW e \in CaseStates
  PROVE  s \o <<e>> = Append(s, e)
OBVIOUS

LEMMA LastOfConcat ==
  ASSUME NEW s \in Seq(CaseStates), NEW t \in Seq(CaseStates), t # <<>>
  PROVE  (s \o t)[Len(s \o t)] = t[Len(t)]
<1>1. Len(s) \in Nat /\ Len(t) \in Nat /\ Len(t) > 0 /\ Len(s \o t) = Len(s) + Len(t)
  OBVIOUS
<1>2. QED
  BY <1>1

LEMMA GateRowsIsSeq ==
  ASSUME NEW kind
  PROVE  GateRows(kind) \in Seq(CaseStates)
<1>1. <<"SCREENING", "DIAGNOSING", "ELIGIBILITY_CHECK", "DECISION", "ACTION_PENDING">>
      \in Seq(CaseStates)
  BY DEF CaseStates
<1>2. <<"ACTION_PENDING">> \in Seq(CaseStates)
  BY DEF CaseStates
<1>3. CASE kind = "process"
  BY <1>1, <1>3 DEF GateRows
<1>4. CASE kind # "process"
  BY <1>2, <1>4 DEF GateRows
<1>5. QED
  BY <1>3, <1>4

\* What a walk does to the rows and the view of its session, and of others.
LEMMA WalkRows ==
  ASSUME TypeOK, NEW p \in Procs, NEW path, Walk(p, path)
  PROVE  /\ rows'[p] = rows[p] \o path
         /\ view'[p] = path[Len(path)]
         /\ \A q \in Procs : q # p => view'[q] = view[q] /\ rows'[q] = rows[q]
BY DEF Walk, TypeOK

\* The entry path is the first part of a job, or all of a rejection.
LEMMA AcquireRowIsSerial ==
  ASSUME Serial, NEW p \in Actors, AcquireRow(p)
  PROVE  \A q \in Actors : SessionSerial(q)'
<1> DEFINE k == job[p].kind
<1>1. /\ p \in Procs /\ TypeOK /\ SessionSerial(p) /\ ActorShape(p)
      /\ pc[p] = "lock" /\ Walk(p, EntryPath(k)) /\ pc' = [pc EXCEPT ![p] = AfterEntry(k)]
      /\ UNCHANGED <<caseState, job>>
  BY ProcsApart DEF Serial, IInv, AcquireRow, dbVars
<1>2. k \in MessageKinds \cup ReviewKinds
  BY <1>1 DEF ActorShape, Jobs
<1>3. rows'[p] = EntryPath(k) /\ view'[p] = EntryPath(k)[Len(EntryPath(k))]
  <2>1. EntryPath(k) \in Seq(CaseStates)
    BY <1>2, EntryPathIsSeq
  <2>2. rows'[p] = rows[p] \o EntryPath(k) /\ view'[p] = EntryPath(k)[Len(EntryPath(k))]
    BY <1>1, WalkRows
  <2>3. rows[p] = <<>>
    BY <1>1 DEF SessionSerial
  <2>4. <<>> \o EntryPath(k) = EntryPath(k)
    BY <2>1
  <2>5. QED
    BY <2>2, <2>3, <2>4
<1>4. pc'[p] = AfterEntry(k) /\ job'[p] = job[p] /\ caseState' = caseState
      /\ caseState[job[p].case] = EntryState(k)
      /\ (p \in Reviewers => k \in ReviewKinds)
  BY <1>1 DEF TypeOK, SessionSerial, InSession, SessionPcs
<1>5. SessionSerial(p)'
  <2>1. CASE k = "process"
    <3>1. pc'[p] = "decide" /\ rows'[p] = EntryPath("process")
      BY <1>3, <1>4, <2>1 DEF AfterEntry
    <3>2. QED
      BY <1>4, <3>1 DEF SessionSerial
  <2>2. CASE k = "reconcile"
    <3>1. pc'[p] = "verify" /\ rows'[p] = VerifyRows(k) /\ k \in VerifiedKinds
      BY <1>3, <1>4, <2>2 DEF AfterEntry, EntryPath, VerifyRows, VerifiedKinds
    <3>2. QED
      BY <1>4, <3>1 DEF SessionSerial
  <2>3. CASE k = "REJECT"
    <3>1. pc'[p] = "commit" /\ rows'[p] = <<"STOPPED">>
      BY <1>3, <1>4, <2>3 DEF AfterEntry, EntryPath
    <3>2. EntryState(k) = "ESCALATED" /\ <<"STOPPED">> \in Lifecycle!JobsFrom("ESCALATED")
      BY <2>3 DEF EntryState, ReviewKinds, Lifecycle!JobsFrom, Lifecycle!ReviewJobs
    <3>3. view'[p] = rows'[p][Len(rows'[p])]
      BY <1>3
    <3>4. QED
      BY <1>4, <3>1, <3>2, <3>3 DEF SessionSerial
  <2>4. CASE k \in { "APPROVE", "OVERRIDE" }
    <3>1. pc'[p] = "gate" /\ rows'[p] = GateRows(k) /\ k \in GatedKinds
      BY <1>3, <1>4, <2>4 DEF AfterEntry, EntryPath, GateRows, GatedKinds
    <3>2. QED
      BY <1>4, <3>1 DEF SessionSerial
  <2>5. QED
    BY <1>2, <2>1, <2>2, <2>3, <2>4 DEF MessageKinds, ReviewKinds
<1>6. QED
  BY <1>1, <1>5, OthersKeep, WalkRows DEF TypeOK

\* The pipeline comes to the gate with its six rows but one.
LEMMA DecideIsSerial ==
  ASSUME Serial, NEW w \in Actors, Decide(w)
  PROVE  \A q \in Actors : SessionSerial(q)'
<1>1. /\ w \in Procs /\ TypeOK /\ SessionSerial(w) /\ ActorShape(w)
      /\ pc[w] = "decide" /\ Walk(w, <<"ACTION_PENDING">>)
      /\ pc' = [pc EXCEPT ![w] = "gate"] /\ UNCHANGED <<caseState, job>>
  BY ProcsApart DEF Serial, IInv, Decide, dbVars
<1>2. job[w].kind = "process" /\ rows[w] = EntryPath("process")
  BY <1>1 DEF SessionSerial, ActorShape
<1>3. EntryPath("process") \o <<"ACTION_PENDING">> = GateRows("process")
  <2>1. EntryPath("process") = <<"SCREENING", "DIAGNOSING", "ELIGIBILITY_CHECK", "DECISION">>
    BY DEF EntryPath
  <2>2. <<"SCREENING", "DIAGNOSING", "ELIGIBILITY_CHECK", "DECISION">> \o <<"ACTION_PENDING">>
        = <<"SCREENING", "DIAGNOSING", "ELIGIBILITY_CHECK", "DECISION", "ACTION_PENDING">>
    <3> DEFINE x == <<"SCREENING", "DIAGNOSING", "ELIGIBILITY_CHECK", "DECISION">>
                    \o <<"ACTION_PENDING">>
    <3>1. x \in {<<"SCREENING", "DIAGNOSING", "ELIGIBILITY_CHECK", "DECISION">>
                 \o <<"ACTION_PENDING">>}
      OBVIOUS
    <3> HIDE DEF x
    <3>2. x = <<"SCREENING", "DIAGNOSING", "ELIGIBILITY_CHECK", "DECISION", "ACTION_PENDING">>
      BY <3>1
    <3>3. QED
      BY <3>2 DEF x
  <2>3. QED
    BY <2>1, <2>2 DEF GateRows
<1>4. SessionSerial(w)'
  <2>1. pc'[w] = "gate" /\ rows'[w] = GateRows("process") /\ job'[w] = job[w]
    <3>1. rows'[w] = rows[w] \o <<"ACTION_PENDING">>
      BY <1>1, WalkRows
    <3>2. QED
      BY <1>1, <1>2, <1>3, <3>1 DEF TypeOK
  <2>2. caseState'[job[w].case] = EntryState("process")
    BY <1>1, <1>2 DEF SessionSerial, InSession, SessionPcs, HoldingPcs
  <2>3. "process" \in GatedKinds
    BY DEF GatedKinds
  <2>4. w \in Reviewers => "process" \in ReviewKinds
    BY <1>1, <1>2 DEF SessionSerial
  <2>5. QED
    BY <1>2, <2>1, <2>2, <2>3, <2>4 DEF SessionSerial
<1>5. QED
  BY <1>1, <1>4, OthersKeep, WalkRows DEF TypeOK

\* An approval adds no row.
LEMMA GateApprovesIsSerial ==
  ASSUME Serial, NEW p \in Actors, GateApproves(p)
  PROVE  \A q \in Actors : SessionSerial(q)'
<1>1. /\ p \in Procs /\ TypeOK /\ SessionSerial(p) /\ pc[p] = "gate"
      /\ pc' = [pc EXCEPT ![p] = "execute"] /\ UNCHANGED <<caseState, job, view, rows>>
  BY ProcsApart DEF Serial, IInv, GateApproves, dbVars
<1>2. SessionSerial(p)'
  BY <1>1 DEF SessionSerial, InSession, SessionPcs, HoldingPcs, TypeOK
<1>3. QED
  BY <1>1, <1>2, OthersKeep DEF TypeOK

\* A refusal ends the job in STOPPED.
LEMMA GateStopsIsSerial ==
  ASSUME Serial, NEW p \in Actors, GateStops(p)
  PROVE  \A q \in Actors : SessionSerial(q)'
<1> DEFINE k == job[p].kind
<1>1. /\ p \in Procs /\ TypeOK /\ SessionSerial(p) /\ pc[p] = "gate"
      /\ Walk(p, <<"STOPPED">>) /\ pc' = [pc EXCEPT ![p] = "commit"]
      /\ UNCHANGED <<caseState, job>>
  BY ProcsApart DEF Serial, IInv, GateStops, dbVars
<1>2. k \in GatedKinds /\ rows[p] = GateRows(k) /\ rows[p] \in Seq(CaseStates)
  BY <1>1 DEF SessionSerial, TypeOK
<1>3. rows'[p] = Append(GateRows(k), "STOPPED") /\ view'[p] = "STOPPED"
  <2>1. rows'[p] = rows[p] \o <<"STOPPED">> /\ view'[p] = "STOPPED"
    BY <1>1, WalkRows
  <2>2. rows[p] \o <<"STOPPED">> = Append(rows[p], "STOPPED")
    BY <1>2, AppendIsOneMore DEF CaseStates
  <2>3. QED
    BY <1>2, <2>1, <2>2
<1>4. SessionSerial(p)'
  <2>1. Append(GateRows(k), "STOPPED") \in Lifecycle!JobsFrom(EntryState(k))
    BY <1>2, JobsEnd DEF Lifecycle!Gated
  <2>2. view'[p] = rows'[p][Len(rows'[p])]
    BY <1>2, <1>3
  <2>3. pc'[p] = "commit" /\ job'[p] = job[p] /\ caseState' = caseState
        /\ caseState[job[p].case] = EntryState(k) /\ (p \in Reviewers => k \in ReviewKinds)
    BY <1>1 DEF SessionSerial, InSession, SessionPcs, HoldingPcs, TypeOK
  <2>4. QED
    BY <1>3, <2>1, <2>2, <2>3 DEF SessionSerial
<1>5. QED
  BY <1>1, <1>4, OthersKeep, WalkRows DEF TypeOK

\* An executed action leads to its verification.
LEMMA ExecuteActionIsSerial ==
  ASSUME Serial, NEW p \in Actors, ExecuteAction(p)
  PROVE  \A q \in Actors : SessionSerial(q)'
<1> DEFINE k == job[p].kind
<1>1. /\ p \in Procs /\ TypeOK /\ SessionSerial(p) /\ pc[p] = "execute"
      /\ Walk(p, <<"ACTION_EXECUTED", "VERIFICATION_PENDING">>)
      /\ pc' = [pc EXCEPT ![p] = "verify"] /\ UNCHANGED <<caseState, job>>
  BY ProcsApart DEF Serial, IInv, ExecuteAction, dbVars
<1>2. k \in GatedKinds /\ rows[p] = GateRows(k)
  BY <1>1 DEF SessionSerial
<1>3. rows'[p] = VerifyRows(k) /\ k \in VerifiedKinds
  BY <1>1, <1>2, WalkRows DEF VerifyRows, VerifiedKinds, GatedKinds
<1>4. SessionSerial(p)'
  <2>1. pc'[p] = "verify" /\ job'[p] = job[p] /\ caseState' = caseState
        /\ caseState[job[p].case] = EntryState(k) /\ (p \in Reviewers => k \in ReviewKinds)
    BY <1>1 DEF SessionSerial, InSession, SessionPcs, HoldingPcs, TypeOK
  <2>2. QED
    BY <1>3, <2>1 DEF SessionSerial
<1>5. QED
  BY <1>1, <1>4, OthersKeep, WalkRows DEF TypeOK

\* The verification ends the job with its verdict, or without one.
LEMMA RunVerificationIsSerial ==
  ASSUME Serial, NEW p \in Actors, RunVerification(p)
  PROVE  \A q \in Actors : SessionSerial(q)'
<1> DEFINE k == job[p].kind
<1>1. /\ p \in Procs /\ TypeOK /\ SessionSerial(p) /\ ActorShape(p)
      /\ pc[p] = "verify" /\ view[p] = "VERIFICATION_PENDING"
      /\ pc' = [pc EXCEPT ![p] = "commit"] /\ UNCHANGED <<caseState, job>>
  BY ProcsApart DEF Serial, IInv, RunVerification, dbVars
<1>2. /\ k \in VerifiedKinds /\ rows[p] = VerifyRows(k) /\ rows[p] \in Seq(CaseStates)
      /\ VerifyRows(k)[Len(VerifyRows(k))] = "VERIFICATION_PENDING"
  <2>1. k \in VerifiedKinds /\ rows[p] = VerifyRows(k) /\ rows[p] \in Seq(CaseStates)
    BY <1>1 DEF SessionSerial, TypeOK
  <2>2. CASE k = "reconcile"
    BY <2>1, <2>2 DEF VerifyRows
  <2>3. CASE k # "reconcile"
    <3> DEFINE t == <<"ACTION_EXECUTED", "VERIFICATION_PENDING">>
    <3>1. GateRows(k) \in Seq(CaseStates)
      BY GateRowsIsSeq
    <3>2. t \in Seq(CaseStates) /\ t # <<>> /\ t[Len(t)] = "VERIFICATION_PENDING"
      BY DEF CaseStates
    <3>3. VerifyRows(k) = GateRows(k) \o t
      BY <2>3 DEF VerifyRows
    <3>4. (GateRows(k) \o t)[Len(GateRows(k) \o t)] = t[Len(t)]
      BY <3>1, <3>2, LastOfConcat
    <3>5. QED
      BY <2>1, <3>2, <3>3, <3>4
  <2>4. QED
    BY <2>1, <2>2, <2>3
<1>3. PICK outcome \in { Classify(payment[job[p].case]), "ERROR" } :
        IF outcome \in { "STILL_PENDING", "ERROR" }
          THEN UNCHANGED <<view, rows>>
          ELSE Walk(p, <<outcome>>)
  BY DEF RunVerification
<1>4. outcome \notin { "STILL_PENDING", "ERROR" } => outcome \in Lifecycle!Verdicts
  <2>1. payment[job[p].case] \in PaymentStatuses
    BY <1>1 DEF ActorShape, Jobs, TypeOK
  <2>2. QED
    BY <2>1, ClassifyRecovered DEF Lifecycle!Verdicts
<1>5. /\ rows'[p] \in Lifecycle!Verified(VerifyRows(k))
      /\ view'[p] = rows'[p][Len(rows'[p])]
      /\ \A q \in Procs : q # p => view'[q] = view[q] /\ rows'[q] = rows[q]
  <2>1. CASE outcome \in { "STILL_PENDING", "ERROR" }
    BY <1>1, <1>2, <1>3, <2>1 DEF Lifecycle!Verified
  <2>2. CASE outcome \notin { "STILL_PENDING", "ERROR" }
    <3>1. outcome \in CaseStates
      BY <1>4, <2>2 DEF CaseStates, Lifecycle!Verdicts
    <3>2. rows'[p] = Append(VerifyRows(k), outcome) /\ view'[p] = outcome
      <4>1. Walk(p, <<outcome>>)
        BY <1>3, <2>2
      <4>2. rows'[p] = rows[p] \o <<outcome>> /\ view'[p] = <<outcome>>[Len(<<outcome>>)]
        BY <1>1, <4>1, WalkRows
      <4>3. rows[p] \o <<outcome>> = Append(rows[p], outcome)
        BY <1>2, <3>1, AppendIsOneMore
      <4>4. QED
        BY <1>2, <4>2, <4>3
    <3>3. rows'[p][Len(rows'[p])] = outcome
      BY <1>2, <3>1, <3>2
    <3>4. QED
      BY <1>1, <1>3, <1>4, <2>2, <3>2, <3>3, WalkRows DEF Lifecycle!Verified
  <2>3. QED
    BY <2>1, <2>2
<1>6. SessionSerial(p)'
  <2>1. pc'[p] = "commit" /\ job'[p] = job[p] /\ caseState' = caseState
        /\ caseState[job[p].case] = EntryState(k) /\ (p \in Reviewers => k \in ReviewKinds)
    BY <1>1 DEF SessionSerial, InSession, SessionPcs, HoldingPcs, TypeOK
  <2>2. rows'[p] \in Lifecycle!JobsFrom(EntryState(k))
    BY <1>2, <1>5, JobsEnd
  <2>3. QED
    BY <1>5, <2>1, <2>2 DEF SessionSerial
<1>7. QED
  BY <1>1, <1>5, <1>6, OthersKeep DEF TypeOK

-----------------------------------------------------------------------------
(* Steps that end a transaction, and steps outside of one.                 *)

\* Two sessions are never about the same case: a worker's finds it RECEIVED or
\* FAILED, a reviewer's ESCALATED.
LEMMA SessionsApart ==
  ASSUME Serial, NEW p \in Actors, NEW q \in Actors,
         InSession(p), InSession(q), job[p].case = job[q].case
  PROVE  p = q
<1>1. EntryState(job[p].kind) = EntryState(job[q].kind)
  BY DEF Serial, SessionSerial
<1>2. \A r \in Actors : InSession(r) => pc[r] # "idle"
  BY DEF InSession, SessionPcs, HoldingPcs
<1>3. \A r \in Workers : InSession(r) => EntryState(job[r].kind) \in { "RECEIVED", "FAILED" }
  <2>1. TAKE r \in Workers
  <2>2. HAVE InSession(r)
  <2>3. r \in Actors /\ ActorShape(r)
    BY DEF Actors, Serial, IInv
  <2>4. job[r].kind \in MessageKinds
    BY <1>2, <2>2, <2>3 DEF ActorShape, Messages
  <2>5. QED
    BY <2>4 DEF EntryState, MessageKinds, ReviewKinds
<1>4. \A r \in Reviewers : InSession(r) => EntryState(job[r].kind) = "ESCALATED"
  <2>1. TAKE r \in Reviewers
  <2>2. HAVE InSession(r)
  <2>3. job[r].kind \in ReviewKinds
    BY <1>2, <2>2 DEF Actors, Serial, SessionSerial
  <2>4. QED
    BY <2>3 DEF EntryState, ReviewKinds
<1>5. CASE p \in Workers /\ q \in Workers
  BY <1>5 DEF Serial, OneOfEach
<1>6. CASE p \in Reviewers /\ q \in Reviewers
  BY <1>6 DEF Serial, OneOfEach
<1>7. QED
  BY <1>1, <1>3, <1>4, <1>5, <1>6 DEF Actors

\* The committed state that changes is that of p's own case.
LEMMA CommitIsSerial ==
  ASSUME Serial, NEW p \in Actors, Commit(p)
  PROVE  \A q \in Actors : SessionSerial(q)'
<1> DEFINE c == job[p].case
<1>1. /\ p \in Procs /\ TypeOK /\ ActorShape(p) /\ SessionSerial(p) /\ pc[p] = "commit"
      /\ c \in Cases /\ caseState' = [caseState EXCEPT ![c] = view[p]]
  BY ProcsApart DEF Serial, IInv, Commit, ActorShape, Jobs
<1>2. \A q \in Procs : q # p => /\ pc'[q] = pc[q] /\ job'[q] = job[q]
                                /\ view'[q] = view[q] /\ rows'[q] = rows[q]
  BY <1>1 DEF Commit, EndSession, TypeOK
<1>3. TAKE q \in Actors
<1>4. CASE q = p
  <2>1. CASE p \in Workers
    <3>1. pc'[p] = "ack" /\ p \notin Reviewers
      BY <1>1, <2>1, ProcsApart DEF Commit, TypeOK
    <3>2. QED
      BY <1>4, <3>1 DEF SessionSerial, InSession, SessionPcs, HoldingPcs
  <2>2. CASE p \notin Workers
    <3>1. pc'[p] = "idle" /\ rows'[p] = <<>>
      BY <1>1, <2>2 DEF Commit, EndSession, TypeOK
    <3>2. QED
      BY <1>4, <3>1 DEF SessionSerial, InSession, SessionPcs, HoldingPcs
  <2>3. QED
    BY <2>1, <2>2
<1>5. CASE q # p
  <2>1. SessionSerial(q) /\ q \in Procs
    BY ProcsApart DEF Serial
  <2>2. InSession(q) => job[q].case # c
    BY <1>1, <1>5, SessionsApart DEF InSession, SessionPcs, HoldingPcs
  <2>3. InSession(q) => caseState'[job[q].case] = caseState[job[q].case]
    BY <1>1, <2>2 DEF TypeOK
  <2>4. QED
    BY <1>2, <1>5, <2>1, <2>3, SessionFrame
<1>6. QED
  BY <1>4, <1>5

\* A case that is opened had no state a session could have started from.
LEMMA PersistIsSerial ==
  ASSUME Serial, NEW h \in Handlers, Persist(h)
  PROVE  \A q \in Actors : SessionSerial(q)'
<1> DEFINE c == job[h].case
<1>1. /\ h \in Procs /\ TypeOK /\ h \notin Actors
      /\ pc' = [pc EXCEPT ![h] = "publish"] /\ UNCHANGED <<job, view, rows>>
  BY ProcsApart DEF Serial, IInv, Persist
<1>2. \A d \in Cases : caseState'[d] # caseState[d] => caseState[d] = NoCase
  BY <1>1 DEF Persist, TypeOK
<1>3. TAKE q \in Actors
<1>4. q # h /\ q \in Procs /\ SessionSerial(q) /\ ActorShape(q)
  BY <1>1, ProcsApart DEF Serial, IInv
<1>5. InSession(q) => caseState'[job[q].case] = caseState[job[q].case]
  <2>1. HAVE InSession(q)
  <2>2. job[q] \in Jobs /\ caseState[job[q].case] = EntryState(job[q].kind)
    BY <1>4, <2>1 DEF ActorShape, SessionSerial, InSession, SessionPcs, HoldingPcs
  <2>3. EntryState(job[q].kind) # NoCase
    BY <2>2 DEF Jobs, MessageKinds, ReviewKinds, EntryState, NoCase
  <2>4. job[q].case \in Cases
    BY <2>2 DEF Jobs
  <2>5. QED
    BY <1>2, <2>2, <2>3, <2>4
<1>6. QED
  BY <1>1, <1>4, <1>5, SessionFrame DEF TypeOK

\* A worker starts from the state it reads.
LEMMA ReceiveIsSerial ==
  ASSUME Serial, NEW w \in Workers, Receive(w)
  PROVE  \A q \in Actors : SessionSerial(q)'
<1> DEFINE m == Head(queue)
<1>1. /\ w \in Procs /\ w \in Actors /\ w \notin Reviewers /\ TypeOK /\ SessionSerial(w)
      /\ pc[w] = "idle" /\ job' = [job EXCEPT ![w] = m]
      /\ view' = [view EXCEPT ![w] = caseState[m.case]]
      /\ pc' = [pc EXCEPT ![w] =
           IF caseState[m.case] = EntryState(m.kind) THEN "lock" ELSE "ack"]
      /\ UNCHANGED <<caseState, rows>>
  BY ProcsApart DEF Serial, IInv, Receive, dbVars, Actors
<1>2. SessionSerial(w)'
  <2>1. rows'[w] = <<>> /\ job'[w] = m
    BY <1>1 DEF SessionSerial, TypeOK
  <2>2. CASE caseState[m.case] = EntryState(m.kind)
    <3>1. pc'[w] = "lock"
      BY <1>1, <2>2 DEF TypeOK
    <3>2. QED
      BY <1>1, <2>1, <2>2, <3>1 DEF SessionSerial, InSession, SessionPcs, HoldingPcs
  <2>3. CASE caseState[m.case] # EntryState(m.kind)
    <3>1. pc'[w] = "ack"
      BY <1>1, <2>3 DEF TypeOK
    <3>2. QED
      BY <1>1, <2>1, <3>1 DEF SessionSerial, InSession, SessionPcs, HoldingPcs
  <2>4. QED
    BY <2>2, <2>3
<1>3. QED
  BY <1>1, <1>2, OthersKeep DEF TypeOK

\* So does a reviewer.
LEMMA ReviewIsSerial ==
  ASSUME Serial, NEW r \in Reviewers, NEW c \in Cases, NEW kind \in ReviewKinds,
         Review(r, c, kind)
  PROVE  \A q \in Actors : SessionSerial(q)'
<1>1. /\ r \in Procs /\ r \in Actors /\ TypeOK /\ SessionSerial(r)
      /\ pc[r] = "idle" /\ caseState[c] = "ESCALATED"
      /\ job' = [job EXCEPT ![r] = [case |-> c, kind |-> kind]]
      /\ view' = [view EXCEPT ![r] = caseState[c]]
      /\ pc' = [pc EXCEPT ![r] = "lock"] /\ UNCHANGED <<caseState, rows>>
  BY ProcsApart DEF Serial, IInv, Review, dbVars, Actors
<1>2. SessionSerial(r)'
  <2>1. rows'[r] = <<>> /\ pc'[r] = "lock" /\ job'[r] = [case |-> c, kind |-> kind]
    BY <1>1 DEF SessionSerial, TypeOK
  <2>2. caseState'[c] = EntryState(kind)
    BY <1>1 DEF EntryState, ReviewKinds
  <2>3. QED
    BY <2>1, <2>2 DEF SessionSerial, InSession, SessionPcs, HoldingPcs
<1>3. QED
  BY <1>1, <1>2, OthersKeep DEF TypeOK

\* A handler has no session.
LEMMA HandlerStepIsSerial ==
  ASSUME Serial, NEW h \in Handlers, UNCHANGED <<caseState, view, rows>>,
         \A q \in Procs : q # h => pc'[q] = pc[q] /\ job'[q] = job[q]
  PROVE  \A q \in Actors : SessionSerial(q)'
BY ProcsApart, OthersKeep

\* No step ends the seriality of the sessions.
LEMMA NextKeepsSerial == Serial /\ [Next]_vars => Serial'
<1> SUFFICES ASSUME Serial, [Next]_vars PROVE Serial'
  OBVIOUS
<1>1. IInv' /\ OneOfEach' /\ TypeOK
  BY NextKeepsIInv DEF Serial, OneOfEach, IInv
<1>2. ASSUME NEW c \in Cases, NEW status \in PaymentStatuses, PaymentMovesOn(c, status)
      PROVE  \A q \in Actors : SessionSerial(q)'
  BY <1>2, SessionFrame DEF Serial, PaymentMovesOn, dbVars, sessVars
<1>3. ASSUME NEW h \in Handlers, NEW n \in Notices, Ingest(h, n)
      PROVE  \A q \in Actors : SessionSerial(q)'
  BY <1>1, <1>3, HandlerStepIsSerial DEF Ingest, dbVars, TypeOK
<1>4. ASSUME NEW h \in Handlers, Persist(h) \/ Publish(h) \/ LosePublish(h)
      PROVE  \A q \in Actors : SessionSerial(q)'
  <2>1. CASE Persist(h)
    BY <2>1, PersistIsSerial
  <2>2. CASE Publish(h) \/ LosePublish(h)
    BY <2>2, ProcsApart, EndedIsSerial DEF Publish, LosePublish, dbVars
  <2>3. QED
    BY <1>4, <2>1, <2>2
<1>5. ASSUME NEW w \in Workers, Receive(w) \/ Ack(w) \/ Crash(w)
      PROVE  \A q \in Actors : SessionSerial(q)'
  <2>1. CASE Receive(w)
    BY <2>1, ReceiveIsSerial
  <2>2. CASE Ack(w) \/ Crash(w)
    BY <2>2, ProcsApart, EndedIsSerial DEF Ack, Crash, dbVars, Actors
  <2>3. QED
    BY <1>5, <2>1, <2>2
<1>6. ASSUME NEW r \in Reviewers, NEW c \in Cases, NEW kind \in ReviewKinds,
             Review(r, c, kind)
      PROVE  \A q \in Actors : SessionSerial(q)'
  BY <1>6, ReviewIsSerial
<1>7. ASSUME NEW p \in Actors, PipelineStep(p)
      PROVE  \A q \in Actors : SessionSerial(q)'
  BY <1>7, AcquireRowIsSerial, DecideIsSerial, GateApprovesIsSerial, GateStopsIsSerial,
     ExecuteActionIsSerial, RunVerificationIsSerial, CommitIsSerial DEF PipelineStep
<1>8. ASSUME NEW p \in Actors, Fail(p)
      PROVE  \A q \in Actors : SessionSerial(q)'
  BY <1>8, ProcsApart, EndedIsSerial DEF Fail, dbVars
<1>9. ASSUME UNCHANGED vars
      PROVE  \A q \in Actors : SessionSerial(q)'
  <2>1. TAKE q \in Actors
  <2>2. UNCHANGED <<caseState, pc, job, view, rows>> /\ SessionSerial(q)
    BY <1>9 DEF Serial, vars, dbVars, sessVars
  <2>3. QED
    BY <2>2, SessionFrame
<1> DEFINE Kept == \A q \in Actors : SessionSerial(q)'
<1>10. Kept
  <2> HIDE DEF Kept
  <2>1. \A c \in Cases, status \in PaymentStatuses : PaymentMovesOn(c, status) => Kept
    BY <1>2 DEF Kept
  <2>2. \A h \in Handlers, n \in Notices : Ingest(h, n) => Kept
    BY <1>3 DEF Kept
  <2>3. \A h \in Handlers : Persist(h) \/ Publish(h) \/ LosePublish(h) => Kept
    BY <1>4 DEF Kept
  <2>4. \A w \in Workers : Receive(w) \/ Ack(w) \/ Crash(w) => Kept
    BY <1>5 DEF Kept
  <2>5. \A r \in Reviewers, c \in Cases, kind \in ReviewKinds : Review(r, c, kind) => Kept
    BY <1>6 DEF Kept
  <2>6. \A p \in Actors : PipelineStep(p) \/ Fail(p) => Kept
    BY <1>7, <1>8 DEF Kept
  <2>7. UNCHANGED vars => Kept
    BY <1>9 DEF Kept
  <2>8. QED
    BY <2>1, <2>2, <2>3, <2>4, <2>5, <2>6, <2>7 DEF Next
<1>11. QED
  BY <1>1, <1>10 DEF Serial

LEMMA InitSerial == Init /\ OneOfEach => Serial
<1> SUFFICES ASSUME Init, OneOfEach PROVE Serial
  OBVIOUS
<1>1. \A p \in Actors : pc[p] = "idle" /\ rows[p] = <<>>
  BY ProcsApart DEF Init
<1>2. \A p \in Actors : SessionSerial(p)
  BY <1>1 DEF SessionSerial, InSession, SessionPcs, HoldingPcs
<1>3. QED
  BY <1>2, InitIInv DEF Serial

-----------------------------------------------------------------------------
(* The audit trail, as CaseLifecycle grows it.                             *)

\* The trail is a path to the current state, the state RECEIVED is only its
\* start, and SCREENING only ever comes second.
AuditShape(c) ==
  /\ caseState[c] = NoCase => log[c] = <<>>
  /\ caseState[c] = "RECEIVED" => log[c] = <<"RECEIVED">>
  /\ caseState[c] = IF log[c] = <<>> THEN NoCase ELSE log[c][Len(log[c])]
  /\ IsPath(<<NoCase>> \o log[c])
  /\ \A i \in 1..Len(log[c]) : log[c][i] = "SCREENING" => i = 2

Audited == \A c \in Cases : AuditShape(c)

LEMMA InitAudited == Init => Audited
<1> SUFFICES ASSUME Init, NEW c \in Cases PROVE AuditShape(c)
  BY DEF Audited
<1>1. log[c] = <<>> /\ caseState[c] = NoCase
  BY DEF Init
<1>2. IsPath(<<NoCase>> \o <<>>)
  BY DEF IsPath
<1>3. QED
  BY <1>1, <1>2 DEF AuditShape, NoCase

\* A case is opened with its first row.
LEMMA OpenIsAudited ==
  ASSUME TypeOK, Audited, NEW c \in Cases, Lifecycle!Open(c)
  PROVE  AuditShape(c)'
<1>1. log'[c] = <<"RECEIVED">> /\ caseState'[c] = "RECEIVED"
  BY DEF Lifecycle!Open, TypeOK
<1>2. IsPath(<<NoCase>> \o <<"RECEIVED">>)
  BY DEF IsPath, IsAllowed, NoCase
<1>3. QED
  BY <1>1, <1>2 DEF AuditShape, NoCase

\* A job appends a complete path to the trail.
LEMMA JobIsAudited ==
  ASSUME TypeOK, Audited, NEW c \in Cases, Lifecycle!DoJob(c)
  PROVE  AuditShape(c)'
<1>1. PICK t \in Lifecycle!JobsFrom(caseState[c]) :
        /\ caseState' = [caseState EXCEPT ![c] = t[Len(t)]]
        /\ log' = [log EXCEPT ![c] = @ \o t]
  BY DEF Lifecycle!DoJob
<1> DEFINE l == log[c]
<1>2. CompleteJob(caseState[c], t)
  BY JobIsComplete
<1>3. l \in Seq(CaseStates) /\ AuditShape(c) /\ log'[c] = l \o t /\ caseState'[c] = t[Len(t)]
  BY <1>1 DEF TypeOK, Audited
<1>4. t \in Seq(CaseStates) /\ t # <<>> /\ t[Len(t)] \in CaseStates \ { "RECEIVED" }
  BY <1>2 DEF CompleteJob
<1>5. l # <<>> /\ caseState[c] = l[Len(l)]
  <2>1. caseState[c] # NoCase
    BY <1>1 DEF Lifecycle!JobsFrom, NoCase
  <2>2. QED
    BY <1>3, <2>1 DEF AuditShape
<1> HIDE DEF l
<1>6. l \o t # <<>> /\ (l \o t)[Len(l \o t)] = t[Len(t)]
  <2>1. (l \o t)[Len(l \o t)] = t[Len(t)]
    BY <1>3, <1>4, LastOfConcat
  <2>2. Len(l \o t) = Len(l) + Len(t) /\ Len(t) > 0 /\ Len(l) \in Nat
    BY <1>3, <1>4
  <2>3. l \o t # <<>>
    BY <2>2
  <2>4. QED
    BY <2>1, <2>3
<1>7. IsPath(<<NoCase>> \o (l \o t))
  <2> DEFINE s == <<NoCase>> \o l
  <2>1. s \in Seq(CaseStates \cup {NoCase}) /\ s # <<>> /\ s[Len(s)] = l[Len(l)]
    BY <1>3, <1>5
  <2>2. IsPath(s)
    BY <1>3 DEF AuditShape, l
  <2>3. IsPath(<<s[Len(s)]>> \o t)
    BY <1>2, <1>5, <2>1 DEF CompleteJob
  <2>4. s \o t = <<NoCase>> \o (l \o t)
    BY <1>3, <1>4
  <2> HIDE DEF s
  <2>5. IsPath(s \o t)
    BY <1>4, <2>1, <2>2, <2>3, PathConcat
  <2>6. QED
    BY <2>4, <2>5
<1>8. \A i \in 1..Len(l \o t) : (l \o t)[i] = "SCREENING" => i = 2
  <2>1. SUFFICES ASSUME NEW i \in 1..Len(l \o t), (l \o t)[i] = "SCREENING"
                 PROVE  i = 2
    OBVIOUS
  <2>2. CASE i <= Len(l)
    <3>1. i \in 1..Len(l) /\ l[i] = "SCREENING"
      BY <1>3, <1>4, <2>1, <2>2
    <3>2. QED
      BY <1>3, <3>1 DEF AuditShape, l
  <2>3. CASE i > Len(l)
    <3>1. i - Len(l) \in 1..Len(t) /\ t[i - Len(l)] = "SCREENING"
      BY <1>3, <1>4, <2>1, <2>3
    <3>2. i - Len(l) = 1 /\ caseState[c] = "RECEIVED"
      BY <1>2, <3>1 DEF CompleteJob
    <3>3. l = <<"RECEIVED">>
      BY <1>3, <3>2 DEF AuditShape, l
    <3>4. Len(l) = 1
      BY <3>3
    <3>5. QED
      BY <1>3, <3>2, <3>4
  <2>4. Len(l) \in Nat /\ i \in Nat
    BY <1>3, <1>4
  <2>5. QED
    BY <2>2, <2>3, <2>4
<1>9. caseState'[c] # NoCase /\ caseState'[c] # "RECEIVED"
  BY <1>3, <1>4 DEF CaseStates, NoCase
<1>10. QED
  BY <1>3, <1>6, <1>7, <1>8, <1>9 DEF AuditShape

\* Every step of CaseLifecycle keeps the shape of every trail.
LEMMA LifecycleKeepsAudited ==
  ASSUME TypeOK, Audited, [Lifecycle!Next]_(Lifecycle!vars)
  PROVE  Audited'
<1>1. CASE UNCHANGED <<caseState, log>>
  BY <1>1 DEF Audited, AuditShape
<1>2. ASSUME NEW c \in Cases, Lifecycle!Open(c) \/ Lifecycle!DoJob(c) PROVE Audited'
  <2>1. AuditShape(c)'
    BY <1>2, OpenIsAudited, JobIsAudited
  <2>2. \A d \in Cases : d # c => log'[d] = log[d] /\ caseState'[d] = caseState[d]
    BY <1>2 DEF Lifecycle!Open, Lifecycle!DoJob, TypeOK
  <2>3. \A d \in Cases : d # c => AuditShape(d)'
    BY <2>2 DEF Audited, AuditShape
  <2>4. QED
    BY <2>1, <2>3 DEF Audited
<1>3. QED
  BY <1>1, <1>2 DEF Lifecycle!Next, Lifecycle!vars

-----------------------------------------------------------------------------
(* The implementation.                                                     *)

\* A commit is a complete job, a persisted first event opens the case, and
\* nothing else is visible.
LEMMA NextIsLifecycle ==
  ASSUME Serial, Audited, [Next]_vars
  PROVE  [Lifecycle!Next]_(Lifecycle!vars)
<1>1. TypeOK
  BY DEF Serial, IInv
<1>2. ASSUME NEW p \in Actors, Commit(p) PROVE Lifecycle!Next
  <2> DEFINE c == job[p].case
  <2>1. /\ ActorShape(p) /\ SessionSerial(p) /\ pc[p] = "commit"
        /\ caseState' = [caseState EXCEPT ![c] = view[p]]
        /\ log' = [log EXCEPT ![c] = @ \o rows[p]]
    BY <1>2 DEF Serial, IInv, Commit
  <2>2. c \in Cases /\ rows[p] \in Lifecycle!JobsFrom(caseState[c])
        /\ view[p] = rows[p][Len(rows[p])]
    BY <2>1 DEF ActorShape, Jobs, SessionSerial, InSession, SessionPcs, HoldingPcs
  <2>3. Lifecycle!DoJob(c)
    BY <2>1, <2>2 DEF Lifecycle!DoJob
  <2>4. QED
    BY <2>2, <2>3 DEF Lifecycle!Next
<1>3. ASSUME NEW h \in Handlers, Persist(h) PROVE [Lifecycle!Next]_(Lifecycle!vars)
  <2> DEFINE c == job[h].case
  <2>1. c \in Cases
    BY <1>3 DEF Serial, IInv, HandlerShape, Persist, Messages
  <2>2. CASE caseState[c] = NoCase
    <3>1. log[c] = <<>>
      BY <2>1, <2>2 DEF Audited, AuditShape
    <3>2. caseState' = [caseState EXCEPT ![c] = "RECEIVED"]
          /\ log' = [log EXCEPT ![c] = <<"RECEIVED">>]
      BY <1>3, <2>2, <3>1 DEF Persist
    <3>3. QED
      BY <2>1, <2>2, <3>2 DEF Lifecycle!Open, Lifecycle!Next, Lifecycle!NoCase, NoCase
  <2>3. CASE caseState[c] # NoCase
    BY <1>3, <2>3 DEF Persist, Lifecycle!vars
  <2>4. QED
    BY <2>2, <2>3
<1>4. CASE UNCHANGED dbVars
  BY <1>4 DEF dbVars, Lifecycle!vars
<1>5. ASSUME NEW p \in Actors, PipelineStep(p), ~ Commit(p) PROVE UNCHANGED dbVars
  BY <1>5 DEF PipelineStep, AcquireRow, Decide, GateApproves, GateStops, ExecuteAction,
              RunVerification
<1>6. UNCHANGED dbVars
      \/ (\E h \in Handlers : Persist(h)) \/ (\E p \in Actors : Commit(p))
  BY <1>5 DEF Next, vars, PaymentMovesOn, Ingest, Publish, LosePublish, Receive, Ack, Crash,
              Review, Fail
<1>7. QED
  BY <1>2, <1>3, <1>4, <1>6

\* Seriality and the shape of the trails, together.
SerialInv == Serial /\ Audited

LEMMA InitSerialInv == Init /\ OneOfEach => SerialInv
BY InitSerial, InitAudited DEF SerialInv

LEMMA NextKeepsSerialInv == SerialInv /\ [Next]_vars => SerialInv'
<1> SUFFICES ASSUME SerialInv, [Next]_vars PROVE SerialInv'
  OBVIOUS
<1>1. Serial /\ Audited /\ TypeOK
  BY DEF SerialInv, Serial, IInv
<1>2. [Lifecycle!Next]_(Lifecycle!vars)
  BY <1>1, NextIsLifecycle
<1>3. QED
  BY <1>1, <1>2, NextKeepsSerial, LifecycleKeepsAudited DEF SerialInv

LEMMA SpecSerialInv ==
  ASSUME OneOfEach
  PROVE  Spec => []SerialInv
<1>1. Init => SerialInv
  BY InitSerialInv
<1>2. QED
  BY <1>1, NextKeepsSerialInv, PTL DEF Spec

\* With one worker and one reviewer at a time, the pipeline with all its
\* sessions, locks, redeliveries, failures and crashes implements the life of
\* a case as CaseLifecycle promises it.
THEOREM ImplementsLifecycle ==
  ASSUME OneOfEach
  PROVE  Spec => JobsAreSerial
<1>1. Init => Lifecycle!Init
  BY DEF Init, Lifecycle!Init, Lifecycle!NoCase, NoCase
<1>2. SerialInv /\ [Next]_vars => [Lifecycle!Next]_(Lifecycle!vars)
  BY NextIsLifecycle DEF SerialInv
<1>3. QED
  BY <1>1, <1>2, SpecSerialInv, PTL DEF Spec, JobsAreSerial, Lifecycle!Spec

\* The audit trail of a case is then a path through the transition table that
\* ends in the case's state.
THEOREM AuditTrailIsAPath ==
  ASSUME OneOfEach
  PROVE  Spec => []AuditTrailIsPath
<1>1. SerialInv => AuditTrailIsPath
  BY DEF SerialInv, Audited, AuditShape, AuditTrailIsPath
<1>2. QED
  BY <1>1, SpecSerialInv, PTL

\* No redelivery or duplicate makes the pipeline run a second time for a case.
THEOREM OnePipelineRun ==
  ASSUME OneOfEach
  PROVE  Spec => []PipelineRunsOnce
<1>1. SerialInv => PipelineRunsOnce
  <2> SUFFICES ASSUME SerialInv,
                      NEW c \in Cases, NEW i \in 1..MaxRows, NEW j \in 1..MaxRows,
                      i < j, j <= Len(log[c]),
                      log[c][i] = "SCREENING", log[c][j] = "SCREENING"
               PROVE  FALSE
    BY DEF PipelineRunsOnce
  <2>1. log[c] \in Seq(CaseStates) /\ AuditShape(c)
    BY DEF SerialInv, Serial, IInv, TypeOK, Audited
  <2>2. MaxRows \in Nat
    BY RecoveryCasesAssumption
  <2>3. i \in 1..Len(log[c]) /\ j \in 1..Len(log[c])
    BY <2>1, <2>2
  <2>4. i = 2 /\ j = 2
    BY <2>1, <2>3 DEF AuditShape
  <2>5. QED
    BY <2>4
<1>2. QED
  BY <1>1, SpecSerialInv, PTL

\* RECOVERED and STOPPED are final.
THEOREM TerminalStatesAreFinal ==
  ASSUME OneOfEach
  PROVE  Spec => TerminalIsFinal
<1>1. SerialInv /\ [Next]_vars =>
        [\A c \in Cases : caseState[c] \in TerminalStates => caseState'[c] = caseState[c]]_vars
  <2> SUFFICES ASSUME SerialInv, [Next]_vars, NEW c \in Cases,
                      caseState[c] \in TerminalStates
               PROVE  caseState'[c] = caseState[c]
    OBVIOUS
  <2>1. [Lifecycle!Next]_(Lifecycle!vars) /\ TypeOK
    BY NextIsLifecycle DEF SerialInv, Serial, IInv
  <2>2. \A d \in Cases : Lifecycle!Open(d) \/ Lifecycle!DoJob(d) => caseState'[c] = caseState[c]
    BY <2>1 DEF Lifecycle!Open, Lifecycle!DoJob, Lifecycle!JobsFrom, Lifecycle!NoCase,
                TerminalStates, TypeOK
  <2>3. QED
    BY <2>1, <2>2 DEF Lifecycle!Next, Lifecycle!vars
<1>2. QED
  BY <1>1, SpecSerialInv, PTL DEF Spec, TerminalIsFinal
=============================================================================
