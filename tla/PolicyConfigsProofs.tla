------------------------- MODULE PolicyConfigsProofs -------------------------
(***************************************************************************)
(* The history of configuration versions, and the evaluations that read    *)
(* it, for any merchants and any number of sessions that interleave and    *)
(* fail.  The heart of ConfigInv is InsertersAreAlone: from its INSERT to  *)
(* its commit a session is the only one of its scope, and whatever row of  *)
(* the scope is in force is the one it is about to replace.                *)
(***************************************************************************)
EXTENDS PolicyConfigs, TLAPS

\* The same row, in force or not.
SameRow(a, b) == a.id = b.id /\ a.version = b.version /\ a.scope = b.scope

IdsAreUnique ==
  /\ \A a \in rows : pc[a.id] = "done"
  /\ \A a, b \in rows : a.id = b.id => a = b

\* What a session has selected stays on record, deactivated perhaps.
FoundIsOnRecord ==
  \A s \in Writers :
    pc[s] \in { "deactivate", "insert", "reread", "commit" } /\ found[s] # None =>
      found[s].scope = scope[s] /\ \E row \in rows : SameRow(row, found[s])

InsertersAreAlone ==
  \A s \in Writers : Inserting(s) =>
    /\ Rivals(s) = {}
    /\ \A t \in Writers \ {s} : Inserting(t) => scope[t] # scope[s]

VersionsAreUnique ==
  \A a, b \in rows : a.scope = b.scope /\ a.version = b.version => a = b

NoGaps ==
  \A a \in rows : \A v \in 1..a.version : \E b \in rows : b.scope = a.scope /\ b.version = v

ActiveIsNewest ==
  \A a \in rows : a.active <=> \A b \in rows : b.scope = a.scope => b.version <= a.version

\* A scope that ever had a version has one in force.
SomeIsActive ==
  \A a \in rows : \E b \in rows : b.scope = a.scope /\ b.active

PutsAreKept ==
  \A s \in Putters : pc[s] = "done" => \E row \in rows : row.id = s /\ row.scope = scope[s]

WriterInv ==
  /\ IdsAreUnique /\ FoundIsOnRecord /\ InsertersAreAlone
  /\ VersionsAreUnique /\ NoGaps /\ ActiveIsNewest /\ SomeIsActive /\ PutsAreKept

\* An evaluation has seen all that was in force since it began; a scope with a
\* configuration at its start still has one.
EvaluationsRemember ==
  \A d \in Deciders :
    /\ \A own \in was[d].start : \E row \in rows : row.scope = own.scope
    /\ pc[d] \in { "own", "global", "file" } =>
         Active(rows) \subseteq was[d].since /\ scope[d] \in Merchants
    /\ pc[d] = "global" => \A own \in was[d].start : own.scope # scope[d]
    /\ pc[d] = "missing" => \A own \in was[d].start : own.scope # Global
    /\ pc[d] = "file" =>
         /\ found[d] \in was[d].since
         /\ found[d].scope \in { scope[d], Global }
         /\ found[d].scope = Global => \A own \in was[d].start : own.scope # scope[d]

DecidersAreDone == \A dec \in decisions : pc[dec.by] = "done"

DeciderInv == EvaluationsRemember /\ DecidersAreDone /\ DecisionWasInForce

ConfigInv == ConfigTypeOK /\ WriterInv /\ DeciderInv

-----------------------------------------------------------------------------
LEMMA ConfigInvInit == ConfigInit => ConfigInv
BY DEF ConfigInit, ConfigInv, ConfigTypeOK, WriterInv, DeciderInv, IdsAreUnique, FoundIsOnRecord,
  InsertersAreAlone, VersionsAreUnique, NoGaps, ActiveIsNewest, SomeIsActive, PutsAreKept,
  EvaluationsRemember, DecidersAreDone, DecisionWasInForce, Inserting, Pcs, Scopes, Sessions, Writers

\* The states of a session belong to writers or to deciders.
LEMMA Disjoint ==
  /\ \A s \in Writers : s \in Sessions /\ s \notin Deciders
  /\ \A d \in Deciders : d \in Sessions /\ d \notin Writers
  /\ Putters \subseteq Writers /\ Seeders \subseteq Writers
  /\ \A s \in Seeders : s \notin Putters
BY PolicyConfigsAssumption DEF Sessions, Writers

-----------------------------------------------------------------------------
(* The steps that leave the committed rows alone.                          *)

\* A step of session s.
SessionStep(s) ==
  \/ s \in Putters /\ BeginPut(s)
  \/ s \in Seeders /\ Seed(s)
  \/ s \in Writers /\ (ReadCurrent(s) \/ Deactivate(s) \/ Insert(s) \/ Reread(s))
  \/ s \in Deciders /\ (BeginEvaluation(s) \/ ReadOwn(s) \/ ReadGlobal(s) \/ FileDecision(s))
  \/ s \in Sessions /\ FailConfig(s)

\* It changes its own state only, and none that is done.
LEMMA SessionStepFacts ==
  ASSUME ConfigTypeOK, NEW s \in Sessions, SessionStep(s)
  PROVE  /\ UNCHANGED rows
         /\ pc[s] # "done" /\ pc' \in [Sessions -> Pcs]
         /\ found' \in [Sessions -> Rows \cup { None }] /\ scope' \in [Sessions -> Scopes]
         /\ \A t \in Sessions : t # s =>
              pc'[t] = pc[t] /\ found'[t] = found[t] /\ scope'[t] = scope[t]
         /\ s \in Writers => UNCHANGED was
<1>1. UNCHANGED rows /\ pc[s] # "done"
  BY DEF SessionStep, BeginPut, Seed, ReadCurrent, Deactivate, Insert, Reread, BeginEvaluation,
    ReadOwn, ReadGlobal, FileDecision, FailConfig
<1>2. \E x \in Pcs : pc' = [pc EXCEPT ![s] = x]
  BY DEF SessionStep, BeginPut, Seed, ReadCurrent, Deactivate, Insert, Reread, BeginEvaluation,
    ReadOwn, ReadGlobal, FileDecision, FailConfig, Go, Pcs
<1>3. \E x \in Scopes : scope' = [scope EXCEPT ![s] = x]
  BY DEF SessionStep, BeginPut, Seed, ReadCurrent, Deactivate, Insert, Reread, BeginEvaluation,
    ReadOwn, ReadGlobal, FileDecision, FailConfig, ConfigTypeOK, Scopes
<1>4. \E x \in Rows \cup { None } : found' = [found EXCEPT ![s] = x]
  <2>1. \A sc : ScalarOneOrNone(ActiveIn(rows, sc)) \subseteq Rows \cup { None }
    BY DEF ScalarOneOrNone, ActiveIn, Active, ConfigTypeOK
  <2> QED BY <2>1 DEF SessionStep, BeginPut, Seed, ReadCurrent, Deactivate, Insert, Reread,
    BeginEvaluation, ReadOwn, ReadGlobal, FileDecision, FailConfig, ConfigTypeOK
<1>5. s \in Writers => UNCHANGED was
  BY Disjoint DEF SessionStep, BeginPut, Seed, ReadCurrent, Deactivate, Insert, Reread, FailConfig
<1> QED BY <1>1, <1>2, <1>3, <1>4, <1>5 DEF ConfigTypeOK

LEMMA SessionStepType ==
  ASSUME ConfigInv, NEW s \in Sessions, SessionStep(s)
  PROVE  ConfigTypeOK'
<1>1. was' \in [Deciders -> [start : SUBSET Rows, since : SUBSET Rows]]
  <2>1. CASE s \in Deciders /\ BeginEvaluation(s)
    <3>1. [start |-> Active(rows), since |-> Active(rows)] \in [start : SUBSET Rows, since : SUBSET Rows]
      BY DEF ConfigInv, ConfigTypeOK, Active
    <3> QED BY <2>1, <3>1 DEF BeginEvaluation, ConfigInv, ConfigTypeOK
  <2>2. CASE UNCHANGED was
    BY <2>2 DEF ConfigInv, ConfigTypeOK
  <2> QED BY <2>1, <2>2 DEF SessionStep, BeginPut, Seed, ReadCurrent, Deactivate, Insert, Reread,
    ReadOwn, ReadGlobal, FileDecision, FailConfig
<1>2. decisions' \subseteq [by : Deciders, config : Writers, version : Nat \ { 0 }]
  <2>1. CASE s \in Deciders /\ FileDecision(s)
    <3>1. found[s] \in Rows
      BY <2>1 DEF FileDecision, ConfigInv, ConfigTypeOK, DeciderInv, EvaluationsRemember
    <3>2. [by |-> s, config |-> found[s].id, version |-> found[s].version]
            \in [by : Deciders, config : Writers, version : Nat \ { 0 }]
      BY <2>1, <3>1 DEF Rows
    <3> QED BY <2>1, <3>2 DEF FileDecision, ConfigInv, ConfigTypeOK
  <2>2. CASE UNCHANGED decisions
    BY <2>2 DEF ConfigInv, ConfigTypeOK
  <2> QED BY <2>1, <2>2 DEF SessionStep, BeginPut, Seed, ReadCurrent, Deactivate, Insert, Reread,
    BeginEvaluation, ReadOwn, ReadGlobal, FailConfig
<1> QED BY <1>1, <1>2, SessionStepFacts DEF ConfigInv, ConfigTypeOK

LEMMA RowsStay ==
  ASSUME WriterInv, UNCHANGED rows
  PROVE  VersionsAreUnique' /\ NoGaps' /\ ActiveIsNewest' /\ SomeIsActive'
BY DEF WriterInv, VersionsAreUnique, NoGaps, ActiveIsNewest, SomeIsActive

\* The writers that neither select nor insert have nothing new to show.
LEMMA FoundStep ==
  ASSUME ConfigInv, NEW s \in Sessions, SessionStep(s)
  PROVE  FoundIsOnRecord'
<1> SUFFICES ASSUME NEW t \in Writers, found'[t] # None,
                    pc'[t] \in { "deactivate", "insert", "reread", "commit" }
             PROVE  found'[t].scope = scope'[t] /\ \E row \in rows' : SameRow(row, found'[t])
  BY DEF FoundIsOnRecord, SameRow
<1>1. CASE t # s
  BY <1>1, SessionStepFacts, Disjoint DEF ConfigInv, WriterInv, FoundIsOnRecord
<1>2. CASE t = s /\ ReadCurrent(s)
  <2>1. /\ found'[s] \in ScalarOneOrNone(ActiveIn(rows, scope[s])) /\ UNCHANGED <<rows, scope>>
    BY <1>2, Disjoint DEF ReadCurrent, ConfigInv, ConfigTypeOK
  <2> QED BY <1>2, <2>1 DEF ScalarOneOrNone, ActiveIn, Active, SameRow
<1>3. CASE t = s /\ (Deactivate(s) \/ Insert(s) \/ Reread(s))
  <2>1. /\ UNCHANGED <<rows, scope, found>>
        /\ pc[s] \in { "deactivate", "insert", "reread", "commit" }
    BY <1>3 DEF Deactivate, Insert, Reread
  <2> QED BY <1>3, <2>1 DEF ConfigInv, WriterInv, FoundIsOnRecord
<1>4. t = s => ReadCurrent(s) \/ Deactivate(s) \/ Insert(s) \/ Reread(s)
  BY Disjoint DEF SessionStep, BeginPut, Seed, FailConfig, Go, ConfigInv, ConfigTypeOK
<1> QED BY <1>1, <1>2, <1>3, <1>4

LEMMA InserterStep ==
  ASSUME ConfigInv, NEW s \in Sessions, SessionStep(s)
  PROVE  InsertersAreAlone'
<1>1. \A t \in Writers : t # s =>
        /\ Inserting(t)' <=> Inserting(t)
        /\ Rivals(t)' = Rivals(t)
        /\ scope'[t] = scope[t]
  BY SessionStepFacts, Disjoint DEF ConfigInv, Inserting, Rivals, Touches, Deactivating, ActiveIn, Active
<1>2. CASE ~ (s \in Writers /\ Inserting(s)')
  BY <1>1, <1>2 DEF ConfigInv, WriterInv, InsertersAreAlone
<1>3. CASE s \in Writers /\ Insert(s) /\ Inserting(s)'
  <2>1. Rivals(s) = {} /\ ~ EntryIsHeld(s) /\ pc[s] = "insert" /\ UNCHANGED <<rows, scope, found>>
    BY <1>3 DEF Insert, Inserting, Go, ConfigInv, ConfigTypeOK
  <2>2. Rivals(s)' = {}
    BY <1>3, <2>1 DEF Rivals, Touches, Deactivating, Inserting
  <2>3. \A t \in Writers \ {s} : ~ (Inserting(t) /\ scope[t] = scope[s])
    BY <2>1 DEF EntryIsHeld
  <2> QED BY <1>1, <2>1, <2>2, <2>3 DEF ConfigInv, WriterInv, InsertersAreAlone
<1>4. CASE s \in Writers /\ Reread(s)
  <2>1. Inserting(s) /\ UNCHANGED <<rows, scope, found>>
    BY <1>4 DEF Reread, Inserting
  <2>2. Rivals(s)' = Rivals(s)
    BY <1>4, <2>1 DEF Reread, Rivals, Touches, Deactivating, Go, ConfigInv, ConfigTypeOK
  <2> QED BY <1>1, <2>1, <2>2 DEF ConfigInv, WriterInv, InsertersAreAlone
<1>5. s \in Writers /\ Inserting(s)' => Insert(s) \/ Reread(s)
  BY Disjoint DEF SessionStep, BeginPut, Seed, ReadCurrent, Deactivate, FailConfig, Go, Inserting,
    ConfigInv, ConfigTypeOK
<1> QED BY <1>2, <1>3, <1>4, <1>5

LEMMA SessionStepKeepsWriterInv ==
  ASSUME ConfigInv, NEW s \in Sessions, SessionStep(s)
  PROVE  WriterInv'
<1>1. UNCHANGED rows /\ pc[s] # "done" /\ \A t \in Sessions : t # s => pc'[t] = pc[t] /\ scope'[t] = scope[t]
  BY SessionStepFacts DEF ConfigInv
<1>2. IdsAreUnique'
  <2>1. \A a \in rows : a.id \in Sessions
    BY Disjoint DEF ConfigInv, ConfigTypeOK, Rows
  <2> QED BY <1>1, <2>1 DEF ConfigInv, WriterInv, IdsAreUnique
<1>3. PutsAreKept'
  <2>1. s \in Putters => pc'[s] # "done"
    BY Disjoint DEF SessionStep, BeginPut, Seed, ReadCurrent, Deactivate, Insert, Reread, FailConfig,
      Go, ConfigInv, ConfigTypeOK
  <2> QED BY <1>1, <2>1, Disjoint DEF ConfigInv, WriterInv, PutsAreKept
<1> QED BY <1>1, <1>2, <1>3, RowsStay, FoundStep, InserterStep DEF ConfigInv, WriterInv

-----------------------------------------------------------------------------
(* The commit of a version.                                                *)

Left(s, a) == IF found[s] # None /\ a.id = found[s].id THEN [a EXCEPT !.active = FALSE] ELSE a
NewRow(s)  == [id |-> s, scope |-> scope[s], version |-> NextVersion(s), active |-> TRUE]

\* A row keeps what it is; the rows of the scope that were in force are not any
\* more, and those of other scopes are left alone.
LEMMA LeftRows ==
  ASSUME ConfigInv, NEW s \in Writers, pc[s] = "commit", NEW a \in rows
  PROVE  /\ Left(s, a) \in Rows /\ SameRow(Left(s, a), a)
         /\ a.scope = scope[s] => Left(s, a).active = FALSE
         /\ a.scope # scope[s] => Left(s, a) = a
<1>1. a \in Rows
  BY DEF ConfigInv, ConfigTypeOK
<1>2. Left(s, a) \in Rows /\ SameRow(Left(s, a), a)
  BY <1>1 DEF Left, SameRow, Rows
<1>3. ASSUME a.scope = scope[s] PROVE Left(s, a).active = FALSE
  <2>1. CASE a.active
    <3>1. a \notin Rivals(s)
      BY DEF ConfigInv, WriterInv, InsertersAreAlone, Inserting
    <3>2. found[s] # None /\ a.id = found[s].id
      BY <1>3, <2>1, <3>1 DEF Rivals, ActiveIn, Active, Touches
    <3> QED BY <1>1, <3>2 DEF Left, Rows
  <2>2. CASE ~ a.active
    BY <1>1, <2>2 DEF Left, Rows
  <2> QED BY <2>1, <2>2
<1>4. ASSUME a.scope # scope[s] PROVE Left(s, a) = a
  <2>1. found[s] # None => \E row \in rows : row.id = found[s].id /\ row.scope = scope[s]
    BY DEF ConfigInv, WriterInv, FoundIsOnRecord, SameRow
  <2>2. found[s] # None => a.id # found[s].id
    BY <1>4, <2>1 DEF ConfigInv, WriterInv, IdsAreUnique
  <2> QED BY <2>2 DEF Left
<1> QED BY <1>2, <1>3, <1>4

\* The new version comes right after the newest of its scope.
LEMMA NextVersionIsNext ==
  ASSUME ConfigInv, NEW s \in Writers, pc[s] = "commit"
  PROVE  /\ NextVersion(s) \in Nat \ {0}
         /\ \A a \in rows : a.scope = scope[s] => a.version < NextVersion(s)
         /\ NextVersion(s) = 1 \/ \E a \in rows : a.scope = scope[s] /\ a.version = NextVersion(s) - 1
<1>1. Rivals(s) = {}
  BY DEF ConfigInv, WriterInv, InsertersAreAlone, Inserting
<1>2. CASE found[s] = None
  <2>1. ActiveIn(rows, scope[s]) = {}
    BY <1>1, <1>2 DEF Rivals, Touches
  <2>2. \A a \in rows : a.scope # scope[s]
    BY <2>1 DEF ActiveIn, Active, ConfigInv, WriterInv, SomeIsActive
  <2> QED BY <1>2, <2>2 DEF NextVersion
<1>3. CASE found[s] # None
  <2>1. PICK r \in rows : SameRow(r, found[s]) /\ r.scope = scope[s]
    BY <1>3 DEF ConfigInv, WriterInv, FoundIsOnRecord, SameRow
  <2>2. PICK act \in rows : act.scope = scope[s] /\ act.active
    BY <2>1 DEF ConfigInv, WriterInv, SomeIsActive
  <2>3. act.id = found[s].id
    BY <1>1, <2>2 DEF Rivals, ActiveIn, Active, Touches
  <2>4. act = r
    BY <2>1, <2>3 DEF SameRow, ConfigInv, WriterInv, IdsAreUnique
  <2>5. r.version \in Nat \ {0} /\ NextVersion(s) = r.version + 1
    BY <1>3, <2>1 DEF NextVersion, SameRow, ConfigInv, ConfigTypeOK, Rows
  <2>6. \A a \in rows : a.scope = scope[s] => a.version \in Nat /\ a.version <= r.version
    BY <2>1, <2>2, <2>4 DEF ConfigInv, ConfigTypeOK, Rows, WriterInv, ActiveIsNewest
  <2> QED BY <2>1, <2>5, <2>6
<1> QED BY <1>2, <1>3

LEMMA CommitFacts ==
  ASSUME ConfigInv, NEW s \in Writers, CommitConfig(s)
  PROVE  /\ pc[s] = "commit" /\ NewRow(s) \in Rows
         /\ \A a \in rows : Left(s, a) \in rows'
         /\ NewRow(s) \in rows'
         /\ \A b \in rows' : b = NewRow(s) \/ \E a \in rows : b = Left(s, a)
         /\ pc'[s] = "done" /\ pc' \in [Sessions -> Pcs]
         /\ found' \in [Sessions -> Rows \cup { None }]
         /\ \A t \in Sessions : t # s => pc'[t] = pc[t] /\ found'[t] = found[t]
         /\ UNCHANGED scope
<1>1. pc[s] = "commit" /\ rows' = { Left(s, a) : a \in rows } \cup { NewRow(s) }
  BY DEF CommitConfig, Written, Left, NewRow
<1>2. NewRow(s) \in Rows
  BY <1>1, NextVersionIsNext, Disjoint DEF NewRow, Rows, ConfigInv, ConfigTypeOK
<1> QED BY <1>1, <1>2, Disjoint DEF CommitConfig, Go, Pcs, ConfigInv, ConfigTypeOK

LEMMA CommittedRows ==
  ASSUME ConfigInv, NEW s \in Writers, CommitConfig(s)
  PROVE  rows' \subseteq Rows
<1>1. pc[s] = "commit" /\ NewRow(s) \in Rows
  BY CommitFacts
<1>2. \A a \in rows : Left(s, a) \in Rows
  BY <1>1, LeftRows
<1>3. \A b \in rows' : b = NewRow(s) \/ \E a \in rows : b = Left(s, a)
  BY CommitFacts
<1> QED BY <1>1, <1>2, <1>3

LEMMA CommitKeepsHistory ==
  ASSUME ConfigInv, NEW s \in Writers, CommitConfig(s)
  PROVE  VersionsAreUnique' /\ NoGaps' /\ ActiveIsNewest' /\ SomeIsActive'
<1>1. /\ NewRow(s).id = s /\ NewRow(s).scope = scope[s] /\ NewRow(s).active
      /\ NewRow(s).version = NextVersion(s)
  BY DEF NewRow
<1>2. /\ NextVersion(s) \in Nat \ {0}
      /\ \A a \in rows : a.scope = scope[s] => a.version < NextVersion(s)
      /\ NextVersion(s) = 1 \/ \E a \in rows : a.scope = scope[s] /\ a.version = NextVersion(s) - 1
  BY CommitFacts, NextVersionIsNext
<1>3. \A a \in rows : /\ Left(s, a).version = a.version /\ Left(s, a).scope = a.scope
                      /\ a.version \in Nat \ {0}
                      /\ a.scope = scope[s] => Left(s, a).active = FALSE
                      /\ a.scope # scope[s] => Left(s, a) = a
  <2>1. pc[s] = "commit"
    BY CommitFacts
  <2>2. \A a \in rows : /\ SameRow(Left(s, a), a) /\ a \in Rows
                        /\ a.scope = scope[s] => Left(s, a).active = FALSE
                        /\ a.scope # scope[s] => Left(s, a) = a
    BY <2>1, LeftRows DEF ConfigInv, ConfigTypeOK
  <2> QED BY <2>2 DEF SameRow, Rows
<1>4. \A b \in rows' : b = NewRow(s) \/ \E a \in rows : b = Left(s, a)
  BY CommitFacts
<1>5. NewRow(s) \in rows' /\ \A a \in rows : Left(s, a) \in rows'
  BY CommitFacts
<1>6. VersionsAreUnique'
  <2> SUFFICES ASSUME NEW b \in rows', NEW c \in rows', b.scope = c.scope, b.version = c.version
               PROVE  b = c
    BY DEF VersionsAreUnique
  <2>1. CASE b = NewRow(s) \/ c = NewRow(s)
    BY <2>1, <1>1, <1>2, <1>3, <1>4
  <2>2. ASSUME NEW a \in rows, b = Left(s, a), NEW d \in rows, c = Left(s, d)
        PROVE  b = c
    BY <2>2, <1>3 DEF ConfigInv, WriterInv, VersionsAreUnique
  <2> QED BY <2>1, <2>2, <1>4
<1>7. NoGaps'
  <2> SUFFICES ASSUME NEW b \in rows', NEW v \in 1..b.version
               PROVE  \E c \in rows' : c.scope = b.scope /\ c.version = v
    BY DEF NoGaps
  <2>1. ASSUME NEW a \in rows, a.scope = b.scope, v \in 1..a.version
        PROVE  \E c \in rows' : c.scope = b.scope /\ c.version = v
    <3>1. PICK d \in rows : d.scope = a.scope /\ d.version = v
      BY <2>1 DEF ConfigInv, WriterInv, NoGaps
    <3> QED BY <2>1, <3>1, <1>3, <1>5
  <2>2. CASE b = NewRow(s)
    <3>1. CASE v = NextVersion(s)
      BY <2>2, <3>1, <1>1, <1>5
    <3>2. CASE v # NextVersion(s)
      <4>1. v \in 1..(NextVersion(s) - 1)
        BY <2>2, <3>2, <1>1, <1>2
      <4>2. PICK a \in rows : a.scope = scope[s] /\ a.version = NextVersion(s) - 1
        BY <4>1, <1>2
      <4> QED BY <2>1, <2>2, <4>1, <4>2, <1>1
    <3> QED BY <3>1, <3>2
  <2>3. ASSUME NEW a \in rows, b = Left(s, a)
        PROVE  \E c \in rows' : c.scope = b.scope /\ c.version = v
    BY <2>1, <2>3, <1>3
  <2> QED BY <2>2, <2>3, <1>4
<1>8. ActiveIsNewest'
  <2> SUFFICES ASSUME NEW b \in rows'
               PROVE  b.active <=> \A c \in rows' : c.scope = b.scope => c.version <= b.version
    BY DEF ActiveIsNewest
  <2>1. CASE b = NewRow(s)
    <3>1. \A c \in rows' : c.scope = b.scope => c.version <= b.version
      BY <2>1, <1>1, <1>2, <1>3, <1>4
    <3> QED BY <2>1, <3>1, <1>1
  <2>2. ASSUME NEW a \in rows, b = Left(s, a), a.scope = scope[s]
        PROVE  b.active = FALSE /\ ~ (NewRow(s).version <= b.version) /\ NewRow(s).scope = b.scope
    BY <2>2, <1>1, <1>2, <1>3
  <2>3. ASSUME NEW a \in rows, b = Left(s, a), a.scope # scope[s]
        PROVE  b.active <=> \A c \in rows' : c.scope = b.scope => c.version <= b.version
    <3>1. b = a
      BY <2>3, <1>3
    <3>2. (\A c \in rows' : c.scope = a.scope => c.version <= a.version)
            <=> (\A d \in rows : d.scope = a.scope => d.version <= a.version)
      BY <2>3, <1>1, <1>3, <1>4, <1>5
    <3> QED BY <3>1, <3>2 DEF ConfigInv, WriterInv, ActiveIsNewest
  <2> QED BY <2>1, <2>2, <2>3, <1>4, <1>5
<1>9. SomeIsActive'
  <2> SUFFICES ASSUME NEW b \in rows'
               PROVE  \E c \in rows' : c.scope = b.scope /\ c.active
    BY DEF SomeIsActive
  <2>1. CASE b.scope = scope[s]
    BY <2>1, <1>1, <1>5
  <2>2. CASE b.scope # scope[s]
    <3>1. PICK a \in rows : b = Left(s, a) /\ a.scope = b.scope
      BY <2>2, <1>1, <1>3, <1>4
    <3>2. PICK d \in rows : d.scope = a.scope /\ d.active
      BY DEF ConfigInv, WriterInv, SomeIsActive
    <3> QED BY <2>2, <3>1, <3>2, <1>3, <1>5
  <2> QED BY <2>1, <2>2
<1> QED BY <1>6, <1>7, <1>8, <1>9

LEMMA CommitKeepsWriterInv ==
  ASSUME ConfigInv, NEW s \in Writers, CommitConfig(s)
  PROVE  WriterInv'
<1> USE CommitFacts, Disjoint
<1>0. \A a \in rows : /\ SameRow(Left(s, a), a)
                      /\ a.scope # scope[s] => Left(s, a) = a
  <2>1. pc[s] = "commit"
    OBVIOUS
  <2> QED BY <2>1, LeftRows
<1>1. /\ \A b \in rows' : b.id = s \/ \E a \in rows : b = Left(s, a) /\ SameRow(b, a)
      /\ \A b \in rows' : b.id = s => b = NewRow(s)
      /\ \A a \in rows : a.id # s
  <2>1. \A a \in rows : a.id # s
    BY DEF ConfigInv, WriterInv, IdsAreUnique
  <2>2. NewRow(s).id = s
    BY DEF NewRow
  <2>3. \A b \in rows' : b = NewRow(s) \/ \E a \in rows : b = Left(s, a)
    OBVIOUS
  <2>4. \A a \in rows : SameRow(Left(s, a), a) /\ Left(s, a).id # s
    BY <1>0, <2>1 DEF SameRow
  <2> QED BY <2>1, <2>2, <2>3, <2>4
<1>2. IdsAreUnique'
  <2>1. \A b \in rows' : pc'[b.id] = "done"
    <3> TAKE b \in rows'
    <3>1. CASE b.id = s
      BY <3>1
    <3>2. ASSUME NEW a \in rows, SameRow(b, a)
          PROVE  pc'[b.id] = "done"
      <4>1. a.id \in Sessions /\ pc[a.id] = "done" /\ a.id # s /\ b.id = a.id
        BY <1>1, <3>2 DEF ConfigInv, WriterInv, IdsAreUnique, ConfigTypeOK, Rows, SameRow
      <4> QED BY <4>1
    <3> QED BY <3>1, <3>2, <1>1
  <2>2. ASSUME NEW b \in rows', NEW c \in rows', b.id = c.id
        PROVE  b = c
    <3>1. CASE b.id = s
      BY <1>1, <2>2, <3>1
    <3>2. CASE b.id # s
      <4>1. PICK a \in rows : b = Left(s, a) /\ SameRow(b, a)
        BY <1>1, <3>2
      <4>2. PICK d \in rows : c = Left(s, d) /\ SameRow(c, d)
        BY <1>1, <2>2, <3>2
      <4>3. a = d
        BY <2>2, <4>1, <4>2 DEF SameRow, ConfigInv, WriterInv, IdsAreUnique
      <4> QED BY <4>1, <4>2, <4>3
    <3> QED BY <3>1, <3>2
  <2> QED BY <2>1, <2>2 DEF IdsAreUnique
<1>3. FoundIsOnRecord'
  <2> SUFFICES ASSUME NEW t \in Writers, t # s, found[t] # None,
                      pc[t] \in { "deactivate", "insert", "reread", "commit" }
               PROVE  found[t].scope = scope[t] /\ \E row \in rows' : SameRow(row, found[t])
    BY DEF FoundIsOnRecord, SameRow
  <2>1. PICK a \in rows : SameRow(a, found[t])
    BY DEF ConfigInv, WriterInv, FoundIsOnRecord
  <2>2. SameRow(Left(s, a), found[t]) /\ Left(s, a) \in rows'
    BY <1>0, <2>1 DEF SameRow
  <2> QED BY <2>2 DEF ConfigInv, WriterInv, FoundIsOnRecord
\* Another session about to commit writes another scope: its rivals are as before.
<1>4. InsertersAreAlone'
  <2> SUFFICES ASSUME NEW t \in Writers, Inserting(t)'
               PROVE  /\ Rivals(t)' = {}
                      /\ \A u \in Writers \ {t} : Inserting(u)' => scope[u] # scope[t]
    BY DEF InsertersAreAlone
  <2>1. \A u \in Writers : Inserting(u)' => u # s /\ Inserting(u)
    BY DEF Inserting
  <2>2. scope[t] # scope[s] /\ Rivals(t) = {}
    BY <2>1 DEF ConfigInv, WriterInv, InsertersAreAlone, Inserting
  <2>3. Rivals(t)' = {}
    <3> SUFFICES ASSUME NEW b \in rows', b.active, b.scope = scope[t]
                 PROVE  Touches(t, b)'
      BY DEF Rivals, ActiveIn, Active
    <3>1. PICK a \in rows : b = Left(s, a)
      <4>1. b # NewRow(s)
        BY <2>2 DEF NewRow
      <4> QED BY <4>1
    <3>2. b = a
      BY <1>0, <2>2, <3>1 DEF SameRow
    <3>3. Touches(t, b)
      BY <2>2, <3>2 DEF Rivals, ActiveIn, Active
    <3> QED BY <2>1, <3>3 DEF Touches, Deactivating
  <2> QED BY <2>1, <2>3 DEF ConfigInv, WriterInv, InsertersAreAlone
<1>5. PutsAreKept'
  <2> SUFFICES ASSUME NEW t \in Putters, pc'[t] = "done"
               PROVE  \E row \in rows' : row.id = t /\ row.scope = scope[t]
    BY DEF PutsAreKept
  <2>1. CASE t = s
    BY <2>1 DEF NewRow
  <2>2. CASE t # s
    <3>1. PICK a \in rows : a.id = t /\ a.scope = scope[t]
      BY <2>2 DEF ConfigInv, WriterInv, PutsAreKept
    <3>2. SameRow(Left(s, a), a) /\ Left(s, a) \in rows'
      BY <1>0, <3>1
    <3> QED BY <3>1, <3>2 DEF SameRow
  <2> QED BY <2>1, <2>2
<1> QED BY <1>2, <1>3, <1>4, <1>5, CommitKeepsHistory DEF WriterInv

-----------------------------------------------------------------------------
(* Evaluations.                                                            *)

\* What EvaluationsRemember says of one evaluation.
Remembers(d) ==
  /\ \A own \in was[d].start : \E row \in rows : row.scope = own.scope
  /\ pc[d] \in { "own", "global", "file" } =>
       Active(rows) \subseteq was[d].since /\ scope[d] \in Merchants
  /\ pc[d] = "global" => \A own \in was[d].start : own.scope # scope[d]
  /\ pc[d] = "missing" => \A own \in was[d].start : own.scope # Global
  /\ pc[d] = "file" =>
       /\ found[d] \in was[d].since
       /\ found[d].scope \in { scope[d], Global }
       /\ found[d].scope = Global => \A own \in was[d].start : own.scope # scope[d]

LEMMA RemembersAll == EvaluationsRemember <=> \A d \in Deciders : Remembers(d)
BY DEF EvaluationsRemember, Remembers

\* A scope without a version in force never had one.
LEMMA NoneActiveNone ==
  ASSUME ConfigInv, NEW sc, ActiveIn(rows, sc) = {}
  PROVE  \A d \in Deciders : \A own \in was[d].start : own.scope # sc
<1>1. \A row \in rows : row.scope # sc
  BY DEF ActiveIn, Active, ConfigInv, WriterInv, SomeIsActive
<1> QED BY <1>1 DEF ConfigInv, DeciderInv, EvaluationsRemember

LEMMA EvaluationStep ==
  ASSUME ConfigInv, NEW d \in Deciders, SessionStep(d)
  PROVE  Remembers(d)'
<1>1. /\ UNCHANGED rows /\ d \in Sessions /\ d \notin Writers
      /\ pc' \in [Sessions -> Pcs]
      /\ Remembers(d)
  BY SessionStepFacts, Disjoint, RemembersAll DEF ConfigInv, DeciderInv
<1>2. CASE BeginEvaluation(d)
  <2>1. was'[d] = [start |-> Active(rows), since |-> Active(rows)] /\ pc'[d] = "own" /\ scope'[d] \in Merchants
    BY <1>1, <1>2 DEF BeginEvaluation, Go, ConfigInv, ConfigTypeOK
  <2> QED BY <1>1, <2>1 DEF Remembers, Active
<1>3. CASE ReadOwn(d)
  <2>1. /\ UNCHANGED <<was, scope>> /\ pc[d] = "own"
        /\ pc'[d] = IF ActiveIn(rows, scope[d]) = {} THEN "global" ELSE "file"
        /\ found'[d] \in ScalarOneOrNone(ActiveIn(rows, scope[d]))
    BY <1>1, <1>3 DEF ReadOwn, Go, ConfigInv, ConfigTypeOK
  <2>2. CASE ActiveIn(rows, scope[d]) = {}
    BY <1>1, <2>1, <2>2, NoneActiveNone DEF Remembers
  <2>3. CASE ActiveIn(rows, scope[d]) # {}
    <3>1. pc'[d] = "file" /\ found'[d] \in Active(rows) /\ found'[d].scope = scope[d]
      BY <2>1, <2>3 DEF ScalarOneOrNone, ActiveIn
    <3>2. scope[d] # Global
      BY <1>1, <2>1, PolicyConfigsAssumption DEF Remembers
    <3> QED BY <1>1, <2>1, <3>1, <3>2 DEF Remembers
  <2> QED BY <2>2, <2>3
<1>4. CASE ReadGlobal(d)
  <2>1. /\ UNCHANGED <<was, scope>> /\ pc[d] = "global"
        /\ pc'[d] = IF ActiveIn(rows, Global) = {} THEN "missing" ELSE "file"
        /\ found'[d] \in ScalarOneOrNone(ActiveIn(rows, Global))
    BY <1>1, <1>4 DEF ReadGlobal, Go, ConfigInv, ConfigTypeOK
  <2>2. CASE ActiveIn(rows, Global) = {}
    BY <1>1, <2>1, <2>2, NoneActiveNone DEF Remembers
  <2>3. CASE ActiveIn(rows, Global) # {}
    <3>1. pc'[d] = "file" /\ found'[d] \in Active(rows) /\ found'[d].scope = Global
      BY <2>1, <2>3 DEF ScalarOneOrNone, ActiveIn
    <3> QED BY <1>1, <2>1, <3>1 DEF Remembers
  <2> QED BY <2>2, <2>3
<1>5. CASE FileDecision(d) \/ FailConfig(d)
  <2>1. UNCHANGED <<was, scope>> /\ pc'[d] \in { "done", "failed" }
    BY <1>1, <1>5 DEF FileDecision, FailConfig, Go, ConfigInv, ConfigTypeOK
  <2> QED BY <1>1, <2>1 DEF Remembers
<1> QED BY <1>1, <1>2, <1>3, <1>4, <1>5, Disjoint DEF SessionStep

\* A filed decision names the row that was found; those on file stay as they are.
LEMMA FiledStep ==
  ASSUME ConfigInv, NEW s \in Sessions, SessionStep(s)
  PROVE  DecidersAreDone' /\ DecisionWasInForce'
<1>1. /\ \A dec \in decisions : dec.by \in Deciders /\ dec.by \in Sessions /\ pc[dec.by] = "done"
      /\ pc[s] # "done"
      /\ \A t \in Sessions : t # s => pc'[t] = pc[t] /\ scope'[t] = scope[t]
  BY SessionStepFacts, Disjoint DEF ConfigInv, ConfigTypeOK, DeciderInv, DecidersAreDone
<1>2. \A t \in Deciders : t # s => was'[t] = was[t]
  BY SessionStepFacts DEF SessionStep, BeginEvaluation, ReadOwn, ReadGlobal, FileDecision, FailConfig,
    BeginPut, Seed, ReadCurrent, Deactivate, Insert, Reread, ConfigInv, ConfigTypeOK
<1>3. \A dec \in decisions :
        dec.by # s /\ pc'[dec.by] = "done" /\ scope'[dec.by] = scope[dec.by] /\ was'[dec.by] = was[dec.by]
  BY <1>1, <1>2
<1>4. CASE s \in Deciders /\ FileDecision(s)
  <2> DEFINE dec == [by |-> s, config |-> found[s].id, version |-> found[s].version]
  <2>1. /\ decisions' = decisions \cup { dec } /\ pc'[s] = "done"
        /\ UNCHANGED <<was, scope>> /\ pc[s] = "file"
    BY <1>4, Disjoint DEF FileDecision, Go, ConfigInv, ConfigTypeOK
  <2>2. Remembers(s)
    BY <1>4, RemembersAll DEF ConfigInv, DeciderInv
  <2>3. /\ dec.by = s
        /\ found[s] \in was[s].since
        /\ found[s].id = dec.config /\ found[s].version = dec.version
        /\ found[s].scope \in { scope[s], Global }
        /\ found[s].scope = Global => \A own \in was[s].start : own.scope # scope[s]
    BY <2>1, <2>2 DEF Remembers
  <2> HIDE DEF dec
  <2>4. DecidersAreDone'
    BY <1>3, <2>1, <2>3 DEF DecidersAreDone
  <2>5. DecisionWasInForce'
    BY <2>1, <2>3 DEF DecisionWasInForce, ConfigInv, DeciderInv
  <2> QED BY <2>4, <2>5
<1>5. CASE UNCHANGED decisions
  BY <1>3, <1>5 DEF DecidersAreDone, DecisionWasInForce, ConfigInv, DeciderInv
<1> QED BY <1>4, <1>5 DEF SessionStep, BeginPut, Seed, ReadCurrent, Deactivate, Insert, Reread,
    BeginEvaluation, ReadOwn, ReadGlobal, FailConfig

LEMMA SessionStepKeepsDeciderInv ==
  ASSUME ConfigInv, NEW s \in Sessions, SessionStep(s)
  PROVE  DeciderInv'
<1>1. ASSUME NEW d \in Deciders, d # s
      PROVE  Remembers(d)'
  <2>1. was'[d] = was[d]
    BY <1>1, SessionStepFacts DEF SessionStep, BeginEvaluation, ReadOwn, ReadGlobal, FileDecision,
      FailConfig, BeginPut, Seed, ReadCurrent, Deactivate, Insert, Reread, ConfigInv, ConfigTypeOK
  <2>2. UNCHANGED rows /\ pc'[d] = pc[d] /\ found'[d] = found[d] /\ scope'[d] = scope[d]
    BY <1>1, SessionStepFacts, Disjoint DEF ConfigInv
  <2>3. Remembers(d)
    BY RemembersAll DEF ConfigInv, DeciderInv
  <2> QED BY <2>1, <2>2, <2>3 DEF Remembers
<1>2. EvaluationsRemember'
  <2>1. \A d \in Deciders : Remembers(d)'
    BY <1>1, EvaluationStep
  <2> QED BY <2>1 DEF EvaluationsRemember, Remembers
<1> QED BY <1>2, FiledStep DEF DeciderInv

\* The history goes on for those under way, and is closed for the others.
LEMMA CommitRemembers ==
  ASSUME ConfigInv, NEW s \in Writers, CommitConfig(s), NEW d \in Deciders
  PROVE  /\ was'[d].start = was[d].start /\ was[d].since \subseteq was'[d].since
         /\ pc[d] \in { "own", "global", "file" } => Active(rows') \subseteq was'[d].since
         /\ pc'[d] = pc[d] /\ scope'[d] = scope[d] /\ found'[d] = found[d]
         /\ was'[d] \in [start : SUBSET Rows, since : SUBSET Rows]
<1>1. was[d] \in [start : SUBSET Rows, since : SUBSET Rows]
  BY DEF ConfigInv, ConfigTypeOK
<1>2. was'[d] = IF pc[d] \in { "own", "global", "file" }
                  THEN [was[d] EXCEPT !.since = @ \cup Active(rows')] ELSE was[d]
  BY DEF CommitConfig, Remember
<1>3. Active(rows') \subseteq Rows
  BY CommittedRows DEF Active
<1> QED BY <1>1, <1>2, <1>3, CommitFacts, Disjoint

LEMMA CommitKeepsTypes ==
  ASSUME ConfigInv, NEW s \in Writers, CommitConfig(s)
  PROVE  ConfigTypeOK'
<1>1. rows' \subseteq Rows
  BY CommittedRows
<1>2. was' \in [Deciders -> [start : SUBSET Rows, since : SUBSET Rows]]
  <2>1. \A d \in Deciders : was'[d] \in [start : SUBSET Rows, since : SUBSET Rows]
    BY CommitRemembers
  <2>2. was' = [d \in Deciders |-> was'[d]]
    BY DEF CommitConfig, Remember
  <2> QED BY <2>1, <2>2
<1> QED BY <1>1, <1>2, CommitFacts DEF CommitConfig, ConfigInv, ConfigTypeOK

LEMMA CommitKeepsDeciderInv ==
  ASSUME ConfigInv, NEW s \in Writers, CommitConfig(s)
  PROVE  DeciderInv'
<1>1. UNCHANGED decisions
  BY DEF CommitConfig
<1>2. \A a \in rows : \E b \in rows' : b.scope = a.scope
  <2>1. pc[s] = "commit" /\ \A a \in rows : Left(s, a) \in rows'
    BY CommitFacts
  <2>2. \A a \in rows : SameRow(Left(s, a), a)
    BY <2>1, LeftRows
  <2> QED BY <2>1, <2>2 DEF SameRow
<1>3. ASSUME NEW d \in Deciders
      PROVE  Remembers(d)'
  <2>1. Remembers(d)
    BY RemembersAll DEF ConfigInv, DeciderInv
  <2>2. /\ was'[d].start = was[d].start /\ was[d].since \subseteq was'[d].since
        /\ pc[d] \in { "own", "global", "file" } => Active(rows') \subseteq was'[d].since
        /\ pc'[d] = pc[d] /\ scope'[d] = scope[d] /\ found'[d] = found[d]
    BY CommitRemembers
  <2>3. \A own \in was'[d].start : \E row \in rows' : row.scope = own.scope
    BY <1>2, <2>1, <2>2 DEF Remembers
  <2> QED BY <2>1, <2>2, <2>3 DEF Remembers, Active
<1>4. EvaluationsRemember'
  BY <1>3 DEF EvaluationsRemember, Remembers
<1>5. \A dec \in decisions : /\ dec.by \in Deciders /\ pc'[dec.by] = pc[dec.by]
                             /\ scope'[dec.by] = scope[dec.by]
                             /\ was'[dec.by].start = was[dec.by].start
                             /\ was[dec.by].since \subseteq was'[dec.by].since
  BY CommitRemembers DEF ConfigInv, ConfigTypeOK
<1>6. DecidersAreDone'
  BY <1>1, <1>5 DEF DecidersAreDone, ConfigInv, DeciderInv
<1>7. DecisionWasInForce'
  BY <1>1, <1>5 DEF DecisionWasInForce, ConfigInv, DeciderInv
<1> QED BY <1>4, <1>6, <1>7 DEF DeciderInv

-----------------------------------------------------------------------------
\* The invariant holds in every state of every run.
THEOREM SpecConfigInv == ConfigSpec => []ConfigInv
<1>1. ConfigInv /\ [ConfigNext]_configVars => ConfigInv'
  <2> SUFFICES ASSUME ConfigInv, [ConfigNext]_configVars
               PROVE  ConfigInv'
    OBVIOUS
  <2>1. ASSUME NEW s \in Sessions, SessionStep(s)
        PROVE  ConfigInv'
    BY <2>1, SessionStepType, SessionStepKeepsWriterInv, SessionStepKeepsDeciderInv DEF ConfigInv
  <2>2. ASSUME NEW s \in Writers, CommitConfig(s)
        PROVE  ConfigInv'
    BY <2>2, CommitKeepsTypes, CommitKeepsWriterInv, CommitKeepsDeciderInv DEF ConfigInv
  <2>3. CASE UNCHANGED configVars
    BY <2>3 DEF configVars, ConfigInv, ConfigTypeOK, WriterInv, DeciderInv, IdsAreUnique, FoundIsOnRecord,
      InsertersAreAlone, VersionsAreUnique, NoGaps, ActiveIsNewest, SomeIsActive, PutsAreKept,
      EvaluationsRemember, DecidersAreDone, DecisionWasInForce, Inserting, Deactivating, Rivals, Touches,
      ActiveIn, Active
  <2>4. ConfigNext => (\E s \in Sessions : SessionStep(s)) \/ \E s \in Writers : CommitConfig(s)
    BY Disjoint DEF ConfigNext, SessionStep, WriteStep, DecideStep
  <2> QED BY <2>1, <2>2, <2>3, <2>4
<1> QED BY <1>1, ConfigInvInit, PTL DEF ConfigSpec

\* Activations that race for a scope, and fail, leave a history without gaps or
\* forks, with its last version in force and every answered update in it.
THEOREM HistoriesAreLinear == ConfigSpec => []VersionsAreAHistory
<1>1. ConfigInv => VersionsAreAHistory
  BY DEF ConfigInv, WriterInv, VersionsAreUnique, NoGaps, ActiveIsNewest, PutsAreKept, VersionsAreAHistory
<1> QED BY <1>1, SpecConfigInv, PTL

\* An evaluation that begins when there is a default finds a configuration.
THEOREM DefaultsAreFound == ConfigSpec => []DefaultIsFound
<1>1. ConfigInv => DefaultIsFound
  BY DEF ConfigInv, DeciderInv, EvaluationsRemember, DefaultIsFound
<1> QED BY <1>1, SpecConfigInv, PTL

\* A decision names a version that was in force during its evaluation.
THEOREM DecisionsWereInForce == ConfigSpec => []DecisionWasInForce
<1>1. ConfigInv => DecisionWasInForce
  BY DEF ConfigInv, DeciderInv
<1> QED BY <1>1, SpecConfigInv, PTL

-----------------------------------------------------------------------------
(* PolicyConfigs implements VersionHistory.                                *)

\* The row a decision is about to name is on record, in force or not any more.
DecisionsWillName ==
  \A d \in Deciders : pc[d] = "file" => \E row \in rows : SameRow(row, found[d])

LEMMA DecisionsWillNameStep ==
  ASSUME ConfigInv, DecisionsWillName, [ConfigNext]_configVars
  PROVE  DecisionsWillName'
<1> SUFFICES ASSUME NEW d \in Deciders, pc'[d] = "file"
             PROVE  \E row \in rows' : SameRow(row, found'[d])
  BY DEF DecisionsWillName, SameRow
<1>1. ASSUME NEW s \in Sessions, SessionStep(s)
      PROVE  \E row \in rows' : SameRow(row, found'[d])
  <2>1. CASE s # d
    <3>1. pc'[d] = pc[d] /\ found'[d] = found[d] /\ rows' = rows
      BY <1>1, <2>1, SessionStepFacts, Disjoint DEF ConfigInv
    <3> QED BY <3>1 DEF DecisionsWillName
  <2>2. CASE s = d
    <3>1. ReadOwn(d) \/ ReadGlobal(d)
      BY <1>1, <2>2, Disjoint DEF SessionStep, BeginEvaluation, FileDecision, FailConfig, Go,
        ConfigInv, ConfigTypeOK
    <3>2. found'[d] \in rows /\ rows' = rows
      BY <3>1, Disjoint DEF ReadOwn, ReadGlobal, Go, ScalarOneOrNone, ActiveIn, Active, ConfigInv,
        ConfigTypeOK
    <3> QED BY <3>2 DEF SameRow
  <2> QED BY <2>1, <2>2
<1>2. ASSUME NEW s \in Writers, CommitConfig(s)
      PROVE  \E row \in rows' : SameRow(row, found'[d])
  <2>1. pc[d] = "file" /\ found'[d] = found[d]
    BY <1>2, CommitRemembers
  <2>2. PICK a \in rows : SameRow(a, found[d])
    BY <2>1 DEF DecisionsWillName
  <2>3. SameRow(Left(s, a), a) /\ Left(s, a) \in rows'
    BY <1>2, CommitFacts, LeftRows
  <2> QED BY <2>1, <2>2, <2>3 DEF SameRow
<1>3. CASE UNCHANGED configVars
  BY <1>3 DEF configVars, DecisionsWillName
<1>4. ConfigNext => (\E s \in Sessions : SessionStep(s)) \/ \E s \in Writers : CommitConfig(s)
  BY Disjoint DEF ConfigNext, SessionStep, WriteStep, DecideStep
<1> QED BY <1>1, <1>2, <1>3, <1>4

\* The number in force where exactly one row is in force, and where none is.
LEMMA TheOneInForce ==
  ASSUME NEW table, NEW sc, NEW row \in ActiveIn(table, sc), AtMostOne(ActiveIn(table, sc))
  PROVE  InForce(table, sc) = row.version
<1>1. (CHOOSE a \in ActiveIn(table, sc) : TRUE) \in ActiveIn(table, sc)
  OBVIOUS
<1>2. (CHOOSE a \in ActiveIn(table, sc) : TRUE) = row
  BY <1>1 DEF AtMostOne
<1> QED BY <1>2 DEF InForce

\* A commit puts the next version in force, and leaves other scopes alone.
LEMMA CommitCounts ==
  ASSUME ConfigInv, NEW s \in Writers, CommitConfig(s)
  PROVE  /\ NextVersion(s) = InForce(rows, scope[s]) + 1
         /\ InForce(rows', scope[s]) = NextVersion(s)
         /\ \A sc \in Scopes : sc # scope[s] => InForce(rows', sc) = InForce(rows, sc)
<1>1. /\ pc[s] = "commit" /\ NewRow(s) \in rows'
      /\ \A a \in rows : Left(s, a) \in rows'
      /\ \A b \in rows' : b = NewRow(s) \/ \E a \in rows : b = Left(s, a)
  BY CommitFacts
<1>2. \A a \in rows : /\ a.scope = scope[s] => Left(s, a).active = FALSE
                      /\ a.scope # scope[s] => Left(s, a) = a
                      /\ SameRow(Left(s, a), a)
  BY <1>1, LeftRows
<1>3. NewRow(s).scope = scope[s] /\ NewRow(s).active /\ NewRow(s).version = NextVersion(s)
  BY DEF NewRow
<1>4. NextVersion(s) = InForce(rows, scope[s]) + 1
  <2>1. CASE found[s] = None
    <3>1. ActiveIn(rows, scope[s]) = {}
      BY <1>1, <2>1 DEF ConfigInv, WriterInv, InsertersAreAlone, Inserting, Rivals, Touches
    <3> QED BY <2>1, <3>1 DEF InForce, NextVersion
  <2>2. CASE found[s] # None
    <3>1. PICK r \in rows : SameRow(r, found[s]) /\ r.scope = scope[s]
      BY <1>1, <2>2 DEF ConfigInv, WriterInv, FoundIsOnRecord, SameRow
    <3>2. PICK act \in ActiveIn(rows, scope[s]) : TRUE
      BY <3>1 DEF ConfigInv, WriterInv, SomeIsActive, ActiveIn, Active
    <3>3. \A a \in ActiveIn(rows, scope[s]) : a \in rows /\ a.id = r.id
      BY <1>1, <3>1 DEF ConfigInv, WriterInv, InsertersAreAlone, Inserting, Rivals, Touches, ActiveIn,
        Active, SameRow
    <3>4. \A a \in ActiveIn(rows, scope[s]) : a = r
      BY <3>1, <3>3 DEF ConfigInv, WriterInv, IdsAreUnique
    <3>5. InForce(rows, scope[s]) = r.version
      BY <3>2, <3>4, TheOneInForce DEF AtMostOne
    <3> QED BY <2>2, <3>1, <3>5 DEF NextVersion, SameRow
  <2> QED BY <2>1, <2>2
<1>5. InForce(rows', scope[s]) = NextVersion(s)
  <2>1. \A b \in ActiveIn(rows', scope[s]) : b = NewRow(s)
    BY <1>1, <1>2 DEF ActiveIn, Active, SameRow
  <2>2. NewRow(s) \in ActiveIn(rows', scope[s])
    BY <1>1, <1>3 DEF ActiveIn, Active
  <2> QED BY <1>3, <2>1, <2>2, TheOneInForce DEF AtMostOne
<1>6. ASSUME NEW sc \in Scopes, sc # scope[s]
      PROVE  InForce(rows', sc) = InForce(rows, sc)
  <2>1. ActiveIn(rows', sc) = ActiveIn(rows, sc)
    BY <1>1, <1>2, <1>3, <1>6 DEF ActiveIn, Active, SameRow
  <2> QED BY <2>1 DEF InForce
<1> QED BY <1>4, <1>5, <1>6

\* A commit issues exactly one version, and nobody else issues one.
LEMMA CommitIssues ==
  ASSUME ConfigInv, NEW s \in Writers, CommitConfig(s)
  PROVE  /\ Issued(rows') = Issued(rows) \cup
              { [by |-> s, scope |-> scope[s], version |-> NextVersion(s)] }
         /\ \A v \in Issued(rows) : v.by # s
<1>1. /\ pc[s] = "commit" /\ NewRow(s) \in rows'
      /\ \A a \in rows : Left(s, a) \in rows'
      /\ \A b \in rows' : b = NewRow(s) \/ \E a \in rows : b = Left(s, a)
  BY CommitFacts
<1>2. \A a \in rows : SameRow(Left(s, a), a) /\ a.id # s
  BY <1>1, LeftRows DEF ConfigInv, WriterInv, IdsAreUnique
<1>3. NewRow(s).id = s /\ NewRow(s).scope = scope[s] /\ NewRow(s).version = NextVersion(s)
  BY DEF NewRow
<1>4. \A v \in Issued(rows) : v.by # s
  BY <1>2 DEF Issued
<1>5. Issued(rows') \subseteq Issued(rows) \cup
        { [by |-> s, scope |-> scope[s], version |-> NextVersion(s)] }
  BY <1>1, <1>2, <1>3 DEF Issued, SameRow
<1>6. Issued(rows) \subseteq Issued(rows')
  BY <1>1, <1>2 DEF Issued, SameRow
<1>7. [by |-> s, scope |-> scope[s], version |-> NextVersion(s)] \in Issued(rows')
  BY <1>1, <1>3 DEF Issued
<1> QED BY <1>4, <1>5, <1>6, <1>7

\* A commit is PutInForce.
LEMMA CommitPutsInForce ==
  ASSUME ConfigInv, NEW s \in Writers, CommitConfig(s)
  PROVE  History!PutInForce(s, scope[s])
<1>1. scope[s] \in Scopes
  BY Disjoint DEF ConfigInv, ConfigTypeOK
<1>2. UNCHANGED decisions
  BY DEF CommitConfig
<1>3. [sc \in Scopes |-> InForce(rows', sc)] =
        [[sc \in Scopes |-> InForce(rows, sc)] EXCEPT ![scope[s]] = @ + 1]
  BY <1>1, CommitCounts
<1>4. [sc \in Scopes |-> InForce(rows, sc)][scope[s]] + 1 = NextVersion(s)
  BY <1>1, CommitCounts
<1> QED BY <1>2, <1>3, <1>4, CommitIssues DEF History!PutInForce

\* FileDecision is FileFor, of the version found.
LEMMA FileDecisionFiles ==
  ASSUME ConfigInv, DecisionsWillName, NEW d \in Deciders, FileDecision(d)
  PROVE  \E v \in Issued(rows) : History!FileFor(d, v)
<1>1. PICK row \in rows : SameRow(row, found[d])
  BY DEF FileDecision, DecisionsWillName
<1> DEFINE v == [by |-> row.id, scope |-> row.scope, version |-> row.version]
<1>2. v \in Issued(rows)
  BY DEF Issued
<1>3. \A dec \in decisions : dec.by # d
  BY DEF FileDecision, ConfigInv, DeciderInv, DecidersAreDone
<1>4. decisions' = decisions \cup { [by |-> d, config |-> v.by, version |-> v.version] }
  BY <1>1 DEF FileDecision, SameRow
<1>5. rows' = rows
  BY DEF FileDecision
<1>6. History!FileFor(d, v)
  BY <1>3, <1>4, <1>5 DEF History!FileFor
<1> QED BY <1>2, <1>6

LEMMA NextIsHistory ==
  ASSUME ConfigInv, DecisionsWillName, [ConfigNext]_configVars
  PROVE  [History!HistoryNext]_(History!historyVars)
<1>1. ASSUME NEW s \in Sessions, SessionStep(s)
      PROVE  [History!HistoryNext]_(History!historyVars)
  <2>1. CASE s \in Deciders /\ FileDecision(s)
    BY <2>1, FileDecisionFiles DEF History!HistoryNext
  <2>2. CASE UNCHANGED <<rows, decisions>>
    BY <2>2 DEF History!historyVars
  <2> QED BY <1>1, <2>1, <2>2 DEF SessionStep, BeginPut, Seed, ReadCurrent, Deactivate, Insert, Reread,
    BeginEvaluation, ReadOwn, ReadGlobal, FailConfig
<1>2. ASSUME NEW s \in Writers, CommitConfig(s)
      PROVE  [History!HistoryNext]_(History!historyVars)
  <2>1. scope[s] \in Scopes
    BY Disjoint DEF ConfigInv, ConfigTypeOK
  <2> QED BY <1>2, <2>1, CommitPutsInForce DEF History!HistoryNext
<1>3. CASE UNCHANGED configVars
  BY <1>3 DEF configVars, History!historyVars
<1>4. ConfigNext => (\E s \in Sessions : SessionStep(s)) \/ \E s \in Writers : CommitConfig(s)
  BY Disjoint DEF ConfigNext, SessionStep, WriteStep, DecideStep
<1> QED BY <1>1, <1>2, <1>3, <1>4

\* Whoever reads the table sees each scope count its versions one by one, in
\* single steps, and decisions that name one of them, whatever the sessions do.
THEOREM ImplementsHistory == ConfigSpec => VersionsAdvance
<1>1. ConfigInit => History!HistoryInit /\ DecisionsWillName
  BY Disjoint DEF ConfigInit, History!HistoryInit, DecisionsWillName, InForce, Issued, ActiveIn, Active
<1>2. ConfigInv /\ DecisionsWillName /\ [ConfigNext]_configVars =>
        DecisionsWillName' /\ [History!HistoryNext]_(History!historyVars)
  BY DecisionsWillNameStep, NextIsHistory
<1>3. ConfigSpec => []DecisionsWillName
  BY <1>1, <1>2, SpecConfigInv, PTL DEF ConfigSpec
<1> QED BY <1>1, <1>2, <1>3, SpecConfigInv, PTL DEF ConfigSpec, VersionsAdvance, History!HistorySpec
=============================================================================
