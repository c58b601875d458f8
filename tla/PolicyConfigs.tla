---------------------------- MODULE PolicyConfigs ----------------------------
(***************************************************************************)
(* The versions of the policy configuration.  Each scope, a merchant or    *)
(* the global default, has at most one row with is_active, which a partial *)
(* unique index of PostgreSQL enforces.  Reviewers put new versions in     *)
(* force, the seed script creates the first one, and evaluations read the  *)
(* active one and file a decision that names it.  Sessions run at READ     *)
(* COMMITTED: every statement sees what is committed when it starts and    *)
(* what its own session wrote, and waits for rows another session holds.   *)
(***************************************************************************)
EXTENDS Naturals

CONSTANTS
  Merchants, Global,   \* the scopes; Global is the NULL merchant_id
  Putters,             \* sessions of PUT /policy/config
  Seeders,             \* sessions of ensure_default_global_config
  Deciders,            \* sessions that evaluate a case and file a decision
  None

Writers == Putters \cup Seeders
Sessions == Writers \cup Deciders
Scopes == Merchants \cup { Global }

Rows == [id : Writers, scope : Scopes, version : Nat \ { 0 }, active : BOOLEAN]

ASSUME PolicyConfigsAssumption ==
  /\ Global \notin Merchants
  /\ Putters \cap Seeders = {} /\ Writers \cap Deciders = {}
  /\ None \notin Rows

VARIABLES
  rows,       \* committed rows of policy_configs; a row's id is its writer
  decisions,  \* committed rows of policy_decisions
  pc,         \* what each session does next
  scope,      \* the scope a session writes, or the merchant it evaluates
  found,      \* the row a session's last select returned, or None
  was         \* history: what was in force when an evaluation began and since

configVars == <<rows, decisions, pc, scope, found, was>>

Active(table) == { row \in table : row.active }
ActiveIn(table, sc) == { row \in Active(table) : row.scope = sc }

\* scalar_one_or_none, which raises MultipleResultsFound for the rest.
ScalarOneOrNone(S) == IF S = {} THEN { None } ELSE S
AtMostOne(S) == \A a, b \in S : a = b

-----------------------------------------------------------------------------
(* What a session has written and not yet committed.                       *)

\* Mutant: a session that failed is not rolled back.
InsertingUntilClosed(s) == pc[s] \in { "reread", "commit", "failed" }

Deactivating(s) == pc[s] \in { "insert", "reread", "commit" }
Inserting(s) == pc[s] \in { "reread", "commit" }

NextVersion(s) == IF found[s] = None THEN 1 ELSE found[s].version + 1

\* The table as s sees it after its deactivation and its insertion.
Written(s) ==
  { IF found[s] # None /\ row.id = found[s].id
      THEN [row EXCEPT !.active = FALSE] ELSE row : row \in rows }
  \cup { [id |-> s, scope |-> scope[s], version |-> NextVersion(s), active |-> TRUE] }

Touches(t, row) == Deactivating(t) /\ found[t] # None /\ found[t].id = row.id

\* The committed rows that hold the index entry s wants to insert.
Rivals(s) == { row \in ActiveIn(rows, scope[s]) : ~ Touches(s, row) }

\* Another session has a change of that entry open, so that s has to wait.
EntryIsHeld(s) ==
  \E t \in Writers \ { s } :
    \/ Inserting(t) /\ scope[t] = scope[s]
    \/ \E row \in Rivals(s) : Touches(t, row)

Go(s, at) == pc' = [pc EXCEPT ![s] = at]

\* The history goes on for the evaluations that are under way.
Remember(table) ==
  was' = [d \in Deciders |->
            IF pc[d] \in { "own", "global", "file" }
              THEN [was[d] EXCEPT !.since = @ \cup Active(table)] ELSE was[d]]

-----------------------------------------------------------------------------
ConfigInit ==
  /\ rows = {}
  /\ decisions = {}
  /\ pc = [s \in Sessions |-> "start"]
  /\ scope = [s \in Sessions |-> Global]
  /\ found = [s \in Sessions |-> None]
  /\ was = [d \in Deciders |-> [start |-> {}, since |-> {}]]

BeginPut(s) ==
  /\ pc[s] = "start"
  /\ \E sc \in Scopes : scope' = [scope EXCEPT ![s] = sc]
  /\ Go(s, "read")
  /\ UNCHANGED <<rows, decisions, found, was>>

\* ensure_default_global_config stops when it finds a row ...
Seed(s) ==
  /\ pc[s] = "start"
  /\ AtMostOne(ActiveIn(rows, Global))
  /\ Go(s, IF ActiveIn(rows, Global) = {} THEN "read" ELSE "done")
  /\ UNCHANGED <<rows, decisions, scope, found, was>>

\* ... and otherwise lets activate_new_version look again.
ReadCurrent(s) ==
  /\ pc[s] = "read"
  /\ AtMostOne(ActiveIn(rows, scope[s]))
  /\ \E row \in ScalarOneOrNone(ActiveIn(rows, scope[s])) :
       found' = [found EXCEPT ![s] = row]
  /\ Go(s, "deactivate")
  /\ UNCHANGED <<rows, decisions, scope, was>>

\* Mutant: a commit where the flush is, between the two statements.
DeactivateAndCommit(s) ==
  LET table == { IF found[s] # None /\ row.id = found[s].id
                   THEN [row EXCEPT !.active = FALSE] ELSE row : row \in rows } IN
  /\ pc[s] = "deactivate"
  /\ ~ \E t \in Writers \ { s } : found[s] # None /\ Touches(t, found[s])
  /\ rows' = table
  /\ Remember(table)
  /\ Go(s, "insert")
  /\ UNCHANGED <<decisions, scope, found>>

\* The flush updates before it inserts.  The update waits for a session that
\* holds the row, and then finds the row by its id whatever became of it.
Deactivate(s) ==
  /\ pc[s] = "deactivate"
  /\ ~ \E t \in Writers \ { s } : found[s] # None /\ Touches(t, found[s])
  /\ Go(s, "insert")
  /\ UNCHANGED <<rows, decisions, scope, found, was>>

\* Mutant: the index tells one NULL from another.
InsertNullsDistinct(s) ==
  /\ pc[s] = "insert"
  /\ scope[s] # Global => ~ EntryIsHeld(s)
  /\ Go(s, IF scope[s] # Global /\ Rivals(s) # {} THEN "failed"
           ELSE IF s \in Putters THEN "reread" ELSE "commit")
  /\ UNCHANGED <<rows, decisions, scope, found, was>>

\* The insert: an IntegrityError when an active row of the scope is in the way.
Insert(s) ==
  /\ pc[s] = "insert"
  /\ ~ EntryIsHeld(s)
  /\ Go(s, IF Rivals(s) # {} THEN "failed"
           ELSE IF s \in Putters THEN "reread" ELSE "commit")
  /\ UNCHANGED <<rows, decisions, scope, found, was>>

\* The endpoint answers with what get_active_config now finds in its session.
Reread(s) ==
  /\ pc[s] = "reread"
  /\ AtMostOne(ActiveIn(Written(s), scope[s]))
  /\ Go(s, "commit")
  /\ UNCHANGED <<rows, decisions, scope, found, was>>

CommitConfig(s) ==
  /\ pc[s] = "commit"
  /\ rows' = Written(s)
  /\ Remember(Written(s))
  /\ found' = [found EXCEPT ![s] = None]
  /\ Go(s, "done")
  /\ UNCHANGED <<decisions, scope>>

\* Any statement may fail, and so may the process: get_db rolls back.
FailConfig(s) ==
  /\ pc[s] \notin { "start", "done", "failed", "missing" }
  /\ found' = [found EXCEPT ![s] = None]
  /\ Go(s, "failed")
  /\ UNCHANGED <<rows, decisions, scope, was>>

-----------------------------------------------------------------------------
BeginEvaluation(d) ==
  /\ pc[d] = "start"
  /\ \E m \in Merchants : scope' = [scope EXCEPT ![d] = m]
  /\ was' = [was EXCEPT ![d] = [start |-> Active(rows), since |-> Active(rows)]]
  /\ Go(d, "own")
  /\ UNCHANGED <<rows, decisions, found>>

\* Mutant: the default is looked up first.
ReadDefaultOnly(d) ==
  /\ pc[d] = "own"
  /\ found' = found
  /\ Go(d, "global")
  /\ UNCHANGED <<rows, decisions, scope, was>>

\* get_active_config looks for the merchant's own row ...
ReadOwn(d) ==
  /\ pc[d] = "own"
  /\ AtMostOne(ActiveIn(rows, scope[d]))
  /\ \E row \in ScalarOneOrNone(ActiveIn(rows, scope[d])) :
       found' = [found EXCEPT ![d] = row]
  /\ Go(d, IF ActiveIn(rows, scope[d]) = {} THEN "global" ELSE "file")
  /\ UNCHANGED <<rows, decisions, scope, was>>

\* ... and in a second statement for the default; without one it raises.
ReadGlobal(d) ==
  /\ pc[d] = "global"
  /\ AtMostOne(ActiveIn(rows, Global))
  /\ \E row \in ScalarOneOrNone(ActiveIn(rows, Global)) :
       found' = [found EXCEPT ![d] = row]
  /\ Go(d, IF ActiveIn(rows, Global) = {} THEN "missing" ELSE "file")
  /\ UNCHANGED <<rows, decisions, scope, was>>

\* persist_policy_decision and the commit of the evaluation.
FileDecision(d) ==
  /\ pc[d] = "file"
  /\ decisions' = decisions \cup { [by |-> d, config |-> found[d].id,
                                    version |-> found[d].version] }
  /\ found' = [found EXCEPT ![d] = None]
  /\ Go(d, "done")
  /\ UNCHANGED <<rows, scope, was>>

-----------------------------------------------------------------------------
WriteStep(s) ==
  ReadCurrent(s) \/ Deactivate(s) \/ Insert(s) \/ Reread(s) \/ CommitConfig(s)

DecideStep(d) == ReadOwn(d) \/ ReadGlobal(d) \/ FileDecision(d)

ConfigNext ==
  \/ \E s \in Putters : BeginPut(s)
  \/ \E s \in Seeders : Seed(s)
  \/ \E s \in Writers : WriteStep(s)
  \/ \E d \in Deciders : BeginEvaluation(d)
  \/ \E d \in Deciders : DecideStep(d)
  \/ \E s \in Sessions : FailConfig(s)

ConfigSpec == ConfigInit /\ [][ConfigNext]_configVars

\* A session that has begun goes on; PostgreSQL wakes a waiter up.
ConfigFairSpec ==
  /\ ConfigSpec
  /\ \A s \in Writers : WF_configVars(WriteStep(s))
  /\ \A d \in Deciders : WF_configVars(DecideStep(d))

-----------------------------------------------------------------------------
Pcs == { "start", "read", "deactivate", "insert", "reread", "commit",
         "own", "global", "file", "done", "failed", "missing" }

ConfigTypeOK ==
  /\ rows \subseteq Rows
  /\ decisions \subseteq [by : Deciders, config : Writers, version : Nat \ { 0 }]
  /\ pc \in [Sessions -> Pcs]
  /\ scope \in [Sessions -> Scopes]
  /\ found \in [Sessions -> Rows \cup { None }]
  /\ was \in [Deciders -> [start : SUBSET Rows, since : SUBSET Rows]]

\* However activations of one scope interleave and fail, what is committed is a
\* history without gaps or forks: versions 1 to n once each, and n in force; an
\* update that was answered is part of it and stays there.
VersionsAreAHistory ==
  /\ \A sc \in Scopes :
       LET mine == { row \in rows : row.scope = sc } IN
       /\ \A a, b \in mine : a.version = b.version => a = b
       /\ \A a \in mine : \A v \in 1..a.version : \E b \in mine : b.version = v
       /\ \A a \in mine : a.active <=> \A b \in mine : b.version <= a.version
  /\ \A s \in Putters : pc[s] = "done" => \E row \in rows : row.id = s /\ row.scope = scope[s]

\* An evaluation that begins when there is a default always finds a
\* configuration: no activation leaves a moment without one.
DefaultIsFound ==
  \A d \in Deciders :
    pc[d] = "missing" => \A row \in was[d].start : row.scope # Global

\* A decision names a version that was in force during its evaluation, and it
\* names the default only when the merchant had no configuration of its own.
DecisionWasInForce ==
  \A dec \in decisions :
    \E row \in was[dec.by].since :
      /\ row.id = dec.config /\ row.version = dec.version
      /\ row.scope \in { scope[dec.by], Global }
      /\ row.scope = Global => \A own \in was[dec.by].start : own.scope # scope[dec.by]

\* The version in force in a scope, as a reader of the table counts it.
InForce(table, sc) ==
  IF ActiveIn(table, sc) = {} THEN 0 ELSE (CHOOSE row \in ActiveIn(table, sc) : TRUE).version

Issued(table) == { [by |-> row.id, scope |-> row.scope, version |-> row.version] : row \in table }

\* The sessions, with their index, their locks and their failures, implement one
\* counter per scope: whoever reads the table sees a version give way to the
\* next in a single step, never a gap, a fork or a moment without one, and every
\* decision names a version that was issued (module VersionHistory).
History == INSTANCE VersionHistory
  WITH issued  <- Issued(rows),
       inForce <- [sc \in Scopes |-> InForce(rows, sc)],
       filed   <- decisions

VersionsAdvance == History!HistorySpec

\* Waiting for each other's rows and index entries, sessions always finish.
PutIsAnswered ==
  \A s \in Writers : pc[s] = "read" ~> pc[s] \in { "done", "failed" }
=============================================================================
