---------------------------- MODULE VersionHistory ----------------------------
(***************************************************************************)
(* What the policy configuration promises to whoever reads it: each scope  *)
(* counts its versions one by one, a new one takes the place of the one in *)
(* force in a single step, each update puts one version in force at most,  *)
(* and a decision names a version that was in force.  No session, lock,    *)
(* index or flag is visible here; PolicyConfigs implements this with them. *)
(***************************************************************************)
EXTENDS Naturals

CONSTANTS
  Scopes,     \* the merchants and the global default
  Writers,    \* the updates, each of which issues one version at most
  Deciders    \* the evaluations, each of which files one decision at most

VARIABLES
  issued,    \* the versions that were ever in force, and who issued them
  inForce,   \* the number of the version in force in each scope, 0 before the first
  filed      \* the decisions, with the version each names

historyVars == <<issued, inForce, filed>>

HistoryInit ==
  /\ issued = {}
  /\ inForce = [sc \in Scopes |-> 0]
  /\ filed = {}

\* activate_new_version, as a whole.
PutInForce(w, sc) ==
  /\ \A v \in issued : v.by # w
  /\ issued' = issued \cup { [by |-> w, scope |-> sc, version |-> inForce[sc] + 1] }
  /\ inForce' = [inForce EXCEPT ![sc] = @ + 1]
  /\ UNCHANGED filed

\* evaluate_and_persist, as a whole.
FileFor(d, v) ==
  /\ \A dec \in filed : dec.by # d
  /\ filed' = filed \cup { [by |-> d, config |-> v.by, version |-> v.version] }
  /\ UNCHANGED <<issued, inForce>>

HistoryNext ==
  \/ \E w \in Writers, sc \in Scopes : PutInForce(w, sc)
  \/ \E d \in Deciders, v \in issued : FileFor(d, v)

HistorySpec == HistoryInit /\ [][HistoryNext]_historyVars
=============================================================================
