--------------------------- MODULE MCPlaybookEngine ---------------------------
(***************************************************************************)
(* The playbook engine on one instance: a playbook with a sequential step, *)
(* a parallel one, a step whose action has no handler, and a last action,  *)
(* is executed; and the versions of a playbook are saved, listed and       *)
(* reverted to (PlaybookVersions).  The two share no state, so that what   *)
(* each does alone is all there is to check.                               *)
(***************************************************************************)
EXTENDS PlaybookEngine, PlaybookVersions

CONSTANTS enrich, log, block, isolate, notify, webhook, escalate

MCActions ==
  <<<<enrich, log>>, <<block, isolate, notify>>, <<webhook>>, <<escalate>>>>

parts == <<vars, versionVars>>

MCInit == Init /\ VersionsInit

Executing(A) == A /\ UNCHANGED versionVars

\* Where an execution is while versions are saved says nothing of the versions: one
\* state of its will do, in which everything has run.
Executed == completed /\ \A a \in Handled : result[a] = "completed"

MCNext ==
  \/ Executing(Next)
  \/ Executed /\ VersionsNext /\ UNCHANGED vars

MCSpec ==
  /\ MCInit /\ [][MCNext]_parts
  /\ WF_parts(Executing(ExecuteStep)) /\ \A a \in Action : WF_parts(Executing(ActionStep(a)))
=============================================================================
