---------------------------- MODULE PlaybookEngine ----------------------------
(***************************************************************************)
(* One execution of a SOAR playbook (frameworks/soar-sdk/.../playbook.py): *)
(* PlaybookEngine.execute runs the steps in order and the actions of a     *)
(* step one after the other or, with asyncio.gather, side by side.         *)
(* Executions share nothing but the registered playbooks, which execute    *)
(* only reads, so one is modelled.                                         *)
(*                                                                         *)
(* Parameters and templates are left out; a condition may come out either  *)
(* way and a handler may fail.                                             *)
(***************************************************************************)
EXTENDS Naturals, Sequences

CONSTANTS
  Action,    \* the actions of the playbook, each in one step
  Steps,     \* the number of steps
  Actions,   \* Actions[i]: the actions of step i, in order
  Parallel,  \* the steps with parallel = True
  Guarded,   \* the steps and actions that have a condition
  Handled    \* the actions whose type has a registered handler

ASSUME PlaybookAssumption ==
  /\ Steps \in Nat
  /\ Actions \in [1 .. Steps -> Seq(Action)]
  /\ Parallel \subseteq 1 .. Steps
  /\ Handled \subseteq Action

VARIABLES
  step,       \* the step being worked on; Steps + 1 after the last
  phase,      \* where execute is
  co,         \* the coroutine _execute_action of each action
  result,     \* execution.action_results
  completed   \* execution.completed_at is set

vars == <<step, phase, co, result, completed>>

ActionsOf(i) == {Actions[i][k] : k \in 1 .. Len(Actions[i])}

\* An action stands for its place in the playbook.
ASSUME StepsApart == \A i, j \in 1 .. Steps : i # j => ActionsOf(i) \cap ActionsOf(j) = {}

\* The actions listed before a in step i.
Before(a, i) ==
  {Actions[i][k] : k \in {k \in 1 .. Len(Actions[i]) :
                            \E l \in 1 .. Len(Actions[i]) : k < l /\ Actions[i][l] = a}}

-----------------------------------------------------------------------------
Init ==
  /\ step = 1
  /\ phase = "enter"
  /\ co = [a \in Action |-> "none"]
  /\ result = [a \in Action |-> "none"]
  /\ completed = FALSE

StartStep ==
  /\ phase = "enter" /\ step <= Steps
  /\ phase' = "run"
  /\ UNCHANGED <<step, co, result, completed>>

\* The step's condition is not met.
SkipStep ==
  /\ phase = "enter" /\ step \in Guarded \cap (1 .. Steps)
  /\ step' = step + 1
  /\ UNCHANGED <<phase, co, result, completed>>

\* Bug variant: an action waits for all the others of its step.
MutTurnAll(a) == \A b \in ActionsOf(step) \ {a} : co[b] = "done"

(* It is a's turn: gather starts its coroutines in order, without waiting for
   any; a sequential step waits for each. *)
Turn(a) ==
  \A b \in Before(a, step) :
    IF step \in Parallel THEN co[b] # "none" ELSE co[b] = "done"

Begin(a) ==
  /\ phase = "run"
  /\ a \in ActionsOf(step)
  /\ co[a] = "none"
  /\ Turn(a)

(* _execute_action: no handler, a condition that is not met, or the handler.
   Nothing looks at requires_approval, timeout_seconds or retry_count. *)
Unhandled(a) ==
  /\ Begin(a)
  /\ a \notin Handled
  /\ co' = [co EXCEPT ![a] = "raised"]
  /\ UNCHANGED <<step, phase, result, completed>>

SkipAction(a) ==
  /\ Begin(a)
  /\ a \in Handled \cap Guarded
  /\ co' = [co EXCEPT ![a] = "done"]
  /\ result' = [result EXCEPT ![a] = "skipped"]
  /\ UNCHANGED <<step, phase, completed>>

CallHandler(a) ==
  /\ Begin(a)
  /\ a \in Handled
  /\ co' = [co EXCEPT ![a] = "awaiting"]
  /\ result' = [result EXCEPT ![a] = "running"]
  /\ UNCHANGED <<step, phase, completed>>

(* The handler returns or raises; execute may have ended long since. *)
HandlerReturns(a) ==
  /\ co[a] = "awaiting"
  /\ co' = [co EXCEPT ![a] = "done"]
  /\ result' = [result EXCEPT ![a] = "completed"]
  /\ UNCHANGED <<step, phase, completed>>

\* Bug variant: the exception is swallowed once the result is recorded.
MutSwallow(a) ==
  /\ co[a] = "awaiting"
  /\ co' = [co EXCEPT ![a] = "done"]
  /\ result' = [result EXCEPT ![a] = "failed"]
  /\ UNCHANGED <<step, phase, completed>>

\* Bug variant: the failed action is put back to be started again.
MutRetry(a) ==
  /\ co[a] = "awaiting"
  /\ co' = [co EXCEPT ![a] = IF phase = "run" THEN "none" ELSE "raised"]
  /\ result' = [result EXCEPT ![a] = "failed"]
  /\ UNCHANGED <<step, phase, completed>>

HandlerRaises(a) ==
  /\ co[a] = "awaiting"
  /\ co' = [co EXCEPT ![a] = "raised"]
  /\ result' = [result EXCEPT ![a] = "failed"]
  /\ UNCHANGED <<step, phase, completed>>

\* Bug variant: the step is left as soon as one action has ended (FIRST_COMPLETED).
MutFirstDone ==
  /\ phase = "run"
  /\ \E a \in ActionsOf(step) : co[a] = "done"
  /\ \A a \in ActionsOf(step) : co[a] # "none"
  /\ step' = step + 1
  /\ phase' = "enter"
  /\ UNCHANGED <<co, result, completed>>

StepDone ==
  /\ phase = "run"
  /\ \A a \in ActionsOf(step) : co[a] = "done"
  /\ step' = step + 1
  /\ phase' = "enter"
  /\ UNCHANGED <<co, result, completed>>

Return ==
  /\ phase = "enter" /\ step = Steps + 1
  /\ phase' = "returned"
  /\ completed' = TRUE
  /\ UNCHANGED <<step, co, result>>

(* An action's exception reaches execute: at once in a sequential step; out of
   gather when the event loop comes round to execute again, by when every
   coroutine of the step has begun.  The handler of execute names the status
   FAILED, which PlaybookStatus does not have: the AttributeError leaves
   execute with the execution as it is, its errors and completed_at unset, and
   the other coroutines of gather running on. *)
Raise ==
  /\ phase = "run"
  /\ \E a \in ActionsOf(step) : co[a] = "raised"
  /\ step \in Parallel => \A a \in ActionsOf(step) : co[a] # "none"
  /\ phase' = "raised"
  /\ UNCHANGED <<step, co, result, completed>>

ActionStep(a) ==
  \/ Unhandled(a) \/ SkipAction(a) \/ CallHandler(a)
  \/ HandlerReturns(a) \/ HandlerRaises(a)

ExecuteStep == StartStep \/ SkipStep \/ StepDone \/ Return \/ Raise

Next == ExecuteStep \/ \E a \in Action : ActionStep(a)

Spec == Init /\ [][Next]_vars

(* The event loop runs what can run and every handler ends some time. *)
FairSpec == Spec /\ WF_vars(ExecuteStep) /\ \A a \in Action : WF_vars(ActionStep(a))

-----------------------------------------------------------------------------
(* Every variable has its type. *)
TypeOK ==
  /\ step \in 1 .. Steps + 1
  /\ phase \in {"enter", "run", "returned", "raised"}
  /\ co \in [Action -> {"none", "awaiting", "done", "raised"}]
  /\ result \in [Action -> {"none", "skipped", "running", "completed", "failed"}]
  /\ completed \in BOOLEAN

\* Step i has been passed over, or all its actions have ended well.
Over(i) ==
  \/ \A a \in ActionsOf(i) : co[a] = "none"
  \/ \A a \in ActionsOf(i) : co[a] = "done"

(* A step is a barrier: no action starts before the steps in front of its own
   are over, nor in a sequential step before the actions in front of it. *)
StepsAreBarriers ==
  \A i \in 1 .. Steps : \A a \in ActionsOf(i) : co[a] # "none" =>
    /\ \A j \in 1 .. i - 1 : Over(j)
    /\ i \notin Parallel => \A b \in Before(a, i) : co[b] = "done"

(* Once an action has failed nothing is started any more but its siblings in
   the same parallel step, and those only once: a containment action never
   runs on the strength of a failed one. *)
NothingStartsAfterFailure ==
  [][\A a, b \in Action :
       (result[a] = "failed" /\ result[b] # "running" /\ result'[b] = "running")
         => /\ a # b
            /\ step \in Parallel /\ {a, b} \subseteq ActionsOf(step)]_vars

(* completed_at means that the playbook ran through: nothing failed, nothing
   is still running, and what did not run was skipped by a condition. *)
CompletedIsClean ==
  completed => \A i \in 1 .. Steps :
    /\ \A a \in ActionsOf(i) : result[a] \notin {"running", "failed"}
    /\ i \notin Guarded =>
         \A a \in ActionsOf(i) :
           result[a] = "completed" \/ (result[a] = "skipped" /\ a \in Guarded)

(* Every execution comes to an end when every handler does. *)
ExecutionEnds == <>(phase \in {"returned", "raised"})
=============================================================================
