------------------------------ MODULE PlaybookProofs ------------------------------
(***************************************************************************)
(* Proofs about playbooks: one execution, with any number of steps and     *)
(* actions, conditions that come out either way and handlers that fail,    *)
(* and the version history of one playbook.                                *)
(*                                                                         *)
(* The invariant of the execution says how far it has come: behind the     *)
(* current step everything is over, in front of it nothing has begun, and  *)
(* what each coroutine has left in the results.  That of the history says  *)
(* that the list in memory and the file both tell it, each without a hole, *)
(* that the file ends with a save that returned, and that the list is the  *)
(* file's when it ends with one.                                           *)
(***************************************************************************)
EXTENDS PlaybookEngine, PlaybookVersions, WellFoundedInduction, TLAPS

\* What each state of a coroutine means for the recorded result.
ResultsFollow ==
  \A a \in Action :
    /\ co[a] = "none" => result[a] = "none"
    /\ co[a] = "awaiting" => result[a] = "running"
    /\ co[a] = "done" => result[a] = "completed" \/ (result[a] = "skipped" /\ a \in Guarded)
    /\ co[a] = "raised" => result[a] \in {"none", "failed"}

\* A step that was passed over has a condition.
PastIsOver ==
  \A i \in 1 .. Steps : i < step =>
    \/ i \in Guarded /\ \A a \in ActionsOf(i) : co[a] = "none"
    \/ \A a \in ActionsOf(i) : co[a] = "done"

\* Nothing has begun beyond the current step, nor in it before it is entered.
FutureIsUntouched ==
  \A a \in Action : co[a] # "none" =>
    \E i \in 1 .. Steps : a \in ActionsOf(i) /\ (i < step \/ (i = step /\ phase # "enter"))

InOrder ==
  \A i \in 1 .. Steps : i \notin Parallel =>
    \A a \in ActionsOf(i) : co[a] # "none" => \A b \in Before(a, i) : co[b] = "done"

InsideSteps ==
  /\ phase = "run" => step \in 1 .. Steps
  /\ completed => step = Steps + 1

IInv ==
  /\ TypeOK
  /\ ResultsFollow /\ PastIsOver /\ FutureIsUntouched /\ InOrder /\ InsideSteps

-----------------------------------------------------------------------------
LEMMA ActionsTyped == \A i \in 1 .. Steps : ActionsOf(i) \subseteq Action
BY PlaybookAssumption DEF ActionsOf

LEMMA BeforeInStep ==
  \A i \in 1 .. Steps, a \in Action : Before(a, i) \subseteq ActionsOf(i)
BY DEF Before, ActionsOf

LEMMA OneBeforeTheOther ==
  ASSUME NEW i \in 1 .. Steps, NEW a \in ActionsOf(i), NEW b \in ActionsOf(i), a # b
  PROVE  a \in Before(b, i) \/ b \in Before(a, i)
<1>1. PICK k \in 1 .. Len(Actions[i]), l \in 1 .. Len(Actions[i]) :
        a = Actions[i][k] /\ b = Actions[i][l]
  BY DEF ActionsOf
<1>2. Len(Actions[i]) \in Nat
  BY PlaybookAssumption
<1>3. k < l \/ l < k
  BY <1>1, <1>2
<1> QED BY <1>1, <1>3 DEF Before

LEMMA InitIInv == Init => IInv
<1> SUFFICES ASSUME Init PROVE IInv
  OBVIOUS
<1>1. TypeOK
  <2>1. 1 \in 1 .. Steps + 1
    BY PlaybookAssumption
  <2> QED BY <2>1 DEF Init, TypeOK
<1>2. ResultsFollow /\ FutureIsUntouched /\ InsideSteps
  BY DEF Init, ResultsFollow, FutureIsUntouched, InsideSteps
<1>3. PastIsOver
  BY PlaybookAssumption DEF Init, PastIsOver
<1>4. InOrder
  BY ActionsTyped DEF Init, InOrder
<1> QED BY <1>1, <1>2, <1>3, <1>4 DEF IInv

LEMMA NextTypeOK == TypeOK /\ InsideSteps /\ [Next]_vars => TypeOK'
<1> SUFFICES ASSUME TypeOK, InsideSteps, [Next]_vars PROVE TypeOK'
  OBVIOUS
<1> USE PlaybookAssumption DEF TypeOK
<1>1. CASE ExecuteStep
  <2>1. step' \in 1 .. Steps + 1
    BY <1>1 DEF ExecuteStep, StartStep, SkipStep, StepDone, Return, Raise, InsideSteps
  <2> QED BY <1>1, <2>1 DEF ExecuteStep, StartStep, SkipStep, StepDone, Return, Raise
<1>2. ASSUME NEW a \in Action, ActionStep(a) PROVE TypeOK'
  BY <1>2 DEF ActionStep, Unhandled, SkipAction, CallHandler, HandlerReturns, HandlerRaises
<1>3. CASE UNCHANGED vars
  BY <1>3 DEF vars
<1> QED BY <1>1, <1>2, <1>3 DEF Next

(* The steps of execute itself leave the coroutines and results alone. *)
LEMMA ExecuteStepIInv == IInv /\ ExecuteStep => IInv'
<1> SUFFICES ASSUME IInv, ExecuteStep PROVE IInv'
  OBVIOUS
<1>1. TypeOK'
  BY NextTypeOK DEF IInv, Next
<1>2. UNCHANGED <<co, result>>
  BY DEF ExecuteStep, StartStep, SkipStep, StepDone, Return, Raise
<1>3. ResultsFollow' /\ InOrder'
  BY <1>2 DEF IInv, ResultsFollow, InOrder
<1>4. step \in 1 .. Steps + 1 /\ Steps \in Nat
  BY PlaybookAssumption DEF IInv, TypeOK
<1>5. PastIsOver'
  <2>1. CASE UNCHANGED step
    BY <1>2, <2>1 DEF IInv, PastIsOver
  <2>2. CASE SkipStep
    <3>1. \A a \in ActionsOf(step) : co[a] = "none"
      <4> SUFFICES ASSUME NEW a \in ActionsOf(step), co[a] # "none" PROVE FALSE
        OBVIOUS
      <4>1. step \in 1 .. Steps /\ phase = "enter" /\ a \in Action
        BY <2>2, ActionsTyped DEF SkipStep
      <4>2. PICK i \in 1 .. Steps : a \in ActionsOf(i) /\ i < step
        BY <4>1 DEF IInv, FutureIsUntouched
      <4> QED BY <4>1, <4>2, <1>4, StepsApart
    <3>2. step \in Guarded /\ step' = step + 1
      BY <2>2 DEF SkipStep
    <3> QED BY <1>2, <1>4, <3>1, <3>2 DEF IInv, PastIsOver
  <2>3. CASE StepDone
    <3>1. (\A a \in ActionsOf(step) : co[a] = "done") /\ step' = step + 1
      BY <2>3 DEF StepDone
    <3> QED BY <1>2, <1>4, <3>1 DEF IInv, PastIsOver
  <2> QED BY <2>1, <2>2, <2>3 DEF ExecuteStep, StartStep, Return, Raise
<1>6. FutureIsUntouched'
  <2>1. \A i \in 1 .. Steps : (i < step \/ (i = step /\ phase # "enter"))
                              => (i < step' \/ (i = step' /\ phase' # "enter"))
    BY <1>4 DEF ExecuteStep, StartStep, SkipStep, StepDone, Return, Raise
  <2> QED BY <1>2, <2>1 DEF IInv, FutureIsUntouched
<1>7. InsideSteps'
  <2>1. CASE StepDone
    BY <2>1, <1>4 DEF StepDone, IInv, InsideSteps
  <2>2. CASE SkipStep
    BY <2>2, <1>4 DEF SkipStep, IInv, InsideSteps
  <2>3. CASE StartStep \/ Return \/ Raise
    BY <2>3, <1>4 DEF StartStep, Return, Raise, IInv, InsideSteps
  <2> QED BY <2>1, <2>2, <2>3 DEF ExecuteStep
<1> QED BY <1>1, <1>3, <1>5, <1>6, <1>7 DEF IInv

-----------------------------------------------------------------------------
\* a begins: it belongs to the current step, and what must be done before it is.
LEMMA BeginHere ==
  ASSUME IInv, NEW a \in Action, Begin(a)
  PROVE  /\ step \in 1 .. Steps
         /\ a \in ActionsOf(step)
         /\ \A i \in 1 .. Steps : a \in ActionsOf(i) => i = step
         /\ step \notin Parallel => \A b \in Before(a, step) : co[b] = "done"
BY StepsApart DEF Begin, Turn, IInv, InsideSteps

(* A coroutine that begins or ends well or badly: state c, recorded as r.   *)
LEMMA ActionStepIInv ==
  ASSUME IInv, NEW a \in Action, ActionStep(a)
  PROVE  IInv'
<1>1. TypeOK'
  BY NextTypeOK DEF IInv, Next
<1>2. PICK c \in {"awaiting", "done", "raised"} : co' = [co EXCEPT ![a] = c]
  BY DEF ActionStep, Unhandled, SkipAction, CallHandler, HandlerReturns, HandlerRaises
<1>3. UNCHANGED <<step, phase, completed>>
  BY DEF ActionStep, Unhandled, SkipAction, CallHandler, HandlerReturns, HandlerRaises
<1>4. co \in [Action -> {"none", "awaiting", "done", "raised"}]
  BY DEF IInv, TypeOK
<1>5. co[a] = "awaiting" \/ Begin(a)
  BY DEF ActionStep, Unhandled, SkipAction, CallHandler, HandlerReturns, HandlerRaises
<1>6. co[a] \in {"none", "awaiting"} /\ \A b \in Action : b # a => co'[b] = co[b]
  BY <1>2, <1>4, <1>5 DEF Begin
<1>7. ResultsFollow'
  <2>1. ResultsFollow /\ result \in [Action -> {"none", "skipped", "running", "completed", "failed"}]
    BY DEF IInv, TypeOK
  <2> QED BY <1>4, <2>1
      DEF ActionStep, Unhandled, SkipAction, CallHandler, HandlerReturns, HandlerRaises,
          ResultsFollow, Begin
<1>8. \E i \in 1 .. Steps : a \in ActionsOf(i) /\ i = step
  <2>1. CASE Begin(a)
    BY <2>1, BeginHere
  <2>2. CASE co[a] = "awaiting"
    <3>1. PICK i \in 1 .. Steps : a \in ActionsOf(i) /\ (i < step \/ i = step)
      BY <2>2 DEF IInv, FutureIsUntouched
    <3>2. ~(i < step)
      BY <2>2, <3>1 DEF IInv, PastIsOver
    <3> QED BY <3>1, <3>2
  <2> QED BY <1>5, <2>1, <2>2
<1>9. PastIsOver'
  <2> SUFFICES ASSUME NEW i \in 1 .. Steps, i < step
               PROVE  \/ i \in Guarded /\ \A b \in ActionsOf(i) : co'[b] = "none"
                      \/ \A b \in ActionsOf(i) : co'[b] = "done"
    BY <1>3 DEF PastIsOver
  <2>1. a \notin ActionsOf(i)
    BY <1>8, StepsApart
  <2>2. \A b \in ActionsOf(i) : co'[b] = co[b]
    BY <1>6, <2>1, ActionsTyped
  <2> QED BY <2>2 DEF IInv, PastIsOver
<1>10. FutureIsUntouched'
  <2>1. phase # "enter" \/ co[a] # "none"
    BY <1>5 DEF Begin
  <2>2. \E i \in 1 .. Steps : a \in ActionsOf(i) /\ (i < step \/ (i = step /\ phase # "enter"))
    BY <1>8, <2>1 DEF IInv, FutureIsUntouched
  <2> QED BY <1>3, <1>6, <2>2 DEF IInv, FutureIsUntouched
<1>11. InOrder'
  <2> SUFFICES ASSUME NEW i \in 1 .. Steps, i \notin Parallel, NEW b \in ActionsOf(i),
                      co'[b] # "none", NEW d \in Before(b, i)
               PROVE  co'[d] = "done"
    BY DEF InOrder
  <2>1. b \in Action /\ d \in Action
    BY ActionsTyped, BeforeInStep
  <2>2. co[d] = "done"
    <3>1. CASE co[b] # "none"
      BY <3>1 DEF IInv, InOrder
    <3>2. CASE co[b] = "none"
      <4>1. b = a /\ Begin(a)
        BY <3>2, <1>5, <1>6, <2>1
      <4> QED BY <4>1, BeginHere
    <3> QED BY <3>1, <3>2
  <2> QED BY <1>6, <2>1, <2>2
<1>12. InsideSteps'
  BY <1>3 DEF IInv, InsideSteps
<1> QED BY <1>1, <1>7, <1>9, <1>10, <1>11, <1>12 DEF IInv

LEMMA NextIInv == IInv /\ [Next]_vars => IInv'
<1> SUFFICES ASSUME IInv, [Next]_vars PROVE IInv'
  OBVIOUS
<1>1. CASE ExecuteStep
  BY <1>1, ExecuteStepIInv
<1>2. ASSUME NEW a \in Action, ActionStep(a) PROVE IInv'
  BY <1>2, ActionStepIInv
<1>3. CASE UNCHANGED vars
  BY <1>3 DEF vars, IInv, TypeOK, ResultsFollow, PastIsOver, FutureIsUntouched, InOrder, InsideSteps
<1> QED BY <1>1, <1>2, <1>3 DEF Next

(* What the execution keeps to, whatever the playbook.                      *)
LEMMA SpecIInv == Spec => []IInv
BY InitIInv, NextIInv, PTL DEF Spec

(* The variables have their types.                                          *)
THEOREM TypeCorrect == Spec => []TypeOK
BY SpecIInv, PTL DEF IInv

(* In every playbook a step is a barrier, and the actions of a sequential   *)
(* step run one after the other.                                            *)
THEOREM StepsAlwaysBarriers == Spec => []StepsAreBarriers
<1>1. IInv => StepsAreBarriers
  <2> SUFFICES ASSUME IInv, NEW i \in 1 .. Steps, NEW a \in ActionsOf(i), co[a] # "none"
               PROVE  /\ \A j \in 1 .. i - 1 : Over(j)
                      /\ i \notin Parallel => \A b \in Before(a, i) : co[b] = "done"
    BY DEF StepsAreBarriers
  <2>1. i <= step
    <3>1. a \in Action
      BY ActionsTyped
    <3>2. PICK k \in 1 .. Steps : a \in ActionsOf(k) /\ (k < step \/ k = step)
      BY <3>1 DEF IInv, FutureIsUntouched
    <3>3. k = i
      BY <3>2, StepsApart
    <3> QED BY <3>2, <3>3, PlaybookAssumption DEF IInv, TypeOK
  <2>2. ASSUME NEW j \in 1 .. i - 1 PROVE Over(j)
    <3>1. j \in 1 .. Steps /\ j < step
      BY <2>1, PlaybookAssumption DEF IInv, TypeOK
    <3> QED BY <3>1 DEF IInv, PastIsOver, Over
  <2> QED BY <2>2 DEF IInv, InOrder
<1> QED BY <1>1, SpecIInv, PTL

(* completed_at is set on clean executions only.                            *)
THEOREM CompletedAlwaysClean == Spec => []CompletedIsClean
<1>1. IInv => CompletedIsClean
  <2> SUFFICES ASSUME IInv, completed, NEW i \in 1 .. Steps, NEW a \in ActionsOf(i)
               PROVE  /\ result[a] \notin {"running", "failed"}
                      /\ i \notin Guarded =>
                           result[a] = "completed" \/ (result[a] = "skipped" /\ a \in Guarded)
    BY DEF CompletedIsClean
  <2>1. i < step
    BY PlaybookAssumption DEF IInv, InsideSteps
  <2>2. (i \in Guarded /\ co[a] = "none") \/ co[a] = "done"
    BY <2>1 DEF IInv, PastIsOver
  <2>3. a \in Action
    BY ActionsTyped
  <2> QED BY <2>2, <2>3 DEF IInv, ResultsFollow
<1> QED BY <1>1, SpecIInv, PTL

(* Once an action has failed, only its siblings in a parallel step start.   *)
THEOREM NothingEverStartsAfterFailure == Spec => NothingStartsAfterFailure
<1>1. IInv /\ [Next]_vars =>
        [\A a, b \in Action :
           (result[a] = "failed" /\ result[b] # "running" /\ result'[b] = "running")
             => /\ a # b
                /\ step \in Parallel /\ {a, b} \subseteq ActionsOf(step)]_vars
  <2> SUFFICES ASSUME IInv, Next, NEW a \in Action, NEW b \in Action,
                      result[a] = "failed", result[b] # "running", result'[b] = "running"
               PROVE  a # b /\ step \in Parallel /\ {a, b} \subseteq ActionsOf(step)
    OBVIOUS
  <2>1. CallHandler(b)
    <3>1. ~ExecuteStep
      BY DEF ExecuteStep, StartStep, SkipStep, StepDone, Return, Raise
    <3>2. PICK d \in Action : ActionStep(d)
      BY <3>1 DEF Next
    <3>3. result \in [Action -> {"none", "skipped", "running", "completed", "failed"}]
      BY DEF IInv, TypeOK
    <3>4. ~Unhandled(d)
      BY DEF Unhandled
    <3>5. ~SkipAction(d) /\ ~HandlerReturns(d) /\ ~HandlerRaises(d)
      BY <3>3 DEF SkipAction, HandlerReturns, HandlerRaises
    <3>6. CallHandler(d) /\ d = b
      BY <3>2, <3>3, <3>4, <3>5 DEF ActionStep, CallHandler
    <3> QED BY <3>6
  <2>2. Begin(b) /\ co[b] = "none"
    BY <2>1 DEF CallHandler, Begin
  <2>3. co[a] = "raised"
    BY DEF IInv, TypeOK, ResultsFollow
  <2>4. a \in ActionsOf(step) /\ b \in ActionsOf(step) /\ step \in 1 .. Steps
    <3>1. PICK i \in 1 .. Steps : a \in ActionsOf(i) /\ (i < step \/ i = step)
      BY <2>3 DEF IInv, FutureIsUntouched
    <3>2. ~(i < step)
      BY <2>3, <3>1 DEF IInv, PastIsOver
    <3> QED BY <2>2, <3>1, <3>2, BeginHere
  <2>5. step \in Parallel
    <3> SUFFICES ASSUME step \notin Parallel PROVE FALSE
      OBVIOUS
    <3>1. CASE a \in Before(b, step)
      BY <2>2, <2>3, <3>1, BeginHere
    <3>2. CASE b \in Before(a, step)
      BY <2>2, <2>3, <2>4, <3>2 DEF IInv, InOrder
    <3> QED BY <2>2, <2>3, <2>4, <3>1, <3>2, OneBeforeTheOther
  <2> QED BY <2>2, <2>3, <2>4, <2>5
<1> QED BY <1>1, SpecIInv, PTL DEF Spec, NothingStartsAfterFailure

-----------------------------------------------------------------------------
(* Playbook versions. *)

(* The earliest entry of a version is an entry of the list that has it.     *)
LEMMA FoundIsListed ==
  ASSUME NEW list, NEW v, Len(list) \in Nat,
         \E k \in 1 .. Len(list) : list[k].version = v
  PROVE  \E k \in 1 .. Len(list) : Found(list, v) = list[k]
<1> DEFINE T == {k \in 1 .. Len(list) : list[k].version = v}
<1>1. \E x \in T : \A y \in T : ~(<<y, x>> \in OpToRel(<, Nat))
  <2>1. T \subseteq Nat /\ T # {}
    OBVIOUS
  <2>2. IsWellFoundedOn(OpToRel(<, Nat), Nat)
    BY NatLessThanWellFounded
  <2> HIDE DEF T
  <2> QED BY <2>1, <2>2, WFMin
<1>2. PICK x \in T : \A y \in T : ~(y < x)
  <2>1. PICK x \in T : \A y \in T : ~(<<y, x>> \in OpToRel(<, Nat))
    BY <1>1
  <2>2. \A y \in T : y < x => <<y, x>> \in OpToRel(<, Nat)
    BY DEF OpToRel
  <2> QED BY <2>1, <2>2
<1>3. x \in 1 .. Len(list) /\ list[x].version = v
  OBVIOUS
<1>4. \A l \in 1 .. x - 1 : list[l].version # v
  <2> SUFFICES ASSUME NEW l \in 1 .. x - 1, list[l].version = v PROVE FALSE
    OBVIOUS
  <2>1. l \in 1 .. Len(list) /\ l < x
    BY <1>3
  <2> QED BY <1>2, <2>1
<1> QED BY <1>3, <1>4, Zenon DEF Found

(* A list dumped and read again has the types of the file and the memory.   *)
LEMMA DumpTyped ==
  ASSUME NEW list \in Seq(Entry), variables \in Content PROVE Dump(list) \in Seq(Saved)
<1>1. Len(list) \in Nat /\ \A k \in 1 .. Len(list) : list[k] \in Entry
  OBVIOUS
<1>2. \A k \in 1 .. Len(list) : Snapshot(list[k]) \in Saved
  BY <1>1 DEF Entry, Saved, Snapshot
<1> QED BY <1>1, <1>2 DEF Dump

LEMMA ReadTyped == ASSUME NEW file \in Seq(Saved) PROVE Read(file) \in Seq(Entry)
<1> DEFINE e(k) == [no |-> file[k].no, version |-> file[k].version, steps |-> file[k].steps,
                    variables |-> file[k].variables, shared |-> FALSE]
<1>1. Len(file) \in Nat /\ \A k \in 1 .. Len(file) : file[k] \in Saved
  OBVIOUS
<1>2. \A k \in 1 .. Len(file) : e(k) \in Entry
  BY <1>1 DEF Entry, Saved
<1>3. Read(file) = [k \in 1 .. Len(file) |-> e(k)]
  BY DEF Read
<1> HIDE DEF e
<1> QED BY <1>1, <1>2, <1>3

LEMMA ListedTyped == VersionsTypeOK => Listed \in Seq(Saved)
BY DumpTyped DEF VersionsTypeOK, Listed

LEMMA NothingTyped ==
  <<>> \in Seq(Entry) /\ <<>> \in Seq(Saved) /\ <<>> \in Seq(Call) /\ Len(<<>>) = 0
OBVIOUS

LEMMA VersionsInitTyped == VersionsInit => VersionsTypeOK
<1> SUFFICES ASSUME VersionsInit PROVE VersionsTypeOK
  OBVIOUS
<1>1. 0 \in Content /\ 0 <= MaxSaves
  BY VersionsAssumption DEF Content
<1>2. loaded \in BOOLEAN /\ torn \in BOOLEAN
  BY DEF VersionsInit
<1>3. version \in Version /\ steps \in Content /\ variables \in Content /\ Len(saved) <= MaxSaves
  BY <1>1, NothingTyped DEF VersionsInit
<1>4. mem \in Seq(Entry) /\ disk \in Seq(Saved) /\ saved \in Seq(Call)
  BY NothingTyped DEF VersionsInit
<1> QED BY <1>2, <1>3, <1>4 DEF VersionsTypeOK

LEMMA VersionsNextTyped == VersionsTypeOK /\ [VersionsNext]_versionVars => VersionsTypeOK'
<1> SUFFICES ASSUME VersionsTypeOK, [VersionsNext]_versionVars PROVE VersionsTypeOK'
  OBVIOUS
<1>0. /\ version \in Version /\ steps \in Content /\ variables \in Content
      /\ loaded \in BOOLEAN /\ torn \in BOOLEAN
      /\ mem \in Seq(Entry) /\ disk \in Seq(Saved) /\ saved \in Seq(Call)
      /\ Len(saved) <= MaxSaves
  BY DEF VersionsTypeOK
<1>1. CASE Edit
  <2>1. steps' \in Content /\ variables' \in Content /\ version' \in Version
    BY <1>0, <1>1, VersionsAssumption DEF Edit, Content
  <2> QED BY <1>0, <1>1, <2>1 DEF Edit, VersionsTypeOK
<1>2. CASE SaveVersion \/ SaveFails
  <2>0. PICK ok \in BOOLEAN :
          /\ Len(saved) < MaxSaves
          /\ mem' = Append(mem, NewEntry) /\ saved' = Append(saved, Attempt(ok))
    BY <1>2 DEF SaveVersion, SaveFails, Appended
  <2>1. Len(saved) \in Nat /\ Len(saved) < MaxSaves
    BY <1>0, <2>0
  <2>2. Len(saved) + 1 \in 1 .. MaxSaves
    BY <2>1, VersionsAssumption
  <2>3. NewEntry \in Entry /\ Attempt(ok) \in Call
    BY <1>0, <2>2 DEF NewEntry, Attempt, Entry, Call
  <2>4. mem' \in Seq(Entry) /\ saved' \in Seq(Call) /\ Len(saved') = Len(saved) + 1
    BY <1>0, <2>0, <2>3
  <2>5. disk' \in Seq(Saved)
    <3>1. CASE SaveVersion
      <4>1. PICK list \in Seq(Entry) : list = mem'
        BY <2>4
      <4> QED BY <1>0, <3>1, <4>1, DumpTyped DEF SaveVersion
    <3>2. CASE SaveFails
      BY <1>0, <3>2, NothingTyped DEF SaveFails
    <3> QED BY <1>2, <3>1, <3>2
  <2>6. Len(saved') <= MaxSaves
    BY <2>1, <2>4, VersionsAssumption
  <2>7. loaded' \in BOOLEAN /\ torn' \in BOOLEAN /\ UNCHANGED <<version, steps, variables>>
    BY <1>0, <1>2 DEF SaveVersion, SaveFails
  <2> QED BY <1>0, <2>4, <2>5, <2>6, <2>7 DEF VersionsTypeOK
<1>3. CASE CrashInSave
  <2>1. loaded' \in BOOLEAN /\ torn' \in BOOLEAN
    BY <1>3 DEF CrashInSave
  <2>2. mem' \in Seq(Entry) /\ disk' \in Seq(Saved)
    BY <1>3, NothingTyped DEF CrashInSave
  <2>3. UNCHANGED <<version, steps, variables, saved>>
    BY <1>3 DEF CrashInSave
  <2> QED BY <1>0, <2>1, <2>2, <2>3 DEF VersionsTypeOK
<1>4. CASE Load
  BY <1>0, <1>4, ReadTyped DEF Load, VersionsTypeOK
<1>5. ASSUME NEW v \in Version, Revert(v) PROVE VersionsTypeOK'
  <2>1. PICK list \in Seq(Saved) : list = Listed
    BY ListedTyped
  <2>2. /\ version' = Found(list, v).version /\ steps' = Found(list, v).steps
        /\ variables' = Found(list, v).variables /\ loaded' = TRUE /\ mem' = Read(list)
        /\ UNCHANGED <<disk, torn, saved>>
        /\ \E k \in 1 .. Len(list) : list[k].version = v
    BY <1>5, <2>1 DEF Revert
  <2>3. Found(list, v) \in Saved
    <3>1. Len(list) \in Nat
      OBVIOUS
    <3>2. \E k \in 1 .. Len(list) : Found(list, v) = list[k]
      BY <2>2, <3>1, FoundIsListed
    <3> QED BY <3>2
  <2>4. version' \in Version /\ steps' \in Content /\ variables' \in Content
    BY <2>2, <2>3 DEF Saved
  <2>5. mem' \in Seq(Entry)
    BY <2>2, ReadTyped
  <2> QED BY <1>0, <2>2, <2>4, <2>5 DEF VersionsTypeOK
<1>6. CASE Restart
  <2>1. loaded' \in BOOLEAN
    BY <1>6 DEF Restart
  <2>2. mem' \in Seq(Entry)
    BY <1>6, NothingTyped DEF Restart
  <2>3. UNCHANGED <<version, steps, variables, disk, torn, saved>>
    BY <1>6 DEF Restart
  <2> QED BY <1>0, <2>1, <2>2, <2>3 DEF VersionsTypeOK
<1>7. CASE UNCHANGED versionVars
  BY <1>0, <1>7 DEF versionVars, VersionsTypeOK
<1> QED BY <1>1, <1>2, <1>3, <1>4, <1>5, <1>6, <1>7 DEF VersionsNext

(* The playbook, the list, the file and every entry of them keep their      *)
(* types: what a revert returns is an entry that was saved.                 *)
THEOREM VersionsTypeCorrect == VersionsSpec => []VersionsTypeOK
BY VersionsInitTyped, VersionsNextTyped, PTL DEF VersionsSpec

\* Entries of the same call, and what it was to save.
SameEntry(e, f) == e.no = f.no /\ SameSteps(e, f)

(* A list of entries or of saved versions.                                  *)
Listing(list) == Len(list) \in Nat /\ \E S : list \in Seq(S)

LEMMA AppendedListing ==
  ASSUME NEW list, Listing(list), NEW e
  PROVE  /\ Listing(Append(list, e)) /\ Len(Append(list, e)) = Len(list) + 1
         /\ Append(list, e)[Len(list) + 1] = e
         /\ \A k \in 1 .. Len(list) : Append(list, e)[k] = list[k]
<1>1. PICK S : list \in Seq(S)
  BY DEF Listing
<1> DEFINE T == S \cup {e}
<1>2. list \in Seq(T) /\ e \in T
  BY <1>1
<1> HIDE DEF T
<1>3. Append(list, e) \in Seq(T)
  BY <1>2
<1> QED BY <1>2, <1>3 DEF Listing

LEMMA DumpFacts ==
  ASSUME NEW list, Listing(list)
  PROVE  /\ Listing(Dump(list)) /\ Len(Dump(list)) = Len(list)
         /\ \A k \in 1 .. Len(list) : SameEntry(Dump(list)[k], list[k])
<1> DEFINE d == [k \in 1 .. Len(list) |-> Snapshot(list[k])]
           S == {Snapshot(list[k]) : k \in 1 .. Len(list)}
<1>1. Len(list) \in Nat
  BY DEF Listing
<1>2. d \in Seq(S)
  BY <1>1
<1>3. Len(d) = Len(list)
  BY <1>1
<1>4. \A k \in 1 .. Len(list) : SameEntry(d[k], list[k])
  BY DEF SameEntry, SameSteps, Snapshot
<1> QED BY <1>1, <1>2, <1>3, <1>4 DEF Dump, Listing

LEMMA ReadFacts ==
  ASSUME NEW file, Listing(file)
  PROVE  /\ Listing(Read(file)) /\ Len(Read(file)) = Len(file)
         /\ \A k \in 1 .. Len(file) : SameEntry(Read(file)[k], file[k])
<1> DEFINE e(k) == [no |-> file[k].no, version |-> file[k].version, steps |-> file[k].steps,
                    variables |-> file[k].variables, shared |-> FALSE]
           d == [k \in 1 .. Len(file) |-> e(k)]
           S == {e(k) : k \in 1 .. Len(file)}
<1>1. Len(file) \in Nat
  BY DEF Listing
<1>2. d \in Seq(S)
  <2>1. \A k \in 1 .. Len(file) : d[k] = e(k) /\ e(k) \in S
    OBVIOUS
  <2> HIDE DEF e, S
  <2> QED BY <1>1, <2>1
<1>3. Len(d) = Len(file)
  BY <1>1
<1>4. \A k \in 1 .. Len(file) : SameEntry(d[k], file[k])
  BY DEF SameEntry, SameSteps
<1> QED BY <1>1, <1>2, <1>3, <1>4 DEF Read, Listing

-----------------------------------------------------------------------------
\* Two listings agree entry by entry.
Agrees(a, b) == Len(a) = Len(b) /\ \A k \in 1 .. Len(b) : SameEntry(a[k], b[k])

\* No call has returned.
Silent(calls) == \A n \in 1 .. Len(calls) : ~calls[n].returned

(* Both lists tell the history, the one in memory has an entry once it is   *)
(* there, and the file begins with the first save that returns and ends     *)
(* with one that did.                                                       *)
HistoryInv ==
  /\ Listing(mem) /\ Listing(disk) /\ Listing(saved)
  /\ Tells(mem, saved) /\ Tells(disk, saved)
  /\ loaded => Len(mem) > 0
  /\ Len(disk) = 0 /\ ~torn => Silent(saved)
  /\ Len(disk) > 0 => saved[disk[Len(disk)].no].returned
  /\ loaded /\ saved[mem[Len(mem)].no].returned => ~torn /\ Agrees(disk, mem)

LEMMA AgreesTurned == ASSUME NEW a, NEW b, Agrees(a, b) PROVE Agrees(b, a)
BY DEF Agrees, SameEntry, SameSteps

LEMMA AgreesOn ==
  ASSUME NEW a, NEW b, NEW c, Agrees(a, b), Agrees(b, c) PROVE Agrees(a, c)
BY DEF Agrees, SameEntry, SameSteps

LEMMA AgreesTells ==
  ASSUME NEW a, NEW b, NEW calls, Listing(b), Agrees(a, b), Tells(b, calls)
  PROVE  Tells(a, calls)
<1>1. Len(a) = Len(b) /\ Len(b) \in Nat
      /\ \A k \in 1 .. Len(b) : a[k].no = b[k].no /\ SameSteps(a[k], b[k])
  BY DEF Agrees, SameEntry, Listing
<1>2. Nos(a) = Nos(b)
  BY <1>1 DEF Nos
<1>3. Len(b) > 0 => a[1].no = b[1].no
  BY <1>1
<1> QED BY <1>1, <1>2, <1>3 DEF Tells, SameSteps

(* The next call, and the entry it appends, go on with the history.         *)
LEMMA AppendTells ==
  ASSUME NEW list, NEW calls, Listing(list), Listing(calls), Tells(list, calls),
         NEW e, NEW c, e.no = Len(calls) + 1, SameSteps(e, c)
  PROVE  Tells(Append(list, e), Append(calls, c))
<1> DEFINE m == Len(list)
           n == Len(calls)
           list2 == Append(list, e)
           calls2 == Append(calls, c)
<1>1. m \in Nat /\ n \in Nat
  BY DEF Listing
<1>2. /\ Len(list2) = m + 1 /\ list2[m + 1] = e /\ \A k \in 1 .. m : list2[k] = list[k]
      /\ Len(calls2) = n + 1 /\ calls2[n + 1] = c /\ \A k \in 1 .. n : calls2[k] = calls[k]
  BY AppendedListing
<1> HIDE DEF m, n, list2, calls2
<1>3. /\ \A k \in 1 .. m : list[k].no \in 1 .. n /\ SameSteps(list[k], calls[list[k].no])
      /\ \A j, k \in 1 .. m : j < k => list[j].no < list[k].no
      /\ m > 0 => \A i \in list[1].no .. n : calls[i].returned => i \in Nos(list)
  BY DEF Tells, m, n
<1>4. ASSUME NEW k \in 1 .. m + 1
      PROVE  list2[k].no \in 1 .. n + 1 /\ SameSteps(list2[k], calls2[list2[k].no])
  <2>1. CASE k = m + 1
    BY <1>1, <1>2, <2>1 DEF n
  <2>2. CASE k # m + 1
    <3>1. k \in 1 .. m
      BY <1>1, <2>2
    <3>2. list2[k] = list[k] /\ list[k].no \in 1 .. n
      BY <1>2, <1>3, <3>1
    <3> QED BY <1>1, <1>2, <1>3, <3>1, <3>2
  <2> QED BY <2>1, <2>2
<1>5. ASSUME NEW j \in 1 .. m + 1, NEW k \in 1 .. m + 1, j < k
      PROVE  list2[j].no < list2[k].no
  <2>1. j \in 1 .. m /\ list2[j] = list[j] /\ list[j].no \in 1 .. n
    BY <1>1, <1>2, <1>3, <1>5
  <2>2. CASE k = m + 1
    BY <1>1, <1>2, <2>1, <2>2 DEF n
  <2>3. CASE k # m + 1
    BY <1>1, <1>2, <1>3, <1>5, <2>1, <2>3
  <2> QED BY <2>2, <2>3
<1>6. Nos(list) \subseteq Nos(list2)
  <2>1. \A k \in 1 .. m : k \in 1 .. m + 1 /\ list2[k].no = list[k].no
    BY <1>1, <1>2
  <2> QED BY <2>1, <1>2 DEF Nos, m
<1>7. n + 1 \in Nos(list2)
  <2>1. m + 1 \in 1 .. Len(list2) /\ list2[m + 1].no = n + 1
    BY <1>1, <1>2 DEF n
  <2> QED BY <2>1 DEF Nos
<1>8. ASSUME NEW i \in list2[1].no .. n + 1, calls2[i].returned PROVE i \in Nos(list2)
  <2>1. CASE i = n + 1
    BY <1>7, <2>1
  <2>2. CASE i # n + 1
    <3>1. m > 0
      <4> SUFFICES ASSUME m = 0 PROVE FALSE
        BY <1>1
      <4>1. list2[1].no = n + 1
        BY <1>2 DEF n
      <4> QED BY <1>1, <1>8, <2>2, <4>1
    <3>2. 1 \in 1 .. m
      BY <1>1, <3>1
    <3>3. list2[1] = list[1] /\ list[1].no \in 1 .. n
      BY <1>2, <1>3, <3>2
    <3>4. i \in list[1].no .. n /\ i \in 1 .. n
      BY <1>1, <1>8, <2>2, <3>3
    <3> QED BY <1>2, <1>3, <1>6, <1>8, <3>1, <3>4
  <2> QED BY <2>1, <2>2
<1> QED BY <1>2, <1>4, <1>5, <1>8 DEF Tells, list2, calls2

(* A call that raised leaves no hole where it left no entry.                *)
LEMMA RaisedTells ==
  ASSUME NEW list, NEW calls, Listing(calls), Tells(list, calls), NEW c, ~c.returned
  PROVE  Tells(list, Append(calls, c))
<1> DEFINE n == Len(calls)
           calls2 == Append(calls, c)
<1>1. n \in Nat
  BY DEF Listing
<1>2. Len(calls2) = n + 1 /\ calls2[n + 1] = c /\ \A k \in 1 .. n : calls2[k] = calls[k]
  BY AppendedListing
<1> HIDE DEF calls2
<1>3. \A k \in 1 .. Len(list) : list[k].no \in 1 .. n /\ SameSteps(list[k], calls[list[k].no])
  BY DEF Tells
<1>4. \A k \in 1 .. Len(list) :
        list[k].no \in 1 .. n + 1 /\ SameSteps(list[k], calls2[list[k].no])
  BY <1>1, <1>2, <1>3
<1>5. ASSUME Len(list) > 0, NEW i \in list[1].no .. n + 1, calls2[i].returned, Len(list) \in Nat
      PROVE  i \in Nos(list)
  <2>1. list[1].no \in 1 .. n
    BY <1>3, <1>5
  <2>2. i # n + 1
    BY <1>2, <1>5
  <2>3. i \in list[1].no .. n /\ i \in 1 .. n
    BY <1>1, <1>5, <2>1, <2>2
  <2> QED BY <1>2, <1>5, <2>3 DEF Tells
<1> QED BY <1>2, <1>4, <1>5 DEF Tells, calls2

LEMMA EmptyTells == ASSUME NEW calls PROVE Tells(<<>>, calls) /\ Listing(<<>>) /\ Len(<<>>) = 0
<1>1. <<>> \in Seq({}) /\ Len(<<>>) = 0
  OBVIOUS
<1> QED BY <1>1 DEF Listing, Tells

(* What get_versions returns is the list in memory, or else the file.       *)
Source == IF loaded THEN mem ELSE disk

LEMMA ListedIsSource ==
  HistoryInv => Listing(Listed) /\ Listing(Source) /\ Agrees(Listed, Source)
<1> SUFFICES ASSUME HistoryInv PROVE Listing(Listed) /\ Listing(Source) /\ Agrees(Listed, Source)
  OBVIOUS
<1>1. CASE loaded
  BY <1>1, DumpFacts DEF HistoryInv, Listed, Source, Agrees
<1>2. CASE ~loaded
  BY <1>2 DEF HistoryInv, Listed, Source, Agrees, SameEntry, SameSteps
<1> QED BY <1>1, <1>2

LEMMA HistoryInvIsSound == HistoryInv => HistoryIsSound
<1> SUFFICES ASSUME HistoryInv PROVE HistoryIsSound
  OBVIOUS
<1>1. Tells(Listed, saved)
  BY ListedIsSource, AgreesTells DEF HistoryInv, Source
<1>2. Len(Listed) = Len(Source)
  BY ListedIsSource DEF Agrees
<1>3. ListingTells
  BY <1>1, <1>2 DEF ListingTells, Readable, Source, Silent, HistoryInv
<1>4. MemoryIsOnDisk
  BY DEF HistoryInv, MemoryIsOnDisk, Agrees, SameEntry
<1> QED BY <1>3, <1>4 DEF HistoryIsSound

LEMMA VersionsInitHistory == VersionsInit => HistoryInv
<1> SUFFICES ASSUME VersionsInit PROVE HistoryInv
  OBVIOUS
<1> QED BY EmptyTells DEF VersionsInit, HistoryInv, Silent

(* What every save does to the list and to the history.                     *)
LEMMA SaveFacts ==
  ASSUME HistoryInv, NEW ok \in BOOLEAN, mem' = Appended, saved' = Append(saved, Attempt(ok))
  PROVE  /\ Listing(mem') /\ Listing(saved') /\ Tells(mem', saved')
         /\ Len(mem') > 0 /\ saved'[mem'[Len(mem')].no].returned = ok
         /\ \A k \in 1 .. Len(saved) : saved'[k] = saved[k]
         /\ Nos(mem) \subseteq Nos(mem')
<1>1. Listing(mem) /\ Listing(saved) /\ Len(mem) \in Nat /\ Len(saved) \in Nat
  BY DEF HistoryInv, Listing
<1>2. SameSteps(NewEntry, Attempt(ok)) /\ NewEntry.no = Len(saved) + 1
      /\ Attempt(ok).returned = ok
  BY DEF SameSteps, NewEntry, Attempt
<1>3. mem' = Append(mem, NewEntry)
  BY DEF Appended
<1>4. Tells(mem', saved')
  BY <1>1, <1>2, <1>3, AppendTells DEF HistoryInv
<1>5. /\ Listing(mem') /\ Listing(saved')
      /\ Len(mem') = Len(mem) + 1 /\ mem'[Len(mem) + 1] = NewEntry
      /\ \A k \in 1 .. Len(mem) : mem'[k] = mem[k]
      /\ saved'[Len(saved) + 1] = Attempt(ok)
      /\ \A k \in 1 .. Len(saved) : saved'[k] = saved[k]
  BY <1>1, <1>3, AppendedListing
<1>6. Nos(mem) \subseteq Nos(mem')
  <2>1. \A k \in 1 .. Len(mem) : k \in 1 .. Len(mem') /\ mem'[k].no = mem[k].no
    BY <1>1, <1>5
  <2> QED BY <2>1 DEF Nos
<1> QED BY <1>1, <1>2, <1>4, <1>5, <1>6

\* The file a save that returns leaves.
LEMMA DumpedAgrees ==
  ASSUME Listing(mem'), disk' = Dump(mem'), UNCHANGED variables
  PROVE  Listing(disk') /\ Agrees(disk', mem')
<1>1. PICK list : list = mem'
  OBVIOUS
<1>2. Listing(list) /\ disk' = Dump(list)
  BY <1>1
<1>3. Listing(disk') /\ Agrees(disk', list)
  BY <1>2, DumpFacts DEF Agrees
<1> QED BY <1>1, <1>3

\* A list that was read from memory or from the file.
LEMMA ReadHistory ==
  ASSUME HistoryInv, UNCHANGED <<disk, torn, saved>>, loaded', Listing(mem'),
         Agrees(mem', Source), Len(mem') > 0, loaded \/ ~torn
  PROVE  HistoryInv'
<1>1. Tells(mem', saved) /\ Len(mem') = Len(Source) /\ Len(mem') \in Nat
  BY AgreesTells DEF HistoryInv, Source, Agrees, Listing
<1>2. mem'[Len(mem')].no = Source[Len(Source)].no
  BY <1>1 DEF Agrees, SameEntry
<1>3. ASSUME saved[mem'[Len(mem')].no].returned PROVE ~torn /\ Agrees(disk, mem')
  <2>1. CASE loaded
    <3>1. ~torn /\ Agrees(disk, mem) /\ Agrees(mem', mem)
      BY <1>2, <1>3, <2>1 DEF HistoryInv, Source
    <3> QED BY <3>1, AgreesTurned, AgreesOn
  <2>2. CASE ~loaded
    BY <2>2, AgreesTurned DEF Source
  <2> QED BY <2>1, <2>2
<1>4. /\ Listing(disk') /\ Listing(saved')
      /\ Tells(mem', saved') /\ Tells(disk', saved')
      /\ Len(disk') = 0 /\ ~torn' => Silent(saved')
      /\ Len(disk') > 0 => saved'[disk'[Len(disk')].no].returned
  BY <1>1 DEF HistoryInv
<1>5. saved'[mem'[Len(mem')].no].returned => ~torn' /\ Agrees(disk', mem')
  BY <1>3
<1> QED BY <1>4, <1>5 DEF HistoryInv

LEMMA VersionsNextHistory == HistoryInv /\ [VersionsNext]_versionVars => HistoryInv'
<1> SUFFICES ASSUME HistoryInv, [VersionsNext]_versionVars PROVE HistoryInv'
  OBVIOUS
<1>0. /\ Listing(mem) /\ Listing(disk) /\ Listing(saved)
      /\ Tells(mem, saved) /\ Tells(disk, saved)
      /\ Len(disk) \in Nat /\ Len(saved) \in Nat
  BY DEF HistoryInv, Listing
<1>1. CASE UNCHANGED <<loaded, mem, disk, torn, saved>>
  <2>1. /\ Listing(mem') /\ Listing(disk') /\ Listing(saved')
        /\ Tells(mem', saved') /\ Tells(disk', saved')
        /\ loaded' => Len(mem') > 0
        /\ Len(disk') = 0 /\ ~torn' => Silent(saved')
        /\ Len(disk') > 0 => saved'[disk'[Len(disk')].no].returned
        /\ loaded' /\ saved'[mem'[Len(mem')].no].returned => ~torn' /\ Agrees(disk', mem')
    BY <1>1 DEF HistoryInv
  <2> QED BY <2>1 DEF HistoryInv
<1>2. CASE Edit
  BY <1>1, <1>2 DEF Edit
<1>3. CASE SaveVersion
  <2>1. /\ mem' = Appended /\ disk' = Dump(mem') /\ saved' = Append(saved, Attempt(TRUE))
        /\ loaded' /\ ~torn' /\ UNCHANGED variables
    BY <1>3 DEF SaveVersion
  <2>2. /\ Listing(mem') /\ Listing(saved') /\ Tells(mem', saved')
        /\ Len(mem') > 0 /\ saved'[mem'[Len(mem')].no].returned
    BY <2>1, SaveFacts
  <2>3. Listing(disk') /\ Agrees(disk', mem')
    BY <2>1, <2>2, DumpedAgrees
  <2>4. Tells(disk', saved') /\ Len(disk') = Len(mem') /\ Len(mem') \in Nat
    BY <2>2, <2>3, AgreesTells DEF Agrees, Listing
  <2>5. disk'[Len(disk')].no = mem'[Len(mem')].no
    BY <2>2, <2>3, <2>4 DEF Agrees, SameEntry
  <2>6. /\ Len(disk') # 0 /\ saved'[disk'[Len(disk')].no].returned
    BY <2>2, <2>4, <2>5
  <2> QED BY <2>1, <2>2, <2>3, <2>4, <2>6 DEF HistoryInv
<1>4. CASE SaveFails
  <2>1. /\ mem' = Appended /\ saved' = Append(saved, Attempt(FALSE)) /\ loaded'
        /\ \/ UNCHANGED <<disk, torn>>
           \/ disk' = <<>> /\ torn'
    BY <1>4 DEF SaveFails
  <2>2. /\ Listing(mem') /\ Listing(saved') /\ Tells(mem', saved')
        /\ Len(mem') > 0 /\ ~saved'[mem'[Len(mem')].no].returned
        /\ \A k \in 1 .. Len(saved) : saved'[k] = saved[k]
    BY <2>1, SaveFacts
  <2>3. CASE disk' = <<>> /\ torn'
    <3>1. Tells(disk', saved') /\ Listing(disk') /\ Len(disk') = 0
      BY <2>3, EmptyTells
    <3>2. loaded' /\ torn'
      BY <2>1, <2>3
    <3> QED BY <2>2, <3>1, <3>2 DEF HistoryInv
  <2>4. CASE UNCHANGED <<disk, torn>>
    <3>1. ~Attempt(FALSE).returned
      BY DEF Attempt
    <3>2. Tells(disk, saved')
      BY <1>0, <2>1, <3>1, RaisedTells
    <3>3. Len(disk) > 0 => saved'[disk[Len(disk)].no].returned
      <4> SUFFICES ASSUME Len(disk) > 0 PROVE saved'[disk[Len(disk)].no].returned
        OBVIOUS
      <4>1. Len(disk) \in 1 .. Len(disk)
        BY <1>0
      <4>2. disk[Len(disk)].no \in 1 .. Len(saved)
        BY <1>0, <4>1 DEF Tells
      <4> QED BY <2>2, <4>2 DEF HistoryInv
    <3>4. Silent(saved) => Silent(saved')
      <4>1. Len(saved') = Len(saved) + 1 /\ saved'[Len(saved) + 1] = Attempt(FALSE)
        BY <1>0, <2>1, AppendedListing
      <4>2. ASSUME Silent(saved), NEW n \in 1 .. Len(saved') PROVE ~saved'[n].returned
        <5>1. CASE n = Len(saved) + 1
          BY <3>1, <4>1, <5>1
        <5>2. CASE n # Len(saved) + 1
          <6>1. n \in 1 .. Len(saved)
            BY <1>0, <4>1, <5>2
          <6> QED BY <2>2, <4>2, <6>1 DEF Silent
        <5> QED BY <5>1, <5>2
      <4> QED BY <4>2 DEF Silent
    <3>5. Tells(disk', saved') /\ (Silent(saved) => Silent(saved)')
          /\ (Len(disk') > 0 => saved'[disk'[Len(disk')].no].returned)
          /\ Listing(disk') /\ disk' = disk /\ torn' = torn
      BY <1>0, <2>4, <3>2, <3>3, <3>4 DEF Silent
    <3> QED BY <2>1, <2>2, <3>5 DEF HistoryInv
  <2> QED BY <2>1, <2>3, <2>4
<1>5. CASE CrashInSave
  BY <1>0, <1>5, EmptyTells DEF CrashInSave, HistoryInv
<1>6. CASE Load
  <2>1. /\ mem' = Read(disk) /\ loaded' /\ ~torn /\ ~loaded /\ disk # <<>>
        /\ UNCHANGED <<disk, torn, saved>>
    BY <1>6 DEF Load
  <2>2. Listing(mem') /\ Agrees(mem', disk) /\ Len(mem') = Len(disk)
    BY <1>0, <2>1, ReadFacts DEF Agrees
  <2>3. Len(disk) > 0
    <3>1. PICK S : disk \in Seq(S)
      BY <1>0 DEF Listing
    <3> QED BY <1>0, <2>1, <3>1
  <2> QED BY <2>1, <2>2, <2>3, ReadHistory DEF Source
<1>7. ASSUME NEW v \in Version, Revert(v) PROVE HistoryInv'
  <2>1. /\ mem' = Read(Listed) /\ loaded' /\ (loaded \/ ~torn)
        /\ UNCHANGED <<disk, torn, saved>> /\ \E k \in 1 .. Len(Listed) : Listed[k].version = v
    BY <1>7 DEF Revert, Readable
  <2>2. Listing(mem') /\ Agrees(mem', Listed) /\ Len(mem') = Len(Listed)
    BY <2>1, ListedIsSource, ReadFacts DEF Agrees
  <2>3. Agrees(mem', Source)
    BY <2>2, ListedIsSource, AgreesOn
  <2>4. Len(mem') > 0
    BY <2>1, <2>2 DEF Listing
  <2> QED BY <2>1, <2>2, <2>3, <2>4, ReadHistory
<1>8. CASE Restart
  <2>1. ~loaded' /\ mem' = <<>> /\ UNCHANGED <<disk, torn, saved>>
    BY <1>8 DEF Restart
  <2>2. Tells(disk', saved') /\ (Silent(saved) => Silent(saved)')
        /\ (Len(disk') > 0 => saved'[disk'[Len(disk')].no].returned)
    BY <1>0, <2>1 DEF HistoryInv, Silent
  <2> QED BY <1>0, <2>1, <2>2, EmptyTells DEF HistoryInv
<1>9. CASE UNCHANGED versionVars
  BY <1>1, <1>9 DEF versionVars
<1> QED BY <1>2, <1>3, <1>4, <1>5, <1>6, <1>7, <1>8, <1>9 DEF VersionsNext

(* What get_versions lists are saves as they were made, in order and without *)
(* a hole, and the file has them once a save has returned: for any versions, *)
(* any number of saves, and restarts, failed writes and crashes anywhere.   *)
THEOREM HistoryAlwaysSound == VersionsSpec => []HistoryIsSound
<1>1. VersionsSpec => []HistoryInv
  BY VersionsInitHistory, VersionsNextHistory, PTL DEF VersionsSpec
<1> QED BY <1>1, HistoryInvIsSound, PTL

LEMMA StepKeepsListed ==
  HistoryInv /\ [VersionsNext]_versionVars =>
    [loaded => \A n \in Nos(disk) \cap Nos(mem) : n \in Nos(disk)' \/ torn']_versionVars
<1> SUFFICES ASSUME HistoryInv, [VersionsNext]_versionVars, NEW n \in Nos(disk) \cap Nos(mem)
             PROVE  n \in Nos(disk)' \/ torn'
  OBVIOUS
<1>1. CASE UNCHANGED disk
  BY <1>1 DEF Nos
<1>2. CASE torn'
  BY <1>2
<1>3. CASE SaveVersion
  <2>1. /\ mem' = Appended /\ disk' = Dump(mem') /\ saved' = Append(saved, Attempt(TRUE))
        /\ UNCHANGED variables
    BY <1>3 DEF SaveVersion
  <2>2. Listing(mem') /\ Nos(mem) \subseteq Nos(mem')
    BY <2>1, SaveFacts
  <2>3. Agrees(disk', mem')
    BY <2>1, <2>2, DumpedAgrees
  <2>4. Nos(disk') = Nos(mem')
    BY <2>3 DEF Agrees, SameEntry, Nos
  <2> QED BY <2>2, <2>4 DEF Nos
<1> QED
  BY <1>1, <1>2, <1>3
  DEF VersionsNext, versionVars, Edit, SaveFails, CrashInSave, Load, Revert, Restart

(* No save takes out of the file a version that its process lists.          *)
THEOREM ListedAlwaysStays == VersionsSpec => ListedStaysOnDisk
BY VersionsInitHistory, VersionsNextHistory, StepKeepsListed, PTL
DEF VersionsSpec, ListedStaysOnDisk
================================================================================
