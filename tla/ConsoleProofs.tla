------------------------------- MODULE ConsoleProofs -------------------------------
(***************************************************************************)
(* Proofs about what people do at the console: signing in and approving.   *)
(*                                                                         *)
(* Refresh tokens, for any users, life times and bounds: a parent is older *)
(* than its child, every stored hash is of an issued token, and a token    *)
(* still in the store has no child.  The login limiter, for any window and *)
(* number of attempts: purged, its list is every wrong password of the     *)
(* window.  Approvals, for any requests, analysts and tasks: a decided     *)
(* record has no expiry, what a handler holds was read from a record that  *)
(* exists, and while nothing failed a decided request is pushed or a       *)
(* handler is still at it.                                                 *)
(***************************************************************************)
EXTENDS ApprovalService, ConsoleAuth, FiniteSetTheorems, SequenceTheorems, TLAPS

-----------------------------------------------------------------------------
(* Approvals, with any number of failing Redis commands.  The invariant     *)
(* says that a handler past its SET has left a decision behind and that a   *)
(* decision carries no TTL: so the key of a decided request cannot vanish   *)
(* before, between or after LREM and LPUSH.  That a record exists only once *)
(* create_approval_request has begun keeps creation from overwriting a      *)
(* decision.                                                                *)

DecisionsPersist == \A r \in Req : Decided(r) => ~rec[r].ttl

WrittenIsDecided ==
  \A t \in Task : task[t].pc \in {"lrem", "lpush"} => Decided(task[t].req)

UncreatedIsAbsent ==
  \A r \in Req : created[r] = "no" => rec[r].status = "absent"

HeldIsCreated ==
  \A t \in Task : task[t].pc \in {"got", "write"} => created[task[t].req] # "no"

IInv ==
  /\ TypeOK
  /\ DecisionsPersist
  /\ WrittenIsDecided
  /\ CompletedIsDecided
  /\ UncreatedIsAbsent
  /\ HeldIsCreated
  /\ LeftPendingIsDecided

LEMMA InitIInv == Init => IInv
<1> SUFFICES ASSUME Init PROVE IInv
  OBVIOUS
<1>1. (CHOOSE r \in Req : TRUE) \in Req
  BY ApprovalAssumption
<1>2. TypeOK
  BY <1>1, ApprovalAssumption DEF Init, TypeOK, Status, TaskState
<1> QED
  BY <1>2
  DEF Init, IInv, DecisionsPersist, WrittenIsDecided, CompletedIsDecided, Decided,
      UncreatedIsAbsent, HeldIsCreated, LeftPendingIsDecided

(* A handler's move keeps the type of the tasks. *)
LEMMA GotoType ==
  ASSUME TypeOK, NEW t \in Task,
         NEW pc \in {"idle", "approve", "sweep", "got", "write", "lrem", "lpush"},
         Goto(t, pc)
  PROVE  /\ task' \in [Task -> TaskState]
         /\ task'[t].pc = pc /\ task'[t].req = task[t].req
         /\ \A u \in Task : u # t => task'[u] = task[u]
BY DEF TypeOK, TaskState, Goto

(* The inductive step: one case per action; only Write and Vanish touch a
   record that exists. *)
LEMMA NextIInv == IInv /\ [Next]_vars => IInv'
<1> SUFFICES ASSUME IInv, [Next]_vars PROVE IInv'
  OBVIOUS
<1>0. /\ TypeOK /\ DecisionsPersist /\ WrittenIsDecided /\ CompletedIsDecided
      /\ UncreatedIsAbsent /\ HeldIsCreated /\ LeftPendingIsDecided
      /\ \A t \in Task : task[t] \in TaskState /\ task[t].req \in Req
  BY DEF IInv, TypeOK, TaskState
<1> USE DEF DecisionsPersist, WrittenIsDecided, CompletedIsDecided, Decided,
            UncreatedIsAbsent, HeldIsCreated, LeftPendingIsDecided
<1>1. ASSUME NEW r \in Req, CreateStore(r) PROVE IInv'
  <2>1. TypeOK'
    BY <1>0, <1>1 DEF CreateStore, TypeOK, Status
  <2>2. created[r] = "no" /\ created'[r] = "stored" /\ UNCHANGED <<pending, completed, task>>
    BY <1>0, <1>1 DEF CreateStore, TypeOK
  <2>3. rec'[r] = [status |-> "pending", ttl |-> TRUE]
    BY <1>0, <1>1 DEF CreateStore, TypeOK
  <2>4. \A q \in Req : q # r => rec'[q] = rec[q] /\ created'[q] = created[q]
    BY <1>0, <1>1 DEF CreateStore, TypeOK
  <2>5. \A q \in Req : Decided(q)' <=> Decided(q)
    BY <1>0, <2>2, <2>3, <2>4
  <2>6. WrittenIsDecided' /\ CompletedIsDecided' /\ LeftPendingIsDecided'
    BY <1>0, <2>2, <2>4, <2>5
  <2>7. DecisionsPersist' /\ UncreatedIsAbsent' /\ HeldIsCreated'
    BY <1>0, <2>2, <2>3, <2>4
  <2> QED BY <2>1, <2>6, <2>7 DEF IInv
<1>2. ASSUME NEW r \in Req, CreateEnqueue(r) \/ CreateFail(r) PROVE IInv'
  <2>1. CASE CreateEnqueue(r)
    BY <1>0, <2>1 DEF CreateEnqueue, IInv, TypeOK
  <2>2. CASE CreateFail(r)
    <3>1. faults' \in 0 .. MaxFaults
      BY <1>0, <2>2, ApprovalAssumption DEF CreateFail, TypeOK
    <3> QED BY <1>0, <2>2, <3>1 DEF CreateFail, IInv, TypeOK
  <2> QED BY <1>2, <2>1, <2>2
<1>3. ASSUME NEW r \in Req, Expire(r) PROVE IInv'
  BY <1>0, <1>3 DEF Expire, IInv, TypeOK
<1>4. ASSUME NEW r \in Req, Vanish(r) PROVE IInv'
  <2>1. TypeOK'
    BY <1>0, <1>4 DEF Vanish, TypeOK, Status
  <2>2. rec'[r].status = "absent" /\ ~Decided(r)
    BY <1>0, <1>4 DEF Vanish, TypeOK
  <2>3. UNCHANGED <<created, pending, completed, task>>
    BY <1>4 DEF Vanish
  <2>4. \A q \in Req : q # r => rec'[q] = rec[q]
    BY <1>0, <1>4 DEF Vanish, TypeOK
  <2>5. \A q \in Req : Decided(q)' <=> Decided(q)
    BY <2>2, <2>4
  <2>6. WrittenIsDecided' /\ CompletedIsDecided' /\ LeftPendingIsDecided'
    BY <1>0, <2>3, <2>5
  <2>7. DecisionsPersist' /\ UncreatedIsAbsent' /\ HeldIsCreated'
    BY <1>0, <2>2, <2>3, <2>4, <2>5
  <2> QED BY <2>1, <2>6, <2>7 DEF IInv
<1>5. ASSUME NEW a \in Analyst, NEW r \in Req, RejectGet(a, r) \/ ApproveGet(a, r)
      PROVE IInv'
  <2>1. a \in Task
    BY DEF Task
  <2>2. /\ UNCHANGED <<created, rec, expired, pending, completed, faults>>
        /\ rec[r].status # "absent"
    BY <1>5 DEF RejectGet, ApproveGet
  <2>3. PICK pc \in {"approve", "write"} :
          task' = [task EXCEPT ![a] = [pc |-> pc, req |-> r,
                                       status |-> "rejected", todo |-> {}]]
    BY <1>5 DEF RejectGet, ApproveGet
  <2>4. TypeOK'
    BY <1>0, <2>1, <2>2, <2>3 DEF TypeOK, TaskState
  <2>5. /\ task'[a].pc = pc /\ task'[a].req = r
        /\ \A u \in Task : u # a => task'[u] = task[u]
    BY <1>0, <2>1, <2>3 DEF TypeOK
  <2>6. WrittenIsDecided' /\ HeldIsCreated'
    BY <1>0, <2>2, <2>3, <2>5
  <2>7. /\ DecisionsPersist' /\ CompletedIsDecided' /\ UncreatedIsAbsent'
        /\ LeftPendingIsDecided'
    BY <1>0, <2>2
  <2> QED BY <2>4, <2>6, <2>7 DEF IInv
<1>6. ASSUME NEW t \in Task,
             NEW pc \in {"idle", "sweep", "write"}, Goto(t, pc),
             pc = "write" => task[t].pc = "got",
             UNCHANGED <<created, rec, expired, pending, completed>>,
             faults' \in 0 .. MaxFaults
      PROVE IInv'
  BY <1>0, <1>6, GotoType DEF IInv, TypeOK
<1>7. ASSUME NEW a \in Analyst, ApproveRaise(a) PROVE IInv'
  <2>1. a \in Task
    BY DEF Task
  <2> QED BY <1>0, <1>6, <1>7, <2>1 DEF ApproveRaise, TypeOK
<1>8. ASSUME NEW s \in Sweeper, Sweep(s) PROVE IInv'
  <2>1. s \in Task
    BY DEF Task
  <2>2. CASE SweepStart(s)
    BY <1>0, <2>1, <2>2 DEF SweepStart, IInv, TypeOK, TaskState
  <2>3. ASSUME NEW r \in Req, SweepGet(s, r) PROVE IInv'
    BY <1>0, <2>1, <2>3 DEF SweepGet, IInv, TypeOK, TaskState
  <2>4. CASE SweepCompare(s) \/ SweepEnd(s)
    BY <1>0, <1>6, <2>1, <2>4 DEF SweepCompare, SweepEnd, TypeOK
  <2> QED BY <1>8, <2>2, <2>3, <2>4 DEF Sweep
<1>9. ASSUME NEW t \in Task, Write(t) PROVE IInv'
  <2> DEFINE r == task[t].req
  <2>1. /\ Goto(t, "lrem")
        /\ rec' = [rec EXCEPT ![r] = [status |-> task[t].status, ttl |-> FALSE]]
        /\ UNCHANGED <<created, expired, pending, completed, faults>>
    BY <1>9 DEF Write
  <2>2. task[t].status \in {"rejected", "timeout"}
    BY <1>0 DEF TaskState
  <2>3. TypeOK'
    BY <1>0, <2>1, <2>2, GotoType DEF TypeOK, Status
  <2>4. rec'[r].status = task[t].status /\ ~rec'[r].ttl
    BY <1>0, <2>1 DEF TypeOK
  <2>5. \A q \in Req : q # r => rec'[q] = rec[q]
    BY <1>0, <2>1 DEF TypeOK
  <2>6. \A q \in Req : Decided(q) => Decided(q)'
    BY <2>2, <2>4, <2>5
  <2>7. WrittenIsDecided'
    BY <1>0, <2>1, <2>2, <2>4, <2>6, GotoType
  <2>8. DecisionsPersist' /\ CompletedIsDecided' /\ LeftPendingIsDecided'
    BY <1>0, <2>1, <2>4, <2>5, <2>6
  <2>9. created[r] # "no"
    BY <1>0, <1>9 DEF Write
  <2>10. UncreatedIsAbsent' /\ HeldIsCreated'
    BY <1>0, <2>1, <2>5, <2>9, GotoType
  <2> QED BY <2>3, <2>7, <2>8, <2>10 DEF IInv
<1>10. ASSUME NEW t \in Task, Lrem(t) PROVE IInv'
  <2>1. /\ Goto(t, "lpush") /\ Decided(task[t].req)
        /\ pending' = pending \ {task[t].req}
        /\ UNCHANGED <<created, rec, expired, completed, faults>>
    BY <1>0, <1>10 DEF Lrem
  <2>2. TypeOK'
    BY <1>0, <2>1, GotoType DEF TypeOK
  <2>3. WrittenIsDecided' /\ HeldIsCreated'
    BY <1>0, <2>1, GotoType
  <2>4. /\ DecisionsPersist' /\ CompletedIsDecided' /\ UncreatedIsAbsent'
        /\ LeftPendingIsDecided'
    BY <1>0, <2>1
  <2> QED BY <2>2, <2>3, <2>4 DEF IInv
<1>11. ASSUME NEW t \in Task, Lpush(t) PROVE IInv'
  <2> DEFINE pc == IF t \in Sweeper THEN "sweep" ELSE "idle"
  <2>1. Goto(t, pc) /\ Decided(task[t].req) /\ UNCHANGED rec
    BY <1>0, <1>11 DEF Lpush
  <2>2. completed' \in [Req -> 0 .. 2]
    BY <1>0, <1>11 DEF Lpush, TypeOK
  <2>3. \A q \in Req : q # task[t].req => completed'[q] = completed[q]
    BY <1>0, <1>11 DEF Lpush, TypeOK
  <2>4. TypeOK'
    BY <1>0, <1>11, <2>1, <2>2, GotoType DEF Lpush, TypeOK
  <2>5. WrittenIsDecided'
    BY <1>0, <2>1, GotoType
  <2>6. DecisionsPersist' /\ CompletedIsDecided'
    BY <1>0, <2>1, <2>3
  <2>7. UNCHANGED <<created, pending>>
    BY <1>11 DEF Lpush
  <2>8. UncreatedIsAbsent' /\ HeldIsCreated' /\ LeftPendingIsDecided'
    BY <1>0, <2>1, <2>7, GotoType
  <2> QED BY <2>4, <2>5, <2>6, <2>8 DEF IInv
<1>12. ASSUME NEW t \in Task, Fail(t) PROVE IInv'
  <2>1. faults' \in 0 .. MaxFaults
    BY <1>0, <1>12, ApprovalAssumption DEF Fail, TypeOK
  <2> QED BY <1>6, <1>12, <2>1 DEF Fail
<1>13. CASE UNCHANGED vars
  BY <1>0, <1>13 DEF vars, IInv, TypeOK
<1> QED
  BY <1>1, <1>2, <1>3, <1>4, <1>5, <1>7, <1>8, <1>9, <1>10, <1>11, <1>12, <1>13
  DEF Next, Settle

(* Type correctness of the gate. *)
THEOREM TypeCorrect == Spec => []TypeOK
<1>1. IInv => TypeOK
  BY DEF IInv
<1> QED BY <1>1, InitIInv, NextIInv, PTL DEF Spec

(* An id on the completed list always has a decision on record. *)
THEOREM CompletedAlwaysDecided == Spec => []CompletedIsDecided
<1>1. IInv => CompletedIsDecided
  BY DEF IInv
<1> QED BY <1>1, InitIInv, NextIInv, PTL DEF Spec

(* An id leaves the pending list only with its decision on record. *)
THEOREM LeftPendingAlwaysDecided == Spec => []LeftPendingIsDecided
<1>1. IInv => LeftPendingIsDecided
  BY DEF IInv
<1> QED BY <1>1, InitIInv, NextIInv, PTL DEF Spec

(* Neither list runs ahead of the decisions on record, whoever fails where. *)
THEOREM ListsAlwaysFollow == Spec => []ListsFollowRecords
<1>1. IInv => ListsFollowRecords
  BY DEF IInv, ListsFollowRecords
<1> QED BY <1>1, InitIInv, NextIInv, PTL DEF Spec

(* A step of the gate keeps every decision: only Write and Vanish change the
   status of a record that is there, Write leaves a decision and Vanish finds a
   TTL, which a decided record does not have. *)
LEMMA StepKeepsDecisions ==
  IInv /\ [Next]_vars => [\A r \in Req : Decided(r) => Decided(r)']_vars
<1> SUFFICES ASSUME IInv, [Next]_vars, NEW q \in Req, Decided(q)
             PROVE  Decided(q)'
  OBVIOUS
<1>0. /\ TypeOK /\ DecisionsPersist /\ UncreatedIsAbsent
      /\ \A t \in Task : task[t] \in TaskState
  BY DEF IInv, TypeOK, TaskState
<1>1. rec' = rec => Decided(q)'
  BY DEF Decided
<1>2. ASSUME NEW r \in Req, CreateStore(r) PROVE Decided(q)'
  BY <1>0, <1>2 DEF CreateStore, TypeOK, Decided, UncreatedIsAbsent
<1>3. ASSUME NEW r \in Req, Vanish(r) PROVE Decided(q)'
  BY <1>0, <1>3 DEF Vanish, TypeOK, Decided, DecisionsPersist
<1>4. ASSUME NEW t \in Task, Write(t) PROVE Decided(q)'
  <2>1. task[t].status \in {"rejected", "timeout"}
    BY <1>0 DEF TaskState
  <2>2. rec' = [rec EXCEPT ![task[t].req] =
                             [status |-> task[t].status, ttl |-> FALSE]]
    BY <1>4 DEF Write
  <2> QED BY <1>0, <2>1, <2>2 DEF TypeOK, Decided
<1> QED
  BY <1>1, <1>2, <1>3, <1>4
  DEF Next, vars, CreateEnqueue, CreateFail, Expire, RejectGet, ApproveGet,
      ApproveRaise, Sweep, SweepStart, SweepGet, SweepCompare, SweepEnd,
      Settle, Lrem, Lpush, Fail

-----------------------------------------------------------------------------
\* Both lists, as long as no Redis command has failed.

\* A handler or a list knows of a request only after its creation returned.
Announced ==
  /\ \A r \in pending : created[r] = "returned"
  /\ \A t \in Task : task[t].pc = "sweep" => \A r \in task[t].todo : created[r] = "returned"
  /\ \A t \in Task : task[t].pc \in {"got", "write", "lrem", "lpush"} =>
       /\ created[task[t].req] = "returned"
       /\ \A r \in task[t].todo : created[r] = "returned"

DecidedIsAnnounced == \A r \in Req : Decided(r) => created[r] = "returned"

\* A handler still has to take r off the pending list (step is lrem), or to push it.
At(r, step) == \E t \in Task : task[t].req = r /\ task[t].pc = step

Agreed ==
  faults = MaxFaults =>
    \A r \in Req : Decided(r) =>
      /\ completed[r] > 0 \/ At(r, "lrem") \/ At(r, "lpush")
      /\ r \in pending => At(r, "lrem")

AgreeInv == IInv /\ Announced /\ DecidedIsAnnounced /\ Agreed

LEMMA InitAgree == Init => Announced /\ DecidedIsAnnounced /\ Agreed
BY DEF Init, Announced, DecidedIsAnnounced, Agreed, Decided

(* What a task goes on with.                                                *)
LEMMA NextAnnounced == IInv /\ Announced /\ [Next]_vars => Announced'
<1> SUFFICES ASSUME IInv, Announced, [Next]_vars PROVE Announced'
  OBVIOUS
<1>0. /\ TypeOK /\ \A t \in Task : task[t] \in TaskState /\ task[t].req \in Req
  BY DEF IInv, TypeOK, TaskState
<1>1. ASSUME NEW r \in Req, CreateStore(r) \/ CreateEnqueue(r) \/ CreateFail(r) PROVE Announced'
  <2>1. created[r] # "returned" /\ task' = task /\ pending' \subseteq pending \cup {r}
        /\ (pending' = pending \/ created'[r] = "returned")
    BY <1>0, <1>1 DEF CreateStore, CreateEnqueue, CreateFail, TypeOK
  <2>2. \A q \in Req : q # r => created'[q] = created[q]
    BY <1>0, <1>1 DEF CreateStore, CreateEnqueue, CreateFail, TypeOK
  <2>3. \A t \in Task : task[t].todo \subseteq Req
    BY <1>0 DEF TaskState
  <2>4. \A q \in Req : created[q] = "returned" => created'[q] = "returned"
    BY <2>1, <2>2
  <2>5. pending \subseteq Req
    BY <1>0 DEF TypeOK
  <2>6. \A q \in pending' : created'[q] = "returned"
    BY <2>1, <2>4, <2>5 DEF Announced
  <2> QED BY <1>0, <2>1, <2>3, <2>4, <2>6 DEF Announced
<1>2. ASSUME NEW t \in Task, UNCHANGED created, pending' \subseteq pending,
             NEW new \in TaskState, task' = [task EXCEPT ![t] = new],
             new.pc = "sweep" => \A r \in new.todo : created[r] = "returned",
             new.pc \in {"got", "write", "lrem", "lpush"} =>
               /\ created[new.req] = "returned"
               /\ \A r \in new.todo : created[r] = "returned"
      PROVE Announced'
  <2>1. task'[t] = new /\ \A u \in Task : u # t => task'[u] = task[u]
    BY <1>0, <1>2 DEF TypeOK
  <2> QED BY <1>2, <2>1 DEF Announced
<1>3. ASSUME NEW t \in Task, NEW pc, Goto(t, pc), UNCHANGED created, pending' \subseteq pending,
             \/ pc = "idle"
             \/ pc = "sweep" /\ task[t].pc \in {"got", "lpush"}
             \/ pc \in {"write", "lrem", "lpush"} /\ task[t].pc \in {"got", "write", "lrem"}
      PROVE Announced'
  <2> DEFINE new == [task[t] EXCEPT !.pc = pc]
  <2>1. new = [pc |-> pc, req |-> task[t].req, status |-> task[t].status, todo |-> task[t].todo]
    BY <1>0 DEF TaskState
  <2>2. new \in TaskState
    BY <1>0, <1>3, <2>1 DEF TaskState
  <2>3. task' = [task EXCEPT ![t] = new]
    BY <1>3 DEF Goto
  <2> QED BY <1>2, <1>3, <2>1, <2>2, <2>3 DEF Announced
<1>4. ASSUME NEW a \in Analyst, NEW r \in Req, RejectGet(a, r) \/ ApproveGet(a, r) PROVE Announced'
  <2>1. a \in Task
    BY DEF Task
  <2>2. PICK pc \in {"approve", "write"} :
          task' = [task EXCEPT ![a] = [pc |-> pc, req |-> r,
                                       status |-> "rejected", todo |-> {}]]
    BY <1>4 DEF RejectGet, ApproveGet
  <2>3. created[r] = "returned" /\ UNCHANGED <<created, pending>>
    BY <1>4 DEF RejectGet, ApproveGet
  <2> QED BY <1>2, <2>1, <2>2, <2>3 DEF TaskState
<1>5. ASSUME NEW s \in Sweeper, Sweep(s) PROVE Announced'
  <2>1. s \in Task
    BY DEF Task
  <2>2. CASE SweepStart(s)
    <3> DEFINE new == [pc |-> "sweep", req |-> task[s].req, status |-> "timeout", todo |-> pending]
    <3>1. new \in TaskState /\ task' = [task EXCEPT ![s] = new]
      BY <1>0, <2>1, <2>2 DEF SweepStart, TaskState, TypeOK
    <3>2. UNCHANGED <<created, pending>> /\ \A r \in pending : created[r] = "returned"
      BY <2>2 DEF SweepStart, Announced
    <3> QED BY <1>2, <2>1, <3>1, <3>2
  <2>3. ASSUME NEW r \in Req, SweepGet(s, r) PROVE Announced'
    <3>1. PICK pc \in {"sweep", "got"} :
            task' = [task EXCEPT ![s] = [pc |-> pc, req |-> r, status |-> "timeout",
                                         todo |-> task[s].todo \ {r}]]
      BY <2>3 DEF SweepGet
    <3>2. UNCHANGED <<created, pending>> /\ task[s].pc = "sweep" /\ r \in task[s].todo
      BY <2>3 DEF SweepGet
    <3>3. \A q \in task[s].todo : created[q] = "returned"
      BY <2>1, <3>2 DEF Announced
    <3>4. task[s].todo \in SUBSET Req
      BY <1>0, <2>1 DEF TaskState
    <3> QED BY <1>2, <2>1, <3>1, <3>2, <3>3, <3>4 DEF TaskState
  <2>4. CASE SweepCompare(s) \/ SweepEnd(s)
    <3>1. UNCHANGED <<created, pending>>
      BY <2>4 DEF SweepCompare, SweepEnd
    <3>2. Goto(s, "idle") \/ (task[s].pc = "got" /\ (Goto(s, "write") \/ Goto(s, "sweep")))
      BY <2>4 DEF SweepCompare, SweepEnd
    <3> QED BY <1>3, <2>1, <3>1, <3>2
  <2> QED BY <1>5, <2>2, <2>3, <2>4 DEF Sweep
<1>6. ASSUME NEW t \in Task, Settle(t) \/ Fail(t) PROVE Announced'
  <2>1. UNCHANGED created /\ pending' \subseteq pending
    BY <1>6 DEF Settle, Write, Lrem, Lpush, Fail
  <2>2. \/ Goto(t, "idle")
        \/ task[t].pc = "write" /\ Goto(t, "lrem")
        \/ task[t].pc = "lrem" /\ Goto(t, "lpush")
        \/ task[t].pc = "lpush" /\ Goto(t, "sweep")
    BY <1>6 DEF Settle, Write, Lrem, Lpush, Fail
  <2> QED BY <1>3, <2>1, <2>2
<1>7. ASSUME NEW a \in Analyst, ApproveRaise(a) PROVE Announced'
  BY <1>3, <1>7 DEF ApproveRaise, Task
<1>8. CASE UNCHANGED vars \/ \E r \in Req : Expire(r) \/ Vanish(r)
  BY <1>8 DEF vars, Expire, Vanish, Announced
<1> QED BY <1>1, <1>4, <1>5, <1>6, <1>7, <1>8 DEF Next

LEMMA NextDecidedAnnounced ==
  IInv /\ Announced /\ DecidedIsAnnounced /\ [Next]_vars => DecidedIsAnnounced'
<1> SUFFICES ASSUME IInv, Announced, DecidedIsAnnounced, [Next]_vars, NEW q \in Req, Decided(q)'
             PROVE  created'[q] = "returned"
  BY DEF DecidedIsAnnounced
<1>0. TypeOK /\ \A t \in Task : task[t] \in TaskState
  BY DEF IInv, TypeOK
<1>1. created[q] = "returned" => created'[q] = "returned"
  BY <1>0 DEF Next, vars, CreateStore, CreateEnqueue, CreateFail, Expire, Vanish, RejectGet,
      ApproveGet, ApproveRaise, Sweep, SweepStart, SweepGet, SweepCompare, SweepEnd,
      Settle, Write, Lrem, Lpush, Fail, TypeOK
<1>2. CASE Decided(q)
  BY <1>1, <1>2 DEF DecidedIsAnnounced
<1>3. CASE ~Decided(q)
  <2>1. rec' # rec
    BY <1>3 DEF Decided
  <2>2. ASSUME NEW r \in Req, CreateStore(r) \/ Vanish(r) PROVE FALSE
    <3>1. CASE CreateStore(r)
      BY <1>0, <1>3, <3>1 DEF CreateStore, TypeOK, Decided
    <3>2. CASE Vanish(r)
      BY <1>0, <1>3, <3>2 DEF Vanish, TypeOK, Decided
    <3> QED BY <2>2, <3>1, <3>2
  <2>3. ASSUME NEW t \in Task, Write(t) PROVE created'[q] = "returned"
    <3>1. task[t].req = q
      BY <1>0, <1>3, <2>3 DEF Write, Decided, TypeOK
    <3> QED BY <1>1, <2>3, <3>1 DEF Write, Announced
  <2> QED BY <2>1, <2>2, <2>3 DEF Next, vars, CreateEnqueue, CreateFail, Expire, RejectGet,
      ApproveGet, ApproveRaise, Sweep, SweepStart, SweepGet, SweepCompare, SweepEnd,
      Settle, Lrem, Lpush, Fail
<1> QED BY <1>2, <1>3

(* Steps that leave the lists and the handlers past their SET alone.        *)
LEMMA AgreedFrame ==
  ASSUME Agreed, UNCHANGED <<faults, completed>>, pending' \subseteq pending,
         \A r \in Req : Decided(r)' => Decided(r),
         \A u \in Task : task[u].pc \in {"lrem", "lpush"} => task'[u] = task[u]
  PROVE  Agreed'
BY DEF Agreed, At

LEMMA NextAgreed == AgreeInv /\ [Next]_vars => Agreed'
<1> SUFFICES ASSUME AgreeInv, [Next]_vars PROVE Agreed'
  OBVIOUS
<1>0. /\ TypeOK /\ Agreed /\ Announced /\ DecidedIsAnnounced /\ WrittenIsDecided
      /\ \A t \in Task : task[t] \in TaskState /\ task[t].req \in Req
  BY DEF AgreeInv, IInv, TypeOK, TaskState
<1>1. ASSUME NEW r \in Req, CreateStore(r) \/ Expire(r) \/ Vanish(r) PROVE Agreed'
  <2>1. UNCHANGED <<faults, completed, pending, task>>
    BY <1>1 DEF CreateStore, Expire, Vanish
  <2>2. \A q \in Req : Decided(q)' => Decided(q)
    BY <1>0, <1>1 DEF CreateStore, Expire, Vanish, TypeOK, Decided
  <2> QED BY <1>0, <2>1, <2>2, AgreedFrame
<1>2. ASSUME NEW r \in Req, CreateEnqueue(r) PROVE Agreed'
  <2>1. UNCHANGED <<rec, completed, task, faults>> /\ pending' = pending \cup {r}
        /\ created[r] = "stored"
    BY <1>2 DEF CreateEnqueue
  <2>2. ~Decided(r)
    BY <1>0, <2>1 DEF DecidedIsAnnounced
  <2>3. \A q \in Req : Decided(q)' <=> Decided(q)
    BY <2>1 DEF Decided
  <2> QED BY <1>0, <2>1, <2>2, <2>3 DEF Agreed, At
<1>3. CASE faults' # MaxFaults
  BY <1>3 DEF Agreed
<1>4. (\E r \in Req : CreateFail(r)) \/ (\E t \in Task : Fail(t)) => faults' # MaxFaults
  BY <1>0, ApprovalAssumption DEF CreateFail, Fail, TypeOK
<1>5. ASSUME NEW t \in Task, task[t].pc \notin {"lrem", "lpush"},
             \A u \in Task : u # t => task'[u] = task[u],
             UNCHANGED <<rec, completed, pending, faults>>
      PROVE Agreed'
  BY <1>0, <1>5, AgreedFrame DEF Decided
<1>6. ASSUME NEW a \in Analyst,
             ApproveRaise(a) \/ \E r \in Req : RejectGet(a, r) \/ ApproveGet(a, r)
      PROVE Agreed'
  <2>1. a \in Task /\ task[a].pc \notin {"lrem", "lpush"} /\ UNCHANGED <<rec, completed, pending, faults>>
    BY <1>6 DEF ApproveRaise, RejectGet, ApproveGet, AtRest, Task
  <2>2. \A u \in Task : u # a => task'[u] = task[u]
    BY <1>0, <1>6 DEF ApproveRaise, RejectGet, ApproveGet, Goto, TypeOK
  <2> QED BY <1>5, <2>1, <2>2
<1>7. ASSUME NEW s \in Sweeper, Sweep(s) PROVE Agreed'
  <2>1. s \in Task /\ task[s].pc \notin {"lrem", "lpush"} /\ UNCHANGED <<rec, completed, pending, faults>>
    BY <1>7 DEF Sweep, SweepStart, SweepGet, SweepCompare, SweepEnd, AtRest, Task
  <2>2. \A u \in Task : u # s => task'[u] = task[u]
    BY <1>0, <1>7 DEF Sweep, SweepStart, SweepGet, SweepCompare, SweepEnd, Goto, TypeOK
  <2> QED BY <1>5, <2>1, <2>2
<1>8. ASSUME NEW t \in Task, Write(t) PROVE Agreed'
  <2>0. PICK r \in Req : r = task[t].req
    BY <1>0
  <2>1. r \in Req /\ UNCHANGED <<completed, pending, faults>>
    BY <2>0, <1>0, <1>8 DEF Write
  <2>2. /\ task'[t].pc = "lrem" /\ task'[t].req = r
        /\ \A u \in Task : u # t => task'[u] = task[u]
    BY <2>0, <1>0, <1>8, GotoType DEF Write
  <2>3. task[t].pc = "write" /\ \A q \in Req : q # r => rec'[q] = rec[q]
    BY <2>0, <1>0, <1>8 DEF Write, TypeOK
  <2>4. At(r, "lrem")'
    BY <2>2 DEF At
  <2>5. \A q \in Req : (At(q, "lrem") => At(q, "lrem")') /\ (At(q, "lpush") => At(q, "lpush")')
    BY <2>2, <2>3 DEF At
  <2>6. \A q \in Req : q # r => (Decided(q)' <=> Decided(q))
    BY <2>3 DEF Decided
  <2> QED BY <1>0, <2>1, <2>4, <2>5, <2>6 DEF Agreed
<1>9. ASSUME NEW t \in Task, Lrem(t) PROVE Agreed'
  <2>0. PICK r \in Req : r = task[t].req
    BY <1>0
  <2>1. r \in Req /\ UNCHANGED <<rec, completed, faults>> /\ pending' = pending \ {r}
    BY <2>0, <1>0, <1>9 DEF Lrem
  <2>2. /\ task'[t].pc = "lpush" /\ task'[t].req = r
        /\ \A u \in Task : u # t => task'[u] = task[u]
    BY <2>0, <1>0, <1>9, GotoType DEF Lrem
  <2>3. At(r, "lpush")'
    BY <2>0, <2>2 DEF At
  <2>4. \A q \in Req : q # r => (At(q, "lrem") => At(q, "lrem")')
    BY <2>0, <2>2 DEF At
  <2>5. \A q \in Req : At(q, "lpush") => At(q, "lpush")'
    BY <1>9, <2>2 DEF At, Lrem
  <2>6. \A q \in Req : Decided(q)' <=> Decided(q)
    BY <2>1 DEF Decided
  <2> QED BY <1>0, <2>1, <2>3, <2>4, <2>5, <2>6 DEF Agreed
<1>10. ASSUME NEW t \in Task, Lpush(t) PROVE Agreed'
  <2>0. PICK r \in Req : r = task[t].req
    BY <1>0
  <2>1. r \in Req /\ UNCHANGED <<rec, pending, faults>>
    BY <2>0, <1>0, <1>10 DEF Lpush
  <2>2. completed'[r] > 0 /\ \A q \in Req : q # r => completed'[q] = completed[q]
    BY <2>0, <1>0, <1>10, <2>1 DEF Lpush, TypeOK
  <2>3. \A u \in Task : u # t => task'[u] = task[u]
    BY <2>0, <1>0, <1>10 DEF Lpush, Goto, TypeOK
  <2>4. \A q \in Req : At(q, "lrem") => At(q, "lrem")'
    BY <1>10, <2>3 DEF At, Lpush
  <2>5. \A q \in Req : q # r => (At(q, "lpush") => At(q, "lpush")')
    BY <2>0, <2>3 DEF At
  <2>6. \A q \in Req : Decided(q)' <=> Decided(q)
    BY <2>1 DEF Decided
  <2> QED BY <1>0, <2>1, <2>2, <2>4, <2>5, <2>6 DEF Agreed
<1>11. CASE UNCHANGED vars
  BY <1>0, <1>11 DEF vars, Agreed, At, Decided
<1> QED BY <1>1, <1>2, <1>3, <1>4, <1>6, <1>7, <1>8, <1>9, <1>10, <1>11 DEF Next, Settle

(* Whatever handlers decide at once, the record and both lists agree where  *)
(* none is at work, for as long as Redis does not fail.                     *)
THEOREM ListsAlwaysAgree == Spec => []ListsAgree
<1>1. Init => AgreeInv
  BY InitIInv, InitAgree DEF AgreeInv
<1>2. AgreeInv /\ [Next]_vars => AgreeInv'
  BY NextIInv, NextAnnounced, NextDecidedAnnounced, NextAgreed DEF AgreeInv
<1>3. AgreeInv => ListsAgree
  BY DEF AgreeInv, IInv, CompletedIsDecided, Agreed, At, ListsAgree, InProgress
<1> QED BY <1>1, <1>2, <1>3, PTL DEF Spec

-----------------------------------------------------------------------------
(* What a decision is safe from.  A rejection that is off the pending list  *)
(* cannot get back on it, because its request was announced; so no sweep     *)
(* that starts later lists it, and none that is running does.               *)

\* A handler moves on without taking a request into its hands.
LEMMA GotoHolds ==
  ASSUME TypeOK, NEW t \in Task, NEW q \in Req,
         NEW pc \in {"idle", "sweep", "write", "lrem", "lpush"}, Goto(t, pc),
         ~AtRest(t), pc = "write" => task[t].pc = "got", \A u \in Task : ~Holds(u, q)
  PROVE  \A u \in Task : ~Holds(u, q)'
<1>1. task[t] \in TaskState
  BY DEF TypeOK
<1>2. /\ task'[t].pc = pc /\ task'[t].req = task[t].req
      /\ task'[t].todo = task[t].todo /\ task'[t].status = task[t].status
      /\ \A u \in Task : u # t => task'[u] = task[u]
  BY <1>1 DEF TypeOK, TaskState, Goto
<1> QED BY <1>2 DEF Holds, AtRest

LEMMA StepKeepsRejections ==
  AgreeInv /\ [Next]_vars =>
    [\A r \in Req : RejectedForGood(r) => RejectedForGood(r)']_vars
<1> SUFFICES ASSUME AgreeInv, [Next]_vars, NEW q \in Req, RejectedForGood(q)
             PROVE  RejectedForGood(q)'
  OBVIOUS
<1>0. /\ TypeOK /\ DecisionsPersist /\ UncreatedIsAbsent /\ DecidedIsAnnounced
      /\ \A t \in Task : task[t] \in TaskState
  BY DEF AgreeInv, IInv, TypeOK
<1>1. /\ rec[q].status = "rejected" /\ q \notin pending /\ \A t \in Task : ~Holds(t, q)
      /\ Decided(q) /\ created[q] = "returned"
  BY <1>0 DEF RejectedForGood, Decided, DecidedIsAnnounced
<1>2. CASE rec'[q] = rec[q] /\ (pending' \subseteq pending) /\ UNCHANGED task
  BY <1>1, <1>2 DEF RejectedForGood, Holds, AtRest
<1>3. ASSUME NEW r \in Req, CreateStore(r) \/ Vanish(r) \/ CreateEnqueue(r)
      PROVE  RejectedForGood(q)'
  <2>1. r = q => ~CreateStore(r) /\ ~Vanish(r) /\ ~CreateEnqueue(r)
    BY <1>0, <1>1 DEF CreateStore, Vanish, CreateEnqueue, DecisionsPersist
  <2>2. rec'[q] = rec[q] /\ UNCHANGED task /\ q \notin pending'
    BY <1>0, <1>1, <1>3, <2>1 DEF CreateStore, Vanish, CreateEnqueue, TypeOK
  <2> QED BY <1>1, <2>2 DEF RejectedForGood, Holds, AtRest
<1>4. ASSUME NEW a \in Analyst, NEW r \in Req, RejectGet(a, r) \/ ApproveGet(a, r)
      PROVE  RejectedForGood(q)'
  <2>1. a \in Task /\ UNCHANGED <<rec, pending>>
    BY <1>4 DEF Task, RejectGet, ApproveGet
  <2>2. /\ task'[a].todo = {} /\ task'[a].status = "rejected"
        /\ \A u \in Task : u # a => task'[u] = task[u]
    BY <1>0, <1>4, <2>1 DEF RejectGet, ApproveGet, TypeOK
  <2> QED BY <1>1, <2>1, <2>2 DEF RejectedForGood, Holds, AtRest
<1>5. ASSUME NEW s \in Sweeper, SweepStart(s) PROVE RejectedForGood(q)'
  <2>1. s \in Task /\ UNCHANGED <<rec, pending>>
    BY <1>5 DEF Task, SweepStart
  <2>2. /\ task'[s].todo = pending /\ task'[s].pc = "sweep"
        /\ \A u \in Task : u # s => task'[u] = task[u]
    BY <1>0, <1>5, <2>1 DEF SweepStart, TypeOK
  <2> QED BY <1>1, <2>1, <2>2 DEF RejectedForGood, Holds, AtRest
<1>6. ASSUME NEW s \in Sweeper, NEW r \in Req, SweepGet(s, r) PROVE RejectedForGood(q)'
  <2>1. s \in Task /\ UNCHANGED <<rec, pending>> /\ r \in task[s].todo /\ task[s].pc = "sweep"
    BY <1>6 DEF Task, SweepGet
  <2>2. q \notin task[s].todo /\ r # q
    BY <1>1, <2>1 DEF Holds, AtRest
  <2>3. /\ task'[s].todo = task[s].todo \ {r} /\ task'[s].req = r
        /\ \A u \in Task : u # s => task'[u] = task[u]
    BY <1>0, <1>6, <2>1 DEF SweepGet, TypeOK
  <2> QED BY <1>1, <2>1, <2>2, <2>3 DEF RejectedForGood, Holds, AtRest
<1>7. ASSUME NEW t \in Task, Write(t) PROVE RejectedForGood(q)'
  <2>1. task[t].status \in {"rejected", "timeout"} /\ task[t].pc = "write"
    BY <1>0, <1>7 DEF Write, TaskState
  <2>2. task[t].req = q => task[t].status = "rejected"
    BY <1>1, <2>1 DEF Holds, AtRest
  <2>3. rec'[q].status = "rejected"
    BY <1>0, <1>1, <1>7, <2>2 DEF Write, TypeOK
  <2>4. \A u \in Task : ~Holds(u, q)'
    BY <1>0, <1>1, <1>7, <2>1, GotoHolds DEF Write, AtRest
  <2>5. UNCHANGED pending
    BY <1>7 DEF Write
  <2> QED BY <1>1, <2>3, <2>4, <2>5 DEF RejectedForGood
<1>8. ASSUME NEW t \in Task, NEW pc \in {"idle", "sweep", "write", "lrem", "lpush"},
             Goto(t, pc), ~AtRest(t), pc = "write" => task[t].pc = "got",
             UNCHANGED rec, pending' \subseteq pending
      PROVE  RejectedForGood(q)'
  BY <1>0, <1>1, <1>8, GotoHolds DEF RejectedForGood
<1>9. ASSUME NEW t \in Task, Lrem(t) \/ Lpush(t) \/ Fail(t) \/ ApproveRaise(t)
                             \/ SweepCompare(t) \/ SweepEnd(t)
      PROVE  RejectedForGood(q)'
  <2>1. UNCHANGED rec /\ pending' \subseteq pending /\ ~AtRest(t)
    BY <1>9 DEF Lrem, Lpush, Fail, ApproveRaise, SweepCompare, SweepEnd, AtRest
  <2>2. \/ Goto(t, "idle") \/ Goto(t, "sweep") \/ Goto(t, "lpush")
        \/ Goto(t, "write") /\ task[t].pc = "got"
    BY <1>9 DEF Lrem, Lpush, Fail, ApproveRaise, SweepCompare, SweepEnd
  <2> QED BY <1>8, <2>1, <2>2
<1>10. ASSUME NEW r \in Req, CreateFail(r) \/ Expire(r) PROVE RejectedForGood(q)'
  BY <1>2, <1>10 DEF CreateFail, Expire
<1>11. CASE UNCHANGED vars
  BY <1>2, <1>11 DEF vars
<1> QED
  BY <1>3, <1>4, <1>5, <1>6, <1>7, <1>9, <1>10, <1>11
  DEF Next, Sweep, Settle, Task

(* A decision is never lost, and a rejection that no sweep had listed before *)
(* it left the pending list is never turned into a time-out.                *)
THEOREM DecisionsAlwaysStand == Spec => DecisionsStand
<1>1. Init => AgreeInv
  BY InitIInv, InitAgree DEF AgreeInv
<1>2. AgreeInv /\ [Next]_vars => AgreeInv'
  BY NextIInv, NextAnnounced, NextDecidedAnnounced, NextAgreed DEF AgreeInv
<1>3. AgreeInv /\ [Next]_vars =>
        [\A r \in Req : /\ Decided(r) => Decided(r)'
                        /\ RejectedForGood(r) => RejectedForGood(r)']_vars
  BY StepKeepsDecisions, StepKeepsRejections DEF AgreeInv
<1> QED BY <1>1, <1>2, <1>3, PTL DEF Spec, DecisionsStand

-----------------------------------------------------------------------------
(* Refresh tokens and the login limiter.                                   *)

PairsTyped == pairs \in Seq(Pair) /\ Len(pairs) <= MaxPairs

ParentsOlder == \A n \in Issued : pairs[n].parent < n

StoreIssued == store \subseteq Issued

TokensInv == PairsTyped /\ ParentsOlder /\ StoreIssued /\ SingleUse

LEMMA InitTokens == AuthInit => TokensInv
BY AuthAssumption
DEF AuthInit, TokensInv, PairsTyped, ParentsOlder, StoreIssued, SingleUse, Issued

(* What Issue does to the sequence of pairs. *)
LEMMA IssueFacts ==
  ASSUME PairsTyped, Len(pairs) < MaxPairs,
         NEW u \in User, NEW parent \in 0 .. MaxPairs, Issue(u, parent)
  PROVE  /\ pairs' \in Seq(Pair)
         /\ Len(pairs') = Len(pairs) + 1
         /\ \A n \in Issued : pairs'[n] = pairs[n]
         /\ pairs'[Len(pairs) + 1].parent = parent
         /\ Issued' = Issued \cup {Len(pairs) + 1}
         /\ Len(pairs) + 1 \notin Issued
<1> DEFINE p == [user |-> u, parent |-> parent, age |-> 0]
<1>1. p \in Pair
  BY AuthAssumption DEF Pair
<1>2. pairs' = Append(pairs, p) /\ pairs \in Seq(Pair)
  BY DEF Issue, PairsTyped
<1> HIDE DEF p
<1>3. /\ pairs' \in Seq(Pair) /\ Len(pairs') = Len(pairs) + 1
      /\ \A n \in 1 .. Len(pairs) : pairs'[n] = pairs[n]
      /\ pairs'[Len(pairs) + 1] = p
  BY <1>1, <1>2
<1>4. Len(pairs) \in Nat
  BY <1>2
<1>5. Issued' = Issued \cup {Len(pairs) + 1} /\ Len(pairs) + 1 \notin Issued
  BY <1>3, <1>4 DEF Issued
<1>6. p.parent = parent
  BY DEF p
<1> QED BY <1>3, <1>5, <1>6 DEF Issued

(* Only login, refresh, logout, a restart and the clock touch the tokens. *)
LEMMA NextTokens == TokensInv /\ [AuthNext]_authVars => TokensInv'
<1> SUFFICES ASSUME TokensInv, [AuthNext]_authVars PROVE TokensInv'
  OBVIOUS
<1>0. PairsTyped /\ ParentsOlder /\ StoreIssued /\ SingleUse
  BY DEF TokensInv
<1>1. /\ Len(pairs) \in Nat /\ Len(pairs) <= MaxPairs /\ MaxPairs \in Nat
      /\ Issued = 1 .. Len(pairs)
      /\ \A n \in Issued : pairs[n] \in Pair /\ pairs[n].user \in User
                           /\ pairs[n].parent \in Nat
  <2>1. Len(pairs) \in Nat /\ Len(pairs) <= MaxPairs /\ MaxPairs \in Nat
    BY <1>0, AuthAssumption DEF PairsTyped
  <2>2. Issued = 1 .. Len(pairs)
    BY DEF Issued
  <2>3. \A n \in Issued : pairs[n] \in Pair
    BY <1>0, <2>2 DEF PairsTyped
  <2>4. \A p \in Pair : p.user \in User /\ p.parent \in Nat
    BY <2>1 DEF Pair
  <2> QED BY <2>1, <2>2, <2>3, <2>4
<1>2. CASE UNCHANGED <<pairs, store>>
  BY <1>0, <1>2 DEF TokensInv, PairsTyped, ParentsOlder, StoreIssued, SingleUse, Issued
<1>3. ASSUME NEW k \in Key, LoginRight(k) PROVE TokensInv'
  <2>1. /\ Len(pairs) < MaxPairs /\ Issue(k[2], 0) /\ k[2] \in User
        /\ store' = store \cup {Len(pairs) + 1}
    BY <1>3 DEF LoginRight, Key
  <2>2. 0 \in 0 .. MaxPairs
    BY <1>1
  <2>3. /\ pairs' \in Seq(Pair)
        /\ Len(pairs') = Len(pairs) + 1
        /\ \A n \in Issued : pairs'[n] = pairs[n]
        /\ pairs'[Len(pairs) + 1].parent = 0
        /\ Issued' = Issued \cup {Len(pairs) + 1}
        /\ Len(pairs) + 1 \notin Issued
    BY <1>0, <2>1, <2>2, IssueFacts
  <2>4. PairsTyped' /\ StoreIssued'
    <3>1. PairsTyped'
      BY <1>1, <2>1, <2>3 DEF PairsTyped
    <3>2. StoreIssued'
      BY <1>0, <2>1, <2>3 DEF StoreIssued
    <3> QED BY <3>1, <3>2
  <2>5. ParentsOlder'
    BY <1>0, <1>1, <2>3 DEF ParentsOlder
  <2>6. SingleUse'
    <3> SUFFICES ASSUME NEW m \in Issued', NEW n \in Issued', pairs'[n].parent # 0
                 PROVE  /\ pairs'[m].parent = pairs'[n].parent => m = n
                        /\ pairs'[n].parent \notin store'
      BY DEF SingleUse
    <3>1. n \in Issued /\ pairs'[n] = pairs[n]
      BY <2>3
    <3>2. pairs[n].parent < n /\ pairs[n].parent \notin store
      BY <1>0, <3>1 DEF ParentsOlder, SingleUse
    <3>3. pairs'[n].parent \notin store'
      BY <1>1, <2>1, <3>1, <3>2
    <3>4. pairs'[m].parent = pairs'[n].parent => m = n
      BY <1>0, <2>3, <3>1 DEF SingleUse
    <3> QED BY <3>3, <3>4
  <2> QED BY <2>4, <2>5, <2>6 DEF TokensInv
<1>4. ASSUME NEW r \in Issued, Refresh(r) PROVE TokensInv'
  <2>1. /\ Len(pairs) < MaxPairs /\ Issue(pairs[r].user, r) /\ r \in store
        /\ store' = (store \ {r}) \cup {Len(pairs) + 1}
    BY <1>4 DEF Refresh, RefreshValid
  <2>2. r \in 0 .. MaxPairs /\ r # 0 /\ r < Len(pairs) + 1
    BY <1>1
  <2>3. /\ pairs' \in Seq(Pair)
        /\ Len(pairs') = Len(pairs) + 1
        /\ \A n \in Issued : pairs'[n] = pairs[n]
        /\ pairs'[Len(pairs) + 1].parent = r
        /\ Issued' = Issued \cup {Len(pairs) + 1}
        /\ Len(pairs) + 1 \notin Issued
    BY <1>0, <1>1, <2>1, <2>2, IssueFacts
  <2>4. PairsTyped' /\ StoreIssued'
    <3>1. PairsTyped'
      BY <1>1, <2>1, <2>3 DEF PairsTyped
    <3>2. StoreIssued'
      BY <1>0, <2>1, <2>3 DEF StoreIssued
    <3> QED BY <3>1, <3>2
  <2>5. ParentsOlder'
    BY <1>0, <1>1, <2>2, <2>3 DEF ParentsOlder
  <2>6. \A n \in Issued : pairs[n].parent # r
    BY <1>0, <2>1, <2>2 DEF SingleUse
  <2>7. SingleUse'
    <3> SUFFICES ASSUME NEW m \in Issued', NEW n \in Issued', pairs'[n].parent # 0
                 PROVE  /\ pairs'[m].parent = pairs'[n].parent => m = n
                        /\ pairs'[n].parent \notin store'
      BY DEF SingleUse
    <3>1. CASE n \in Issued
      <4>1. pairs'[n] = pairs[n] /\ pairs[n].parent < n /\ n <= Len(pairs)
            /\ pairs[n].parent \notin store
        BY <1>0, <1>1, <2>3, <3>1 DEF ParentsOlder, SingleUse
      <4>2. pairs'[n].parent \notin store'
        BY <1>1, <2>1, <3>1, <4>1
      <4>3. pairs'[m].parent = pairs'[n].parent => m = n
        BY <1>0, <2>3, <2>6, <3>1, <4>1 DEF SingleUse
      <4> QED BY <4>2, <4>3
    <3>2. CASE n = Len(pairs) + 1
      BY <2>1, <2>2, <2>3, <2>6, <3>2
    <3> QED BY <2>3, <3>1, <3>2
  <2> QED BY <2>4, <2>5, <2>7 DEF TokensInv
<1>5. ASSUME store' \subseteq store, UNCHANGED pairs PROVE TokensInv'
  BY <1>0, <1>5 DEF TokensInv, PairsTyped, ParentsOlder, StoreIssued, SingleUse, Issued
<1>6. ASSUME Tick PROVE TokensInv'
  <2>1. /\ pairs' = [n \in 1 .. Len(pairs) |->
                       [pairs[n] EXCEPT !.age = Older(@, RefreshLife)]]
        /\ UNCHANGED store
    BY <1>6 DEF Tick, Issued
  <2>2. \A n \in Issued :
          /\ [pairs[n] EXCEPT !.age = Older(@, RefreshLife)] \in Pair
          /\ [pairs[n] EXCEPT !.age = Older(@, RefreshLife)].parent = pairs[n].parent
    BY <1>1, AuthAssumption DEF Pair, Older
  <2>3. /\ pairs' \in Seq(Pair) /\ Len(pairs') = Len(pairs)
        /\ \A n \in Issued : pairs'[n].parent = pairs[n].parent
    <3> DEFINE f(n) == [pairs[n] EXCEPT !.age = Older(@, RefreshLife)]
    <3>1. /\ pairs' = [n \in 1 .. Len(pairs) |-> f(n)]
          /\ \A n \in 1 .. Len(pairs) : f(n) \in Pair /\ f(n).parent = pairs[n].parent
      BY <1>1, <2>1, <2>2
    <3> HIDE DEF f
    <3>2. pairs' \in Seq(Pair) /\ Len(pairs') = Len(pairs)
      BY <1>1, <3>1
    <3>3. \A n \in Issued : pairs'[n].parent = pairs[n].parent
      BY <1>1, <3>1
    <3> QED BY <3>2, <3>3
  <2>4. Issued' = Issued
    BY <2>3 DEF Issued
  <2> QED
    BY <1>0, <1>1, <2>1, <2>3, <2>4
    DEF TokensInv, PairsTyped, ParentsOlder, StoreIssued, SingleUse
<1> QED
  BY <1>2, <1>3, <1>4, <1>5, <1>6
  DEF AuthNext, authVars, LoginLimited, LoginWrong, Logout, Restart

(* A refresh token is exchanged at most once, and never again once it has
   left the store: rotation works for every number of logins, users and
   restarts. *)
THEOREM RotationIsSingleUse == AuthSpec => []SingleUse
<1>1. TokensInv => SingleUse
  BY DEF TokensInv
<1> QED BY <1>1, InitTokens, NextTokens, PTL DEF AuthSpec

-----------------------------------------------------------------------------
\* The limiter.

\* The oldest entry comes first, as record_attempt appends it.
Ordered(ages) ==
  /\ ages \in Seq(Nat)
  /\ \A i, j \in 1 .. Len(ages) : i <= j => ages[j] <= ages[i]

\* The first e entries are the ones outside the window.
SplitAt(ages, e) == \A i \in 1 .. Len(ages) : ages[i] >= Window <=> i <= e

(* What Purged drops are the first entries.                                 *)
LEMMA PurgedAt ==
  ASSUME NEW s, s \in Seq(Nat), NEW e \in 0 .. Len(s), SplitAt(s, e)
  PROVE  Purged(s) = SubSeq(s, e + 1, Len(s))
<1>1. {i \in 1 .. Len(s) : s[i] >= Window} = 1 .. e
  BY DEF SplitAt
<1>2. Cardinality(1 .. e) = e
  <2>1. e \in Int /\ 1 \in Int /\ e \in Nat
    OBVIOUS
  <2>2. Cardinality(1 .. e) = IF 1 > e THEN 0 ELSE e - 1 + 1
    BY <2>1, FS_Interval
  <2> QED BY <2>1, <2>2
<1> QED BY <1>1, <1>2 DEF Purged, Recent, Expired

(* An ordered list is split somewhere: the expired entries are as many as   *)
(* the place of the last of them.                                           *)
LEMMA OrderedIsSplit ==
  ASSUME NEW s, Ordered(s)
  PROVE  \E e \in 0 .. Len(s) : SplitAt(s, e)
<1> DEFINE A == {i \in 1 .. Len(s) : s[i] >= Window}
           e == Cardinality(A)
<1>0. /\ s \in Seq(Nat) /\ Len(s) \in Nat /\ Window \in Nat
      /\ \A i, j \in 1 .. Len(s) : i <= j => s[j] <= s[i]
      /\ \A i \in 1 .. Len(s) : s[i] \in Nat
  BY AuthAssumption DEF Ordered
<1>1. /\ IsFiniteSet(1 .. Len(s)) /\ A \in SUBSET (1 .. Len(s))
      /\ \A n \in 0 .. Len(s) : IsFiniteSet(1 .. n) /\ Cardinality(1 .. n) = n
  <2>1. \A n \in 0 .. Len(s) : IsFiniteSet(1 .. n) /\ Cardinality(1 .. n) = n
    <3> SUFFICES ASSUME NEW n \in 0 .. Len(s) PROVE IsFiniteSet(1 .. n) /\ Cardinality(1 .. n) = n
      OBVIOUS
    <3>1. n \in Int /\ 1 \in Int /\ n \in Nat
      BY <1>0
    <3>2. IsFiniteSet(1 .. n) /\ Cardinality(1 .. n) = IF 1 > n THEN 0 ELSE n - 1 + 1
      BY <3>1, FS_Interval
    <3> QED BY <3>1, <3>2
  <2>2. Len(s) \in 0 .. Len(s)
    BY <1>0
  <2> QED BY <2>1, <2>2
<1>2. IsFiniteSet(A) /\ e \in Nat /\ e <= Len(s)
  <2>1. IsFiniteSet(A) /\ Cardinality(A) <= Cardinality(1 .. Len(s))
    BY <1>1, FS_Subset
  <2>2. Cardinality(A) \in Nat
    BY <2>1, FS_CardinalityType
  <2>3. Cardinality(1 .. Len(s)) = Len(s)
    BY <1>0, <1>1
  <2> QED BY <2>1, <2>2, <2>3
<1>3. ASSUME NEW i \in A PROVE i <= e
  <2>1. i \in 0 .. Len(s) /\ i \in 1 .. Len(s)
    BY <1>0
  <2>2. \A j \in 1 .. i : j \in A
    BY <1>0, <2>1
  <2>3. 1 .. i \in SUBSET A
    BY <2>2
  <2>4. Cardinality(1 .. i) <= Cardinality(A)
    BY <1>2, <2>3, FS_Subset
  <2>5. Cardinality(1 .. i) = i
    BY <1>1, <2>1
  <2> QED BY <2>4, <2>5
<1>4. A = 1 .. e
  <2>1. e \in 0 .. Len(s)
    BY <1>0, <1>2
  <2>2. IsFiniteSet(1 .. e) /\ Cardinality(1 .. e) = e
    BY <1>1, <2>1
  <2>3. A \in SUBSET (1 .. e)
    BY <1>0, <1>2, <1>3
  <2> QED BY <2>2, <2>3, FS_Subset
<1>5. SplitAt(s, e)
  BY <1>2, <1>4 DEF SplitAt
<1>6. e \in 0 .. Len(s)
  BY <1>0, <1>2
<1> HIDE DEF e
<1> QED BY <1>5, <1>6

(* The tail of a sequence of numbers, entry by entry.                       *)
LEMMA TailFacts ==
  ASSUME NEW s \in Seq(Nat), NEW e \in 0 .. Len(s), NEW x, x = SubSeq(s, e + 1, Len(s))
  PROVE  /\ x \in Seq(Nat) /\ Len(x) = Len(s) - e
         /\ \A i \in 1 .. Len(s) - e : x[i] = s[i + e]
<1>1. Len(s) \in Nat /\ e \in Nat /\ e <= Len(s)
  OBVIOUS
<1> QED BY <1>1

(* What is left is ordered, within the window and no longer than before.    *)
LEMMA PurgedFacts ==
  ASSUME NEW s, Ordered(s)
  PROVE  /\ Ordered(Purged(s)) /\ Len(Purged(s)) <= Len(s)
         /\ \A i \in 1 .. Len(Purged(s)) : Purged(s)[i] < Window
<1>0. s \in Seq(Nat) /\ Len(s) \in Nat /\ Window \in Nat
  BY AuthAssumption DEF Ordered
<1>1. PICK e \in 0 .. Len(s) : SplitAt(s, e)
  BY OrderedIsSplit
<1>2. Purged(s) = SubSeq(s, e + 1, Len(s))
  BY <1>0, <1>1, PurgedAt
<1>3. /\ Purged(s) \in Seq(Nat) /\ Len(Purged(s)) = Len(s) - e
      /\ \A i \in 1 .. Len(s) - e : i + e \in 1 .. Len(s) /\ Purged(s)[i] = s[i + e]
  BY <1>0, <1>2
<1>4. \A i \in 1 .. Len(s) - e : Purged(s)[i] < Window
  <2> SUFFICES ASSUME NEW i \in 1 .. Len(s) - e PROVE Purged(s)[i] < Window
    OBVIOUS
  <2>1. i + e \in 1 .. Len(s) /\ Purged(s)[i] = s[i + e] /\ s[i + e] \in Nat /\ ~(i + e <= e)
    BY <1>0, <1>3
  <2> QED BY <1>0, <1>1, <2>1 DEF SplitAt
<1>5. \A i, j \in 1 .. Len(s) - e : i <= j => Purged(s)[j] <= Purged(s)[i]
  <2> SUFFICES ASSUME NEW i \in 1 .. Len(s) - e, NEW j \in 1 .. Len(s) - e, i <= j
               PROVE  Purged(s)[j] <= Purged(s)[i]
    OBVIOUS
  <2>1. i + e \in 1 .. Len(s) /\ j + e \in 1 .. Len(s) /\ i + e <= j + e
    BY <1>0, <1>3
  <2>2. s[j + e] <= s[i + e]
    BY <2>1 DEF Ordered
  <2> QED BY <1>3, <2>2
<1> QED BY <1>0, <1>3, <1>4, <1>5 DEF Ordered

(* A list that is all within the window stays as it is.                     *)
LEMMA PurgedOfYoung ==
  ASSUME NEW s, s \in Seq(Nat), \A i \in 1 .. Len(s) : s[i] < Window
  PROVE  Purged(s) = s
<1>1. 0 \in 0 .. Len(s) /\ SplitAt(s, 0)
  BY AuthAssumption DEF SplitAt
<1>2. Purged(s) = SubSeq(s, 0 + 1, Len(s))
  BY <1>1, PurgedAt
<1> QED BY <1>2

LEMMA PurgedAgain == ASSUME NEW s, Ordered(s) PROVE Purged(Purged(s)) = Purged(s)
<1>1. Purged(s) \in Seq(Nat) /\ \A i \in 1 .. Len(Purged(s)) : Purged(s)[i] < Window
  BY PurgedFacts DEF Ordered
<1> QED BY <1>1, PurgedOfYoung

(* A failure that is recorded is the newest entry.                          *)
LEMMA RecordedFacts ==
  ASSUME NEW s, Ordered(s)
  PROVE  /\ Ordered(Append(Purged(s), 0))
         /\ Purged(Append(Purged(s), 0)) = Append(Purged(s), 0)
         /\ Len(Append(Purged(s), 0)) = Len(Purged(s)) + 1
<1> DEFINE p == Purged(s)
           q == Append(p, 0)
<1>1. /\ Ordered(p) /\ p \in Seq(Nat) /\ Len(p) \in Nat
      /\ \A i \in 1 .. Len(p) : p[i] < Window /\ p[i] \in Nat
  BY PurgedFacts DEF Ordered
<1> HIDE DEF p
<1>2. /\ q \in Seq(Nat) /\ Len(q) = Len(p) + 1 /\ q[Len(p) + 1] = 0
      /\ \A i \in 1 .. Len(p) : q[i] = p[i]
  BY <1>1
<1>3. \A i \in 1 .. Len(q) : q[i] < Window /\ q[i] \in Nat /\ (i \in 1 .. Len(p) \/ i = Len(p) + 1)
  BY <1>1, <1>2, AuthAssumption
<1>4. Purged(q) = q
  BY <1>2, <1>3, PurgedOfYoung
<1> HIDE DEF q
<1>5. \A i, j \in 1 .. Len(q) : i <= j => q[j] <= q[i]
  <2> SUFFICES ASSUME NEW i \in 1 .. Len(q), NEW j \in 1 .. Len(q), i <= j PROVE q[j] <= q[i]
    OBVIOUS
  <2>1. CASE j = Len(p) + 1
    BY <1>2, <1>3, <2>1
  <2>2. CASE j # Len(p) + 1
    <3>1. i \in 1 .. Len(p) /\ j \in 1 .. Len(p)
      BY <1>1, <1>2, <2>2
    <3> QED BY <1>1, <1>2, <3>1 DEF Ordered
  <2> QED BY <2>1, <2>2
<1> QED BY <1>2, <1>4, <1>5 DEF Ordered, p, q

\* A list of ages one tick later, saturating or not.
LaterBy(s) == [i \in 1 .. Len(s) |-> Older(s[i], Window)]

PlusOne(s) == [i \in 1 .. Len(s) |-> s[i] + 1]

(* One tick later the same entries are within the window, whether those     *)
(* that had left it were dropped before or not.                             *)
LEMMA LaterFacts ==
  ASSUME NEW s, Ordered(s)
  PROVE  /\ Ordered(LaterBy(s))
         /\ Purged(LaterBy(s)) = Purged(PlusOne(Purged(s)))
         /\ Len(Purged(LaterBy(s))) <= Len(Purged(s))
<1> DEFINE t == LaterBy(s)
<1>0. /\ s \in Seq(Nat) /\ Len(s) \in Nat /\ Window \in Nat
      /\ \A i \in 1 .. Len(s) : s[i] \in Nat
      /\ \A i, j \in 1 .. Len(s) : i <= j => s[j] <= s[i]
  BY AuthAssumption DEF Ordered
<1>1. /\ t \in Seq(Nat) /\ Len(t) = Len(s)
      /\ \A i \in 1 .. Len(s) : t[i] = IF s[i] < Window THEN s[i] + 1 ELSE s[i]
  BY <1>0 DEF LaterBy, Older
<1> HIDE DEF t
<1>2. Ordered(t)
  <2> SUFFICES ASSUME NEW i \in 1 .. Len(s), NEW j \in 1 .. Len(s), i <= j PROVE t[j] <= t[i]
    BY <1>1 DEF Ordered
  <2>1. s[j] <= s[i] /\ s[i] \in Nat /\ s[j] \in Nat
    BY <1>0
  <2>2. /\ t[i] = IF s[i] < Window THEN s[i] + 1 ELSE s[i]
        /\ t[j] = IF s[j] < Window THEN s[j] + 1 ELSE s[j]
    BY <1>1
  <2>3. Window \in Nat
    BY <1>0
  <2> QED BY <2>1, <2>2, <2>3
<1>3. PICK e \in 0 .. Len(s) : SplitAt(s, e)
  BY OrderedIsSplit
<1>4. PICK f \in 0 .. Len(t) : SplitAt(t, f)
  BY <1>2, OrderedIsSplit
<1>5. e <= f
  <2>1. CASE e = 0
    BY <1>0, <1>1, <2>1
  <2>2. CASE e # 0
    <3>1. e \in 1 .. Len(s) /\ s[e] >= Window
      BY <1>0, <1>3, <2>2 DEF SplitAt
    <3>2. t[e] >= Window
      BY <1>0, <1>1, <3>1
    <3> QED BY <1>1, <1>4, <3>1, <3>2 DEF SplitAt
  <2> QED BY <2>1, <2>2
<1> DEFINE p == Purged(s)
           w == PlusOne(p)
<1>6. /\ p \in Seq(Nat) /\ Len(p) = Len(s) - e
      /\ \A i \in 1 .. Len(s) - e : p[i] = s[i + e] /\ i + e \in 1 .. Len(s)
  <2>1. p = SubSeq(s, e + 1, Len(s))
    BY <1>0, <1>3, PurgedAt
  <2> HIDE DEF p
  <2> QED BY <1>0, <2>1
<1>7. \A i \in 1 .. Len(p) : p[i] < Window
  BY PurgedFacts
<1> HIDE DEF p
<1>8. /\ w \in Seq(Nat) /\ Len(w) = Len(s) - e
      /\ \A i \in 1 .. Len(s) - e : w[i] = t[i + e]
  <2>1. w \in Seq(Nat) /\ Len(w) = Len(p) /\ \A i \in 1 .. Len(p) : w[i] = p[i] + 1
    BY <1>6 DEF PlusOne
  <2>2. ASSUME NEW i \in 1 .. Len(s) - e PROVE w[i] = t[i + e]
    <3>1. w[i] = s[i + e] + 1 /\ i + e \in 1 .. Len(s) /\ s[i + e] < Window
      BY <1>6, <1>7, <2>1
    <3> QED BY <1>1, <3>1
  <2> QED BY <1>6, <2>1, <2>2
<1> HIDE DEF w
<1>9. f - e \in 0 .. Len(w) /\ SplitAt(w, f - e)
  <2>1. f - e \in 0 .. Len(w)
    BY <1>0, <1>1, <1>5, <1>8
  <2>2. ASSUME NEW i \in 1 .. Len(w) PROVE w[i] >= Window <=> i <= f - e
    <3>1. w[i] = t[i + e] /\ i + e \in 1 .. Len(t) /\ i \in Nat
      BY <1>0, <1>1, <1>8
    <3>2. t[i + e] >= Window <=> i + e <= f
      BY <1>4, <3>1 DEF SplitAt
    <3> QED BY <1>1, <3>1, <3>2
  <2> QED BY <2>1, <2>2 DEF SplitAt
<1>10. Purged(t) = SubSeq(t, f + 1, Len(t)) /\ Purged(w) = SubSeq(w, f - e + 1, Len(w))
  <2>1. Purged(t) = SubSeq(t, f + 1, Len(t))
    BY <1>1, <1>4, PurgedAt
  <2>2. Purged(w) = SubSeq(w, (f - e) + 1, Len(w))
    BY <1>8, <1>9, PurgedAt
  <2> QED BY <2>1, <2>2
<1>11. /\ Purged(t) \in Seq(Nat) /\ Len(Purged(t)) = Len(s) - f
       /\ \A i \in 1 .. Len(s) - f : Purged(t)[i] = t[i + f]
  <2>1. PICK x : x = SubSeq(t, f + 1, Len(t))
    OBVIOUS
  <2>2. x \in Seq(Nat) /\ Len(x) = Len(t) - f /\ \A i \in 1 .. Len(t) - f : x[i] = t[i + f]
    BY <1>1, <2>1, TailFacts
  <2>3. Purged(t) = x
    BY <1>10, <2>1
  <2> QED BY <1>0, <1>1, <2>2, <2>3
<1>12. /\ Purged(w) \in Seq(Nat) /\ Len(Purged(w)) = Len(s) - f
       /\ \A i \in 1 .. Len(s) - f : Purged(w)[i] = w[i + (f - e)]
  <2>1. PICK g \in 0 .. Len(w) : g = f - e
    BY <1>9
  <2>2. Purged(w) = SubSeq(w, g + 1, Len(w))
    BY <1>10, <2>1
  <2>3. /\ Purged(w) \in Seq(Nat) /\ Len(Purged(w)) = Len(w) - g
        /\ \A i \in 1 .. Len(w) - g : Purged(w)[i] = w[i + g]
    <3>1. PICK x : x = SubSeq(w, g + 1, Len(w))
      OBVIOUS
    <3>2. x \in Seq(Nat) /\ Len(x) = Len(w) - g /\ \A i \in 1 .. Len(w) - g : x[i] = w[i + g]
      BY <1>8, <3>1, TailFacts
    <3> QED BY <2>2, <3>1, <3>2
  <2>4. Len(w) - g = Len(s) - f
    BY <1>0, <1>1, <1>8, <2>1
  <2> QED BY <2>1, <2>3, <2>4
<1>13. \A i \in 1 .. Len(s) - f : w[i + (f - e)] = t[i + f]
  <2> SUFFICES ASSUME NEW i \in 1 .. Len(s) - f PROVE w[i + (f - e)] = t[i + f]
    OBVIOUS
  <2>1. i + (f - e) \in 1 .. Len(s) - e /\ (i + (f - e)) + e = i + f
    BY <1>0, <1>1, <1>5
  <2> QED BY <1>8, <2>1
<1>14. Purged(t) = Purged(w)
  <2> DEFINE x == Purged(t)
             y == Purged(w)
  <2>1. x \in Seq(Nat) /\ y \in Seq(Nat) /\ Len(x) = Len(y) /\ \A i \in 1 .. Len(x) : x[i] = y[i]
    BY <1>11, <1>12, <1>13
  <2> HIDE DEF x, y
  <2>2. x = y
    BY <2>1
  <2> QED BY <2>2 DEF x, y
<1>15. Len(Purged(t)) <= Len(p)
  BY <1>0, <1>1, <1>5, <1>6, <1>11
<1> QED BY <1>2, <1>14, <1>15 DEF t, w, p

(* What the limiter has on a key, once purged, is every wrong password of   *)
(* the window: nothing takes an entry away before its time, and nothing     *)
(* keeps one that is over.                                                  *)
LimiterSeesAll ==
  /\ attempts = [k \in Key |-> attempts[k]] /\ wrong = [k \in Key |-> wrong[k]]
  /\ \A k \in Key : /\ Ordered(attempts[k])
                     /\ wrong[k] = Purged(attempts[k])
                     /\ Len(wrong[k]) <= MaxAttempts

LEMMA NoAttempts ==
  /\ Ordered(<<>>) /\ Purged(<<>>) = <<>> /\ Len(<<>>) <= MaxAttempts
<1>1. <<>> \in Seq(Nat) /\ Len(<<>>) = 0
  OBVIOUS
<1>2. Ordered(<<>>)
  BY <1>1 DEF Ordered
<1>3. Purged(<<>>) = <<>>
  <2>1. PICK s \in Seq(Nat) : s = <<>>
    BY <1>1
  <2>2. \A i \in 1 .. Len(s) : s[i] < Window
    BY <1>1, <2>1
  <2>3. Purged(s) = s
    BY <2>2, PurgedOfYoung
  <2> QED BY <2>1, <2>3
<1> QED BY <1>1, <1>2, <1>3, AuthAssumption

LEMMA InitSeesAll == AuthInit => LimiterSeesAll
BY NoAttempts DEF AuthInit, LimiterSeesAll

LEMMA NextSeesAll == LimiterSeesAll /\ [AuthNext]_authVars => LimiterSeesAll'
<1> SUFFICES ASSUME LimiterSeesAll, [AuthNext]_authVars PROVE LimiterSeesAll'
  OBVIOUS
<1>0. /\ attempts = [k \in Key |-> attempts[k]] /\ wrong = [k \in Key |-> wrong[k]]
      /\ \A k \in Key : /\ Ordered(attempts[k])
                         /\ wrong[k] = Purged(attempts[k])
                         /\ Len(wrong[k]) <= MaxAttempts
  BY DEF LimiterSeesAll
<1>1. CASE UNCHANGED <<attempts, wrong>>
  BY <1>0, <1>1 DEF LimiterSeesAll
<1>2. ASSUME NEW k \in Key, attempts' = [attempts EXCEPT ![k] = Purged(@)], UNCHANGED wrong
      PROVE  LimiterSeesAll'
  <2>1. Ordered(Purged(attempts[k])) /\ Purged(Purged(attempts[k])) = Purged(attempts[k])
    BY <1>0, PurgedFacts, PurgedAgain
  <2>2. attempts'[k] = Purged(attempts[k]) /\ \A l \in Key : l # k => attempts'[l] = attempts[l]
    BY <1>0, <1>2
  <2>3. attempts' = [l \in Key |-> attempts'[l]]
    BY <1>0, <1>2
  <2> QED BY <1>0, <1>2, <2>1, <2>2, <2>3 DEF LimiterSeesAll
<1>3. ASSUME NEW k \in Key, LoginWrong(k) PROVE LimiterSeesAll'
  <2>1. /\ Len(Purged(attempts[k])) < MaxAttempts
        /\ attempts' = [attempts EXCEPT ![k] = Append(Purged(attempts[k]), 0)]
        /\ wrong' = [wrong EXCEPT ![k] = Append(wrong[k], 0)]
    BY <1>3 DEF LoginWrong, Recorded
  <2> DEFINE q == Append(Purged(attempts[k]), 0)
  <2>2. Ordered(q) /\ Purged(q) = q /\ Len(q) = Len(Purged(attempts[k])) + 1
    BY <1>0, RecordedFacts
  <2>3. Len(q) <= MaxAttempts
    <3>1. Len(Purged(attempts[k])) \in Nat
      BY <1>0, PurgedFacts DEF Ordered
    <3> QED BY <2>1, <2>2, <3>1, AuthAssumption
  <2>4. attempts' = [attempts EXCEPT ![k] = q] /\ wrong' = [wrong EXCEPT ![k] = q]
    BY <1>0, <2>1
  <2> HIDE DEF q
  <2>5. /\ attempts'[k] = q /\ wrong'[k] = q
        /\ \A l \in Key : l # k => attempts'[l] = attempts[l] /\ wrong'[l] = wrong[l]
        /\ attempts' = [l \in Key |-> attempts'[l]] /\ wrong' = [l \in Key |-> wrong'[l]]
    BY <1>0, <2>4
  <2> QED BY <1>0, <2>2, <2>3, <2>5 DEF LimiterSeesAll
<1>4. CASE Restart
  BY <1>4, NoAttempts DEF Restart, LimiterSeesAll
<1>5. CASE Tick
  <2>1. /\ attempts' = [k \in Key |-> LaterBy(attempts[k])]
        /\ wrong' = [k \in Key |-> Purged(PlusOne(wrong[k]))]
    BY <1>5 DEF Tick, LaterBy, PlusOne, Purged
  <2>2. ASSUME NEW k \in Key
        PROVE  /\ Ordered(attempts'[k]) /\ wrong'[k] = Purged(attempts'[k])
               /\ Len(wrong'[k]) <= MaxAttempts
    <3>1. /\ attempts'[k] = LaterBy(attempts[k]) /\ wrong'[k] = Purged(PlusOne(Purged(attempts[k])))
          /\ Len(Purged(attempts[k])) <= MaxAttempts /\ Ordered(attempts[k])
      BY <1>0, <2>1
    <3>2. /\ Ordered(LaterBy(attempts[k]))
          /\ Purged(LaterBy(attempts[k])) = Purged(PlusOne(Purged(attempts[k])))
          /\ Len(Purged(LaterBy(attempts[k]))) <= Len(Purged(attempts[k]))
      BY <3>1, LaterFacts
    <3>3. Len(Purged(LaterBy(attempts[k]))) \in Nat /\ Len(Purged(attempts[k])) \in Nat
      BY <3>1, <3>2, PurgedFacts DEF Ordered
    <3>4. Len(Purged(LaterBy(attempts[k]))) <= MaxAttempts
      BY <3>1, <3>2, <3>3, AuthAssumption
    <3> QED BY <3>1, <3>2, <3>4
  <2>3. attempts' = [k \in Key |-> attempts'[k]] /\ wrong' = [k \in Key |-> wrong'[k]]
    BY <2>1
  <2> QED BY <2>2, <2>3 DEF LimiterSeesAll
<1> QED
  BY <1>1, <1>2, <1>3, <1>4, <1>5
  DEF AuthNext, authVars, LoginLimited, LoginRight, Refresh, Logout

(* However logins, limits, expiry, rotation and restarts follow each other, *)
(* one process checks at most MaxAttempts wrong passwords for a key within  *)
(* a window.                                                                *)
THEOREM GuessesAlwaysBounded == AuthSpec => []GuessesBounded
<1>1. LimiterSeesAll => GuessesBounded
  BY DEF LimiterSeesAll, GuessesBounded
<1> QED BY <1>1, InitSeesAll, NextSeesAll, PTL DEF AuthSpec

-----------------------------------------------------------------------------
(* A login that is over.                                                   *)

\* Whatever was issued in exchange for a pair in D is in D.
Closed(D) == \A k \in Issued : pairs[k].parent \in D => k \in D

(* The line of a login is the smallest closed set it is in. *)
LEMMA LineIsClosed ==
  ASSUME NEW n \in Issued
  PROVE  n \in Line(n) /\ Line(n) \subseteq Issued /\ Closed(Line(n))
<1>1. n \in Line(n) /\ Line(n) \subseteq Issued
  BY DEF Line
<1>2. ASSUME NEW k \in Issued, pairs[k].parent \in Line(n) PROVE k \in Line(n)
  BY <1>2 DEF Line
<1> QED BY <1>1, <1>2 DEF Closed

(* What a step does to the pairs and to the store. *)
LEMMA StepOfTokens ==
  ASSUME TokensInv, [AuthNext]_authVars
  PROVE  /\ Issued \subseteq Issued'
         /\ \A k \in Issued : /\ pairs'[k].parent = pairs[k].parent
                              /\ ~AccessValid(k) => ~AccessValid(k)'
         /\ \A k \in Issued' \ Issued : pairs'[k].parent = 0 \/ pairs'[k].parent \in store
         /\ store' \subseteq store \cup (Issued' \ Issued)
<1> USE DEF TokensInv
<1>1. Len(pairs) \in Nat /\ MaxPairs \in Nat /\ Issued = 1 .. Len(pairs) /\ pairs \in Seq(Pair)
      /\ Len(pairs) <= MaxPairs
  BY AuthAssumption DEF PairsTyped, Issued
<1>2. ASSUME NEW u \in User, NEW parent \in 0 .. MaxPairs, Len(pairs) < MaxPairs, Issue(u, parent),
             parent = 0 \/ parent \in store, store' \subseteq store \cup {Len(pairs) + 1}
      PROVE  /\ Issued \subseteq Issued'
             /\ \A k \in Issued : /\ pairs'[k].parent = pairs[k].parent
                                  /\ ~AccessValid(k) => ~AccessValid(k)'
             /\ \A k \in Issued' \ Issued : pairs'[k].parent = 0 \/ pairs'[k].parent \in store
             /\ store' \subseteq store \cup (Issued' \ Issued)
  <2>1. /\ \A k \in Issued : pairs'[k] = pairs[k]
        /\ pairs'[Len(pairs) + 1].parent = parent
        /\ Issued' = Issued \cup {Len(pairs) + 1}
        /\ Len(pairs) + 1 \notin Issued
    BY <1>2, IssueFacts
  <2> QED BY <1>2, <2>1 DEF AccessValid
<1>3. ASSUME NEW k \in Key, LoginRight(k)
      PROVE  k[2] \in User /\ Issue(k[2], 0) /\ 0 \in 0 .. MaxPairs /\ Len(pairs) < MaxPairs
             /\ store' \subseteq store \cup {Len(pairs) + 1}
  BY <1>1, <1>3 DEF LoginRight, Key
<1>4. ASSUME NEW r \in Issued, Refresh(r)
      PROVE  pairs[r].user \in User /\ r \in 0 .. MaxPairs /\ Issue(pairs[r].user, r) /\ r \in store
             /\ Len(pairs) < MaxPairs /\ store' \subseteq store \cup {Len(pairs) + 1}
  <2>1. pairs[r] \in Pair
    BY <1>1
  <2> QED BY <1>1, <1>4, <2>1 DEF Refresh, RefreshValid, Pair
<1>5. ASSUME store' \subseteq store, UNCHANGED pairs
      PROVE  /\ Issued' = Issued /\ \A k \in Issued : AccessValid(k)' = AccessValid(k)
             /\ store' \subseteq store
  BY <1>5 DEF Issued, AccessValid
<1>6. ASSUME Tick
      PROVE  /\ Issued' = Issued /\ store' = store
             /\ \A k \in Issued : /\ pairs'[k].parent = pairs[k].parent
                                  /\ ~AccessValid(k) => ~AccessValid(k)'
  <2>1. pairs' = [k \in Issued |-> [pairs[k] EXCEPT !.age = Older(@, RefreshLife)]] /\ store' = store
    BY <1>6 DEF Tick
  <2>2. Issued' = Issued
    BY <1>1, <2>1 DEF Issued
  <2>3. ASSUME NEW k \in Issued
        PROVE  pairs'[k].parent = pairs[k].parent /\ (~AccessValid(k) => ~AccessValid(k)')
    <3>1. pairs[k] \in Pair /\ pairs[k].age \in Nat /\ AccessLife \in Nat /\ RefreshLife \in Nat
      <4>1. pairs[k] \in Pair /\ RefreshLife \in Nat /\ AccessLife \in Nat
        BY <1>1, AuthAssumption
      <4> QED BY <4>1 DEF Pair
    <3>2. pairs'[k] = [pairs[k] EXCEPT !.age = Older(pairs[k].age, RefreshLife)]
      BY <2>1
    <3>3. pairs'[k].parent = pairs[k].parent /\ pairs'[k].age = Older(pairs[k].age, RefreshLife)
      BY <3>1, <3>2 DEF Pair
    <3> QED BY <3>1, <3>3 DEF AccessValid, Older
  <2> QED BY <2>1, <2>2, <2>3
<1>7. CASE \E k \in Key : LoginLimited(k) \/ LoginWrong(k) \/ LoginRight(k)
  BY <1>2, <1>3, <1>5, <1>7 DEF LoginLimited, LoginWrong
<1>8. CASE \E r \in Issued : Refresh(r) \/ Logout(r)
  BY <1>2, <1>4, <1>5, <1>8 DEF Logout
<1>9. CASE Restart \/ UNCHANGED authVars
  BY <1>5, <1>9 DEF Restart, authVars
<1> QED BY <1>6, <1>7, <1>8, <1>9 DEF AuthNext

(* Of a login that is out no pair is exchanged, so its line stays as it is. *)
LEMMA LineOfLoggedOut ==
  ASSUME TokensInv, [AuthNext]_authVars, NEW n, LoggedOut(n)
  PROVE  LoggedOut(n)' /\ Line(n)' \subseteq Line(n)
<1>1. /\ n \in Issued /\ n \in Line(n) /\ Line(n) \subseteq Issued /\ Closed(Line(n))
      /\ Line(n) \cap store = {}
  BY LineIsClosed DEF LoggedOut
<1>2. PICK D \in SUBSET Issued : D = Line(n)
  BY <1>1
<1>3. 0 \notin D
  BY <1>2 DEF Issued
<1>4. Closed(D)'
  BY <1>1, <1>2, <1>3, StepOfTokens DEF Closed
<1>5. D \in SUBSET Issued' /\ n \in Issued' /\ n \in D
  BY <1>1, <1>2, StepOfTokens
<1>6. Line(n)' \subseteq D
  BY <1>4, <1>5 DEF Line, Closed
<1>7. D \cap store' = {}
  BY <1>1, <1>2, StepOfTokens
<1> QED BY <1>2, <1>5, <1>6, <1>7 DEF LoggedOut

LEMMA ShutOutStays ==
  ASSUME TokensInv, [AuthNext]_authVars, NEW n, ShutOut(n)
  PROVE  ShutOut(n)'
<1>1. LoggedOut(n)' /\ Line(n)' \subseteq Line(n)
  BY LineOfLoggedOut DEF ShutOut
<1>2. \A m \in Line(n) : m \in Issued /\ ~AccessValid(m)
  BY DEF ShutOut, Line
<1>3. \A m \in Line(n)' : ~AccessValid(m)'
  BY <1>1, <1>2, StepOfTokens
<1> QED BY <1>1, <1>3 DEF ShutOut

(* A login that was logged out with its current token stays out, whatever is
   presented, retried or restarted and whoever logs in, and once its access
   tokens have run out nothing of it is accepted again; that they do run out
   is up to the clock. *)
THEOREM LogoutIsFinal ==
  ASSUME NEW CONSTANT n
  PROVE  AuthSpec => /\ [](LoggedOut(n) => []LoggedOut(n))
                     /\ [](ShutOut(n) => []ShutOut(n))
<1>1. TokensInv /\ [AuthNext]_authVars /\ LoggedOut(n) => LoggedOut(n)'
  BY LineOfLoggedOut
<1>2. TokensInv /\ [AuthNext]_authVars /\ ShutOut(n) => ShutOut(n)'
  BY ShutOutStays
<1> QED BY <1>1, <1>2, InitTokens, NextTokens, PTL DEF AuthSpec

-----------------------------------------------------------------------------
(* Types, and the limiter's lists stay short.                              *)

\* No list is longer than the limit, and ages are counted up to the window.
Short(ages) == Len(ages) <= MaxAttempts /\ \A i \in 1 .. Len(ages) : ages[i] <= Window

ListsShort == users \subseteq User /\ \A k \in Key : Short(attempts[k])

LEMMA ShortFacts ==
  ASSUME NEW s, Ordered(s), Short(s)
  PROVE  /\ Short(Purged(s)) /\ Short(LaterBy(s))
         /\ Len(Purged(s)) < MaxAttempts => Short(Append(Purged(s), 0))
<1>0. /\ s \in Seq(Nat) /\ Len(s) \in Nat /\ Window \in Nat /\ MaxAttempts \in Nat
      /\ \A i \in 1 .. Len(s) : s[i] \in Nat
  BY AuthAssumption DEF Ordered
<1>1. /\ Purged(s) \in Seq(Nat) /\ Len(Purged(s)) <= Len(s)
      /\ \A i \in 1 .. Len(Purged(s)) : Purged(s)[i] < Window /\ Purged(s)[i] \in Nat
  BY PurgedFacts DEF Ordered
<1>2. Short(Purged(s))
  BY <1>0, <1>1 DEF Short
<1>3. Short(LaterBy(s))
  <2>1. Len(LaterBy(s)) = Len(s) /\ \A i \in 1 .. Len(s) : LaterBy(s)[i] = Older(s[i], Window)
    BY <1>0 DEF LaterBy
  <2>2. \A x \in Nat : x <= Window => Older(x, Window) <= Window
    BY <1>0 DEF Older
  <2> QED BY <1>0, <2>1, <2>2 DEF Short
<1>4. ASSUME Len(Purged(s)) < MaxAttempts PROVE Short(Append(Purged(s), 0))
  <2> DEFINE p == Purged(s)
  <2>1. p \in Seq(Nat) /\ Len(p) < MaxAttempts /\ \A i \in 1 .. Len(p) : p[i] <= Window
    BY <1>0, <1>1, <1>4
  <2> HIDE DEF p
  <2>2. Len(Append(p, 0)) <= MaxAttempts
    BY <1>0, <2>1
  <2>3. \A i \in 1 .. Len(Append(p, 0)) : Append(p, 0)[i] <= Window
    BY <1>0, <2>1
  <2>4. Short(Append(p, 0))
    BY <2>2, <2>3 DEF Short
  <2> QED BY <2>4 DEF p
<1> QED BY <1>2, <1>3, <1>4

LEMMA NextListsShort == LimiterSeesAll /\ ListsShort /\ [AuthNext]_authVars => ListsShort'
<1> SUFFICES ASSUME LimiterSeesAll, ListsShort, [AuthNext]_authVars PROVE ListsShort'
  OBVIOUS
<1>0. /\ attempts = [k \in Key |-> attempts[k]] /\ users \subseteq User
      /\ \A k \in Key : Ordered(attempts[k]) /\ Short(attempts[k])
  BY DEF LimiterSeesAll, ListsShort
<1>1. CASE UNCHANGED <<attempts, users>>
  BY <1>0, <1>1 DEF ListsShort
<1>2. ASSUME NEW k \in Key, attempts' = [attempts EXCEPT ![k] = Purged(@)], UNCHANGED users
      PROVE  ListsShort'
  BY <1>0, <1>2, ShortFacts DEF ListsShort
<1>3. ASSUME NEW k \in Key, LoginWrong(k) PROVE ListsShort'
  <2>1. /\ attempts' = [attempts EXCEPT ![k] = Append(Purged(@), 0)] /\ UNCHANGED users
        /\ Len(Purged(attempts[k])) < MaxAttempts
    BY <1>3 DEF LoginWrong, Recorded
  <2> QED BY <1>0, <2>1, ShortFacts DEF ListsShort
<1>4. CASE Restart
  <2>1. Short(<<>>)
    BY AuthAssumption DEF Short
  <2> QED BY <1>4, <2>1 DEF Restart, ListsShort
<1>5. CASE Tick
  <2>1. attempts' = [k \in Key |-> LaterBy(attempts[k])] /\ users' = users
    BY <1>5 DEF Tick, LaterBy
  <2> QED BY <1>0, <2>1, ShortFacts DEF ListsShort
<1> QED BY <1>1, <1>2, <1>3, <1>4, <1>5
        DEF AuthNext, authVars, LoginLimited, LoginRight, Refresh, Logout

(* A list of numbers is one of those it consists of. *)
LEMMA ListOf ==
  ASSUME NEW S, NEW s \in Seq(Nat), \A i \in 1 .. Len(s) : s[i] \in S
  PROVE  s \in Seq(S)
<1>1. Len(s) \in Nat /\ s = [i \in 1 .. Len(s) |-> s[i]]
  BY LenProperties
<1>2. s \in [1 .. Len(s) -> S]
  BY <1>1
<1> QED BY <1>1, <1>2, SeqDef

(* Types; in particular the limiter's list of a key never holds more than the
   limit, also with entries that nobody has purged. *)
THEOREM AuthTypeCorrect == AuthSpec => []AuthTypeOK
<1>1. AuthInit => ListsShort
  <2>1. Short(<<>>)
    BY AuthAssumption DEF Short
  <2> QED BY <2>1 DEF AuthInit, ListsShort
<1>2. TokensInv /\ LimiterSeesAll /\ ListsShort => AuthTypeOK
  <2> SUFFICES ASSUME TokensInv, LimiterSeesAll, ListsShort PROVE AuthTypeOK
    OBVIOUS
  <2>1. /\ users \subseteq User /\ pairs \in Seq(Pair) /\ Len(pairs) <= MaxPairs /\ store \subseteq Issued
        /\ \A k \in Key : Len(attempts[k]) <= MaxAttempts
    BY DEF ListsShort, Short, TokensInv, PairsTyped, StoreIssued
  <2>2. ASSUME NEW k \in Key PROVE attempts[k] \in Seq(0 .. Window) /\ wrong[k] \in Seq(0 .. Window - 1)
    <3>1. Ordered(attempts[k]) /\ Short(attempts[k]) /\ wrong[k] = Purged(attempts[k]) /\ Window \in Nat
      BY AuthAssumption DEF LimiterSeesAll, ListsShort
    <3>2. attempts[k] \in Seq(Nat) /\ \A i \in 1 .. Len(attempts[k]) : attempts[k][i] \in 0 .. Window
      BY <3>1 DEF Ordered, Short
    <3>3. wrong[k] \in Seq(Nat) /\ \A i \in 1 .. Len(wrong[k]) : wrong[k][i] \in 0 .. Window - 1
      BY <3>1, PurgedFacts DEF Ordered
    <3> QED BY <3>2, <3>3, ListOf
  <2>3. attempts \in [Key -> Seq(0 .. Window)] /\ wrong \in [Key -> Seq(0 .. Window - 1)]
    BY <2>2 DEF LimiterSeesAll
  <2> QED BY <2>1, <2>3 DEF AuthTypeOK
<1> QED BY <1>1, <1>2, InitTokens, NextTokens, InitSeesAll, NextSeesAll, NextListsShort, PTL DEF AuthSpec
================================================================================
