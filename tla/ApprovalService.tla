---------------------------- MODULE ApprovalService ----------------------------
(***************************************************************************)
(* The human-in-the-loop gate (frameworks/agent-sdk/.../approval.py): one  *)
(* Redis key per approval request, created with a TTL equal to the         *)
(* request's timeout, and the lists approval:pending and                   *)
(* approval:completed.                                                     *)
(*                                                                         *)
(* Every handler is a chain of awaited Redis commands; each command is one *)
(* action, so analysts, sweepers, the clock and Redis' own key expiry come *)
(* between any two of them, and a Redis error can end a handler half-way.  *)
(***************************************************************************)
EXTENDS Naturals, FiniteSets

CONSTANTS
  Req,       \* approval requests
  Analyst,   \* tasks running approve_request / reject_request
  Sweeper,   \* tasks running check_timeouts
  MaxFaults  \* bound on how often a Redis command raises

ASSUME ApprovalAssumption ==
  /\ MaxFaults \in Nat
  /\ Req # {}
  /\ Analyst \cap Sweeper = {}

VARIABLES
  created,    \* progress of create_approval_request
  rec,        \* the value of key approval:<id>: status, and whether a TTL runs
  expired,    \* expires_at lies in the past
  pending,    \* the ids in approval:pending
  completed,  \* how often an id was pushed on approval:completed (2: more)
  task,       \* the handler each analyst or sweeper is running
  faults      \* how often a Redis command will still raise: the environment

vars == <<created, rec, expired, pending, completed, task, faults>>

Task == Analyst \cup Sweeper

Status == {"absent", "pending", "rejected", "timeout"}

(***************************************************************************)
(* req and status are the handler's locals; todo is the rest of the id     *)
(* list a sweep is working through.                                        *)
(***************************************************************************)
TaskState ==
  [pc : {"idle", "approve", "sweep", "got", "write", "lrem", "lpush"},
   req : Req, status : {"rejected", "timeout"}, todo : SUBSET Req]

AtRest(t) == task[t].pc = "idle"

\* The handler goes on to step pc, or ends ("idle"); it keeps its locals.
Goto(t, pc) == task' = [task EXCEPT ![t] = [@ EXCEPT !.pc = pc]]

-----------------------------------------------------------------------------
Init ==
  /\ created = [r \in Req |-> "no"]
  /\ rec = [r \in Req |-> [status |-> "absent", ttl |-> FALSE]]
  /\ expired = [r \in Req |-> FALSE]
  /\ pending = {}
  /\ completed = [r \in Req |-> 0]
  /\ task = [t \in Task |-> [pc |-> "idle", req |-> CHOOSE r \in Req : TRUE,
                            status |-> "timeout", todo |-> {}]]
  /\ faults = MaxFaults

(* create_approval_request: SETEX, then LPUSH on the pending list. *)
CreateStore(r) ==
  /\ created[r] = "no"
  /\ created' = [created EXCEPT ![r] = "stored"]
  /\ rec' = [rec EXCEPT ![r] = [status |-> "pending", ttl |-> TRUE]]
  /\ UNCHANGED <<expired, pending, completed, task, faults>>

CreateEnqueue(r) ==
  /\ created[r] = "stored"
  /\ created' = [created EXCEPT ![r] = "returned"]
  /\ pending' = pending \cup {r}
  /\ UNCHANGED <<rec, expired, completed, task, faults>>

\* The second command raises: the caller never learns the request id.
CreateFail(r) ==
  /\ faults > 0
  /\ faults' = faults - 1
  /\ created[r] = "stored"
  /\ created' = [created EXCEPT ![r] = "failed"]
  /\ UNCHANGED <<rec, expired, pending, completed, task>>

(***************************************************************************)
(* reject_request: GET, raise if the key is gone, else go on to write      *)
(* REJECTED whatever the status and the expiry read.                       *)
(***************************************************************************)
RejectGet(a, r) ==
  /\ AtRest(a)
  /\ created[r] = "returned"
  /\ rec[r].status # "absent"
  /\ task' = [task EXCEPT ![a] =
       [pc |-> "write", req |-> r, status |-> "rejected", todo |-> {}]]
  /\ UNCHANGED <<created, rec, expired, pending, completed, faults>>

(***************************************************************************)
(* approve_request: GET, then fromisoformat(request.expires_at).  The      *)
(* model field expires_at is already a datetime, so the call raises        *)
(* TypeError for every record that is found; nothing after it runs.        *)
(***************************************************************************)
ApproveGet(a, r) ==
  /\ AtRest(a)
  /\ created[r] = "returned"
  /\ rec[r].status # "absent"
  /\ task' = [task EXCEPT ![a] =
       [pc |-> "approve", req |-> r, status |-> "rejected", todo |-> {}]]
  /\ UNCHANGED <<created, rec, expired, pending, completed, faults>>

ApproveRaise(a) ==
  /\ task[a].pc = "approve"
  /\ Goto(a, "idle")
  /\ UNCHANGED <<created, rec, expired, pending, completed, faults>>

(* check_timeouts: LRANGE, then GET for each id. *)
SweepStart(s) ==
  /\ AtRest(s)
  /\ pending # {}
  /\ task' = [task EXCEPT ![s] =
       [pc |-> "sweep", req |-> @.req, status |-> "timeout", todo |-> pending]]
  /\ UNCHANGED <<created, rec, expired, pending, completed, faults>>

\* Bug variant: the id of a key that is gone is taken off the pending list.
MutDropStale(s, r) ==
  /\ task[s].pc = "sweep"
  /\ r \in task[s].todo
  /\ task' = [task EXCEPT ![s] =
       [pc |-> IF rec[r].status = "absent" THEN "sweep" ELSE "got",
        req |-> r, status |-> "timeout", todo |-> @.todo \ {r}]]
  /\ pending' = IF rec[r].status = "absent" THEN pending \ {r} ELSE pending
  /\ UNCHANGED <<created, rec, expired, completed, faults>>

\* Bug variant: the sweep scans the keys approval:* and not the pending list.
MutScan(s, r) ==
  /\ task[s].pc = "sweep"
  /\ rec[r].status # "absent"
  /\ task' = [task EXCEPT ![s] = [pc |-> "got", req |-> r,
                                  status |-> "timeout", todo |-> @.todo \ {r}]]
  /\ UNCHANGED <<created, rec, expired, pending, completed, faults>>

\* A key that is gone is passed over: its id stays in the pending list.
SweepGet(s, r) ==
  /\ task[s].pc = "sweep"
  /\ r \in task[s].todo
  /\ task' = [task EXCEPT ![s] =
       [pc |-> IF rec[r].status = "absent" THEN "sweep" ELSE "got",
        req |-> r, status |-> "timeout", todo |-> @.todo \ {r}]]
  /\ UNCHANGED <<created, rec, expired, pending, completed, faults>>

\* Bug variant: the comparison with the clock is the wrong way round.
MutCompareSwapped(s) ==
  /\ task[s].pc = "got"
  /\ Goto(s, IF expired[task[s].req] THEN "sweep" ELSE "write")
  /\ UNCHANGED <<created, rec, expired, pending, completed, faults>>

\* expires_at < utcnow(), on what GET returned.
SweepCompare(s) ==
  /\ task[s].pc = "got"
  /\ Goto(s, IF expired[task[s].req] THEN "write" ELSE "sweep")
  /\ UNCHANGED <<created, rec, expired, pending, completed, faults>>

SweepEnd(s) ==
  /\ task[s].pc = "sweep"
  /\ task[s].todo = {}
  /\ Goto(s, "idle")
  /\ UNCHANGED <<created, rec, expired, pending, completed, faults>>

(***************************************************************************)
(* The tail reject_request and check_timeouts share: SET (which drops the  *)
(* TTL), LREM from the pending list, LPUSH on the completed list.          *)
(***************************************************************************)
\* Bug variant: the decision is written with the request's TTL kept.
MutKeepTtl(t) ==
  /\ task[t].pc = "write"
  /\ rec' = [rec EXCEPT ![task[t].req].status = task[t].status]
  /\ Goto(t, "lrem")
  /\ UNCHANGED <<created, expired, pending, completed, faults>>

Write(t) ==
  /\ task[t].pc = "write"
  /\ rec' = [rec EXCEPT ![task[t].req] =
                          [status |-> task[t].status, ttl |-> FALSE]]
  /\ Goto(t, "lrem")
  /\ UNCHANGED <<created, expired, pending, completed, faults>>

Lrem(t) ==
  /\ task[t].pc = "lrem"
  /\ pending' = pending \ {task[t].req}
  /\ Goto(t, "lpush")
  /\ UNCHANGED <<created, rec, expired, completed, faults>>

\* Bug variant: a timed-out id is taken off the pending list only.
MutNoPush(t) ==
  /\ task[t].pc = "lpush"
  /\ Goto(t, IF t \in Sweeper THEN "sweep" ELSE "idle")
  /\ UNCHANGED <<created, rec, expired, pending, completed, faults>>

Lpush(t) ==
  /\ task[t].pc = "lpush"
  /\ completed' = [completed EXCEPT ![task[t].req] = IF @ < 2 THEN @ + 1 ELSE 2]
  /\ Goto(t, IF t \in Sweeper THEN "sweep" ELSE "idle")
  /\ UNCHANGED <<created, rec, expired, pending, faults>>

\* A Redis command raises: the handler ends where it is.
Fail(t) ==
  /\ faults > 0
  /\ faults' = faults - 1
  /\ ~AtRest(t)
  /\ Goto(t, "idle")
  /\ UNCHANGED <<created, rec, expired, pending, completed>>

(* The clock passes expires_at; at or after that Redis drops a key whose TTL
   still runs, because SETEX started the TTL after expires_at was computed. *)
Expire(r) ==
  /\ created[r] # "no"
  /\ ~expired[r]
  /\ expired' = [expired EXCEPT ![r] = TRUE]
  /\ UNCHANGED <<created, rec, pending, completed, task, faults>>

Vanish(r) ==
  /\ expired[r]
  /\ rec[r].ttl
  /\ rec' = [rec EXCEPT ![r] = [status |-> "absent", ttl |-> FALSE]]
  /\ UNCHANGED <<created, expired, pending, completed, task, faults>>

Settle(t) == Write(t) \/ Lrem(t) \/ Lpush(t)

Sweep(s) ==
  \/ SweepStart(s)
  \/ \E r \in Req : SweepGet(s, r)
  \/ SweepCompare(s)
  \/ SweepEnd(s)

Next ==
  \/ \E r \in Req : CreateStore(r) \/ CreateEnqueue(r) \/ CreateFail(r)
  \/ \E r \in Req : Expire(r) \/ Vanish(r)
  \/ \E a \in Analyst, r \in Req : RejectGet(a, r) \/ ApproveGet(a, r)
  \/ \E a \in Analyst : ApproveRaise(a)
  \/ \E s \in Sweeper : Sweep(s)
  \/ \E t \in Task : Settle(t) \/ Fail(t)

Spec == Init /\ [][Next]_vars

(***************************************************************************)
(* Handlers that have started run on, and check_timeouts is called again   *)
(* and again; Redis fails finitely often.  Nothing is assumed of analysts, *)
(* of the clock or of Redis dropping keys.                                 *)
(***************************************************************************)
Fairness ==
  /\ \A s \in Sweeper : WF_vars(Sweep(s) \/ Settle(s))
  /\ \A a \in Analyst : WF_vars(ApproveRaise(a) \/ Settle(a))
  /\ \A r \in Req : WF_vars(CreateEnqueue(r))

FairSpec == Spec /\ Fairness

-----------------------------------------------------------------------------
(* Every variable has its type. *)
TypeOK ==
  /\ created \in [Req -> {"no", "stored", "returned", "failed"}]
  /\ rec \in [Req -> [status : Status, ttl : BOOLEAN]]
  /\ expired \in [Req -> BOOLEAN]
  /\ pending \in SUBSET Req
  /\ completed \in [Req -> 0 .. 2]
  /\ faults \in 0 .. MaxFaults
  /\ task \in [Task -> TaskState]

Decided(r) == rec[r].status \in {"rejected", "timeout"}

(* A request on the completed list has a decision on record, also when its
   key had expired while a handler was deciding it, or handlers failed. *)
CompletedIsDecided == \A r \in Req : completed[r] > 0 => Decided(r)

\* Task t is still going to look at r, or to write it as timed out.
Holds(t, r) ==
  /\ ~AtRest(t)
  /\ \/ r \in task[t].todo
     \/ task[t].req = r /\ task[t].pc \in {"got", "write"} /\ task[t].status = "timeout"

\* A rejection that is off the pending list and in no running sweep's listing.
RejectedForGood(r) ==
  /\ rec[r].status = "rejected"
  /\ r \notin pending
  /\ \A t \in Task : ~Holds(t, r)

(* A stored decision is not lost to the key's TTL, nor undone by creation, and
   a rejection that is off the pending list and in no sweep's hands stays the
   analyst's: check_timeouts, which looks at expires_at and never at the
   status, turns a rejection into a time-out only when its LRANGE came before
   the rejection's LREM, or that LREM failed.  (reject_request writes REJECTED
   over a time-out at any time: it looks at neither.) *)
DecisionsStand ==
  [][\A r \in Req : /\ Decided(r) => Decided(r)'
                    /\ RejectedForGood(r) => RejectedForGood(r)']_vars

(* An id is only taken off the pending list once its decision is on record: a
   request that is neither pending nor decided would be seen by nobody. *)
LeftPendingIsDecided ==
  \A r \in Req : created[r] = "returned" /\ r \notin pending => Decided(r)

(* Neither list runs ahead of the decisions on record.                     *)
ListsFollowRecords == CompletedIsDecided /\ LeftPendingIsDecided

\* Some handler is between its GET and its last command on r.
InProgress(r) ==
  \E t \in Task : task[t].req = r /\ task[t].pc \in {"write", "lrem", "lpush"}

(* When no handler is working on a request and no Redis command has failed, the
   record and the two lists agree, however many handlers decided it at once. *)
ListsAgree ==
  faults = MaxFaults =>
    \A r \in Req : ~InProgress(r) =>
      /\ Decided(r) <=> completed[r] > 0
      /\ Decided(r) => r \notin pending

(* An expired request that is still pending is decided by some sweep, unless
   Redis drops its key first, also when earlier sweeps failed half-way. *)
SweepSettles ==
  \A r \in Req :
    (r \in pending /\ expired[r] /\ rec[r].status = "pending")
      ~> (Decided(r) \/ rec[r].status = "absent")
=============================================================================
