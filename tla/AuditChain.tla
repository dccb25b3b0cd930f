------------------------------ MODULE AuditChain ------------------------------
(***************************************************************************)
(* The audit trail of one incident (frameworks/agent-sdk/.../audit.py):    *)
(* log_event links each event to the last one by hash.  All its state is   *)
(* in Redis, under keys that carry the incident id, so incidents do not    *)
(* interact and one is modelled.                                           *)
(*                                                                         *)
(* log_event is a chain of awaited Redis commands; each is an action.      *)
(* Events are numbered in the order of their timestamps (creation), and an *)
(* event's number stands for its id and its HMAC: distinct events have     *)
(* distinct ones.  0 is the absent hash.                                   *)
(***************************************************************************)
EXTENDS Naturals, Sequences

CONSTANTS
  Writer,      \* tasks running log_event for the incident
  Limit,       \* how many of the newest events verify_chain reads (100)
  FailAt,      \* the points of log_event at which a Redis command may raise
  MaxEvents    \* bound on the events ever created

Steps == {"read", "created", "stored", "indexed"}

ASSUME AuditAssumption ==
  /\ Limit \in Nat \ {0}
  /\ MaxEvents \in Nat
  /\ FailAt \subseteq Steps

VARIABLES
  prev,      \* prev[i]: previous_hash of event i
  alive,     \* stored events whose 90-day TTL still runs, in SETEX order
  index,     \* audit:index:<incident>, newest last
  lastHash,  \* audit:last_hash:<incident>
  writer     \* where each task is in log_event, with its locals

vars == <<prev, alive, index, lastHash, writer>>

Hash == 0 .. MaxEvents

\* seen: the last hash it read; id: the event it created.
WriterState == [pc : {"idle"} \cup Steps, seen : Hash, id : Hash]

Idle == [pc |-> "idle", seen |-> 0, id |-> 0]

Created == 1 .. Len(prev)

In(i, s) == \E k \in 1 .. Len(s) : s[k] = i

-----------------------------------------------------------------------------
Init ==
  /\ prev = <<>>
  /\ alive = <<>>
  /\ index = <<>>
  /\ lastHash = 0
  /\ writer = [w \in Writer |-> Idle]

(* _get_last_hash *)
ReadLast(w) ==
  /\ writer[w].pc = "idle"
  /\ writer' = [writer EXCEPT ![w] = [pc |-> "read", seen |-> lastHash, id |-> 0]]
  /\ UNCHANGED <<prev, alive, index, lastHash>>

(* The event is built, time-stamped and signed in one go. *)
CreateEvent(w) ==
  /\ writer[w].pc = "read"
  /\ Len(prev) < MaxEvents
  /\ prev' = Append(prev, writer[w].seen)
  /\ writer' = [writer EXCEPT ![w] =
       [pc |-> "created", seen |-> @.seen, id |-> Len(prev) + 1]]
  /\ UNCHANGED <<alive, index, lastHash>>

\* Bug variant: the last hash is set before the event is indexed.
MutSetLastEarly(w) ==
  /\ writer[w].pc = "created"
  /\ alive' = Append(alive, writer[w].id)
  /\ lastHash' = writer[w].id
  /\ writer' = [writer EXCEPT ![w].pc = "stored"]
  /\ UNCHANGED <<prev, index>>

(* SETEX of the event *)
StoreEvent(w) ==
  /\ writer[w].pc = "created"
  /\ alive' = Append(alive, writer[w].id)
  /\ writer' = [writer EXCEPT ![w].pc = "stored"]
  /\ UNCHANGED <<prev, index, lastHash>>

(* LPUSH on the incident's index *)
IndexEvent(w) ==
  /\ writer[w].pc = "stored"
  /\ index' = Append(index, writer[w].id)
  /\ writer' = [writer EXCEPT ![w].pc = "indexed"]
  /\ UNCHANGED <<prev, alive, lastHash>>

(* SET of the last hash.  The S3 archive that may follow swallows its errors
   and changes nothing here. *)
SetLast(w) ==
  /\ writer[w].pc = "indexed"
  /\ lastHash' = writer[w].id
  /\ writer' = [writer EXCEPT ![w] = Idle]
  /\ UNCHANGED <<prev, alive, index>>

\* A Redis command raises, or the process dies: log_event ends half-way.
Fail(w) ==
  /\ writer[w].pc \in FailAt
  /\ writer' = [writer EXCEPT ![w] = Idle]
  /\ UNCHANGED <<prev, alive, index, lastHash>>

(* The oldest stored event reaches its 90 days; no log_event call lasts that
   long. *)
ExpireEvent ==
  /\ alive # <<>>
  /\ \A w \in Writer : writer[w].id # Head(alive)
  /\ alive' = Tail(alive)
  /\ UNCHANGED <<prev, index, lastHash, writer>>

LogStep(w) ==
  \/ ReadLast(w)
  \/ CreateEvent(w)
  \/ StoreEvent(w)
  \/ IndexEvent(w)
  \/ SetLast(w)
  \/ Fail(w)

Next == (\E w \in Writer : LogStep(w)) \/ ExpireEvent

Spec == Init /\ [][Next]_vars

-----------------------------------------------------------------------------
(* verify_chain, on the events get_incident_events returns: the newest Limit
   of the index that are still stored, by time stamp.  Every HMAC matches, so
   what is left is that each event after the first links to the one before. *)
EventsRead ==
  {i \in Created :
     /\ In(i, alive)
     /\ \E k \in 1 .. Len(index) : index[k] = i /\ k + Limit > Len(index)}

\* Bug variant: the first event read has to be the first of the incident.
MutVerifyFromGenesis ==
  /\ \A i \in EventsRead : (\A k \in EventsRead : i <= k) => prev[i] = 0
  /\ \A i, j \in EventsRead :
       (i < j /\ \A k \in EventsRead : k <= i \/ j <= k) => prev[j] = i

VerifyChain ==
  \A i, j \in EventsRead :
    (i < j /\ \A k \in EventsRead : k <= i \/ j <= k) => prev[j] = i

(* Every variable has its type. *)
TypeOK ==
  /\ prev \in Seq(Hash) /\ Len(prev) <= MaxEvents
  /\ alive \in Seq(Hash)
  /\ index \in Seq(Hash)
  /\ lastHash \in Hash
  /\ writer \in [Writer -> WriterState]

(* A link always leads to an older event that is in the incident's index,
   however many writers overlap and wherever they fail: following links from
   any event ends at a first event and never meets one that was lost. *)
LinksLeadBack ==
  \A i \in Created : prev[i] # 0 => prev[i] < i /\ In(prev[i], index)

(* Only a fork can break the chain: while no two indexed events link to the
   same predecessor, verify_chain is true, whatever has expired, fallen out
   of the newest Limit or failed half-way (log_event, get_incident_events). *)
BrokenOnlyByFork ==
  (\A i, j \in Created :
     In(i, index) /\ In(j, index) /\ prev[i] = prev[j] => i = j)
  => VerifyChain

(* audit.py:79 promises "Chain of custody via hash linking" and
   services.md "True if chain is intact": nobody tampers in this model, so
   verify_chain is true in every state. *)
ChainVerifies == VerifyChain
=============================================================================
