---------------------------- MODULE ConnectionPool ----------------------------
(***************************************************************************)
(* The pooled HTTP clients of the MCP bridge and their circuit breakers    *)
(* (frameworks/mcp-bridge/.../transport/pool.py).  Every MCP tool calls    *)
(* execute_request, which takes a client from the pool, sends the request  *)
(* and records the outcome under the endpoint's name.                      *)
(*                                                                         *)
(* Each pool method runs under the pool's asyncio.Lock and is one action.  *)
(* Between get_client and record_success / record_failure the caller waits *)
(* for the network without the lock, so other callers, evictions, breaker  *)
(* resets and the clock come in between.                                   *)
(***************************************************************************)
EXTENDS Naturals

CONSTANTS
  Name,       \* endpoint keys of the pool ("wazuh", "opencti", ...)
  Caller,     \* tasks running execute_request
  Target,     \* the endpoint a caller uses: a tool has a fixed endpoint
  Threshold,  \* failure_threshold
  Cooldown    \* cooldown_seconds, in clock ticks

ASSUME PoolAssumption ==
  /\ Target \in [Caller -> Name]
  /\ Threshold \in Nat \ {0}
  /\ Cooldown \in Nat \ {0}

VARIABLES
  entry,   \* the pool's entry of each name, with its breaker
  call,    \* the request each caller is working on
  up,      \* whether each endpoint answers 2xx: the environment
  streak,  \* history: failures recorded of each endpoint's entry in a row
  barred   \* history: for how long each endpoint has to be left alone

vars == <<entry, call, up, streak, barred>>

past == <<streak, barred>>

-----------------------------------------------------------------------------
(***************************************************************************)
(* _failures is only compared with the threshold and _last_failure_time    *)
(* only with the cooldown: failures saturates at Threshold and elapsed     *)
(* (the time since the last recorded failure) at Cooldown.                 *)
(***************************************************************************)
State == {"closed", "open", "half_open"}

Entry == [live : BOOLEAN, state : State,
          failures : 0 .. Threshold, elapsed : 0 .. Cooldown]

\* A breaker as __init__ makes it; live says whether the pool holds it.
Fresh(live) ==
  [live |-> live, state |-> "closed", failures |-> 0, elapsed |-> Cooldown]

Call == [pc : {"idle", "inflight", "succeeded", "failed"},
         stale : BOOLEAN]   \* its client has been closed by an eviction

Idle == [pc |-> "idle", stale |-> FALSE]

SatInc(i, bound) == IF i < bound THEN i + 1 ELSE i

-----------------------------------------------------------------------------
(* CircuitBreaker: what each method makes of a breaker.                    *)

Allows(b) == b.state # "open" \/ b.elapsed >= Cooldown

AfterAllow(b) ==
  [b EXCEPT !.state = IF @ = "open" THEN "half_open" ELSE @]

\* Bug variant: any success closes the breaker, that of a late answer too.
MutLateCloses(b) == [b EXCEPT !.state = "closed", !.failures = 0]

\* Bug variant: a success does not close a half-open breaker.
MutNoClose(b) == [b EXCEPT !.failures = 0]

AfterSuccess(b) ==
  [live |-> b.live,
   state |-> IF b.state = "half_open" THEN "closed" ELSE b.state,
   failures |-> 0,
   elapsed |-> b.elapsed]

\* Bug variant: a failed probe does not re-open the breaker.
MutProbeIgnored(b) ==
  [b EXCEPT !.failures = SatInc(@, Threshold), !.elapsed = 0,
            !.state = IF @ = "closed" /\ b.failures + 1 >= Threshold
                      THEN "open" ELSE @]

AfterFailure(b) ==
  [live |-> b.live,
   state |-> IF b.failures + 1 >= Threshold THEN "open" ELSE b.state,
   failures |-> SatInc(b.failures, Threshold),
   elapsed |-> 0]

AfterReset(b) ==
  [live |-> b.live, state |-> "closed", failures |-> 0, elapsed |-> b.elapsed]

AfterTick(b) == [b EXCEPT !.elapsed = SatInc(@, Cooldown)]

-----------------------------------------------------------------------------
Init ==
  /\ entry = [n \in Name |-> Fresh(FALSE)]
  /\ call = [c \in Caller |-> Idle]
  /\ up = [n \in Name |-> TRUE]
  /\ streak = [n \in Name |-> 0]
  /\ barred = [n \in Name |-> 0]

\* The entry get_client works on: the pool's, or a new one on a miss.
Found(n) == IF entry[n].live THEN entry[n] ELSE Fresh(TRUE)

(***************************************************************************)
(* get_client: create on a miss, then ask the breaker.  A refused caller   *)
(* gets an httpx.HTTPError and nothing changes, which is a stuttering step.*)
(***************************************************************************)
GetClient(c) ==
  LET n == Target[c] IN
  /\ call[c].pc = "idle"
  /\ Allows(Found(n))
  /\ entry' = [entry EXCEPT ![n] = AfterAllow(Found(n))]
  /\ call' = [call EXCEPT ![c] =
       [pc |-> "inflight", stale |-> FALSE]]
  /\ UNCHANGED <<up, past>>

\* client.request answers and raise_for_status passes.
RespondOk(c) ==
  /\ call[c].pc = "inflight"
  /\ up[Target[c]]
  /\ call' = [call EXCEPT ![c].pc = "succeeded"]
  /\ UNCHANGED <<entry, up, past>>

\* An httpx.HTTPError: timeout, refused connection, error status, or a
\* connection closed under the request.
RespondError(c) ==
  /\ call[c].pc = "inflight"
  /\ ~up[Target[c]] \/ call[c].stale
  /\ call' = [call EXCEPT ![c].pc = "failed"]
  /\ UNCHANGED <<entry, up, past>>

\* Any other exception escapes execute_request without being recorded: the
\* RuntimeError httpx raises for a client that has been closed.
Abort(c) ==
  /\ call[c].pc = "inflight"
  /\ call[c].stale
  /\ call' = [call EXCEPT ![c] = Idle]
  /\ UNCHANGED <<entry, up, past>>

\* record_success and record_failure find the entry by name: after an
\* eviction that is no entry, or the one that replaced it.
Record(c, b) ==
  /\ entry' = IF entry[Target[c]].live
              THEN [entry EXCEPT ![Target[c]] = b] ELSE entry
  /\ call' = [call EXCEPT ![c] = Idle]
  /\ UNCHANGED up

RecordSuccess(c) ==
  /\ call[c].pc = "succeeded"
  /\ Record(c, AfterSuccess(entry[Target[c]]))
  /\ streak' = [streak EXCEPT ![Target[c]] = 0]
  /\ UNCHANGED barred

\* As many failures in a row as the threshold, or another one while the endpoint is
\* to be left alone, and it is to be left alone for a cooldown from now.
RecordFailure(c) ==
  LET n == Target[c]
      row == SatInc(streak[n], Threshold)
  IN
  /\ call[c].pc = "failed"
  /\ Record(c, AfterFailure(entry[n]))
  /\ IF entry[n].live
     THEN /\ streak' = [streak EXCEPT ![n] = row]
          /\ barred' = [barred EXCEPT ![n] = IF row = Threshold \/ @ > 0 THEN Cooldown ELSE 0]
     ELSE UNCHANGED past

\* The past of entries that are reset or gone does not count.
Cleared(names) ==
  /\ streak' = [n \in Name |-> IF n \in names THEN 0 ELSE streak[n]]
  /\ barred' = [n \in Name |-> IF n \in names THEN 0 ELSE barred[n]]

ResetBreaker(n) ==
  /\ entry[n].live
  /\ entry' = [entry EXCEPT ![n] = AfterReset(entry[n])]
  /\ Cleared({n})
  /\ UNCHANGED <<call, up>>

\* aclose under the requests that are still using a closed client.
CloseClients(names) ==
  call' = [c \in Caller |->
             IF Target[c] \in names /\ call[c].pc = "inflight"
             THEN [call[c] EXCEPT !.stale = TRUE] ELSE call[c]]

Evict(n) ==
  /\ entry[n].live
  /\ entry' = [entry EXCEPT ![n] = Fresh(FALSE)]
  /\ CloseClients({n})
  /\ Cleared({n})
  /\ UNCHANGED up

CloseAll ==
  LET live == {n \in Name : entry[n].live} IN
  /\ live # {}
  /\ entry' = [n \in Name |-> Fresh(FALSE)]
  /\ CloseClients(live)
  /\ Cleared(Name)
  /\ UNCHANGED up

\* The monotonic clock, as the breakers see it.
Tick ==
  /\ \E n \in Name : entry[n].elapsed < Cooldown
  /\ entry' = [n \in Name |-> AfterTick(entry[n])]
  /\ barred' = [n \in Name |-> IF barred[n] > 0 THEN barred[n] - 1 ELSE 0]
  /\ UNCHANGED <<call, up, streak>>

\* The endpoint goes down or comes back.
Outage(n) ==
  /\ up' = [up EXCEPT ![n] = ~@]
  /\ UNCHANGED <<entry, call, past>>

CallStep(c) ==
  \/ GetClient(c)
  \/ RespondOk(c)
  \/ RespondError(c)
  \/ Abort(c)
  \/ RecordSuccess(c)
  \/ RecordFailure(c)

Next ==
  \/ \E c \in Caller : CallStep(c)
  \/ \E n \in Name : ResetBreaker(n)
  \/ \E n \in Name : Evict(n)
  \/ CloseAll
  \/ Tick
  \/ \E n \in Name : Outage(n)

Spec == Init /\ [][Next]_vars

(***************************************************************************)
(* Tools keep calling, the event loop runs every task that can run (the    *)
(* asyncio.Lock is first-come first-served) and time passes.  Outages,     *)
(* resets and evictions are up to the environment.                         *)
(***************************************************************************)
Fairness ==
  /\ \A c \in Caller : WF_vars(CallStep(c))
  /\ WF_vars(Tick)

FairSpec == Spec /\ Fairness

-----------------------------------------------------------------------------
(* Every variable has its type. *)
TypeOK ==
  /\ entry \in [Name -> Entry]
  /\ call \in [Caller -> Call]
  /\ up \in [Name -> BOOLEAN]
  /\ streak \in [Name -> 0 .. Threshold]
  /\ barred \in [Name -> 0 .. Cooldown]

(* For a cooldown after Threshold failures in a row were recorded, and after
   each failure recorded before that time is over, the breaker is open, also
   if late successes are recorded meanwhile; as long as no success is, it is
   not closed.  (A success recorded while the breaker is open lets nobody in,
   but it makes record_failure count from zero: a probe that then fails is a
   single failure, which leaves the breaker half-open.) *)
TrippedStaysGuarded ==
  \A n \in Name : entry[n].live =>
    /\ barred[n] > 0 => entry[n].state = "open"
    /\ streak[n] = Threshold => entry[n].state # "closed"

Admitted(c) == call[c].pc = "idle" /\ call'[c].pc = "inflight"

(* No caller is given a client for a cooldown after Threshold failures in a
   row were recorded, nor after a failure recorded in that time, unless the
   breaker was reset or the entry evicted: execute_request against a dead
   endpoint backs off whatever late answers are recorded in between. *)
BacksOff ==
  [][\A c \in Caller :
       Admitted(c) /\ entry[Target[c]].live => barred[Target[c]] = 0]_vars

(* What CircuitBreaker says of itself, that it is half-open for one probe
   request: nobody is let in by a half-open breaker while another request to
   its endpoint is under way. *)
OneProbe ==
  [][\A c, d \in Caller :
       /\ Admitted(c) /\ d # c /\ Target[d] = Target[c]
       /\ entry[Target[c]].live /\ entry[Target[c]].state = "half_open"
       => call[d].pc # "inflight"]_vars

(* An endpoint that stays up is not shut out for ever: its breaker is closed
   (or it has no entry) again and again. *)
RecoversWhenUp ==
  \A n \in Name :
    <>[](up[n]) => []<>(~entry[n].live \/ entry[n].state = "closed")
=============================================================================
