------------------------------ MODULE BridgeProofs -----------------------------
(***************************************************************************)
(* Proofs about the MCP bridge.                                            *)
(*                                                                         *)
(* The connection pool, for any endpoints, callers, threshold and          *)
(* cooldown.  The invariant relates what was recorded to what the breaker  *)
(* knows of it: its count of failures is the row of them, and the time an  *)
(* endpoint has to be left alone is what its open breaker still waits for. *)
(*                                                                         *)
(* The MCP server and its registries, for any sessions, messages and       *)
(* tools.  Copies: RegistriesInv says where the tools of each registry     *)
(* come from.  Streams: StreamsInv says that what a stream carries is      *)
(* exactly the answers due to it, none twice.  Audit: AuditInv counts.     *)
(***************************************************************************)
EXTENDS ConnectionPool, McpServer, FiniteSetTheorems, SequenceTheorems, TLAPS


(* What the breaker b of an endpoint makes of a row of failures and of a
   time for which the endpoint has to be left alone. *)
Heeds(b, row, time) ==
  /\ b.live =>
       /\ b.failures = row
       /\ row = Threshold => b.state # "closed"
       /\ time > 0 => b.state = "open" /\ time = Cooldown - b.elapsed
  /\ ~b.live => row = 0 /\ time = 0

IInv == TypeOK /\ \A n \in Name : Heeds(entry[n], streak[n], barred[n])

(* SatInc stays within its bound. *)
LEMMA SatIncBounded ==
  ASSUME NEW bound \in Nat, NEW i \in 0 .. bound
  PROVE  /\ SatInc(i, bound) \in 0 .. bound
         /\ i < bound => SatInc(i, bound) = i + 1
         /\ i = bound => SatInc(i, bound) = bound
BY DEF SatInc

(* A breaker of the pool's type keeps it through every method. *)
LEMMA BreakerTypes ==
  ASSUME NEW b \in Entry
  PROVE  /\ AfterAllow(b) \in Entry
         /\ AfterSuccess(b) \in Entry
         /\ AfterFailure(b) \in Entry
         /\ \A live \in BOOLEAN : Fresh(live) \in Entry
         /\ AfterReset(b) \in Entry
         /\ AfterTick(b) \in Entry
<1>1. /\ SatInc(b.failures, Threshold) \in 0 .. Threshold
      /\ SatInc(b.elapsed, Cooldown) \in 0 .. Cooldown
  BY SatIncBounded, PoolAssumption DEF Entry
<1>2. AfterAllow(b) \in Entry /\ AfterSuccess(b) \in Entry
  BY PoolAssumption DEF AfterAllow, AfterSuccess, Entry, State
<1>3. AfterFailure(b) \in Entry
  BY <1>1, PoolAssumption DEF AfterFailure, Entry, State
<1>4. \A live \in BOOLEAN : Fresh(live) \in Entry
  BY PoolAssumption DEF Fresh, Entry, State
<1>5. AfterReset(b) \in Entry /\ AfterTick(b) \in Entry
  BY <1>1, PoolAssumption DEF AfterReset, AfterTick, Entry, State
<1> QED BY <1>2, <1>3, <1>4, <1>5

(* What each method makes of a breaker heeds what is recorded: allow_request
   opens half-way only after the cooldown, record_failure opens at the
   threshold in any state, and a success recorded while the breaker is open
   leaves it open. *)
LEMMA BreakerHeeds ==
  ASSUME NEW b \in Entry, NEW row \in 0 .. Threshold, NEW time \in 0 .. Cooldown,
         Heeds(b, row, time)
  PROVE  /\ Allows(b) => Heeds(AfterAllow(b), row, time)
         /\ Heeds(AfterSuccess(b), 0, time)
         /\ b.live => LET next == SatInc(row, Threshold) IN
                      Heeds(AfterFailure(b), next,
                            IF next = Threshold \/ time > 0 THEN Cooldown ELSE 0)
         /\ \A live \in BOOLEAN : Heeds(Fresh(live), 0, 0)
         /\ b.live => Heeds(AfterReset(b), 0, 0)
         /\ Heeds(AfterTick(b), row, IF time > 0 THEN time - 1 ELSE 0)
<1>1. Allows(b) => Heeds(AfterAllow(b), row, time)
  BY PoolAssumption DEF Heeds, Allows, AfterAllow, Entry, State
<1>2. Heeds(AfterSuccess(b), 0, time)
  BY PoolAssumption DEF Heeds, AfterSuccess, Entry, State
<1>3. ASSUME b.live
      PROVE  LET next == SatInc(row, Threshold) IN
             Heeds(AfterFailure(b), next, IF next = Threshold \/ time > 0 THEN Cooldown ELSE 0)
  <2> DEFINE f == AfterFailure(b)
             next == SatInc(row, Threshold)
  <2>1. /\ f.live /\ f.failures = next /\ f.elapsed = 0
        /\ f.state = IF row + 1 >= Threshold THEN "open" ELSE b.state
    BY <1>3 DEF AfterFailure, Heeds
  <2>2. next = Threshold => f.state = "open"
    <3>1. row + 1 < Threshold => next # Threshold
      BY PoolAssumption DEF SatInc
    <3> QED BY <2>1, <3>1, PoolAssumption
  <2>3. time > 0 => f.state = "open"
    BY <1>3, <2>1 DEF Heeds
  <2> HIDE DEF f, next
  <2> QED BY <2>1, <2>2, <2>3, PoolAssumption DEF Heeds, f, next
<1>4. \A live \in BOOLEAN : Heeds(Fresh(live), 0, 0)
  BY PoolAssumption DEF Heeds, Fresh
<1>5. b.live => Heeds(AfterReset(b), 0, 0)
  BY PoolAssumption DEF Heeds, AfterReset, Entry
<1>6. Heeds(AfterTick(b), row, IF time > 0 THEN time - 1 ELSE 0)
  <2>1. /\ AfterTick(b).live = b.live /\ AfterTick(b).state = b.state
        /\ AfterTick(b).failures = b.failures
        /\ AfterTick(b).elapsed = SatInc(b.elapsed, Cooldown)
    BY DEF AfterTick, Entry
  <2>2. time > 0 /\ b.live => b.elapsed < Cooldown /\ SatInc(b.elapsed, Cooldown) = b.elapsed + 1
    BY PoolAssumption DEF Heeds, SatInc, Entry
  <2> QED BY <2>1, <2>2, PoolAssumption DEF Heeds, Entry
<1> QED BY <1>1, <1>2, <1>3, <1>4, <1>5, <1>6

LEMMA InitIInv == Init => IInv
<1> SUFFICES ASSUME Init PROVE IInv
  OBVIOUS
<1>1. \A live \in BOOLEAN : Fresh(live) \in Entry /\ Heeds(Fresh(live), 0, 0)
  BY PoolAssumption DEF Fresh, Entry, State, Heeds
<1>2. TypeOK
  <2>1. 0 \in 0 .. Threshold /\ 0 \in 0 .. Cooldown
    BY PoolAssumption
  <2>2. Idle \in Call
    BY DEF Idle, Call
  <2> QED BY <1>1, <2>1, <2>2 DEF Init, TypeOK
<1> QED BY <1>1, <1>2 DEF IInv, Init

(* The inductive step: one case per action of the pool. *)
LEMMA NextIInv == IInv /\ [Next]_vars => IInv'
<1> SUFFICES ASSUME IInv, [Next]_vars PROVE IInv'
  OBVIOUS
<1> DEFINE Good(e, row, time) == /\ e \in Entry /\ row \in 0 .. Threshold /\ time \in 0 .. Cooldown
                                 /\ Heeds(e, row, time)
<1>0. /\ entry \in [Name -> Entry]
      /\ call \in [Caller -> Call]
      /\ up \in [Name -> BOOLEAN]
      /\ streak \in [Name -> 0 .. Threshold]
      /\ barred \in [Name -> 0 .. Cooldown]
      /\ \A n \in Name : Good(entry[n], streak[n], barred[n])
      /\ \A c \in Caller : Target[c] \in Name
  BY PoolAssumption DEF IInv, TypeOK
<1>fresh. \A live \in BOOLEAN : Good(Fresh(live), 0, 0)
  BY PoolAssumption DEF Fresh, Entry, State, Heeds
<1>idle. Idle \in Call
  BY DEF Idle, Call
<1>suff. ASSUME call' \in [Caller -> Call], up' \in [Name -> BOOLEAN],
                entry' = [n \in Name |-> entry'[n]], streak' = [n \in Name |-> streak'[n]],
                barred' = [n \in Name |-> barred'[n]],
                \A n \in Name : Good(entry'[n], streak'[n], barred'[n])
         PROVE  IInv'
  BY <1>suff DEF IInv, TypeOK
<1> HIDE DEF Good
<1>good. ASSUME NEW n \in Name, NEW e, NEW row, NEW time, Good(e, row, time),
                call' \in [Caller -> Call], up' \in [Name -> BOOLEAN],
                entry' = [entry EXCEPT ![n] = e],
                streak' = [streak EXCEPT ![n] = row],
                barred' = [barred EXCEPT ![n] = time]
         PROVE  IInv'
  BY <1>0, <1>good, <1>suff
<1>same. ASSUME call' \in [Caller -> Call], up' \in [Name -> BOOLEAN], UNCHANGED <<entry, past>>
         PROVE  IInv'
  BY <1>0, <1>same, <1>suff DEF past
<1>1. ASSUME NEW c \in Caller, GetClient(c) PROVE IInv'
  <2> DEFINE n == Target[c]
             f == Found(n)
  <2>1. Good(f, streak[n], barred[n])
    <3>1. CASE entry[n].live
      BY <1>0, <3>1 DEF Found
    <3>2. CASE ~entry[n].live
      <4>1. streak[n] = 0 /\ barred[n] = 0
        BY <1>0, <3>2 DEF Good, Heeds
      <4> QED BY <1>fresh, <3>2, <4>1 DEF Found
    <3> QED BY <3>1, <3>2
  <2>2. Good(AfterAllow(f), streak[n], barred[n])
    BY <2>1, <1>1, BreakerTypes, BreakerHeeds DEF Good, GetClient
  <2>3. call' \in [Caller -> Call]
    BY <1>0, <1>1 DEF GetClient, Call
  <2>4. /\ entry' = [entry EXCEPT ![n] = AfterAllow(f)] /\ up' = up
        /\ streak' = [streak EXCEPT ![n] = streak[n]] /\ barred' = [barred EXCEPT ![n] = barred[n]]
    BY <1>0, <1>1 DEF GetClient, past
  <2> HIDE DEF f
  <2> QED BY <1>0, <2>2, <2>3, <2>4, <1>good
<1>2. ASSUME NEW c \in Caller, RespondOk(c) \/ RespondError(c) \/ Abort(c)
      PROVE IInv'
  <2>1. call' \in [Caller -> Call]
    BY <1>0, <1>2, <1>idle DEF RespondOk, RespondError, Abort, Call
  <2>2. UNCHANGED <<entry, up, past>>
    BY <1>2 DEF RespondOk, RespondError, Abort
  <2> QED BY <1>0, <2>1, <2>2, <1>same
<1>r. ASSUME NEW c \in Caller, NEW b, Record(c, b)
      PROVE  /\ call' \in [Caller -> Call] /\ up' = up
             /\ entry' = IF entry[Target[c]].live THEN [entry EXCEPT ![Target[c]] = b] ELSE entry
  BY <1>0, <1>r, <1>idle DEF Record
<1>3. ASSUME NEW c \in Caller, RecordSuccess(c) PROVE IInv'
  <2> DEFINE n == Target[c]
  <2>1. /\ call' \in [Caller -> Call] /\ up' = up
        /\ entry' = IF entry[n].live THEN [entry EXCEPT ![n] = AfterSuccess(entry[n])] ELSE entry
        /\ streak' = [streak EXCEPT ![n] = 0] /\ barred' = barred
    BY <1>3, <1>r DEF RecordSuccess
  <2>2. CASE entry[n].live
    <3>1. Good(AfterSuccess(entry[n]), 0, barred[n])
      BY <1>0, BreakerTypes, BreakerHeeds, PoolAssumption DEF Good
    <3>2. barred' = [barred EXCEPT ![n] = barred[n]]
      BY <1>0, <2>1
    <3> QED BY <1>0, <2>1, <2>2, <3>1, <3>2, <1>good
  <2>3. CASE ~entry[n].live
    <3>1. streak[n] = 0
      BY <1>0, <2>3 DEF Good, Heeds
    <3>2. streak' = streak /\ entry' = entry
      BY <1>0, <2>1, <2>3, <3>1
    <3> QED BY <1>0, <2>1, <3>2, <1>same DEF past
  <2> QED BY <2>2, <2>3
<1>4. ASSUME NEW c \in Caller, RecordFailure(c) PROVE IInv'
  <2> DEFINE n == Target[c]
             row == SatInc(streak[n], Threshold)
             time == IF row = Threshold \/ barred[n] > 0 THEN Cooldown ELSE 0
  <2>1. /\ call' \in [Caller -> Call] /\ up' = up
        /\ entry' = IF entry[n].live THEN [entry EXCEPT ![n] = AfterFailure(entry[n])] ELSE entry
    BY <1>4, <1>r DEF RecordFailure
  <2>2. CASE entry[n].live
    <3>1. Good(AfterFailure(entry[n]), row, time)
      <4>1. row \in 0 .. Threshold /\ time \in 0 .. Cooldown
        BY <1>0, SatIncBounded, PoolAssumption
      <4>2. AfterFailure(entry[n]) \in Entry /\ Heeds(AfterFailure(entry[n]), row, time)
        BY <1>0, <2>2, BreakerTypes, BreakerHeeds DEF Good
      <4> QED BY <4>1, <4>2 DEF Good
    <3>2. streak' = [streak EXCEPT ![n] = row] /\ barred' = [barred EXCEPT ![n] = time]
      BY <1>0, <1>4, <2>2 DEF RecordFailure
    <3> HIDE DEF row, time
    <3> QED BY <1>0, <2>1, <2>2, <3>1, <3>2, <1>good
  <2>3. CASE ~entry[n].live
    BY <1>0, <1>4, <2>1, <2>3, <1>same DEF RecordFailure
  <2> QED BY <2>2, <2>3
<1>5. ASSUME NEW n \in Name, ResetBreaker(n) PROVE IInv'
  <2>1. Good(AfterReset(entry[n]), 0, 0)
    BY <1>0, <1>5, BreakerTypes, BreakerHeeds, PoolAssumption DEF Good, ResetBreaker
  <2>2. streak' = [streak EXCEPT ![n] = 0] /\ barred' = [barred EXCEPT ![n] = 0]
    BY <1>0, <1>5 DEF ResetBreaker, Cleared
  <2> QED BY <1>0, <1>5, <2>1, <2>2, <1>good DEF ResetBreaker
<1>6. ASSUME NEW names \in SUBSET Name, CloseClients(names)
      PROVE call' \in [Caller -> Call]
  BY <1>0, <1>6 DEF CloseClients, Call
<1>7. ASSUME NEW n \in Name, Evict(n) PROVE IInv'
  <2>1. call' \in [Caller -> Call]
    BY <1>6, <1>7 DEF Evict
  <2>2. streak' = [streak EXCEPT ![n] = 0] /\ barred' = [barred EXCEPT ![n] = 0]
    BY <1>0, <1>7 DEF Evict, Cleared
  <2> QED BY <1>0, <1>7, <2>1, <2>2, <1>fresh, <1>good DEF Evict
<1>8. CASE CloseAll
  <2>1. call' \in [Caller -> Call]
    BY <1>6, <1>8 DEF CloseAll
  <2> QED BY <1>0, <1>8, <2>1, <1>fresh, <1>suff DEF CloseAll, Cleared
<1>9. CASE Tick
  <2>1. \A n \in Name : Good(AfterTick(entry[n]), streak[n], IF barred[n] > 0 THEN barred[n] - 1 ELSE 0)
    <3> TAKE n \in Name
    <3>1. AfterTick(entry[n]) \in Entry
      BY <1>0, BreakerTypes
    <3>2. Heeds(AfterTick(entry[n]), streak[n], IF barred[n] > 0 THEN barred[n] - 1 ELSE 0)
      BY <1>0, BreakerHeeds DEF Good
    <3>3. (IF barred[n] > 0 THEN barred[n] - 1 ELSE 0) \in 0 .. Cooldown
      BY <1>0, PoolAssumption
    <3> QED BY <1>0, <3>1, <3>2, <3>3 DEF Good
  <2>2. /\ entry' = [n \in Name |-> AfterTick(entry[n])] /\ call' = call /\ up' = up
        /\ streak' = streak
        /\ barred' = [n \in Name |-> IF barred[n] > 0 THEN barred[n] - 1 ELSE 0]
    BY <1>9 DEF Tick
  <2> QED BY <1>0, <2>1, <2>2, <1>suff
<1>10. ASSUME NEW n \in Name, Outage(n) PROVE IInv'
  BY <1>0, <1>10, <1>same DEF Outage
<1>11. CASE UNCHANGED vars
  BY <1>0, <1>11, <1>same DEF vars, past
<1> QED
  BY <1>1, <1>2, <1>3, <1>4, <1>5, <1>7, <1>8, <1>9, <1>10, <1>11 DEF Next, CallStep

(* IInv holds in every reachable state. *)
THEOREM InvariantHolds == Spec => []IInv
BY InitIInv, NextIInv, PTL DEF Spec

(* Type correctness of the pool. *)
THEOREM TypeCorrect == Spec => []TypeOK
<1>1. IInv => TypeOK
  BY DEF IInv
<1> QED BY <1>1, InvariantHolds, PTL

(* While an endpoint has to be left alone its breaker is open, and after
   Threshold failures in a row it is not closed, whatever order the callers'
   answers, evictions and resets come in, late successes included. *)
THEOREM TrippedGuarded == Spec => []TrippedStaysGuarded
<1>1. IInv => TrippedStaysGuarded
  BY DEF IInv, Heeds, TrippedStaysGuarded
<1> QED BY <1>1, InvariantHolds, PTL

(* Only get_client takes a caller from idle to in flight. *)
LEMMA AdmissionIsGetClient ==
  ASSUME IInv, Next, NEW c \in Caller, Admitted(c)
  PROVE  GetClient(c)
<1>0. call \in [Caller -> Call]
  BY DEF IInv, TypeOK
<1>1. call[c].pc = "idle" /\ call'[c].pc = "inflight"
  BY DEF Admitted
<1>2. ASSUME NEW d \in Caller, GetClient(d) PROVE d = c
  BY <1>0, <1>1, <1>2 DEF GetClient
<1>3. ASSUME NEW d \in Caller,
             RespondOk(d) \/ RespondError(d) \/ Abort(d)
               \/ RecordSuccess(d) \/ RecordFailure(d)
      PROVE FALSE
  BY <1>0, <1>1, <1>3
  DEF RespondOk, RespondError, Abort, RecordSuccess, RecordFailure, Record,
      Idle, Call
<1>4. ASSUME NEW names, CloseClients(names) PROVE FALSE
  BY <1>0, <1>1, <1>4 DEF CloseClients
<1>5. ASSUME call' = call PROVE FALSE
  BY <1>1, <1>5
<1> QED
  BY <1>2, <1>3, <1>4, <1>5
  DEF Next, CallStep, ResetBreaker, Evict, CloseAll, Tick, Outage

(* No caller is given a client while an endpoint has to be left alone, also
   when late successes were recorded by its open breaker. *)
THEOREM BacksOffAlways == Spec => BacksOff
<1> DEFINE Rule == \A c \in Caller :
             Admitted(c) /\ entry[Target[c]].live => barred[Target[c]] = 0
<1>1. ASSUME IInv, [Next]_vars PROVE [Rule]_vars
  <2>1. CASE Next
    <3> SUFFICES ASSUME NEW c \in Caller, Admitted(c), entry[Target[c]].live
                 PROVE  barred[Target[c]] = 0
      BY DEF Rule
    <3>1. Allows(entry[Target[c]])
      BY <1>1, <2>1, AdmissionIsGetClient DEF GetClient, Found
    <3>2. /\ Target[c] \in Name /\ entry[Target[c]] \in Entry /\ barred[Target[c]] \in 0 .. Cooldown
          /\ Heeds(entry[Target[c]], streak[Target[c]], barred[Target[c]])
      BY <1>1, PoolAssumption DEF IInv, TypeOK
    <3> QED
      BY <3>1, <3>2, PoolAssumption DEF Allows, Heeds, Entry
  <2>2. CASE UNCHANGED vars
    BY <2>2
  <2> QED BY <1>1, <2>1, <2>2
<1>2. Spec => [][Rule]_vars
  BY <1>1, InvariantHolds, PTL DEF Spec
<1> QED BY <1>2 DEF BacksOff
-----------------------------------------------------------------------------
(* The registries. *)

RegistriesInv ==
  /\ RegistriesTypeOK
  /\ legacy \subseteq Registered
  /\ unified \subseteq {Migrated(t) : t \in Registered} \cup AgentTools
  /\ \A u \in unified : \A tag \in u.tags : <<tag, u.name>> \in tagged

(* A copy differs from its tool in one tag more. *)
LEMMA CopyIs ==
  ASSUME NEW t \in Registered
  PROVE  /\ Migrated(t).name = t.name
         /\ Migrated(t).rev = t.rev
         /\ Migrated(t).approval = t.approval
         /\ Migrated(t).tags = t.tags \cup {"mcp"}
BY RegistriesAssumption DEF Migrated

(* A registration keeps the names of a registry apart, and adds one. *)
LEMMA EnterKeepsApart ==
  ASSUME NEW tools, NEW t,
         \A u, v \in tools : u.name = v.name => u = v
  PROVE  /\ \A u, v \in Enter(tools, t) : u.name = v.name => u = v
         /\ Enter(tools, t) \subseteq tools \cup {t}
         /\ Names(tools) \subseteq Names(Enter(tools, t))
         /\ t.name \in Names(Enter(tools, t))
BY DEF Enter, Named, Names

(* At startup both registries hold the imported tools. *)
LEMMA RegistriesAtStart == ServerInit => RegistriesInv
<1> SUFFICES ASSUME ServerInit PROVE RegistriesInv
  OBVIOUS
<1>1. /\ legacy = Imports
      /\ unified = {Migrated(t) : t \in Imports}
      /\ tagged = UNION {{<<tag, t.name>> : tag \in t.tags} : t \in unified}
  BY DEF ServerInit
<1>2. Imports \subseteq Registered
  BY DEF Registered
<1>3. \A t, u \in legacy : t.name = u.name => t = u
  BY <1>1, RegistriesAssumption
<1>4. \A t, u \in unified : t.name = u.name => t = u
  <2> TAKE t, u \in unified
  <2>1. PICK x \in Imports : t = Migrated(x)
    BY <1>1
  <2>2. PICK y \in Imports : u = Migrated(y)
    BY <1>1
  <2> QED BY <2>1, <2>2, <1>2, CopyIs, RegistriesAssumption
<1>5. \A u \in unified : \A tag \in u.tags : <<tag, u.name>> \in tagged
  BY <1>1
<1>6. \A p \in tagged : p[2] \in Names(unified)
  BY <1>1 DEF Names
<1> QED BY <1>1, <1>2, <1>3, <1>4, <1>5, <1>6 DEF RegistriesInv, RegistriesTypeOK

(* Every registration, removal and copy keeps it. *)
LEMMA RegistriesKept ==
  RegistriesInv /\ (Registration \/ UNCHANGED <<legacy, unified, tagged>>) => RegistriesInv'
<1> SUFFICES ASSUME RegistriesInv, Registration \/ UNCHANGED <<legacy, unified, tagged>>
             PROVE  RegistriesInv'
  OBVIOUS
<1> USE DEF RegistriesInv, RegistriesTypeOK
<1>1. CASE UNCHANGED <<legacy, unified, tagged>>
  BY <1>1 DEF Names
<1>2. ASSUME NEW t \in Reloads, RegisterLegacy(t)
      PROVE  RegistriesInv'
  <2>1. legacy' = Enter(legacy, t) /\ unified' = unified /\ tagged' = tagged
    BY <1>2 DEF RegisterLegacy
  <2>2. legacy' \subseteq Registered /\ \A u, v \in legacy' : u.name = v.name => u = v
    BY <2>1, EnterKeepsApart DEF Registered
  <2> QED BY <2>1, <2>2 DEF Names
<1>3. ASSUME ClearLegacy \/ \E t \in Reloads : UnregisterLegacy(t.name)
      PROVE  RegistriesInv'
  <2>1. legacy' \subseteq legacy /\ unified' = unified /\ tagged' = tagged
    BY <1>3 DEF UnregisterLegacy, ClearLegacy
  <2> QED BY <2>1 DEF Names
<1>4. ASSUME NEW t \in AgentTools, RegisterUnified(t)
      PROVE  RegistriesInv'
  <2>1. /\ legacy' = legacy
        /\ unified' = Enter(unified, t)
        /\ tagged' = tagged \cup {<<tag, t.name>> : tag \in t.tags}
    BY <1>4 DEF RegisterUnified
  <2>2. /\ \A u, v \in unified' : u.name = v.name => u = v
        /\ unified' \subseteq unified \cup {t}
        /\ Names(unified) \subseteq Names(unified')
        /\ t.name \in Names(unified')
    BY <2>1, EnterKeepsApart
  <2>3. \A u \in unified' : \A tag \in u.tags : <<tag, u.name>> \in tagged'
    BY <2>1, <2>2
  <2>4. \A p \in tagged' : p[2] \in Names(unified')
    BY <2>1, <2>2
  <2>5. unified' \subseteq {Migrated(x) : x \in Registered} \cup AgentTools
    BY <2>2
  <2>6. Names(unified)' = Names(unified')
    BY DEF Names
  <2> QED BY <2>1, <2>2, <2>3, <2>4, <2>5, <2>6
<1>5. ASSUME SyncMcpTools
      PROVE  RegistriesInv'
  <2> DEFINE new == {Migrated(t) : t \in {u \in legacy : u.name \notin Names(unified)}}
  <2>1. /\ legacy' = legacy
        /\ unified' = unified \cup new
        /\ tagged' = tagged \cup UNION {{<<tag, t.name>> : tag \in t.tags} : t \in new}
    BY <1>5 DEF SyncMcpTools
  <2>2. \A t \in new : \E x \in legacy : t = Migrated(x) /\ t.name = x.name /\ x.name \notin Names(unified)
    BY CopyIs
  <2>3. \A u, v \in unified' : u.name = v.name => u = v
    <3> TAKE u, v \in unified'
    <3>1. CASE u \in unified /\ v \in unified
      BY <3>1
    <3>2. CASE u \in new /\ v \in new
      BY <3>2, <2>2
    <3>3. CASE u \in new /\ v \in unified
      BY <3>3, <2>2 DEF Names
    <3>4. CASE u \in unified /\ v \in new
      BY <3>4, <2>2 DEF Names
    <3> QED BY <2>1, <3>1, <3>2, <3>3, <3>4
  <2>4. unified' \subseteq {Migrated(x) : x \in Registered} \cup AgentTools
    BY <2>1, <2>2
  <2>5. \A u \in unified' : \A tag \in u.tags : <<tag, u.name>> \in tagged'
    <3> TAKE u \in unified'
    <3> TAKE tag \in u.tags
    <3>1. CASE u \in new
      <4>1. <<tag, u.name>> \in {<<x, u.name>> : x \in u.tags}
        OBVIOUS
      <4> HIDE DEF new
      <4> QED BY <2>1, <3>1, <4>1
    <3>2. CASE u \in unified
      BY <2>1, <3>2
    <3> QED BY <2>1, <3>1, <3>2
  <2>6. \A p \in tagged' : p[2] \in Names(unified')
    BY <2>1 DEF Names
  <2>7. Names(unified)' = Names(unified')
    BY DEF Names
  <2> QED BY <2>1, <2>3, <2>4, <2>5, <2>6, <2>7
<1> QED BY <1>1, <1>2, <1>3, <1>4, <1>5 DEF Registration

(* Everything but a registration leaves the registries alone. *)
LEMMA OnlyRegistrationTouches ==
  [ServerNext]_serverVars => Registration \/ UNCHANGED <<legacy, unified, tagged>>
<1> USE DEF registries, Receive
<1> QED BY DEF ServerNext, OpenSession, StartStream, SendNext, CloseStream, Return, CallDirectly,
               serverVars, registries

(* The names of a registry are apart, and every tag leads to a tool that is
   there; the rest says where each tool comes from. *)
THEOREM RegistriesAreSound == ServerSpec => []RegistriesInv
<1>1. RegistriesInv /\ [ServerNext]_serverVars => RegistriesInv'
  BY RegistriesKept, OnlyRegistrationTouches
<1> QED BY <1>1, RegistriesAtStart, PTL DEF ServerSpec

(* A tool that both registries hold from the same registration has the same
   mark in both, and is found under each of its tags and under "mcp". *)
LEMMA SoundIsFaithful == RegistriesInv => CopiesAreFaithful
<1> SUFFICES ASSUME RegistriesInv,
                    NEW t \in legacy, NEW u \in unified, t.name = u.name, t.rev = u.rev
             PROVE  /\ u.approval = t.approval
                    /\ \A tag \in t.tags \cup {"mcp"} : u \in FindToolsByTag(tag)
  BY DEF CopiesAreFaithful
<1>1. t \in Registered /\ u \notin AgentTools
  BY RegistriesAssumption DEF RegistriesInv
<1>2. PICK x \in Registered : u = Migrated(x)
  BY <1>1 DEF RegistriesInv
<1>3. x = t
  BY <1>1, <1>2, CopyIs, RegistriesAssumption
<1> QED BY <1>2, <1>3, CopyIs DEF RegistriesInv, FindToolsByTag

THEOREM CopiesAlwaysFaithful == ServerSpec => []CopiesAreFaithful
BY RegistriesAreSound, SoundIsFaithful, PTL

-----------------------------------------------------------------------------
(* The server. *)

Answers == [post : Post, id : {"own", ""}]

(* Every body an answer may have is one of Body. *)
LEMMA BodiesAreKnown ==
  ASSUME NEW m
  PROVE  /\ Immediate(m) \subseteq Body
         /\ Awaited(m) \subseteq Body
<1> USE DEF Body, ReadResource, GetPrompt
<1>1. Immediate(m) \subseteq Body
  BY DEF Immediate
<1>2. Awaited(m) \subseteq Body
  BY DEF Awaited
<1> QED BY <1>1, <1>2

(* The types of what sessions and posts hold. *)
ServerStateOK ==
  /\ transport \in Transport
  /\ session \in [Session -> {"new", "waiting", "streaming", "gone"}]
  /\ queue \in [Session -> Seq(Answers)]
  /\ sent \in [Session -> Seq(Answers)]
  /\ post \in [Post -> [at : {"new", "running", "answered"}, message : Messages \cup {NoPost.message},
                        session : Session \cup {"none"}, body : Body]]

(* An answer is put for no session or for the one its message named. *)
LEMMA AnswerKeepsTypes ==
  ASSUME ServerStateOK, NEW p \in Post, NEW m \in Messages \cup {NoPost.message},
         NEW s \in Session \cup {"none"}, NEW body \in Body, Answer(p, m, s, body)
  PROVE  ServerStateOK'
<1>1. [post |-> p, id |-> AnswerId(m, body)] \in Answers
  BY DEF AnswerId, Answers
<1>2. queue' \in [Session -> Seq(Answers)]
  BY <1>1 DEF Answer, ServerStateOK
<1>3. post' \in [Post -> [at : {"new", "running", "answered"}, message : Messages \cup {NoPost.message},
                         session : Session \cup {"none"}, body : Body]]
  BY DEF Answer, ServerStateOK
<1> QED BY <1>2, <1>3 DEF Answer, ServerStateOK

(* A client names a session that it opened, or none. *)
LEMMA NameableIs ==
  ASSUME NEW s \in Nameable
  PROVE  /\ s \in Session \cup {"none"}
         /\ s \in Session => session[s] # "new"
BY ServerAssumption DEF Nameable

LEMMA ServerTypesKept == ServerStateOK /\ [ServerNext]_serverVars => ServerStateOK'
<1> SUFFICES ASSUME ServerStateOK, [ServerNext]_serverVars
             PROVE  ServerStateOK'
  OBVIOUS
<1>1. ASSUME UNCHANGED <<transport, sessions, post>>
      PROVE  ServerStateOK'
  BY <1>1 DEF sessions, ServerStateOK
<1>2. CASE Registration
  BY <1>1, <1>2 DEF Registration
<1>3. ASSUME NEW s \in Session, OpenSession(s) \/ StartStream(s) \/ CloseStream(s)
      PROVE  ServerStateOK'
  BY <1>3 DEF OpenSession, StartStream, CloseStream, ServerStateOK
<1>4. ASSUME NEW s \in Session, SendNext(s)
      PROVE  ServerStateOK'
  <2>1. /\ sent[s] \in Seq(Answers)
        /\ queue[s] \in Seq(Answers)
        /\ queue[s] # <<>>
    BY <1>4 DEF SendNext, Ready, ServerStateOK
  <2>2. Append(sent[s], Head(queue[s])) \in Seq(Answers) /\ Tail(queue[s]) \in Seq(Answers)
    BY <2>1
  <2> QED BY <1>4, <2>2 DEF SendNext, ServerStateOK
<1>5. ASSUME NEW p \in Post, NEW m \in Messages, NEW s \in Nameable, Receive(p, m, s)
      PROVE  ServerStateOK'
  <2>1. CASE post' = [post EXCEPT ![p] = [NoPost EXCEPT !.at = "running", !.message = m, !.session = s]]
              /\ UNCHANGED <<transport, sessions>>
    BY <2>1, NameableIs DEF sessions, ServerStateOK, NoPost, Body
  <2>2. CASE \E body \in Immediate(m) : Answer(p, m, s, body)
    BY <2>2, NameableIs, AnswerKeepsTypes, BodiesAreKnown
  <2> QED BY <1>5, <2>1, <2>2 DEF Receive
<1>6. ASSUME NEW p \in Post, Return(p)
      PROVE  ServerStateOK'
  <2>1. PICK body \in Awaited(post[p].message) : Answer(p, post[p].message, post[p].session, body)
    BY <1>6 DEF Return
  <2>2. /\ post[p].message \in Messages \cup {NoPost.message}
        /\ post[p].session \in Session \cup {"none"}
    BY DEF ServerStateOK
  <2>3. body \in Body
    BY BodiesAreKnown
  <2> QED BY <2>1, <2>2, <2>3, AnswerKeepsTypes
<1>7. ASSUME NEW p \in Post, NEW t \in Reloads, CallDirectly(p, t.name)
      PROVE  ServerStateOK'
  <2>1. PICK body \in CallTool(t.name) :
          post' = [post EXCEPT ![p] = [NoPost EXCEPT !.at = "answered", !.body = body]]
    BY <1>7 DEF CallDirectly
  <2>2. body \in Body
    BY DEF CallTool, Body
  <2> QED BY <1>7, <2>1, <2>2 DEF CallDirectly, sessions, ServerStateOK, NoPost
<1>8. CASE UNCHANGED serverVars
  BY <1>1, <1>8 DEF serverVars
<1> QED BY <1>2, <1>3, <1>4, <1>5, <1>6, <1>7, <1>8 DEF ServerNext

LEMMA ServerTypesAtStart == ServerInit => ServerStateOK
BY DEF ServerInit, ServerStateOK, NoPost, Body

(* The server's state has its type. *)
THEOREM ServerTypeCorrect == ServerSpec => []ServerTypeOK
<1>1. RegistriesInv /\ ServerStateOK => ServerTypeOK
  BY DEF RegistriesInv, ServerStateOK, ServerTypeOK, Answers
<1> QED BY <1>1, RegistriesAreSound, ServerTypesAtStart, ServerTypesKept, PTL DEF ServerSpec

-----------------------------------------------------------------------------
(* The streams. *)

(* What is due to a stream: the answers to the messages that named it. *)
Due(p, s) == post[p].at = "answered" /\ post[p].session = s /\ post[p].body # "nothing"

(* A stream carries what is due to it, none twice; one that is not closed
   carries all of it.  A message names only a session that was opened. *)
StreamsInv ==
  /\ ServerStateOK
  /\ \A p \in Post, s \in Session : post[p].session = s => session[s] # "new"
  /\ \A s \in Session : \A i \in 1 .. Len(Carried(s)) : Due(Carried(s)[i].post, s)
  /\ \A s \in Session : \A i, j \in 1 .. Len(Carried(s)) :
       Carried(s)[i].post = Carried(s)[j].post => i = j
  /\ \A p \in Post, s \in Session :
       Due(p, s) /\ session[s] \in {"waiting", "streaming"} =>
         \E i \in 1 .. Len(Carried(s)) : Carried(s)[i].post = p

LEMMA CarriedIsSequence ==
  ASSUME ServerStateOK, NEW s \in Session
  PROVE  Carried(s) \in Seq(Answers)
BY ConcatProperties DEF Carried, ServerStateOK

(* A queue's last answer is the last that is carried, its first the one after
   what was sent. *)
LEMMA AppendCarried ==
  ASSUME NEW S, NEW s \in Seq(S), NEW t \in Seq(S), NEW e \in S
  PROVE  s \o Append(t, e) = Append(s \o t, e)
<1>1. s \o t \in Seq(S) /\ Len(s \o t) = Len(s) + Len(t)
  BY ConcatProperties
<1>2. Append(t, e) \in Seq(S)
  OBVIOUS
<1>3. s \o Append(t, e) \in Seq(S) /\ Append(s \o t, e) \in Seq(S)
  BY <1>1, <1>2, ConcatProperties
<1>4. Len(s \o Append(t, e)) = Len(Append(s \o t, e))
  BY <1>1, <1>2, ConcatProperties
<1>5. ASSUME NEW i \in 1 .. Len(s) + Len(t) + 1
      PROVE  (s \o Append(t, e))[i] = Append(s \o t, e)[i]
  <2>1. CASE i <= Len(s)
    BY <1>1, <1>2, <2>1, ConcatProperties
  <2>2. CASE i > Len(s)
    BY <1>1, <1>2, <2>2, ConcatProperties
  <2> QED BY <2>1, <2>2
<1> QED BY <1>1, <1>2, <1>3, <1>4, <1>5, SeqEqual

LEMMA HeadCarried ==
  ASSUME NEW S, NEW s \in Seq(S), NEW t \in Seq(S), t # <<>>
  PROVE  Append(s, Head(t)) \o Tail(t) = s \o t
<1>1. /\ Head(t) \in S
      /\ Tail(t) \in Seq(S)
      /\ Len(Tail(t)) = Len(t) - 1
      /\ \A i \in 1 .. Len(Tail(t)) : Tail(t)[i] = t[i + 1]
      /\ Head(t) = t[1]
      /\ Len(t) \in Nat \ {0}
  BY HeadTailProperties
<1>2. /\ Append(s, Head(t)) \in Seq(S)
      /\ Len(Append(s, Head(t))) = Len(s) + 1
      /\ \A i \in 1 .. Len(s) : Append(s, Head(t))[i] = s[i]
      /\ Append(s, Head(t))[Len(s) + 1] = Head(t)
  BY <1>1, AppendProperties
<1>3. /\ Append(s, Head(t)) \o Tail(t) \in Seq(S)
      /\ s \o t \in Seq(S)
      /\ Len(Append(s, Head(t)) \o Tail(t)) = Len(s) + Len(t)
      /\ Len(s \o t) = Len(s) + Len(t)
  BY <1>1, <1>2, ConcatProperties
<1>4. ASSUME NEW i \in 1 .. Len(s) + Len(t)
      PROVE  (Append(s, Head(t)) \o Tail(t))[i] = (s \o t)[i]
  <2>1. CASE i <= Len(s)
    BY <1>1, <1>2, <2>1, ConcatProperties
  <2>3. CASE i = Len(s) + 1
    <3>1. /\ (Append(s, Head(t)) \o Tail(t))[i] = Append(s, Head(t))[Len(s) + 1]
          /\ (s \o t)[i] = t[1]
      BY <1>1, <1>2, <2>3, ConcatProperties
    <3> QED BY <1>1, <1>2, <3>1
  <2>2. CASE i > Len(s) + 1
    <3>1. /\ (Append(s, Head(t)) \o Tail(t))[i] = Tail(t)[i - (Len(s) + 1)]
          /\ (s \o t)[i] = t[i - Len(s)]
      BY <1>1, <1>2, <2>2, ConcatProperties
    <3>2. i - (Len(s) + 1) \in 1 .. Len(Tail(t))
      BY <1>1, <2>2
    <3>3. Tail(t)[i - (Len(s) + 1)] = t[i - (Len(s) + 1) + 1]
      BY <1>1, <3>2
    <3> QED BY <3>1, <3>3
  <2> QED BY <2>1, <2>2, <2>3
<1> QED BY <1>3, <1>4, SeqEqual

(* Sending moves the first answer that is queued, and changes no other. *)
LEMMA SendingKeepsCarried ==
  ASSUME ServerStateOK, NEW s \in Session, SendNext(s), NEW r \in Session
  PROVE  Carried(r)' = Carried(r)
<1>1. CASE r # s
  BY <1>1 DEF SendNext, Carried, ServerStateOK
<1>2. CASE r = s
  <2>1. /\ sent[s] \in Seq(Answers)
        /\ queue[s] \in Seq(Answers)
        /\ queue[s] # <<>>
        /\ sent'[s] = Append(sent[s], Head(queue[s]))
        /\ queue'[s] = Tail(queue[s])
    BY DEF SendNext, Ready, ServerStateOK
  <2> QED BY <1>2, <2>1, HeadCarried DEF Carried
<1> QED BY <1>1, <1>2

(* An answer is carried behind everything else by the streams it is put for. *)
LEMMA AnsweringAppends ==
  ASSUME ServerStateOK, NEW p \in Post, NEW m, NEW s, NEW body, Answer(p, m, s, body),
         NEW r \in Session
  PROVE  LET a == [post |-> p, id |-> AnswerId(m, body)]
         IN  Carried(r)' = IF body # "nothing" /\ r \in Recipients(s)
                           THEN Append(Carried(r), a) ELSE Carried(r)
<1> DEFINE a == [post |-> p, id |-> AnswerId(m, body)]
<1>1. /\ sent[r] \in Seq(Answers)
      /\ queue[r] \in Seq(Answers)
      /\ a \in Answers
      /\ sent' = sent
  BY DEF ServerStateOK, Answers, AnswerId, Answer
<1>2. queue'[r] = IF body # "nothing" /\ r \in Recipients(s) THEN Append(queue[r], a) ELSE queue[r]
  BY DEF Answer
<1> HIDE DEF a
<1>3. sent[r] \o Append(queue[r], a) = Append(sent[r] \o queue[r], a)
  <2>1. \A s1, s2 \in Seq(Answers), e \in Answers : s1 \o Append(s2, e) = Append(s1 \o s2, e)
    BY AppendCarried
  <2> QED BY <1>1, <2>1
<1> QED BY <1>1, <1>2, <1>3 DEF Carried, a

(* A step that answers nobody and puts nothing keeps every stream sound. *)
LEMMA QuietStepsKeepStreams ==
  ASSUME StreamsInv, ServerStateOK',
         \A s \in Session : Carried(s)' = Carried(s),
         \A s \in Session : session'[s] = "new" => session[s] = "new",
         \A s \in Session : session'[s] \in {"waiting", "streaming"} =>
           session[s] \in {"new", "waiting", "streaming"},
         \A q \in Post, s \in Session : Due(q, s)' <=> Due(q, s),
         \A q \in Post, s \in Session : post'[q].session = s =>
           post[q].session = s \/ session'[s] # "new"
  PROVE  StreamsInv'
<1>1. \A q \in Post, s \in Session : post'[q].session = s => session'[s] # "new"
  BY DEF StreamsInv
<1>2. ASSUME NEW s \in Session, NEW i \in 1 .. Len(Carried(s)')
      PROVE  Due((Carried(s)[i].post), s)'
  <2>1. Carried(s) \in Seq(Answers)
    BY CarriedIsSequence DEF StreamsInv
  <2>2. PICK q \in Post : q = Carried(s)[i].post /\ i \in 1 .. Len(Carried(s))
    <3>1. i \in 1 .. Len(Carried(s))
      OBVIOUS
    <3>2. Carried(s)[i] \in Answers
      BY <2>1, <3>1
    <3> QED BY <3>1, <3>2 DEF Answers
  <2>3. Due(q, s)
    BY <2>2 DEF StreamsInv
  <2> QED BY <2>2, <2>3 DEF Due
<1>3. \A s \in Session : \A i, j \in 1 .. Len(Carried(s)') :
        Carried(s)'[i].post = Carried(s)'[j].post => i = j
  BY DEF StreamsInv
<1>4. ASSUME NEW q \in Post, NEW s \in Session, Due(q, s)', session'[s] \in {"waiting", "streaming"}
      PROVE  \E i \in 1 .. Len(Carried(s)') : Carried(s)'[i].post = q
  <2>1. Due(q, s)
    BY <1>4
  <2>2. session[s] # "new"
    BY <2>1 DEF Due, StreamsInv
  <2> QED BY <1>4, <2>1, <2>2 DEF StreamsInv
<1> QED BY <1>1, <1>2, <1>3, <1>4 DEF StreamsInv

(* An answer to a message that had none keeps every stream sound. *)
LEMMA AnswersKeepStreams ==
  ASSUME StreamsInv, ServerStateOK',
         NEW p \in Post, post[p].at # "answered",
         NEW m, NEW s \in Session \cup {"none"}, NEW body, Answer(p, m, s, body),
         s \in Session => session[s] # "new"
  PROVE  StreamsInv'
<1> DEFINE a == [post |-> p, id |-> AnswerId(m, body)]
<1>1. /\ session' = session
      /\ post' = [post EXCEPT ![p] = [at |-> "answered", message |-> m, session |-> s, body |-> body]]
  BY DEF Answer
<1>2. post'[p] = [at |-> "answered", message |-> m, session |-> s, body |-> body]
  BY <1>1 DEF StreamsInv, ServerStateOK
<1>3. \A q \in Post : q # p => post'[q] = post[q]
  BY <1>1 DEF StreamsInv, ServerStateOK
<1>4. \A r \in Session : Due(p, r)' <=> r = s /\ body # "nothing"
  BY <1>2 DEF Due
<1>5. \A q \in Post, r \in Session : q # p => (Due(q, r)' <=> Due(q, r))
  BY <1>3 DEF Due
<1>6. \A r \in Session : ~Due(p, r)
  BY DEF Due
<1>7. \A r \in Session : r \in Recipients(s) <=> r = s /\ session[r] \in {"waiting", "streaming"}
  BY DEF Recipients
<1>8. a.post = p /\ a \in Answers
  BY DEF Answers, AnswerId
<1> HIDE DEF a
<1>9. ASSUME NEW r \in Session
      PROVE  /\ \A i \in 1 .. Len(Carried(r)') : Due(Carried(r)[i].post, r)'
             /\ \A i, j \in 1 .. Len(Carried(r)') :
                  Carried(r)'[i].post = Carried(r)'[j].post => i = j
             /\ \A q \in Post :
                  Due(q, r)' /\ session'[r] \in {"waiting", "streaming"} =>
                    \E i \in 1 .. Len(Carried(r)') : Carried(r)'[i].post = q
  <2> DEFINE c == Carried(r)
  <2>1. c \in Seq(Answers)
    BY CarriedIsSequence DEF StreamsInv
  <2>2. c' = IF body # "nothing" /\ r \in Recipients(s) THEN Append(c, a) ELSE c
    BY AnsweringAppends DEF StreamsInv, a
  <2>3. ASSUME NEW i \in 1 .. Len(c)
        PROVE  \E q \in Post : q = c[i].post /\ q # p /\ Due(q, r)'
    <3>1. c[i] \in Answers
      BY <2>1
    <3>2. c[i].post \in Post
      BY <3>1 DEF Answers
    <3>3. Due(c[i].post, r)
      BY DEF StreamsInv
    <3>4. PICK q \in Post : q = c[i].post /\ Due(q, r)
      BY <3>2, <3>3
    <3> QED BY <3>4, <1>5, <1>6
  <2>4. \A i, j \in 1 .. Len(c) : c[i].post = c[j].post => i = j
    BY DEF StreamsInv
  <2>5. \A q \in Post : Due(q, r) /\ session[r] \in {"waiting", "streaming"} =>
          \E i \in 1 .. Len(c) : c[i].post = q
    BY DEF StreamsInv
  <2> HIDE DEF c
  <2>6. ASSUME body # "nothing" /\ r \in Recipients(s)
        PROVE  /\ Len(c) \in Nat
               /\ Len(c') = Len(c) + 1
               /\ c'[Len(c) + 1] = a
               /\ \A i \in 1 .. Len(c) : c'[i] = c[i]
    BY <2>1, <2>2, <2>6, <1>8
  <2>7. \A i \in 1 .. Len(c') : Due(c[i].post, r)'
    <3> SUFFICES ASSUME NEW i \in 1 .. Len(c')
                 PROVE  Due(c[i].post, r)'
      OBVIOUS
    <3>1. CASE body # "nothing" /\ r \in Recipients(s) /\ i = Len(c) + 1
      <4>1. c'[i].post = p
        BY <2>6, <3>1, <1>8
      <4>2. Due(p, r)'
        BY <1>4, <1>7, <3>1
      <4> QED BY <4>1, <4>2 DEF Due
    <3>2. CASE ~(body # "nothing" /\ r \in Recipients(s) /\ i = Len(c) + 1)
      <4>1. i \in 1 .. Len(c) /\ c'[i] = c[i]
        BY <2>2, <2>6, <3>2
      <4>2. PICK q \in Post : q = c[i].post /\ Due(q, r)'
        BY <2>3, <4>1
      <4> QED BY <4>1, <4>2 DEF Due
    <3> QED BY <3>1, <3>2
  <2>8. \A i, j \in 1 .. Len(c') : c'[i].post = c'[j].post => i = j
    <3>1. CASE body # "nothing" /\ r \in Recipients(s)
      <4>1. \A i \in 1 .. Len(c') : i \in 1 .. Len(c) \/ i = Len(c) + 1
        BY <2>6, <3>1
      <4>2. \A i \in 1 .. Len(c) : c'[i] = c[i] /\ c[i].post # p
        BY <2>6, <2>3, <3>1
      <4>3. c'[Len(c) + 1].post = p
        BY <2>6, <3>1, <1>8
      <4> QED BY <4>1, <4>2, <4>3, <2>4
    <3>2. CASE ~(body # "nothing" /\ r \in Recipients(s))
      BY <2>2, <2>4, <3>2
    <3> QED BY <3>1, <3>2
  <2>9. ASSUME NEW q \in Post, Due(q, r)', session'[r] \in {"waiting", "streaming"}
        PROVE  \E i \in 1 .. Len(c') : c'[i].post = q
    <3>1. CASE q = p
      <4>1. body # "nothing" /\ r \in Recipients(s)
        BY <1>1, <1>4, <1>7, <2>9, <3>1
      <4>2. Len(c) + 1 \in 1 .. Len(c')
        BY <2>6, <4>1
      <4> QED BY <2>6, <4>1, <4>2, <3>1, <1>8
    <3>2. CASE q # p
      <4>1. PICK i \in 1 .. Len(c) : c[i].post = q
        BY <1>1, <1>5, <2>5, <2>9, <3>2
      <4>2. i \in 1 .. Len(c') /\ c'[i] = c[i]
        BY <2>2, <2>6
      <4> QED BY <4>1, <4>2
    <3> QED BY <3>1, <3>2
  <2> QED BY <2>7, <2>8, <2>9 DEF c
<1> QED BY <1>1, <1>2, <1>3, <1>9 DEF StreamsInv

LEMMA StreamsKept == StreamsInv /\ [ServerNext]_serverVars => StreamsInv'
<1> SUFFICES ASSUME StreamsInv, [ServerNext]_serverVars
             PROVE  StreamsInv'
  OBVIOUS
<1>a. ServerStateOK /\ ServerStateOK'
  BY ServerTypesKept DEF StreamsInv
<1>1. ASSUME UNCHANGED <<sessions, post>>
      PROVE  StreamsInv'
  BY <1>a, <1>1, QuietStepsKeepStreams DEF sessions, Carried, Due
<1>2. CASE Registration
  BY <1>1, <1>2 DEF Registration
<1>3. ASSUME NEW s \in Session, OpenSession(s) \/ StartStream(s) \/ CloseStream(s)
      PROVE  StreamsInv'
  <2>1. \A r \in Session : Carried(r)' = Carried(r)
    BY <1>3 DEF OpenSession, StartStream, CloseStream, Carried
  <2>2. \A q \in Post, r \in Session : Due(q, r)' <=> Due(q, r)
    BY <1>3 DEF OpenSession, StartStream, CloseStream, Due
  <2>3. \A r \in Session : session'[r] = "new" => session[r] = "new"
    BY <1>a, <1>3 DEF OpenSession, StartStream, CloseStream, ServerStateOK
  <2>5. \A r \in Session : session'[r] \in {"waiting", "streaming"} =>
          session[r] \in {"new", "waiting", "streaming"}
    BY <1>a, <1>3 DEF OpenSession, StartStream, CloseStream, ServerStateOK
  <2>4. \A q \in Post, r \in Session : post'[q].session = r =>
          post[q].session = r \/ session'[r] # "new"
    BY <1>3 DEF OpenSession, StartStream, CloseStream
  <2> QED BY <1>a, <2>1, <2>2, <2>3, <2>4, <2>5, QuietStepsKeepStreams
<1>4. ASSUME NEW s \in Session, SendNext(s)
      PROVE  StreamsInv'
  <2>1. \A r \in Session : Carried(r)' = Carried(r)
    BY <1>a, <1>4, SendingKeepsCarried
  <2>2. session' = session /\ post' = post
    BY <1>4 DEF SendNext
  <2>3. \A q \in Post, r \in Session : Due(q, r)' <=> Due(q, r)
    BY <2>2 DEF Due
  <2> QED BY <1>a, <2>1, <2>2, <2>3, QuietStepsKeepStreams
<1>5. ASSUME NEW p \in Post, NEW m \in Messages, NEW s \in Nameable, Receive(p, m, s)
      PROVE  StreamsInv'
  <2>0. /\ s \in Session \cup {"none"}
        /\ s \in Session => session[s] # "new"
        /\ post[p].at = "new"
    BY <1>5, NameableIs DEF Receive, Reads
  <2>1. CASE post' = [post EXCEPT ![p] = [NoPost EXCEPT !.at = "running", !.message = m, !.session = s]]
              /\ UNCHANGED <<transport, sessions>>
    <3>1. session' = session /\ \A r \in Session : Carried(r)' = Carried(r)
      BY <2>1 DEF sessions, Carried
    <3>2. post'[p] = [NoPost EXCEPT !.at = "running", !.message = m, !.session = s]
      BY <1>a, <2>1 DEF ServerStateOK
    <3>3. post'[p].at = "running" /\ post'[p].session = s
      BY <3>2 DEF NoPost
    <3>4. \A q \in Post : q # p => post'[q] = post[q]
      BY <1>a, <2>1 DEF ServerStateOK
    <3>5. \A q \in Post, r \in Session : Due(q, r)' <=> Due(q, r)
      BY <2>0, <3>3, <3>4 DEF Due
    <3>6. \A q \in Post, r \in Session : post'[q].session = r =>
            post[q].session = r \/ session'[r] # "new"
      BY <2>0, <3>1, <3>3, <3>4
    <3> QED BY <1>a, <3>1, <3>5, <3>6, QuietStepsKeepStreams
  <2>2. ASSUME NEW body \in Immediate(m), Answer(p, m, s, body)
        PROVE  StreamsInv'
    BY <1>a, <2>0, <2>2, AnswersKeepStreams
  <2> QED BY <1>5, <2>1, <2>2 DEF Receive
<1>6. ASSUME NEW p \in Post, Return(p)
      PROVE  StreamsInv'
  <2>1. /\ post[p].at = "running"
        /\ \E body \in Awaited(post[p].message) :
             Answer(p, post[p].message, post[p].session, body)
    BY <1>6 DEF Return
  <2>2. PICK m, s, body : m = post[p].message /\ s = post[p].session /\ Answer(p, m, s, body)
    BY <2>1
  <2>3. s \in Session \cup {"none"} /\ (s \in Session => session[s] # "new")
    BY <1>a, <2>2 DEF ServerStateOK, StreamsInv
  <2> QED BY <1>a, <2>1, <2>2, <2>3, AnswersKeepStreams
<1>7. ASSUME NEW p \in Post, NEW t \in Reloads, CallDirectly(p, t.name)
      PROVE  StreamsInv'
  <2>1. PICK body : post' = [post EXCEPT ![p] = [NoPost EXCEPT !.at = "answered", !.body = body]]
    BY <1>7 DEF CallDirectly
  <2>2. /\ session' = session
        /\ \A r \in Session : Carried(r)' = Carried(r)
        /\ post[p].at = "new"
    BY <1>7 DEF CallDirectly, sessions, Carried
  <2>3. post'[p] = [NoPost EXCEPT !.at = "answered", !.body = body]
    BY <1>a, <2>1 DEF ServerStateOK
  <2>4. post'[p].session = "none"
    BY <2>3 DEF NoPost
  <2>5. \A q \in Post : q # p => post'[q] = post[q]
    BY <1>a, <2>1 DEF ServerStateOK
  <2>6. \A q \in Post, r \in Session : Due(q, r)' <=> Due(q, r)
    BY <2>2, <2>4, <2>5, ServerAssumption DEF Due
  <2>7. \A q \in Post, r \in Session : post'[q].session = r => post[q].session = r
    BY <2>4, <2>5, ServerAssumption
  <2> QED BY <1>a, <2>2, <2>6, <2>7, QuietStepsKeepStreams
<1>8. CASE UNCHANGED serverVars
  BY <1>1, <1>8 DEF serverVars
<1> QED BY <1>2, <1>3, <1>4, <1>5, <1>6, <1>7, <1>8 DEF ServerNext

LEMMA StreamsAtStart == ServerInit => StreamsInv
<1> SUFFICES ASSUME ServerInit PROVE StreamsInv
  OBVIOUS
<1>1. \A s \in Session : sent[s] = <<>> /\ queue[s] = <<>>
  BY DEF ServerInit
<1>2. \A s \in Session : Len(Carried(s)) = 0
  <2>1. <<>> \in Seq(Answers)
    OBVIOUS
  <2>2. Len(<<>> \o <<>>) = Len(<<>>) + Len(<<>>)
    BY <2>1, ConcatProperties
  <2>3. Len(<<>> \o <<>>) = 0
    BY <2>2
  <2> SUFFICES ASSUME NEW s \in Session PROVE Len(Carried(s)) = 0
    OBVIOUS
  <2>4. Carried(s) = <<>> \o <<>>
    BY <1>1 DEF Carried
  <2> QED BY <2>3, <2>4
<1>3. \A p \in Post : post[p].at = "new" /\ post[p].session = "none"
  BY DEF ServerInit, NoPost
<1> QED BY <1>2, <1>3, ServerTypesAtStart, ServerAssumption DEF StreamsInv, Due

(* The positions that carry an answer to one message are counted. *)
LEMMA OnceOrNot ==
  ASSUME NEW S, NEW c \in Seq(S), NEW p,
         \A i, j \in 1 .. Len(c) : c[i].post = p /\ c[j].post = p => i = j
  PROVE  Cardinality({i \in DOMAIN c : c[i].post = p}) =
           IF \E i \in 1 .. Len(c) : c[i].post = p THEN 1 ELSE 0
<1>1. DOMAIN c = 1 .. Len(c)
  OBVIOUS
<1>2. CASE \E i \in 1 .. Len(c) : c[i].post = p
  <2>1. PICK i \in 1 .. Len(c) : c[i].post = p
    BY <1>2
  <2>2. {j \in DOMAIN c : c[j].post = p} = {i}
    BY <1>1, <2>1
  <2> QED BY <1>2, <2>2, FS_Singleton
<1>3. CASE ~\E i \in 1 .. Len(c) : c[i].post = p
  <2>1. {j \in DOMAIN c : c[j].post = p} = {}
    BY <1>1, <1>3
  <2> QED BY <1>3, <2>1, FS_EmptySet
<1> QED BY <1>2, <1>3

LEMMA StreamsInvIsEnough == StreamsInv => StreamsCarryTheirAnswers
<1> SUFFICES ASSUME StreamsInv, NEW p \in Post, NEW s \in Session
             PROVE  /\ Occurrences(p, s) <= IF Due(p, s) THEN 1 ELSE 0
                    /\ Due(p, s) /\ session[s] = "streaming" => Occurrences(p, s) = 1
  BY DEF StreamsCarryTheirAnswers, Due
<1> DEFINE c == Carried(s)
<1>1. c \in Seq(Answers)
  BY CarriedIsSequence DEF StreamsInv
<1>2. \A i, j \in 1 .. Len(c) : c[i].post = p /\ c[j].post = p => i = j
  BY DEF StreamsInv
<1>3. (\E i \in 1 .. Len(c) : c[i].post = p) => Due(p, s)
  BY DEF StreamsInv
<1>4. Due(p, s) /\ session[s] = "streaming" => \E i \in 1 .. Len(c) : c[i].post = p
  BY DEF StreamsInv
<1>5. Occurrences(p, s) = Cardinality({i \in DOMAIN c : c[i].post = p})
  BY DEF Occurrences
<1> HIDE DEF c
<1>6. Occurrences(p, s) = IF \E i \in 1 .. Len(c) : c[i].post = p THEN 1 ELSE 0
  BY <1>1, <1>2, <1>5, OnceOrNot
<1> QED BY <1>3, <1>4, <1>6

(* Whatever sessions open, wait and close while handlers run, and in whatever
   order these end: a stream carries the answers to the messages posted for
   its session, each at most once, and all of them while it is open. *)
THEOREM StreamsAlwaysCarryTheirAnswers == ServerSpec => []StreamsCarryTheirAnswers
BY StreamsAtStart, StreamsKept, StreamsInvIsEnough, PTL DEF ServerSpec

-----------------------------------------------------------------------------
(* The audit trail. *)

Done == {p \in Post : post[p].at = "answered"}

(* The messages that ran tool t with outcome ok, and the entries that say so. *)
Runs(t, ok) ==
  {p \in Done : /\ post[p].message.method = "tools/call"
                /\ post[p].message.arg = t
                /\ post[p].body = IF ok THEN "content" ELSE "tool_error"}

Entries(t, ok) == {i \in DOMAIN history : history[i] = [tool |-> t, ok |-> ok]}

Asked == {m.arg : m \in Messages}

Calls == [tool : Asked, ok : BOOLEAN]

AuditInv ==
  /\ ServerStateOK
  /\ history \in Seq(Calls)
  /\ IsFiniteSet(Done)
  /\ \A t \in Asked, ok \in BOOLEAN : Cardinality(Entries(t, ok)) = Cardinality(Runs(t, ok))

Positions(h, x) == {i \in DOMAIN h : h[i] = x}

(* One entry more is one position more. *)
LEMMA EntryAdded ==
  ASSUME NEW S, NEW h \in Seq(S), NEW e \in S, NEW x
  PROVE  Cardinality(Positions(Append(h, e), x)) =
           IF e = x THEN Cardinality(Positions(h, x)) + 1 ELSE Cardinality(Positions(h, x))
<1> DEFINE old == Positions(h, x)
           g == Append(h, e)
           new == Positions(g, x)
<1>1. DOMAIN h = 1 .. Len(h) /\ Len(h) \in Nat
  OBVIOUS
<1>2. /\ DOMAIN g = 1 .. Len(h) + 1
      /\ \A i \in 1 .. Len(h) : g[i] = h[i]
      /\ g[Len(h) + 1] = e
  OBVIOUS
<1>3. IsFiniteSet(old)
  <2>1. IsFiniteSet(1 .. Len(h))
    BY <1>1, FS_Interval
  <2>2. old \subseteq 1 .. Len(h)
    BY <1>1 DEF Positions
  <2> QED BY <2>1, <2>2, FS_Subset
<1> HIDE DEF g
<1>4. CASE e = x
  <2>1. new = old \cup {Len(h) + 1}
    BY <1>1, <1>2, <1>4 DEF Positions
  <2>2. Len(h) + 1 \notin old
    BY <1>1 DEF Positions
  <2> HIDE DEF old, new
  <2>3. Cardinality(new) = Cardinality(old) + 1
    BY <1>3, <2>1, <2>2, FS_AddElement
  <2> QED BY <1>3, <1>4, <2>3 DEF old, new, g
<1>5. CASE e # x
  <2>1. new = old
    BY <1>1, <1>2, <1>5 DEF Positions
  <2> HIDE DEF old, new
  <2> QED BY <1>3, <1>5, <2>1 DEF old, new, g
<1> QED BY <1>4, <1>5

(* A call of what is not there is not answered like a run. *)
LEMMA OnlyRunsHaveOutcomes ==
  ASSUME NEW m, m.method = "tools/call"
  PROVE  Immediate(m) \subseteq {"nothing", "unknown_tool"}
BY DEF Immediate, AtOnce

(* A step that ends no run and records nothing keeps the count. *)
LEMMA OtherStepsKeepAudit ==
  ASSUME AuditInv, ServerStateOK', history' = history,
         NEW p \in Post,
         \A q \in Post : q # p => post'[q] = post[q],
         post'[p] = post[p] \/ post[p].at # "answered",
         post'[p] = post[p] \/ ~(/\ post'[p].at = "answered"
                                /\ post'[p].message.method = "tools/call"
                                /\ post'[p].body \in {"content", "tool_error"})
  PROVE  AuditInv'
<1>1. IsFiniteSet(Done')
  <2>1. Done' \subseteq Done \cup {p}
    BY DEF Done
  <2>2. IsFiniteSet(Done \cup {p})
    BY FS_AddElement DEF AuditInv
  <2> QED BY <2>1, <2>2, FS_Subset
<1>2. ASSUME NEW t \in Asked, NEW ok \in BOOLEAN
      PROVE  Cardinality(Entries(t, ok)') = Cardinality(Runs(t, ok)')
  <2>1. Runs(t, ok)' = Runs(t, ok)
    <3>1. \A q \in Post : q \in Runs(t, ok)' <=> q \in Runs(t, ok)
      <4> TAKE q \in Post
      <4>1. CASE q # p \/ post'[p] = post[p]
        BY <4>1 DEF Runs, Done
      <4>2. CASE q = p /\ post'[p] # post[p]
        BY <4>2 DEF Runs, Done
      <4> QED BY <4>1, <4>2
    <3>2. Runs(t, ok) \subseteq Post /\ Runs(t, ok)' \subseteq Post
      BY DEF Runs, Done
    <3> QED BY <3>1, <3>2
  <2>2. Entries(t, ok)' = Entries(t, ok)
    BY DEF Entries
  <2> QED BY <2>1, <2>2 DEF AuditInv
<1> QED BY <1>1, <1>2 DEF AuditInv

(* The end of a run is recorded with its outcome. *)
LEMMA RunsKeepAudit ==
  ASSUME AuditInv, ServerStateOK',
         NEW p \in Post, post[p].at # "answered",
         NEW m \in Messages, m.method = "tools/call",
         NEW body \in {"content", "tool_error"},
         \A q \in Post : q # p => post'[q] = post[q],
         post'[p].at = "answered" /\ post'[p].message = m /\ post'[p].body = body,
         history' = Audited(m.arg, body = "content")
  PROVE  AuditInv'
<1> DEFINE e == [tool |-> m.arg, ok |-> (body = "content")]
<1>1. e \in Calls /\ history' = Append(history, e)
  BY DEF Asked, Audited, Calls
<1> HIDE DEF e
<1>2. history' \in Seq(Calls)
  BY <1>1 DEF AuditInv
<1>3. IsFiniteSet(Done) /\ IsFiniteSet(Done')
  <2>1. Done' \subseteq Done \cup {p}
    BY DEF Done
  <2>2. IsFiniteSet(Done \cup {p})
    BY FS_AddElement DEF AuditInv
  <2> QED BY <2>1, <2>2, FS_Subset DEF AuditInv
<1>4. ASSUME NEW t \in Asked, NEW ok \in BOOLEAN
      PROVE  Cardinality(Entries(t, ok)') = Cardinality(Runs(t, ok)')
  <2> DEFINE x == [tool |-> t, ok |-> ok]
  <2>1. e = x <=> m.arg = t /\ ok = (body = "content")
    BY DEF e
  <2>2. Cardinality(Entries(t, ok)') =
          IF e = x THEN Cardinality(Entries(t, ok)) + 1 ELSE Cardinality(Entries(t, ok))
    <3> HIDE DEF x
    <3>1. PICK h \in Seq(Calls) : h = history
      BY DEF AuditInv
    <3>2. Cardinality(Positions(Append(h, e), x)) =
            IF e = x THEN Cardinality(Positions(h, x)) + 1 ELSE Cardinality(Positions(h, x))
      BY <1>1, EntryAdded
    <3>3. Entries(t, ok) = Positions(h, x) /\ Entries(t, ok)' = Positions(Append(h, e), x)
      BY <1>1, <3>1 DEF Entries, Positions, x
    <3> QED BY <3>2, <3>3
  <2>3. \A q \in Post : q # p => (q \in Runs(t, ok)' <=> q \in Runs(t, ok))
    BY DEF Runs, Done
  <2>4. p \notin Runs(t, ok)
    BY DEF Runs, Done
  <2>5. p \in Runs(t, ok)' <=> e = x
    <3>1. (body = IF ok THEN "content" ELSE "tool_error") <=> ok = (body = "content")
      OBVIOUS
    <3> QED BY <2>1, <3>1 DEF Runs, Done
  <2>6. Runs(t, ok) \subseteq Post /\ Runs(t, ok)' \subseteq Post
    BY DEF Runs, Done
  <2>7. IsFiniteSet(Runs(t, ok))
    <3>1. Runs(t, ok) \subseteq Done
      BY DEF Runs
    <3> QED BY <1>3, <3>1, FS_Subset
  <2>8. Cardinality(Entries(t, ok)) = Cardinality(Runs(t, ok))
    BY DEF AuditInv
  <2> HIDE DEF x
  <2>9. CASE e = x
    <3>1. Runs(t, ok)' = Runs(t, ok) \cup {p}
      BY <2>3, <2>5, <2>6, <2>9
    <3>2. Cardinality(Runs(t, ok)') = Cardinality(Runs(t, ok)) + 1
      BY <2>4, <2>7, <3>1, FS_AddElement
    <3> QED BY <2>2, <2>8, <2>9, <3>2
  <2>10. CASE e # x
    <3>1. Runs(t, ok)' = Runs(t, ok)
      BY <2>3, <2>4, <2>5, <2>6, <2>10
    <3> QED BY <2>2, <2>8, <2>10, <3>1
  <2> QED BY <2>9, <2>10
<1> QED BY <1>2, <1>3, <1>4 DEF AuditInv

LEMMA AuditKept == AuditInv /\ [ServerNext]_serverVars => AuditInv'
<1> SUFFICES ASSUME AuditInv, [ServerNext]_serverVars
             PROVE  AuditInv'
  OBVIOUS
<1>a. ServerStateOK /\ ServerStateOK'
  BY ServerTypesKept DEF AuditInv
<1>1. ASSUME UNCHANGED <<post, history>>
      PROVE  AuditInv'
  BY <1>a, <1>1 DEF AuditInv, Entries, Runs, Done
<1>2. CASE Registration
  BY <1>1, <1>2
  DEF Registration, RegisterLegacy, UnregisterLegacy, ClearLegacy, SyncMcpTools, RegisterUnified
<1>3. ASSUME NEW s \in Session, OpenSession(s) \/ StartStream(s) \/ SendNext(s) \/ CloseStream(s)
      PROVE  AuditInv'
  BY <1>1, <1>3 DEF OpenSession, StartStream, SendNext, CloseStream, registries
<1>4. ASSUME NEW p \in Post, NEW m \in Messages, NEW s \in Nameable, Receive(p, m, s)
      PROVE  AuditInv'
  <2>1. history' = history /\ post[p].at = "new"
    BY <1>4 DEF Receive, Reads, registries
  <2>2. CASE post' = [post EXCEPT ![p] = [NoPost EXCEPT !.at = "running", !.message = m, !.session = s]]
    <3>1. post'[p].at = "running"
      BY <1>a, <2>2 DEF ServerStateOK, NoPost
    <3>2. \A q \in Post : q # p => post'[q] = post[q]
      BY <1>a, <2>2 DEF ServerStateOK
    <3> QED BY <1>a, <2>1, <3>1, <3>2, OtherStepsKeepAudit
  <2>3. ASSUME NEW body \in Immediate(m), Answer(p, m, s, body)
        PROVE  AuditInv'
    <3>1. post' = [post EXCEPT ![p] = [at |-> "answered", message |-> m, session |-> s, body |-> body]]
      BY <2>3 DEF Answer
    <3>2. post'[p].message = m /\ post'[p].body = body
      BY <1>a, <3>1 DEF ServerStateOK
    <3>3. \A q \in Post : q # p => post'[q] = post[q]
      BY <1>a, <3>1 DEF ServerStateOK
    <3>4. m.method = "tools/call" => body \notin {"content", "tool_error"}
      BY OnlyRunsHaveOutcomes
    <3> QED BY <1>a, <2>1, <3>2, <3>3, <3>4, OtherStepsKeepAudit
  <2> QED BY <1>4, <2>2, <2>3 DEF Receive
<1>5. ASSUME NEW p \in Post, Return(p)
      PROVE  AuditInv'
  <2> DEFINE m == post[p].message
  <2>1. PICK body \in Awaited(m) :
          /\ Answer(p, m, post[p].session, body)
          /\ history' = IF m.method = "tools/call" THEN Audited(m.arg, body = "content") ELSE history
    BY <1>5 DEF Return
  <2>2. post[p].at = "running"
    BY <1>5 DEF Return
  <2>3. post'[p].at = "answered" /\ post'[p].message = m /\ post'[p].body = body
    BY <1>a, <2>1 DEF ServerStateOK, Answer
  <2>4. \A q \in Post : q # p => post'[q] = post[q]
    BY <1>a, <2>1 DEF ServerStateOK, Answer
  <2>5. PICK c \in Messages \cup {NoPost.message} : c = m
    BY <1>a DEF ServerStateOK
  <2>6. CASE m.method = "tools/call"
    <3>1. c \in Messages
      BY <2>5, <2>6 DEF NoPost
    <3>2. body \in {"content", "tool_error"}
      BY <2>6 DEF Awaited
    <3>3. history' = Audited(c.arg, body = "content") /\ c.method = "tools/call"
      BY <2>1, <2>5, <2>6
    <3>4. post'[p].at = "answered" /\ post'[p].message = c /\ post'[p].body = body
      BY <2>3, <2>5
    <3> QED BY <1>a, <2>2, <2>4, <3>1, <3>2, <3>3, <3>4, RunsKeepAudit
  <2>7. CASE m.method # "tools/call"
    <3>1. history' = history /\ post'[p].message.method # "tools/call"
      BY <2>1, <2>3, <2>7
    <3> QED BY <1>a, <2>2, <2>4, <3>1, OtherStepsKeepAudit
  <2> QED BY <2>6, <2>7
<1>6. ASSUME NEW p \in Post, NEW t \in Reloads, CallDirectly(p, t.name)
      PROVE  AuditInv'
  <2>1. PICK body : post' = [post EXCEPT ![p] = [NoPost EXCEPT !.at = "answered", !.body = body]]
    BY <1>6 DEF CallDirectly
  <2>2. history' = history /\ post[p].at = "new"
    BY <1>6 DEF CallDirectly, registries
  <2>3. post'[p].message.method = "none"
    BY <1>a, <2>1 DEF ServerStateOK, NoPost
  <2>4. \A q \in Post : q # p => post'[q] = post[q]
    BY <1>a, <2>1 DEF ServerStateOK
  <2> QED BY <1>a, <2>2, <2>3, <2>4, OtherStepsKeepAudit
<1>7. CASE UNCHANGED serverVars
  BY <1>1, <1>7 DEF serverVars, registries
<1> QED BY <1>2, <1>3, <1>4, <1>5, <1>6, <1>7 DEF ServerNext

LEMMA AuditAtStart == ServerInit => AuditInv
<1> SUFFICES ASSUME ServerInit PROVE AuditInv
  OBVIOUS
<1>1. history = <<>> /\ \A p \in Post : post[p].at = "new"
  BY DEF ServerInit, NoPost
<1>2. Done = {}
  BY <1>1 DEF Done
<1>3. \A t, ok : Runs(t, ok) = {} /\ Entries(t, ok) = {}
  BY <1>1, <1>2 DEF Runs, Entries
<1>4. ServerStateOK
  BY ServerTypesAtStart
<1>5. IsFiniteSet(Done)
  BY <1>2, FS_EmptySet
<1>6. history \in Seq(Calls)
  BY <1>1
<1> QED BY <1>3, <1>4, <1>5, <1>6 DEF AuditInv

LEMMA AuditInvIsEnough == AuditInv => EveryRunIsAudited
<1> SUFFICES ASSUME AuditInv, NEW t \in Names(unified), NEW ok \in BOOLEAN
             PROVE  Cardinality(Entries(t, ok)) = Cardinality(Runs(t, ok))
  BY DEF EveryRunIsAudited, Entries, Runs, Done
<1>1. CASE t \in Asked
  BY <1>1 DEF AuditInv
<1>2. CASE t \notin Asked
  <2>1. Entries(t, ok) = {}
    <3>1. \A i \in DOMAIN history : history[i] \in Calls
      BY DEF AuditInv
    <3> QED BY <1>2, <3>1 DEF Entries, Calls
  <2>2. Runs(t, ok) = {}
    <3>1. \A p \in Post : post[p].message \in Messages \cup {NoPost.message}
      BY DEF AuditInv, ServerStateOK
    <3> QED BY <1>2, <3>1 DEF Runs, Done, Asked, NoPost
  <2> QED BY <2>1, <2>2
<1> QED BY <1>1, <1>2

(* However the runs of the tools overlap, the audit trail holds one entry for
   each that has ended, with its outcome, and no others. *)
THEOREM RunsAlwaysAudited == ServerSpec => []EveryRunIsAudited
BY AuditAtStart, AuditKept, AuditInvIsEnough, PTL DEF ServerSpec
=============================================================================
