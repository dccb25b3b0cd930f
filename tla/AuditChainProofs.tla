--------------------------- MODULE AuditChainProofs ---------------------------
(***************************************************************************)
(* Proofs about the audit chain for any writers, failure points and number *)
(* of events.  The inductive invariant adds to LinksLeadBack that the last *)
(* hash, and every copy of it a writer still holds, is an indexed event.   *)
(***************************************************************************)
EXTENDS AuditChain, TLAPS

Writing == {"created", "stored", "indexed"}

\* h is absent or the hash of an indexed event.
Anchored(h) == h # 0 => h \in Created /\ In(h, index)

HashesAnchored ==
  /\ Anchored(lastHash)
  /\ \A w \in Writer : Anchored(writer[w].seen)

WritersOwnEvents ==
  \A w \in Writer :
    /\ writer[w].pc \in Writing => writer[w].id \in Created
    /\ writer[w].pc = "indexed" => In(writer[w].id, index)

IInv == TypeOK /\ HashesAnchored /\ WritersOwnEvents /\ LinksLeadBack

LEMMA InAppend ==
  ASSUME NEW s \in Seq(Hash), NEW e \in Hash, NEW i
  PROVE  /\ In(i, s) => In(i, Append(s, e))
         /\ In(e, Append(s, e))
<1>1. /\ Len(Append(s, e)) = Len(s) + 1
      /\ Len(s) \in Nat
      /\ Append(s, e)[Len(s) + 1] = e
      /\ \A k \in 1 .. Len(s) : Append(s, e)[k] = s[k]
  OBVIOUS
<1>2. In(i, s) => In(i, Append(s, e))
  BY <1>1 DEF In
<1>3. In(e, Append(s, e))
  <2>1. Len(s) + 1 \in 1 .. Len(Append(s, e))
    BY <1>1
  <2> QED BY <1>1, <2>1 DEF In
<1> QED BY <1>2, <1>3

LEMMA InitIInv == Init => IInv
BY AuditAssumption
DEF Init, IInv, TypeOK, HashesAnchored, Anchored, WritersOwnEvents, Writing,
    LinksLeadBack, Created, Idle, WriterState, Hash

(* Type correctness is inductive by itself. *)
LEMMA NextTypeOK == TypeOK /\ [Next]_vars => TypeOK'
<1> SUFFICES ASSUME TypeOK, [Next]_vars PROVE TypeOK'
  OBVIOUS
<1> USE AuditAssumption DEF TypeOK, WriterState, Hash, Steps
<1>1. ASSUME NEW w \in Writer, ReadLast(w) PROVE TypeOK'
  BY <1>1 DEF ReadLast
<1>2. ASSUME NEW w \in Writer, CreateEvent(w) PROVE TypeOK'
  <2>1. Len(prev) \in Nat /\ Len(prev) + 1 \in Hash /\ writer[w].seen \in Hash
    BY <1>2 DEF CreateEvent
  <2>2. prev' \in Seq(Hash) /\ Len(prev') <= MaxEvents
    BY <1>2, <2>1 DEF CreateEvent
  <2> QED BY <1>2, <2>1, <2>2 DEF CreateEvent
<1>3. ASSUME NEW w \in Writer, StoreEvent(w) PROVE TypeOK'
  <2>1. writer[w].id \in Hash /\ writer' \in [Writer -> WriterState]
    BY <1>3 DEF StoreEvent
  <2>2. alive' \in Seq(Hash)
    BY <1>3, <2>1 DEF StoreEvent
  <2> QED BY <1>3, <2>1, <2>2 DEF StoreEvent
<1>4. ASSUME NEW w \in Writer, IndexEvent(w) PROVE TypeOK'
  <2>1. writer[w].id \in Hash /\ writer' \in [Writer -> WriterState]
    BY <1>4 DEF IndexEvent
  <2>2. index' \in Seq(Hash)
    BY <1>4, <2>1 DEF IndexEvent
  <2> QED BY <1>4, <2>1, <2>2 DEF IndexEvent
<1>5. ASSUME NEW w \in Writer, SetLast(w) PROVE TypeOK'
  BY <1>5 DEF SetLast, Idle
<1>6. ASSUME NEW w \in Writer, Fail(w) PROVE TypeOK'
  BY <1>6 DEF Fail, Idle
<1>7. CASE ExpireEvent
  BY <1>7 DEF ExpireEvent
<1>8. CASE UNCHANGED vars
  BY <1>8 DEF vars
<1> QED
  BY <1>1, <1>2, <1>3, <1>4, <1>5, <1>6, <1>7, <1>8 DEF Next, LogStep

(* The inductive step for the rest: one case per command of log_event. *)
LEMMA NextIInv == IInv /\ [Next]_vars => IInv'
<1> SUFFICES ASSUME IInv, [Next]_vars PROVE IInv'
  OBVIOUS
<1>0. TypeOK /\ TypeOK'
  BY NextTypeOK DEF IInv
<1>len. Len(prev) \in Nat /\ Len(prev') \in Nat
  BY <1>0 DEF TypeOK
<1> USE DEF HashesAnchored, Anchored, WritersOwnEvents, Writing,
            LinksLeadBack, Created
<1>1. ASSUME NEW w \in Writer, ReadLast(w) PROVE IInv'
  BY <1>0, <1>1 DEF IInv, TypeOK, WriterState, ReadLast
<1>2. ASSUME NEW w \in Writer, CreateEvent(w) PROVE IInv'
  <2>1. /\ Len(prev') = Len(prev) + 1
        /\ prev'[Len(prev) + 1] = writer[w].seen
        /\ \A i \in 1 .. Len(prev) : prev'[i] = prev[i]
        /\ UNCHANGED <<alive, index, lastHash>>
    BY <1>0, <1>2 DEF TypeOK, WriterState, CreateEvent
  <2>2. \A v \in Writer : writer'[v].seen = writer[v].seen
    BY <1>0, <1>2 DEF TypeOK, WriterState, CreateEvent
  <2>3. HashesAnchored'
    BY <1>len, <2>1, <2>2 DEF IInv, In
  <2>4. WritersOwnEvents'
    BY <1>0, <1>2, <1>len, <2>1 DEF IInv, TypeOK, WriterState, CreateEvent, In
  <2>5. LinksLeadBack'
    <3> SUFFICES ASSUME NEW i \in 1 .. Len(prev'), prev'[i] # 0
                 PROVE  prev'[i] < i /\ In(prev'[i], index)
      BY <2>1 DEF In
    <3>1. CASE i = Len(prev) + 1
      BY <1>len, <2>1, <3>1 DEF IInv
    <3>2. CASE i \in 1 .. Len(prev)
      BY <2>1, <3>2 DEF IInv
    <3> QED BY <1>len, <2>1, <3>1, <3>2
  <2> QED BY <1>0, <2>3, <2>4, <2>5 DEF IInv
<1>3. ASSUME NEW w \in Writer, StoreEvent(w) PROVE IInv'
  BY <1>0, <1>3 DEF IInv, TypeOK, WriterState, StoreEvent, In
<1>4. ASSUME NEW w \in Writer, IndexEvent(w) PROVE IInv'
  <2>1. /\ index' = Append(index, writer[w].id)
        /\ index \in Seq(Hash) /\ writer[w].id \in Hash
        /\ UNCHANGED <<prev, alive, lastHash>>
        /\ writer' = [writer EXCEPT ![w].pc = "indexed"]
    BY <1>0, <1>4 DEF TypeOK, WriterState, IndexEvent
  <2>2. \A i : In(i, index) => In(i, index')
    BY <2>1, InAppend
  <2>3. In(writer[w].id, index')
    BY <2>1, InAppend
  <2>4. HashesAnchored'
    BY <1>0, <2>1, <2>2 DEF IInv, TypeOK, WriterState
  <2>5. writer[w].id \in Created
    BY <1>4 DEF IInv, IndexEvent
  <2>6. WritersOwnEvents'
    BY <1>0, <2>1, <2>2, <2>3, <2>5 DEF IInv, TypeOK, WriterState
  <2>7. LinksLeadBack'
    BY <2>1, <2>2 DEF IInv
  <2> QED BY <1>0, <2>4, <2>6, <2>7 DEF IInv
<1>5. ASSUME NEW w \in Writer, SetLast(w) PROVE IInv'
  <2>1. writer[w].id \in Created /\ In(writer[w].id, index)
    BY <1>5 DEF IInv, SetLast
  <2> QED BY <1>0, <1>5, <2>1 DEF IInv, TypeOK, WriterState, SetLast, Idle, In
<1>6. ASSUME NEW w \in Writer, Fail(w) PROVE IInv'
  BY <1>0, <1>6 DEF IInv, TypeOK, WriterState, Fail, Idle, In
<1>7. CASE ExpireEvent
  BY <1>0, <1>7 DEF IInv, ExpireEvent, In
<1>8. CASE UNCHANGED vars
  BY <1>0, <1>8 DEF IInv, vars, In
<1> QED
  BY <1>1, <1>2, <1>3, <1>4, <1>5, <1>6, <1>7, <1>8 DEF Next, LogStep

(* Type correctness of the audit trail. *)
THEOREM TypeCorrect == Spec => []TypeOK
<1>1. IInv => TypeOK
  BY DEF IInv
<1> QED BY <1>1, InitIInv, NextIInv, PTL DEF Spec

(* Whatever writers overlap or fail, an event's link leads to an older event
   of the same incident's index. *)
THEOREM LinksAlwaysLeadBack == Spec => []LinksLeadBack
<1>1. IInv => LinksLeadBack
  BY DEF IInv
<1> QED BY <1>1, InitIInv, NextIInv, PTL DEF Spec

-----------------------------------------------------------------------------
(***************************************************************************)
(* A single writer.  Its calls follow one another, so the index is a list  *)
(* of increasing event numbers in which each event links to the one before *)
(* and the last hash lags behind only between LPUSH and SET.  Stored       *)
(* events expire oldest first, so what is alive of the index is its tail.  *)
(***************************************************************************)
IndexIsChain ==
  /\ \A k, l \in 1 .. Len(index) : k < l => index[k] < index[l]
  /\ \A k \in 1 .. Len(index) : index[k] \in Created
  /\ \A k \in 1 .. Len(index) : k # 1 => prev[index[k]] = index[k - 1]

\* The hash of the newest indexed event.
Newest == IF Len(index) = 0 THEN 0 ELSE index[Len(index)]

WriterInStep(w) ==
  LET s == writer[w] IN
  /\ s.pc # "indexed" => lastHash = Newest
  /\ s.pc \in {"read", "created", "stored"} => s.seen = lastHash
  /\ s.pc \in {"created", "stored"} =>
       /\ s.id \in Created /\ prev[s.id] = s.seen
       /\ \A k \in 1 .. Len(index) : index[k] < s.id
  /\ s.pc = "created" => \A k \in 1 .. Len(alive) : alive[k] < s.id
  /\ s.pc = "stored" => In(s.id, alive)
  /\ s.pc = "indexed" => s.id = Newest

AliveIsTail ==
  /\ \A k, l \in 1 .. Len(alive) : k < l => alive[k] < alive[l]
  /\ \A k \in 1 .. Len(alive) : alive[k] \in Created
  /\ \A k, l \in 1 .. Len(index) :
       k < l /\ In(index[k], alive) => In(index[l], alive)

SInv(w) == TypeOK /\ IndexIsChain /\ WriterInStep(w) /\ AliveIsTail

(* If the index is a chain and what is alive of it its tail, the events
   verify_chain reads are consecutive, so each links to the one before. *)
LEMMA TailVerifies ==
  ASSUME TypeOK, IndexIsChain,
         \A k, l \in 1 .. Len(index) : k < l /\ In(index[k], alive) => In(index[l], alive)
  PROVE  VerifyChain
<1> USE DEF IndexIsChain
<1>0. Len(index) \in Nat /\ Len(prev) \in Nat
  BY DEF TypeOK
<1> SUFFICES ASSUME NEW i \in EventsRead, NEW j \in EventsRead, i < j,
                    \A k \in EventsRead : k <= i \/ j <= k
             PROVE  prev[j] = i
  BY DEF VerifyChain
<1>1. PICK a \in 1 .. Len(index) : index[a] = i /\ a + Limit > Len(index)
  BY DEF EventsRead
<1>2. PICK b \in 1 .. Len(index) : index[b] = j /\ b + Limit > Len(index)
  BY DEF EventsRead
<1>3. a < b
  <2>1. i \in Nat /\ j \in Nat
    BY <1>0 DEF EventsRead, Created
  <2>2. a = b \/ b < a \/ a < b
    BY <1>0
  <2> QED BY <1>1, <1>2, <2>1, <2>2
<1>4. a + 1 = b
  <2> SUFFICES ASSUME a + 1 < b PROVE FALSE
    BY <1>0, <1>3
  <2> DEFINE m == index[a + 1]
  <2>1. a + 1 \in 1 .. Len(index)
    BY <1>0
  <2>2. i < m /\ m < j
    BY <1>1, <1>2, <2>1
  <2>3. In(m, alive)
    BY <1>1, <2>1 DEF EventsRead
  <2>4. m \in EventsRead
    <3>1. a + 1 + Limit > Len(index)
      BY <1>0, <1>1, AuditAssumption
    <3> QED BY <2>1, <2>3, <3>1 DEF EventsRead
  <2>5. m \in Nat /\ i \in Nat /\ j \in Nat
    BY <2>4, <1>0 DEF EventsRead, Created
  <2> QED BY <2>2, <2>4, <2>5
<1>5. b # 1 /\ b - 1 = a
  BY <1>0, <1>4
<1> QED BY <1>1, <1>2, <1>5

LEMMA InitSInv == ASSUME NEW w \in Writer PROVE Init => SInv(w)
<1> SUFFICES ASSUME Init PROVE SInv(w)
  OBVIOUS
<1>1. TypeOK
  BY InitIInv DEF IInv
<1> QED
  BY <1>1
  DEF SInv, Init, IndexIsChain, AliveIsTail, WriterInStep, Newest, Idle, In

(* The inductive step, for the one writer there is. *)
LEMMA NextSInv ==
  ASSUME NEW w \in Writer, Writer = {w}, "indexed" \notin FailAt,
         SInv(w), [Next]_vars
  PROVE  SInv(w)'
<1>0. TypeOK /\ TypeOK'
  BY NextTypeOK DEF SInv
<1>len. /\ Len(prev) \in Nat /\ Len(index) \in Nat /\ Len(alive) \in Nat
        /\ \A i \in 1 .. Len(index) : index[i] \in Nat
        /\ \A i \in 1 .. Len(alive) : alive[i] \in Nat
        /\ writer[w] \in WriterState
  BY <1>0, AuditAssumption DEF TypeOK, Hash
<1> USE DEF IndexIsChain, AliveIsTail, WriterInStep, Newest, Created
<1>1. CASE ReadLast(w)
  <2>1. writer'[w].pc = "read" /\ writer'[w].seen = lastHash
    BY <1>0, <1>1 DEF TypeOK, ReadLast
  <2> QED BY <1>0, <1>1, <2>1 DEF SInv, ReadLast, In
<1>2. CASE CreateEvent(w)
  <2>1. /\ Len(prev') = Len(prev) + 1
        /\ prev'[Len(prev) + 1] = writer[w].seen
        /\ \A i \in 1 .. Len(prev) : prev'[i] = prev[i]
        /\ UNCHANGED <<alive, index, lastHash>>
    BY <1>0, <1>2 DEF TypeOK, WriterState, CreateEvent
  <2>2. /\ writer[w].pc = "read"
        /\ writer'[w].pc = "created" /\ writer'[w].seen = writer[w].seen
        /\ writer'[w].id = Len(prev) + 1
    BY <1>0, <1>2 DEF TypeOK, CreateEvent
  <2>3. IndexIsChain'
    <3>1. \A k \in 1 .. Len(index) : prev'[index[k]] = prev[index[k]]
      BY <2>1 DEF SInv
    <3> QED BY <1>len, <2>1, <3>1 DEF SInv
  <2>4. AliveIsTail'
    BY <1>len, <2>1 DEF SInv, In
  <2>5. WriterInStep(w)'
    BY <1>len, <2>1, <2>2 DEF SInv
  <2> QED BY <1>0, <2>3, <2>4, <2>5 DEF SInv
<1>3. CASE StoreEvent(w)
  <2> DEFINE e == writer[w].id
  <2>1. /\ e \in Hash /\ alive \in Seq(Hash)
        /\ alive' = Append(alive, e)
        /\ UNCHANGED <<prev, index, lastHash>>
    BY <1>0, <1>3 DEF TypeOK, WriterState, StoreEvent
  <2>2. /\ writer[w].pc = "created" /\ writer'[w].pc = "stored"
        /\ writer'[w].seen = writer[w].seen /\ writer'[w].id = e
    BY <1>0, <1>3 DEF TypeOK, WriterState, StoreEvent
  <2>3. /\ Len(alive') = Len(alive) + 1
        /\ alive'[Len(alive) + 1] = e
        /\ \A k \in 1 .. Len(alive) : alive'[k] = alive[k]
    BY <2>1
  <2>4. \A i : In(i, alive) => In(i, alive')
    BY <2>1, InAppend
  <2>5. In(e, alive')
    BY <2>1, InAppend
  <2>6. e \in Created /\ \A k \in 1 .. Len(index) : index[k] < e
    BY <2>2 DEF SInv
  <2>7. \A k \in 1 .. Len(alive) : alive[k] < e
    BY <2>2 DEF SInv
  <2>8. \A k \in 1 .. Len(index) : In(index[k], alive') => In(index[k], alive)
    <3> SUFFICES ASSUME NEW k \in 1 .. Len(index),
                        NEW m \in 1 .. Len(alive'), alive'[m] = index[k]
                 PROVE  In(index[k], alive)
      BY DEF In
    <3>1. m # Len(alive) + 1
      BY <1>len, <2>3, <2>6
    <3>2. m \in 1 .. Len(alive)
      BY <1>len, <2>3, <3>1
    <3> QED BY <2>3, <3>2 DEF In
  <2>9. AliveIsTail'
    <3>1. \A k, l \in 1 .. Len(alive') : k < l => alive'[k] < alive'[l]
      BY <1>len, <2>3, <2>7 DEF SInv
    <3>2. \A k \in 1 .. Len(alive') : alive'[k] \in 1 .. Len(prev')
      BY <1>len, <2>1, <2>3, <2>6 DEF SInv
    <3>3. \A k, l \in 1 .. Len(index) :
            k < l /\ In(index[k], alive') => In(index[l], alive')
      BY <2>4, <2>8 DEF SInv
    <3> QED BY <2>1, <3>1, <3>2, <3>3
  <2>10. IndexIsChain'
    BY <2>1 DEF SInv
  <2>11. WriterInStep(w)'
    BY <2>1, <2>2, <2>5 DEF SInv
  <2> QED BY <1>0, <2>9, <2>10, <2>11 DEF SInv
<1>4. CASE IndexEvent(w)
  <2> DEFINE e == writer[w].id
             n == Len(index) + 1
  <2>1. /\ e \in Hash /\ index \in Seq(Hash)
        /\ index' = Append(index, e)
        /\ UNCHANGED <<prev, alive, lastHash>>
    BY <1>0, <1>4 DEF TypeOK, WriterState, IndexEvent
  <2>2. /\ writer[w].pc = "stored" /\ writer'[w].pc = "indexed"
        /\ writer'[w].id = e
    BY <1>0, <1>4 DEF TypeOK, WriterState, IndexEvent
  <2>3. /\ Len(index') = n /\ index'[n] = e
        /\ \A k \in 1 .. Len(index) : index'[k] = index[k]
    BY <2>1
  <2>4. /\ e \in 1 .. Len(prev) /\ In(e, alive)
        /\ prev[e] = Newest
        /\ \A k \in 1 .. Len(index) : index[k] < e
    BY <2>2 DEF SInv
  <2>5. IndexIsChain'
    <3>1. ASSUME NEW k \in 1 .. Len(index'), NEW l \in 1 .. Len(index'), k < l
          PROVE  index'[k] < index'[l]
      <4>1. k \in 1 .. Len(index)
        BY <1>len, <2>3, <3>1
      <4>2. CASE l = n
        BY <2>3, <2>4, <4>1, <4>2
      <4>3. CASE l # n
        <5>1. l \in 1 .. Len(index)
          BY <1>len, <2>3, <4>3
        <5> QED BY <2>3, <3>1, <4>1, <5>1 DEF SInv
      <4> QED BY <4>2, <4>3
    <3>2. \A k \in 1 .. Len(index') : index'[k] \in 1 .. Len(prev')
      BY <1>len, <2>1, <2>3, <2>4 DEF SInv
    <3>3. ASSUME NEW k \in 1 .. Len(index'), k # 1
          PROVE  prev'[index'[k]] = index'[k - 1]
      <4>1. CASE k = n
        <5>1. k - 1 = Len(index) /\ Len(index) # 0
          BY <1>len, <3>3, <4>1
        <5>2. index'[k - 1] = index[Len(index)]
          BY <1>len, <2>3, <5>1
        <5>3. index'[k] = e /\ prev'[e] = index[Len(index)]
          BY <2>1, <2>3, <2>4, <4>1, <5>1
        <5> QED BY <5>2, <5>3
      <4>2. CASE k # n
        <5>1. k \in 1 .. Len(index) /\ k - 1 \in 1 .. Len(index)
          BY <1>len, <2>3, <3>3, <4>2
        <5> QED BY <2>1, <2>3, <3>3, <5>1 DEF SInv
      <4> QED BY <4>1, <4>2
    <3> QED BY <3>1, <3>2, <3>3
  <2>6. AliveIsTail'
    <3>1. ASSUME NEW k \in 1 .. Len(index'), NEW l \in 1 .. Len(index'),
                 k < l, In(index'[k], alive)
          PROVE  In(index'[l], alive)
      <4>1. CASE l = n
        BY <2>3, <2>4, <4>1
      <4>2. CASE l # n
        <5>1. k \in 1 .. Len(index) /\ l \in 1 .. Len(index)
          BY <1>len, <2>3, <3>1, <4>2
        <5> QED BY <2>3, <3>1, <5>1 DEF SInv
      <4> QED BY <4>1, <4>2
    <3> QED BY <2>1, <3>1 DEF SInv, In
  <2>7. WriterInStep(w)'
    BY <1>len, <2>2, <2>3
  <2> QED BY <1>0, <2>5, <2>6, <2>7 DEF SInv
<1>5. CASE SetLast(w)
  <2>1. writer'[w].pc = "idle" /\ lastHash' = writer[w].id
    BY <1>0, <1>5 DEF TypeOK, SetLast, Idle
  <2>2. writer[w].id = Newest /\ UNCHANGED <<prev, alive, index>>
    BY <1>5 DEF SInv, SetLast
  <2>3. IndexIsChain' /\ AliveIsTail'
    BY <2>2 DEF SInv, In
  <2>4. WriterInStep(w)'
    BY <2>1, <2>2
  <2> QED BY <1>0, <2>3, <2>4 DEF SInv
<1>6. CASE Fail(w)
  <2>1. writer'[w].pc = "idle" /\ writer[w].pc # "indexed"
    BY <1>0, <1>6 DEF TypeOK, Fail, Idle
  <2> QED BY <1>0, <1>6, <2>1 DEF SInv, Fail, In
<1>7. CASE ExpireEvent
  <2>1. /\ alive \in Seq(Hash) /\ alive # <<>> /\ alive' = Tail(alive)
        /\ writer[w].id # alive[1]
        /\ UNCHANGED <<prev, index, lastHash, writer>>
    BY <1>0, <1>7 DEF TypeOK, ExpireEvent
  <2>2. /\ Len(alive') = Len(alive) - 1 /\ Len(alive) # 0
        /\ \A k \in 1 .. Len(alive') : alive'[k] = alive[k + 1]
    BY <2>1
  <2>3. \A i : In(i, alive') => In(i, alive)
    BY <1>len, <2>2 DEF In
  <2>4. \A i : In(i, alive) /\ i # alive[1] => In(i, alive')
    <3> SUFFICES ASSUME NEW k \in 1 .. Len(alive), alive[k] # alive[1]
                 PROVE  In(alive[k], alive')
      BY DEF In
    <3>1. k - 1 \in 1 .. Len(alive') /\ alive'[k - 1] = alive[k]
      BY <1>len, <2>2
    <3> QED BY <3>1 DEF In
  <2>5. \A i : In(i, alive') => i \in Nat /\ alive[1] < i
    BY <1>len, <2>2 DEF SInv, In
  <2>6. AliveIsTail'
    <3>1. ASSUME NEW k \in 1 .. Len(index), NEW l \in 1 .. Len(index),
                 k < l, In(index[k], alive')
          PROVE  In(index[l], alive')
      <4>1. alive[1] < index[k] /\ index[k] < index[l] /\ In(index[l], alive)
        BY <2>3, <2>5, <3>1 DEF SInv
      <4>2. index[l] # alive[1]
        BY <1>len, <2>2, <4>1
      <4> QED BY <2>4, <4>1, <4>2
    <3>2. ASSUME NEW k \in 1 .. Len(alive'), NEW l \in 1 .. Len(alive'), k < l
          PROVE  alive'[k] < alive'[l]
      <4>1. k + 1 \in 1 .. Len(alive) /\ l + 1 \in 1 .. Len(alive)
              /\ k + 1 < l + 1
        BY <1>len, <2>2, <3>2
      <4> QED BY <2>2, <4>1 DEF SInv
    <3>3. \A k \in 1 .. Len(alive') : alive'[k] \in 1 .. Len(prev)
      BY <1>len, <2>2 DEF SInv
    <3> QED BY <2>1, <3>1, <3>2, <3>3
  <2>7. WriterInStep(w)'
    BY <1>len, <2>1, <2>2, <2>4 DEF SInv
  <2> QED BY <1>0, <2>1, <2>6, <2>7 DEF SInv
<1>8. CASE UNCHANGED vars
  BY <1>0, <1>8 DEF SInv, vars, In
<1> QED
  BY <1>1, <1>2, <1>3, <1>4, <1>5, <1>6, <1>7, <1>8 DEF Next, LogStep

(* With one writer that does not die between LPUSH and SET, verify_chain is
   true in every state: for any number of events, however many of them have
   expired and whatever the limit it reads. *)
THEOREM SingleWriterVerifies ==
  ASSUME NEW w \in Writer, Writer = {w}, "indexed" \notin FailAt
  PROVE  Spec => []ChainVerifies
<1>1. Init => SInv(w)
  BY InitSInv
<1>2. SInv(w) /\ [Next]_vars => SInv(w)'
  BY NextSInv
<1>3. SInv(w) => ChainVerifies
  BY TailVerifies DEF ChainVerifies, SInv, AliveIsTail
<1> QED BY <1>1, <1>2, <1>3, PTL DEF Spec
-----------------------------------------------------------------------------
(***************************************************************************)
(* Any number of writers that may fail anywhere.  As long as no two        *)
(* indexed events share their predecessor, the events still line up: an    *)
(* event is stored and indexed after the one it links to, since that one's *)
(* hash is only there to be read once it is indexed; and expiry takes the  *)
(* stored events in the same order.                                        *)
(***************************************************************************)
Listed ==
  /\ \A k \in 1 .. Len(index) : index[k] \in Created
  /\ \A k \in 1 .. Len(alive) : alive[k] \in Created

\* An event is one writer's, and not indexed before that writer does it.
OwnersDiffer ==
  \A v, w \in Writer :
    v # w /\ writer[v].pc \in Writing /\ writer[w].pc \in Writing => writer[v].id # writer[w].id

FreshIsUnindexed ==
  \A w \in Writer : writer[w].pc \in {"created", "stored"} => ~In(writer[w].id, index)

AliveInLinkOrder ==
  \A p, q \in 1 .. Len(alive) : alive[p] = prev[alive[q]] => p < q

\* What a writer has stored does not expire before the event it links to.
StoredOutlives ==
  \A w \in Writer : writer[w].pc = "stored" /\ In(prev[writer[w].id], alive) => In(writer[w].id, alive)

NoFork ==
  \A i, j \in Created : In(i, index) /\ In(j, index) /\ prev[i] = prev[j] => i = j

FirstIsRoot == Len(index) > 0 => prev[index[1]] = 0

TailIsAlive ==
  \A k, l \in 1 .. Len(index) : k < l /\ In(index[k], alive) => In(index[l], alive)

AliveInIndexOrder ==
  \A k, l \in 1 .. Len(index) : \A p, q \in 1 .. Len(alive) :
    k < l /\ alive[p] = index[k] /\ alive[q] = index[l] => p < q

LinedUp == IndexIsChain /\ FirstIsRoot /\ TailIsAlive /\ AliveInIndexOrder

FInv ==
  /\ IInv /\ Listed /\ OwnersDiffer /\ FreshIsUnindexed
  /\ AliveInLinkOrder /\ StoredOutlives
  /\ NoFork => LinedUp

LEMMA InitFInv == Init => FInv
<1> SUFFICES ASSUME Init PROVE FInv
  OBVIOUS
<1>1. IInv
  BY InitIInv
<1>2. Listed /\ OwnersDiffer /\ FreshIsUnindexed /\ AliveInLinkOrder /\ StoredOutlives
  BY DEF Init, Listed, OwnersDiffer, FreshIsUnindexed, AliveInLinkOrder, StoredOutlives, Writing, Idle
<1>3. LinedUp
  BY DEF Init, LinedUp, IndexIsChain, FirstIsRoot, TailIsAlive, AliveInIndexOrder
<1> QED BY <1>1, <1>2, <1>3 DEF FInv

LEMMA Lengths ==
  ASSUME TypeOK
  PROVE  /\ Len(prev) \in Nat /\ Len(index) \in Nat /\ Len(alive) \in Nat
         /\ prev \in Seq(Hash) /\ index \in Seq(Hash) /\ alive \in Seq(Hash)
         /\ \A w \in Writer : writer[w] \in WriterState
BY DEF TypeOK

\* The parts of FInv that are about writers; the prefixes of the lists stay.
LEMMA NextOwners ==
  FInv /\ [Next]_vars => Listed' /\ OwnersDiffer' /\ FreshIsUnindexed'
<1> SUFFICES ASSUME FInv, [Next]_vars PROVE Listed' /\ OwnersDiffer' /\ FreshIsUnindexed'
  OBVIOUS
<1>0. IInv /\ TypeOK /\ WritersOwnEvents /\ Listed /\ OwnersDiffer /\ FreshIsUnindexed
  BY DEF FInv, IInv
<1>len. /\ Len(prev) \in Nat /\ Len(index) \in Nat /\ Len(alive) \in Nat
        /\ \A w \in Writer : writer[w] \in WriterState
  BY <1>0, Lengths
<1> USE DEF Writing, Created
<1>1. ASSUME NEW w \in Writer, UNCHANGED <<prev, alive, index>>,
             \A v \in Writer : v # w => writer'[v] = writer[v],
             \/ writer'[w].pc \in {"idle", "read"}
             \/ writer[w].pc \in Writing /\ writer'[w].pc = "indexed" /\ writer'[w].id = writer[w].id
      PROVE  Listed' /\ OwnersDiffer' /\ FreshIsUnindexed'
  <2>1. Listed'
    BY <1>0, <1>1 DEF Listed
  <2>2. OwnersDiffer'
    BY <1>0, <1>1 DEF OwnersDiffer
  <2>3. FreshIsUnindexed'
    BY <1>0, <1>1 DEF FreshIsUnindexed, In
  <2> QED BY <2>1, <2>2, <2>3
<1>2. ASSUME NEW w \in Writer, ReadLast(w) \/ SetLast(w) \/ Fail(w)
      PROVE  Listed' /\ OwnersDiffer' /\ FreshIsUnindexed'
  <2>1. writer'[w].pc \in {"idle", "read"} /\ \A v \in Writer : v # w => writer'[v] = writer[v]
    BY <1>0, <1>2 DEF ReadLast, SetLast, Fail, Idle, TypeOK
  <2>2. UNCHANGED <<prev, alive, index>>
    BY <1>2 DEF ReadLast, SetLast, Fail
  <2> QED BY <1>1, <2>1, <2>2
<1>3. ASSUME NEW w \in Writer, CreateEvent(w) PROVE Listed' /\ OwnersDiffer' /\ FreshIsUnindexed'
  <2>1. Len(prev') = Len(prev) + 1 /\ UNCHANGED <<alive, index>>
    BY <1>0, <1>3 DEF CreateEvent, TypeOK, WriterState
  <2>2. /\ writer'[w].pc = "created" /\ writer'[w].id = Len(prev) + 1
        /\ \A v \in Writer : v # w => writer'[v] = writer[v]
    BY <1>0, <1>3 DEF CreateEvent, TypeOK
  <2>3. Listed'
    BY <1>0, <1>len, <2>1 DEF Listed
  <2>4. \A v \in Writer : writer[v].pc \in Writing => writer[v].id # Len(prev) + 1
    BY <1>0, <1>len DEF WritersOwnEvents
  <2>5. OwnersDiffer'
    BY <1>0, <2>2, <2>4 DEF OwnersDiffer
  <2>6. ~In(Len(prev) + 1, index)
    BY <1>0, <1>len DEF Listed, In
  <2>7. FreshIsUnindexed'
    BY <1>0, <2>1, <2>2, <2>6 DEF FreshIsUnindexed, In
  <2> QED BY <2>3, <2>5, <2>7
<1>4. ASSUME NEW w \in Writer, StoreEvent(w) PROVE Listed' /\ OwnersDiffer' /\ FreshIsUnindexed'
  <2>1. /\ alive' = Append(alive, writer[w].id) /\ UNCHANGED <<prev, index>>
        /\ writer[w].pc = "created" /\ writer[w].id \in Created
    BY <1>0, <1>4 DEF StoreEvent, WritersOwnEvents
  <2>2. /\ writer'[w].pc = "stored" /\ writer'[w].id = writer[w].id
        /\ \A v \in Writer : v # w => writer'[v] = writer[v]
    BY <1>0, <1>len, <1>4 DEF StoreEvent, TypeOK, WriterState
  <2>3. /\ Len(alive') = Len(alive) + 1 /\ alive'[Len(alive) + 1] = writer[w].id
        /\ \A k \in 1 .. Len(alive) : alive'[k] = alive[k]
    BY <1>0, <2>1 DEF TypeOK
  <2>4. Listed'
    BY <1>0, <1>len, <2>1, <2>3 DEF Listed
  <2>5. OwnersDiffer'
    BY <1>0, <2>1, <2>2 DEF OwnersDiffer
  <2>6. FreshIsUnindexed'
    BY <1>0, <2>1, <2>2 DEF FreshIsUnindexed, In
  <2> QED BY <2>4, <2>5, <2>6
<1>5. ASSUME NEW w \in Writer, IndexEvent(w) PROVE Listed' /\ OwnersDiffer' /\ FreshIsUnindexed'
  <2>1. /\ index' = Append(index, writer[w].id) /\ UNCHANGED <<prev, alive>>
        /\ writer[w].pc = "stored" /\ writer[w].id \in Created
    BY <1>0, <1>5 DEF IndexEvent, WritersOwnEvents
  <2>2. /\ writer'[w].pc = "indexed" /\ writer'[w].id = writer[w].id
        /\ \A v \in Writer : v # w => writer'[v] = writer[v]
    BY <1>0, <1>len, <1>5 DEF IndexEvent, TypeOK, WriterState
  <2>3. /\ Len(index') = Len(index) + 1 /\ index'[Len(index) + 1] = writer[w].id
        /\ \A k \in 1 .. Len(index) : index'[k] = index[k]
    BY <1>0, <2>1 DEF TypeOK
  <2>4. Listed'
    BY <1>0, <1>len, <2>1, <2>3 DEF Listed
  <2>5. OwnersDiffer'
    BY <1>0, <2>1, <2>2 DEF OwnersDiffer
  <2>6. \A i : In(i, index') => In(i, index) \/ i = writer[w].id
    BY <1>len, <2>3 DEF In
  <2>7. FreshIsUnindexed'
    <3> SUFFICES ASSUME NEW v \in Writer, writer'[v].pc \in {"created", "stored"}, In(writer'[v].id, index')
                 PROVE  FALSE
      BY DEF FreshIsUnindexed
    <3>1. v # w /\ writer'[v] = writer[v]
      BY <2>2
    <3>2. ~In(writer[v].id, index) /\ writer[v].id # writer[w].id
      BY <1>0, <2>1, <3>1 DEF FreshIsUnindexed, OwnersDiffer
    <3> QED BY <2>6, <3>1, <3>2
  <2> QED BY <2>4, <2>5, <2>7
<1>6. CASE ExpireEvent
  <2>1. /\ alive \in Seq(Hash) /\ alive # <<>> /\ alive' = Tail(alive)
        /\ UNCHANGED <<prev, index, writer>>
    BY <1>0, <1>6 DEF TypeOK, ExpireEvent
  <2>2. \A k \in 1 .. Len(alive') : k + 1 \in 1 .. Len(alive) /\ alive'[k] = alive[k + 1]
    BY <2>1
  <2> QED BY <1>0, <2>1, <2>2 DEF Listed, OwnersDiffer, FreshIsUnindexed, In
<1>7. CASE UNCHANGED vars
  BY <1>0, <1>7 DEF vars, Listed, OwnersDiffer, FreshIsUnindexed, In
<1> QED BY <1>2, <1>3, <1>4, <1>5, <1>6, <1>7 DEF Next, LogStep

\* Steps on the links and the stored events.
LEMMA NextAlive ==
  FInv /\ [Next]_vars => AliveInLinkOrder' /\ StoredOutlives'
<1> SUFFICES ASSUME FInv, [Next]_vars PROVE AliveInLinkOrder' /\ StoredOutlives'
  OBVIOUS
<1>0. /\ IInv /\ TypeOK /\ WritersOwnEvents /\ LinksLeadBack
      /\ Listed /\ FreshIsUnindexed /\ AliveInLinkOrder /\ StoredOutlives
  BY DEF FInv, IInv
<1>len. /\ Len(prev) \in Nat /\ Len(index) \in Nat /\ Len(alive) \in Nat
        /\ \A w \in Writer : writer[w] \in WriterState
  BY <1>0, Lengths
<1> USE DEF Writing, Created
<1>1. ASSUME NEW w \in Writer, UNCHANGED <<prev, alive>>,
             \A v \in Writer : v # w => writer'[v] = writer[v],
             writer'[w].pc # "stored"
      PROVE  AliveInLinkOrder' /\ StoredOutlives'
  BY <1>0, <1>1 DEF AliveInLinkOrder, StoredOutlives, In
<1>2. ASSUME NEW w \in Writer, ReadLast(w) \/ SetLast(w) \/ Fail(w) \/ IndexEvent(w)
      PROVE  AliveInLinkOrder' /\ StoredOutlives'
  <2>1. writer'[w].pc # "stored" /\ \A v \in Writer : v # w => writer'[v] = writer[v]
    BY <1>0, <1>2 DEF ReadLast, SetLast, Fail, IndexEvent, Idle, TypeOK, WriterState
  <2>2. UNCHANGED <<prev, alive>>
    BY <1>2 DEF ReadLast, SetLast, Fail, IndexEvent
  <2> QED BY <1>1, <2>1, <2>2
<1>3. ASSUME NEW w \in Writer, CreateEvent(w) PROVE AliveInLinkOrder' /\ StoredOutlives'
  <2>1. /\ \A i \in 1 .. Len(prev) : prev'[i] = prev[i]
        /\ UNCHANGED alive
    BY <1>0, <1>3 DEF CreateEvent, TypeOK, WriterState
  <2>2. writer'[w].pc = "created" /\ \A v \in Writer : v # w => writer'[v] = writer[v]
    BY <1>0, <1>3 DEF CreateEvent, TypeOK
  <2>3. AliveInLinkOrder'
    BY <1>0, <2>1 DEF AliveInLinkOrder, Listed
  <2>4. \A v \in Writer : writer[v].pc = "stored" => prev'[writer[v].id] = prev[writer[v].id]
    BY <1>0, <2>1 DEF WritersOwnEvents
  <2>5. StoredOutlives'
    BY <1>0, <2>1, <2>2, <2>4 DEF StoredOutlives, In
  <2> QED BY <2>3, <2>5
<1>4. ASSUME NEW w \in Writer, StoreEvent(w) PROVE AliveInLinkOrder' /\ StoredOutlives'
  <2> DEFINE e == writer[w].id
             n == Len(alive) + 1
  <2>1. /\ alive' = Append(alive, e) /\ UNCHANGED <<prev, index>>
        /\ e \in Created /\ ~In(e, index) /\ e \in Hash /\ alive \in Seq(Hash)
    BY <1>0, <1>len, <1>4 DEF StoreEvent, WritersOwnEvents, FreshIsUnindexed, WriterState, TypeOK
  <2>2. /\ writer'[w].pc = "stored" /\ writer'[w].id = e
        /\ \A v \in Writer : v # w => writer'[v] = writer[v]
    BY <1>0, <1>len, <1>4 DEF StoreEvent, TypeOK, WriterState
  <2>3. /\ Len(alive') = n /\ alive'[n] = e
        /\ \A k \in 1 .. Len(alive) : alive'[k] = alive[k]
    BY <2>1
  <2>4. (\A i : In(i, alive) => In(i, alive')) /\ In(e, alive')
    BY <2>1, InAppend
  <2>5. ASSUME NEW p \in 1 .. Len(alive'), NEW q \in 1 .. Len(alive'), alive'[p] = prev[alive'[q]]
        PROVE  p < q
    <3>1. CASE q = n
      <4>e. e # 0
        BY <1>len, <2>1
      <4>l. \A i \in Created : prev[i] = 0 \/ In(prev[i], index)
        BY <1>0 DEF LinksLeadBack, In
      <4>1. prev[e] # e
        BY <2>1, <4>e, <4>l
      <4>2. p # n
        <5>1. alive'[q] = e
          BY <2>3, <3>1
        <5>2. alive'[p] # e
          BY <2>5, <4>1, <5>1
        <5> QED BY <2>3, <5>2
      <4> QED BY <1>len, <2>3, <3>1, <4>2
    <3>2. CASE q # n /\ p = n
      <4>1. q \in 1 .. Len(alive) /\ prev[alive[q]] = e
        BY <1>len, <2>3, <2>5, <3>2
      <4>2. alive[q] \in Created /\ e # 0
        BY <1>0, <2>1, <4>1 DEF Listed
      <4>3. In(e, index)
        BY <1>0, <4>1, <4>2 DEF LinksLeadBack
      <4> QED BY <2>1, <4>3
    <3>3. CASE q # n /\ p # n
      <4>1. q \in 1 .. Len(alive) /\ p \in 1 .. Len(alive)
        BY <1>len, <2>3, <3>3
      <4>2. alive[p] = prev[alive[q]]
        BY <2>3, <2>5, <4>1
      <4> QED BY <1>0, <4>1, <4>2 DEF AliveInLinkOrder
    <3> QED BY <3>1, <3>2, <3>3
  <2>6. AliveInLinkOrder'
    BY <2>1, <2>5 DEF AliveInLinkOrder
  <2>7. StoredOutlives'
    <3> SUFFICES ASSUME NEW v \in Writer, writer'[v].pc = "stored", In(prev'[writer'[v].id], alive')
                 PROVE  In(writer'[v].id, alive')
      BY DEF StoredOutlives
    <3>1. CASE v = w
      BY <2>2, <2>4, <3>1
    <3>2. CASE v # w
      <4>1. writer'[v] = writer[v] /\ writer[v].pc = "stored" /\ writer[v].id \in Created
        BY <1>0, <2>2, <3>2 DEF WritersOwnEvents
      <4>2. prev[writer[v].id] # e
        BY <1>0, <2>1, <4>1 DEF LinksLeadBack
      <4>3. In(prev[writer[v].id], alive)
        BY <1>len, <2>1, <2>3, <4>1, <4>2 DEF In
      <4> QED BY <1>0, <2>4, <4>1, <4>3 DEF StoredOutlives
    <3> QED BY <3>1, <3>2
  <2> QED BY <2>6, <2>7
<1>5. CASE ExpireEvent
  <2>1. /\ alive \in Seq(Hash) /\ alive # <<>> /\ alive' = Tail(alive)
        /\ UNCHANGED <<prev, index, writer>>
    BY <1>0, <1>5 DEF TypeOK, ExpireEvent
  <2>2. /\ Len(alive') = Len(alive) - 1
        /\ \A k \in 1 .. Len(alive') : k + 1 \in 1 .. Len(alive) /\ alive'[k] = alive[k + 1]
    BY <2>1
  <2>3. AliveInLinkOrder'
    <3> SUFFICES ASSUME NEW p \in 1 .. Len(alive'), NEW q \in 1 .. Len(alive'), alive'[p] = prev[alive'[q]]
                 PROVE  p < q
      BY <2>1 DEF AliveInLinkOrder
    <3>1. p + 1 < q + 1
      BY <1>0, <2>2 DEF AliveInLinkOrder
    <3> QED BY <3>1
  <2>4. StoredOutlives'
    <3> SUFFICES ASSUME NEW v \in Writer, writer[v].pc = "stored",
                        NEW p \in 1 .. Len(alive'), alive'[p] = prev[writer[v].id]
                 PROVE  In(writer[v].id, alive')
      BY <2>1 DEF StoredOutlives, In
    <3>1. p + 1 \in 1 .. Len(alive) /\ alive[p + 1] = prev[writer[v].id]
      BY <2>2
    <3>2. PICK q \in 1 .. Len(alive) : alive[q] = writer[v].id
      BY <1>0, <3>1 DEF StoredOutlives, In
    <3>3. p + 1 < q
      BY <1>0, <3>1, <3>2 DEF AliveInLinkOrder
    <3>4. q - 1 \in 1 .. Len(alive') /\ alive'[q - 1] = alive[q]
      BY <1>len, <2>2, <3>3
    <3> QED BY <3>2, <3>4 DEF In
  <2> QED BY <2>3, <2>4
<1>6. CASE UNCHANGED vars
  BY <1>0, <1>6 DEF vars, AliveInLinkOrder, StoredOutlives, In
<1> QED BY <1>2, <1>3, <1>4, <1>5, <1>6 DEF Next, LogStep

(* The events line up: an event that is indexed and forks nothing links to  *)
(* the newest one.                                                          *)
LEMMA NextLinedUp == FInv /\ [Next]_vars /\ NoFork' => LinedUp'
<1> SUFFICES ASSUME FInv, [Next]_vars, NoFork' PROVE LinedUp'
  OBVIOUS
<1>0. /\ IInv /\ TypeOK /\ WritersOwnEvents /\ LinksLeadBack
      /\ Listed /\ FreshIsUnindexed /\ AliveInLinkOrder /\ StoredOutlives
  BY DEF FInv, IInv
<1>len. /\ Len(prev) \in Nat /\ Len(index) \in Nat /\ Len(alive) \in Nat
        /\ \A w \in Writer : writer[w] \in WriterState
  BY <1>0, Lengths
<1>nat. \A k \in 1 .. Len(index) : index[k] \in Nat /\ index[k] # 0
  BY <1>0, <1>len DEF Listed, Created
<1> USE DEF Writing, Created
<1>1. CASE UNCHANGED <<prev, alive, index>>
  <2>1. NoFork
    BY <1>1 DEF NoFork, In
  <2>2. LinedUp
    BY <2>1 DEF FInv
  <2> QED BY <1>1, <2>2 DEF LinedUp, IndexIsChain, FirstIsRoot, TailIsAlive, AliveInIndexOrder, In
<1>2. ASSUME NEW w \in Writer, CreateEvent(w) PROVE LinedUp'
  <2>1. /\ Len(prev') = Len(prev) + 1
        /\ \A i \in 1 .. Len(prev) : prev'[i] = prev[i]
        /\ UNCHANGED <<alive, index>>
    BY <1>0, <1>2 DEF CreateEvent, TypeOK, WriterState
  <2>2. NoFork
    BY <1>len, <2>1 DEF NoFork, In
  <2>3. LinedUp
    BY <2>2 DEF FInv
  <2>4. \A k \in 1 .. Len(index) : index[k] \in 1 .. Len(prev) /\ prev'[index[k]] = prev[index[k]]
    BY <1>0, <2>1 DEF Listed
  <2>5. IndexIsChain'
    BY <1>len, <2>1, <2>3, <2>4 DEF LinedUp, IndexIsChain
  <2>6. FirstIsRoot'
    <3>1. Len(index) > 0 => 1 \in 1 .. Len(index)
      BY <1>len
    <3> QED BY <2>1, <2>3, <2>4, <3>1 DEF LinedUp, FirstIsRoot
  <2>7. TailIsAlive' /\ AliveInIndexOrder'
    BY <2>1, <2>3 DEF LinedUp, TailIsAlive, AliveInIndexOrder, In
  <2> QED BY <2>5, <2>6, <2>7 DEF LinedUp
<1>3. ASSUME NEW w \in Writer, StoreEvent(w) PROVE LinedUp'
  <2> DEFINE e == writer[w].id
             n == Len(alive) + 1
  <2>1. /\ alive' = Append(alive, e) /\ UNCHANGED <<prev, index>>
        /\ ~In(e, index) /\ e \in Hash /\ alive \in Seq(Hash)
    BY <1>0, <1>len, <1>3 DEF StoreEvent, FreshIsUnindexed, WriterState, TypeOK
  <2>2. LinedUp
    BY <2>1 DEF FInv, NoFork, In
  <2>3. /\ Len(alive') = n /\ alive'[n] = e
        /\ \A k \in 1 .. Len(alive) : alive'[k] = alive[k]
    BY <2>1
  <2>4. \A k \in 1 .. Len(index), p \in 1 .. Len(alive') :
          alive'[p] = index[k] => p \in 1 .. Len(alive) /\ alive[p] = index[k]
    BY <1>len, <2>1, <2>3 DEF In
  <2>5. \A i : In(i, alive) => In(i, alive')
    BY <2>1, InAppend
  <2>6. \A k \in 1 .. Len(index) : In(index[k], alive') => In(index[k], alive)
    BY <2>4 DEF In
  <2>7. TailIsAlive'
    BY <2>1, <2>2, <2>5, <2>6 DEF LinedUp, TailIsAlive
  <2>8. AliveInIndexOrder'
    BY <2>1, <2>2, <2>4 DEF LinedUp, AliveInIndexOrder
  <2>9. IndexIsChain' /\ FirstIsRoot'
    BY <2>1, <2>2 DEF LinedUp, IndexIsChain, FirstIsRoot
  <2> QED BY <2>7, <2>8, <2>9 DEF LinedUp
<1>4. ASSUME NEW w \in Writer, IndexEvent(w) PROVE LinedUp'
  <2>0. PICK e \in Created : e = writer[w].id
    BY <1>0, <1>4 DEF IndexEvent, WritersOwnEvents
  <2>n. PICK n \in Nat : n = Len(index) + 1
    BY <1>len
  <2>1. /\ index' = Append(index, e) /\ UNCHANGED <<prev, alive>> /\ index \in Seq(Hash)
        /\ e \in Hash /\ ~In(e, index) /\ writer[w].pc = "stored"
    BY <1>0, <1>len, <1>4, <2>0 DEF IndexEvent, FreshIsUnindexed, TypeOK, WriterState
  <2>2. /\ Len(index') = n /\ index'[n] = e
        /\ \A k \in 1 .. Len(index) : index'[k] = index[k]
    BY <2>1, <2>n
  <2>3. (\A i : In(i, index) => In(i, index')) /\ In(e, index')
    BY <2>1, InAppend
  <2>4. NoFork
    BY <2>1, <2>3 DEF NoFork
  <2>5. IndexIsChain /\ FirstIsRoot /\ TailIsAlive /\ AliveInIndexOrder
    BY <2>4 DEF FInv, LinedUp
  <2>6. \A k \in 1 .. Len(index) : prev[index[k]] # prev[e]
    <3> SUFFICES ASSUME NEW k \in 1 .. Len(index), prev[index[k]] = prev[e] PROVE FALSE
      OBVIOUS
    <3>1. In(index[k], index) /\ index[k] \in Created
      BY <1>0 DEF In, Listed
    <3>2. index[k] = e
      BY <2>1, <2>3, <3>1 DEF NoFork
    <3> QED BY <2>1, <3>1, <3>2
  <2>7. IF Len(index) = 0 THEN prev[e] = 0 ELSE prev[e] = index[Len(index)]
    <3>1. CASE prev[e] = 0
      <4>1. ~(Len(index) > 0)
        <5> SUFFICES ASSUME Len(index) > 0 PROVE FALSE
          OBVIOUS
        <5>1. 1 \in 1 .. Len(index) /\ prev[index[1]] = 0
          BY <1>len, <2>5 DEF FirstIsRoot
        <5> QED BY <2>6, <3>1, <5>1
      <4> QED BY <1>len, <3>1, <4>1
    <3>2. CASE prev[e] # 0
      <4>1. PICK l \in 1 .. Len(index) : index[l] = prev[e]
        BY <1>0, <3>2 DEF LinksLeadBack, In
      <4>2. l = Len(index)
        <5> SUFFICES ASSUME l # Len(index) PROVE FALSE
          OBVIOUS
        <5>1. l + 1 \in 1 .. Len(index) /\ l + 1 # 1 /\ (l + 1) - 1 = l
          BY <1>len
        <5>2. prev[index[l + 1]] = index[l]
          BY <2>5, <5>1 DEF IndexIsChain
        <5> QED BY <2>6, <4>1, <5>1, <5>2
      <4> QED BY <1>len, <4>1, <4>2
    <3> QED BY <3>1, <3>2
  <2>8. \A k \in 1 .. Len(index) : index[k] < e
    <3> SUFFICES ASSUME NEW k \in 1 .. Len(index) PROVE index[k] < e
      OBVIOUS
    <3>1. Len(index) \in 1 .. Len(index) /\ prev[e] = index[Len(index)]
      BY <1>len, <2>7
    <3>2. index[Len(index)] < e
      BY <1>0, <1>nat, <3>1 DEF LinksLeadBack
    <3>3. k = Len(index) \/ index[k] < index[Len(index)]
      BY <1>len, <2>5, <3>1 DEF IndexIsChain
    <3>4. index[k] \in Nat /\ index[Len(index)] \in Nat /\ e \in Nat
      BY <1>nat, <1>len, <3>1
    <3> QED BY <3>2, <3>3, <3>4
  <2>9. IndexIsChain'
    <3>1. ASSUME NEW k \in 1 .. Len(index'), NEW l \in 1 .. Len(index'), k < l
          PROVE  index'[k] < index'[l]
      <4>1. k \in 1 .. Len(index)
        BY <1>len, <2>n, <2>2, <3>1
      <4>2. CASE l = n
        BY <2>2, <2>8, <4>1, <4>2
      <4>3. CASE l # n
        <5>1. l \in 1 .. Len(index)
          BY <1>len, <2>n, <2>2, <4>3
        <5> QED BY <2>2, <2>5, <3>1, <4>1, <5>1 DEF IndexIsChain
      <4> QED BY <4>2, <4>3
    <3>2. \A k \in 1 .. Len(index') : index'[k] \in 1 .. Len(prev')
      BY <1>0, <1>len, <2>n, <2>1, <2>2 DEF Listed
    <3>3. ASSUME NEW k \in 1 .. Len(index'), k # 1
          PROVE  prev'[index'[k]] = index'[k - 1]
      <4>1. CASE k = n
        <5>1. k - 1 = Len(index) /\ Len(index) # 0 /\ Len(index) \in 1 .. Len(index)
          BY <1>len, <2>n, <3>3, <4>1
        <5>2. index'[k - 1] = index[Len(index)]
          BY <2>2, <5>1
        <5> QED BY <2>1, <2>2, <2>7, <4>1, <5>1, <5>2
      <4>2. CASE k # n
        <5>1. k \in 1 .. Len(index) /\ k - 1 \in 1 .. Len(index)
          BY <1>len, <2>n, <2>2, <3>3, <4>2
        <5> QED BY <2>1, <2>2, <2>5, <3>3, <5>1 DEF IndexIsChain
      <4> QED BY <4>1, <4>2
    <3> QED BY <3>1, <3>2, <3>3 DEF IndexIsChain
  <2>10. FirstIsRoot'
    <3>1. CASE Len(index) = 0
      BY <2>n, <2>1, <2>2, <2>7, <3>1 DEF FirstIsRoot
    <3>2. CASE Len(index) # 0
      <4>1. 1 \in 1 .. Len(index) /\ Len(index) > 0
        BY <1>len, <3>2
      <4> QED BY <2>1, <2>2, <2>5, <4>1 DEF FirstIsRoot
    <3> QED BY <3>1, <3>2
  <2>11. \A k \in 1 .. Len(index) : In(index[k], alive) => In(prev[e], alive)
    <3> SUFFICES ASSUME NEW k \in 1 .. Len(index), In(index[k], alive) PROVE In(prev[e], alive)
      OBVIOUS
    <3>1. Len(index) \in 1 .. Len(index) /\ prev[e] = index[Len(index)]
      BY <1>len, <2>7
    <3>2. k = Len(index) \/ k < Len(index)
      BY <1>len
    <3> QED BY <2>5, <3>1, <3>2 DEF TailIsAlive
  <2>12. TailIsAlive'
    <3> SUFFICES ASSUME NEW k \in 1 .. Len(index'), NEW l \in 1 .. Len(index'), k < l,
                        In(index'[k], alive)
                 PROVE  In(index'[l], alive)
      BY <2>1 DEF TailIsAlive
    <3>1. k \in 1 .. Len(index)
      BY <1>len, <2>n, <2>2
    <3>2. CASE l = n
      <4>1. In(prev[e], alive)
        BY <2>2, <2>11, <3>1
      <4>2. In(e, alive)
        BY <1>0, <2>0, <2>1, <4>1 DEF StoredOutlives
      <4> QED BY <2>2, <3>2, <4>2
    <3>3. CASE l # n
      <4>1. l \in 1 .. Len(index)
        BY <1>len, <2>n, <2>2, <3>3
      <4> QED BY <2>2, <2>5, <3>1, <4>1 DEF TailIsAlive
    <3> QED BY <3>2, <3>3
  <2>13. AliveInIndexOrder'
    <3> SUFFICES ASSUME NEW k \in 1 .. Len(index'), NEW l \in 1 .. Len(index'),
                        NEW p \in 1 .. Len(alive), NEW q \in 1 .. Len(alive),
                        k < l, alive[p] = index'[k], alive[q] = index'[l]
                 PROVE  p < q
      BY <2>1 DEF AliveInIndexOrder
    <3>1. k \in 1 .. Len(index) /\ index'[k] = index[k]
      BY <1>len, <2>n, <2>2
    <3>2. CASE l = n
      <4>1. Len(index) \in 1 .. Len(index) /\ prev[e] = index[Len(index)] /\ alive[q] = e
        BY <1>len, <2>2, <2>7, <3>1, <3>2
      <4>2. PICK m \in 1 .. Len(alive) : alive[m] = prev[e]
        BY <2>11, <3>1 DEF In
      <4>3. m < q
        BY <1>0, <4>1, <4>2 DEF AliveInLinkOrder
      <4>4. k = Len(index) \/ k < Len(index)
        BY <1>len, <3>1
      <4>5. CASE k = Len(index)
        BY <1>0, <3>1, <4>1, <4>5 DEF AliveInLinkOrder
      <4>6. CASE k < Len(index)
        <5>1. p < m
          BY <2>5, <3>1, <4>1, <4>2, <4>6 DEF AliveInIndexOrder
        <5> QED BY <1>len, <4>3, <5>1
      <4> QED BY <4>4, <4>5, <4>6
    <3>3. CASE l # n
      <4>1. l \in 1 .. Len(index) /\ index'[l] = index[l]
        BY <1>len, <2>n, <2>2, <3>3
      <4> QED BY <2>5, <3>1, <4>1 DEF AliveInIndexOrder
    <3> QED BY <3>2, <3>3
  <2> QED BY <2>9, <2>10, <2>12, <2>13 DEF LinedUp
<1>5. CASE ExpireEvent
  <2>1. /\ alive \in Seq(Hash) /\ alive # <<>> /\ alive' = Tail(alive)
        /\ UNCHANGED <<prev, index, writer>>
    BY <1>0, <1>5 DEF TypeOK, ExpireEvent
  <2>2. /\ Len(alive') = Len(alive) - 1
        /\ \A k \in 1 .. Len(alive') : k + 1 \in 1 .. Len(alive) /\ alive'[k] = alive[k + 1]
    BY <2>1
  <2>3. LinedUp
    BY <2>1 DEF FInv, NoFork, In
  <2>4. AliveInIndexOrder'
    <3> SUFFICES ASSUME NEW k \in 1 .. Len(index), NEW l \in 1 .. Len(index),
                        NEW p \in 1 .. Len(alive'), NEW q \in 1 .. Len(alive'),
                        k < l, alive'[p] = index[k], alive'[q] = index[l]
                 PROVE  p < q
      BY <2>1 DEF AliveInIndexOrder
    <3>1. p + 1 < q + 1
      BY <2>2, <2>3 DEF LinedUp, AliveInIndexOrder
    <3> QED BY <3>1
  <2>5. TailIsAlive'
    <3> SUFFICES ASSUME NEW k \in 1 .. Len(index), NEW l \in 1 .. Len(index), k < l,
                        In(index[k], alive')
                 PROVE  In(index[l], alive')
      BY <2>1 DEF TailIsAlive, In
    <3>p. PICK p \in 1 .. Len(alive') : alive'[p] = index[k]
      BY DEF In
    <3>1. p + 1 \in 1 .. Len(alive) /\ alive[p + 1] = index[k]
      BY <2>2, <3>p
    <3>2. PICK q \in 1 .. Len(alive) : alive[q] = index[l]
      BY <2>3, <3>1 DEF LinedUp, TailIsAlive, In
    <3>3. p + 1 < q
      BY <2>3, <3>1, <3>2 DEF LinedUp, AliveInIndexOrder
    <3>4. q - 1 \in 1 .. Len(alive') /\ alive'[q - 1] = alive[q]
      BY <1>len, <2>2, <3>3
    <3> QED BY <3>2, <3>4 DEF In
  <2>6. IndexIsChain' /\ FirstIsRoot'
    BY <2>1, <2>3 DEF LinedUp, IndexIsChain, FirstIsRoot
  <2> QED BY <2>4, <2>5, <2>6 DEF LinedUp
<1>6. ASSUME NEW w \in Writer, ReadLast(w) \/ SetLast(w) \/ Fail(w) PROVE UNCHANGED <<prev, alive, index>>
  BY <1>6 DEF ReadLast, SetLast, Fail
<1>7. CASE UNCHANGED vars
  BY <1>1, <1>7 DEF vars
<1> QED BY <1>1, <1>2, <1>3, <1>4, <1>5, <1>6, <1>7 DEF Next, LogStep

(* For any number of overlapping writers, failures at any point and any     *)
(* limit: verify_chain is false only if two indexed events share their      *)
(* predecessor.                                                             *)
THEOREM OnlyForksBreak == Spec => []BrokenOnlyByFork
<1>1. Init => FInv
  BY InitFInv
<1>2. FInv /\ [Next]_vars => FInv'
  BY NextIInv, NextOwners, NextAlive, NextLinedUp DEF FInv
<1>3. FInv => BrokenOnlyByFork
  <2> SUFFICES ASSUME FInv, NoFork PROVE VerifyChain
    BY DEF BrokenOnlyByFork, NoFork
  <2>1. TypeOK /\ IndexIsChain /\ TailIsAlive
    BY DEF FInv, IInv, LinedUp
  <2> QED BY <2>1, TailVerifies DEF TailIsAlive
<1> QED BY <1>1, <1>2, <1>3, PTL DEF Spec
=============================================================================
