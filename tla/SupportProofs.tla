------------------------------ MODULE SupportProofs -----------------------------
(***************************************************************************)
(* Proofs about the stores and services that stand by themselves: the      *)
(* analysts' desk, the signed audit log, the cases in TheHive, the         *)
(* memories of an agent and of an incident, the data mesh and the          *)
(* escalation of an alert, each for any values of its constants.           *)
(***************************************************************************)
EXTENDS MdrDesk, AuditLog, CaseService, AgentMemory, IncidentMemory, DataMesh, SlaTracking,
        FiniteSetTheorems, SequenceTheorems, WellFoundedInduction, TLAPS

-----------------------------------------------------------------------------
\* The desk.

AlertsOf(a) == {al \in DeskAlert : assigned[al] = a}

DeskTypes ==
  /\ cases_of \in [Analyst -> Nat]
  /\ assigned = [al \in DeskAlert |-> assigned[al]]   \* a function, whatever its values

DeskInv == DeskTypes /\ NobodyLooksFreer

(* Whoever the alert belonged to, giving it to a takes one alert from that  *)
(* analyst and adds at most one to a.                                       *)
LEMMA GivenAlert ==
  ASSUME IsFiniteSet(DeskAlert), NEW al \in DeskAlert, NEW x,
         assigned = [l \in DeskAlert |-> assigned[l]],
         assigned' = [assigned EXCEPT ![al] = x], NEW b
  PROVE  /\ Cardinality(AlertsOf(b)) \in Nat
         /\ Cardinality(AlertsOf(b)') \in Nat
         /\ b = x /\ assigned[al] # x => Cardinality(AlertsOf(b)') = Cardinality(AlertsOf(b)) + 1
         /\ b = x /\ assigned[al] = x => Cardinality(AlertsOf(b)') = Cardinality(AlertsOf(b))
         /\ b # x /\ assigned[al] = b => Cardinality(AlertsOf(b)') = Cardinality(AlertsOf(b)) - 1
         /\ b # x /\ assigned[al] # b => Cardinality(AlertsOf(b)') = Cardinality(AlertsOf(b))
<1>1. \A l \in DeskAlert : assigned'[l] = IF l = al THEN x ELSE assigned[l]
  OBVIOUS
<1>2. /\ b = x => AlertsOf(b)' = AlertsOf(b) \cup {al}
      /\ b # x => AlertsOf(b)' = AlertsOf(b) \ {al}
  BY <1>1 DEF AlertsOf
<1>3. IsFiniteSet(AlertsOf(b)) /\ Cardinality(AlertsOf(b)) \in Nat
  <2>1. AlertsOf(b) \in SUBSET DeskAlert
    BY DEF AlertsOf
  <2> QED BY <2>1, FS_Subset, FS_CardinalityType
<1>4. al \in AlertsOf(b) <=> assigned[al] = b
  BY DEF AlertsOf
<1>5. al \in AlertsOf(b) => Cardinality(AlertsOf(b)) # 0
  BY <1>3, FS_EmptySet
<1>6. /\ Cardinality(AlertsOf(b) \cup {al}) =
           IF al \in AlertsOf(b) THEN Cardinality(AlertsOf(b)) ELSE Cardinality(AlertsOf(b)) + 1
      /\ Cardinality(AlertsOf(b) \ {al}) =
           IF al \in AlertsOf(b) THEN Cardinality(AlertsOf(b)) - 1 ELSE Cardinality(AlertsOf(b))
  BY <1>3, FS_AddElement, FS_RemoveElement
<1> DEFINE n == Cardinality(AlertsOf(b))
<1>7. n \in Nat /\ (assigned[al] = b => n - 1 \in Nat)
  BY <1>3, <1>4, <1>5
<1>8. Cardinality(AlertsOf(b)') =
        IF b = x THEN (IF assigned[al] = b THEN n ELSE n + 1)
        ELSE (IF assigned[al] = b THEN n - 1 ELSE n)
  <2>1. CASE b = x
    BY <2>1, <1>2, <1>4, <1>6
  <2>2. CASE b # x
    BY <2>2, <1>2, <1>4, <1>6
  <2> QED BY <2>1, <2>2
<1> QED BY <1>7, <1>8

LEMMA DeskInitInv ==
  ASSUME IsFiniteSet(DeskAlert), "nobody" \notin Analyst, DeskInit
  PROVE  DeskInv
<1>1. DeskTypes
  BY DEF DeskInit, DeskTypes
<1>2. ASSUME NEW a \in Analyst PROVE Cardinality({al \in DeskAlert : assigned[al] = a}) <= cases_of[a]
  <2>1. {al \in DeskAlert : assigned[al] = a} = {}
    BY DEF DeskInit
  <2>2. cases_of[a] = 0
    BY DEF DeskInit
  <2> QED BY <2>1, <2>2, FS_EmptySet
<1> QED BY <1>1, <1>2 DEF DeskInv, NobodyLooksFreer

LEMMA TakeInv ==
  ASSUME IsFiniteSet(DeskAlert), DeskInv, NEW al \in DeskAlert, NEW x, Take(x, al)
  PROVE  DeskInv'
<1>1. /\ cases_of \in [Analyst -> Nat]
      /\ cases_of' \in [Analyst -> Nat]
      /\ \A b \in Analyst : cases_of'[b] = IF b = x THEN cases_of[b] + 1 ELSE cases_of[b]
  <2>1. cases_of \in [Analyst -> Nat] /\ cases_of' = [cases_of EXCEPT ![x] = @ + 1]
    BY DEF DeskInv, DeskTypes, Take
  <2>2. CASE x \in Analyst
    BY <2>1, <2>2
  <2>3. CASE x \notin Analyst
    BY <2>1, <2>3
  <2> QED BY <2>2, <2>3
<1>2. assigned' = [l \in DeskAlert |-> assigned'[l]]
  BY DEF DeskInv, DeskTypes, Take
<1>3. \A b \in Analyst : Cardinality(AlertsOf(b)) <= cases_of[b]
  BY DEF DeskInv, NobodyLooksFreer, AlertsOf
<1>4. ASSUME NEW b \in Analyst PROVE Cardinality(AlertsOf(b)') <= cases_of'[b]
  <2>1. /\ Cardinality(AlertsOf(b)) \in Nat
        /\ Cardinality(AlertsOf(b)') \in Nat
        /\ b = x => Cardinality(AlertsOf(b)') <= Cardinality(AlertsOf(b)) + 1
        /\ b # x => Cardinality(AlertsOf(b)') <= Cardinality(AlertsOf(b))
    BY GivenAlert DEF DeskInv, DeskTypes, Take
  <2> HIDE DEF AlertsOf
  <2> QED BY <1>1, <1>3, <2>1
<1> QED BY <1>1, <1>2, <1>4 DEF DeskInv, DeskTypes, NobodyLooksFreer, AlertsOf

LEMMA ReassignInv ==
  ASSUME IsFiniteSet(DeskAlert), DeskInv,
         NEW al \in DeskAlert, NEW x \in Analyst, Reassign(al, x)
  PROVE  DeskInv'
<1> DEFINE Low(b) == IF b \in Relieved(al, x) /\ cases_of[b] > 0 THEN cases_of[b] - 1 ELSE cases_of[b]
<1>1. /\ cases_of \in [Analyst -> Nat]
      /\ cases_of' = [[b \in Analyst |-> Low(b)] EXCEPT ![x] = @ + 1]
      /\ assigned' = [assigned EXCEPT ![al] = x]
      /\ assigned = [l \in DeskAlert |-> assigned[l]]
  BY DEF DeskInv, DeskTypes, Reassign
<1>2. \A b \in Analyst : /\ Low(b) \in Nat
                         /\ b # assigned[al] => Low(b) = cases_of[b]
                         /\ cases_of[b] <= Low(b) + 1
  BY <1>1 DEF Relieved
<1> HIDE DEF Low
<1>3. /\ cases_of' \in [Analyst -> Nat]
      /\ \A b \in Analyst : cases_of'[b] = IF b = x THEN Low(b) + 1 ELSE Low(b)
  BY <1>1, <1>2
<1>4. assigned' = [l \in DeskAlert |-> assigned'[l]]
  BY <1>1
<1>5. \A b \in Analyst : Cardinality(AlertsOf(b)) <= cases_of[b]
  BY DEF DeskInv, NobodyLooksFreer, AlertsOf
<1>6. ASSUME NEW b \in Analyst PROVE Cardinality(AlertsOf(b)') <= cases_of'[b]
  <2>1. /\ Cardinality(AlertsOf(b)) \in Nat
        /\ Cardinality(AlertsOf(b)') \in Nat
        /\ b = x /\ assigned[al] # x => Cardinality(AlertsOf(b)') = Cardinality(AlertsOf(b)) + 1
        /\ b = x /\ assigned[al] = x => Cardinality(AlertsOf(b)') = Cardinality(AlertsOf(b))
        /\ b # x /\ assigned[al] = b => Cardinality(AlertsOf(b)') = Cardinality(AlertsOf(b)) - 1
        /\ b # x /\ assigned[al] # b => Cardinality(AlertsOf(b)') = Cardinality(AlertsOf(b))
    BY <1>1, GivenAlert
  <2>2. /\ Cardinality(AlertsOf(b)) <= cases_of[b] /\ cases_of[b] \in Nat
        /\ cases_of'[b] = IF b = x THEN Low(b) + 1 ELSE Low(b)
        /\ Low(b) \in Nat /\ cases_of[b] <= Low(b) + 1
        /\ b # assigned[al] => Low(b) = cases_of[b]
    BY <1>1, <1>2, <1>3, <1>5
  <2> HIDE DEF AlertsOf
  <2> QED BY <2>1, <2>2
<1> QED BY <1>3, <1>4, <1>6 DEF DeskInv, DeskTypes, NobodyLooksFreer, AlertsOf

LEMMA DeskNextInv ==
  ASSUME IsFiniteSet(DeskAlert), DeskInv, [DeskNext]_desk
  PROVE  DeskInv'
<1>1. ASSUME UNCHANGED <<cases_of, assigned>> PROVE DeskInv'
  BY <1>1 DEF DeskInv, DeskTypes, NobodyLooksFreer
<1>2. CASE \E a \in Analyst : AddAnalyst(a) \/ \E start \in 0 .. MaxHour : ScheduleShift(a, start)
  BY <1>1, <1>2 DEF AddAnalyst, ScheduleShift
<1>3. CASE Tick
  BY <1>1, <1>3 DEF Tick
<1>4. ASSUME NEW al \in DeskAlert, Assign(al) PROVE DeskInv'
  <2>1. PICK x : Take(x, al)
    BY <1>4 DEF Assign
  <2> QED BY <2>1, TakeInv
<1>5. ASSUME NEW al \in DeskAlert, AssignFromPool(al) PROVE DeskInv'
  <2>1. PICK x : Take(x, al)
    BY <1>5 DEF AssignFromPool
  <2> QED BY <2>1, TakeInv
<1>6. ASSUME NEW al \in DeskAlert, NEW a \in Analyst, Reassign(al, a) PROVE DeskInv'
  BY <1>6, ReassignInv
<1>7. CASE UNCHANGED desk
  BY <1>1, <1>7 DEF desk
<1> QED BY <1>2, <1>3, <1>4, <1>5, <1>6, <1>7 DEF DeskNext

(* However alerts are assigned and reassigned, nobody of any roster counts  *)
(* fewer cases than it has alerts.                                          *)
THEOREM DeskNeverLooksFreer ==
  ASSUME IsFiniteSet(DeskAlert), "nobody" \notin Analyst
  PROVE  DeskInit /\ [][DeskNext]_desk => []NobodyLooksFreer
<1>1. DeskInit => DeskInv
  BY DeskInitInv
<1>2. DeskInv /\ [DeskNext]_desk => DeskInv'
  BY DeskNextInv
<1>3. DeskInv => NobodyLooksFreer
  BY DEF DeskInv
<1> QED BY <1>1, <1>2, <1>3, PTL

-----------------------------------------------------------------------------
\* The signed log.

LogEntry == [altered : BOOLEAN, signed : BOOLEAN, seen : BOOLEAN, extended : BOOLEAN]

Honest(e) == ~e.extended /\ (e.signed \/ e.seen)

(* An entry of the log has the fields that were signed, and its signature   *)
(* until it is verified in place.                                           *)
LogInv ==
  /\ entries \in Seq(LogEntry)
  /\ \A i \in DOMAIN entries : Honest(entries[i])
  /\ AlarmsAreReal

LEMMA ReplacedEntry ==
  ASSUME NEW s \in Seq(LogEntry), NEW i \in DOMAIN s, NEW e \in LogEntry, Honest(e),
         \A j \in DOMAIN s : Honest(s[j])
  PROVE  /\ [s EXCEPT ![i] = e] \in Seq(LogEntry)
         /\ \A j \in DOMAIN [s EXCEPT ![i] = e] : Honest([s EXCEPT ![i] = e][j])
<1>1. [s EXCEPT ![i] = e] \in Seq(LogEntry)
  OBVIOUS
<1>2. \A j \in DOMAIN [s EXCEPT ![i] = e] :
        j \in DOMAIN s /\ [s EXCEPT ![i] = e][j] = IF j = i THEN e ELSE s[j]
  OBVIOUS
<1> HIDE DEF Honest
<1> QED BY <1>1, <1>2

(* No verification that succeeds hides a change, of an entry, of a copy or  *)
(* of a line of the stream; one that fails is a false alarm only about an   *)
(* entry verified in place before or a line of the stream.                  *)
THEOREM AlarmsAreAlwaysReal == AuditLogInit /\ [][AuditLogNext]_auditLog => []AlarmsAreReal
<1>1. AuditLogInit => LogInv
  BY DEF AuditLogInit, LogInv, AlarmsAreReal, Unverified, NewEntry
<1>2. LogInv /\ [AuditLogNext]_auditLog => LogInv'
  <2> SUFFICES ASSUME LogInv, [AuditLogNext]_auditLog PROVE LogInv'
    OBVIOUS
  <2> USE DEF LogInv
  <2>1. CASE LogAction
    <3>1. NewEntry \in LogEntry /\ Honest(NewEntry)
      BY DEF NewEntry, LogEntry, Honest
    <3>2. entries' = Append(entries, NewEntry) /\ verdict' = verdict
      BY <2>1 DEF LogAction
    <3> HIDE DEF NewEntry, LogEntry, Honest
    <3>3. entries' \in Seq(LogEntry) /\ \A i \in DOMAIN entries' : Honest(entries'[i])
      BY <3>1, <3>2
    <3> QED BY <3>2, <3>3 DEF AlarmsAreReal
  <2>2. CASE ClearEntries
    BY <2>2 DEF ClearEntries, AlarmsAreReal
  <2>3. ASSUME NEW i \in DOMAIN entries, VerifySignature(i) PROVE LogInv'
    <3>1. entries[i] \in LogEntry /\ Honest(entries[i])
      OBVIOUS
    <3> DEFINE e == [entries[i] EXCEPT !.signed = FALSE, !.seen = TRUE]
    <3>2. entries' = [entries EXCEPT ![i] = e] /\ e \in LogEntry /\ Honest(e)
      BY <2>3, <3>1 DEF VerifySignature, LogEntry, Honest
    <3> HIDE DEF e
    <3>3. /\ entries' \in Seq(LogEntry)
          /\ \A j \in DOMAIN entries' : Honest(entries'[j])
      BY <3>2, ReplacedEntry
    <3>4. AlarmsAreReal'
      BY <2>3, <3>1 DEF VerifySignature, AlarmsAreReal, Verifies, Honest, LogEntry
    <3> QED BY <3>3, <3>4
  <2>4. ASSUME NEW i \in DOMAIN entries, VerifyCopy(i) PROVE LogInv'
    <3>1. entries[i] \in LogEntry /\ Honest(entries[i])
      OBVIOUS
    <3> QED BY <2>4, <3>1 DEF VerifyCopy, AlarmsAreReal, Verifies, Honest, LogEntry
  <2>7. ASSUME NEW i \in DOMAIN entries, VerifyLine(i) PROVE LogInv'
    BY <2>7 DEF VerifyLine, AlarmsAreReal, Verifies, EmittedLine, NewEntry
  <2>5. ASSUME NEW i \in DOMAIN entries, Alter(i) PROVE LogInv'
    <3> DEFINE e == [entries[i] EXCEPT !.altered = TRUE]
    <3>0. entries[i] \in LogEntry /\ Honest(entries[i])
      OBVIOUS
    <3>1. /\ entries' = [entries EXCEPT ![i] = e] /\ verdict' = verdict
          /\ e \in LogEntry /\ Honest(e)
      BY <2>5, <3>0 DEF Alter, LogEntry, Honest
    <3> HIDE DEF e
    <3>2. /\ entries' \in Seq(LogEntry)
          /\ \A j \in DOMAIN entries' : Honest(entries'[j])
      BY <3>1, ReplacedEntry
    <3> QED BY <3>1, <3>2 DEF AlarmsAreReal
  <2>6. CASE UNCHANGED auditLog
    BY <2>6 DEF auditLog, AlarmsAreReal
  <2> QED BY <2>1, <2>2, <2>3, <2>4, <2>5, <2>6, <2>7 DEF AuditLogNext
<1>3. LogInv => AlarmsAreReal
  BY DEF LogInv
<1> QED BY <1>1, <1>2, <1>3, PTL

-----------------------------------------------------------------------------
\* The cases.

AnyIndicator == UNION {Due(alert) : alert \in CaseAlert}

Status == {"New", "In Progress", "Resolved"}

CaseRecord == [alert : CaseAlert, severity : {"low", "medium", "high", "critical"},
               status : Status, observables : SUBSET AnyIndicator]

CasesTyped ==
  /\ cases \in Seq(CaseRecord)
  /\ creation \in [Caller -> {Unoccupied} \cup
                     [alert : CaseAlert, case : Nat \ {0}, next : Nat \ {0}]]

\* An indicator is an observable of the case, or its request failed.
Accounted(k, x) == x \in cases[k].observables \/ <<k, x>> \in dropped

AccountedNext(k, x) == x \in cases'[k].observables \/ <<k, x>> \in dropped'

\* A creation has accounted for the indicators before the next one.
CreationsOnTheirWay ==
  \A c \in Caller : Creating(c) =>
    /\ creation[c].case \in DOMAIN cases
    /\ cases[creation[c].case].alert = creation[c].alert
    /\ \A i \in Observables(creation[c].alert) :
         i < creation[c].next => Accounted(creation[c].case, creation[c].alert.indicators[i])

OnlyDue == \A k \in DOMAIN cases : cases[k].observables \subseteq Due(cases[k].alert)

ReturnedAreDone ==
  \A k \in returned :
    k \in DOMAIN cases /\ (k \in unnamed \/ \A x \in Due(cases[k].alert) : Accounted(k, x))

\* Nobody adds to a case that was not named.
UnnamedAreBare ==
  /\ \A k \in unnamed : k \in DOMAIN cases /\ cases[k].observables = {}
  /\ \A c \in Caller : Creating(c) => creation[c].case \notin unnamed

CaseInv == CasesTyped /\ CreationsOnTheirWay /\ OnlyDue /\ ReturnedAreDone /\ UnnamedAreBare

\* What no step takes back.
Grows ==
  /\ DOMAIN cases \subseteq DOMAIN cases'
  /\ \A k \in DOMAIN cases : /\ cases'[k].alert = cases[k].alert
                             /\ cases[k].observables \subseteq cases'[k].observables
  /\ dropped \subseteq dropped'

LEMMA CaseInitInv == CaseServiceInit => CaseInv
<1> SUFFICES ASSUME CaseServiceInit PROVE CaseInv
  OBVIOUS
<1>1. /\ cases = <<>> /\ DOMAIN cases = {} /\ returned = {} /\ unnamed = {}
      /\ creation = [c \in Caller |-> Unoccupied]
  BY DEF CaseServiceInit
<1>2. CreationsOnTheirWay /\ UnnamedAreBare
  BY <1>1 DEF CreationsOnTheirWay, UnnamedAreBare, Creating, Unoccupied
<1> QED BY <1>1, <1>2 DEF CaseInv, CasesTyped, OnlyDue, ReturnedAreDone

LEMMA StillAccounted ==
  ASSUME Grows, NEW k \in DOMAIN cases, NEW x, Accounted(k, x)
  PROVE  AccountedNext(k, x)
BY DEF Grows, Accounted, AccountedNext

LEMMA StillReturned ==
  ASSUME Grows, ReturnedAreDone, NEW k \in returned
  PROVE  k \in DOMAIN cases' /\ (k \in unnamed \/ \A x \in Due(cases'[k].alert) : AccountedNext(k, x))
<1>1. k \in DOMAIN cases /\ k \in DOMAIN cases' /\ cases'[k].alert = cases[k].alert
  BY DEF Grows, ReturnedAreDone
<1>2. ASSUME NEW x \in Due(cases'[k].alert), k \notin unnamed PROVE AccountedNext(k, x)
  BY <1>1, <1>2, StillAccounted DEF ReturnedAreDone
<1> QED BY <1>1, <1>2

LEMMA NobodyReturned ==
  ASSUME Grows, ReturnedAreDone, UNCHANGED <<returned, unnamed>>
  PROVE  ReturnedAreDone'
<1> SUFFICES ASSUME NEW k \in returned
             PROVE  /\ k \in DOMAIN cases'
                    /\ k \in unnamed \/ \A x \in Due(cases'[k].alert) : AccountedNext(k, x)
  BY DEF ReturnedAreDone, Accounted, AccountedNext
<1> QED BY StillReturned

LEMMA StillOnTheWay ==
  ASSUME CaseInv, Grows, NEW c \in Caller, Creating(c)
  PROVE  /\ creation[c].case \in DOMAIN cases'
         /\ cases'[creation[c].case].alert = creation[c].alert
         /\ \A i \in Observables(creation[c].alert) :
              i < creation[c].next => AccountedNext(creation[c].case, creation[c].alert.indicators[i])
<1>1. /\ creation[c].case \in DOMAIN cases
      /\ cases[creation[c].case].alert = creation[c].alert
      /\ \A i \in Observables(creation[c].alert) :
           i < creation[c].next => Accounted(creation[c].case, creation[c].alert.indicators[i])
  BY DEF CaseInv, CreationsOnTheirWay
<1>2. creation[c].case \in DOMAIN cases' /\ cases'[creation[c].case].alert = creation[c].alert
  BY <1>1 DEF Grows
<1>3. ASSUME NEW i \in Observables(creation[c].alert), i < creation[c].next
      PROVE  AccountedNext(creation[c].case, creation[c].alert.indicators[i])
  BY <1>1, <1>3, StillAccounted
<1> QED BY <1>2, <1>3

LEMMA CreateCaseInv ==
  ASSUME CaseInv, NEW c \in Caller, NEW alert \in CaseAlert, CreateCase(c, alert)
  PROVE  CaseInv'
<1> DEFINE n == Len(cases) + 1
           new == NewCase(alert)
<1>0. /\ CasesTyped /\ CreationsOnTheirWay /\ OnlyDue /\ ReturnedAreDone /\ UnnamedAreBare
      /\ Len(cases) \in Nat
  BY DEF CaseInv, CasesTyped
<1>1. PICK r \in Response, named \in BOOLEAN :
        /\ cases' = IF r.effect THEN Append(cases, new) ELSE cases
        /\ creation' = IF r.returns /\ named
                       THEN [creation EXCEPT ![c] = [alert |-> alert, case |-> n, next |-> 1]]
                       ELSE creation
        /\ returned' = IF r.returns /\ ~named THEN returned \cup {n} ELSE returned
        /\ unnamed' = IF r.returns /\ ~named THEN unnamed \cup {n} ELSE unnamed
  BY DEF CreateCase
<1>2. UNCHANGED dropped /\ ~Creating(c) /\ (r.returns => r.effect)
  BY DEF CreateCase, Response
<1>3. new \in CaseRecord /\ new.alert = alert /\ new.observables = {}
  BY CaseAssumption DEF NewCase, CaseRecord, MapSeverity, Status
<1> HIDE DEF new
<1>4. cases' \in Seq(CaseRecord) /\ (\A k \in DOMAIN cases : k \in DOMAIN cases' /\ cases'[k] = cases[k])
  BY <1>0, <1>1, <1>3 DEF CasesTyped
<1>5. r.effect => n \in DOMAIN cases' /\ cases'[n] = new /\ DOMAIN cases' = DOMAIN cases \cup {n}
  BY <1>0, <1>1, <1>3 DEF CasesTyped
<1>6. Grows
  BY <1>2, <1>4 DEF Grows
<1>7. OnlyDue'
  <2>1. CASE r.effect
    BY <1>0, <1>3, <1>4, <1>5, <2>1 DEF OnlyDue
  <2>2. CASE ~r.effect
    BY <1>0, <1>1, <2>2 DEF OnlyDue
  <2> QED BY <2>1, <2>2
<1>8. CasesTyped'
  <2>1. [alert |-> alert, case |-> n, next |-> 1] \in [alert : CaseAlert, case : Nat \ {0}, next : Nat \ {0}]
    BY <1>0
  <2> QED BY <1>0, <1>1, <1>4, <2>1 DEF CasesTyped
<1>9. CreationsOnTheirWay'
  <2> SUFFICES ASSUME NEW d \in Caller, Creating(d)'
               PROVE  /\ creation'[d].case \in DOMAIN cases'
                      /\ cases'[creation'[d].case].alert = creation'[d].alert
                      /\ \A i \in Observables(creation'[d].alert) :
                           i < creation'[d].next =>
                             AccountedNext(creation'[d].case, creation'[d].alert.indicators[i])
    BY DEF CreationsOnTheirWay, Accounted, AccountedNext
  <2>1. CASE r.returns /\ named /\ d = c
    <3>1. creation'[d] = [alert |-> alert, case |-> n, next |-> 1]
      BY <1>0, <1>1, <2>1 DEF CasesTyped
    <3>2. \A i \in Observables(alert) : ~(i < 1)
      BY CaseAssumption DEF Observables
    <3> QED BY <1>2, <1>3, <1>5, <2>1, <3>1, <3>2
  <2>2. CASE ~(r.returns /\ named /\ d = c)
    <3>1. creation'[d] = creation[d]
      BY <1>0, <1>1, <2>2 DEF CasesTyped
    <3>2. Creating(d)
      BY <3>1 DEF Creating
    <3> QED BY <1>6, <3>1, <3>2, StillOnTheWay
  <2> QED BY <2>1, <2>2
<1>10. ReturnedAreDone'
  <2> SUFFICES ASSUME NEW k \in returned'
               PROVE  /\ k \in DOMAIN cases'
                      /\ k \in unnamed' \/ \A x \in Due(cases'[k].alert) : AccountedNext(k, x)
    BY DEF ReturnedAreDone, Accounted, AccountedNext
  <2>1. CASE k \in returned
    BY <1>0, <1>1, <1>6, <2>1, StillReturned
  <2>2. CASE k \notin returned
    BY <1>1, <1>2, <1>5, <2>2
  <2> QED BY <2>1, <2>2
<1>11. n \notin unnamed /\ n \notin DOMAIN cases
  BY <1>0 DEF UnnamedAreBare, CasesTyped
<1>12. UnnamedAreBare'
  <2>1. \A k \in unnamed' : k \in DOMAIN cases' /\ cases'[k].observables = {}
    <3> SUFFICES ASSUME NEW k \in unnamed' PROVE k \in DOMAIN cases' /\ cases'[k].observables = {}
      OBVIOUS
    <3>1. CASE k \in unnamed
      BY <1>0, <1>4, <3>1 DEF UnnamedAreBare
    <3>2. CASE k \notin unnamed
      BY <1>1, <1>2, <1>3, <1>5, <3>2
    <3> QED BY <3>1, <3>2
  <2>2. ASSUME NEW d \in Caller, Creating(d)' PROVE creation'[d].case \notin unnamed'
    <3>1. CASE r.returns /\ named /\ d = c
      <4>1. creation'[d].case = n /\ unnamed' = unnamed
        BY <1>0, <1>1, <3>1 DEF CasesTyped
      <4> QED BY <1>11, <4>1
    <3>2. CASE ~(r.returns /\ named /\ d = c)
      <4>1. creation'[d] = creation[d] /\ Creating(d)
        BY <1>0, <1>1, <2>2, <3>2 DEF CasesTyped, Creating
      <4>2. creation[d].case \in DOMAIN cases /\ creation[d].case \notin unnamed
        BY <1>0, <4>1 DEF CreationsOnTheirWay, UnnamedAreBare
      <4> QED BY <1>1, <1>11, <4>1, <4>2
    <3> QED BY <3>1, <3>2
  <2> QED BY <2>1, <2>2 DEF UnnamedAreBare
<1> QED BY <1>7, <1>8, <1>9, <1>10, <1>12 DEF CaseInv

LEMMA AddObservableInv ==
  ASSUME CaseInv, NEW c \in Caller, AddObservable(c)
  PROVE  CaseInv'
<1> DEFINE n == creation[c].next
           j == creation[c].case
           a == creation[c].alert
           x == a.indicators[n]
<1>0. CasesTyped /\ CreationsOnTheirWay /\ OnlyDue /\ ReturnedAreDone /\ UnnamedAreBare
  BY DEF CaseInv
<1>c. Creating(c) /\ n \in Observables(a) /\ n \in Nat /\ a \in CaseAlert
  <2>1. Creating(c) /\ n \in Observables(a)
    BY DEF AddObservable
  <2>2. creation[c] \in [alert : CaseAlert, case : Nat \ {0}, next : Nat \ {0}]
    BY <1>0, <2>1 DEF CasesTyped, Creating, Unoccupied
  <2> QED BY <2>1, <2>2
<1>j. j \in DOMAIN cases /\ cases[j].alert = a
  BY <1>0, <1>c DEF CreationsOnTheirWay
<1>1. PICK r \in Response :
        /\ cases' = IF r.effect THEN [cases EXCEPT ![j].observables = @ \cup {x}] ELSE cases
        /\ dropped' = IF r.effect THEN dropped ELSE dropped \cup {<<j, x>>}
        /\ creation' = [creation EXCEPT ![c].next = NextObservable(c, r.returns)]
  BY DEF AddObservable
<1>x. x \in Due(a) /\ x \in AnyIndicator
  BY <1>c DEF Due, AnyIndicator
<1>3. [cases[j] EXCEPT !.observables = @ \cup {x}] \in CaseRecord
  <2>1. cases[j] \in CaseRecord
    BY <1>0, <1>j DEF CasesTyped
  <2>2. cases[j].observables \cup {x} \in SUBSET AnyIndicator
    BY <1>x, <2>1 DEF CaseRecord
  <2> HIDE DEF x
  <2> QED BY <2>1, <2>2 DEF CaseRecord
<1>4. /\ cases' \in Seq(CaseRecord) /\ DOMAIN cases' = DOMAIN cases
      /\ \A k \in DOMAIN cases : k # j => cases'[k] = cases[k]
      /\ cases'[j].alert = cases[j].alert
      /\ cases'[j].observables = IF r.effect THEN cases[j].observables \cup {x} ELSE cases[j].observables
  <2>1. CASE r.effect
    <3> DEFINE e == [cases[j] EXCEPT !.observables = @ \cup {x}]
    <3>1. e.alert = cases[j].alert /\ e.observables = cases[j].observables \cup {x}
      BY <1>0, <1>j DEF CasesTyped, CaseRecord
    <3>2. cases' = [cases EXCEPT ![j] = e] /\ e \in CaseRecord
      BY <1>1, <1>3, <2>1
    <3> HIDE DEF e
    <3>3. /\ cases' \in Seq(CaseRecord) /\ DOMAIN cases' = DOMAIN cases
          /\ \A k \in DOMAIN cases : k # j => cases'[k] = cases[k]
          /\ cases'[j] = e
      BY <1>0, <1>j, <3>2 DEF CasesTyped
    <3> QED BY <2>1, <3>1, <3>3
  <2>2. CASE ~r.effect
    <3>1. cases' = cases
      BY <1>1, <2>2
    <3> QED BY <1>0, <2>2, <3>1 DEF CasesTyped
  <2> QED BY <2>1, <2>2
<1>5. Grows
  <2>1. dropped \subseteq dropped'
    BY <1>1
  <2>2. ASSUME NEW k \in DOMAIN cases
        PROVE  cases'[k].alert = cases[k].alert /\ cases[k].observables \subseteq cases'[k].observables
    BY <1>4
  <2> QED BY <1>4, <2>1, <2>2 DEF Grows
<1>6. AccountedNext(j, x)
  BY <1>1, <1>4 DEF AccountedNext
<1>7. OnlyDue'
  BY <1>0, <1>4, <1>j, <1>x DEF OnlyDue
<1>8. /\ creation'[c] = [creation[c] EXCEPT !.next = n + 1]
      /\ \A d \in Caller : d # c => creation'[d] = creation[d]
      /\ creation' \in [Caller -> {Unoccupied} \cup
                     [alert : CaseAlert, case : Nat \ {0}, next : Nat \ {0}]]
      /\ creation'[c].case = j /\ creation'[c].alert = a /\ creation'[c].next = n + 1
  <2>1. creation[c] \in [alert : CaseAlert, case : Nat \ {0}, next : Nat \ {0}]
    BY <1>0, <1>c DEF CasesTyped, Creating, Unoccupied
  <2> DEFINE e == [creation[c] EXCEPT !.next = n + 1]
  <2>2. /\ e \in [alert : CaseAlert, case : Nat \ {0}, next : Nat \ {0}]
        /\ e.case = j /\ e.alert = a /\ e.next = n + 1
    BY <2>1
  <2>3. creation' = [creation EXCEPT ![c] = e]
    BY <1>1 DEF NextObservable
  <2> HIDE DEF e
  <2>4. /\ creation' \in [Caller -> {Unoccupied} \cup
                     [alert : CaseAlert, case : Nat \ {0}, next : Nat \ {0}]]
        /\ creation'[c] = e /\ \A d \in Caller : d # c => creation'[d] = creation[d]
    BY <1>0, <2>2, <2>3 DEF CasesTyped
  <2> QED BY <2>2, <2>4 DEF e
<1>9. CreationsOnTheirWay'
  <2> SUFFICES ASSUME NEW d \in Caller, Creating(d)'
               PROVE  /\ creation'[d].case \in DOMAIN cases'
                      /\ cases'[creation'[d].case].alert = creation'[d].alert
                      /\ \A i \in Observables(creation'[d].alert) :
                           i < creation'[d].next =>
                             AccountedNext(creation'[d].case, creation'[d].alert.indicators[i])
    BY DEF CreationsOnTheirWay, Accounted, AccountedNext
  <2>1. CASE d = c
    <3>1. \A i \in Observables(a) : i < n => AccountedNext(j, a.indicators[i])
      BY <1>5, <1>c, StillOnTheWay
    <3>2. \A i \in Observables(a) : i < n + 1 => i < n \/ i = n
      BY <1>c, CaseAssumption DEF Observables
    <3>3. j \in DOMAIN cases' /\ cases'[j].alert = a
      BY <1>4, <1>j
    <3> QED BY <1>6, <1>8, <2>1, <3>1, <3>2, <3>3
  <2>2. CASE d # c
    <3>1. creation'[d] = creation[d] /\ Creating(d)
      BY <1>8, <2>2 DEF Creating
    <3> QED BY <1>5, <3>1, StillOnTheWay
  <2> QED BY <2>1, <2>2
<1>10. ReturnedAreDone'
  <2>1. UNCHANGED <<returned, unnamed>>
    BY DEF AddObservable
  <2> QED BY <1>0, <1>5, <2>1, NobodyReturned
<1>11. UnnamedAreBare'
  <2>1. UNCHANGED unnamed /\ j \notin unnamed
    BY <1>0, <1>c DEF AddObservable, UnnamedAreBare
  <2>2. \A k \in unnamed : k \in DOMAIN cases' /\ cases'[k].observables = {}
    BY <1>0, <1>4, <2>1 DEF UnnamedAreBare
  <2>3. \A d \in Caller : Creating(d)' => Creating(d) /\ creation'[d].case = creation[d].case
    BY <1>8, <1>c DEF Creating
  <2> QED BY <1>0, <2>1, <2>2, <2>3 DEF UnnamedAreBare
<1> QED BY <1>4, <1>7, <1>8, <1>9, <1>10, <1>11 DEF CaseInv, CasesTyped

LEMMA CaseReturnsInv ==
  ASSUME CaseInv, NEW c \in Caller, CreateCaseFromAlert(c)
  PROVE  CaseInv'
<1>0. CasesTyped /\ CreationsOnTheirWay /\ OnlyDue /\ ReturnedAreDone /\ UnnamedAreBare
  BY DEF CaseInv
<1>1. /\ Creating(c) /\ creation[c].next \notin Observables(creation[c].alert)
      /\ returned' = returned \cup {creation[c].case}
      /\ creation' = [creation EXCEPT ![c] = Unoccupied]
      /\ UNCHANGED <<cases, dropped, unnamed>>
  BY DEF CreateCaseFromAlert
<1>2. creation[c] \in [alert : CaseAlert, case : Nat \ {0}, next : Nat \ {0}]
  BY <1>0, <1>1 DEF CasesTyped, Creating, Unoccupied
<1>3. \A i \in Observables(creation[c].alert) : i < creation[c].next
  BY <1>1, <1>2, CaseAssumption DEF Observables
<1>4. /\ creation[c].case \in DOMAIN cases
      /\ \A x \in Due(cases[creation[c].case].alert) : Accounted(creation[c].case, x)
  BY <1>0, <1>1, <1>3 DEF CreationsOnTheirWay, Due
<1>5. ReturnedAreDone'
  BY <1>0, <1>1, <1>4 DEF ReturnedAreDone, Accounted
<1>6. CreationsOnTheirWay'
  <2>1. \A d \in Caller : Creating(d)' => creation'[d] = creation[d] /\ Creating(d)
    BY <1>0, <1>1 DEF CasesTyped, Creating, Unoccupied
  <2>2. UNCHANGED <<cases, dropped>>
    BY <1>1
  <2> QED BY <1>0, <2>1, <2>2 DEF CreationsOnTheirWay, Accounted
<1>7. CasesTyped' /\ OnlyDue'
  BY <1>0, <1>1 DEF CasesTyped, OnlyDue
<1>8. UnnamedAreBare'
  <2>1. \A d \in Caller : Creating(d)' => creation'[d] = creation[d] /\ Creating(d)
    BY <1>0, <1>1 DEF CasesTyped, Creating, Unoccupied
  <2> QED BY <1>0, <1>1, <2>1 DEF UnnamedAreBare
<1> QED BY <1>5, <1>6, <1>7, <1>8 DEF CaseInv

LEMMA UpdateCaseInv ==
  ASSUME CaseInv, NEW k \in DOMAIN cases, NEW status \in Status, UpdateCase(k, status)
  PROVE  CaseInv'
<1>0. CasesTyped /\ CreationsOnTheirWay /\ OnlyDue /\ ReturnedAreDone /\ UnnamedAreBare
  BY DEF CaseInv
<1> DEFINE e == [cases[k] EXCEPT !.status = status]
<1>1. e \in CaseRecord /\ e.alert = cases[k].alert /\ e.observables = cases[k].observables
  <2>1. cases[k] \in CaseRecord
    BY <1>0 DEF CasesTyped
  <2> QED BY <2>1 DEF CaseRecord
<1>2. (cases' = [cases EXCEPT ![k] = e] \/ cases' = cases) /\ UNCHANGED <<creation, dropped, returned, unnamed>>
  BY DEF UpdateCase
<1> HIDE DEF e
<1>3. /\ cases' \in Seq(CaseRecord) /\ DOMAIN cases' = DOMAIN cases
      /\ \A l \in DOMAIN cases : /\ cases'[l].alert = cases[l].alert
                                 /\ cases'[l].observables = cases[l].observables
  BY <1>0, <1>1, <1>2 DEF CasesTyped
<1>4. Grows /\ OnlyDue'
  BY <1>0, <1>2, <1>3 DEF Grows, OnlyDue
<1>5. CreationsOnTheirWay'
  <2>1. \A c \in Caller : Creating(c)' => Creating(c)
    BY <1>2 DEF Creating
  <2>2. UNCHANGED creation
    BY <1>2
  <2> QED BY <1>4, <2>1, <2>2, StillOnTheWay DEF CreationsOnTheirWay, Accounted, AccountedNext
<1>6. ReturnedAreDone'
  BY <1>0, <1>2, <1>4, NobodyReturned
<1>7. UnnamedAreBare'
  BY <1>0, <1>2, <1>3 DEF UnnamedAreBare, Creating
<1> QED BY <1>0, <1>2, <1>3, <1>4, <1>5, <1>6, <1>7 DEF CaseInv, CasesTyped

LEMMA CaseNextInv == CaseInv /\ [CaseServiceNext]_caseService => CaseInv'
<1> SUFFICES ASSUME CaseInv, [CaseServiceNext]_caseService PROVE CaseInv'
  OBVIOUS
<1>1. ASSUME NEW c \in Caller, NEW alert \in CaseAlert, CreateCase(c, alert) PROVE CaseInv'
  BY <1>1, CreateCaseInv
<1>2. ASSUME NEW c \in Caller, AddObservable(c) \/ CreateCaseFromAlert(c) PROVE CaseInv'
  BY <1>2, AddObservableInv, CaseReturnsInv
<1>3. ASSUME NEW k \in DOMAIN cases, CloseCase(k) \/ UpdateCase(k, "In Progress") PROVE CaseInv'
  <2>1. "Resolved" \in Status /\ "In Progress" \in Status
    BY DEF Status
  <2>2. PICK status \in Status : UpdateCase(k, status)
    BY <1>3, <2>1 DEF CloseCase
  <2> QED BY <2>2, UpdateCaseInv
<1>4. CASE UNCHANGED caseService
  <2>1. UNCHANGED <<cases, creation, dropped, returned, unnamed>>
    BY <1>4 DEF caseService
  <2> QED BY <2>1 DEF CaseInv, CasesTyped, CreationsOnTheirWay, Creating, OnlyDue, ReturnedAreDone,
                      UnnamedAreBare, Accounted
<1> QED BY <1>1, <1>2, <1>3, <1>4 DEF CaseServiceNext

(* Every case the caller was given has, of its alert's first indicators,   *)
(* exactly those whose request did not fail, or none if the answer had no   *)
(* "id", for any number of callers and cases.                               *)
THEOREM CasesAreAlwaysWhole ==
  CaseServiceInit /\ [][CaseServiceNext]_caseService => []ReturnedCasesAreWhole
<1>1. CaseInv => ReturnedCasesAreWhole
  BY DEF CaseInv, OnlyDue, ReturnedAreDone, UnnamedAreBare, ReturnedCasesAreWhole, Accounted
<1> QED BY <1>1, CaseInitInv, CaseNextInv, PTL

-----------------------------------------------------------------------------
\* The memory of an agent.

InRedis == live \cup ToSet(history)

Coming == {task[t].entry : t \in {u \in Task : Adding(u)}}

TaskState == [at : {"idle", "setex", "lpush", "ltrim", "keys", "delete", "unlist"},
              entry : Entry \cup {"none"}, keys : SUBSET Entry, due : SUBSET Entry]

MemoryTyped ==
  /\ live \subseteq Entry
  /\ history \in Seq(Entry)
  /\ task \in [Task -> TaskState]
  /\ \A t \in Task : Adding(t) => task[t].entry \in Entry

(* An entry is remembered once, so nothing that was forgotten and nothing   *)
(* that is to be forgotten is on its way into Redis.                        *)
EntriesApart ==
  /\ InRedis \cup Coming \cup forgotten \subseteq remembered
  /\ forgotten \cap (InRedis \cup Coming) = {}
  /\ \A t \in Task : task[t].due \subseteq remembered /\ task[t].due \cap Coming = {}

\* What is still to be deleted of the entries a clearing is to forget.
ClearingsReach ==
  \A t \in Task : /\ task[t].at = "delete" => task[t].due \cap live \subseteq task[t].keys
                  /\ task[t].at = "unlist" => task[t].due \cap live = {}

MemoryInv == MemoryTyped /\ EntriesApart /\ ClearingsReach

LEMMA MemoryInitInv == AgentMemoryInit => MemoryInv
<1> SUFFICES ASSUME AgentMemoryInit PROVE MemoryInv
  OBVIOUS
<1>1. /\ live = {} /\ history = <<>> /\ remembered = {} /\ forgotten = {}
      /\ task = [t \in Task |-> Free]
  BY DEF AgentMemoryInit
<1>2. Free \in TaskState /\ Free.at = "idle" /\ Free.due = {}
  BY DEF Free, TaskState
<1> HIDE DEF Free
<1>3. \A t \in Task : task[t] = Free /\ ~Adding(t)
  BY <1>1, <1>2 DEF Adding
<1>4. MemoryTyped
  BY <1>1, <1>2, <1>3 DEF MemoryTyped
<1>5. ToSet(history) = {} /\ Coming = {}
  BY <1>1, <1>3 DEF ToSet, Coming
<1>6. EntriesApart
  BY <1>1, <1>2, <1>3, <1>5 DEF EntriesApart, InRedis
<1>7. ClearingsReach
  BY <1>2, <1>3 DEF ClearingsReach
<1> QED BY <1>4, <1>6, <1>7 DEF MemoryInv

(* A step that adds nothing but what was on its way leaves the entries      *)
(* apart.                                                                   *)
LEMMA NothingNew ==
  ASSUME EntriesApart,
         InRedis' \subseteq InRedis \cup Coming, Coming' \subseteq Coming,
         UNCHANGED <<remembered, forgotten>>,
         \A t \in Task : task'[t].due \subseteq task[t].due
  PROVE  EntriesApart'
BY DEF EntriesApart

(* The other tasks' clearings are not disturbed by one that is added.       *)
LEMMA StillReach ==
  ASSUME EntriesApart, ClearingsReach, live' \subseteq live \cup Coming,
         NEW t \in Task, task'[t] = task[t]
  PROVE  /\ task'[t].at = "delete" => task'[t].due \cap live' \subseteq task'[t].keys
         /\ task'[t].at = "unlist" => task'[t].due \cap live' = {}
<1>1. task[t].due \cap live' \subseteq task[t].due \cap live
  BY DEF EntriesApart
<1> QED BY <1>1 DEF ClearingsReach

(* A task that goes from one state to another, as most steps do.            *)
LEMMA OneTask ==
  ASSUME MemoryTyped, NEW t \in Task, NEW s \in TaskState,
         task' = [task EXCEPT ![t] = s],
         s.at \in {"setex", "lpush", "ltrim"} => Adding(t) /\ s.entry = task[t].entry
  PROVE  /\ task' \in [Task -> TaskState]
         /\ task'[t] = s
         /\ \A u \in Task : u # t => task'[u] = task[u]
         /\ Coming' \subseteq Coming
         /\ \A u \in Task : Adding(u)' => task'[u].entry \in Entry
<1>1. task' \in [Task -> TaskState] /\ task'[t] = s /\ \A u \in Task : u # t => task'[u] = task[u]
  BY DEF MemoryTyped
<1>2. \A u \in Task : Adding(u)' => Adding(u) /\ task'[u].entry = task[u].entry
  <2> SUFFICES ASSUME NEW u \in Task, Adding(u)' PROVE Adding(u) /\ task'[u].entry = task[u].entry
    OBVIOUS
  <2>1. CASE u = t
    BY <1>1, <2>1 DEF Adding
  <2>2. CASE u # t
    BY <1>1, <2>2 DEF Adding
  <2> QED BY <2>1, <2>2
<1>3. Coming' \subseteq Coming
  BY <1>2 DEF Coming
<1>4. \A u \in Task : Adding(u)' => task'[u].entry \in Entry
  BY <1>2 DEF MemoryTyped
<1> QED BY <1>1, <1>3, <1>4

LEMMA PushedIds ==
  ASSUME history \in Seq(Entry), NEW e \in Entry
  PROVE  /\ <<e>> \o history \in Seq(Entry)
         /\ ToSet(<<e>> \o history) \subseteq ToSet(history) \cup {e}
<1>1. <<e>> \o history \in Seq(Entry) /\ Len(<<e>> \o history) = Len(history) + 1
  OBVIOUS
<1>2. ASSUME NEW i \in DOMAIN (<<e>> \o history)
      PROVE  (<<e>> \o history)[i] = e \/ \E j \in DOMAIN history : (<<e>> \o history)[i] = history[j]
  <2>1. CASE i = 1
    BY <2>1
  <2>2. CASE i # 1
    <3>1. i - 1 \in DOMAIN history /\ (<<e>> \o history)[i] = history[i - 1]
      BY <1>1, <2>2
    <3> QED BY <3>1
  <2> QED BY <2>1, <2>2
<1> QED BY <1>1, <1>2 DEF ToSet

LEMMA TrimmedIds ==
  ASSUME history \in Seq(Entry), HistorySize \in Nat, Len(history) > HistorySize
  PROVE  /\ SubSeq(history, 1, HistorySize) \in Seq(Entry)
         /\ ToSet(SubSeq(history, 1, HistorySize)) \subseteq ToSet(history)
<1> DEFINE s == SubSeq(history, 1, HistorySize)
<1>1. s \in Seq(Entry) /\ Len(s) = HistorySize
  OBVIOUS
<1>2. \A i \in DOMAIN s : i \in DOMAIN history /\ s[i] = history[i]
  BY <1>1
<1> QED BY <1>1, <1>2 DEF ToSet

LEMMA AddingSteps ==
  ASSUME HistorySize \in Nat, MemoryInv, NEW t \in Task,
         SetEntry(t) \/ PushId(t) \/ TrimHistory(t)
  PROVE  MemoryInv'
<1>0. MemoryTyped /\ EntriesApart /\ ClearingsReach
  BY DEF MemoryInv
<1>a. Adding(t) /\ task[t].entry \in Coming /\ task[t].entry \in Entry /\ task[t] \in TaskState
  <2>1. Adding(t)
    BY DEF SetEntry, PushId, TrimHistory, Adding
  <2> QED BY <1>0, <2>1 DEF MemoryTyped, Coming
<1>f. Free \in TaskState /\ Free.at = "idle" /\ Free.due = {}
  BY DEF Free, TaskState
<1>1. PICK s \in TaskState :
        /\ task' = [task EXCEPT ![t] = s]
        /\ s = Free \/ (s.at \in {"lpush", "ltrim"} /\ s.entry = task[t].entry /\ s.due = task[t].due)
  <2> DEFINE at(x) == [task[t] EXCEPT !.at = x]
  <2>1. \A x \in {"lpush", "ltrim"} : /\ at(x) \in TaskState
          /\ at(x).at = x /\ at(x).entry = task[t].entry /\ at(x).due = task[t].due
    BY <1>a DEF TaskState
  <2>2. \/ task' = [task EXCEPT ![t] = at("lpush")]
        \/ task' = [task EXCEPT ![t] = at("ltrim")]
        \/ task' = [task EXCEPT ![t] = Free]
    BY DEF SetEntry, PushId, TrimHistory
  <2> HIDE DEF at, Free
  <2> QED BY <1>f, <2>1, <2>2
<1>2. /\ task' \in [Task -> TaskState] /\ task'[t] = s
      /\ \A u \in Task : u # t => task'[u] = task[u]
      /\ Coming' \subseteq Coming
      /\ \A u \in Task : Adding(u)' => task'[u].entry \in Entry
  BY <1>0, <1>1, <1>a, <1>f, OneTask
<1>3. /\ live' \subseteq live \cup Coming /\ live' \subseteq Entry
      /\ UNCHANGED <<remembered, forgotten>>
  BY <1>0, <1>a DEF SetEntry, PushId, TrimHistory, MemoryTyped
<1>4. history' \in Seq(Entry) /\ ToSet(history') \subseteq ToSet(history) \cup Coming
  <2>1. \/ history' = history
        \/ history' = <<task[t].entry>> \o history
        \/ Len(history) > HistorySize /\ history' = SubSeq(history, 1, HistorySize)
    BY DEF SetEntry, PushId, TrimHistory
  <2> QED BY <1>0, <1>a, <2>1, PushedIds, TrimmedIds DEF MemoryTyped
<1>5. \A u \in Task : task'[u].due \subseteq task[u].due
  BY <1>1, <1>2, <1>f
<1>6. EntriesApart'
  <2>1. InRedis' \subseteq InRedis \cup Coming
    BY <1>3, <1>4 DEF InRedis
  <2> QED BY <1>0, <1>2, <1>3, <1>5, <2>1, NothingNew
<1>7. ClearingsReach'
  <2>1. task'[t].at \notin {"delete", "unlist"}
    BY <1>1, <1>2, <1>f
  <2>2. \A u \in Task : u # t => /\ task'[u].at = "delete" => task'[u].due \cap live' \subseteq task'[u].keys
                                 /\ task'[u].at = "unlist" => task'[u].due \cap live' = {}
    BY <1>0, <1>2, <1>3, StillReach
  <2> QED BY <2>1, <2>2 DEF ClearingsReach
<1>8. MemoryTyped'
  BY <1>2, <1>3, <1>4 DEF MemoryTyped
<1> QED BY <1>6, <1>7, <1>8 DEF MemoryInv

(* A clearing is to forget what is in Redis and not just being added.       *)
LEMMA ClearInv ==
  ASSUME MemoryInv, NEW t \in Task, Clear(t)
  PROVE  MemoryInv'
<1>0. MemoryTyped /\ EntriesApart /\ ClearingsReach
  BY DEF MemoryInv
<1> DEFINE due == InRedis \ Coming
           s == [Free EXCEPT !.at = "keys", !.due = due]
<1>1. task' = [task EXCEPT ![t] = s] /\ UNCHANGED <<live, history, remembered, forgotten>>
  BY DEF Clear, InRedis, Coming
<1>2. due \subseteq Entry
  BY <1>0 DEF MemoryTyped, InRedis, ToSet
<1>3. s \in TaskState /\ s.at = "keys" /\ s.due = due
  BY <1>2 DEF Free, TaskState
<1> HIDE DEF s
<1>4. /\ task' \in [Task -> TaskState] /\ task'[t] = s
      /\ \A u \in Task : u # t => task'[u] = task[u]
      /\ Coming' \subseteq Coming
      /\ \A u \in Task : Adding(u)' => task'[u].entry \in Entry
  BY <1>0, <1>1, <1>3, OneTask
<1>5. InRedis' = InRedis
  BY <1>1 DEF InRedis
<1>6. EntriesApart'
  <2>1. due \subseteq remembered /\ due \cap Coming' = {}
    BY <1>0, <1>4 DEF EntriesApart
  <2>2. \A u \in Task : task'[u].due \subseteq remembered' /\ task'[u].due \cap Coming' = {}
    BY <1>0, <1>1, <1>3, <1>4, <1>5, <2>1 DEF EntriesApart
  <2> QED BY <1>0, <1>1, <1>4, <1>5, <2>2 DEF EntriesApart
<1>7. ClearingsReach'
  BY <1>0, <1>1, <1>3, <1>4 DEF ClearingsReach
<1>8. MemoryTyped'
  BY <1>0, <1>1, <1>4 DEF MemoryTyped
<1> QED BY <1>6, <1>7, <1>8 DEF MemoryInv

LEMMA ClearingSteps ==
  ASSUME MemoryInv, NEW t \in Task, FindKeys(t) \/ DeleteKeys(t)
  PROVE  MemoryInv'
<1>0. MemoryTyped /\ EntriesApart /\ ClearingsReach
  BY DEF MemoryInv
<1>f. Free \in TaskState /\ Free.at = "idle" /\ Free.due = {}
  BY DEF Free, TaskState
<1>t. task[t] \in TaskState
  BY <1>0 DEF MemoryTyped
<1>1. PICK s \in TaskState :
        /\ task' = [task EXCEPT ![t] = s]
        /\ \/ s = Free
           \/ /\ s.at \in {"delete", "unlist"} /\ s.due = task[t].due
              /\ s.at = "delete" => s.due \cap live' \subseteq s.keys
              /\ s.at = "unlist" => s.due \cap live' = {}
  <2>1. CASE FindKeys(t)
    <3> DEFINE s(x) == [task[t] EXCEPT !.at = x, !.keys = live]
    <3>1. \A x \in {"delete", "unlist"} :
            s(x) \in TaskState /\ s(x).at = x /\ s(x).due = task[t].due /\ s(x).keys = live
      BY <1>0, <1>t DEF TaskState, MemoryTyped
    <3>2. /\ live' = live
          /\ \/ task' = [task EXCEPT ![t] = Free]
             \/ task' = [task EXCEPT ![t] = s("delete")]
             \/ live = {} /\ task' = [task EXCEPT ![t] = s("unlist")]
      BY <2>1 DEF FindKeys
    <3> HIDE DEF s, Free
    <3> QED BY <1>f, <3>1, <3>2
  <2>2. CASE DeleteKeys(t)
    <3> DEFINE s == [task[t] EXCEPT !.at = "unlist"]
    <3>1. s \in TaskState /\ s.at = "unlist" /\ s.due = task[t].due
      BY <1>t DEF TaskState
    <3>2. \/ task' = [task EXCEPT ![t] = Free]
          \/ task' = [task EXCEPT ![t] = s] /\ live' = live \ task[t].keys
      BY <2>2 DEF DeleteKeys, Answer
    <3>3. task[t].due \cap live \subseteq task[t].keys
      BY <1>0, <2>2 DEF DeleteKeys, ClearingsReach
    <3> HIDE DEF s, Free
    <3>4. s.at = "unlist" /\ (live' = live \ task[t].keys => s.due \cap live' = {})
      BY <3>1, <3>3
    <3> QED BY <1>f, <3>1, <3>2, <3>4
  <2> QED BY <2>1, <2>2
<1>2. /\ task' \in [Task -> TaskState] /\ task'[t] = s
      /\ \A u \in Task : u # t => task'[u] = task[u]
      /\ Coming' \subseteq Coming
      /\ \A u \in Task : Adding(u)' => task'[u].entry \in Entry
  BY <1>0, <1>1, <1>f, OneTask
<1>3. live' \subseteq live /\ UNCHANGED <<history, remembered, forgotten>>
  BY DEF FindKeys, DeleteKeys
<1>4. EntriesApart'
  <2>1. \A u \in Task : task'[u].due \subseteq task[u].due
    BY <1>1, <1>2, <1>f
  <2>2. InRedis' \subseteq InRedis
    BY <1>3 DEF InRedis
  <2> QED BY <1>0, <1>2, <1>3, <2>1, <2>2, NothingNew
<1>5. ClearingsReach'
  <2>1. /\ task'[t].at = "delete" => task'[t].due \cap live' \subseteq task'[t].keys
        /\ task'[t].at = "unlist" => task'[t].due \cap live' = {}
    BY <1>1, <1>2, <1>f
  <2>2. \A u \in Task : u # t => /\ task'[u].at = "delete" => task'[u].due \cap live' \subseteq task'[u].keys
                                 /\ task'[u].at = "unlist" => task'[u].due \cap live' = {}
    BY <1>0, <1>2, <1>3, StillReach
  <2> QED BY <2>1, <2>2 DEF ClearingsReach
<1>6. MemoryTyped'
  BY <1>0, <1>2, <1>3 DEF MemoryTyped
<1> QED BY <1>4, <1>5, <1>6 DEF MemoryInv

LEMMA DeleteHistoryInv ==
  ASSUME MemoryInv, NEW t \in Task, DeleteHistory(t)
  PROVE  MemoryInv'
<1>0. MemoryTyped /\ EntriesApart /\ ClearingsReach
  BY DEF MemoryInv
<1>f. Free \in TaskState /\ Free.at = "idle" /\ Free.due = {}
  BY DEF Free, TaskState
<1>1. PICK a \in Answer :
        /\ history' = IF a.effect THEN <<>> ELSE history
        /\ forgotten' = IF a.returns THEN forgotten \cup task[t].due ELSE forgotten
  BY DEF DeleteHistory
<1>a. a.returns => a.effect
  BY DEF Answer
<1>2. task' = [task EXCEPT ![t] = Free] /\ UNCHANGED <<live, remembered>>
      /\ task[t].due \cap live = {}
  BY <1>0 DEF DeleteHistory, ClearingsReach
<1>3. /\ task' \in [Task -> TaskState] /\ task'[t] = Free
      /\ \A u \in Task : u # t => task'[u] = task[u]
      /\ Coming' \subseteq Coming
      /\ \A u \in Task : Adding(u)' => task'[u].entry \in Entry
  BY <1>0, <1>2, <1>f, OneTask
<1>4. /\ history' \in Seq(Entry) /\ ToSet(history') \subseteq ToSet(history)
      /\ a.effect => ToSet(history') = {}
  BY <1>0, <1>1 DEF MemoryTyped, ToSet
<1>5. InRedis' \subseteq InRedis /\ (a.effect => InRedis' = live)
  BY <1>2, <1>4 DEF InRedis
<1>6. EntriesApart'
  <2>1. forgotten' \subseteq remembered /\ forgotten' \cap (InRedis' \cup Coming) = {}
    <3>1. CASE a.returns
      <4>1. forgotten' = forgotten \cup task[t].due /\ InRedis' = live
        BY <1>1, <1>a, <1>5, <3>1
      <4>2. live \subseteq InRedis
        BY DEF InRedis
      <4> QED BY <1>0, <1>2, <4>1, <4>2 DEF EntriesApart
    <3>2. CASE ~a.returns
      BY <1>0, <1>1, <1>5, <3>2 DEF EntriesApart
    <3> QED BY <3>1, <3>2
  <2>2. \A u \in Task : task'[u].due \subseteq task[u].due
    BY <1>3, <1>f
  <2> QED BY <1>0, <1>2, <1>3, <1>5, <2>1, <2>2 DEF EntriesApart
<1>7. ClearingsReach'
  BY <1>0, <1>2, <1>3, <1>f DEF ClearingsReach
<1>8. MemoryTyped'
  BY <1>0, <1>2, <1>3, <1>4 DEF MemoryTyped
<1> QED BY <1>6, <1>7, <1>8 DEF MemoryInv

LEMMA RememberShortInv ==
  ASSUME MemoryInv, NEW t \in Task, NEW e \in Entry, RememberShort(t, e)
  PROVE  MemoryInv'
<1>0. MemoryTyped /\ EntriesApart /\ ClearingsReach
  BY DEF MemoryInv
<1> DEFINE s == [Free EXCEPT !.at = "setex", !.entry = e]
<1>1. /\ task' = [task EXCEPT ![t] = s] /\ remembered' = remembered \cup {e} /\ e \notin remembered
      /\ UNCHANGED <<live, history, forgotten>>
  BY DEF RememberShort
<1>2. s \in TaskState /\ s.at = "setex" /\ s.entry = e /\ s.due = {}
  BY DEF Free, TaskState
<1> HIDE DEF s
<1>3. /\ task' \in [Task -> TaskState] /\ task'[t] = s
      /\ \A u \in Task : u # t => task'[u] = task[u]
  BY <1>0, <1>1, <1>2 DEF MemoryTyped
<1>4. \A u \in Task : Adding(u)' => task'[u].entry = e \/ (Adding(u) /\ task'[u].entry = task[u].entry)
  <2> SUFFICES ASSUME NEW u \in Task, Adding(u)'
               PROVE  task'[u].entry = e \/ (Adding(u) /\ task'[u].entry = task[u].entry)
    OBVIOUS
  <2>1. CASE u = t
    BY <1>2, <1>3, <2>1
  <2>2. CASE u # t
    BY <1>3, <2>2 DEF Adding
  <2> QED BY <2>1, <2>2
<1>5. Coming' \subseteq Coming \cup {e}
  BY <1>4 DEF Coming
<1>6. InRedis' = InRedis
  BY <1>1 DEF InRedis
<1>7. EntriesApart'
  <2>1. \A u \in Task : task'[u].due \subseteq task[u].due
    BY <1>2, <1>3
  <2>2. e \notin InRedis \cup Coming \cup forgotten
    BY <1>0, <1>1 DEF EntriesApart
  <2> QED BY <1>0, <1>1, <1>5, <1>6, <2>1, <2>2 DEF EntriesApart
<1>8. ClearingsReach'
  BY <1>0, <1>1, <1>2, <1>3 DEF ClearingsReach
<1>9. MemoryTyped'
  BY <1>0, <1>1, <1>3, <1>4 DEF MemoryTyped
<1> QED BY <1>7, <1>8, <1>9 DEF MemoryInv

(* The steps that leave the tasks alone.                                    *)
LEMMA MemoryOtherSteps ==
  ASSUME MemoryInv,
         \/ \E e \in Entry : Expire(e) \/ RememberLong(e)
         \/ \E id \in KnownIds : Forget(id)
         \/ Restart
         \/ UNCHANGED agentMemory
  PROVE  MemoryInv'
<1>0. MemoryTyped /\ EntriesApart /\ ClearingsReach
  BY DEF MemoryInv
<1>t. ASSUME UNCHANGED task PROVE Coming' = Coming /\ \A u \in Task : Adding(u)' = Adding(u)
  BY <1>t DEF Coming, Adding
<1>1. ASSUME live' \subseteq live, UNCHANGED <<history, task, remembered, forgotten>>
      PROVE  MemoryInv'
  <2>1. EntriesApart'
    <3>1. InRedis' \subseteq InRedis
      BY <1>1 DEF InRedis
    <3> QED BY <1>0, <1>1, <1>t, <3>1, NothingNew
  <2>2. ClearingsReach'
    BY <1>0, <1>1 DEF ClearingsReach
  <2>3. MemoryTyped'
    BY <1>0, <1>1, <1>t DEF MemoryTyped
  <2> QED BY <2>1, <2>2, <2>3 DEF MemoryInv
<1>2. ASSUME NEW e \in Entry, RememberLong(e) PROVE MemoryInv'
  <2>1. /\ remembered' = remembered \cup {e}
        /\ UNCHANGED <<live, history, task, forgotten>>
    BY <1>2 DEF RememberLong
  <2>2. InRedis' = InRedis /\ Coming' = Coming
    BY <1>t, <2>1 DEF InRedis
  <2>3. EntriesApart'
    BY <1>0, <2>1, <2>2 DEF EntriesApart
  <2>4. ClearingsReach' /\ MemoryTyped'
    BY <1>0, <1>t, <2>1 DEF ClearingsReach, MemoryTyped
  <2> QED BY <2>3, <2>4 DEF MemoryInv
<1>3. ASSUME NEW id, Forget(id) PROVE MemoryInv'
  BY <1>1, <1>3 DEF Forget
<1>4. CASE Restart
  <2>1. task' = [t \in Task |-> Free] /\ UNCHANGED <<live, history, remembered, forgotten>>
    BY <1>4 DEF Restart
  <2>2. Free \in TaskState /\ Free.at = "idle" /\ Free.due = {}
    BY DEF Free, TaskState
  <2> HIDE DEF Free
  <2>3. \A u \in Task : task'[u] = Free /\ ~Adding(u)'
    BY <2>1, <2>2 DEF Adding
  <2>4. Coming' = {} /\ InRedis' = InRedis
    BY <2>1, <2>3 DEF Coming, InRedis
  <2>5. EntriesApart'
    BY <1>0, <2>1, <2>2, <2>3, <2>4, NothingNew
  <2>6. ClearingsReach'
    BY <2>2, <2>3 DEF ClearingsReach
  <2>7. MemoryTyped'
    BY <1>0, <2>1, <2>2, <2>3 DEF MemoryTyped
  <2> QED BY <2>5, <2>6, <2>7 DEF MemoryInv
<1>5. CASE \E e \in Entry : Expire(e)
  BY <1>1, <1>5 DEF Expire
<1>6. CASE UNCHANGED agentMemory
  BY <1>1, <1>6 DEF agentMemory
<1> QED BY <1>2, <1>3, <1>4, <1>5, <1>6

(* What a successful clearing was to remove is in no key and no list of the *)
(* short-term memory afterwards, for any number of tasks, entries and       *)
(* restarts and whatever else tasks remember meanwhile.                     *)
THEOREM ClearedIsAlwaysForgotten ==
  ASSUME HistorySize \in Nat
  PROVE  AgentMemoryInit /\ [][AgentMemoryNext]_agentMemory => []ClearedIsForgotten
<1>1. MemoryInv /\ [AgentMemoryNext]_agentMemory => MemoryInv'
  BY AddingSteps, ClearInv, ClearingSteps, DeleteHistoryInv, RememberShortInv, MemoryOtherSteps
  DEF AgentMemoryNext
<1>2. MemoryInv => ClearedIsForgotten
  BY DEF MemoryInv, EntriesApart, ClearedIsForgotten, InRedis
<1> QED BY <1>1, <1>2, MemoryInitInv, PTL

-----------------------------------------------------------------------------
\* The memory of an incident.

Note == Writer \X Nat

WriterState == [at : {"idle", "trim", "note"}, read : Seq(Note)]

IncidentTyped ==
  /\ runs \in Seq(Nat) /\ pushed \in Nat
  /\ notes \in Seq(Note)
  /\ writer \in [Writer -> WriterState]

\* The list holds the newest runs, without a gap, and enough of them.
NewestRunsKept ==
  /\ Len(runs) <= pushed
  /\ pushed <= Len(runs) \/ KeptRuns <= Len(runs)
  /\ \A i \in 1 .. Len(runs) : runs[i] = pushed - Len(runs) + i

\* Without a race one writer at most has read, and what it read is still there.
ReadIsCurrent ==
  ~raced => /\ noted \subseteq ToSet(notes)
            /\ \A v, w \in Writer : writer[v].at = "note" /\ writer[w].at = "note" => v = w
            /\ \A w \in Writer : writer[w].at = "note" => writer[w].read = notes

IncidentInv == IncidentTyped /\ NewestRunsKept /\ ReadIsCurrent

LEMMA IncidentInitInv == IncidentMemoryInit => IncidentInv
<1> SUFFICES ASSUME IncidentMemoryInit PROVE IncidentInv
  OBVIOUS
<1>1. /\ runs = <<>> /\ pushed = 0 /\ notes = <<>> /\ noted = {}
      /\ writer = [w \in Writer |-> Quiet]
  BY DEF IncidentMemoryInit
<1>2. Quiet \in WriterState /\ Quiet.at = "idle"
  BY DEF Quiet, WriterState
<1> HIDE DEF Quiet
<1>3. IncidentTyped
  BY <1>1, <1>2 DEF IncidentTyped
<1>4. NewestRunsKept
  BY <1>1 DEF NewestRunsKept
<1>5. ReadIsCurrent
  BY <1>1, <1>2 DEF ReadIsCurrent
<1> QED BY <1>3, <1>4, <1>5 DEF IncidentInv

(* LTRIM keeps the end of the list.                                         *)
LEMMA LastOfFacts ==
  ASSUME NEW S, NEW s \in Seq(S), NEW n \in Nat
  PROVE  /\ LastOf(s, n) \in Seq(S)
         /\ Len(LastOf(s, n)) = IF Len(s) <= n THEN Len(s) ELSE n
         /\ \A i \in 1 .. Len(LastOf(s, n)) :
              LastOf(s, n)[i] = s[Len(s) - Len(LastOf(s, n)) + i]
<1>1. CASE Len(s) <= n
  BY <1>1 DEF LastOf
<1>2. CASE ~(Len(s) <= n)
  <2>1. LastOf(s, n) = SubSeq(s, Len(s) - n + 1, Len(s)) /\ Len(s) \in Nat /\ n < Len(s)
    BY <1>2 DEF LastOf
  <2>2. /\ SubSeq(s, Len(s) - n + 1, Len(s)) \in Seq(S)
        /\ Len(SubSeq(s, Len(s) - n + 1, Len(s))) = n
        /\ \A i \in 1 .. n : SubSeq(s, Len(s) - n + 1, Len(s))[i] = s[Len(s) - n + i]
    BY <2>1
  <2> QED BY <1>2, <2>1, <2>2
<1> QED BY <1>1, <1>2

LEMMA RunSteps ==
  ASSUME IncidentInv, NEW w \in Writer, PushRun(w) \/ TrimRuns(w)
  PROVE  IncidentInv'
<1>0. IncidentTyped /\ NewestRunsKept /\ ReadIsCurrent /\ KeptRuns \in Nat
  BY WindowIsKept DEF IncidentInv
<1>1. UNCHANGED <<notes, noted, raced>>
  BY DEF PushRun, TrimRuns
<1>q. Quiet \in WriterState /\ Quiet.at = "idle"
  BY DEF Quiet, WriterState
<1>2. PICK s \in WriterState : writer' = [writer EXCEPT ![w] = s] /\ s.at # "note"
  <2>1. writer[w] \in WriterState
    BY <1>0 DEF IncidentTyped
  <2>2. \A x \in {"trim", "idle"} : [writer[w] EXCEPT !.at = x] \in WriterState
                                    /\ [writer[w] EXCEPT !.at = x].at = x
    BY <2>1 DEF WriterState
  <2>3. \/ writer' = [writer EXCEPT ![w] = [writer[w] EXCEPT !.at = "trim"]]
        \/ writer' = [writer EXCEPT ![w] = [writer[w] EXCEPT !.at = "idle"]]
        \/ writer' = [writer EXCEPT ![w] = Quiet]
    BY DEF PushRun, TrimRuns
  <2> HIDE DEF Quiet
  <2> QED BY <1>q, <2>2, <2>3
<1>3. /\ writer' \in [Writer -> WriterState] /\ writer'[w].at # "note"
      /\ \A v \in Writer : v # w => writer'[v] = writer[v]
  BY <1>0, <1>2 DEF IncidentTyped
<1>4. ReadIsCurrent'
  BY <1>0, <1>1, <1>3 DEF ReadIsCurrent
<1>5. /\ runs' \in Seq(Nat) /\ pushed' \in Nat /\ NewestRunsKept'
  <2>1. CASE runs' = Append(runs, pushed + 1) /\ pushed' = pushed + 1
    <3>1. /\ runs' \in Seq(Nat) /\ pushed' \in Nat /\ Len(runs') = Len(runs) + 1
          /\ runs'[Len(runs) + 1] = pushed + 1
          /\ \A i \in 1 .. Len(runs) : runs'[i] = runs[i]
      BY <1>0, <2>1 DEF IncidentTyped
    <3>2. Len(runs) \in Nat /\ pushed \in Nat
      BY <1>0 DEF IncidentTyped
    <3>3. \A i \in 1 .. Len(runs') : runs'[i] = pushed' - Len(runs') + i
      <4> SUFFICES ASSUME NEW i \in 1 .. Len(runs') PROVE runs'[i] = pushed' - Len(runs') + i
        OBVIOUS
      <4>1. CASE i = Len(runs) + 1
        BY <2>1, <3>1, <3>2, <4>1
      <4>2. CASE i # Len(runs) + 1
        <5>1. i \in 1 .. Len(runs) /\ runs'[i] = pushed - Len(runs) + i
          BY <1>0, <3>1, <3>2, <4>2 DEF NewestRunsKept
        <5> QED BY <2>1, <3>1, <3>2, <5>1
      <4> QED BY <4>1, <4>2
    <3>4. Len(runs') <= pushed' /\ (pushed' <= Len(runs') \/ KeptRuns <= Len(runs'))
      BY <1>0, <2>1, <3>1, <3>2 DEF NewestRunsKept
    <3> QED BY <3>1, <3>3, <3>4 DEF NewestRunsKept
  <2>2. CASE runs' = runs /\ pushed' = pushed
    BY <1>0, <2>2 DEF IncidentTyped, NewestRunsKept
  <2>3. CASE runs' = Trimmed(runs) /\ pushed' = pushed
    <3>1. /\ runs' \in Seq(Nat) /\ Len(runs') = IF Len(runs) <= KeptRuns THEN Len(runs) ELSE KeptRuns
          /\ \A i \in 1 .. Len(runs') : runs'[i] = runs[Len(runs) - Len(runs') + i]
      BY <1>0, <2>3, LastOfFacts DEF IncidentTyped, Trimmed
    <3>2. Len(runs) \in Nat /\ pushed \in Nat
      BY <1>0 DEF IncidentTyped
    <3>3. ASSUME NEW i \in 1 .. Len(runs') PROVE runs'[i] = pushed' - Len(runs') + i
      <4>1. Len(runs) - Len(runs') + i \in 1 .. Len(runs)
        BY <1>0, <3>1, <3>2
      <4>2. runs'[i] = pushed - Len(runs) + (Len(runs) - Len(runs') + i)
        BY <1>0, <3>1, <4>1 DEF NewestRunsKept
      <4>3. Len(runs') \in Nat
        BY <1>0, <3>1, <3>2
      <4> QED BY <2>3, <3>2, <4>2, <4>3
    <3>4. Len(runs') <= pushed' /\ (pushed' <= Len(runs') \/ KeptRuns <= Len(runs'))
      BY <1>0, <2>3, <3>1, <3>2 DEF NewestRunsKept
    <3> QED BY <1>0, <2>3, <3>1, <3>2, <3>3, <3>4 DEF NewestRunsKept
  <2>4. \/ runs' = Append(runs, pushed + 1) /\ pushed' = pushed + 1
        \/ runs' = runs /\ pushed' = pushed
        \/ runs' = Trimmed(runs) /\ pushed' = pushed
    BY DEF PushRun, TrimRuns
  <2> QED BY <2>1, <2>2, <2>3, <2>4
<1> QED BY <1>0, <1>1, <1>3, <1>4, <1>5 DEF IncidentInv, IncidentTyped

LEMMA NoteSteps ==
  ASSUME IncidentInv, NEW w \in Writer, ReadNotes(w) \/ WriteNotes(w) \/ Crash(w)
  PROVE  IncidentInv'
<1>0. IncidentTyped /\ NewestRunsKept /\ ReadIsCurrent
  BY DEF IncidentInv
<1>q. Quiet \in WriterState /\ Quiet.at = "idle"
  BY DEF Quiet, WriterState
<1> HIDE DEF Quiet
<1>1. NewestRunsKept' /\ runs' \in Seq(Nat) /\ pushed' \in Nat
  BY <1>0 DEF ReadNotes, WriteNotes, Crash, NewestRunsKept, IncidentTyped
<1>2. CASE ReadNotes(w)
  <2> DEFINE s == [at |-> "note", read |-> notes]
  <2>1. s \in WriterState /\ s.at = "note" /\ s.read = notes
    BY <1>0 DEF IncidentTyped, WriterState
  <2>2. /\ writer' = [writer EXCEPT ![w] = s] /\ UNCHANGED <<notes, noted>>
        /\ raced' = (raced \/ \E v \in Writer : writer[v].at = "note")
    BY <1>2 DEF ReadNotes
  <2> HIDE DEF s
  <2>3. /\ writer' \in [Writer -> WriterState] /\ writer'[w] = s
        /\ \A v \in Writer : v # w => writer'[v] = writer[v]
    BY <1>0, <2>1, <2>2 DEF IncidentTyped
  <2>4. ReadIsCurrent'
    BY <1>0, <2>1, <2>2, <2>3 DEF ReadIsCurrent
  <2>5. IncidentTyped'
    BY <1>0, <1>1, <2>2, <2>3 DEF IncidentTyped
  <2> QED BY <1>1, <2>4, <2>5 DEF IncidentInv
<1>3. CASE WriteNotes(w) \/ Crash(w)
  <2>1. writer' = [writer EXCEPT ![w] = Quiet] /\ UNCHANGED raced
    BY <1>3 DEF WriteNotes, Crash
  <2>2. /\ writer' \in [Writer -> WriterState] /\ writer'[w].at = "idle"
        /\ \A v \in Writer : v # w => writer'[v] = writer[v]
    BY <1>0, <1>q, <2>1 DEF IncidentTyped
  <2> DEFINE new == <<w, NextNote>>
  <2>3. CASE UNCHANGED <<notes, noted>>
    <3>1. ReadIsCurrent'
      BY <1>0, <2>1, <2>2, <2>3 DEF ReadIsCurrent
    <3> QED BY <1>0, <1>1, <2>2, <2>3, <3>1 DEF IncidentInv, IncidentTyped
  <2>4. CASE /\ writer[w].at = "note" /\ notes' = Append(writer[w].read, new)
             /\ noted' \subseteq noted \cup {new}
    <3>1. new \in Note /\ writer[w].read \in Seq(Note)
      BY <1>0 DEF Note, NextNote, IncidentTyped, WriterState
    <3> HIDE DEF new
    <3>2. notes' \in Seq(Note) /\ ToSet(writer[w].read) \cup {new} \subseteq ToSet(notes')
      <4>1. /\ notes' \in Seq(Note) /\ Len(notes') = Len(writer[w].read) + 1
            /\ notes'[Len(writer[w].read) + 1] = new
            /\ \A i \in 1 .. Len(writer[w].read) : notes'[i] = writer[w].read[i]
        BY <2>4, <3>1
      <4>2. \A i \in DOMAIN writer[w].read : i \in DOMAIN notes' /\ notes'[i] = writer[w].read[i]
        BY <3>1, <4>1
      <4>3. Len(writer[w].read) + 1 \in DOMAIN notes'
        BY <3>1, <4>1
      <4> QED BY <4>1, <4>2, <4>3 DEF ToSet
    <3>3. ReadIsCurrent'
      <4> SUFFICES ASSUME ~raced
                   PROVE  /\ noted' \subseteq ToSet(notes')
                          /\ \A v \in Writer : writer'[v].at # "note"
        BY <2>1 DEF ReadIsCurrent
      <4>1. writer[w].read = notes /\ noted \subseteq ToSet(notes)
        BY <1>0, <2>4 DEF ReadIsCurrent
      <4>2. \A v \in Writer : writer[v].at = "note" => v = w
        BY <1>0, <2>4 DEF ReadIsCurrent
      <4>3. \A v \in Writer : writer'[v].at # "note"
        BY <2>2, <4>2
      <4> QED BY <2>4, <3>2, <4>1, <4>3
    <3> QED BY <1>0, <1>1, <2>2, <3>2, <3>3 DEF IncidentInv, IncidentTyped
  <2>5. UNCHANGED <<notes, noted>> \/ ( /\ writer[w].at = "note" /\ notes' = Append(writer[w].read, new)
                                        /\ noted' \subseteq noted \cup {new} )
    BY <1>3 DEF WriteNotes, WithNote, Crash, Reply
  <2> QED BY <2>3, <2>4, <2>5
<1> QED BY <1>2, <1>3

LEMMA LoadIsRuns ==
  ASSUME IncidentInv
  PROVE  /\ Load.summarised \o Load.recent = runs
         /\ Len(Load.recent) = IF Len(runs) <= WindowSize THEN Len(runs) ELSE WindowSize
<1>0. runs \in Seq(Nat) /\ Len(runs) \in Nat /\ WindowSize \in Nat
  BY WindowIsKept DEF IncidentInv, IncidentTyped
<1>1. /\ Load.recent = LastOf(runs, WindowSize)
      /\ Load.summarised = IF Len(runs) > WindowSize THEN SubSeq(runs, 1, Len(runs) - WindowSize) ELSE <<>>
  BY DEF Load
<1>2. CASE Len(runs) > WindowSize
  <2>1. Len(runs) - WindowSize \in 0 .. Len(runs)
    BY <1>0, <1>2
  <2>2. PICK n \in 0 .. Len(runs) : n = Len(runs) - WindowSize
    BY <2>1
  <2>3. Load.summarised = SubSeq(runs, 1, n) /\ Load.recent = SubSeq(runs, n + 1, Len(runs))
    <3>1. Load.summarised = SubSeq(runs, 1, n)
      BY <1>1, <1>2, <2>2
    <3>2. Len(runs) - WindowSize + 1 = n + 1 /\ ~ Len(runs) <= WindowSize
      BY <1>0, <1>2, <2>2
    <3>3. Load.recent = SubSeq(runs, n + 1, Len(runs))
      BY <1>0, <1>1, <3>2 DEF LastOf
    <3> QED BY <3>1, <3>3
  <2>4. SubSeq(runs, 1, n) \o SubSeq(runs, n + 1, Len(runs)) = SubSeq(runs, 1, Len(runs))
    <3>0. PICK m \in Nat : m = Len(runs)
      BY <1>0
    <3>1. 1 \in 1 .. m + 1 /\ n \in 1 - 1 .. m /\ m \in n .. m
      BY <3>0
    <3> QED BY <1>0, <3>0, <3>1, ConcatAdjacentSubSeq
  <2>5. SubSeq(runs, 1, Len(runs)) = runs
    BY <1>0, SubSeqFull
  <2>6. Len(Load.recent) = WindowSize
    BY <1>0, <1>2, <2>2, <2>3
  <2>7. Load.summarised \o Load.recent = runs
    <3>1. Load.summarised \o Load.recent = SubSeq(runs, 1, n) \o SubSeq(runs, n + 1, Len(runs))
      BY <2>3, Zenon
    <3> QED BY <2>4, <2>5, <3>1, Zenon
  <2>8. ~(Len(runs) <= WindowSize)
    BY <1>0, <1>2
  <2> QED BY <2>6, <2>7, <2>8, Zenon
<1>3. CASE ~(Len(runs) > WindowSize)
  <2>1. Load.recent = runs /\ Load.summarised = <<>>
    BY <1>0, <1>1, <1>3 DEF LastOf
  <2> QED BY <1>0, <1>3, <2>1
<1> QED BY <1>2, <1>3

(* An agent loads the newest runs, in order and without a gap, and finds    *)
(* every annotation that was not lost to a race, for any number of writers. *)
THEOREM MemoryIsAlwaysLoaded ==
  IncidentMemoryInit /\ [][IncidentMemoryNext]_incidentMemory => []MemoryIsLoaded
<1>1. IncidentInv /\ [IncidentMemoryNext]_incidentMemory => IncidentInv'
  <2>1. IncidentInv /\ UNCHANGED incidentMemory => IncidentInv'
    BY DEF incidentMemory, IncidentInv, IncidentTyped, NewestRunsKept, ReadIsCurrent
  <2> QED BY <2>1, RunSteps, NoteSteps DEF IncidentMemoryNext
<1>2. IncidentInv => MemoryIsLoaded
  <2> SUFFICES ASSUME IncidentInv PROVE MemoryIsLoaded
    OBVIOUS
  <2>1. /\ Len(runs) \in Nat /\ pushed \in Nat /\ WindowSize \in Nat /\ KeptRuns \in Nat
        /\ WindowSize <= KeptRuns
        /\ Len(runs) <= pushed /\ (pushed <= Len(runs) \/ KeptRuns <= Len(runs))
        /\ \A i \in 1 .. Len(runs) : runs[i] = pushed - Len(runs) + i
    BY WindowIsKept DEF IncidentInv, IncidentTyped, NewestRunsKept
  <2>2. Len(Load.recent) = IF pushed < WindowSize THEN pushed ELSE WindowSize
    BY <2>1, LoadIsRuns
  <2>3. Len(runs) >= IF pushed < KeptRuns THEN pushed ELSE KeptRuns
    BY <2>1
  <2>4. NewestRunsLoaded
    BY <2>1, <2>2, <2>3, LoadIsRuns DEF NewestRunsLoaded
  <2>5. NotesLostOnlyInRaces
    BY DEF IncidentInv, ReadIsCurrent, NotesLostOnlyInRaces
  <2> QED BY <2>4, <2>5 DEF MemoryIsLoaded
<1> QED BY <1>1, <1>2, IncidentInitInv, PTL

-----------------------------------------------------------------------------
\* The data mesh.

(* A set of numbers that is not empty has a least one. *)
LEMMA LeastOne ==
  ASSUME NEW S \in SUBSET Nat, S # {}
  PROVE  Min(S) \in S /\ \A x \in S : Min(S) <= x
<1>1. PICK m \in S : \A x \in S : ~ <<x, m>> \in OpToRel(<, Nat)
  BY NatLessThanWellFounded, WFMin
<1>2. \A x \in S : x < m => <<x, m>> \in OpToRel(<, Nat)
  BY DEF OpToRel
<1>3. \A x \in S : ~ (x < m)
  BY <1>1, <1>2
<1>4. \A x \in S : m <= x
  BY <1>3
<1> QED BY <1>4 DEF Min

(* What a consolidation has read and still works on, and every point that is
   there or that it has read. *)
ReadPoints == (UNION job.clusters) \cup job.left

KnownPoints == points \cup ReadPoints \cup job.merging

(* A merged point's id ends with that of the memory it began with. *)
Origin(p) == p.id[Len(p.id)]

Ids == Seq(Memory \cup {"consolidated"})

PointsTyped ==
  \A p \in KnownPoints :
    p.id \in Ids /\ Len(p.id) >= 1 /\ Origin(p) \in stored /\ p.created \in Nat

(* Points of one origin are similar and in one collection. *)
OneOrigin ==
  \A p, q \in KnownPoints : Origin(p) = Origin(q) => p.vec = q.vec /\ p.coll = q.coll

IdsApart == \A p, q \in points : p.id = q.id => p = q

(* What is merged, or read by a consolidation, is old, and so will it be. *)
MergedAreOld == \A p \in KnownPoints : Len(p.id) >= 2 \/ p \in ReadPoints => Old(p)

ClustersApart ==
  /\ \A c, d \in job.clusters : \A p \in c, q \in d : p.vec = q.vec => c = d
  /\ \A c \in job.clusters : \A p, q \in c : p.vec = q.vec /\ p.coll = q.coll
  /\ \A c \in job.clusters : \A p \in c, q \in job.left : p.vec # q.vec
  /\ \A p, q \in ReadPoints : p.coll = q.coll

(* What a consolidation has read is unchanged if it is still there. *)
ReadIsThere == \A p \in ReadPoints, q \in points : p.id = q.id => p = q

(* Merged points that are similar to a cluster are in it. *)
SeenByCluster ==
  \A c \in job.clusters : \A p \in c, q \in points :
    Len(q.id) >= 2 /\ q.vec = p.vec /\ q.coll = p.coll => q \in c

(* Before the originals are deleted, the point that stands for them is there. *)
MergedIsStored ==
  job.at = "delete" =>
    /\ Len(job.into) >= 2
    /\ \E q \in points : q.id = job.into /\ UNION {p.holds : p \in job.merging} \subseteq q.holds
    /\ \A p \in job.merging, q \in points : q.id = p.id => q = p \/ q.id = job.into

MeshTyped ==
  /\ now \in Nat
  /\ job = [at |-> job.at, domain |-> job.domain, clusters |-> job.clusters,
            merging |-> job.merging, into |-> job.into, left |-> job.left]

MeshInv ==
  /\ MeshTyped /\ PointsTyped /\ OneOrigin /\ IdsApart /\ MergedAreOld /\ ClustersApart
  /\ ReadIsThere /\ SeenByCluster /\ MergedIsStored

(* A step that adds nothing and forgets some keeps it. *)
LEMMA FewerPoints ==
  ASSUME MeshInv, now' \in Nat, now <= now', stored \subseteq stored', points' \subseteq points,
         job'.clusters \subseteq job.clusters, job'.left \subseteq job.left,
         KnownPoints' \subseteq KnownPoints, MeshTyped', MergedIsStored'
  PROVE  MeshInv'
<1>0. ReadPoints' \subseteq ReadPoints
  BY DEF ReadPoints
<1>1. PointsTyped'
  BY DEF PointsTyped, MeshInv, Origin
<1>2. OneOrigin'
  BY DEF OneOrigin, MeshInv, Origin
<1>3. IdsApart'
  BY DEF IdsApart, MeshInv
<1>4. MergedAreOld'
  <2> SUFFICES ASSUME NEW p \in KnownPoints', Len(p.id) >= 2 \/ p \in ReadPoints'
               PROVE  Old(p)'
    BY DEF MergedAreOld
  <2>1. now - p.created >= 1 /\ p.created \in Nat /\ now \in Nat
    BY <1>0 DEF MergedAreOld, MeshInv, PointsTyped, MeshTyped, Old
  <2>2. now' - p.created >= 1
    BY <2>1
  <2> QED BY <2>2 DEF Old
<1>5. ClustersApart'
  BY <1>0 DEF ClustersApart, MeshInv
<1>6. ReadIsThere'
  BY <1>0 DEF ReadIsThere, MeshInv
<1>7. SeenByCluster'
  BY DEF SeenByCluster, MeshInv
<1> QED BY <1>1, <1>2, <1>3, <1>4, <1>5, <1>6, <1>7 DEF MeshInv

(* Time only makes points older. *)
LEMMA WaitKeepsMesh == ASSUME MeshInv, Wait PROVE MeshInv'
<1>1. /\ now' = now + 1 /\ now \in Nat
      /\ points' = points /\ stored' = stored /\ job' = job
  BY DEF Wait, MeshInv, MeshTyped
<1>2. MeshTyped' /\ MergedIsStored'
  BY <1>1 DEF MeshInv, MeshTyped, MergedIsStored
<1>3. KnownPoints' = KnownPoints /\ now <= now' /\ now' \in Nat
  BY <1>1 DEF KnownPoints, ReadPoints
<1> QED BY <1>1, <1>2, <1>3, FewerPoints

(* A new memory has an id and an origin that no point has. *)
LEMMA StoreKeepsMesh ==
  ASSUME MeshInv, NEW m \in Memory, NEW kind, MemoryStore(m, kind)
  PROVE  MeshInv'
<1> DEFINE pt == [id |-> <<m>>, coll |-> CollectionForMemory(kind.type, kind.domain),
                  domain |-> kind.domain, vec |-> kind.vec, created |-> now, holds |-> {m}]
<1>1. /\ m \notin stored /\ stored' = stored \cup {m}
      /\ points' = points \/ points' = Upsert(pt)
      /\ now' = now /\ job' = job
  BY DEF MemoryStore, StorePoint
<1>2. /\ pt.id \in Ids /\ Len(pt.id) = 1 /\ Origin(pt) = m /\ pt.created = now
      /\ pt.id = <<m>>
  BY DEF Ids, Origin
<1> HIDE DEF pt
<1>3. \A p \in KnownPoints : p.id # pt.id /\ Origin(p) # m
  BY <1>1, <1>2 DEF MeshInv, PointsTyped, Origin
<1>4. CASE points' = points
  <2>1. MeshTyped' /\ MergedIsStored'
    BY <1>1, <1>4 DEF MeshInv, MeshTyped, MergedIsStored
  <2>2. KnownPoints' = KnownPoints /\ now <= now' /\ now' \in Nat
    BY <1>1, <1>4 DEF KnownPoints, ReadPoints, MeshInv, MeshTyped
  <2> QED BY <1>1, <1>4, <2>1, <2>2, FewerPoints
<1>5. CASE points' = Upsert(pt)
  <2>1. points' = points \cup {pt}
    BY <1>3, <1>5 DEF Upsert, KnownPoints
  <2>2. ReadPoints' = ReadPoints /\ KnownPoints' = KnownPoints \cup {pt}
    BY <1>1, <2>1 DEF ReadPoints, KnownPoints
  <2>3. MeshTyped'
    BY <1>1 DEF MeshInv, MeshTyped
  <2>4. PointsTyped'
    <3>1. \A p \in KnownPoints : p.id \in Ids /\ Len(p.id) >= 1 /\ Origin(p) \in stored' /\ p.created \in Nat
      BY <1>1 DEF MeshInv, PointsTyped
    <3>2. pt.id \in Ids /\ Len(pt.id) >= 1 /\ Origin(pt) \in stored' /\ pt.created \in Nat
      BY <1>1, <1>2 DEF MeshInv, MeshTyped
    <3> QED BY <2>2, <3>1, <3>2 DEF PointsTyped, Origin
  <2>5. OneOrigin'
    BY <1>2, <1>3, <2>2 DEF MeshInv, OneOrigin, Origin
  <2>6. IdsApart'
    BY <1>3, <2>1 DEF MeshInv, IdsApart, KnownPoints
  <2>7. MergedAreOld'
    <3>1. pt \notin ReadPoints
      BY <1>3 DEF KnownPoints
    <3>2. \A p \in KnownPoints : Len(p.id) >= 2 \/ p \in ReadPoints => Old(p)'
      BY <1>1 DEF MeshInv, MergedAreOld, Old
    <3>3. ~(Len(pt.id) >= 2)
      BY <1>2
    <3> QED BY <2>2, <3>1, <3>2, <3>3 DEF MergedAreOld
  <2>8. ClustersApart'
    BY <1>1, <2>2 DEF MeshInv, ClustersApart
  <2>9. ReadIsThere'
    BY <1>3, <2>1, <2>2 DEF MeshInv, ReadIsThere, KnownPoints
  <2>10. SeenByCluster'
    <3>1. ~(Len(pt.id) >= 2)
      BY <1>2
    <3> QED BY <1>1, <2>1, <3>1 DEF MeshInv, SeenByCluster
  <2>11. MergedIsStored'
    BY <1>1, <1>3, <2>1 DEF MeshInv, MergedIsStored, KnownPoints
  <2> QED BY <2>3, <2>4, <2>5, <2>6, <2>7, <2>8, <2>9, <2>10, <2>11 DEF MeshInv
<1> QED BY <1>1, <1>4, <1>5

(* Similar memories are read into one cluster, others apart. *)
LEMMA ConsolidateKeepsMesh ==
  ASSUME MeshInv, NEW d, Consolidate(d)
  PROVE  MeshInv'
<1> DEFINE memories == {p \in points : p.coll = CollectionForDomain(d) /\ Old(p)}
           clusters == Clusters(memories)
<1>1. /\ job' = [Resting EXCEPT !.at = IF clusters = {} THEN "archive" ELSE "merge", !.domain = d,
                                !.clusters = clusters, !.left = memories \ (UNION clusters)]
      /\ now' = now /\ points' = points /\ stored' = stored
  BY DEF Consolidate
<1>2. /\ job'.clusters = clusters /\ job'.left = memories \ (UNION clusters)
      /\ job'.merging = {} /\ job'.at # "delete"
      /\ MeshTyped'
  BY <1>1 DEF Resting, MeshInv, MeshTyped
<1>3. \A c \in clusters : \E v : c = {p \in memories : p.vec = v}
  BY DEF Clusters
<1>4. \A p \in memories : p \in points /\ p.coll = CollectionForDomain(d) /\ Old(p)
  OBVIOUS
<1>5. \A p \in points : p.coll = CollectionForDomain(d) /\ Old(p) => p \in memories
  OBVIOUS
<1> HIDE DEF memories, clusters
<1>6. ReadPoints' \subseteq memories /\ KnownPoints' = points
  BY <1>1, <1>2, <1>3, <1>4 DEF ReadPoints, KnownPoints
<1>7. PointsTyped' /\ OneOrigin' /\ IdsApart'
  BY <1>1, <1>6 DEF MeshInv, PointsTyped, OneOrigin, IdsApart, KnownPoints, Origin
<1>8. MergedAreOld'
  BY <1>1, <1>4, <1>6 DEF MeshInv, MergedAreOld, KnownPoints, Old
<1>9. ClustersApart'
  <2>1. \A a, b \in clusters : \A p \in a, q \in b : p.vec = q.vec => a = b
    BY <1>3
  <2>2. \A c \in clusters : \A p, q \in c : p.vec = q.vec /\ p.coll = q.coll
    BY <1>3, <1>4
  <2>3. \A c \in clusters : \A p \in c, q \in memories \ (UNION clusters) : p.vec # q.vec
    BY <1>3
  <2> QED BY <1>2, <1>4, <1>6, <2>1, <2>2, <2>3 DEF ClustersApart
<1>10. ReadIsThere'
  BY <1>1, <1>4, <1>6 DEF MeshInv, ReadIsThere, IdsApart
<1>11. SeenByCluster'
  <2> SUFFICES ASSUME NEW c \in clusters, NEW p \in c, NEW q \in points,
                      Len(q.id) >= 2, q.vec = p.vec, q.coll = p.coll
               PROVE  q \in c
    BY <1>1, <1>2 DEF SeenByCluster
  <2>1. Old(q)
    BY DEF MeshInv, MergedAreOld, KnownPoints
  <2>2. p \in memories
    BY <1>3
  <2>3. q \in memories
    BY <1>4, <1>5, <2>1, <2>2
  <2> QED BY <1>3, <2>3
<1>12. MergedIsStored'
  BY <1>2 DEF MergedIsStored
<1> QED BY <1>2, <1>7, <1>8, <1>9, <1>10, <1>11, <1>12 DEF MeshInv

(* A merged point is one more of its first memory's origin. *)
LEMMA MergedPointIs ==
  ASSUME MeshInv, NEW c \in job.clusters, NEW h \in c, NEW d
  PROVE  LET pt == MergedPoint(h, c, d)
         IN  /\ pt.id \in Ids
             /\ Len(pt.id) >= 2
             /\ Origin(pt) = Origin(h)
             /\ pt.vec = h.vec /\ pt.coll = h.coll
             /\ \E p \in c : pt.created = p.created
             /\ pt.holds = UNION {p.holds : p \in c}
<1> DEFINE pt == MergedPoint(h, c, d)
<1>1. h \in KnownPoints /\ c \subseteq KnownPoints
  BY DEF KnownPoints, ReadPoints
<1>2. h.id \in Ids /\ Len(h.id) >= 1
  BY <1>1 DEF MeshInv, PointsTyped
<1>3. pt.id = <<"consolidated">> \o h.id
  BY DEF MergedPoint
<1>4. /\ pt.id \in Ids
      /\ Len(pt.id) = 1 + Len(h.id)
      /\ pt.id[1 + Len(h.id)] = h.id[Len(h.id)]
  <2>1. <<"consolidated">> \in Ids /\ Len(<<"consolidated">>) = 1
    BY DEF Ids
  <2> DEFINE w == <<"consolidated">>
  <2> HIDE DEF w
  <2>2. w \in Ids /\ Len(w) = 1 /\ pt.id = w \o h.id
    BY <1>3, <2>1 DEF w
  <2>3. /\ w \o h.id \in Ids
        /\ Len(w \o h.id) = Len(w) + Len(h.id)
        /\ \A i \in 1 .. Len(w) + Len(h.id) : (w \o h.id)[i] =
                     IF i <= Len(w) THEN w[i] ELSE h.id[i - Len(w)]
    BY <1>2, <2>2, ConcatProperties DEF Ids
  <2>4. Len(h.id) \in Nat
    BY <1>2 DEF Ids
  <2> HIDE DEF pt
  <2> QED BY <1>2, <2>2, <2>3, <2>4
<1>5. Origin(pt) = Origin(h) /\ Len(pt.id) >= 2
  <2>1. Len(h.id) \in Nat
    BY <1>2 DEF Ids
  <2> HIDE DEF pt
  <2> QED BY <1>2, <1>4, <2>1 DEF Origin
<1>6. \E p \in c : pt.created = p.created
  <2> DEFINE S == {p.created : p \in c}
  <2>1. S \subseteq Nat /\ S # {}
    BY <1>1 DEF MeshInv, PointsTyped
  <2>2. pt.created = Min(S)
    BY DEF MergedPoint
  <2>3. Min(S) \in S
    <3> HIDE DEF S
    <3> QED BY <2>1, LeastOne
  <2> QED BY <2>2, <2>3
<1>7. pt.vec = h.vec /\ pt.coll = h.coll /\ pt.holds = UNION {p.holds : p \in c}
  BY DEF MergedPoint
<1> QED BY <1>4, <1>5, <1>6, <1>7

(* A merged point may only take the place of one that is in the cluster. *)
LEMMA MergeKeepsMesh ==
  ASSUME MeshInv, MergeCluster
  PROVE  MeshInv' /\ Held \subseteq Held'
<1>0. PICK c \in job.clusters :
        \E h \in c, o \in Outcome :
          LET pt == MergedPoint(h, c, job.domain)
              rest == job.clusters \ {c}
          IN  /\ points' = IF o.effect THEN Upsert(pt) ELSE points
              /\ job' = IF o.returns
                        THEN [job EXCEPT !.at = "delete", !.clusters = rest, !.merging = c, !.into = pt.id]
                        ELSE [job EXCEPT !.at = Later(rest), !.clusters = rest]
  BY DEF MergeCluster
<1>1. PICK h \in c, o \in Outcome :
        LET pt == MergedPoint(h, c, job.domain)
            rest == job.clusters \ {c}
        IN  /\ points' = IF o.effect THEN Upsert(pt) ELSE points
            /\ job' = IF o.returns
                      THEN [job EXCEPT !.at = "delete", !.clusters = rest, !.merging = c, !.into = pt.id]
                      ELSE [job EXCEPT !.at = Later(rest), !.clusters = rest]
  BY <1>0
<1>2. now' = now /\ stored' = stored /\ now \in Nat
  BY DEF MergeCluster, MeshInv, MeshTyped
<1> DEFINE pt == MergedPoint(h, c, job.domain)
           rest == job.clusters \ {c}
<1>3. /\ pt.id \in Ids
      /\ Len(pt.id) >= 2
      /\ Origin(pt) = Origin(h)
      /\ pt.vec = h.vec /\ pt.coll = h.coll
      /\ \E p \in c : pt.created = p.created
      /\ pt.holds = UNION {p.holds : p \in c}
  BY MergedPointIs
<1>4. /\ points' = IF o.effect THEN Upsert(pt) ELSE points
      /\ job' = IF o.returns
                THEN [job EXCEPT !.at = "delete", !.clusters = rest, !.merging = c, !.into = pt.id]
                ELSE [job EXCEPT !.at = Later(rest), !.clusters = rest]
  BY <1>1
<1> HIDE DEF pt
<1>5. o.returns => o.effect
  BY DEF Outcome
<1>6. /\ job'.clusters = rest /\ job'.left = job.left
      /\ job'.merging \in {job.merging, c}
      /\ o.returns => job'.at = "delete" /\ job'.merging = c /\ job'.into = pt.id
      /\ ~o.returns => job'.at # "delete"
      /\ MeshTyped'
  <2>1. CASE o.returns
    BY <1>2, <1>4, <2>1 DEF MeshInv, MeshTyped
  <2>2. CASE ~o.returns
    BY <1>2, <1>4, <2>2 DEF MeshInv, MeshTyped, Later
  <2> QED BY <2>1, <2>2
<1>7. c \subseteq ReadPoints /\ ReadPoints' \subseteq ReadPoints /\ ReadPoints \subseteq KnownPoints
  BY <1>6 DEF ReadPoints, KnownPoints
<1>8. CASE ~o.effect
  <2>1. points' = points /\ MergedIsStored'
    BY <1>4, <1>5, <1>6, <1>8 DEF MergedIsStored
  <2>2. KnownPoints' \subseteq KnownPoints
    BY <1>6, <1>7, <2>1 DEF KnownPoints
  <2>3. MeshInv'
    BY <1>2, <1>6, <2>1, <2>2, FewerPoints
  <2> QED BY <2>1, <2>3 DEF Held
<1>9. CASE o.effect
  <2>1. points' = {q \in points : q.id # pt.id} \cup {pt}
    BY <1>4, <1>9 DEF Upsert
  <2>2. \A q \in points : q.id = pt.id => q \in c
    <3> SUFFICES ASSUME NEW q \in points, q.id = pt.id
                 PROVE  q \in c
      OBVIOUS
    <3>1. Origin(q) = Origin(h) /\ Len(q.id) >= 2
      BY <1>3 DEF Origin
    <3>2. q.vec = h.vec /\ q.coll = h.coll
      BY <1>7, <3>1 DEF MeshInv, OneOrigin, KnownPoints
    <3> QED BY <3>1, <3>2 DEF MeshInv, SeenByCluster
  <2>3. KnownPoints' \subseteq KnownPoints \cup {pt}
    BY <1>6, <1>7, <2>1 DEF KnownPoints
  <2>4. PointsTyped'
    <3>1. pt.created \in Nat
      BY <1>3, <1>7 DEF MeshInv, PointsTyped
    <3>2. Origin(pt) \in stored'
      BY <1>2, <1>3, <1>7 DEF MeshInv, PointsTyped
    <3>3. Len(pt.id) >= 1
      <4>1. Len(pt.id) \in Nat
        BY <1>3 DEF Ids
      <4> QED BY <1>3, <4>1
    <3> QED BY <1>2, <1>3, <2>3, <3>1, <3>2, <3>3 DEF MeshInv, PointsTyped, Origin
  <2>5. OneOrigin'
    <3>1. \A p \in KnownPoints : Origin(p) = Origin(pt) => p.vec = pt.vec /\ p.coll = pt.coll
      BY <1>3, <1>7 DEF MeshInv, OneOrigin
    <3> QED BY <2>3, <3>1 DEF MeshInv, OneOrigin, Origin
  <2>6. IdsApart'
    BY <2>1 DEF MeshInv, IdsApart
  <2>7. MergedAreOld'
    <3>1. Old(pt)
      BY <1>3, <1>7 DEF MeshInv, MergedAreOld, Old
    <3>2. \A p \in KnownPoints : Len(p.id) >= 2 \/ p \in ReadPoints => Old(p)
      BY DEF MeshInv, MergedAreOld
    <3> QED BY <1>2, <1>7, <2>3, <3>1, <3>2 DEF MergedAreOld, Old
  <2>8. ClustersApart'
    BY <1>6, <1>7 DEF MeshInv, ClustersApart
  <2>9. \A p \in ReadPoints' : p.vec # pt.vec
    BY <1>3, <1>6 DEF MeshInv, ClustersApart, ReadPoints
  <2>10. ReadIsThere'
    <3> SUFFICES ASSUME NEW p \in ReadPoints', NEW q \in points', p.id = q.id
                 PROVE  p = q
      BY DEF ReadIsThere
    <3>1. CASE q \in points
      BY <1>7, <3>1 DEF MeshInv, ReadIsThere
    <3>2. CASE q = pt
      <4>1. Origin(p) = Origin(h)
        BY <1>3, <3>2 DEF Origin
      <4>2. p.vec = h.vec
        BY <1>7, <4>1 DEF MeshInv, OneOrigin
      <4> QED BY <1>3, <2>9, <4>2
    <3> QED BY <2>1, <3>1, <3>2
  <2>11. SeenByCluster'
    <3>1. \A d \in rest : \A p \in d : p.vec # pt.vec
      BY <1>6, <2>9 DEF ReadPoints
    <3> QED BY <1>6, <2>1, <3>1 DEF MeshInv, SeenByCluster
  <2>12. MergedIsStored'
    <3> SUFFICES ASSUME o.returns
                 PROVE  MergedIsStored'
      BY <1>6 DEF MergedIsStored
    <3>1. \A p \in c, q \in points' : q.id = p.id => q = p \/ q.id = pt.id
      BY <1>7, <2>1 DEF MeshInv, ReadIsThere
    <3>2. pt \in points'
      BY <2>1
    <3> QED BY <1>3, <1>6, <3>1, <3>2 DEF MergedIsStored
  <2>13. Held \subseteq Held'
    <3> SUFFICES ASSUME NEW q \in points, NEW m \in q.holds
                 PROVE  \E p \in points' : m \in p.holds
      BY DEF Held
    <3>1. CASE q.id = pt.id
      BY <1>3, <2>1, <2>2, <3>1
    <3>2. CASE q.id # pt.id
      BY <2>1, <3>2
    <3> QED BY <3>1, <3>2
  <2> QED BY <1>6, <2>4, <2>5, <2>6, <2>7, <2>8, <2>10, <2>11, <2>12, <2>13 DEF MeshInv
<1> QED BY <1>8, <1>9

(* What deleting the originals loses was lost when the merged point took the
   id of one of them. *)
LEMMA DeleteKeepsMesh ==
  ASSUME MeshInv, DeleteOriginals
  PROVE  /\ MeshInv'
         /\ \A m \in Held \ Held' : job.into \in {p.id : p \in job.merging}
<1>1. /\ job.at = "delete"
      /\ points' = points \/ points' = Without({p.id : p \in job.merging})
      /\ job' = [job EXCEPT !.at = Later(job.clusters), !.merging = {}, !.into = <<>>]
      /\ now' = now /\ stored' = stored
  BY DEF DeleteOriginals
<1>2. /\ job'.clusters = job.clusters /\ job'.left = job.left /\ job'.merging = {}
      /\ job'.at # "delete" /\ MeshTyped'
  BY <1>1 DEF MeshInv, MeshTyped, Later
<1>3. points' \subseteq points
  BY <1>1 DEF Without
<1>4. KnownPoints' \subseteq KnownPoints /\ MergedIsStored'
  BY <1>2, <1>3 DEF KnownPoints, ReadPoints, MergedIsStored
<1>5. MeshInv'
  BY <1>1, <1>2, <1>3, <1>4, FewerPoints DEF MeshInv, MeshTyped
<1>6. ASSUME NEW m \in Held \ Held', job.into \notin {p.id : p \in job.merging}
      PROVE  FALSE
  <2>1. PICK q \in points : m \in q.holds
    BY DEF Held
  <2>2. q \notin points' /\ \A p \in points' : m \notin p.holds
    BY <2>1 DEF Held
  <2>3. PICK p \in job.merging : q.id = p.id
    BY <1>1, <2>2 DEF Without
  <2>4. q = p
    BY <1>1, <1>6, <2>3 DEF MeshInv, MergedIsStored
  <2>5. PICK r \in points : r.id = job.into /\ UNION {x.holds : x \in job.merging} \subseteq r.holds
    BY <1>1 DEF MeshInv, MergedIsStored
  <2>6. r \in points'
    BY <1>1, <1>6, <2>5 DEF Without
  <2> QED BY <2>1, <2>2, <2>4, <2>5, <2>6
<1> QED BY <1>5, <1>6

(* What archiving loses was ancient. *)
LEMMA ArchiveKeepsMesh ==
  ASSUME MeshInv, Archive
  PROVE  /\ MeshInv'
         /\ \A m \in Held \ Held' : \E p \in job.left : m \in p.holds /\ Ancient(p)
<1>1. PICK p \in job.left, o \in Outcome :
        /\ points' = IF o.effect /\ Ancient(p) THEN Without({p.id}) ELSE points
        /\ job' = [job EXCEPT !.left = @ \ {p}]
  BY DEF Archive
<1>2. job.at = "archive" /\ now' = now /\ stored' = stored
  BY DEF Archive
<1>3. /\ job'.clusters = job.clusters /\ job'.left \subseteq job.left /\ job'.merging = job.merging
      /\ job'.at = job.at /\ MeshTyped'
  BY <1>1, <1>2 DEF MeshInv, MeshTyped
<1>4. points' \subseteq points
  BY <1>1 DEF Without
<1>5. KnownPoints' \subseteq KnownPoints /\ MergedIsStored'
  BY <1>2, <1>3, <1>4 DEF KnownPoints, ReadPoints, MergedIsStored
<1>6. MeshInv'
  BY <1>2, <1>3, <1>4, <1>5, FewerPoints DEF MeshInv, MeshTyped
<1>7. ASSUME NEW m \in Held \ Held'
      PROVE  \E x \in job.left : m \in x.holds /\ Ancient(x)
  <2>1. PICK q \in points : m \in q.holds
    BY DEF Held
  <2>2. q \notin points'
    BY <2>1 DEF Held
  <2>3. q.id = p.id /\ Ancient(p)
    BY <1>1, <2>2 DEF Without
  <2>4. q = p
    BY <2>3 DEF MeshInv, ReadIsThere, ReadPoints
  <2> QED BY <2>1, <2>3, <2>4
<1> QED BY <1>6, <1>7

(* The end of a call, and what happens elsewhere, lose nothing. *)
LEMMA EndKeepsMesh ==
  ASSUME MeshInv, EndJob \/ UNCHANGED mesh
  PROVE  MeshInv' /\ Held' = Held
<1>1. now' = now /\ stored' = stored /\ points' = points
  BY DEF EndJob, mesh
<1>2. CASE EndJob
  <2>1. job' = Resting
    BY <1>2 DEF EndJob
  <2>2. /\ job'.clusters = {} /\ job'.left = {} /\ job'.merging = {} /\ job'.at # "delete"
        /\ MeshTyped'
    BY <1>1, <2>1 DEF Resting, MeshInv, MeshTyped
  <2>3. KnownPoints' \subseteq KnownPoints /\ MergedIsStored'
    BY <1>1, <2>2 DEF KnownPoints, ReadPoints, MergedIsStored
  <2>4. MeshInv'
    BY <1>1, <2>2, <2>3, FewerPoints DEF MeshInv, MeshTyped
  <2> QED BY <1>1, <2>4 DEF Held
<1>3. CASE UNCHANGED mesh
  <2>1. job' = job
    BY <1>3 DEF mesh
  <2>2. KnownPoints' \subseteq KnownPoints /\ MergedIsStored' /\ MeshTyped'
    BY <1>1, <2>1 DEF KnownPoints, ReadPoints, MergedIsStored, MeshInv, MeshTyped
  <2>3. MeshInv'
    BY <1>1, <2>1, <2>2, FewerPoints DEF MeshInv, MeshTyped
  <2> QED BY <1>1, <2>3 DEF Held
<1> QED BY <1>2, <1>3

(* Storing a memory, waiting and reading lose nothing. *)
LEMMA OthersLoseNothing ==
  ASSUME MeshInv,
         \/ \E m \in Memory, kind \in Kinds : MemoryStore(m, kind)
         \/ Wait
         \/ \E d \in Domain : MemoryConsolidate(d)
  PROVE  Held \subseteq Held'
<1>1. CASE Wait \/ \E d \in Domain : MemoryConsolidate(d)
  BY <1>1 DEF Wait, MemoryConsolidate, Consolidate, Held
<1>2. ASSUME NEW m \in Memory, NEW kind \in Kinds, MemoryStore(m, kind)
      PROVE  Held \subseteq Held'
  <2> DEFINE pt == [id |-> <<m>>, coll |-> CollectionForMemory(kind.type, kind.domain),
                    domain |-> kind.domain, vec |-> kind.vec, created |-> now, holds |-> {m}]
  <2>1. m \notin stored /\ (points' = points \/ points' = Upsert(pt))
    BY <1>2 DEF MemoryStore, StorePoint
  <2>2. pt.id = <<m>>
    OBVIOUS
  <2> HIDE DEF pt
  <2>3. \A p \in points : p.id # pt.id
    <3> SUFFICES ASSUME NEW p \in points, p.id = <<m>>
                 PROVE  FALSE
      BY <2>2
    <3>1. Origin(p) = m
      BY DEF Origin
    <3> QED BY <2>1, <3>1 DEF MeshInv, PointsTyped, KnownPoints
  <2> QED BY <2>1, <2>3 DEF Upsert, Held
<1> QED BY <1>1, <1>2

LEMMA MeshAtStart == MeshInit => MeshInv
BY DEF MeshInit, Resting, MeshInv, MeshTyped, PointsTyped, OneOrigin, IdsApart, MergedAreOld, ClustersApart,
       ReadIsThere, SeenByCluster, MergedIsStored, KnownPoints, ReadPoints

LEMMA MeshKept == MeshInv /\ [MeshNext]_mesh => MeshInv'
BY StoreKeepsMesh, WaitKeepsMesh, ConsolidateKeepsMesh, MergeKeepsMesh, DeleteKeepsMesh, ArchiveKeepsMesh,
   EndKeepsMesh
DEF MeshNext, MemoryConsolidate

(* With requests that fail before or after they took effect, calls that are
   cancelled and memories stored meanwhile, for any memories and bounds: a
   consolidation loses what a memory says only by archiving it, or when the
   merged point has the id of a memory it replaces. *)
THEOREM ContentsAlwaysKept == MeshInit /\ [][MeshNext]_mesh => ConsolidationKeepsContents
<1>1. MeshInv /\ [MeshNext]_mesh =>
        [\A m \in Held \ Held' :
           \/ job.at = "archive" /\ \E p \in job.left : m \in p.holds /\ Ancient(p)
           \/ job.at = "delete" /\ job.into \in {p.id : p \in job.merging}]_mesh
  <2> SUFFICES ASSUME MeshInv, [MeshNext]_mesh, NEW m \in Held \ Held'
               PROVE  \/ job.at = "archive" /\ \E p \in job.left : m \in p.holds /\ Ancient(p)
                      \/ job.at = "delete" /\ job.into \in {p.id : p \in job.merging}
    OBVIOUS
  <2>1. CASE \/ \E x \in Memory, kind \in Kinds : MemoryStore(x, kind)
             \/ Wait
             \/ \E d \in Domain : MemoryConsolidate(d)
    BY <2>1, OthersLoseNothing
  <2>2. CASE MergeCluster
    BY <2>2, MergeKeepsMesh
  <2>3. CASE DeleteOriginals
    BY <2>3, DeleteKeepsMesh DEF DeleteOriginals
  <2>4. CASE Archive
    BY <2>4, ArchiveKeepsMesh DEF Archive
  <2>5. CASE EndJob \/ UNCHANGED mesh
    BY <2>5, EndKeepsMesh
  <2> QED BY <2>1, <2>2, <2>3, <2>4, <2>5 DEF MeshNext
<1> QED BY <1>1, MeshAtStart, MeshKept, PTL DEF ConsolidationKeepsContents

-----------------------------------------------------------------------------
\* The escalation of an alert.

SlaTyped ==
  /\ ticket \in [priority : Priority, age : Nat]
  /\ notified \in Seq(DefaultEscalationRules)

(* The level whoever asks hands in counts the escalations given. *)
LevelCounts == level = Len(notified) /\ \A i \in DOMAIN notified : notified[i].level = i

SlaInv == SlaTyped /\ LevelCounts

(* The first escalation for a priority, once it is due. *)
LEMMA FirstRules ==
  ASSUME NEW t \in [priority : Priority, age : Nat]
  PROVE  /\ t.priority = "P1" /\ t.age >= 5 => Rule("P1", 5, 1) \in ApplicableRules(t)
         /\ t.priority = "P2" /\ t.age >= 30 => Rule("P2", 30, 1) \in ApplicableRules(t)
         /\ t.priority = "P3" /\ t.age >= 120 => Rule("P3", 120, 1) \in ApplicableRules(t)
         /\ t.priority = "P4" /\ t.age >= 480 => Rule("P4", 480, 1) \in ApplicableRules(t)
BY DEF ApplicableRules, DefaultEscalationRules, Rule

(* A rule is due no earlier than those of its priority below it, so the     *)
(* first one above the level reached is the next.                           *)
LEMMA NextLevel ==
  ASSUME NEW t \in [priority : Priority, age : Nat], NEW current \in Nat,
         NEW rule \in ShouldEscalate(t, current)
  PROVE  rule \in DefaultEscalationRules /\ rule.level = current + 1
<1>1. /\ rule \in ApplicableRules(t) /\ rule.level > current
      /\ \A s \in ApplicableRules(t) : s.level > current => rule.level <= s.level
  BY DEF ShouldEscalate
<1>2. rule \in DefaultEscalationRules /\ rule.level \in {1, 2} /\ t.priority = rule.priority
  BY <1>1 DEF ApplicableRules, DefaultEscalationRules, Rule
<1>3. CASE rule.level = 1
  BY <1>1, <1>2, <1>3
<1>4. CASE rule.level = 2
  <2>1. PICK s \in ApplicableRules(t) : s.level = 1
    <3>1. \/ t.priority = "P1" /\ t.age >= 15
          \/ t.priority = "P2" /\ t.age >= 60
      BY <1>1, <1>2, <1>4 DEF ApplicableRules, DefaultEscalationRules, Rule
    <3> QED BY <3>1, FirstRules DEF Rule
  <2> QED BY <1>1, <1>2, <1>4, <2>1
<1> QED BY <1>2, <1>3, <1>4

(* A term runs out after the first escalation is due.                       *)
LEMMA BreachIsDue ==
  ASSUME NEW t \in [priority : Priority, age : Nat], CheckBreach(t) # "none"
  PROVE  ShouldEscalate(t, 0) # {}
<1>1. \/ t.priority = "P1" /\ t.age > 15
      \/ t.priority = "P2" /\ t.age > 60
      \/ t.priority = "P3" /\ t.age > 240
      \/ t.priority = "P4" /\ t.age > 1440
  BY DEF CheckBreach, DefaultSlas, Terms, Priority
<1>2. PICK r \in ApplicableRules(t) : r.level = 1
  BY <1>1, FirstRules DEF Rule
<1>3. \A s \in ApplicableRules(t) : s.level \in Nat
  BY DEF ApplicableRules, DefaultEscalationRules, Rule
<1>4. r \in ShouldEscalate(t, 0)
  BY <1>2, <1>3 DEF ShouldEscalate
<1> QED BY <1>4

(* However late and seldom somebody asks, for any ages at which they do:    *)
(* no escalation is left out or given twice, and no breach is without one.  *)
THEOREM EscalationAlwaysKeepsUp == SlaInit /\ [][SlaNext]_slaTracking => []EscalationKeepsUp
<1>1. SlaInit => SlaInv
  BY DEF SlaInit, SlaInv, SlaTyped, LevelCounts
<1>2. SlaInv /\ [SlaNext]_slaTracking => SlaInv'
  <2> SUFFICES ASSUME SlaInv, [SlaNext]_slaTracking PROVE SlaInv'
    OBVIOUS
  <2>1. ASSUME NEW m \in Ages, Age(m) PROVE SlaInv'
    BY <2>1, AgesAssumption DEF Age, SlaInv, SlaTyped, LevelCounts
  <2>2. CASE Escalate
    <3>1. PICK rule \in ShouldEscalate(ticket, level) :
            level' = rule.level /\ notified' = Append(notified, rule) /\ UNCHANGED ticket
      BY <2>2 DEF Escalate
    <3>2. level \in Nat
      BY DEF SlaInv, SlaTyped, LevelCounts
    <3>3. rule \in DefaultEscalationRules /\ rule.level = level + 1
      BY <3>2, NextLevel DEF SlaInv, SlaTyped
    <3>4. SlaTyped'
      BY <3>1, <3>3 DEF SlaInv, SlaTyped
    <3>5. LevelCounts'
      BY <3>1, <3>3 DEF SlaInv, SlaTyped, LevelCounts
    <3> QED BY <3>4, <3>5 DEF SlaInv
  <2>3. CASE UNCHANGED slaTracking
    BY <2>3 DEF slaTracking, SlaInv, SlaTyped, LevelCounts
  <2> QED BY <2>1, <2>2, <2>3 DEF SlaNext
<1>3. SlaInv => EscalationKeepsUp
  <2> SUFFICES ASSUME SlaInv, CheckBreach(ticket) # "none", notified = <<>>
               PROVE  ShouldEscalate(ticket, level) # {}
    BY DEF SlaInv, LevelCounts, EscalationKeepsUp
  <2> QED BY BreachIsDue DEF SlaInv, SlaTyped, LevelCounts
<1> QED BY <1>1, <1>2, <1>3, PTL

-----------------------------------------------------------------------------
\* What the types need besides, of the points that are there or were read.
Dated(p) == p.holds \subseteq Memory /\ p.created <= now

MeshRest ==
  /\ now <= MaxNow
  /\ \A p \in points \cup ReadPoints : Dated(p)
  /\ job.at \in {"idle", "merge", "delete", "archive"}

(* A step that leaves the clock and adds dated points at most. *)
LEMMA RestFrame ==
  ASSUME MeshRest, now' = now, \A p \in points' \cup ReadPoints' : p \in points \cup ReadPoints \/ Dated(p),
         job'.at \in {"idle", "merge", "delete", "archive"}
  PROVE  MeshRest'
BY DEF MeshRest, Dated

LEMMA MergeKeepsRest ==
  ASSUME MeshInv, MeshRest, MergeCluster
  PROVE  MeshRest'
<1>1. PICK c \in job.clusters :
        \E h \in c, o \in Outcome :
          LET pt == MergedPoint(h, c, job.domain)
              rest == job.clusters \ {c}
          IN  /\ points' = IF o.effect THEN Upsert(pt) ELSE points
              /\ job' = IF o.returns
                        THEN [job EXCEPT !.at = "delete", !.clusters = rest, !.merging = c, !.into = pt.id]
                        ELSE [job EXCEPT !.at = Later(rest), !.clusters = rest]
  BY DEF MergeCluster
<1>2. PICK h \in c, o \in Outcome :
        LET pt == MergedPoint(h, c, job.domain)
            rest == job.clusters \ {c}
        IN  /\ points' = IF o.effect THEN Upsert(pt) ELSE points
            /\ job' = IF o.returns
                      THEN [job EXCEPT !.at = "delete", !.clusters = rest, !.merging = c, !.into = pt.id]
                      ELSE [job EXCEPT !.at = Later(rest), !.clusters = rest]
  BY <1>1
<1>3. PICK pt : pt = MergedPoint(h, c, job.domain)
  OBVIOUS
<1>4. PICK rest : rest = job.clusters \ {c}
  OBVIOUS
<1>5. /\ points' = IF o.effect THEN Upsert(pt) ELSE points
      /\ job' = IF o.returns
                THEN [job EXCEPT !.at = "delete", !.clusters = rest, !.merging = c, !.into = pt.id]
                ELSE [job EXCEPT !.at = Later(rest), !.clusters = rest]
  BY <1>2, <1>3, <1>4
<1>6. Dated(pt)
  <2>1. (\E p \in c : pt.created = p.created) /\ pt.holds = UNION {p.holds : p \in c}
    BY <1>3, MergedPointIs
  <2>2. \A p \in c : Dated(p)
    BY DEF MeshRest, ReadPoints
  <2> QED BY <2>1, <2>2 DEF Dated
<1>7. /\ job'.clusters = rest /\ job'.left = job.left
      /\ job'.at \in {"merge", "delete", "archive"}
  BY <1>5 DEF MeshInv, MeshTyped, Later
<1>8. ReadPoints' \subseteq ReadPoints /\ points' \subseteq points \cup {pt}
  BY <1>4, <1>5, <1>7 DEF ReadPoints, Upsert
<1>9. now' = now
  BY DEF MergeCluster
<1> QED BY <1>6, <1>7, <1>8, <1>9, RestFrame

LEMMA NextRest == MeshInv /\ MeshRest /\ [MeshNext]_mesh => MeshRest'
<1> SUFFICES ASSUME MeshInv, MeshRest, [MeshNext]_mesh PROVE MeshRest'
  OBVIOUS
<1>0. now \in Nat /\ now <= MaxNow
  BY DEF MeshInv, MeshTyped, MeshRest
<1>1. ASSUME NEW m \in Memory, NEW kind \in Kinds, MemoryStore(m, kind) PROVE MeshRest'
  <2>1. PICK pt : pt = [id |-> <<m>>, coll |-> CollectionForMemory(kind.type, kind.domain),
                        domain |-> kind.domain, vec |-> kind.vec, created |-> now, holds |-> {m}]
    OBVIOUS
  <2>2. now' = now /\ job' = job /\ points' \subseteq points \cup {pt}
    BY <1>1, <2>1 DEF MemoryStore, StorePoint, Upsert
  <2>3. Dated(pt)
    BY <1>0, <2>1 DEF Dated
  <2> QED BY <2>2, <2>3, RestFrame DEF ReadPoints, MeshRest
<1>2. CASE Wait
  <2>1. now' = now + 1 /\ now' <= MaxNow /\ points' = points /\ job' = job
    BY <1>0, <1>2, MeshAssumption DEF Wait
  <2>2. \A p \in points \cup ReadPoints : p.created \in Nat
    BY DEF MeshInv, PointsTyped, KnownPoints
  <2> QED BY <1>0, <2>1, <2>2 DEF MeshRest, Dated, ReadPoints
<1>3. ASSUME NEW d \in Domain, Consolidate(d) PROVE MeshRest'
  <2> DEFINE memories == {p \in points : p.coll = CollectionForDomain(d) /\ Old(p)}
             clusters == Clusters(memories)
  <2>1. /\ job'.clusters = clusters /\ job'.left = memories \ UNION clusters
        /\ job'.at \in {"archive", "merge"} /\ now' = now /\ points' = points
    BY <1>3 DEF Consolidate, Resting
  <2>2. UNION clusters \subseteq memories
    BY DEF Clusters
  <2>3. memories \subseteq points
    OBVIOUS
  <2> HIDE DEF memories, clusters
  <2>4. ReadPoints' \subseteq points
    BY <2>1, <2>2, <2>3 DEF ReadPoints
  <2> QED BY <2>1, <2>4, RestFrame
<1>4. CASE MergeCluster
  BY <1>4, MergeKeepsRest
<1>5. CASE DeleteOriginals
  <2>1. /\ now' = now /\ points' \subseteq points /\ job'.clusters = job.clusters /\ job'.left = job.left
        /\ job'.at \in {"merge", "archive"}
    BY <1>5 DEF DeleteOriginals, Without, Later, MeshInv, MeshTyped
  <2> QED BY <2>1, RestFrame DEF ReadPoints
<1>6. CASE Archive
  <2>1. /\ now' = now /\ points' \subseteq points /\ job'.clusters = job.clusters
        /\ job'.left \subseteq job.left /\ job'.at = "archive"
    BY <1>6 DEF Archive, Without, MeshInv, MeshTyped
  <2> QED BY <2>1, RestFrame DEF ReadPoints
<1>7. CASE EndJob
  <2>1. now' = now /\ points' = points /\ ReadPoints' = {} /\ job'.at = "idle"
    BY <1>7 DEF EndJob, Resting, ReadPoints
  <2> QED BY <2>1, RestFrame
<1>8. CASE UNCHANGED mesh
  BY <1>8 DEF mesh, MeshRest, Dated, ReadPoints
<1> QED BY <1>1, <1>2, <1>3, <1>4, <1>5, <1>6, <1>7, <1>8 DEF MeshNext, MemoryConsolidate

(* Types of the data mesh: in particular no two points have one id, and no
   memory is dated later than now. *)
THEOREM MeshTypeCorrect == MeshInit /\ [][MeshNext]_mesh => []MeshTypeOK
<1>1. MeshInit => MeshRest
  BY MeshAssumption DEF MeshInit, MeshRest, Resting, ReadPoints
<1>2. MeshInv /\ MeshRest => MeshTypeOK
  BY DEF MeshInv, MeshTyped, IdsApart, MeshRest, Dated, MeshTypeOK
<1> QED BY <1>1, <1>2, MeshAtStart, MeshKept, NextRest, PTL
================================================================================
