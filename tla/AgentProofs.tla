------------------------------ MODULE AgentProofs -------------------------------
(***************************************************************************)
(* Proofs about the two agent services.                                    *)
(*                                                                         *)
(* One request to the SOC agent service, for every alert and every         *)
(* recursion limit: the graph has a loop, so the invariant says for each   *)
(* place what brought the run there: which severities reach it, that the   *)
(* analysis precedes a plan for a high one, and what was planned.          *)
(*                                                                         *)
(* The LangGraph service's registry and supervisor, for any agents that    *)
(* register, any alerts and any clients: the index and the agents agree    *)
(* but for what registering again leaves behind, and each decision is one  *)
(* that the registry of that moment, or the severity, calls for.           *)
(***************************************************************************)
EXTENDS AgentPipeline, AgentService, FiniteSetTheorems, WellFoundedInduction, TLAPS

Severe == severity \in HighSeverity

\* Before triage has rated the alert there is no plan.
Fresh == at \in {"received", "triage"} => actions = {} /\ ~approved

\* The severities each part of the graph is reached with.
Rated ==
  /\ at = "analysis" => Severe
  /\ at \in {"threat_intel", "response", "human_gate"} => Severe \/ severity = "MEDIUM"
  /\ at \in {"threat_intel", "response", "human_gate"} /\ Severe
       => assets = (alert.source \/ alert.dest)

\* Only a severe alert has anything isolated or blocked, and the host is known.
PlansFit ==
  \A a \in actions :
    /\ a.action \in {"isolate_host", "block_ip"} => Severe
    /\ a.action = "isolate_host" => a.target = (alert.source \/ alert.dest)

\* What the gate is given, and what it lets through.
Gated ==
  /\ at = "human_gate" => actions # {}
  /\ at = "human_gate" /\ Severe => "isolate_host" \in Names(actions)
  /\ approved => severity = "MEDIUM" /\ actions # {}

Documented ==
  /\ reported => at = "ok_200"
  /\ at \in {"documentation", "ok_200"} => approved \/ (severity = "LOW" /\ actions = {})

IInv == TypeOK /\ Fresh /\ Rated /\ PlansFit /\ Gated /\ Documented

-----------------------------------------------------------------------------
LEMMA TriageAlwaysRates ==
  ASSUME NEW a \in Alert
  PROVE  /\ FalsePositive(a) \in 0 .. 80
         /\ SeverityOf(a.level) \in {"LOW", "MEDIUM", "HIGH", "CRITICAL"}
<1>1. a.level \in 1 .. 16 /\ a.keyword \in BOOLEAN
  BY DEF Alert, Level
<1> QED BY <1>1 DEF FalsePositive, SeverityOf

\* With a probability that low, the severity alone decides.
LEMMA RouteBySeverity ==
  ASSUME NEW p \in 0 .. 80, NEW s \in {"LOW", "MEDIUM", "HIGH", "CRITICAL"}
  PROVE  RouteAfterTriage(p, s) = IF s \in HighSeverity THEN "analysis"
                                  ELSE IF s = "MEDIUM" THEN "threat_intel" ELSE "documentation"
BY DEF RouteAfterTriage, HighSeverity

LEMMA PlannedFacts ==
  ASSUME NEW sev, NEW known \in BOOLEAN, NEW enrichment, NEW source \in BOOLEAN
  PROVE  /\ Planned(sev, known, enrichment, source) \in SUBSET Action
         /\ Planned(sev, known, enrichment, source) # {}
         /\ sev \in HighSeverity =>
              "isolate_host" \in Names(Planned(sev, known, enrichment, source))
         /\ \A a \in Planned(sev, known, enrichment, source) :
              /\ a.action \in {"isolate_host", "block_ip"} => sev \in HighSeverity
              /\ a.action = "isolate_host" => a.target = known
<1> DEFINE P == Planned(sev, known, enrichment, source)
           Isolate == [action |-> "isolate_host", target |-> known]
           Ticket == [action |-> "create_ticket", target |-> TRUE]
<1>1. ASSUME NEW a \in P PROVE a \in Action
  <2>1. \/ a = Isolate \/ a = Ticket
        \/ a = [action |-> "block_ip", target |-> source]
        \/ a = [action |-> "quarantine_endpoint", target |-> known]
    BY <1>1 DEF Planned
  <2>2. \A n \in {"isolate_host", "block_ip", "quarantine_endpoint", "create_ticket"},
          t \in BOOLEAN : [action |-> n, target |-> t] \in Action
    BY Zenon DEF Action
  <2> QED BY <2>1, <2>2, Zenon
<1>2. Ticket \in P
  BY DEF Planned
<1>3. sev \in HighSeverity => Isolate \in P
  BY DEF Planned
<1>4. ASSUME sev \in HighSeverity PROVE "isolate_host" \in Names(P)
  <2>1. Isolate \in P /\ Isolate.action = "isolate_host"
    BY <1>3, <1>4
  <2> HIDE DEF P, Isolate
  <2> QED BY <2>1 DEF Names
<1>5. ASSUME NEW a \in P
      PROVE  /\ a.action \in {"isolate_host", "block_ip"} => sev \in HighSeverity
             /\ a.action = "isolate_host" => a.target = known
  BY <1>5 DEF Planned
<1> HIDE DEF P, Isolate, Ticket
<1> QED BY <1>1, <1>2, <1>4, <1>5 DEF P

LEMMA InitIInv == Init => IInv
<1> SUFFICES ASSUME Init PROVE IInv
  OBVIOUS
<1>1. fp \in 0 .. 95 /\ steps \in 0 .. RecursionLimit
  <2>1. fp = 0 /\ steps = 0
    BY DEF Init
  <2> QED BY <2>1, PipelineAssumption
<1>2. TypeOK
  BY <1>1 DEF Init, TypeOK
<1>3. Fresh /\ Rated /\ PlansFit /\ Gated /\ Documented
  BY DEF Init, Fresh, Rated, PlansFit, Gated, Documented
<1> QED BY <1>2, <1>3 DEF IInv

\* The one place where the nodes are counted.
LEMMA RunCounts ==
  ASSUME TypeOK, NEW node, Run(node)
  PROVE  steps' \in 0 .. RecursionLimit
<1>1. steps \in 0 .. RecursionLimit
  BY DEF TypeOK
<1>2. steps < RecursionLimit /\ steps' = steps + 1
  BY DEF Run
<1> QED BY <1>1, <1>2, PipelineAssumption

LEMMA NextTypeOK == TypeOK /\ [Next]_vars => TypeOK'
<1> SUFFICES ASSUME TypeOK, [Next]_vars PROVE TypeOK'
  OBVIOUS
<1> USE DEF TypeOK, Node, Answer
<1>1. CASE Accept \/ Reject
  <2>1. at' \in {"triage", "invalid_422"}
    BY <1>1 DEF Accept, Reject
  <2>2. UNCHANGED <<alert, severity, fp, assets, enriched, actions, approved, reported, steps>>
    BY <1>1 DEF Accept, Reject
  <2> QED BY <2>1, <2>2
<1>2. CASE Triage
  <2>1. FalsePositive(alert) \in 0 .. 80
        /\ SeverityOf(alert.level) \in {"LOW", "MEDIUM", "HIGH", "CRITICAL"}
    BY TriageAlwaysRates
  <2>2. at' \in {"analysis", "threat_intel", "documentation"}
    BY <1>2 DEF Triage, RouteAfterTriage
  <2>3. steps' \in 0 .. RecursionLimit
    BY <1>2, RunCounts DEF Triage
  <2>4. fp' \in 0 .. 95
    <3>1. fp' \in 0 .. 80
      BY <1>2, <2>1 DEF Triage
    <3> HIDE DEF TypeOK
    <3> QED BY <3>1
  <2> QED BY <1>2, <2>1, <2>2, <2>3, <2>4 DEF Triage
<1>3. CASE Analysis
  <2>1. (alert.source \/ alert.dest) \in BOOLEAN
    BY DEF Alert
  <2>2. steps' \in 0 .. RecursionLimit
    BY <1>3, RunCounts DEF Analysis
  <2> QED BY <1>3, <2>1, <2>2 DEF Analysis
<1>4. CASE ThreatIntel
  BY <1>4, RunCounts DEF ThreatIntel
<1>5. CASE Response
  <2>1. alert.source \in BOOLEAN
    BY DEF Alert
  <2>2. actions' \in SUBSET Action
    BY <1>5, <2>1, PlannedFacts DEF Response
  <2>3. steps' \in 0 .. RecursionLimit
    BY <1>5, RunCounts DEF Response
  <2> QED BY <1>5, <2>2, <2>3 DEF Response
<1>6. CASE ResponseRaises \/ Overrun
  <2>1. at' \in Answer
    BY <1>6 DEF ResponseRaises, Overrun
  <2>2. steps' \in 0 .. RecursionLimit
    BY <1>6, RunCounts DEF ResponseRaises, Overrun
  <2>3. UNCHANGED <<alert, severity, fp, assets, enriched, actions, approved, reported>>
    BY <1>6 DEF ResponseRaises, Overrun
  <2> QED BY <2>1, <2>2, <2>3
<1>7. CASE HumanGate
  BY <1>7, RunCounts DEF HumanGate
<1>8. CASE Documentation
  BY <1>8, RunCounts DEF Documentation
<1>9. CASE UNCHANGED vars
  <2>1. /\ at' = at /\ alert' = alert /\ severity' = severity /\ fp' = fp /\ assets' = assets
        /\ enriched' = enriched /\ actions' = actions /\ approved' = approved
        /\ reported' = reported /\ steps' = steps
    BY <1>9 DEF vars
  <2>2. at' \in {"received"} \cup Node \cup Answer /\ fp' \in 0 .. 95 /\ steps' \in 0 .. RecursionLimit
    BY <2>1
  <2> HIDE DEF Node, Answer
  <2> QED BY <2>1, <2>2
<1> HIDE DEF TypeOK, Node, Answer
<1> QED BY <1>1, <1>2, <1>3, <1>4, <1>5, <1>6, <1>7, <1>8, <1>9 DEF Next, GraphStep

LEMMA NextIInv == IInv /\ [Next]_vars => IInv'
<1> SUFFICES ASSUME IInv, [Next]_vars PROVE IInv'
  OBVIOUS
<1>1. TypeOK'
  BY NextTypeOK DEF IInv
<1> DEFINE Parts == Fresh /\ Rated /\ PlansFit /\ Gated /\ Documented
<1> SUFFICES Parts'
  BY <1>1 DEF IInv
<1> USE DEF IInv, Fresh, Rated, PlansFit, Gated, Documented, Severe, Run
<1>2. CASE Accept \/ Reject
  <2>1. /\ at = "received" /\ at' \in {"triage", "invalid_422"}
        /\ UNCHANGED <<alert, severity, assets, actions, approved, reported>>
    BY <1>2 DEF Accept, Reject
  <2> QED BY <2>1
<1>3. CASE Triage
  <2>1. /\ fp' \in 0 .. 80 /\ severity' \in {"LOW", "MEDIUM", "HIGH", "CRITICAL"}
        /\ at' = RouteAfterTriage(fp', severity')
        /\ actions = {} /\ ~approved /\ ~reported
        /\ UNCHANGED <<alert, assets, enriched, actions, approved, reported>>
    BY <1>3, TriageAlwaysRates DEF Triage, TypeOK
  <2>2. at' = IF severity' \in HighSeverity THEN "analysis"
              ELSE IF severity' = "MEDIUM" THEN "threat_intel" ELSE "documentation"
    BY <2>1, RouteBySeverity
  <2> QED BY <2>1, <2>2 DEF HighSeverity
<1>4. CASE Analysis
  BY <1>4 DEF Analysis
<1>5. CASE ThreatIntel
  BY <1>5 DEF ThreatIntel
<1>6. CASE Response
  <2> DEFINE P == Planned(severity, assets, enriched, alert.source)
  <2>1. /\ actions' = P /\ at = "response" /\ at' = "human_gate"
        /\ UNCHANGED <<alert, severity, assets, approved, reported>>
    BY <1>6 DEF Response
  <2>2. assets \in BOOLEAN /\ alert.source \in BOOLEAN
    BY DEF TypeOK, Alert
  <2>3. /\ P # {}
        /\ severity \in HighSeverity => "isolate_host" \in Names(P)
        /\ \A a \in P :
             /\ a.action \in {"isolate_host", "block_ip"} => severity \in HighSeverity
             /\ a.action = "isolate_host" => a.target = assets
    BY <2>2, PlannedFacts
  <2>4. \A a \in P : a.action = "isolate_host" => a.target = (alert.source \/ alert.dest)
    BY <2>1, <2>3
  <2> HIDE DEF P
  <2>5. approved => severity = "MEDIUM" /\ actions' # {}
    BY <2>1, <2>3
  <2>6. PlansFit'
    BY <2>1, <2>3, <2>4
  <2>7. Gated'
    BY <2>1, <2>3, <2>5 DEF Names
  <2>8. Fresh' /\ Rated' /\ Documented'
    BY <2>1
  <2> QED BY <2>6, <2>7, <2>8
<1>7. CASE ResponseRaises \/ Overrun
  BY <1>7 DEF ResponseRaises, Overrun, Node
<1>8. CASE HumanGate
  <2>1. Severe => HighImpact(actions) /\ ~approved'
    BY <1>8 DEF HumanGate, HighImpact, HighSeverity
  <2>2. approved' => severity = "MEDIUM" /\ actions # {}
    BY <1>8, <2>1 DEF HumanGate
  <2>3. ~approved' => Severe /\ at' = "analysis"
    BY <1>8 DEF HumanGate
  <2> QED BY <1>8, <2>1, <2>2, <2>3 DEF HumanGate
<1>9. CASE Documentation
  BY <1>9 DEF Documentation
<1>10. CASE UNCHANGED vars
  BY <1>10 DEF vars
<1> QED BY <1>2, <1>3, <1>4, <1>5, <1>6, <1>7, <1>8, <1>9, <1>10 DEF Next, GraphStep

LEMMA SpecIInv == Spec => []IInv
BY InitIInv, NextIInv, PTL DEF Spec

(* The variables have their types.                                          *)
THEOREM TypeCorrect == Spec => []TypeOK
BY SpecIInv, PTL DEF IInv

(* For every alert and every recursion limit, no isolation gets past the    *)
(* gate or lacks its host, and no report is made without a clearance.       *)
THEOREM PlansAlwaysSound == Spec => []PlansAreSound
<1>1. IInv => PlansAreSound
  <2> SUFFICES ASSUME IInv PROVE IsolationIsHeld /\ IsolationHasTarget /\ ReportIsCleared
    BY DEF PlansAreSound
  <2>1. IsolationIsHeld
    BY DEF IInv, PlansFit, Gated, Documented, Severe, HighSeverity, IsolationIsHeld, Names
  <2>2. IsolationHasTarget
    BY DEF IInv, PlansFit, IsolationHasTarget
  <2>3. ReportIsCleared
    BY DEF IInv, Gated, Documented, ReportIsCleared
  <2> QED BY <2>1, <2>2, <2>3
<1> QED BY <1>1, SpecIInv, PTL

-----------------------------------------------------------------------------
(* The registry. *)

(* What the registry keeps: an id is registered once; every agent is in the *)
(* index under what it offers; and what is in the index belongs to a        *)
(* registered agent that offers it, or was given up by registering again.   *)
IdsApart == \A i, j \in DOMAIN agents : agents[i].id = agents[j].id => i = j

Indexed == \A i \in DOMAIN agents : \A c \in agents[i].caps : agents[i].id \in index[c]

Traceable ==
  \A c \in Capability : \A id \in index[c] :
    \/ \E i \in DOMAIN agents : agents[i].id = id /\ c \in agents[i].caps
    \/ <<id, c>> \in reshaped

RegistryInv == ServiceTypeOK /\ IdsApart /\ Indexed /\ Traceable

(* Every agent has a type, capabilities and an id that are known.           *)
LEMMA Offered ==
  ASSUME NEW o \in Agents
  PROVE  o.id \in Ids /\ o.type \in AgentType /\ o.caps \subseteq Capability
BY RoutingAssumption DEF Ids

(* RemoveAt closes the gap it makes.                                        *)
LEMMA Removed ==
  ASSUME NEW S, NEW s \in Seq(S), NEW k \in DOMAIN s, NEW e, e = RemoveAt(s, k)
  PROVE  /\ e \in Seq(S)
         /\ DOMAIN e = 1 .. Len(s) - 1
         /\ \A i \in DOMAIN e : e[i] = IF i < k THEN s[i] ELSE s[i + 1]
<1>1. k \in 1 .. Len(s) /\ Len(s) \in Nat
  OBVIOUS
<1> DEFINE a == SubSeq(s, 1, k - 1)
           b == SubSeq(s, k + 1, Len(s))
<1>2. a \in Seq(S) /\ Len(a) = k - 1 /\ \A i \in 1 .. k - 1 : a[i] = s[i]
  BY <1>1
<1>3. b \in Seq(S) /\ Len(b) = Len(s) - k /\ \A i \in 1 .. Len(s) - k : b[i] = s[k + i]
  BY <1>1
<1>4. e = a \o b
  BY DEF RemoveAt
<1> HIDE DEF a, b
<1>5. e \in Seq(S) /\ Len(e) = Len(s) - 1
  BY <1>1, <1>2, <1>3, <1>4
<1>6. ASSUME NEW i \in 1 .. Len(s) - 1 PROVE e[i] = IF i < k THEN s[i] ELSE s[i + 1]
  <2>1. CASE i < k
    <3>1. i \in 1 .. k - 1
      BY <1>1, <2>1
    <3>2. e[i] = a[i]
      BY <1>1, <1>2, <1>3, <1>4, <3>1
    <3> QED BY <1>2, <2>1, <3>1, <3>2
  <2>2. CASE ~ i < k
    <3>1. i - (k - 1) \in 1 .. Len(s) - k
      BY <1>1, <2>2
    <3>2. i \in 1 .. Len(a) + Len(b) /\ ~ i <= Len(a) /\ i - Len(a) = i - (k - 1)
      BY <1>1, <1>2, <1>3, <2>2
    <3>3. e[i] = b[i - Len(a)]
      <4>1. (a \o b)[i] = IF i <= Len(a) THEN a[i] ELSE b[i - Len(a)]
        <5>1. a \in Seq(S) /\ b \in Seq(S)
          BY <1>2, <1>3
        <5>2. i \in 1 .. Len(a) + Len(b)
          BY <3>2
        <5> QED BY <5>1, <5>2
      <4> QED BY <1>4, <3>2, <4>1
    <3>4. e[i] = b[i - (k - 1)]
      BY <3>2, <3>3
    <3>5. k + (i - (k - 1)) = i + 1
      BY <1>1
    <3> QED BY <1>3, <2>2, <3>1, <3>4, <3>5
  <2> QED BY <2>1, <2>2
<1> QED BY <1>5, <1>6

LEMMA InitRegistry == ServiceInit => RegistryInv
<1> SUFFICES ASSUME ServiceInit PROVE RegistryInv
  OBVIOUS
<1>1. /\ BuiltIn.triage \in Agents /\ BuiltIn.analysis \in Agents
      /\ BuiltIn.response \in Agents /\ BuiltIn.threat_intel \in Agents
  BY RoutingAssumption DEF Agents, AtStartup
<1>2. /\ agents \in Seq(Agents) /\ DOMAIN agents = 1 .. 4
      /\ agents[1] = BuiltIn.triage /\ agents[2] = BuiltIn.analysis
      /\ agents[3] = BuiltIn.response /\ agents[4] = BuiltIn.threat_intel
  BY <1>1 DEF ServiceInit
<1>3. IdsApart
  <2>1. \A t, u \in AtStartup : BuiltIn[t].id = BuiltIn[u].id => t = u
    BY RoutingAssumption
  <2>2. /\ agents[1].id # agents[2].id /\ agents[1].id # agents[3].id /\ agents[1].id # agents[4].id
        /\ agents[2].id # agents[3].id /\ agents[2].id # agents[4].id /\ agents[3].id # agents[4].id
    BY <1>2, <2>1 DEF AtStartup
  <2> QED BY <1>2, <2>2 DEF IdsApart
<1>4. \A c \in Capability : index[c] = {o.id : o \in {p \in {agents[i] : i \in DOMAIN agents} : c \in p.caps}}
  BY DEF ServiceInit, ToSet
<1>5. \A i \in DOMAIN agents : agents[i] \in Agents
  <2>1. \A i \in DOMAIN agents : i = 1 \/ i = 2 \/ i = 3 \/ i = 4
    BY <1>2
  <2> QED BY <1>1, <1>2, <2>1
<1>6. Indexed
  BY <1>4, <1>5, Offered DEF Indexed
<1>7. Traceable
  BY <1>4 DEF Traceable
<1>8. index \in [Capability -> SUBSET Ids]
  <2>1. index = [c \in Capability |-> index[c]]
    BY DEF ServiceInit
  <2>2. \A c \in Capability : index[c] \subseteq Ids
    BY <1>4, <1>5, Offered
  <2> QED BY <2>1, <2>2
<1>9. /\ attached \in BOOLEAN /\ reshaped \subseteq Ids \X Capability
      /\ call \in [Client -> Agents \cup {Idle}]
  BY DEF ServiceInit
<1>10. rules \in Seq(Rules)
  BY DEF ServiceInit
<1> QED BY <1>2, <1>3, <1>6, <1>7, <1>8, <1>9, <1>10 DEF RegistryInv, ServiceTypeOK, RoutingTypeOK

LEMMA RegisterKeeps ==
  ASSUME RegistryInv, NEW o \in Offers, Register(o)
  PROVE  /\ agents' \in Seq(Agents) /\ index' \in [Capability -> SUBSET Ids]
         /\ reshaped' \subseteq Ids \X Capability
         /\ IdsApart' /\ Indexed' /\ Traceable'
<1>1. o \in Agents /\ o.id \in Ids /\ o.caps \subseteq Capability
  BY Offered DEF Agents
<1> PICK e : e = Enter(o)
  OBVIOUS
<1>2. agents' = e
  BY DEF Register
<1>3. agents \in Seq(Agents) /\ index \in [Capability -> SUBSET Ids] /\ reshaped \subseteq Ids \X Capability
  BY DEF RegistryInv, ServiceTypeOK, RoutingTypeOK
\* The new list: o is in it once, and the other agents stay where they are.
<1>4. /\ e \in Seq(Agents)
      /\ \A i \in DOMAIN e : e[i] = o \/ (i \in DOMAIN agents /\ e[i] = agents[i] /\ e[i].id # o.id)
      /\ \A i \in DOMAIN agents : i \in DOMAIN e /\ (e[i] = agents[i] \/ (e[i] = o /\ agents[i].id = o.id))
      /\ \A i, j \in DOMAIN e : e[i].id = e[j].id => i = j
  <2>1. CASE \E i \in DOMAIN agents : agents[i].id = o.id
    <3>1. e = [i \in DOMAIN agents |-> IF agents[i].id = o.id THEN o ELSE agents[i]]
      BY <2>1 DEF Enter
    <3>2. DOMAIN e = DOMAIN agents /\ \A i \in DOMAIN agents : e[i].id = agents[i].id
      BY <3>1
    <3>3. DOMAIN agents = 1 .. Len(agents) /\ \A i \in DOMAIN agents : agents[i] \in Agents
      BY <1>3
    <3>4. e \in Seq(Agents)
      BY <1>1, <3>1, <3>3
    <3> QED BY <3>1, <3>2, <3>4 DEF RegistryInv, IdsApart
  <2>2. CASE ~ \E i \in DOMAIN agents : agents[i].id = o.id
    <3>1. e = Append(agents, o)
      BY <2>2 DEF Enter
    <3>2. /\ e \in Seq(Agents)
          /\ DOMAIN e = 1 .. Len(agents) + 1
          /\ DOMAIN agents = 1 .. Len(agents)
          /\ e[Len(agents) + 1] = o
          /\ \A i \in 1 .. Len(agents) : e[i] = agents[i]
      BY <1>1, <1>3, <3>1
    <3>3. Len(agents) \in Nat
      BY <1>3
    <3>4. \A i \in DOMAIN e : i = Len(agents) + 1 \/ i \in DOMAIN agents
      BY <3>2, <3>3
    <3> QED BY <2>2, <3>2, <3>4 DEF RegistryInv, IdsApart
  <2> QED BY <2>1, <2>2
<1>5. index' = [c \in Capability |-> IF c \in o.caps THEN index[c] \cup {o.id} ELSE index[c]]
  BY DEF Register
<1>6. reshaped' = reshaped \cup
       {<<o.id, c>> : c \in (UNION {p.caps : p \in {q \in {agents[i] : i \in DOMAIN agents} : q.id = o.id}}) \ o.caps}
  BY DEF Register, Registered, ToSet
<1>7. \A i \in DOMAIN agents : agents[i] \in Agents
  BY <1>3
<1>8. \A i \in DOMAIN agents : agents[i].caps \subseteq Capability
  BY <1>7, Offered
<1>9. reshaped' \subseteq Ids \X Capability
  BY <1>1, <1>3, <1>6, <1>8
<1>10. index' \in [Capability -> SUBSET Ids]
  BY <1>1, <1>3, <1>5
<1>11. IdsApart'
  BY <1>2, <1>4 DEF IdsApart
<1>12. Indexed'
  BY <1>1, <1>2, <1>3, <1>4, <1>5, <1>8 DEF RegistryInv, Indexed
<1>13. Traceable'
  <2> SUFFICES ASSUME NEW c \in Capability, NEW id \in index'[c]
               PROVE  \/ \E i \in DOMAIN agents' : agents'[i].id = id /\ c \in agents'[i].caps
                      \/ <<id, c>> \in reshaped'
    BY DEF Traceable
  <2>0. \E i \in DOMAIN e : e[i] = o
    <3>1. CASE \E i \in DOMAIN agents : agents[i].id = o.id
      BY <1>4, <3>1
    <3>2. CASE ~ \E i \in DOMAIN agents : agents[i].id = o.id
      <4>1. e = Append(agents, o)
        BY <3>2 DEF Enter
      <4>2. Len(agents) + 1 \in DOMAIN e /\ e[Len(agents) + 1] = o
        BY <1>3, <4>1
      <4> QED BY <4>2
    <3> QED BY <3>1, <3>2
  <2>1. CASE id = o.id /\ c \in o.caps
    BY <2>0, <2>1, <1>2
  <2>2. CASE ~(id = o.id /\ c \in o.caps)
    <3>1. id \in index[c]
      BY <1>5, <2>2
    <3>2. CASE <<id, c>> \in reshaped
      BY <1>6, <3>2
    <3>3. CASE \E i \in DOMAIN agents : agents[i].id = id /\ c \in agents[i].caps
      <4>1. PICK i \in DOMAIN agents : agents[i].id = id /\ c \in agents[i].caps
        BY <3>3
      <4>2. CASE id = o.id
        <5>1. c \in agents[i].caps \ o.caps
          BY <2>2, <4>1, <4>2
        <5> DEFINE P == {q \in {agents[j] : j \in DOMAIN agents} : q.id = o.id}
        <5>2. agents[i] \in P
          BY <4>1, <4>2
        <5>3. c \in (UNION {p.caps : p \in P}) \ o.caps
          BY <5>1, <5>2
        <5>4. <<o.id, c>> \in reshaped'
          BY <1>6, <5>3
        <5> QED BY <4>2, <5>4
      <4>3. CASE id # o.id
        BY <1>2, <1>4, <4>1, <4>3
      <4> QED BY <4>2, <4>3
    <3> QED BY <3>1, <3>2, <3>3 DEF RegistryInv, Traceable
  <2> QED BY <2>1, <2>2
<1> QED BY <1>2, <1>4, <1>9, <1>10, <1>11, <1>12, <1>13

LEMMA UnregisterKeeps ==
  ASSUME RegistryInv, NEW o, o \in Registered, Unregister(o)
  PROVE  /\ agents' \in Seq(Agents) /\ index' \in [Capability -> SUBSET Ids]
         /\ IdsApart' /\ Indexed' /\ Traceable'
<1>1. agents \in Seq(Agents) /\ index \in [Capability -> SUBSET Ids]
  BY DEF RegistryInv, ServiceTypeOK, RoutingTypeOK
<1>2. PICK k \in DOMAIN agents : agents[k] = o /\ agents' = RemoveAt(agents, k)
  BY DEF Unregister
<1> PICK s, e : s = agents /\ e = agents'
  OBVIOUS
<1>3. /\ e \in Seq(Agents) /\ DOMAIN e = 1 .. Len(s) - 1
      /\ \A i \in DOMAIN e : e[i] = IF i < k THEN s[i] ELSE s[i + 1]
  <2>1. s \in Seq(Agents) /\ k \in DOMAIN s /\ e = RemoveAt(s, k)
    BY <1>1, <1>2
  <2> QED BY <2>1, Removed
<1>4. DOMAIN s = 1 .. Len(s) /\ k \in 1 .. Len(s) /\ Len(s) \in Nat
  BY <1>1, <1>2
<1>5. \A i \in DOMAIN e : \E j \in DOMAIN s : j # k /\ e[i] = s[j] /\ j = IF i < k THEN i ELSE i + 1
  BY <1>3, <1>4
<1>6. \A j \in DOMAIN s : j = k \/ \E i \in DOMAIN e : e[i] = s[j]
  <2> TAKE j \in DOMAIN s
  <2>1. CASE j < k
    <3>1. j \in DOMAIN e /\ e[j] = s[j]
      BY <1>3, <1>4, <2>1
    <3> QED BY <3>1
  <2>2. CASE j > k
    <3>1. j - 1 \in DOMAIN e /\ ~(j - 1 < k) /\ j - 1 + 1 = j
      BY <1>3, <1>4, <2>2
    <3>2. e[j - 1] = s[j]
      BY <1>3, <3>1
    <3> QED BY <3>1, <3>2
  <2> QED BY <1>4, <2>1, <2>2
<1>7. index' = [c \in Capability |-> IF c \in o.caps THEN index[c] \ {o.id} ELSE index[c]] /\ reshaped' = reshaped
  BY DEF Unregister
<1>8. \A i, j \in DOMAIN s : s[i].id = s[j].id => i = j
  BY DEF RegistryInv, IdsApart
<1>9. \A i \in DOMAIN s : s[i].caps \subseteq Capability
  <2>1. \A i \in DOMAIN s : s[i] \in Agents
    BY <1>1
  <2> QED BY <2>1, Offered
<1>10. IdsApart'
  <2>1. ASSUME NEW i \in DOMAIN e, NEW j \in DOMAIN e, e[i].id = e[j].id PROVE i = j
    <3>1. PICK a \in DOMAIN s : e[i] = s[a] /\ a = IF i < k THEN i ELSE i + 1
      BY <1>5
    <3>2. PICK b \in DOMAIN s : e[j] = s[b] /\ b = IF j < k THEN j ELSE j + 1
      BY <1>5
    <3>3. a = b
      BY <1>8, <2>1, <3>1, <3>2
    <3>4. i \in Nat /\ j \in Nat /\ k \in Nat
      BY <1>3, <1>4
    <3> QED BY <3>1, <3>2, <3>3, <3>4
  <2> QED BY <2>1 DEF IdsApart
<1>11. Indexed'
  <2> SUFFICES ASSUME NEW i \in DOMAIN e, NEW c \in e[i].caps PROVE e[i].id \in index'[c]
    BY DEF Indexed
  <2>1. PICK j \in DOMAIN s : j # k /\ e[i] = s[j]
    BY <1>5
  <2>2. c \in Capability /\ s[j].id # o.id
    BY <1>2, <1>4, <1>8, <1>9, <2>1
  <2>3. s[j].id \in index[c]
    BY <2>1 DEF RegistryInv, Indexed
  <2> QED BY <1>7, <2>1, <2>2, <2>3
<1>12. Traceable'
  <2> SUFFICES ASSUME NEW c \in Capability, NEW id \in index'[c]
               PROVE  \/ \E i \in DOMAIN e : e[i].id = id /\ c \in e[i].caps
                      \/ <<id, c>> \in reshaped
    BY <1>7 DEF Traceable
  <2>1. id \in index[c] /\ ~(id = o.id /\ c \in o.caps)
    BY <1>7
  <2>2. CASE <<id, c>> \in reshaped
    BY <2>2
  <2>3. CASE \E i \in DOMAIN s : s[i].id = id /\ c \in s[i].caps
    <3>1. PICK j \in DOMAIN s : s[j].id = id /\ c \in s[j].caps
      BY <2>3
    <3>2. j # k
      BY <1>2, <2>1, <3>1
    <3> QED BY <1>6, <3>1, <3>2
  <2> QED BY <2>1, <2>2, <2>3 DEF RegistryInv, Traceable
<1>13. index' \in [Capability -> SUBSET Ids]
  BY <1>1, <1>7
<1> QED BY <1>3, <1>10, <1>11, <1>12, <1>13

(* A rule takes the place of the one with its severity, or the end.         *)
LEMMA RulesKept ==
  ASSUME NEW r \in Rules, AddRoutingRule(r), rules \in Seq(Rules)
  PROVE  rules' \in Seq(Rules)
<1>1. CASE \E i \in DOMAIN rules : rules[i].severity = r.severity
  <2>1. rules' = [i \in DOMAIN rules |-> IF rules[i].severity = r.severity THEN r ELSE rules[i]]
    BY <1>1 DEF AddRoutingRule
  <2>2. DOMAIN rules = 1 .. Len(rules) /\ \A i \in DOMAIN rules : rules[i] \in Rules
    OBVIOUS
  <2> QED BY <2>1, <2>2
<1>2. CASE ~ \E i \in DOMAIN rules : rules[i].severity = r.severity
  <2>1. rules' = Append(rules, r)
    BY <1>2 DEF AddRoutingRule
  <2> QED BY <2>1
<1> QED BY <1>1, <1>2

(* A set of numbers that is not empty has a least one.                      *)
LEMMA LeastOne ==
  ASSUME NEW S \in SUBSET Nat, S # {}
  PROVE  Min(S) \in S /\ \A x \in S : Min(S) <= x
<1>1. PICK m \in S : \A x \in S : ~ <<x, m>> \in OpToRel(<, Nat)
  BY NatLessThanWellFounded, WFMin
<1>2. \A x \in S : x < m => <<x, m>> \in OpToRel(<, Nat)
  BY DEF OpToRel
<1>3. \A x \in S : ~ (x < m)
  BY <1>1, <1>2
<1>4. \A x \in S : m <= x
  BY <1>3
<1> QED BY <1>4 DEF Min

LEMMA CallsKept ==
  ASSUME RegistryInv, ServiceNext
  PROVE  call' \in [Client -> Agents \cup {Idle}]
<1>1. call \in [Client -> Agents \cup {Idle}] /\ agents \in Seq(Agents)
  BY DEF RegistryInv, ServiceTypeOK, RoutingTypeOK
<1>3. ASSUME NEW t \in DOMAIN BuiltIn PROVE BuiltIn[t] \in Agents
  BY DEF Agents
<1>4. ASSUME NEW c \in Client, NEW t \in AgentType, RunAgent(c, t)
      PROVE  call' \in [Client -> Agents \cup {Idle}]
  <2>1. CASE FindAgentsByType(t) # {} /\ Execute(c, agents[Min(FindAgentsByType(t))])
    <3> PICK I, s : I = FindAgentsByType(t) /\ s = agents
      OBVIOUS
    <3>1. I \in SUBSET DOMAIN s /\ DOMAIN s = 1 .. Len(s) /\ \A i \in DOMAIN s : s[i] \in Agents
      BY <1>1 DEF FindAgentsByType
    <3>2. I \in SUBSET Nat /\ I # {}
      BY <2>1, <3>1
    <3>3. Min(I) \in I
      BY <3>2, LeastOne
    <3>4. s[Min(I)] \in Agents
      BY <3>1, <3>3
    <3>5. Execute(c, s[Min(I)])
      BY <2>1
    <3> QED BY <1>1, <3>4, <3>5 DEF Execute
  <2>2. CASE t \in DOMAIN BuiltIn /\ Execute(c, BuiltIn[t])
    BY <1>1, <1>3, <2>2 DEF Execute
  <2> QED BY <1>4, <2>1, <2>2 DEF RunAgent
<1>5. ASSUME NEW c \in Client, NEW t \in DOMAIN BuiltIn, RunBuiltIn(c, t)
      PROVE  call' \in [Client -> Agents \cup {Idle}]
  BY <1>1, <1>3, <1>5 DEF RunBuiltIn, Execute
<1>6. ASSUME NEW c \in Client, AgentReturns(c) PROVE call' \in [Client -> Agents \cup {Idle}]
  BY <1>1, <1>6 DEF AgentReturns
<1>7. ASSUME UNCHANGED call PROVE call' \in [Client -> Agents \cup {Idle}]
  BY <1>1, <1>7
<1> QED BY <1>4, <1>5, <1>6, <1>7 DEF ServiceNext, Directory, Analyze, GenericWebhook, N8nCallback, WazuhWebhook

(* Running agents and routing alerts leave the registry as it is.           *)
LEMMA RegistryUntouched ==
  ASSUME RegistryInv, UNCHANGED <<agents, index, attached, reshaped>>, rules' \in Seq(Rules),
         call' \in [Client -> Agents \cup {Idle}]
  PROVE  RegistryInv'
<1>1. ServiceTypeOK'
  BY DEF RegistryInv, ServiceTypeOK, RoutingTypeOK
<1>2. IdsApart' /\ Indexed' /\ Traceable'
  BY DEF RegistryInv, IdsApart, Indexed, Traceable
<1> QED BY <1>1, <1>2 DEF RegistryInv

LEMMA RegistryKept == RegistryInv /\ [ServiceNext]_serviceVars => RegistryInv'
<1> SUFFICES ASSUME RegistryInv, [ServiceNext]_serviceVars PROVE RegistryInv'
  OBVIOUS
<1>0. RoutingTypeOK
  BY DEF RegistryInv, ServiceTypeOK
<1>1. CASE UNCHANGED serviceVars
  <2>1. UNCHANGED <<agents, index, attached, reshaped, rules, call>>
    BY <1>1 DEF serviceVars, routing
  <2> QED BY <1>0, <2>1, RegistryUntouched DEF RegistryInv, ServiceTypeOK, RoutingTypeOK
<1>2. CASE ServiceNext
  <2>0. call' \in [Client -> Agents \cup {Idle}]
    BY <1>2, CallsKept
  <2>1. ASSUME NEW o \in Offers, Register(o) PROVE RegistryInv'
    <3>1. /\ agents' \in Seq(Agents) /\ index' \in [Capability -> SUBSET Ids]
          /\ reshaped' \subseteq Ids \X Capability
          /\ IdsApart' /\ Indexed' /\ Traceable'
      BY <2>1, RegisterKeeps
    <3>2. UNCHANGED <<attached, rules>>
      BY <2>1 DEF Register
    <3> QED BY <1>0, <2>0, <3>1, <3>2 DEF RegistryInv, ServiceTypeOK, RoutingTypeOK
  <2>2. ASSUME NEW o \in Registered, Unregister(o) PROVE RegistryInv'
    <3>1. /\ agents' \in Seq(Agents) /\ index' \in [Capability -> SUBSET Ids]
          /\ IdsApart' /\ Indexed' /\ Traceable'
      BY <2>2, UnregisterKeeps
    <3>2. UNCHANGED <<attached, rules, reshaped>>
      BY <2>2 DEF Unregister
    <3> QED BY <1>0, <2>0, <3>1, <3>2 DEF RegistryInv, ServiceTypeOK, RoutingTypeOK
  <2>3. CASE Clear
    <3>1. /\ agents' = <<>> /\ index' = [c \in Capability |-> {}] /\ reshaped' = {}
          /\ UNCHANGED <<attached, rules>>
      BY <2>3 DEF Clear
    <3>2. IdsApart' /\ Indexed' /\ Traceable'
      BY <3>1 DEF IdsApart, Indexed, Traceable
    <3> QED BY <1>0, <2>0, <3>1, <3>2 DEF RegistryInv, ServiceTypeOK, RoutingTypeOK
  <2>4. CASE AttachRegistry
    <3>1. attached' \in BOOLEAN /\ UNCHANGED <<agents, index, rules, reshaped>>
      BY <2>4 DEF AttachRegistry
    <3>2. IdsApart' /\ Indexed' /\ Traceable'
      BY <3>1 DEF RegistryInv, IdsApart, Indexed, Traceable
    <3> QED BY <1>0, <2>0, <3>1, <3>2 DEF RegistryInv, ServiceTypeOK, RoutingTypeOK
  <2>5. ASSUME NEW r \in Rules, AddRoutingRule(r) PROVE RegistryInv'
    <3>1. rules' \in Seq(Rules)
      BY <1>0, <2>5, RulesKept DEF RoutingTypeOK
    <3>2. UNCHANGED <<agents, index, attached, reshaped>>
      BY <2>5 DEF AddRoutingRule
    <3> QED BY <2>0, <3>1, <3>2, RegistryUntouched
  <2>6. ASSUME UNCHANGED <<agents, index, attached, rules, reshaped>> PROVE RegistryInv'
    <3>1. rules' \in Seq(Rules)
      BY <1>0, <2>6 DEF RoutingTypeOK
    <3> QED BY <2>0, <2>6, <3>1, RegistryUntouched
  <2> QED BY <1>2, <2>1, <2>2, <2>3, <2>4, <2>5, <2>6
          DEF ServiceNext, Directory, Analyze, GenericWebhook, N8nCallback, WazuhWebhook, Route,
              RunAgent, RunBuiltIn, Execute, AgentReturns
<1> QED BY <1>1, <1>2

(* The agents, the index and the rules of the supervisor are of their types *)
(* for any agents that register, any rules and any clients.                 *)
THEOREM ServiceTypeCorrect == ServiceSpec => []ServiceTypeOK
<1>1. RegistryInv => ServiceTypeOK
  BY DEF RegistryInv
<1> QED BY <1>1, InitRegistry, RegistryKept, PTL DEF ServiceSpec

(* Whatever has registered, registered again and left, every agent is found *)
(* under all it offers, and under nothing else but what it gave up.         *)
THEOREM IndexAlwaysFollows == ServiceSpec => []IndexFollowsAgents
<1>1. RegistryInv => IndexFollowsAgents
  <2> SUFFICES ASSUME RegistryInv PROVE IndexFollowsAgents
    OBVIOUS
  <2>1. \A o \in Registered : \E i \in DOMAIN agents : agents[i] = o
    BY DEF Registered, ToSet
  <2>2. FindsEveryProvider
    BY <2>1 DEF RegistryInv, Indexed, FindsEveryProvider, FindAgents
  <2>3. StaleOnlyByReregistration
    <3> SUFFICES ASSUME NEW c \in Capability, NEW o \in FindAgents(c)
                 PROVE  c \in o.caps \/ <<o.id, c>> \in reshaped
      BY DEF StaleOnlyByReregistration
    <3>1. PICK i \in DOMAIN agents : agents[i] = o /\ o.id \in index[c]
      BY <2>1 DEF FindAgents
    <3>2. CASE <<o.id, c>> \in reshaped
      BY <3>2
    <3>3. CASE \E j \in DOMAIN agents : agents[j].id = o.id /\ c \in agents[j].caps
      <4>1. PICK j \in DOMAIN agents : agents[j].id = o.id /\ c \in agents[j].caps
        BY <3>3
      <4>2. j = i
        BY <3>1, <4>1 DEF RegistryInv, IdsApart
      <4> QED BY <3>1, <4>1, <4>2
    <3> QED BY <3>1, <3>2, <3>3 DEF RegistryInv, Traceable
  <2> QED BY <2>2, <2>3 DEF IndexFollowsAgents
<1> QED BY <1>1, InitRegistry, RegistryKept, PTL DEF ServiceSpec

-----------------------------------------------------------------------------
(* Routing. *)

(* Of some types, when each has a number, one has the most.                 *)
LEMMA MostExists ==
  ASSUME NEW F \in SUBSET AgentType, F # {}, NEW f \in [AgentType -> Nat]
  PROVE  \E t \in F : \A u \in F : f[u] <= f[t]
<1> DEFINE B == {k \in Nat : \A u \in F : f[u] <= k}
<1>1. B # {}
  <2>1. AgentType = {"triage", "analysis", "threat_intel", "response", "documentation"}
    BY DEF AgentType, TypeCapabilities
  <2> DEFINE k == f["triage"] + f["analysis"] + f["threat_intel"] + f["response"] + f["documentation"]
  <2>2. k \in Nat /\ \A u \in AgentType : f[u] <= k
    BY <2>1
  <2> QED BY <2>2
<1>2. B \in SUBSET Nat
  OBVIOUS
<1> PICK m : m = Min(B)
  OBVIOUS
<1>3. m \in B /\ \A k \in B : m <= k
  BY <1>1, <1>2, LeastOne
<1>4. CASE \E t \in F : f[t] = m
  BY <1>3, <1>4
<1>5. CASE \A t \in F : f[t] # m
  <2>1. \A t \in F : f[t] \in Nat /\ f[t] < m
    BY <1>3, <1>5
  <2>2. m - 1 \in Nat /\ \A t \in F : f[t] <= m - 1
    BY <1>3, <2>1
  <2>3. m - 1 \in B
    BY <2>2
  <2> QED BY <1>3, <2>3
<1> QED BY <1>4, <1>5

(* The type that is detected is one whose requirements are known.           *)
LEMMA Typed ==
  ASSUME NEW d
  PROVE  DetectAlertType(d) \in DOMAIN AlertTypeCapabilities
<1> DEFINE found == {i \in DOMAIN Patterns : Patterns[i] \in Get(d, "rule_description", {})}
<1>1. found \in SUBSET Nat /\ found \subseteq DOMAIN Patterns
  BY DEF Patterns
<1> HIDE DEF found
<1>2. \A i \in DOMAIN Patterns : PatternType[Patterns[i]] \in DOMAIN AlertTypeCapabilities
  BY DEF Patterns, PatternType, AlertTypeCapabilities
<1>3. CASE found = {}
  BY <1>3 DEF DetectAlertType, found, AlertTypeCapabilities
<1>4. CASE found # {}
  <2>1. Min(found) \in DOMAIN Patterns
    BY <1>1, <1>4, LeastOne
  <2>2. DetectAlertType(d) = PatternType[Patterns[Min(found)]]
    BY <1>4 DEF DetectAlertType, found
  <2> QED BY <1>2, <2>1, <2>2
<1> QED BY <1>3, <1>4

(* What an alert requires are capabilities, and for a severe one always the *)
(* analysis, whatever its type and indicators add.                          *)
LEMMA Required ==
  ASSUME NEW a, a.type \in DOMAIN AlertTypeCapabilities, NEW r, r = RequiredCapabilities(a)
  PROVE  /\ r \in Seq(Capability)
         /\ a.severity \in {"critical", "high"} => "deep_analysis" \in ToSet(r)
<1> DEFINE x == Get(SeverityToCapabilities, a.severity, <<"alert_parsing">>)
           y == AlertTypeCapabilities[a.type]
           z == IF a.iocs THEN <<"ioc_enrichment", "opencti_query">> ELSE <<>>
           Known == {"alert_parsing", "severity_assessment", "ioc_enrichment", "deep_analysis",
                     "mitre_mapping", "log_correlation", "opencti_query", "threat_actor_profiling",
                     "containment", "remediation", "notification"}
<1>0. \A c \in Known : c \in Capability
  <2>1. AgentType = {"triage", "analysis", "threat_intel", "response", "documentation"}
    BY DEF AgentType, TypeCapabilities
  <2> QED BY <2>1 DEF Capability, TypeCapabilities
<1>1. x \in Seq(Capability)
  <2>1. \/ x = <<"severity_assessment", "deep_analysis", "containment", "remediation">>
        \/ x = <<"severity_assessment", "deep_analysis", "containment">>
        \/ x = <<"ioc_enrichment", "log_correlation">>
        \/ x = <<"alert_parsing">>
    BY DEF SeverityToCapabilities, Get
  <2> HIDE DEF x
  <2>2. <<"severity_assessment", "deep_analysis", "containment", "remediation">> \in Seq(Capability)
    BY <1>0
  <2>3. <<"severity_assessment", "deep_analysis", "containment">> \in Seq(Capability)
    BY <1>0
  <2>4. <<"ioc_enrichment", "log_correlation">> \in Seq(Capability)
    BY <1>0
  <2>5. <<"alert_parsing">> \in Seq(Capability)
    BY <1>0
  <2> QED BY <2>1, <2>2, <2>3, <2>4, <2>5, Zenon
<1>2. y \in Seq(Capability)
  <2>1. \/ y = <<"ioc_enrichment", "log_correlation">>
        \/ y = <<"deep_analysis", "threat_actor_profiling", "mitre_mapping">>
        \/ y = <<"deep_analysis", "containment", "remediation", "mitre_mapping">>
        \/ y = <<"ioc_enrichment", "threat_actor_profiling">>
        \/ y = <<"deep_analysis", "containment", "log_correlation">>
        \/ y = <<"deep_analysis", "log_correlation", "mitre_mapping">>
        \/ y = <<"alert_parsing", "ioc_enrichment">>
        \/ y = <<"alert_parsing", "notification">>
        \/ y = <<>>
    BY DEF AlertTypeCapabilities
  <2> HIDE DEF y
  <2>2. <<"ioc_enrichment", "log_correlation">> \in Seq(Capability)
    BY <1>0
  <2>3. <<"deep_analysis", "threat_actor_profiling", "mitre_mapping">> \in Seq(Capability)
    BY <1>0
  <2>4. <<"deep_analysis", "containment", "remediation", "mitre_mapping">> \in Seq(Capability)
    BY <1>0
  <2>5. <<"ioc_enrichment", "threat_actor_profiling">> \in Seq(Capability)
    BY <1>0
  <2>6. <<"deep_analysis", "containment", "log_correlation">> \in Seq(Capability)
    BY <1>0
  <2>7. <<"deep_analysis", "log_correlation", "mitre_mapping">> \in Seq(Capability)
    BY <1>0
  <2>8. <<"alert_parsing", "ioc_enrichment">> \in Seq(Capability)
    BY <1>0
  <2>9. <<"alert_parsing", "notification">> \in Seq(Capability)
    BY <1>0
  <2>10. <<>> \in Seq(Capability)
    BY <1>0
  <2> QED BY <2>1, <2>2, <2>3, <2>4, <2>5, <2>6, <2>7, <2>8, <2>9, <2>10, Zenon
<1>3. z \in Seq(Capability)
  BY <1>0
<1>4. a.severity \in {"critical", "high"} => Len(x) >= 2 /\ x[2] = "deep_analysis"
  BY DEF SeverityToCapabilities, Get
<1>5. r = (x \o y) \o z
  BY DEF RequiredCapabilities
<1> HIDE DEF x, y, z
<1>6. r \in Seq(Capability)
  BY <1>1, <1>2, <1>3, <1>5
<1>7. ASSUME a.severity \in {"critical", "high"} PROVE "deep_analysis" \in ToSet(r)
  <2>1. 2 \in DOMAIN r /\ r[2] = "deep_analysis"
    BY <1>1, <1>2, <1>3, <1>4, <1>5, <1>7
  <2> QED BY <2>1 DEF ToSet
<1> QED BY <1>6, <1>7

(* Who is best matches something, and if anybody does, somebody is best.    *)
LEMMA BestOf ==
  ASSUME NEW r \in Seq(Capability), NEW M, NEW U, IsFiniteSet(U),
         \A c \in Capability, t \in AgentType : M[c][t] \subseteq U
  PROVE  /\ \A t \in Best(r, M) : t \in AgentType /\ \E c \in ToSet(r) : M[c][t] # {}
         /\ (\E t \in AgentType : \E c \in ToSet(r) : M[c][t] # {}) => Best(r, M) # {}
<1>1. ToSet(r) \subseteq Capability /\ IsFiniteSet(ToSet(r))
  <2>1. DOMAIN r = 1 .. Len(r) /\ Len(r) \in Nat /\ \A i \in DOMAIN r : r[i] \in Capability
    OBVIOUS
  <2>2. ToSet(r) \subseteq Capability
    BY <2>1 DEF ToSet
  <2>3. r \in Surjection(1 .. Len(r), ToSet(r))
    BY <2>1 DEF Surjection, ToSet
  <2>4. IsFiniteSet(1 .. Len(r))
    BY <2>1, FS_Interval
  <2> QED BY <2>2, <2>3, <2>4, FS_Surjection
<1>2. \A t \in AgentType : Score(r, M, t) \in Nat
  <2> TAKE t \in AgentType
  <2> DEFINE P == UNION {{c} \X M[c][t] : c \in ToSet(r)}
  <2>1. P \subseteq ToSet(r) \X U
    BY <1>1
  <2>2. IsFiniteSet(ToSet(r) \X U)
    BY <1>1, FS_Product
  <2> HIDE DEF P
  <2>3. IsFiniteSet(P)
    BY <2>1, <2>2, FS_Subset
  <2>4. Cardinality(P) \in Nat
    BY <2>3, FS_CardinalityType
  <2> QED BY <2>4 DEF Score, P
<1> DEFINE found == {t \in AgentType : \E c \in ToSet(r) : M[c][t] # {}}
           most == {t \in found : \A u \in found : Score(r, M, u) <= Score(r, M, t)}
<1>3. Best(r, M) = {t \in most : \A u \in most : First(r, M, t) <= First(r, M, u)}
  BY DEF Best
<1>4. \A t \in found : First(r, M, t) \in Nat
  <2> TAKE t \in found
  <2> DEFINE I == {i \in DOMAIN r : M[r[i]][t] # {}}
  <2>1. DOMAIN r \subseteq Nat
    OBVIOUS
  <2>2. I \in SUBSET Nat /\ I # {}
    BY <2>1 DEF ToSet
  <2> HIDE DEF I
  <2>3. Min(I) \in Nat
    BY <2>2, LeastOne
  <2> QED BY <2>3 DEF First, I
<1>5. ASSUME found # {} PROVE Best(r, M) # {}
  <2> DEFINE f == [t \in AgentType |-> Score(r, M, t)]
  <2>1. f \in [AgentType -> Nat]
    BY <1>2
  <2>2. \A t \in AgentType : f[t] = Score(r, M, t)
    OBVIOUS
  <2>3. found \in SUBSET AgentType
    OBVIOUS
  <2> HIDE DEF f, found
  <2>4. \E t \in found : \A u \in found : f[u] <= f[t]
    BY <1>5, <2>1, <2>3, MostExists
  <2>5. most # {}
    BY <2>2, <2>3, <2>4
  <2> DEFINE N == {First(r, M, t) : t \in most}
  <2>6. N \in SUBSET Nat /\ N # {}
    BY <1>4, <2>5
  <2> HIDE DEF N
  <2>7. Min(N) \in N /\ \A n \in N : Min(N) <= n
    BY <2>6, LeastOne
  <2>8. PICK t \in most : First(r, M, t) = Min(N)
    BY <2>7 DEF N
  <2>9. \A u \in most : First(r, M, t) <= First(r, M, u)
    BY <2>7, <2>8 DEF N
  <2> QED BY <1>3, <2>8, <2>9
<1> QED BY <1>3, <1>5

(* Through the registry, an alert goes to the type of an agent found for    *)
(* something it requires; to triage only when there is none.                *)
LEMMA RegistryRoutes ==
  ASSUME RegistryInv, NEW a, a.type \in DOMAIN AlertTypeCapabilities, NEW t, t \in RouteViaRegistry(a),
         NEW able, able = UNION {FindAgents(c) : c \in ToSet(RequiredCapabilities(a))}
  PROVE  t \in IF able = {} THEN {"triage"} ELSE {o.type : o \in able}
<1> PICK r, M, U, s : /\ r = RequiredCapabilities(a) /\ M = RegistryMatches
                      /\ U = Registered /\ s = agents
  OBVIOUS
<1>1. r \in Seq(Capability)
  BY Required
<1>2. ToSet(r) \subseteq Capability
  <2>1. DOMAIN r = 1 .. Len(r) /\ \A i \in DOMAIN r : r[i] \in Capability
    BY <1>1
  <2> QED BY <2>1 DEF ToSet
<1>3. IsFiniteSet(U)
  <2>1. s \in Seq(Agents) /\ U = {s[i] : i \in DOMAIN s}
    BY DEF Registered, ToSet, RegistryInv, ServiceTypeOK, RoutingTypeOK
  <2>2. DOMAIN s = 1 .. Len(s) /\ Len(s) \in Nat
    BY <2>1
  <2>3. s \in Surjection(1 .. Len(s), U)
    BY <2>1, <2>2 DEF Surjection
  <2>4. IsFiniteSet(1 .. Len(s))
    BY <2>2, FS_Interval
  <2> QED BY <2>3, <2>4, FS_Surjection
<1>4. \A c \in Capability, u \in AgentType : M[c][u] = {o \in FindAgents(c) : o.type = u}
  BY DEF RegistryMatches
<1>5. \A c \in Capability : FindAgents(c) \subseteq U
  BY DEF FindAgents
<1>6. \A o \in U : o.type \in AgentType
  <2>1. \A o \in U : o \in Agents
    <3>1. s \in Seq(Agents) /\ U = {s[i] : i \in DOMAIN s}
      BY DEF Registered, ToSet, RegistryInv, ServiceTypeOK, RoutingTypeOK
    <3> QED BY <3>1
  <2> QED BY <2>1, Offered
<1>7. \A c \in Capability, u \in AgentType : M[c][u] \subseteq U
  BY <1>4, <1>5
<1>8. able = UNION {FindAgents(c) : c \in ToSet(r)}
  OBVIOUS
<1>9. t \in IF Best(r, M) = {} THEN {"triage"} ELSE Best(r, M)
  BY DEF RouteViaRegistry
<1>10. /\ \A u \in Best(r, M) : u \in AgentType /\ \E c \in ToSet(r) : M[c][u] # {}
       /\ (\E u \in AgentType : \E c \in ToSet(r) : M[c][u] # {}) => Best(r, M) # {}
  BY <1>1, <1>3, <1>7, BestOf
<1>11. CASE able = {}
  <2>1. \A c \in ToSet(r), u \in AgentType : M[c][u] = {}
    BY <1>2, <1>4, <1>8, <1>11
  <2>2. Best(r, M) = {}
    BY <1>10, <2>1
  <2> QED BY <1>9, <1>11, <2>2
<1>12. CASE able # {}
  <2>1. PICK c \in ToSet(r) : \E p \in FindAgents(c) : TRUE
    BY <1>8, <1>12
  <2>8. PICK o : o \in FindAgents(c)
    BY <2>1
  <2>2. c \in Capability /\ o.type \in AgentType
    BY <1>2, <1>5, <1>6, <2>1, <2>8
  <2>3. M[c][o.type] # {}
    BY <1>4, <2>2, <2>8
  <2>4. t \in Best(r, M)
    BY <1>9, <1>10, <2>1, <2>2, <2>3
  <2>5. PICK k \in ToSet(r) : t \in AgentType /\ M[k][t] # {}
    BY <1>10, <2>4
  <2>6. PICK p \in FindAgents(k) : p.type = t
    BY <1>2, <1>4, <2>5
  <2>7. p \in able
    BY <1>8, <2>5, <2>6
  <2> QED BY <1>12, <2>6, <2>7
<1> QED BY <1>11, <1>12

(* Without a registry, no type and no indicator outvotes the severity.      *)
LEMMA MappingRoutes ==
  ASSUME NEW a, a.type \in DOMAIN AlertTypeCapabilities, a.severity \in {"critical", "high"},
         NEW t, t \in RouteViaMapping(a)
  PROVE  t = "analysis"
<1> DEFINE required == RequiredCapabilities(a)
           candidates == {u \in AgentType : \E i \in DOMAIN required : required[i] \in TypeCapabilities[u]}
<1>1. "analysis" \in candidates
  <2>1. "deep_analysis" \in ToSet(required)
    BY Required
  <2>2. "analysis" \in AgentType /\ "deep_analysis" \in TypeCapabilities["analysis"]
    BY DEF AgentType, TypeCapabilities
  <2> QED BY <2>1, <2>2 DEF ToSet
<1> QED BY <1>1 DEF RouteViaMapping

(* Every decision is one the registry or the severity calls for.            *)
THEOREM DecisionsAlwaysSound == ServiceSpec => RoutesSoundly
<1> DEFINE Able == UNION {FindAgents(c) : c \in ToSet(RequiredCapabilities(decision'.alert))}
           Sound == IF decision'.registry
                    THEN decision'.next \in (IF Able = {} THEN {"triage"} ELSE {o.type : o \in Able})
                    ELSE decision'.alert.severity \in {"critical", "high"} => decision'.next = "analysis"
<1>1. ASSUME RegistryInv, ServiceNext, decision'.made, decision' # decision PROVE Sound
  <2>1. PICK d : Route(d)
    BY <1>1 DEF ServiceNext, Directory, Register, Unregister, Clear, AttachRegistry, AddRoutingRule,
                Analyze, GenericWebhook, N8nCallback, WazuhWebhook, RunAgent, RunBuiltIn, Execute,
                AgentReturns, NoDecision
  <2> PICK a : a = Reading(d)
    OBVIOUS
  <2>2. a.type \in DOMAIN AlertTypeCapabilities
    BY Typed DEF Reading
  <2>3. PICK t \in RouteByCapabilities(a) :
          decision' = [made |-> TRUE, alert |-> a, next |-> t, registry |-> attached /\ agents # <<>>]
    BY <1>1, <2>1 DEF Route, NoDecision
  <2>4. /\ decision'.alert = a /\ decision'.next = t
        /\ decision'.registry = (attached /\ agents # <<>>)
    BY <2>3
  <2>5. CASE attached /\ agents # <<>>
    <3>1. t \in RouteViaRegistry(a)
      BY <2>3, <2>5 DEF RouteByCapabilities
    <3> PICK able : able = UNION {FindAgents(c) : c \in ToSet(RequiredCapabilities(a))}
      OBVIOUS
    <3>2. t \in IF able = {} THEN {"triage"} ELSE {o.type : o \in able}
      BY <1>1, <2>2, <3>1, RegistryRoutes
    <3>3. able = Able
      BY <2>4
    <3> HIDE DEF Able
    <3> QED BY <2>4, <2>5, <3>2, <3>3
  <2>6. CASE ~(attached /\ agents # <<>>)
    <3>1. t \in RouteViaMapping(a)
      BY <2>3, <2>6 DEF RouteByCapabilities
    <3>2. a.severity \in {"critical", "high"} => t = "analysis"
      BY <2>2, <3>1, MappingRoutes
    <3> QED BY <2>4, <2>6, <3>2
  <2> QED BY <2>5, <2>6
<1>2. RegistryInv /\ [ServiceNext]_serviceVars => [decision'.made /\ decision' # decision => Sound]_routing
  BY <1>1 DEF serviceVars, routing
<1> QED BY <1>2, InitRegistry, RegistryKept, PTL DEF ServiceSpec, RoutesSoundly
=================================================================================
