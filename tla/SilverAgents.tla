----------------------------- MODULE SilverAgents ------------------------------
(***************************************************************************)
(* What one run of a Silver agent (services/langgraph/agents) can return,  *)
(* given its input and the 5-layer context it builds first                 *)
(* (frameworks/context-engine).  Each operator ending in Outputs is the    *)
(* set of the results of a run over everything its tools may answer.       *)
(*                                                                         *)
(* An alert is reduced to what the agents branch on: its stated severity,  *)
(* its rule level, the keywords of its rule description, which of its      *)
(* addresses and names are present, the criticality class of its host name *)
(* and the hourly counts of the prior alerts stored for its incident.      *)
(***************************************************************************)
EXTENDS Naturals, Sequences, SequencesExt, TLC

CONSTANTS
  Builder,    \* "production" (ContextBuilder) or "injected" (a port handed to the agents)
  HighRisk,   \* the policy layer's high_risk_actions
  MitreHits   \* what a MITRE search can find: [n : Nat, critical : BOOLEAN]

Severity == <<"informational", "low", "medium", "high", "critical">>
Rank(s) == CHOOSE i \in DOMAIN Severity : Severity[i] = s

Keyword == <<"brute", "malware", "phishing", "ransomware", "exfiltration", "lateral">>

Payload == [severity : {"critical", "high", "medium", "low", "unstated"},
            level : Nat, keywords : SUBSET {Keyword[i] : i \in DOMAIN Keyword},
            source : BOOLEAN, destination : BOOLEAN, user : BOOLEAN,
            host : {"absent", "critical", "high", "medium", "low"}, hours : Seq(Nat)]

-----------------------------------------------------------------------------
(* The context package. *)

\* An hour holds more than twice the average of the hours with alerts.
BurstDetected(hours) ==
  \E i \in DOMAIN hours : hours[i] * Len(hours) > 2 * FoldSeq(LAMBDA n, sum : n + sum, 0, hours)

AssetCriticality(p) == IF p.host = "absent" THEN "medium" ELSE p.host

SemanticLayer(p) == [criticality |-> AssetCriticality(p)]

OperationalLayer(p) == [burst |-> BurstDetected(p.hours)]

\* The policy layer; the limits, channels and allowed actions are read by nobody.
PolicyLayer == [high_risk_actions |-> HighRisk]

\* The intelligence and the memory layer reach the prompt and no decision.
Build(p) == SemanticLayer(p) @@ OperationalLayer(p) @@ PolicyLayer

\* _estimate_tokens dumps the package as JSON, and its datetime raises.
EstimateRaises == Builder = "production"

\* Over budget: the semantic layer keeps only the tenant's name.
TrimContext(c) == [c EXCEPT !.criticality = "trimmed"]

\* A ContextProvider trims what its port built when that is over the budget.
Provided(p) == {Build(p), TrimContext(Build(p))}

\* The packages an agent's build_context may return; it raises when there is none.
Contexts(p) == IF EstimateRaises THEN {} ELSE Provided(p)

-----------------------------------------------------------------------------
(* Triage. *)

\* A dict that was never written, {} and a full one; "get" on the empty one
\* yields the defaults spelled here.
NoTriage == [tag |-> "none", severity |-> "informational", alert_type |-> "unknown",
             techniques |-> 0]
FailedTriage == [NoTriage EXCEPT !.tag = "empty"]

AlertType(p) ==
  LET found == SelectSeq(Keyword, LAMBDA k : k \in p.keywords)
  IN IF found = <<>> THEN "unknown" ELSE Head(found)

AssessSeverity(p) ==
  IF p.severity # "unstated" THEN p.severity
  ELSE IF p.level >= 12 THEN "critical"
  ELSE IF p.level >= 8 THEN "high"
  ELSE IF p.level >= 4 THEN "medium"
  ELSE IF p.level >= 1 THEN "low"
  ELSE "informational"

\* Bug variant: a malicious address sets the severity whatever it was.
MutIocOverrides(base, critical, malicious, c) ==
  IF malicious THEN "medium"
  ELSE IF c.burst /\ base \in {"low", "medium"} THEN "high" ELSE base

\* The first boost that applies decides, in the order of the code.
Boosted(base, critical, malicious, c) ==
  IF critical /\ base = "medium" THEN "high"
  ELSE IF (critical \/ malicious) /\ base = "low" THEN "medium"
  ELSE IF c.criticality = "critical" /\ base = "medium" THEN "high"
  ELSE IF c.burst /\ base \in {"low", "medium"} THEN "high"
  ELSE base

\* Whether Cortex calls an address malicious; a failed call reads as clean.
CortexEnrich == BOOLEAN

Enrichments(p) == IF p.source \/ p.destination THEN CortexEnrich ELSE {FALSE}

\* A failed search finds nothing.
MitreSearch == MitreHits \cup {[n |-> 0, critical |-> FALSE]}

TriageOutputs(p) ==
  {FailedTriage} \cup
  {[tag |-> "full", severity |-> Boosted(AssessSeverity(p), hit.critical, malicious, c),
    alert_type |-> AlertType(p), techniques |-> hit.n] :
     hit \in MitreSearch, malicious \in Enrichments(p), c \in Contexts(p)}

-----------------------------------------------------------------------------
(* Analysis. *)

NoAnalysis == [tag |-> "none", score |-> 0, level |-> "low", recommendations |-> {}]
FailedAnalysis == [NoAnalysis EXCEPT !.tag = "empty"]

BaseScore == [critical |-> 90, high |-> 70, medium |-> 50, low |-> 30, informational |-> 10]

\* How many techniques are left of the triage's, by distinct id; the attack
\* patterns OpenCTI returns are dropped with its data.
MitreMapping(triage) == {n \in 0 .. triage.techniques : n = 0 <=> triage.techniques = 0}

RiskScore(triage, techniques, correlated) ==
  LET sum == BaseScore[triage.severity] + (IF techniques > 3 THEN 15 ELSE 0)
                                        + (IF correlated THEN 20 ELSE 0)
  IN IF sum > 100 THEN 100 ELSE sum

RiskLevel(score) ==
  IF score >= 80 THEN "critical" ELSE IF score >= 60 THEN "high"
  ELSE IF score >= 40 THEN "medium" ELSE "low"

\* target: whether the alert names the host or address the action is for.
Recommendations(p, level, techniques) ==
  {r \in [action : {"isolate_host", "investigate", "enrich_indicator"}, target : BOOLEAN] :
     \/ r.action = "isolate_host" /\ level \in {"critical", "high"} /\ r.target = (p.host # "absent")
     \/ r.action = "investigate" /\ techniques > 0 /\ r.target
     \/ r.action = "enrich_indicator" /\ p.source /\ r.target}

\* A 200 with data, a 200 whose data is null or missing, an error; each as the
\* text of a Python value.
OpenCtiQuery == {"data", "nothing", "error"}

HasIndicator(p) == p.source \/ p.destination \/ p.user \/ p.host # "absent"

\* The text of a dict with entries is no JSON: json.loads raises and the answer
\* is dropped, so the only answer recorded as a correlation is the one without
\* data.
Correlations(p) == {HasIndicator(p) /\ opencti = "nothing" : opencti \in OpenCtiQuery}

\* A triage_result of None fails the run.
AnalysisOutputs(p, triage) ==
  {FailedAnalysis} \cup
  {[tag |-> "full", score |-> RiskScore(triage, n, correlated),
    level |-> RiskLevel(RiskScore(triage, n, correlated)),
    recommendations |-> Recommendations(p, RiskLevel(RiskScore(triage, n, correlated)), n)] :
     n \in MitreMapping(triage), correlated \in {k \in Correlations(p) : triage.tag # "none"}, c \in Contexts(p)}

-----------------------------------------------------------------------------
(* Threat intelligence: it builds no context and cannot fail. *)

\* Each profile of the code, by the techniques that identify the actor.
ActorTechniques == {{"T1566", "T1059", "T1071"}, {"T1110", "T1078", "T1059"},
                    {"T1566", "T1059", "T1021"}}

\* Three techniques each: a match counts a third, and 70% needs all three.
ThreatLevel(techniques) ==
  IF \E ttp \in ActorTechniques : ttp \subseteq techniques THEN "critical"
  ELSE IF \E ttp \in ActorTechniques : ttp \cap techniques # {} THEN "high"
  ELSE "medium"   \* every indicator is answered with confidence 75, never above 80

-----------------------------------------------------------------------------
(* Response. *)

NoResponse == [tag |-> "none", auto |-> {}, results |-> {}, held |-> {}, rollback |-> {}]
FailedResponse == [NoResponse EXCEPT !.tag = "empty"]

\* Bug variant: the policy is asked only about the alert types' own actions.
MutTrustRecommendation(action) == action = "block_ip"

RequiresApproval(action) == action \in PolicyLayer.high_risk_actions

Act(action, target, approval) == [action |-> action, target |-> target, approval |-> approval]

BruteForceActions(p, score) ==
  (IF p.source /\ score >= 70 THEN {Act("block_ip", TRUE, TRUE)} ELSE {})
    \cup {Act("enforce_lockout", p.user, FALSE)}

MalwareActions(p, score) ==
  (IF p.host # "absent" /\ score >= 60 THEN {Act("isolate_host", TRUE, TRUE)} ELSE {})
    \cup {Act("collect_evidence", p.host # "absent", FALSE)}

RansomwareActions(p) ==
  (IF p.host # "absent" THEN {Act("isolate_host", TRUE, TRUE)} ELSE {})
    \cup {Act("notify_escalation", TRUE, FALSE)}

\* The recommendations, with the policy's word on approval, and the actions of
\* the alert type with their own.
ResponsePlan(p, analysis, triage) ==
  {Act(r.action, r.target, RequiresApproval(r.action)) : r \in analysis.recommendations} \cup
  (CASE triage.alert_type = "brute" -> BruteForceActions(p, analysis.score)
     [] triage.alert_type = "malware" -> MalwareActions(p, analysis.score)
     [] triage.alert_type = "ransomware" -> RansomwareActions(p)
     [] OTHER -> {})

\* The actions of the approval request, which is made when there are any.
CreateApprovalRequest(plan) == {a \in plan : a.approval}

\* What executing an action does; each of these is reported as "executed".
ExecuteAction(a) ==
  [action |-> a.action,
   result |-> IF a.action \in {"block_ip", "isolate_host"} THEN "placeholder" ELSE "skipped"]

\* The actions an undo is planned for: those of the plan, run or not.
RollbackPlan(plan) == {a.action : a \in plan} \cap {"block_ip", "isolate_host"}

\* An analysis_result or a triage_result of None fails the run.
ResponseOutputs(p, analysis, triage) ==
  {FailedResponse} \cup
  {[tag |-> "full", auto |-> {a \in plan : ~a.approval}, held |-> CreateApprovalRequest(plan),
    results |-> {ExecuteAction(a) : a \in {x \in plan : ~x.approval}},
    rollback |-> RollbackPlan(plan)] :
     plan \in {ResponsePlan(p, analysis, triage) :
                 c \in {k \in Contexts(p) : analysis.tag # "none" /\ triage.tag # "none"}}}
================================================================================
