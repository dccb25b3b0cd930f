----------------------------- MODULE AgentPipeline -----------------------------
(***************************************************************************)
(* The SOC agent service (services/langgraph-agent): one alert on its way  *)
(* through POST /agent/analyze or /webhook/wazuh and the LangGraph state   *)
(* graph.  Every run has a thread id of its own and the graph keeps its    *)
(* state per thread, so runs do not interact and one is modelled.          *)
(*                                                                         *)
(* An address is reduced to whether it is usable (neither empty nor        *)
(* "unknown"), the log to whether it has a false-positive keyword, and an  *)
(* enrichment to whether VirusTotal reports more than three positives.     *)
(***************************************************************************)
EXTENDS Naturals

CONSTANT RecursionLimit   \* LangGraph's bound on the nodes of one run (25)

ASSUME PipelineAssumption == RecursionLimit \in Nat \ {0}

VARIABLES
  at,        \* where the request is: a node of the graph, or its answer
  alert,     \* the validated payload
  severity,
  fp,        \* false_positive_probability, in percent
  assets,    \* affected_assets names an address
  enriched,  \* ioc_enrichment
  actions,   \* response_actions
  approved,  \* human_approved
  reported,  \* final_report has been written
  steps      \* nodes executed so far

vars == <<at, alert, severity, fp, assets, enriched, actions, approved, reported, steps>>

Node == {"triage", "analysis", "threat_intel", "response", "human_gate",
         "documentation", "escalate"}

Answer == {"ok_200", "invalid_422", "failed_500"}

Level == 1 .. 16     \* the validator's range for alert_level

Alert == [level : Level, keyword : BOOLEAN, source : BOOLEAN, dest : BOOLEAN]

\* target: whether the action names a host or an address.
Action == [action : {"isolate_host", "block_ip", "quarantine_endpoint", "create_ticket"},
           target : BOOLEAN]

HighSeverity == {"HIGH", "CRITICAL"}

Names(acts) == {a.action : a \in acts}

-----------------------------------------------------------------------------
Init ==
  /\ at = "received"
  /\ alert \in Alert
  /\ severity = ""
  /\ fp = 0
  /\ assets = FALSE
  /\ enriched = "none"
  /\ actions = {}
  /\ approved = FALSE
  /\ reported = FALSE
  /\ steps = 0

(* reject_malformed and the prompt guard, then ainvoke on a fresh state. *)
Reject ==
  /\ at = "received"
  /\ at' = "invalid_422"
  /\ UNCHANGED <<alert, severity, fp, assets, enriched, actions, approved, reported, steps>>

Accept ==
  /\ at = "received"
  /\ at' = "triage"
  /\ UNCHANGED <<alert, severity, fp, assets, enriched, actions, approved, reported, steps>>

\* Bug variant: the count of executed nodes starts anew with every round.
MutNoLimit(node) ==
  /\ at = node
  /\ steps' = IF node = "analysis" THEN 1 ELSE steps + 1

\* The graph runs the node it is at, within the recursion limit.
Run(node) ==
  /\ at = node
  /\ steps < RecursionLimit
  /\ steps' = steps + 1

(* triage_agent, whose severity_map knows the levels 1 to 4 only. *)
SeverityOf(level) ==
  CASE level = 2 -> "MEDIUM"
    [] level = 3 -> "HIGH"
    [] level = 4 -> "CRITICAL"
    [] OTHER     -> "LOW"

FalsePositive(a) ==
  LET base == IF a.level <= 2 THEN 10 ELSE 5
      raised == IF base + 70 < 95 THEN base + 70 ELSE 95
  IN  IF a.keyword THEN raised ELSE base

RouteAfterTriage(prob, sev) ==
  IF prob > 85 THEN "documentation"
  ELSE IF sev \in HighSeverity THEN "analysis"
  ELSE IF sev = "MEDIUM" THEN "threat_intel"
  ELSE "documentation"

Triage ==
  /\ Run("triage")
  /\ severity' = SeverityOf(alert.level)
  /\ fp' = FalsePositive(alert)
  /\ at' = RouteAfterTriage(fp', severity')
  /\ UNCHANGED <<alert, assets, enriched, actions, approved, reported>>

Analysis ==
  /\ Run("analysis")
  /\ assets' = (alert.source \/ alert.dest)
  /\ at' = "threat_intel"
  /\ UNCHANGED <<alert, severity, fp, enriched, actions, approved, reported>>

(* threat_intel_agent catches every tool error; what the tools answer may be
   of a form that response_agent cannot read. *)
ThreatIntel ==
  /\ Run("threat_intel")
  /\ enriched' \in {"none", "few", "many", "malformed"}
  /\ at' = "response"
  /\ UNCHANGED <<alert, severity, fp, assets, actions, approved, reported>>

Planned(sev, known, enrichment, source) ==
  (IF sev \in HighSeverity
   THEN {[action |-> "isolate_host", target |-> known],
         [action |-> "block_ip", target |-> source]} ELSE {})
  \cup (IF enrichment = "many"
        THEN {[action |-> "quarantine_endpoint", target |-> known]} ELSE {})
  \cup {[action |-> "create_ticket", target |-> TRUE]}

Response ==
  /\ Run("response")
  /\ enriched # "malformed"
  /\ actions' = Planned(severity, assets, enriched, alert.source)
  /\ at' = "human_gate"
  /\ UNCHANGED <<alert, severity, fp, assets, enriched, approved, reported>>

\* An exception in a node ends the run.
ResponseRaises ==
  /\ Run("response")
  /\ enriched = "malformed"
  /\ at' = "failed_500"
  /\ UNCHANGED <<alert, severity, fp, assets, enriched, actions, approved, reported>>

\* Bug variant: only quarantining a host counts as high impact.
MutHighImpact(acts) == "quarantine_endpoint" \in Names(acts)

HighImpact(acts) == Names(acts) \cap {"isolate_host", "quarantine_endpoint"} # {}

(* human_approval_node, which approves or says "awaiting" and never times out;
   route_after_human_gate sends what is not approved back to the analysis. *)
HumanGate ==
  /\ Run("human_gate")
  /\ approved' = (~HighImpact(actions) \/ severity \in {"LOW", "MEDIUM"})
  /\ at' = IF approved' THEN "documentation" ELSE "analysis"
  /\ UNCHANGED <<alert, severity, fp, assets, enriched, actions, reported>>

Documentation ==
  /\ Run("documentation")
  /\ reported' = TRUE
  /\ at' = "ok_200"
  /\ UNCHANGED <<alert, severity, fp, assets, enriched, actions, approved>>

(* ainvoke raises when a run needs more nodes than the limit allows, and the
   handler answers 500 without the state the run had reached. *)
Overrun ==
  /\ at \in Node
  /\ steps = RecursionLimit
  /\ at' = "failed_500"
  /\ UNCHANGED <<alert, severity, fp, assets, enriched, actions, approved, reported, steps>>

GraphStep ==
  \/ Triage \/ Analysis \/ ThreatIntel \/ Response \/ ResponseRaises
  \/ HumanGate \/ Documentation \/ Overrun

Next == Accept \/ Reject \/ GraphStep

Spec == Init /\ [][Next]_vars

(* An accepted run is driven by its request handler until it ends. *)
FairSpec == Spec /\ WF_vars(Accept \/ Reject) /\ WF_vars(GraphStep)

-----------------------------------------------------------------------------
(* Every variable has its type. *)
TypeOK ==
  /\ at \in {"received"} \cup Node \cup Answer
  /\ alert \in Alert
  /\ severity \in {"", "LOW", "MEDIUM", "HIGH", "CRITICAL"}
  /\ fp \in 0 .. 95
  /\ assets \in BOOLEAN
  /\ enriched \in {"none", "few", "many", "malformed"}
  /\ actions \in SUBSET Action
  /\ approved \in BOOLEAN
  /\ reported \in BOOLEAN
  /\ steps \in 0 .. RecursionLimit

(* Isolating a host is never waved through: a report that plans an isolation
   or blocks an address is never returned, and never marked approved
   (human_approval_node and the routing around it). *)
IsolationIsHeld ==
  Names(actions) \cap {"isolate_host", "block_ip"} # {} => ~approved /\ ~reported

(* A report comes from triage alone, for an alert of low severity, or from a
   plan that the gate has approved (route_after_triage, route_after_human_gate). *)
ReportIsCleared ==
  reported => IF actions = {} THEN severity = "LOW" ELSE approved

(* An isolation always names its host, unless the alert has no address at all:
   the analysis that finds the host has run before the response plans, on every
   path through the graph (response_agent). *)
IsolationHasTarget ==
  \A a \in actions : a.action = "isolate_host" => a.target = (alert.source \/ alert.dest)

(* No isolation gets past the gate, none is planned against an unknown host
   for want of the analysis, and no report is made without triage's word or the
   gate's. *)
PlansAreSound == IsolationIsHeld /\ IsolationHasTarget /\ ReportIsCleared

(* Every request is answered, also when the graph would go round for ever. *)
EveryRequestAnswered == at = "received" ~> at \in Answer
=============================================================================
