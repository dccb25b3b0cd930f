----------------------------- MODULE AgentRouting ------------------------------
(***************************************************************************)
(* The agent SDK's AgentRegistry (frameworks/agent-sdk, registry.py) and   *)
(* the SupervisorAgent that routes an alert through it (supervisor.py).    *)
(* All methods are synchronous or reach no suspension, so each is one      *)
(* step.  An agent is what it offers: id, type and capabilities; an alert  *)
(* is a dict, a record of the keys it has, of which the supervisor reads   *)
(* severity, rule_description (here its keywords), source_ip and           *)
(* indicators (here whether they are set).                                 *)
(***************************************************************************)
EXTENDS Naturals, Sequences, FiniteSets, SequencesExt

CONSTANTS
  BuiltIn,  \* the four agents the service makes at startup, by their type
  Offers,   \* the agents that may register later: [id, type, caps]
  Rules     \* the rules that may be added: [severity, target]

VARIABLES
  agents,    \* _agents and _registrations, in the order of registration
  index,     \* _capability_index: capability -> ids
  attached,  \* the supervisor has the registry
  rules,     \* _routing_rules, in the order of insertion; run reads none of them
  decision,  \* the RoutingDecision of this step, with the alert it is for, if it made one
  reshaped   \* <<id, capability>>: given up by re-registering (no code reads it)

routing == <<agents, index, attached, rules, decision, reshaped>>

Agents == Offers \cup {BuiltIn[t] : t \in DOMAIN BuiltIn}

Ids == {o.id : o \in Agents}

AtStartup == {"triage", "analysis", "response", "threat_intel"}

SeverityToCapabilities ==
  [critical |-> <<"severity_assessment", "deep_analysis", "containment", "remediation">>,
   high |-> <<"severity_assessment", "deep_analysis", "containment">>,
   medium |-> <<"ioc_enrichment", "log_correlation">>,
   low |-> <<"alert_parsing">>,
   informational |-> <<"alert_parsing">>]

AlertTypeCapabilities ==
  [brute_force |-> <<"ioc_enrichment", "log_correlation">>,
   malware |-> <<"deep_analysis", "threat_actor_profiling", "mitre_mapping">>,
   ransomware |-> <<"deep_analysis", "containment", "remediation", "mitre_mapping">>,
   phishing |-> <<"ioc_enrichment", "threat_actor_profiling">>,
   data_exfiltration |-> <<"deep_analysis", "containment", "log_correlation">>,
   lateral_movement |-> <<"deep_analysis", "log_correlation", "mitre_mapping">>,
   recon |-> <<"alert_parsing", "ioc_enrichment">>,
   policy_violation |-> <<"alert_parsing", "notification">>,
   unknown |-> <<>>]

\* CAPABILITY_TO_AGENT, by agent; the registry's adapter derives the same.
TypeCapabilities ==
  [triage |-> {"alert_parsing", "severity_assessment", "ioc_extraction", "ioc_enrichment"},
   analysis |-> {"deep_analysis", "attack_narrative", "mitre_mapping", "risk_assessment",
                 "log_correlation"},
   threat_intel |-> {"opencti_query", "misp_correlation", "threat_actor_profiling", "cve_lookup"},
   response |-> {"containment", "remediation", "notification", "approval_gating"},
   documentation |-> {"case_creation", "report_generation", "evidence_collection"}]

\* AgentType and AgentCapability, as far as the routing knows them.
AgentType == DOMAIN TypeCapabilities

Capability == UNION {TypeCapabilities[t] : t \in AgentType}

ASSUME RoutingAssumption ==
  /\ AtStartup \subseteq DOMAIN BuiltIn
  /\ \A t, u \in AtStartup : BuiltIn[t].id = BuiltIn[u].id => t = u
  /\ \A o \in Agents : o.type \in AgentType /\ o.caps \subseteq Capability

Registered == ToSet(agents)

NoDecision == [made |-> FALSE, next |-> "none", registry |-> FALSE,
               alert |-> [severity |-> "informational", type |-> "unknown", iocs |-> FALSE]]

RoutingTypeOK ==
  /\ agents \in Seq(Agents)
  /\ index \in [Capability -> SUBSET Ids]
  /\ attached \in BOOLEAN
  /\ rules \in Seq(Rules)
  /\ reshaped \subseteq Ids \X Capability

-----------------------------------------------------------------------------
(* The registry. *)

\* A registration under a known id replaces the entry where it is.
Enter(o) ==
  IF \E i \in DOMAIN agents : agents[i].id = o.id
  THEN [i \in DOMAIN agents |-> IF agents[i].id = o.id THEN o ELSE agents[i]]
  ELSE Append(agents, o)

\* Bug variant: the index is built when the id is new, and not again.
MutIndexedOnce(o) ==
  /\ agents' = Enter(o)
  /\ index' = [c \in Capability |->
                 IF c \in o.caps /\ \A i \in DOMAIN agents : agents[i].id # o.id
                 THEN index[c] \cup {o.id} ELSE index[c]]
  /\ reshaped' = reshaped \cup
       {<<o.id, c>> : c \in (UNION {p.caps : p \in {q \in Registered : q.id = o.id}}) \ o.caps}
  /\ decision' = NoDecision
  /\ UNCHANGED <<attached, rules>>

\* Capabilities are only ever added to the index.
Register(o) ==
  /\ agents' = Enter(o)
  /\ index' = [c \in Capability |-> IF c \in o.caps THEN index[c] \cup {o.id} ELSE index[c]]
  /\ reshaped' = reshaped \cup
       {<<o.id, c>> : c \in (UNION {p.caps : p \in {q \in Registered : q.id = o.id}}) \ o.caps}
  /\ decision' = NoDecision
  /\ UNCHANGED <<attached, rules>>

\* The id leaves the index under the capabilities of its last registration.
Unregister(o) ==
  /\ \E i \in DOMAIN agents : agents[i] = o /\ agents' = RemoveAt(agents, i)
  /\ index' = [c \in Capability |-> IF c \in o.caps THEN index[c] \ {o.id} ELSE index[c]]
  /\ decision' = NoDecision
  /\ UNCHANGED <<attached, rules, reshaped>>

Clear ==
  /\ agents' = <<>>
  /\ index' = [c \in Capability |-> {}]
  /\ reshaped' = {}
  /\ decision' = NoDecision
  /\ UNCHANGED <<attached, rules>>

FindAgents(c) == {o \in Registered : o.id \in index[c]}

\* Where the agents of a type are; dictionaries keep the order of registration.
FindAgentsByType(t) == {i \in DOMAIN agents : agents[i].type = t}

-----------------------------------------------------------------------------
(* The supervisor. *)

AttachRegistry ==
  /\ attached' = TRUE
  /\ decision' = NoDecision
  /\ UNCHANGED <<agents, index, rules, reshaped>>

\* The condition is the key: adding it again replaces the rule where it is.
AddRoutingRule(r) ==
  /\ rules' = IF \E i \in DOMAIN rules : rules[i].severity = r.severity
              THEN [i \in DOMAIN rules |-> IF rules[i].severity = r.severity THEN r ELSE rules[i]]
              ELSE Append(rules, r)
  /\ decision' = NoDecision
  /\ UNCHANGED <<agents, index, attached, reshaped>>

Get(d, key, default) == IF key \in DOMAIN d THEN d[key] ELSE default

\* The pattern that is found first, and the alert type it stands for.
Patterns == <<"brute", "malware", "ransomware", "phishing", "exfiltration", "lateral", "recon",
              "policy">>
PatternType == [brute |-> "brute_force", malware |-> "malware", ransomware |-> "ransomware",
                phishing |-> "phishing", exfiltration |-> "data_exfiltration",
                lateral |-> "lateral_movement", recon |-> "recon", policy |-> "policy_violation"]

DetectAlertType(d) ==
  LET found == {i \in DOMAIN Patterns : Patterns[i] \in Get(d, "rule_description", {})}
  IN IF found = {} THEN "unknown" ELSE PatternType[Patterns[Min(found)]]

\* What the supervisor makes of an alert.
Reading(d) == [severity |-> Get(d, "severity", "informational"), type |-> DetectAlertType(d),
               iocs |-> Get(d, "source_ip", FALSE) \/ Get(d, "indicators", FALSE)]

\* A severity that is null has no lower(): the run ends FAILED, with no output.
Unreadable(d) == Get(d, "severity", "informational") = "null"

\* In this order; of a capability that is named twice only the first counts.
RequiredCapabilities(alert) ==
  Get(SeverityToCapabilities, alert.severity, <<"alert_parsing">>)
    \o AlertTypeCapabilities[alert.type]
    \o IF alert.iocs THEN <<"ioc_enrichment", "opencti_query">> ELSE <<>>

\* How often a type matches the capabilities, and where it first does.
Score(required, matches, t) ==
  Cardinality(UNION {{c} \X matches[c][t] : c \in ToSet(required)})

First(required, matches, t) == Min({i \in DOMAIN required : matches[required[i]][t] # {}})

\* The types with the most matches; of these, those that matched first.
Best(required, matches) ==
  LET found == {t \in AgentType : \E c \in ToSet(required) : matches[c][t] # {}}
      most == {t \in found : \A u \in found :
                               Score(required, matches, u) <= Score(required, matches, t)}
  IN {t \in most : \A u \in most : First(required, matches, t) <= First(required, matches, u)}

\* One match for each agent of the type found under the capability.
RegistryMatches == [c \in Capability |-> [t \in AgentType |-> {o \in FindAgents(c) : o.type = t}]]

Covers == [c \in Capability |-> [t \in AgentType |-> {u \in {t} : c \in TypeCapabilities[u]}]]

\* Bug variant: the table of the types is counted, not the agents registered.
MutTableCounts(alert) == Best(RequiredCapabilities(alert), Covers)

\* Triage is the default when nobody is found.
RouteViaRegistry(alert) ==
  LET best == Best(RequiredCapabilities(alert), RegistryMatches)
  IN IF best = {} THEN {"triage"} ELSE best

\* Severe alerts go to a covering analysis or response agent, and triage of
\* indicators to threat intelligence.
RouteViaMapping(alert) ==
  LET required == RequiredCapabilities(alert)
      candidates == {t \in AgentType : \E i \in DOMAIN required : required[i] \in TypeCapabilities[t]}
      severe == alert.severity \in {"critical", "high"}
      chosen(best) ==
        CASE severe /\ "analysis" \in candidates -> "analysis"
          [] severe /\ "analysis" \notin candidates /\ "response" \in candidates -> "response"
          [] OTHER -> best
  IN {IF alert.iocs /\ chosen(b) = "triage" /\ "threat_intel" \in candidates
      THEN "threat_intel" ELSE chosen(b) : b \in Best(required, Covers)}

RouteByCapabilities(alert) ==
  IF attached /\ agents # <<>> THEN RouteViaRegistry(alert) ELSE RouteViaMapping(alert)

\* SupervisorAgent.run: the decision, or none.
Route(d) ==
  LET alert == Reading(d)
  IN
  /\ IF Unreadable(d) THEN decision' = NoDecision
     ELSE \E t \in RouteByCapabilities(alert) :
            decision' = [made |-> TRUE, alert |-> alert, next |-> t,
                         registry |-> attached /\ agents # <<>>]
  /\ UNCHANGED <<agents, index, attached, rules, reshaped>>

-----------------------------------------------------------------------------
(* Whatever has registered, re-registered and left, an agent is found under *)
(* each capability it offers now: no alert misses an agent that could take it. *)
FindsEveryProvider == \A o \in Registered : \A c \in o.caps : o \in FindAgents(c)

(* An agent is found under a capability it does not offer only if it gave   *)
(* that capability up by registering again.                                 *)
StaleOnlyByReregistration ==
  \A c \in Capability : \A o \in FindAgents(c) : c \in o.caps \/ <<o.id, c>> \in reshaped

(* The capability index and the agents agree, but for what registering      *)
(* again leaves behind.                                                     *)
IndexFollowsAgents == FindsEveryProvider /\ StaleOnlyByReregistration

(* A decision taken through the registry names the type of an agent that is *)
(* registered at that moment and found for one of the capabilities the      *)
(* alert requires; only when there is none is it triage by default.  Taken  *)
(* without a registry, it sends a severe alert to the analysis: no alert    *)
(* type and no indicator outvotes the severity.                             *)
RoutesSoundly ==
  [][decision'.made /\ decision' # decision =>
       LET able == UNION {FindAgents(c) : c \in ToSet(RequiredCapabilities(decision'.alert))}
       IN IF decision'.registry
          THEN decision'.next \in (IF able = {} THEN {"triage"} ELSE {o.type : o \in able})
          ELSE decision'.alert.severity \in {"critical", "high"} => decision'.next = "analysis"]_routing
================================================================================
