---------------------------- MODULE MCAgentService -----------------------------
(***************************************************************************)
(* The two services that put agents on alerts, on one instance: the        *)
(* LangGraph service, which routes them to registered agents               *)
(* (AgentService), and the SOC agent service, which takes one through a    *)
(* graph (AgentPipeline).  They share no state, so that what each does     *)
(* alone is all there is to check.  For the first: the four agents, one    *)
(* that changes its capabilities, and alerts for each way of routing.      *)
(***************************************************************************)
EXTENDS AgentService, AgentPipeline

CONSTANTS t1, t2, an, re, ti

parts == <<vars, serviceVars>>

Full(id, type) == [id |-> id, type |-> type, caps |-> TypeCapabilities[type]]

MCBuiltIn == [triage |-> Full(t1, "triage"), analysis |-> Full(an, "analysis"),
              response |-> Full(re, "response"), threat_intel |-> Full(ti, "threat_intel")]

MCOffers ==
  {Full(t2, "triage"),
   [id |-> t2, type |-> "triage", caps |-> {"alert_parsing"}],
   MCBuiltIn.analysis,
   [id |-> an, type |-> "analysis", caps |-> {"mitre_mapping"}]}

MCDicts ==
  {[severity |-> "critical", source_ip |-> TRUE],
   [severity |-> "high", rule_description |-> {"policy", "brute"}],
   [severity |-> "medium", rule_description |-> {"phishing"}, indicators |-> TRUE],
   [severity |-> "low", source_ip |-> TRUE],
   [severity |-> "moderate"],
   [severity |-> "null"]}

MCWazuh == {[level |-> 12, keywords |-> {"ransomware"}, srcip |-> TRUE]}

MCRules == {[severity |-> "medium", target |-> "documentation"]}

-----------------------------------------------------------------------------
MCInit == Init /\ ServiceInit

InPipeline(A) == A /\ UNCHANGED serviceVars

\* Where the pipeline is while alerts are routed says nothing of the routing: one
\* state of its will do, in which a payload has been refused.
Refused == at = "invalid_422" /\ alert = CHOOSE a \in Alert : TRUE

MCNext ==
  \/ InPipeline(Next)
  \/ Refused /\ ServiceNext /\ UNCHANGED vars

MCSpec ==
  /\ MCInit /\ [][MCNext]_parts
  /\ WF_parts(InPipeline(Accept \/ Reject)) /\ WF_parts(InPipeline(GraphStep))
================================================================================
