---------------------------- MODULE McpRegistries ------------------------------
(***************************************************************************)
(* The tool, resource and prompt registries behind MCP: the legacy         *)
(* ToolRegistry that the @mcp_tool decorators fill, the UnifiedToolRegistry *)
(* of the agent SDK that the server calls through an adapter, and the copy *)
(* between them (mcp-bridge, registry/sync.py) that is made at startup.    *)
(*                                                                         *)
(* A tool is its name, its tags, whether it is marked as needing approval  *)
(* and which function it has: "rev" tells the registrations of a name      *)
(* apart.  What a tool is marked as is never asked before it is run.       *)
(***************************************************************************)
EXTENDS Naturals, Sequences, FiniteSets, SequencesExt

CONSTANTS
  Imports,     \* the tools of the modules imported at startup: Imported, or some of it
  Reloads,     \* registrations of a name the legacy registry has already
  AgentTools   \* tools an agent registers with the unified registry itself

Registered == Imports \cup Reloads

ASSUME RegistriesAssumption ==
  /\ Registered \cup AgentTools \subseteq
       [name : STRING, tags : SUBSET STRING, approval : BOOLEAN, rev : STRING]
  /\ \A t, u \in Imports : t.name = u.name => t = u
  /\ \A t, u \in Registered : t.name = u.name /\ t.rev = u.rev => t = u
  /\ \A t \in Registered, u \in AgentTools : t.name = u.name => t.rev # u.rev

VARIABLES
  legacy,    \* ToolRegistry._tools: a set of tools with distinct names
  unified,   \* _definitions and _executors, likewise
  tagged,    \* _capability_tags: <<tag, name>>
  history    \* _call_history: [tool, ok]

registries == <<legacy, unified, tagged, history>>

-----------------------------------------------------------------------------
(* What the modules imported at startup register. *)

Tool(name, tags, approval) ==
  [name |-> name, tags |-> tags, approval |-> approval, rev |-> "import"]

WazuhTools ==
  {Tool("wazuh_get_alerts", {"wazuh", "siem", "alerts"}, FALSE),
   Tool("wazuh_get_agents", {"wazuh", "agents"}, FALSE),
   Tool("wazuh_get_agent_info", {"wazuh", "agents"}, FALSE),
   Tool("wazuh_active_response", {"wazuh", "response", "active-response"}, TRUE),
   Tool("wazuh_block_ip", {"wazuh", "response", "firewall"}, TRUE),
   Tool("wazuh_get_rules", {"wazuh", "rules"}, FALSE)}

OpenCtiTools ==
  {Tool("opencti_search_indicators", {"opencti", "threat-intel", "indicators"}, FALSE),
   Tool("opencti_get_threat_actor", {"opencti", "threat-intel", "threat-actors"}, FALSE),
   Tool("opencti_get_mitre_attack", {"opencti", "mitre", "attack"}, FALSE),
   Tool("opencti_enrich_indicator", {"opencti", "enrichment", "ioc"}, FALSE)}

TheHiveTools ==
  {Tool("thehive_create_case", {"thehive", "cases"}, FALSE),
   Tool("thehive_get_cases", {"thehive", "cases"}, FALSE),
   Tool("thehive_get_case", {"thehive", "cases"}, FALSE),
   Tool("thehive_add_observable", {"thehive", "observables", "ioc"}, FALSE),
   Tool("thehive_add_task", {"thehive", "tasks"}, FALSE),
   Tool("thehive_add_comment", {"thehive", "comments"}, FALSE),
   Tool("thehive_close_case", {"thehive", "cases", "response"}, TRUE)}

ResponseTools ==
  {Tool("isolate_host", {"response", "isolation", "wazuh"}, TRUE),
   Tool("disable_user_account", {"response", "account", "disable"}, TRUE),
   Tool("quarantine_file", {"response", "quarantine", "file"}, TRUE),
   Tool("get_response_actions", {"response", "catalog"}, FALSE)}

Imported == WazuhTools \cup OpenCtiTools \cup TheHiveTools \cup ResponseTools

\* The SOC resources: those read by their uri and those that match a template,
\* and the one that a module imported at startup adds.
Resources == {"alerts://recent", "cases://recent", "mitre://techniques"}
Templates == {"alerts://alert/{alert_id}", "cases://case/{case_id}",
              "mitre://technique/{technique_id}", "opencti://indicators/{indicator_id}"}

InvestigationPrompts == {"triage_alert", "analyze_threat", "investigate_case"}
ReportPrompts == {"create_incident_report", "threat_hunt"}
EnrichmentPrompts == {"cortex_analyze", "opencti_hunt"}
ResponsePrompts == {"response_plan", "response_approval"}

Prompts == InvestigationPrompts \cup ReportPrompts \cup EnrichmentPrompts \cup ResponsePrompts

-----------------------------------------------------------------------------
Names(tools) == {t.name : t \in tools}

Named(tools, name) == {t \in tools : t.name = name}

\* A registration under a known name replaces the tool.
Enter(tools, t) == (tools \ Named(tools, t.name)) \cup {t}

RegistriesTypeOK ==
  /\ \A tools \in {legacy, unified} :
       \A t, u \in tools : t.name = u.name => t = u
  /\ \A p \in tagged : p[2] \in Names(unified)

FindToolsByTag(tag) == {t \in unified : <<tag, t.name>> \in tagged}

-----------------------------------------------------------------------------
(* The registries' operations. *)

\* register with the legacy registry, by a decorator.
RegisterLegacy(t) ==
  /\ legacy' = Enter(legacy, t)
  /\ UNCHANGED <<unified, tagged, history>>

UnregisterLegacy(name) ==
  /\ name \in Names(legacy)
  /\ legacy' = legacy \ Named(legacy, name)
  /\ UNCHANGED <<unified, tagged, history>>

ClearLegacy ==
  /\ legacy' = {}
  /\ UNCHANGED <<unified, tagged, history>>

\* register with the unified registry: tags are only ever added.
RegisterUnified(t) ==
  /\ unified' = Enter(unified, t)
  /\ tagged' = tagged \cup {<<tag, t.name>> : tag \in t.tags}
  /\ UNCHANGED <<legacy, history>>

\* Bug variant: the copy is not marked as needing approval.
MutUnmarked(t) == [t EXCEPT !.tags = @ \cup {"mcp"}, !.approval = FALSE]

\* The copy of a legacy tool.
Migrated(t) == [t EXCEPT !.tags = @ \cup {"mcp"}]

\* sync_mcp_tools_to_unified and sync_all_mcp_tools: a name that is there already
\* is skipped, whatever the legacy registry has made of it since.
SyncMcpTools ==
  LET new == {Migrated(t) : t \in {u \in legacy : u.name \notin Names(unified)}}
  IN
  /\ unified' = unified \cup new
  /\ tagged' = tagged \cup UNION {{<<tag, t.name>> : tag \in t.tags} : t \in new}
  /\ UNCHANGED <<legacy, history>>

-----------------------------------------------------------------------------
(* Calls: the outcomes a call may have, once its function is done.  What is *)
(* not there is answered as a result that says so.                          *)

\* call_tool of the legacy registry; a function that raises is a result too.
CallTool(name) == IF name \in Names(legacy) THEN {"content", "tool_error"} ELSE {"unknown_tool"}

\* Bug variant: only what succeeded is recorded.
MutOnlySuccesses(name, ok) == IF ok THEN Append(history, [tool |-> name, ok |-> TRUE]) ELSE history

\* execute, after the function returned or raised.
Audited(name, ok) == Append(history, [tool |-> name, ok |-> ok])

\* A resource that cannot be read is a result with that text, as is one that
\* is not there; so it is with prompts.
ReadResource(uri) ==
  IF uri \in Resources \cup Templates THEN {"content", "error_text"} ELSE {"not_found"}

GetPrompt(name) == IF name \in Prompts THEN {"content", "error_text"} ELSE {"not_found"}

-----------------------------------------------------------------------------
(* A tool the unified registry copied from the legacy one, and that neither *)
(* has registered again since, is the same tool in both: it has the same    *)
(* function and the same mark, and is found under each of its tags and      *)
(* under "mcp", whatever else was registered in between.                    *)
CopiesAreFaithful ==
  \A t \in legacy, u \in unified :
    t.name = u.name /\ t.rev = u.rev =>
      /\ u.approval = t.approval
      /\ \A tag \in t.tags \cup {"mcp"} : u \in FindToolsByTag(tag)
================================================================================
