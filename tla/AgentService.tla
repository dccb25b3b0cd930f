----------------------------- MODULE AgentService ------------------------------
(***************************************************************************)
(* The agent endpoints of the LangGraph service (services/langgraph/       *)
(* main.py): the service registers its four agents, attaches the registry  *)
(* to the supervisor and then answers requests that route an alert or run  *)
(* an agent, while agents register and unregister.  Only running an agent  *)
(* gives up the event loop, so routing is one step with its answer; what   *)
(* a request is refused with (400, 404) changes nothing and is left out.   *)
(***************************************************************************)
EXTENDS AgentRouting

CONSTANTS
  Client,     \* callers of the endpoints that run an agent
  Dicts,      \* alerts posted to /agent/analyze and the generic and n8n webhooks
  Wazuh       \* Wazuh alerts: [level : Nat, keywords : SUBSET STRING, srcip : BOOLEAN]

VARIABLE call   \* the agent each client's request is running

serviceVars == <<routing, call>>

Idle == [id |-> "none", type |-> "none", caps |-> {}]

\* lifespan, up to the first request.
ServiceInit ==
  /\ agents = <<BuiltIn.triage, BuiltIn.analysis, BuiltIn.response, BuiltIn.threat_intel>>
  /\ index = [c \in Capability |-> {o.id : o \in {p \in ToSet(agents) : c \in p.caps}}]
  /\ attached = FALSE   \* the service attaches it last
  /\ rules = <<>>
  /\ decision = NoDecision
  /\ reshaped = {}
  /\ call = [c \in Client |-> Idle]

ServiceTypeOK == RoutingTypeOK /\ call \in [Client -> Agents \cup {Idle}]

-----------------------------------------------------------------------------
\* What a Wazuh alert becomes: nested objects under keys of their own.
NormalizeWazuhAlert(w) ==
  [rule |-> [level |-> w.level, description |-> w.keywords], network |-> [src_ip |-> w.srcip]]

\* POST /agent/analyze; a FAILED run is answered 200 with no routing.
Analyze(d) == Route(d) /\ UNCHANGED call

\* The alert is the body itself.
GenericWebhook(d) == Route(d) /\ UNCHANGED call

\* With the action "triage"; any other is refused.
N8nCallback(d) == Route(d) /\ UNCHANGED call

WazuhWebhook(w) == Route(NormalizeWazuhAlert(w)) /\ UNCHANGED call

Execute(c, agent) ==
  /\ call[c] = Idle
  /\ call' = [call EXCEPT ![c] = agent]
  /\ decision' = NoDecision
  /\ UNCHANGED <<agents, index, attached, rules, reshaped>>

\* POST /agent/run: the first agent of the type, or the one made at startup.
RunAgent(c, t) ==
  \/ FindAgentsByType(t) # {} /\ Execute(c, agents[Min(FindAgentsByType(t))])
  \/ FindAgentsByType(t) = {} /\ t \in DOMAIN BuiltIn /\ Execute(c, BuiltIn[t])

\* POST /agent/triage, /agent/analyze-deep, /agent/threat-intel and
\* /agent/response: the agent made at startup, registered or not.
RunBuiltIn(c, t) == Execute(c, BuiltIn[t])

\* A FAILED result is answered 200 with an empty output, an exception 500.
AgentReturns(c) ==
  /\ call[c] # Idle
  /\ call' = [call EXCEPT ![c] = Idle]
  /\ decision' = NoDecision
  /\ UNCHANGED <<agents, index, attached, rules, reshaped>>

Directory ==
  /\ \/ \E o \in Offers : Register(o)
     \/ \E o \in Registered : Unregister(o)
     \/ Clear
     \/ AttachRegistry
     \/ \E r \in Rules : AddRoutingRule(r)
  /\ UNCHANGED call

ServiceNext ==
  \/ Directory
  \/ \E d \in Dicts : Analyze(d) \/ GenericWebhook(d) \/ N8nCallback(d)
  \/ \E w \in Wazuh : WazuhWebhook(w)
  \/ \E c \in Client, t \in AgentType : RunAgent(c, t)
  \/ \E c \in Client, t \in DOMAIN BuiltIn : RunBuiltIn(c, t)
  \/ \E c \in Client : AgentReturns(c)

ServiceSpec == ServiceInit /\ [][ServiceNext]_serviceVars
================================================================================
