---------------------------- MODULE OscarSupervisor ----------------------------
(***************************************************************************)
(* The Magenta supervisor (services/langgraph/agents/supervisor.py): one   *)
(* MagentaSupervisor object that takes alerts through the OSCAR phases,    *)
(* calling the Silver agents registered with it.  Orchestrations are       *)
(* coroutines of one event loop and give it up only while an agent runs,   *)
(* so a phase without an agent follows the one before it without a break;  *)
(* but the object keeps ONE _state, which the next alert replaces.         *)
(***************************************************************************)
EXTENDS SilverAgents

CONSTANTS
  Alert,      \* the alerts handed to orchestrate
  Payloads,   \* the alert_data they may carry
  Rosters     \* the sets of agents that may be registered

ASSUME OscarAssumption ==
  /\ Payloads \subseteq Payload
  /\ Alert \cap {"none", "idle"} = {}
  \* PolicyLayer.high_risk_actions: host isolation, and none of the actions that
  \* the alert types' responses run without approval
  /\ "isolate_host" \in HighRisk
  /\ {"enforce_lockout", "collect_evidence", "notify_escalation"} \cap HighRisk = {}

VARIABLES
  payload,     \* alert_data of each alert
  roster,      \* the names in _agents
  state,       \* _state
  at,          \* where each orchestration is: between phases, or awaiting an agent
  pending,     \* what the awaited agent will return
  turn,        \* the orchestration that has the event loop, or "idle"
  answer,      \* the alert_id in the result of each orchestration
  overlapped   \* the orchestrations another one ran in the middle of (no code reads it)

oscarVars == <<payload, roster, state, at, pending, turn, answer, overlapped>>

Agent == {"silver-triage", "silver-analysis", "silver-intel", "silver-response", "silver-docs"}

ASSUME RosterAssumption == \A r \in Rosters : r \subseteq Agent

Phase == <<"orient", "strategize", "collect", "analyze", "report", "complete">>
\* What another of the agents returns: a result, an empty one or an exception.
DocsOutputs == [tag : {"full", "empty", "raised"}]

\* No result yet, for the agents of which only one word is kept.
Nothing == [tag |-> "none"]

OSCARState(a) ==
  [alert |-> a, phase |-> "orient", triage |-> NoTriage, analysis |-> NoAnalysis,
   intel |-> Nothing, response |-> NoResponse, docs |-> Nothing, history |-> <<>>, errors |-> 0]

OscarTypeOK ==
  /\ payload \in [Alert -> Payloads]
  /\ roster \in Rosters /\ roster \subseteq Agent
  /\ state.alert \in Alert \cup {"none"}
  /\ state.phase \in {Phase[i] : i \in DOMAIN Phase}
  /\ at \in [Alert -> {"new", "running", "done"} \cup Agent]
  /\ turn \in Alert \cup {"idle"}
  /\ answer \in [Alert -> Alert \cup {"none"}]
  /\ overlapped \subseteq Alert

OscarInit ==
  /\ payload \in [Alert -> Payloads]
  /\ roster \in Rosters
  /\ state = OSCARState("none")
  /\ at = [a \in Alert |-> "new"]
  /\ pending = [a \in Alert |-> Nothing]
  /\ turn = "idle"
  /\ answer = [a \in Alert |-> "none"]
  /\ overlapped = {}

-----------------------------------------------------------------------------
\* The first transition of OSCAR_TRANSITIONS; complete for any other phase.
NextPhase(ph) ==
  CASE ph = "orient" -> "strategize" [] ph = "strategize" -> "collect"
    [] ph = "collect" -> "analyze" [] ph = "analyze" -> "report" [] OTHER -> "complete"

Advance(st) == [st EXCEPT !.phase = NextPhase(@)]

\* The end of _execute_phase: the phase that began goes into the history of
\* the state that is current now.
Record(st, ph) == [st EXCEPT !.history = Append(@, ph)]

\* orchestrate up to its first phase: the state is replaced.
Start(a) ==
  LET inFlight == {b \in Alert : at[b] \in Agent}
  IN
  /\ turn = "idle"
  /\ at[a] = "new"
  /\ state' = OSCARState(a)
  /\ at' = [at EXCEPT ![a] = "running"]
  /\ turn' = a
  /\ overlapped' = IF inFlight = {} THEN overlapped ELSE overlapped \cup inFlight \cup {a}
  /\ UNCHANGED <<payload, roster, pending, answer>>

InPhase(a, ph) == turn = a /\ state.phase = ph

\* The coroutine awaits an agent's run, which was given the state as it is now.
Await(a, agent, results) ==
  /\ agent \in roster
  /\ \E r \in results : pending' = [pending EXCEPT ![a] = r]
  /\ at' = [at EXCEPT ![a] = agent]
  /\ turn' = "idle"
  /\ UNCHANGED <<payload, roster, answer, overlapped>>

Continue == UNCHANGED <<payload, roster, at, pending, turn, answer, overlapped>>

\* The agent a awaits returns, and a goes on.
Returned(a, agent) ==
  /\ turn = "idle"
  /\ at[a] = agent
  /\ UNCHANGED <<payload, roster, answer, overlapped>>

\* Bug variant: an orchestration whose state was replaced is not resumed.
MutResumeOwner(a) ==
  /\ state.alert = a
  /\ at' = [at EXCEPT ![a] = "running"]
  /\ turn' = a
  /\ pending' = [pending EXCEPT ![a] = Nothing]

Resume(a) ==
  /\ at' = [at EXCEPT ![a] = "running"]
  /\ turn' = a
  /\ pending' = [pending EXCEPT ![a] = Nothing]

Stated(p) == IF p.severity = "unstated" THEN "informational" ELSE p.severity

\* Without a triage agent: neither the rule level nor the keywords count.
BasicTriage(p) == [NoTriage EXCEPT !.tag = "full", !.severity = Stated(p)]

Orient(a) ==
  /\ InPhase(a, "orient")
  /\ \/ /\ Await(a, "silver-triage", TriageOutputs(payload[a]))
        /\ UNCHANGED state
     \/ /\ "silver-triage" \notin roster
        /\ state' = Record(Advance([state EXCEPT !.triage = BasicTriage(payload[a])]), "orient")
        /\ Continue

TriageReturns(a) ==
  /\ Returned(a, "silver-triage")
  /\ state' = Record(Advance([state EXCEPT !.triage = pending[a]]), "orient")
  /\ Resume(a)

NeedsAnalysis(severity) == severity \in {"critical", "high", "medium"}

Strategize(a) ==
  /\ InPhase(a, "strategize")
  /\ state' = Record([state EXCEPT
       !.phase = IF NeedsAnalysis(state.triage.severity) THEN "collect" ELSE "report"], "strategize")
  /\ Continue

\* The intel agent is given neither indicators nor techniques.
IntelOutput == [tag |-> ThreatLevel({})]

Collect(a) ==
  /\ InPhase(a, "collect")
  /\ \/ /\ Await(a, "silver-analysis", AnalysisOutputs(payload[a], state.triage))
        /\ UNCHANGED state
     \/ /\ "silver-analysis" \notin roster
        /\ Await(a, "silver-intel", {IntelOutput})
        /\ UNCHANGED state
     \/ /\ {"silver-analysis", "silver-intel"} \cap roster = {}
        /\ state' = Record(Advance(state), "collect")
        /\ Continue

\* The intel agent is called next, without giving the state a new phase.
AnalysisReturns(a) ==
  LET st == [state EXCEPT !.analysis = pending[a]]
  IN
  /\ Returned(a, "silver-analysis")
  /\ IF "silver-intel" \in roster
     THEN /\ state' = st
          /\ pending' = [pending EXCEPT ![a] = IntelOutput]
          /\ at' = [at EXCEPT ![a] = "silver-intel"]
          /\ UNCHANGED turn
     ELSE /\ state' = Record(Advance(st), "collect")
          /\ Resume(a)

IntelReturns(a) ==
  /\ Returned(a, "silver-intel")
  /\ state' = Record(Advance([state EXCEPT !.intel = pending[a]]), "collect")
  /\ Resume(a)

\* The Silver analysis always has its risk assessment; there is none to add.
Analyze(a) ==
  /\ InPhase(a, "analyze")
  /\ state' = Record(Advance(state), "analyze")
  /\ Continue

Complete(st) == Record([st EXCEPT !.phase = "complete"], "report")

Report(a) ==
  /\ InPhase(a, "report")
  /\ \/ /\ Await(a, "silver-response", ResponseOutputs(payload[a], state.analysis, state.triage))
        /\ UNCHANGED state
     \/ /\ "silver-response" \notin roster
        /\ Await(a, "silver-docs", DocsOutputs)
        /\ UNCHANGED state
     \/ /\ {"silver-response", "silver-docs"} \cap roster = {}
        /\ state' = Complete(state)
        /\ Continue

ResponseReturns(a) ==
  LET st == [state EXCEPT !.response = pending[a]]
  IN
  /\ Returned(a, "silver-response")
  /\ IF "silver-docs" \in roster
     THEN /\ state' = st
          /\ \E r \in DocsOutputs : pending' = [pending EXCEPT ![a] = r]
          /\ at' = [at EXCEPT ![a] = "silver-docs"]
          /\ UNCHANGED turn
     ELSE /\ state' = Complete(st)
          /\ Resume(a)

\* An exception is an entry of errors, and the phase is advanced.
DocsReturn(a) ==
  /\ Returned(a, "silver-docs")
  /\ state' = IF pending[a].tag = "raised"
              THEN Record(Advance([state EXCEPT !.errors = @ + 1]), "report")
              ELSE Complete([state EXCEPT !.docs = pending[a]])
  /\ Resume(a)

\* The loop ends and the result is compiled from the current state.
Finish(a) ==
  /\ InPhase(a, "complete")
  /\ at' = [at EXCEPT ![a] = "done"]
  /\ turn' = "idle"
  /\ answer' = [answer EXCEPT ![a] = state.alert]
  /\ UNCHANGED <<payload, roster, state, pending, overlapped>>

Orchestrate(a) ==
  \/ Orient(a) \/ TriageReturns(a) \/ Strategize(a) \/ Collect(a) \/ AnalysisReturns(a)
  \/ IntelReturns(a) \/ Analyze(a) \/ Report(a) \/ ResponseReturns(a) \/ DocsReturn(a) \/ Finish(a)

OscarNext == \E a \in Alert : Start(a) \/ Orchestrate(a)

OscarSpec == OscarInit /\ [][OscarNext]_oscarVars

\* Agents return (their tools have timeouts), and the event loop resumes the
\* coroutines that are ready.
OscarFairSpec == OscarSpec /\ \A a \in Alert : WF_oscarVars(Orchestrate(a))

-----------------------------------------------------------------------------
\* The state describes an alert that had the supervisor to itself and is done.
Settled == state.alert # "none" /\ at[state.alert] = "done" /\ state.alert \notin overlapped

(* The answer is about the alert it is for, for every alert that had the    *)
(* supervisor to itself, and for the one that started last even if others   *)
(* were still waiting for their agents.                                     *)
OwnAnswers ==
  \A a \in Alert : at[a] = "done" /\ (a \notin overlapped \/ a = state.alert) => answer[a] = a

(* An alert that had the supervisor to itself goes through collect and      *)
(* analyze exactly when its triage rated it medium or more.                 *)
PipelineFollowsTriage ==
  Settled =>
    state.history =
      IF Rank(state.triage.severity) >= Rank("medium")
      THEN <<"orient", "strategize", "collect", "analyze", "report">>
      ELSE <<"orient", "strategize", "report">>

(* Whatever the searches, the enrichment and the context answer, and in     *)
(* whatever order the boosts are tried, a triage that completes never rates *)
(* the alert below the severity its own fields give it.                     *)
TriageNeverLowers ==
  Settled /\ "silver-triage" \in roster /\ state.triage.tag = "full" =>
    Rank(state.triage.severity) >= Rank(AssessSeverity(payload[state.alert]))

(* An alert whose own fields ask for medium or more goes without collect    *)
(* and analyze only when its triage failed (strategize reads an empty       *)
(* result as informational), or when no triage agent is registered and the  *)
(* severity is not stated (the fallback does not look at the rule level).   *)
LightOnlyUntriaged ==
  LET p == payload[state.alert] IN
  Settled /\ Rank(AssessSeverity(p)) >= Rank("medium")
          /\ state.history = <<"orient", "strategize", "report">> =>
    IF "silver-triage" \in roster THEN state.triage.tag = "empty" ELSE p.severity = "unstated"

(* What an alert can count on: an answer of its own, the phases its triage  *)
(* asks for, and a rating no lower than its own fields unless its triage    *)
(* failed or there was none.  An alert that another one ran in the middle   *)
(* of can count on none of this but its return (EveryAlertAnswered).        *)
TreatedAsRated ==
  OwnAnswers /\ PipelineFollowsTriage /\ TriageNeverLowers /\ LightOnlyUntriaged

(* When triage, analysis and response all complete for an alert rated high  *)
(* or critical, isolating the host is in the plan and waits for approval;   *)
(* and no plan, of any alert, runs a high-risk action on its own.           *)
ContainmentIsHeld ==
  /\ Settled /\ state.analysis.tag = "full" /\ state.response.tag = "full"
       /\ Rank(state.triage.severity) >= Rank("high")
       => "isolate_host" \in {a.action : a \in state.response.held}
  /\ {a.action : a \in state.response.auto} \cap HighRisk = {}

(* Every orchestration that starts returns, even when another one takes the *)
(* state over while it waits.                                               *)
EveryAlertAnswered == \A a \in Alert : at[a] # "new" ~> at[a] = "done"
================================================================================
