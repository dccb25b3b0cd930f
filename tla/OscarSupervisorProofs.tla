---------------------------- MODULE OscarSupervisorProofs ----------------------------
(***************************************************************************)
(* Proofs about the Magenta supervisor, for any alerts, rosters, policies  *)
(* and answers of the tools.  First what each agent's result promises,     *)
(* given what it was run on; then the invariant: an alert that has the     *)
(* supervisor to itself is the one the state is about, nobody else runs or *)
(* waits meanwhile, and phase, history and results belong together.        *)
(***************************************************************************)
EXTENDS OscarSupervisor, TLAPS

Severities == {"informational", "low", "medium", "high", "critical"}

LEMMA Ranks ==
  /\ Rank("informational") = 1 /\ Rank("low") = 2 /\ Rank("medium") = 3
  /\ Rank("high") = 4 /\ Rank("critical") = 5
<1>1. DOMAIN Severity = 1 .. 5
  BY DEF Severity
<1>2. /\ Severity[1] = "informational" /\ Severity[2] = "low" /\ Severity[3] = "medium"
      /\ Severity[4] = "high" /\ Severity[5] = "critical"
  BY DEF Severity
<1>3. ASSUME NEW s, NEW i \in 1 .. 5, Severity[i] = s, \A j \in 1 .. 5 : Severity[j] = s => j = i
      PROVE  Rank(s) = i
  BY <1>1, <1>3 DEF Rank
<1>4. \A j \in 1 .. 5 : j = 1 \/ j = 2 \/ j = 3 \/ j = 4 \/ j = 5
  OBVIOUS
<1>5. \A i, j \in 1 .. 5 : Severity[i] = Severity[j] => i = j
  BY <1>2, <1>4
<1>6. \A i \in 1 .. 5 : Rank(Severity[i]) = i
  BY <1>3, <1>5
<1> QED BY <1>2, <1>6

(* No boost lowers a severity.                                              *)
LEMMA BoostsOnlyRaise ==
  ASSUME NEW base \in Severities, NEW critical, NEW malicious, NEW c
  PROVE  /\ Boosted(base, critical, malicious, c) \in Severities
         /\ Rank(Boosted(base, critical, malicious, c)) >= Rank(base)
<1> DEFINE b == Boosted(base, critical, malicious, c)
<1>1. \/ b = base
      \/ base = "medium" /\ b = "high"
      \/ base = "low" /\ b \in {"medium", "high"}
  BY Zenon DEF Boosted
<1> HIDE DEF b
<1>2. b \in Severities
  BY <1>1 DEF Severities
<1>3. Rank(base) \in Nat
  BY Ranks DEF Severities
<1>4. Rank(b) >= Rank(base)
  BY <1>1, <1>3, Ranks
<1> QED BY <1>2, <1>4 DEF b

LEMMA AssessedSeverities ==
  ASSUME NEW p \in Payload
  PROVE  AssessSeverity(p) \in Severities
BY DEF AssessSeverity, Payload, Severities

-----------------------------------------------------------------------------
\* What an agent's result promises, given what it was run on.
TriageFits(t, p) ==
  /\ t.severity \in Severities /\ t.tag \in {"full", "empty"}
  /\ t.tag = "full" => Rank(t.severity) >= Rank(AssessSeverity(p))

AnalysisFits(n, t) ==
  n.tag = "full" /\ Rank(t.severity) >= Rank("high") =>
    \E r \in n.recommendations : r.action = "isolate_host"

HeldBack(r) == {a.action : a \in r.auto} \cap HighRisk = {}

ResponseFits(r, n, t) ==
  r.tag = "full" /\ n.tag = "full" /\ Rank(t.severity) >= Rank("high") =>
    "isolate_host" \in {a.action : a \in r.held}

LEMMA TriageOutputsFit ==
  ASSUME NEW p \in Payload, NEW t \in TriageOutputs(p) PROVE TriageFits(t, p)
<1>1. AssessSeverity(p) \in Severities
  BY AssessedSeverities
<1>2. CASE t = FailedTriage
  <2>1. t.severity = "informational" /\ t.tag = "empty"
    BY <1>2 DEF FailedTriage, NoTriage
  <2> QED BY <2>1 DEF TriageFits, Severities
<1>3. CASE t # FailedTriage
  <2>1. PICK hit \in MitreSearch, malicious \in Enrichments(p), c \in Contexts(p) :
          t = [tag |-> "full", severity |-> Boosted(AssessSeverity(p), hit.critical, malicious, c),
               alert_type |-> AlertType(p), techniques |-> hit.n]
    BY <1>3 DEF TriageOutputs
  <2>2. t.severity = Boosted(AssessSeverity(p), hit.critical, malicious, c) /\ t.tag = "full"
    BY <2>1
  <2> QED BY <1>1, <2>2, BoostsOnlyRaise DEF TriageFits
<1> QED BY <1>2, <1>3

LEMMA GraveScores ==
  ASSUME NEW t, t.severity \in Severities, Rank(t.severity) >= Rank("high"),
         NEW n, NEW correlated
  PROVE  RiskLevel(RiskScore(t, n, correlated)) \in {"critical", "high"}
<1>1. t.severity \in {"high", "critical"}
  BY Ranks DEF Severities
<1>2. BaseScore[t.severity] \in {70, 90}
  BY <1>1 DEF BaseScore
<1>3. RiskScore(t, n, correlated) >= 60 /\ RiskScore(t, n, correlated) \in Nat
  BY <1>2 DEF RiskScore
<1> QED BY <1>3 DEF RiskLevel

LEMMA AnalysisOutputsFit ==
  ASSUME NEW p, NEW t, t.severity \in Severities, NEW n \in AnalysisOutputs(p, t)
  PROVE  AnalysisFits(n, t)
<1>1. CASE n = FailedAnalysis
  <2>1. n.tag = "empty"
    BY <1>1 DEF FailedAnalysis, NoAnalysis
  <2> QED BY <2>1 DEF AnalysisFits
<1>2. CASE n # FailedAnalysis
  <2>1. PICK k, correlated :
          n.recommendations = Recommendations(p, RiskLevel(RiskScore(t, k, correlated)), k)
    BY <1>2 DEF AnalysisOutputs
  <2>2. SUFFICES ASSUME Rank(t.severity) >= Rank("high")
                 PROVE  \E r \in n.recommendations : r.action = "isolate_host"
    BY DEF AnalysisFits
  <2> DEFINE level == RiskLevel(RiskScore(t, k, correlated))
             r == [action |-> "isolate_host", target |-> (p.host # "absent")]
  <2>3. level \in {"critical", "high"}
    BY <2>2, GraveScores
  <2> HIDE DEF level
  <2>4. r \in Recommendations(p, level, k) /\ r.action = "isolate_host"
    BY <2>3 DEF Recommendations
  <2> QED BY <2>1, <2>4 DEF level
<1> QED BY <1>1, <1>2

(* What the plan has under the policy's approval or the type's own.         *)
LEMMA PlansHoldBack ==
  ASSUME NEW p, NEW n, NEW t, NEW a \in ResponsePlan(p, n, t)
  PROVE  a.action \in HighRisk => a.approval
<1>1. CASE \E r \in n.recommendations : a = Act(r.action, r.target, RequiresApproval(r.action))
  <2>1. PICK r \in n.recommendations : a = Act(r.action, r.target, RequiresApproval(r.action))
    BY <1>1
  <2>2. a.action = r.action /\ a.approval = RequiresApproval(r.action)
    BY <2>1 DEF Act
  <2>3. r.action \in HighRisk => RequiresApproval(r.action)
    BY DEF RequiresApproval, PolicyLayer
  <2> QED BY <2>2, <2>3
<1>2. CASE a \in BruteForceActions(p, n.score)
  <2>1. (a.action = "block_ip" /\ a.approval = TRUE) \/ a.action = "enforce_lockout"
    BY <1>2 DEF BruteForceActions, Act
  <2> QED BY <2>1, OscarAssumption
<1>3. CASE a \in MalwareActions(p, n.score)
  <2>1. (a.action = "isolate_host" /\ a.approval = TRUE) \/ a.action = "collect_evidence"
    BY <1>3 DEF MalwareActions, Act
  <2> QED BY <2>1, OscarAssumption
<1>4. CASE a \in RansomwareActions(p)
  <2>1. (a.action = "isolate_host" /\ a.approval = TRUE) \/ a.action = "notify_escalation"
    BY <1>4 DEF RansomwareActions, Act
  <2> QED BY <2>1, OscarAssumption
<1> QED BY <1>1, <1>2, <1>3, <1>4 DEF ResponsePlan

LEMMA ResponseOutputsHeld ==
  ASSUME NEW p, NEW n, NEW t, NEW r \in ResponseOutputs(p, n, t) PROVE HeldBack(r)
<1>1. CASE r = FailedResponse
  <2>1. r.auto = {}
    BY <1>1 DEF FailedResponse, NoResponse
  <2> QED BY <2>1 DEF HeldBack
<1>2. CASE r # FailedResponse
  <2> DEFINE plan == ResponsePlan(p, n, t)
  <2>1. r.auto = {a \in plan : ~a.approval}
    BY <1>2 DEF ResponseOutputs
  <2>2. \A a \in plan : a.action \in HighRisk => a.approval
    BY PlansHoldBack
  <2> HIDE DEF plan
  <2> QED BY <2>1, <2>2 DEF HeldBack
<1> QED BY <1>1, <1>2

LEMMA ResponseOutputsFit ==
  ASSUME NEW p, NEW n, NEW t, AnalysisFits(n, t), NEW r \in ResponseOutputs(p, n, t)
  PROVE  ResponseFits(r, n, t)
<1>1. CASE r = FailedResponse
  <2>1. r.tag = "empty"
    BY <1>1 DEF FailedResponse, NoResponse
  <2> QED BY <2>1 DEF ResponseFits
<1>2. CASE r # FailedResponse
  <2> DEFINE plan == ResponsePlan(p, n, t)
  <2>1. r.held = {a \in plan : a.approval}
    BY <1>2 DEF ResponseOutputs, CreateApprovalRequest
  <2>2. \A a \in plan : a.action \in HighRisk => a.approval
    BY PlansHoldBack
  <2>3. \A x \in n.recommendations : Act(x.action, x.target, RequiresApproval(x.action)) \in plan
    BY DEF ResponsePlan
  <2> HIDE DEF plan
  <2>5. ASSUME n.tag = "full", Rank(t.severity) >= Rank("high")
        PROVE  "isolate_host" \in {a.action : a \in r.held}
    <3>1. PICK x \in n.recommendations : x.action = "isolate_host"
      BY <2>5 DEF AnalysisFits
    <3> DEFINE a == Act(x.action, x.target, RequiresApproval(x.action))
    <3>2. a.action = "isolate_host" /\ a \in plan
      BY <2>3, <3>1 DEF Act
    <3>3. a.approval
      BY <2>2, <3>2, OscarAssumption
    <3> HIDE DEF a
    <3> QED BY <2>1, <3>2, <3>3
  <2> QED BY <2>5 DEF ResponseFits
<1> QED BY <1>1, <1>2

-----------------------------------------------------------------------------
IsState(st) ==
  st = [alert |-> st.alert, phase |-> st.phase, triage |-> st.triage, analysis |-> st.analysis,
        intel |-> st.intel, response |-> st.response, docs |-> st.docs,
        history |-> st.history, errors |-> st.errors]

Grave(st) == Rank(st.triage.severity) >= Rank("medium")

Rest == <<"orient", "strategize">>
Collected == <<"orient", "strategize", "collect">>
Analyzed == <<"orient", "strategize", "collect", "analyze">>

\* How far the orchestration of the state's alert has come: its phase, where it
\* waits and the history it leaves.
Stage(st, where) ==
  \/ /\ st.phase = "orient" /\ where \in {"running", "silver-triage"}
     /\ st.history = <<>>
  \/ /\ st.phase = "strategize" /\ where = "running"
     /\ st.history = <<"orient">>
  \/ /\ st.phase = "collect" /\ where \in {"running", "silver-analysis", "silver-intel"}
     /\ Grave(st) /\ st.history = Rest
  \/ /\ st.phase = "analyze" /\ where = "running"
     /\ Grave(st) /\ st.history = Collected
  \/ /\ st.phase = "report" /\ where \in {"running", "silver-response", "silver-docs"}
     /\ \/ Grave(st) /\ st.history = Analyzed
        \/ ~Grave(st) /\ st.history = Rest
  \/ /\ st.phase = "complete" /\ where \in {"running", "done"}
     /\ \/ Grave(st) /\ st.history = <<"orient", "strategize", "collect", "analyze", "report">>
        \/ ~Grave(st) /\ st.history = <<"orient", "strategize", "report">>

\* The results so far, and the one that is awaited, are what the agents promise.
Results(st, where, q, p) ==
  /\ st.triage.severity \in Severities
  /\ st.phase = "orient" \/ "silver-triage" \notin roster \/ TriageFits(st.triage, p)
  /\ st.phase = "orient" \/ "silver-triage" \in roster \/ st.triage.severity = Stated(p)
  /\ where = "silver-triage" => TriageFits(q, p) /\ "silver-triage" \in roster
  /\ st.phase \in {"orient", "strategize"} => st.analysis.tag = "none"
  /\ AnalysisFits(st.analysis, st.triage)
  /\ where = "silver-analysis" => AnalysisFits(q, st.triage)
  /\ st.phase \in {"orient", "strategize", "collect", "analyze"} => st.response.tag = "none"
  /\ ResponseFits(st.response, st.analysis, st.triage)
  /\ where = "silver-response" => ResponseFits(q, st.analysis, st.triage)

\* The alert of the state has had the supervisor to itself.
Alone == state.alert \in Alert /\ state.alert \notin overlapped

Place == {"new", "running", "done"} \cup Agent

OscarTypes ==
  /\ payload \in [Alert -> Payloads]
  /\ IsState(state) /\ state.alert \in Alert \cup {"none"}
  /\ at \in [Alert -> Place]
  /\ pending = [a \in Alert |-> pending[a]]
  /\ answer = [a \in Alert |-> answer[a]]
  /\ turn \in Alert \cup {"idle"}
  /\ \A a \in Alert : turn = a <=> at[a] = "running"

PlansHeld ==
  /\ HeldBack(state.response)
  /\ \A a \in Alert : at[a] = "silver-response" => HeldBack(pending[a])

(* While an alert has the supervisor to itself, nobody else runs or waits,  *)
(* and the state, phase by phase, is about that alert.                      *)
AloneInOrder ==
  \A a \in Alert : state.alert = a /\ a \notin overlapped =>
    /\ \A b \in Alert : b # a => at[b] \in {"new", "done"}
    /\ Stage(state, at[a])
    /\ Results(state, at[a], pending[a], payload[a])
    /\ at[a] = "done" => answer[a] = a

(* The state is about the orchestration that is on its way, unless another  *)
(* one ran in the middle of it.                                             *)
Owned ==
  /\ \A a \in Alert : at[a] \notin {"new", "done"} /\ a \notin overlapped => state.alert = a
  /\ OwnAnswers

OscarInv == OscarTypes /\ PlansHeld /\ AloneInOrder /\ Owned

LEMMA OscarInvIsSafe == OscarInv => TreatedAsRated /\ ContainmentIsHeld
<1> SUFFICES ASSUME OscarInv PROVE TreatedAsRated /\ ContainmentIsHeld
  OBVIOUS
<1>1. {x.action : x \in state.response.auto} \cap HighRisk = {}
  BY DEF OscarInv, PlansHeld, HeldBack
<1>2. CASE ~Settled
  BY <1>1, <1>2 DEF OscarInv, Owned, TreatedAsRated, PipelineFollowsTriage, TriageNeverLowers,
                    LightOnlyUntriaged, ContainmentIsHeld
<1>3. CASE Settled
  <2>1. PICK a \in Alert : state.alert = a /\ a \notin overlapped /\ at[a] = "done"
    BY <1>3 DEF Settled, OscarInv, OscarTypes
  <2>2. Stage(state, "done") /\ Results(state, "done", pending[a], payload[a]) /\ answer[a] = a
    BY <2>1 DEF OscarInv, AloneInOrder
  <2>0. OwnAnswers
    BY DEF OscarInv, Owned
  <2>3. PipelineFollowsTriage
    <3>1. state.history = IF Rank(state.triage.severity) >= Rank("medium")
                          THEN <<"orient", "strategize", "collect", "analyze", "report">>
                          ELSE <<"orient", "strategize", "report">>
      BY <2>2 DEF Stage, Grave
    <3> QED BY <3>1 DEF PipelineFollowsTriage
  <2>4. state.phase = "complete"
    BY <2>2 DEF Stage
  <2>5. TriageNeverLowers
    BY <2>1, <2>2, <2>4 DEF Results, TriageFits, TriageNeverLowers
  <2>6. ContainmentIsHeld
    BY <1>1, <2>2 DEF Results, ResponseFits, ContainmentIsHeld
  <2>7. LightOnlyUntriaged
    <3> DEFINE p == payload[a]
               t == state.triage
    <3> SUFFICES ASSUME Rank(AssessSeverity(p)) >= Rank("medium"),
                        state.history = <<"orient", "strategize", "report">>
                 PROVE  IF "silver-triage" \in roster THEN t.tag = "empty" ELSE p.severity = "unstated"
      BY <2>1 DEF LightOnlyUntriaged
    <3>1. ~Grave(state)
      <4>1. state.history # <<"orient", "strategize", "collect", "analyze", "report">>
        OBVIOUS
      <4> QED BY <2>2, <2>4, <4>1 DEF Stage
    <3>2. t.severity \in Severities /\ AssessSeverity(p) \in Severities /\ p \in Payload
      BY <2>2, AssessedSeverities, OscarAssumption DEF Results, OscarInv, OscarTypes
    <3>3. Rank(t.severity) < Rank(AssessSeverity(p))
      BY <3>1, <3>2, Ranks DEF Grave, Severities
    <3>4. CASE "silver-triage" \in roster
      <4>1. TriageFits(t, p)
        BY <2>2, <2>4, <3>4 DEF Results
      <4>2. t.tag # "full"
        BY <3>2, <3>3, <4>1, Ranks DEF TriageFits, Severities
      <4> QED BY <3>4, <4>1, <4>2 DEF TriageFits
    <3>5. CASE "silver-triage" \notin roster
      <4>1. t.severity = Stated(p)
        BY <2>2, <2>4, <3>5 DEF Results
      <4>2. p.severity # "unstated" => t.severity = AssessSeverity(p)
        BY <4>1 DEF Stated, AssessSeverity
      <4>3. t.severity # AssessSeverity(p)
        BY <3>2, <3>3, Ranks DEF Severities
      <4> QED BY <3>5, <4>2, <4>3
    <3> QED BY <3>4, <3>5
  <2> QED BY <2>0, <2>3, <2>5, <2>6, <2>7 DEF TreatedAsRated
<1> QED BY <1>2, <1>3

-----------------------------------------------------------------------------
(* The fields of a state that is written.                                   *)
LEMMA TriageSet ==
  ASSUME NEW st, IsState(st), NEW v, NEW s, s = [st EXCEPT !.triage = v]
  PROVE  /\ IsState(s) /\ s.triage = v
         /\ s.alert = st.alert /\ s.phase = st.phase /\ s.analysis = st.analysis
         /\ s.response = st.response /\ s.history = st.history
BY DEF IsState

LEMMA AnalysisSet ==
  ASSUME NEW st, IsState(st), NEW v, NEW s, s = [st EXCEPT !.analysis = v]
  PROVE  /\ IsState(s) /\ s.analysis = v
         /\ s.alert = st.alert /\ s.phase = st.phase /\ s.triage = st.triage
         /\ s.response = st.response /\ s.history = st.history
BY DEF IsState

LEMMA ResponseSet ==
  ASSUME NEW st, IsState(st), NEW v, NEW s, s = [st EXCEPT !.response = v]
  PROVE  /\ IsState(s) /\ s.response = v
         /\ s.alert = st.alert /\ s.phase = st.phase /\ s.triage = st.triage
         /\ s.analysis = st.analysis /\ s.history = st.history
BY DEF IsState

LEMMA PhaseSet ==
  ASSUME NEW st, IsState(st), NEW v, NEW s, s = [st EXCEPT !.phase = v]
  PROVE  /\ IsState(s) /\ s.phase = v
         /\ s.alert = st.alert /\ s.triage = st.triage /\ s.analysis = st.analysis
         /\ s.response = st.response /\ s.history = st.history
BY DEF IsState

LEMMA OtherSet ==
  ASSUME NEW st, IsState(st), NEW v, NEW s,
         s \in {[st EXCEPT !.intel = v], [st EXCEPT !.docs = v], [st EXCEPT !.errors = v]}
  PROVE  /\ IsState(s) /\ s.alert = st.alert /\ s.phase = st.phase /\ s.triage = st.triage
         /\ s.analysis = st.analysis /\ s.response = st.response /\ s.history = st.history
BY DEF IsState

LEMMA RecordedFields ==
  ASSUME NEW st, IsState(st), NEW ph
  PROVE  LET s == Record(st, ph) IN
         /\ IsState(s) /\ s.history = Append(st.history, ph) /\ s.alert = st.alert
         /\ s.phase = st.phase /\ s.triage = st.triage /\ s.analysis = st.analysis
         /\ s.response = st.response
<1>1. PICK h : h = Append(st.history, ph)
  OBVIOUS
<1>2. PICK s : s = [st EXCEPT !.history = h]
  OBVIOUS
<1>3. IsState(s) /\ s.history = h /\ s.alert = st.alert /\ s.phase = st.phase
  BY <1>2 DEF IsState
<1>4. s.triage = st.triage /\ s.analysis = st.analysis /\ s.response = st.response
  BY <1>2 DEF IsState
<1>5. Record(st, ph) = s
  BY <1>1, <1>2 DEF Record
<1> QED BY <1>1, <1>3, <1>4, <1>5

LEMMA AdvancedFields ==
  ASSUME NEW st, IsState(st)
  PROVE  LET s == Advance(st) IN
         /\ IsState(s) /\ s.history = st.history /\ s.alert = st.alert
         /\ s.phase = NextPhase(st.phase) /\ s.triage = st.triage /\ s.analysis = st.analysis
         /\ s.response = st.response
BY DEF IsState, Advance

(* The end of a phase: the next one, and the history goes on.               *)
LEMMA PhaseEnds ==
  ASSUME NEW st, IsState(st), NEW ph, NEW s, s = Record(Advance(st), ph)
  PROVE  /\ IsState(s) /\ s.alert = st.alert /\ s.phase = NextPhase(st.phase)
         /\ s.triage = st.triage /\ s.analysis = st.analysis /\ s.response = st.response
         /\ s.history = Append(st.history, ph)
<1>1. PICK x : x = Advance(st)
  OBVIOUS
<1>2. /\ IsState(x) /\ x.history = st.history /\ x.alert = st.alert
      /\ x.phase = NextPhase(st.phase) /\ x.triage = st.triage /\ x.analysis = st.analysis
      /\ x.response = st.response
  BY <1>1, AdvancedFields
<1> QED BY <1>1, <1>2, RecordedFields

LEMMA Phases ==
  /\ NextPhase("orient") = "strategize" /\ NextPhase("collect") = "analyze"
  /\ NextPhase("analyze") = "report" /\ NextPhase("report") = "complete"
BY DEF NextPhase

LEMMA AppendIs ==
  ASSUME NEW S, NEW s \in Seq(S), NEW e \in S, NEW t \in Seq(S), Len(t) = Len(s) + 1,
         \A i \in 1 .. Len(s) : t[i] = s[i], t[Len(s) + 1] = e
  PROVE  Append(s, e) = t
<1>1. Append(s, e) \in Seq(S) /\ Len(Append(s, e)) = Len(t)
  OBVIOUS
<1>2. \A i \in 1 .. Len(t) : Append(s, e)[i] = t[i]
  OBVIOUS
<1> DEFINE u == Append(s, e)
<1> HIDE DEF u
<1>3. u = t
  BY <1>1, <1>2 DEF u
<1> QED BY <1>3 DEF u

LEMMA Histories ==
  /\ Append(<<>>, "orient") = <<"orient">>
  /\ Append(<<"orient">>, "strategize") = Rest
  /\ Append(Rest, "collect") = Collected
  /\ Append(Collected, "analyze") = Analyzed
  /\ Append(Analyzed, "report") = <<"orient", "strategize", "collect", "analyze", "report">>
  /\ Append(Rest, "report") = <<"orient", "strategize", "report">>
<1> DEFINE P == {"orient", "strategize", "collect", "analyze", "report"}
           Whole == <<"orient", "strategize", "collect", "analyze", "report">>
           Light == <<"orient", "strategize", "report">>
<1>0. <<"orient">> \in Seq(P) /\ Len(<<"orient">>) = 1 /\ <<"orient">>[1] = "orient"
  OBVIOUS
<1>1. Rest \in Seq(P) /\ Len(Rest) = 2 /\ Rest[1] = "orient" /\ Rest[2] = "strategize"
  BY DEF Rest
<1>2. /\ Collected \in Seq(P) /\ Len(Collected) = 3
      /\ Collected[1] = "orient" /\ Collected[2] = "strategize" /\ Collected[3] = "collect"
  BY DEF Collected
<1>3. /\ Analyzed \in Seq(P) /\ Len(Analyzed) = 4
      /\ Analyzed[1] = "orient" /\ Analyzed[2] = "strategize" /\ Analyzed[3] = "collect"
      /\ Analyzed[4] = "analyze"
  BY DEF Analyzed
<1>4. /\ Whole \in Seq(P) /\ Len(Whole) = 5
      /\ Whole[1] = "orient" /\ Whole[2] = "strategize" /\ Whole[3] = "collect"
      /\ Whole[4] = "analyze" /\ Whole[5] = "report"
  OBVIOUS
<1>5. /\ Light \in Seq(P) /\ Len(Light) = 3
      /\ Light[1] = "orient" /\ Light[2] = "strategize" /\ Light[3] = "report"
  OBVIOUS
<1>6. Append(<<>>, "orient") = <<"orient">>
  OBVIOUS
<1>7. "strategize" \in P /\ "collect" \in P /\ "analyze" \in P /\ "report" \in P
  OBVIOUS
<1> DEFINE Orient1 == <<"orient">>
<1>8. Orient1 \in Seq(P) /\ Len(Orient1) = 1 /\ Orient1[1] = "orient"
  BY <1>0
<1> HIDE DEF P, Whole, Light, Orient1
<1>11. Append(Orient1, "strategize") = Rest
  <2>1. \A i \in 1 .. Len(Orient1) : i = 1
    BY <1>8
  <2>2. \A i \in 1 .. Len(Orient1) : Rest[i] = Orient1[i]
    BY <1>8, <1>1, <2>1
  <2>3. Len(Rest) = Len(Orient1) + 1 /\ Rest[Len(Orient1) + 1] = "strategize"
    BY <1>8, <1>1
  <2> QED BY <1>8, <1>1, <1>7, <2>2, <2>3, AppendIs
<1>12. Append(Rest, "collect") = Collected
  <2>1. \A i \in 1 .. Len(Rest) : i = 1 \/ i = 2
    BY <1>1
  <2>2. \A i \in 1 .. Len(Rest) : Collected[i] = Rest[i]
    BY <1>1, <1>2, <2>1
  <2>3. Len(Collected) = Len(Rest) + 1 /\ Collected[Len(Rest) + 1] = "collect"
    BY <1>1, <1>2
  <2> QED BY <1>1, <1>2, <1>7, <2>2, <2>3, AppendIs
<1>13. Append(Collected, "analyze") = Analyzed
  <2>1. \A i \in 1 .. Len(Collected) : i = 1 \/ i = 2 \/ i = 3
    BY <1>2
  <2>2. \A i \in 1 .. Len(Collected) : Analyzed[i] = Collected[i]
    BY <1>2, <1>3, <2>1
  <2>3. Len(Analyzed) = Len(Collected) + 1 /\ Analyzed[Len(Collected) + 1] = "analyze"
    BY <1>2, <1>3
  <2> QED BY <1>2, <1>3, <1>7, <2>2, <2>3, AppendIs
<1>14. Append(Analyzed, "report") = Whole
  <2>1. \A i \in 1 .. Len(Analyzed) : i = 1 \/ i = 2 \/ i = 3 \/ i = 4
    BY <1>3
  <2>2. \A i \in 1 .. Len(Analyzed) : Whole[i] = Analyzed[i]
    BY <1>3, <1>4, <2>1
  <2>3. Len(Whole) = Len(Analyzed) + 1 /\ Whole[Len(Analyzed) + 1] = "report"
    BY <1>3, <1>4
  <2> QED BY <1>3, <1>4, <1>7, <2>2, <2>3, AppendIs
<1>15. Append(Rest, "report") = Light
  <2>1. \A i \in 1 .. Len(Rest) : i = 1 \/ i = 2
    BY <1>1
  <2>2. \A i \in 1 .. Len(Rest) : Light[i] = Rest[i]
    BY <1>1, <1>5, <2>1
  <2>3. Len(Light) = Len(Rest) + 1 /\ Light[Len(Rest) + 1] = "report"
    BY <1>1, <1>5
  <2> QED BY <1>1, <1>5, <1>7, <2>2, <2>3, AppendIs
<1> QED BY <1>6, <1>11, <1>12, <1>13, <1>14, <1>15 DEF Whole, Light, Orient1

-----------------------------------------------------------------------------
(* A step of the orchestration of a, to the state st, the place w and the   *)
(* awaited result q, keeps the invariant when it keeps it for a.            *)
LEMMA StepKeeps ==
  ASSUME OscarInv, NEW a \in Alert, turn \in {a, "idle"}, at[a] \notin {"new", "done"},
         NEW st, IsState(st), st.alert = state.alert, state' = st,
         NEW w \in Place, w # "new", at' = [at EXCEPT ![a] = w],
         NEW q, pending' = [pending EXCEPT ![a] = q],
         turn' = IF w = "running" THEN a ELSE "idle",
         \/ w # "done" /\ answer' = answer
         \/ w = "done" /\ answer' = [answer EXCEPT ![a] = st.alert],
         UNCHANGED <<payload, roster, overlapped>>,
         HeldBack(st.response), w = "silver-response" => HeldBack(q),
         state.alert = a /\ a \notin overlapped => Stage(st, w) /\ Results(st, w, q, payload[a])
  PROVE  OscarInv'
<1>0. /\ at \in [Alert -> Place] /\ pending = [b \in Alert |-> pending[b]]
      /\ answer = [b \in Alert |-> answer[b]]
      /\ \A b \in Alert : turn = b <=> at[b] = "running"
  BY DEF OscarInv, OscarTypes
<1>1. at'[a] = w /\ pending'[a] = q /\ \A b \in Alert : b # a => at'[b] = at[b] /\ pending'[b] = pending[b]
  BY <1>0
<1>2. OscarTypes'
  <2>1. payload' \in [Alert -> Payloads] /\ IsState(state)' /\ state'.alert \in Alert \cup {"none"}
    BY DEF OscarInv, OscarTypes, IsState
  <2>2. at' \in [Alert -> Place] /\ pending' = [b \in Alert |-> pending'[b]]
    BY <1>0
  <2>3. answer' = [b \in Alert |-> answer'[b]]
    BY <1>0
  <2>4. turn' \in Alert \cup {"idle"}
    OBVIOUS
  <2>5. ASSUME NEW b \in Alert PROVE turn' = b <=> at'[b] = "running"
    <3>1. b # "idle" /\ a # "idle"
      BY OscarAssumption
    <3>2. CASE b = a
      BY <1>1, <3>1, <3>2
    <3>3. CASE b # a
      BY <1>0, <1>1, <3>1, <3>3
    <3> QED BY <3>2, <3>3
  <2> QED BY <2>1, <2>2, <2>3, <2>4, <2>5 DEF OscarTypes
<1>3. PlansHeld'
  <2>1. \A b \in Alert : at'[b] = "silver-response" => HeldBack(pending'[b])
    BY <1>1 DEF OscarInv, PlansHeld
  <2>2. HeldBack(state'.response)
    OBVIOUS
  <2> QED BY <2>1, <2>2 DEF PlansHeld, HeldBack
<1>4. AloneInOrder'
  <2> SUFFICES ASSUME NEW b \in Alert, state'.alert = b, b \notin overlapped'
               PROVE  /\ \A c \in Alert : c # b => at'[c] \in {"new", "done"}
                      /\ Stage(state', at'[b])
                      /\ Results(state, at[b], pending[b], payload[b])'
                      /\ at'[b] = "done" => answer'[b] = b
    BY DEF AloneInOrder, Stage, Grave
  <2>1. state.alert = b /\ b \notin overlapped
    OBVIOUS
  <2>2. \A c \in Alert : c # b => at[c] \in {"new", "done"}
    BY <2>1 DEF OscarInv, AloneInOrder
  <2>3. b = a
    BY <2>2
  <2>4. Stage(st, w) /\ Results(st, w, q, payload[a])
    BY <2>1, <2>3
  <2>5. Results(state, at[b], pending[b], payload[b])'
    <3>1. /\ st.triage.severity \in Severities
          /\ st.phase = "orient" \/ "silver-triage" \notin roster \/ TriageFits(st.triage, payload[a])
          /\ st.phase = "orient" \/ "silver-triage" \in roster \/ st.triage.severity = Stated(payload[a])
          /\ w = "silver-triage" => TriageFits(q, payload[a]) /\ "silver-triage" \in roster
          /\ st.phase \in {"orient", "strategize"} => st.analysis.tag = "none"
          /\ AnalysisFits(st.analysis, st.triage)
          /\ w = "silver-analysis" => AnalysisFits(q, st.triage)
          /\ st.phase \in {"orient", "strategize", "collect", "analyze"} => st.response.tag = "none"
          /\ ResponseFits(st.response, st.analysis, st.triage)
          /\ w = "silver-response" => ResponseFits(q, st.analysis, st.triage)
      BY <2>4 DEF Results
    <3>2. /\ state' = st /\ at'[b] = w /\ pending'[b] = q /\ payload'[b] = payload[a]
          /\ roster' = roster
      BY <1>1, <2>3
    <3> QED BY <3>1, <3>2 DEF Results, TriageFits, AnalysisFits, ResponseFits
  <2>6. at'[b] = "done" => answer'[b] = b
    BY <1>0, <1>1, <2>1, <2>3
  <2> QED BY <1>1, <2>2, <2>3, <2>4, <2>5, <2>6
<1>5. Owned'
  <2>1. \A b \in Alert : at[b] \notin {"new", "done"} /\ b \notin overlapped => state.alert = b
    BY DEF OscarInv, Owned
  <2>2. \A b \in Alert : at'[b] \notin {"new", "done"} /\ b \notin overlapped => state.alert = b
    BY <1>1, <2>1
  <2>3. \A b \in Alert :
          at[b] = "done" /\ (b \notin overlapped \/ b = state.alert) => answer[b] = b
    BY DEF OscarInv, Owned, OwnAnswers
  <2>4. ASSUME NEW b \in Alert, at'[b] = "done", b \notin overlapped \/ b = state.alert
        PROVE  answer'[b] = b
    <3>1. CASE b = a
      <4>1. w = "done" /\ state.alert = a
        BY <1>1, <2>1, <2>4, <3>1
      <4> QED BY <1>0, <3>1, <4>1
    <3>2. CASE b # a
      BY <1>0, <1>1, <2>3, <2>4, <3>2
    <3> QED BY <3>1, <3>2
  <2> QED BY <2>2, <2>4 DEF Owned, OwnAnswers
<1> QED BY <1>2, <1>3, <1>4, <1>5 DEF OscarInv

(* The same for the three ways to go on: without a pause, into an agent's   *)
(* run, and back from one.                                                  *)
LEMMA ContinueKeeps ==
  ASSUME OscarInv, NEW a \in Alert, turn = a, NEW st, IsState(st), st.alert = state.alert,
         state' = st, Continue, HeldBack(st.response),
         state.alert = a /\ a \notin overlapped =>
           Stage(st, "running") /\ Results(st, "running", pending[a], payload[a])
  PROVE  OscarInv'
<1>1. at[a] = "running" /\ a # "idle"
  BY OscarAssumption DEF OscarInv, OscarTypes
<1>2. at' = [at EXCEPT ![a] = "running"] /\ pending' = [pending EXCEPT ![a] = pending[a]]
  BY <1>1 DEF Continue, OscarInv, OscarTypes
<1>3. turn' = a /\ answer' = answer /\ UNCHANGED <<payload, roster, overlapped>>
  BY DEF Continue
<1>4. "running" \in Place
  BY DEF Place
<1> QED BY <1>1, <1>2, <1>3, <1>4, StepKeeps

LEMMA AwaitKeeps ==
  ASSUME OscarInv, NEW a \in Alert, turn = a, UNCHANGED state,
         NEW agent \in Agent, NEW results, Await(a, agent, results),
         agent = "silver-response" => \A r \in results : HeldBack(r),
         state.alert = a /\ a \notin overlapped =>
           Stage(state, agent) /\ \A r \in results : Results(state, agent, r, payload[a])
  PROVE  OscarInv'
<1>1. at[a] = "running" /\ a # "idle"
  BY OscarAssumption DEF OscarInv, OscarTypes
<1>2. PICK r \in results : pending' = [pending EXCEPT ![a] = r]
  BY DEF Await
<1>3. /\ at' = [at EXCEPT ![a] = agent] /\ turn' = "idle"
      /\ UNCHANGED <<payload, roster, answer, overlapped>>
  BY DEF Await
<1>4. agent \in Place /\ agent \notin {"new", "running", "done"}
  BY DEF Place, Agent
<1>5. IsState(state) /\ HeldBack(state.response)
  BY DEF OscarInv, OscarTypes, PlansHeld
<1>6. PICK st : st = state
  OBVIOUS
<1> QED BY <1>1, <1>2, <1>3, <1>4, <1>5, <1>6, StepKeeps

LEMMA ResumeKeeps ==
  ASSUME OscarInv, NEW a \in Alert, NEW agent \in Agent, Returned(a, agent), Resume(a),
         NEW st, IsState(st), st.alert = state.alert, state' = st, HeldBack(st.response),
         state.alert = a /\ a \notin overlapped =>
           Stage(st, "running") /\ Results(st, "running", Nothing, payload[a])
  PROVE  OscarInv'
<1>1. at[a] = agent /\ agent \notin {"new", "done"} /\ turn = "idle"
  BY DEF Returned, Agent
<1>2. /\ at' = [at EXCEPT ![a] = "running"] /\ pending' = [pending EXCEPT ![a] = Nothing]
      /\ turn' = a /\ answer' = answer /\ UNCHANGED <<payload, roster, overlapped>>
  BY DEF Returned, Resume
<1>3. "running" \in Place
  BY DEF Place
<1> QED BY <1>1, <1>2, <1>3, StepKeeps

\* What the invariant says while a runs, or awaits the agent, by itself.
LEMMA WhatHolds ==
  ASSUME OscarInv, NEW a \in Alert
  PROVE  /\ IsState(state) /\ HeldBack(state.response) /\ payload[a] \in Payload
         /\ turn = a => at[a] = "running"
         /\ at[a] = "silver-response" => HeldBack(pending[a])
         /\ state.alert = a /\ a \notin overlapped =>
              Stage(state, at[a]) /\ Results(state, at[a], pending[a], payload[a])
<1>1. payload[a] \in Payload
  BY OscarAssumption DEF OscarInv, OscarTypes
<1> QED BY <1>1 DEF OscarInv, OscarTypes, PlansHeld, AloneInOrder

LEMMA OrientKeeps == ASSUME OscarInv, NEW a \in Alert, Orient(a) PROVE OscarInv'
<1>0. turn = a /\ state.phase = "orient" /\ at[a] = "running"
  BY WhatHolds DEF Orient, InPhase
<1>1. CASE Await(a, "silver-triage", TriageOutputs(payload[a])) /\ UNCHANGED state
  <2>1. "silver-triage" \in Agent
    BY DEF Agent
  <2>2. \A r \in TriageOutputs(payload[a]) : TriageFits(r, payload[a])
    BY WhatHolds, TriageOutputsFit
  <2>3. ASSUME state.alert = a, a \notin overlapped
        PROVE  /\ Stage(state, "silver-triage")
               /\ \A r \in TriageOutputs(payload[a]) : Results(state, "silver-triage", r, payload[a])
    <3>1. Stage(state, "running") /\ Results(state, "running", pending[a], payload[a])
      BY <1>0, <2>3, WhatHolds
    <3>2. Stage(state, "silver-triage")
      BY <1>0, <3>1 DEF Stage
    <3>3. "silver-triage" \in roster
      BY <1>1 DEF Await
    <3> QED BY <2>2, <3>1, <3>2, <3>3 DEF Results
  <2> QED BY <1>0, <1>1, <2>1, <2>3, AwaitKeeps
<1>2. CASE /\ "silver-triage" \notin roster
           /\ state' = Record(Advance([state EXCEPT !.triage = BasicTriage(payload[a])]), "orient")
           /\ Continue
  <2> DEFINE t == BasicTriage(payload[a])
  <2>1. t.severity \in Severities /\ t.severity = Stated(payload[a])
    BY WhatHolds DEF BasicTriage, Stated, NoTriage, Payload, Severities
  <2> HIDE DEF t
  <2>2. PICK s1 : s1 = [state EXCEPT !.triage = t]
    OBVIOUS
  <2>3. IsState(state)
    BY WhatHolds
  <2>4. /\ IsState(s1) /\ s1.triage = t /\ s1.alert = state.alert /\ s1.phase = state.phase
        /\ s1.analysis = state.analysis /\ s1.response = state.response
        /\ s1.history = state.history
    BY <2>2, <2>3, TriageSet
  <2>5. PICK s3 : s3 = Record(Advance(s1), "orient")
    OBVIOUS
  <2>9. /\ IsState(s3) /\ s3.triage = t /\ s3.alert = state.alert /\ s3.phase = "strategize"
        /\ s3.analysis = state.analysis /\ s3.response = state.response
        /\ s3.history = Append(state.history, "orient")
    BY <1>0, <2>4, <2>5, PhaseEnds, Phases
  <2>10. state' = s3
    BY <1>2, <2>2, <2>5 DEF t
  <2>6. ASSUME state.alert = a, a \notin overlapped
        PROVE  Stage(s3, "running") /\ Results(s3, "running", pending[a], payload[a])
    <3>1. Stage(state, "running") /\ Results(state, "running", pending[a], payload[a])
      BY <1>0, <2>6, WhatHolds
    <3>2. state.history = <<>>
      BY <1>0, <3>1 DEF Stage
    <3>3. Stage(s3, "running")
      BY <2>9, <3>2, Histories DEF Stage
    <3>4. state.analysis.tag = "none" /\ state.response.tag = "none"
      BY <1>0, <3>1 DEF Results
    <3> QED BY <1>2, <2>1, <2>9, <3>3, <3>4 DEF Results, AnalysisFits, ResponseFits
  <2>7. HeldBack(s3.response)
    BY <2>9, WhatHolds
  <2> QED BY <1>0, <1>2, <2>6, <2>7, <2>9, <2>10, ContinueKeeps
<1> QED BY <1>1, <1>2 DEF Orient

LEMMA TriageReturnsKeeps == ASSUME OscarInv, NEW a \in Alert, TriageReturns(a) PROVE OscarInv'
<1>0. Returned(a, "silver-triage") /\ Resume(a) /\ at[a] = "silver-triage" /\ "silver-triage" \in Agent
  BY DEF TriageReturns, Returned, Agent
<1>1. PICK t : t = pending[a]
  OBVIOUS
<1>2. PICK s1 : s1 = [state EXCEPT !.triage = t]
  OBVIOUS
<1>3. PICK s3 : s3 = Record(Advance(s1), "orient")
  OBVIOUS
<1>4. /\ IsState(s3) /\ s3.triage = t /\ s3.alert = state.alert /\ s3.phase = NextPhase(state.phase)
      /\ s3.analysis = state.analysis /\ s3.response = state.response
      /\ s3.history = Append(state.history, "orient")
  <2>1. IsState(state)
    BY WhatHolds
  <2>2. /\ IsState(s1) /\ s1.triage = t /\ s1.alert = state.alert /\ s1.phase = state.phase
        /\ s1.analysis = state.analysis /\ s1.response = state.response
        /\ s1.history = state.history
    BY <1>2, <2>1, TriageSet
  <2> QED BY <1>3, <2>2, PhaseEnds
<1>10. state' = s3
  BY <1>1, <1>2, <1>3 DEF TriageReturns
<1>5. ASSUME state.alert = a, a \notin overlapped
      PROVE  Stage(s3, "running") /\ Results(s3, "running", Nothing, payload[a])
  <2>1. Stage(state, "silver-triage") /\ Results(state, "silver-triage", t, payload[a])
    BY <1>0, <1>1, <1>5, WhatHolds
  <2>2. state.phase = "orient" /\ state.history = <<>>
    BY <2>1 DEF Stage
  <2>3. s3.phase = "strategize" /\ s3.history = <<"orient">>
    BY <1>4, <2>2, Phases, Histories
  <2>4. Stage(s3, "running")
    BY <2>3 DEF Stage
  <2>5. /\ state.analysis.tag = "none" /\ state.response.tag = "none"
        /\ TriageFits(t, payload[a]) /\ t.severity \in Severities /\ "silver-triage" \in roster
    BY <2>1, <2>2 DEF Results, TriageFits
  <2> QED BY <1>4, <2>3, <2>4, <2>5 DEF Results, AnalysisFits, ResponseFits
<1>6. HeldBack(s3.response)
  BY <1>4, WhatHolds
<1> QED BY <1>0, <1>4, <1>5, <1>6, <1>10, ResumeKeeps

(* What stays true of the results when the phase moves on.                  *)
LEMMA ResultsCarry ==
  ASSUME NEW st, NEW p, NEW s, NEW w, NEW v, NEW q, NEW r, Results(st, w, q, p), v \in {"running", "done"},
         s.triage = st.triage, s.analysis = st.analysis, s.response = st.response,
         s.phase # "orient", st.phase # "orient",
         s.phase = "strategize" => st.phase = "strategize",
         s.phase \in {"collect", "analyze"} => st.phase \in {"strategize", "collect", "analyze"}
  PROVE  Results(s, v, r, p)
BY DEF Results

LEMMA StrategizeKeeps == ASSUME OscarInv, NEW a \in Alert, Strategize(a) PROVE OscarInv'
<1>0. turn = a /\ state.phase = "strategize" /\ at[a] = "running" /\ Continue /\ IsState(state)
  BY WhatHolds DEF Strategize, InPhase
<1>1. PICK ph : ph = IF NeedsAnalysis(state.triage.severity) THEN "collect" ELSE "report"
  OBVIOUS
<1>2. PICK s1 : s1 = [state EXCEPT !.phase = ph]
  OBVIOUS
<1>3. PICK s2 : s2 = Record(s1, "strategize")
  OBVIOUS
<1>4. state' = s2
  BY <1>1, <1>2, <1>3 DEF Strategize
<1>5. /\ IsState(s1) /\ s1.phase = ph /\ s1.alert = state.alert /\ s1.triage = state.triage
      /\ s1.analysis = state.analysis /\ s1.response = state.response /\ s1.history = state.history
  BY <1>0, <1>2, PhaseSet
<1>6. /\ IsState(s2) /\ s2.phase = ph /\ s2.alert = state.alert /\ s2.triage = state.triage
      /\ s2.analysis = state.analysis /\ s2.response = state.response
      /\ s2.history = Append(state.history, "strategize")
  BY <1>3, <1>5, RecordedFields
<1>7. HeldBack(s2.response)
  BY <1>6, WhatHolds
<1>8. ASSUME state.alert = a, a \notin overlapped
      PROVE  Stage(s2, "running") /\ Results(s2, "running", pending[a], payload[a])
  <2>1. Stage(state, "running") /\ Results(state, "running", pending[a], payload[a])
    BY <1>0, <1>8, WhatHolds
  <2>2. s2.history = Rest
    BY <1>0, <1>6, <2>1, Histories DEF Stage
  <2>3. state.triage.severity \in Severities
    BY <2>1 DEF Results
  <2>4. Grave(s2) <=> NeedsAnalysis(state.triage.severity)
    BY <1>6, <2>3, Ranks DEF Grave, NeedsAnalysis, Severities
  <2>5. (ph = "collect" /\ Grave(s2)) \/ (ph = "report" /\ ~Grave(s2))
    BY <1>1, <2>4
  <2>6. Stage(s2, "running")
    BY <1>6, <2>2, <2>5 DEF Stage
  <2>7. Results(s2, "running", pending[a], payload[a])
    BY <1>0, <1>6, <2>1, <2>5, ResultsCarry
  <2> QED BY <2>6, <2>7
<1> QED BY <1>0, <1>4, <1>6, <1>7, <1>8, ContinueKeeps

(* A phase that ends without an agent's word.                               *)
LEMMA CollectKeeps == ASSUME OscarInv, NEW a \in Alert, Collect(a) PROVE OscarInv'
<1>0. /\ turn = a /\ state.phase = "collect" /\ at[a] = "running" /\ IsState(state)
      /\ "silver-analysis" \in Agent /\ "silver-intel" \in Agent
  BY WhatHolds DEF Collect, InPhase, Agent
<1>1. state.alert = a /\ a \notin overlapped =>
        Stage(state, "running") /\ Results(state, "running", pending[a], payload[a])
  BY <1>0, WhatHolds
<1>2. CASE Await(a, "silver-analysis", AnalysisOutputs(payload[a], state.triage)) /\ UNCHANGED state
  <2>1. ASSUME state.alert = a, a \notin overlapped
        PROVE  /\ Stage(state, "silver-analysis")
               /\ \A r \in AnalysisOutputs(payload[a], state.triage) :
                    Results(state, "silver-analysis", r, payload[a])
    <3>1. Stage(state, "silver-analysis")
      BY <1>0, <1>1, <2>1 DEF Stage
    <3>2. state.triage.severity \in Severities
      BY <1>1, <2>1 DEF Results
    <3>3. \A r \in AnalysisOutputs(payload[a], state.triage) : AnalysisFits(r, state.triage)
      BY <3>2, AnalysisOutputsFit
    <3> QED BY <1>1, <2>1, <3>1, <3>3 DEF Results
  <2> QED BY <1>0, <1>2, <2>1, AwaitKeeps
<1>3. CASE Await(a, "silver-intel", {IntelOutput}) /\ UNCHANGED state
  <2>1. ASSUME state.alert = a, a \notin overlapped
        PROVE  /\ Stage(state, "silver-intel")
               /\ \A r \in {IntelOutput} : Results(state, "silver-intel", r, payload[a])
    BY <1>0, <1>1, <2>1 DEF Stage, Results
  <2> QED BY <1>0, <1>3, <2>1, AwaitKeeps
<1>4. CASE state' = Record(Advance(state), "collect") /\ Continue
  <2>1. PICK s : s = Record(Advance(state), "collect")
    OBVIOUS
  <2>2. /\ IsState(s) /\ s.alert = state.alert /\ s.phase = "analyze"
        /\ s.triage = state.triage /\ s.analysis = state.analysis /\ s.response = state.response
        /\ s.history = Append(state.history, "collect")
    BY <1>0, <2>1, PhaseEnds, Phases
  <2>3. ASSUME state.alert = a, a \notin overlapped
        PROVE  Stage(s, "running") /\ Results(s, "running", pending[a], payload[a])
    <3>1. Grave(state) /\ state.history = Rest
      BY <1>0, <1>1, <2>3 DEF Stage
    <3>2. Stage(s, "running")
      BY <2>2, <3>1, Histories DEF Stage, Grave
    <3>3. Results(s, "running", pending[a], payload[a])
      BY <1>0, <1>1, <2>2, <2>3, ResultsCarry
    <3> QED BY <3>2, <3>3
  <2>4. HeldBack(s.response)
    BY <2>2, WhatHolds
  <2> QED BY <1>0, <1>4, <2>1, <2>2, <2>3, <2>4, ContinueKeeps
<1> QED BY <1>2, <1>3, <1>4 DEF Collect

LEMMA AnalysisReturnsKeeps == ASSUME OscarInv, NEW a \in Alert, AnalysisReturns(a) PROVE OscarInv'
<1>0. /\ Returned(a, "silver-analysis") /\ at[a] = "silver-analysis" /\ "silver-analysis" \in Agent
      /\ turn = "idle" /\ IsState(state) /\ UNCHANGED <<payload, roster, answer, overlapped>>
  BY WhatHolds DEF AnalysisReturns, Returned, Agent
<1>1. PICK n : n = pending[a]
  OBVIOUS
<1>2. PICK st : st = [state EXCEPT !.analysis = n]
  OBVIOUS
<1>3. /\ IsState(st) /\ st.analysis = n /\ st.alert = state.alert /\ st.phase = state.phase
      /\ st.triage = state.triage /\ st.response = state.response /\ st.history = state.history
  BY <1>0, <1>2, AnalysisSet
<1>4. HeldBack(st.response)
  BY <1>3, WhatHolds
<1>5. ASSUME state.alert = a, a \notin overlapped
      PROVE  /\ state.phase = "collect" /\ Grave(st) /\ st.history = Rest
             /\ st.triage.severity \in Severities
             /\ "silver-triage" \notin roster \/ TriageFits(st.triage, payload[a])
             /\ "silver-triage" \in roster \/ st.triage.severity = Stated(payload[a])
             /\ AnalysisFits(st.analysis, st.triage) /\ st.response.tag = "none"
  <2>1. Stage(state, "silver-analysis") /\ Results(state, "silver-analysis", n, payload[a])
    BY <1>0, <1>1, <1>5, WhatHolds
  <2>2. state.phase = "collect" /\ Grave(state) /\ state.history = Rest
    BY <2>1 DEF Stage
  <2> QED BY <1>3, <2>1, <2>2 DEF Results, Grave
<1>6. CASE /\ state' = st /\ pending' = [pending EXCEPT ![a] = IntelOutput]
           /\ at' = [at EXCEPT ![a] = "silver-intel"] /\ UNCHANGED turn
  <2>1. ASSUME state.alert = a, a \notin overlapped
        PROVE  Stage(st, "silver-intel") /\ Results(st, "silver-intel", IntelOutput, payload[a])
    <3>1. Stage(st, "silver-intel")
      BY <1>3, <1>5, <2>1 DEF Stage
    <3>2. Results(st, "silver-intel", IntelOutput, payload[a])
      BY <1>3, <1>5, <2>1 DEF Results, ResponseFits
    <3> QED BY <3>1, <3>2
  <2>2. "silver-intel" \in Place
    BY DEF Place, Agent
  <2> QED BY <1>0, <1>3, <1>4, <1>6, <2>1, <2>2, StepKeeps
<1>7. CASE state' = Record(Advance(st), "collect") /\ Resume(a)
  <2>1. PICK s : s = Record(Advance(st), "collect")
    OBVIOUS
  <2>2. /\ IsState(s) /\ s.alert = st.alert /\ s.phase = NextPhase(st.phase) /\ s.triage = st.triage
        /\ s.analysis = st.analysis /\ s.response = st.response
        /\ s.history = Append(st.history, "collect")
    BY <1>3, <2>1, PhaseEnds
  <2>3. ASSUME state.alert = a, a \notin overlapped
        PROVE  Stage(s, "running") /\ Results(s, "running", Nothing, payload[a])
    <3>1. s.phase = "analyze" /\ Grave(s) /\ s.history = Collected
      BY <1>3, <1>5, <2>2, <2>3, Phases, Histories DEF Grave
    <3>2. Stage(s, "running")
      BY <3>1 DEF Stage
    <3>3. Results(s, "running", Nothing, payload[a])
      BY <1>5, <2>2, <2>3, <3>1 DEF Results, ResponseFits
    <3> QED BY <3>2, <3>3
  <2> QED BY <1>0, <1>3, <1>4, <1>7, <2>1, <2>2, <2>3, ResumeKeeps
<1> QED BY <1>1, <1>2, <1>6, <1>7 DEF AnalysisReturns

LEMMA IntelReturnsKeeps == ASSUME OscarInv, NEW a \in Alert, IntelReturns(a) PROVE OscarInv'
<1>0. /\ Returned(a, "silver-intel") /\ Resume(a) /\ at[a] = "silver-intel" /\ "silver-intel" \in Agent
      /\ IsState(state)
  BY WhatHolds DEF IntelReturns, Returned, Agent
<1>1. PICK st : st = [state EXCEPT !.intel = pending[a]]
  OBVIOUS
<1>2. /\ IsState(st) /\ st.alert = state.alert /\ st.phase = state.phase /\ st.triage = state.triage
      /\ st.analysis = state.analysis /\ st.response = state.response /\ st.history = state.history
  BY <1>0, <1>1, OtherSet
<1>3. PICK s : s = Record(Advance(st), "collect")
  OBVIOUS
<1>4. state' = s
  BY <1>1, <1>3 DEF IntelReturns
<1>5. /\ IsState(s) /\ s.alert = state.alert /\ s.phase = NextPhase(state.phase)
      /\ s.triage = state.triage /\ s.analysis = state.analysis /\ s.response = state.response
      /\ s.history = Append(state.history, "collect")
  BY <1>2, <1>3, PhaseEnds
<1>6. HeldBack(s.response)
  BY <1>5, WhatHolds
<1>7. ASSUME state.alert = a, a \notin overlapped
      PROVE  Stage(s, "running") /\ Results(s, "running", Nothing, payload[a])
  <2>1. Stage(state, "silver-intel") /\ Results(state, "silver-intel", pending[a], payload[a])
    BY <1>0, <1>7, WhatHolds
  <2>2. state.phase = "collect" /\ Grave(state) /\ state.history = Rest
    BY <2>1 DEF Stage
  <2>3. s.phase = "analyze" /\ Grave(s) /\ s.history = Collected
    BY <1>5, <2>2, Phases, Histories DEF Grave
  <2>4. Stage(s, "running")
    BY <2>3 DEF Stage
  <2>5. Results(s, "running", Nothing, payload[a])
    BY <1>5, <2>1, <2>2, <2>3, ResultsCarry
  <2> QED BY <2>4, <2>5
<1> QED BY <1>0, <1>4, <1>5, <1>6, <1>7, ResumeKeeps

LEMMA AnalyzeKeeps == ASSUME OscarInv, NEW a \in Alert, Analyze(a) PROVE OscarInv'
<1>0. /\ turn = a /\ state.phase = "analyze" /\ at[a] = "running" /\ IsState(state) /\ Continue
  BY WhatHolds DEF Analyze, InPhase
<1>1. PICK s : s = Record(Advance(state), "analyze")
  OBVIOUS
<1>2. /\ IsState(s) /\ s.alert = state.alert /\ s.phase = "report"
      /\ s.triage = state.triage /\ s.analysis = state.analysis /\ s.response = state.response
      /\ s.history = Append(state.history, "analyze")
  BY <1>0, <1>1, PhaseEnds, Phases
<1>3. state' = s
  BY <1>1 DEF Analyze
<1>4. HeldBack(s.response)
  BY <1>2, WhatHolds
<1>5. ASSUME state.alert = a, a \notin overlapped
      PROVE  Stage(s, "running") /\ Results(s, "running", pending[a], payload[a])
  <2>1. Stage(state, "running") /\ Results(state, "running", pending[a], payload[a])
    BY <1>0, <1>5, WhatHolds
  <2>2. Grave(s) /\ s.history = Analyzed
    BY <1>0, <1>2, <2>1, Histories DEF Stage, Grave
  <2>3. Stage(s, "running")
    BY <1>2, <2>2 DEF Stage
  <2>4. Results(s, "running", pending[a], payload[a])
    BY <1>0, <1>2, <2>1, ResultsCarry
  <2> QED BY <2>3, <2>4
<1> QED BY <1>0, <1>2, <1>3, <1>4, <1>5, ContinueKeeps

(* An orchestration completes: its history is whole, and its results stand. *)
LEMMA CompletedFields ==
  ASSUME NEW st, IsState(st), NEW s, s = Complete(st)
  PROVE  /\ IsState(s) /\ s.alert = st.alert /\ s.phase = "complete"
         /\ s.triage = st.triage /\ s.analysis = st.analysis /\ s.response = st.response
         /\ s.history = Append(st.history, "report")
<1>1. PICK x : x = [st EXCEPT !.phase = "complete"]
  OBVIOUS
<1>2. /\ IsState(x) /\ x.phase = "complete" /\ x.alert = st.alert /\ x.triage = st.triage
      /\ x.analysis = st.analysis /\ x.response = st.response /\ x.history = st.history
  BY <1>1, PhaseSet
<1>3. s = Record(x, "report")
  BY <1>1 DEF Complete
<1> QED BY <1>2, <1>3, RecordedFields

LEMMA CompletedStage ==
  ASSUME NEW st, NEW w, Stage(st, w), st.phase = "report", NEW s, s.phase = "complete",
         s.triage = st.triage, s.history = Append(st.history, "report")
  PROVE  Stage(s, "running")
<1>1. \/ Grave(st) /\ st.history = Analyzed
      \/ ~Grave(st) /\ st.history = Rest
  BY DEF Stage
<1>2. Grave(s) <=> Grave(st)
  BY DEF Grave
<1>3. \/ Grave(s) /\ s.history = <<"orient", "strategize", "collect", "analyze", "report">>
      \/ ~Grave(s) /\ s.history = <<"orient", "strategize", "report">>
  BY <1>1, <1>2, Histories
<1> QED BY <1>3 DEF Stage

LEMMA ReportKeeps == ASSUME OscarInv, NEW a \in Alert, Report(a) PROVE OscarInv'
<1>0. /\ turn = a /\ state.phase = "report" /\ at[a] = "running" /\ IsState(state)
      /\ "silver-response" \in Agent /\ "silver-docs" \in Agent
  BY WhatHolds DEF Report, InPhase, Agent
<1>1. state.alert = a /\ a \notin overlapped =>
        Stage(state, "running") /\ Results(state, "running", pending[a], payload[a])
  BY <1>0, WhatHolds
<1>2. CASE Await(a, "silver-response", ResponseOutputs(payload[a], state.analysis, state.triage)) /\ UNCHANGED state
  <2>1. ASSUME NEW r \in ResponseOutputs(payload[a], state.analysis, state.triage) PROVE HeldBack(r)
    BY <2>1, ResponseOutputsHeld
  <2>2. ASSUME state.alert = a, a \notin overlapped
        PROVE  /\ Stage(state, "silver-response")
               /\ \A r \in ResponseOutputs(payload[a], state.analysis, state.triage) :
                    Results(state, "silver-response", r, payload[a])
    <3>1. Stage(state, "silver-response")
      BY <1>0, <1>1, <2>2 DEF Stage
    <3>2. AnalysisFits(state.analysis, state.triage)
      BY <1>1, <2>2 DEF Results
    <3>3. \A r \in ResponseOutputs(payload[a], state.analysis, state.triage) :
            ResponseFits(r, state.analysis, state.triage)
      BY <3>2, ResponseOutputsFit
    <3> QED BY <1>1, <2>2, <3>1, <3>3 DEF Results
  <2> QED BY <1>0, <1>2, <2>1, <2>2, AwaitKeeps
<1>3. CASE Await(a, "silver-docs", DocsOutputs) /\ UNCHANGED state
  <2>1. ASSUME state.alert = a, a \notin overlapped
        PROVE  /\ Stage(state, "silver-docs")
               /\ \A r \in DocsOutputs : Results(state, "silver-docs", r, payload[a])
    <3>1. Stage(state, "silver-docs")
      BY <1>0, <1>1, <2>1 DEF Stage
    <3> QED BY <1>1, <2>1, <3>1 DEF Results
  <2> QED BY <1>0, <1>3, <2>1, AwaitKeeps
<1>4. CASE state' = Complete(state) /\ Continue
  <2>1. PICK s : s = Complete(state)
    OBVIOUS
  <2>2. /\ IsState(s) /\ s.alert = state.alert /\ s.phase = "complete"
        /\ s.triage = state.triage /\ s.analysis = state.analysis /\ s.response = state.response
        /\ s.history = Append(state.history, "report")
    BY <1>0, <2>1, CompletedFields
  <2>3. ASSUME state.alert = a, a \notin overlapped
        PROVE  Stage(s, "running") /\ Results(s, "running", pending[a], payload[a])
    <3>1. Stage(s, "running")
      BY <1>0, <1>1, <2>2, <2>3, CompletedStage
    <3>2. Results(s, "running", pending[a], payload[a])
      BY <1>0, <1>1, <2>2, <2>3, ResultsCarry
    <3> QED BY <3>1, <3>2
  <2>4. HeldBack(s.response)
    BY <2>2, WhatHolds
  <2> QED BY <1>0, <1>4, <2>1, <2>2, <2>3, <2>4, ContinueKeeps
<1> QED BY <1>2, <1>3, <1>4 DEF Report

LEMMA ResponseReturnsKeeps == ASSUME OscarInv, NEW a \in Alert, ResponseReturns(a) PROVE OscarInv'
<1>0. /\ Returned(a, "silver-response") /\ at[a] = "silver-response" /\ "silver-response" \in Agent
      /\ turn = "idle" /\ IsState(state) /\ UNCHANGED <<payload, roster, answer, overlapped>>
  BY WhatHolds DEF ResponseReturns, Returned, Agent
<1>1. PICK r : r = pending[a]
  OBVIOUS
<1>2. PICK st : st = [state EXCEPT !.response = r]
  OBVIOUS
<1>3. /\ IsState(st) /\ st.response = r /\ st.alert = state.alert /\ st.phase = state.phase
      /\ st.triage = state.triage /\ st.analysis = state.analysis /\ st.history = state.history
  BY <1>0, <1>2, ResponseSet
<1>4. HeldBack(st.response)
  BY <1>0, <1>1, <1>3, WhatHolds
<1>5. ASSUME state.alert = a, a \notin overlapped
      PROVE  /\ state.phase = "report" /\ Stage(st, "silver-docs") /\ Stage(st, "silver-response")
             /\ Results(st, "silver-docs", Nothing, payload[a])
  <2>1. Stage(state, "silver-response") /\ Results(state, "silver-response", r, payload[a])
    BY <1>0, <1>1, <1>5, WhatHolds
  <2>2. state.phase = "report"
    BY <2>1 DEF Stage
  <2>3. Grave(st) <=> Grave(state)
    BY <1>3 DEF Grave
  <2>4. Stage(st, "silver-docs") /\ Stage(st, "silver-response")
    BY <1>3, <2>1, <2>2, <2>3 DEF Stage
  <2>5. Results(st, "silver-docs", Nothing, payload[a])
    BY <1>3, <2>1, <2>2 DEF Results
  <2> QED BY <2>2, <2>4, <2>5
<1>6. CASE /\ state' = st /\ \E d \in DocsOutputs : pending' = [pending EXCEPT ![a] = d]
           /\ at' = [at EXCEPT ![a] = "silver-docs"] /\ UNCHANGED turn
  <2>1. PICK d : pending' = [pending EXCEPT ![a] = d]
    BY <1>6
  <2>2. ASSUME state.alert = a, a \notin overlapped
        PROVE  Stage(st, "silver-docs") /\ Results(st, "silver-docs", d, payload[a])
    BY <1>5, <2>2 DEF Results
  <2>3. "silver-docs" \in Place
    BY DEF Place, Agent
  <2> QED BY <1>0, <1>3, <1>4, <1>6, <2>1, <2>2, <2>3, StepKeeps
<1>7. CASE state' = Complete(st) /\ Resume(a)
  <2>1. PICK s : s = Complete(st)
    OBVIOUS
  <2>2. /\ IsState(s) /\ s.alert = st.alert /\ s.phase = "complete"
        /\ s.triage = st.triage /\ s.analysis = st.analysis /\ s.response = st.response
        /\ s.history = Append(st.history, "report")
    BY <1>3, <2>1, CompletedFields
  <2>3. ASSUME state.alert = a, a \notin overlapped
        PROVE  Stage(s, "running") /\ Results(s, "running", Nothing, payload[a])
    <3>1. st.phase = "report"
      BY <1>3, <1>5, <2>3
    <3>2. Stage(s, "running")
      BY <1>5, <2>2, <2>3, <3>1, CompletedStage
    <3>3. Results(s, "running", Nothing, payload[a])
      BY <1>5, <2>2, <2>3, <3>1, ResultsCarry
    <3> QED BY <3>2, <3>3
  <2> QED BY <1>0, <1>3, <1>4, <1>7, <2>1, <2>2, <2>3, ResumeKeeps
<1> QED BY <1>1, <1>2, <1>6, <1>7 DEF ResponseReturns

LEMMA DocsReturnKeeps == ASSUME OscarInv, NEW a \in Alert, DocsReturn(a) PROVE OscarInv'
<1>0. /\ Returned(a, "silver-docs") /\ Resume(a) /\ at[a] = "silver-docs" /\ "silver-docs" \in Agent
      /\ IsState(state)
  BY WhatHolds DEF DocsReturn, Returned, Agent
<1>1. state.alert = a /\ a \notin overlapped =>
        Stage(state, "silver-docs") /\ Results(state, "silver-docs", pending[a], payload[a])
  BY <1>0, WhatHolds
<1>2. ASSUME NEW s, state' = s, IsState(s), s.alert = state.alert,
             state.phase = "report" => s.phase = "complete",
             s.triage = state.triage, s.analysis = state.analysis, s.response = state.response,
             s.history = Append(state.history, "report")
      PROVE  OscarInv'
  <2>1. ASSUME state.alert = a, a \notin overlapped
        PROVE  Stage(s, "running") /\ Results(s, "running", Nothing, payload[a])
    <3>1. state.phase = "report"
      BY <1>1, <2>1 DEF Stage
    <3>2. Stage(s, "running")
      BY <1>1, <1>2, <2>1, <3>1, CompletedStage
    <3>3. Results(s, "running", Nothing, payload[a])
      BY <1>1, <1>2, <2>1, <3>1, ResultsCarry
    <3> QED BY <3>2, <3>3
  <2>2. HeldBack(s.response)
    BY <1>2, WhatHolds
  <2> QED BY <1>0, <1>2, <2>1, <2>2, ResumeKeeps
<1>3. CASE state' = Record(Advance([state EXCEPT !.errors = @ + 1]), "report")
  <2>1. PICK st : st = [state EXCEPT !.errors = state.errors + 1]
    OBVIOUS
  <2>2. /\ IsState(st) /\ st.alert = state.alert /\ st.phase = state.phase /\ st.triage = state.triage
        /\ st.analysis = state.analysis /\ st.response = state.response /\ st.history = state.history
    BY <1>0, <2>1, OtherSet
  <2>3. PICK s : s = Record(Advance(st), "report")
    OBVIOUS
  <2>4. /\ IsState(s) /\ s.alert = st.alert /\ s.phase = NextPhase(st.phase) /\ s.triage = st.triage
        /\ s.analysis = st.analysis /\ s.response = st.response
        /\ s.history = Append(st.history, "report")
    BY <2>2, <2>3, PhaseEnds
  <2>5. state' = s
    BY <1>3, <2>1, <2>3
  <2> QED BY <1>2, <2>2, <2>4, <2>5, Phases
<1>4. CASE state' = Complete([state EXCEPT !.docs = pending[a]])
  <2>1. PICK st : st = [state EXCEPT !.docs = pending[a]]
    OBVIOUS
  <2>2. /\ IsState(st) /\ st.alert = state.alert /\ st.phase = state.phase /\ st.triage = state.triage
        /\ st.analysis = state.analysis /\ st.response = state.response /\ st.history = state.history
    BY <1>0, <2>1, OtherSet
  <2>3. PICK s : s = Complete(st)
    OBVIOUS
  <2>4. /\ IsState(s) /\ s.alert = st.alert /\ s.phase = "complete" /\ s.triage = st.triage
        /\ s.analysis = st.analysis /\ s.response = st.response
        /\ s.history = Append(st.history, "report")
    BY <2>2, <2>3, CompletedFields
  <2>5. state' = s
    BY <1>4, <2>1, <2>3
  <2> QED BY <1>2, <2>2, <2>4, <2>5
<1> QED BY <1>3, <1>4 DEF DocsReturn

LEMMA FinishKeeps == ASSUME OscarInv, NEW a \in Alert, Finish(a) PROVE OscarInv'
<1>0. /\ turn = a /\ state.phase = "complete" /\ at[a] = "running" /\ IsState(state)
      /\ pending = [b \in Alert |-> pending[b]] /\ HeldBack(state.response)
  BY WhatHolds DEF Finish, InPhase, OscarInv, OscarTypes
<1>1. /\ at' = [at EXCEPT ![a] = "done"] /\ turn' = "idle"
      /\ answer' = [answer EXCEPT ![a] = state.alert]
      /\ UNCHANGED <<payload, roster, state, pending, overlapped>>
  BY DEF Finish
<1>2. pending' = [pending EXCEPT ![a] = pending[a]]
  BY <1>0, <1>1
<1>3. ASSUME state.alert = a, a \notin overlapped
      PROVE  Stage(state, "done") /\ Results(state, "done", pending[a], payload[a])
  <2>1. Stage(state, "running") /\ Results(state, "running", pending[a], payload[a])
    BY <1>0, <1>3, WhatHolds
  <2>2. Stage(state, "done")
    BY <1>0, <2>1 DEF Stage
  <2> QED BY <2>1, <2>2 DEF Results
<1>4. "done" \in Place
  BY DEF Place
<1>5. PICK st : st = state
  OBVIOUS
<1>6. IsState(st) /\ HeldBack(st.response) /\ st.alert = state.alert /\ state' = st
  BY <1>0, <1>1, <1>5
<1>7. state.alert = a /\ a \notin overlapped => Stage(st, "done") /\ Results(st, "done", pending[a], payload[a])
  BY <1>3, <1>5
<1>8. answer' = [answer EXCEPT ![a] = st.alert]
  BY <1>1, <1>5
<1>9. PICK w : w = "done"
  OBVIOUS
<1>10. /\ w \in Place /\ w # "new" /\ w # "running" /\ w # "silver-response" /\ w = "done"
       /\ at' = [at EXCEPT ![a] = w] /\ turn' = IF w = "running" THEN a ELSE "idle"
  BY <1>1, <1>4, <1>9
<1>11. state.alert = a /\ a \notin overlapped => Stage(st, w) /\ Results(st, w, pending[a], payload[a])
  BY <1>7, <1>9
<1>12. turn \in {a, "idle"} /\ at[a] \notin {"new", "done"} /\ UNCHANGED <<payload, roster, overlapped>>
  BY <1>0, <1>1
<1> QED BY <1>2, <1>6, <1>8, <1>10, <1>11, <1>12, StepKeeps

(* The state is replaced.  If nobody is in flight the new alert has the     *)
(* supervisor to itself; else it and those in flight are overlapped.        *)
LEMMA StartKeeps == ASSUME OscarInv, NEW a \in Alert, Start(a) PROVE OscarInv'
<1> DEFINE inFlight == {b \in Alert : at[b] \in Agent}
<1>0. /\ turn = "idle" /\ at[a] = "new" /\ state' = OSCARState(a)
      /\ at' = [at EXCEPT ![a] = "running"] /\ turn' = a
      /\ overlapped' = IF inFlight = {} THEN overlapped ELSE overlapped \cup inFlight \cup {a}
      /\ UNCHANGED <<payload, roster, pending, answer>>
  BY DEF Start
<1>1. PICK s : s = OSCARState(a)
  OBVIOUS
<1>2. /\ IsState(s) /\ s.alert = a /\ s.phase = "orient" /\ s.triage = NoTriage
      /\ s.analysis = NoAnalysis /\ s.response = NoResponse /\ s.history = <<>>
  BY <1>1 DEF OSCARState, IsState
<1>3. /\ at \in [Alert -> Place] /\ \A b \in Alert : turn = b <=> at[b] = "running"
  BY DEF OscarInv, OscarTypes
<1>4. at'[a] = "running" /\ \A b \in Alert : b # a => at'[b] = at[b] /\ at[b] # "running"
  BY <1>0, <1>3, OscarAssumption
<1>5. state' = s
  BY <1>0, <1>1
<1>6. OscarTypes'
  <2>1. IsState(state)' /\ state'.alert \in Alert
    BY <1>2, <1>5 DEF IsState
  <2>2. at' \in [Alert -> Place]
    BY <1>0, <1>3 DEF Place
  <2>3. \A b \in Alert : turn' = b <=> at'[b] = "running"
    BY <1>0, <1>4
  <2> QED BY <1>0, <2>1, <2>2, <2>3 DEF OscarInv, OscarTypes
<1>7. PlansHeld'
  <2>1. HeldBack(s.response)
    BY <1>2 DEF HeldBack, NoResponse
  <2>2. \A b \in Alert : at'[b] = "silver-response" => HeldBack(pending[b])
    BY <1>4 DEF OscarInv, PlansHeld
  <2> QED BY <1>0, <1>5, <2>1, <2>2 DEF PlansHeld, HeldBack
<1>8. AloneInOrder'
  <2> SUFFICES ASSUME NEW b \in Alert, state'.alert = b, b \notin overlapped'
               PROVE  /\ \A c \in Alert : c # b => at'[c] \in {"new", "done"}
                      /\ Stage(state', at'[b])
                      /\ Results(state, at[b], pending[b], payload[b])'
                      /\ at'[b] = "done" => answer'[b] = b
    BY DEF AloneInOrder, Stage, Grave
  <2>1. b = a
    BY <1>2, <1>5
  <2>2. inFlight = {}
    BY <1>0, <2>1
  <2>3. \A c \in Alert : c # b => at'[c] \in {"new", "done"}
    BY <1>3, <1>4, <2>1, <2>2 DEF Place
  <2>4. Stage(s, "running")
    BY <1>2 DEF Stage
  <2>5. Stage(state', at'[b])
    BY <1>4, <1>5, <2>1, <2>4
  <2>6. /\ NoTriage.severity \in Severities /\ NoAnalysis.tag = "none" /\ NoResponse.tag = "none"
    BY DEF NoTriage, NoAnalysis, NoResponse, Severities
  <2>7. Results(state, at[b], pending[b], payload[b])'
    BY <1>2, <1>4, <1>5, <2>1, <2>6 DEF Results, AnalysisFits, ResponseFits
  <2> QED BY <1>4, <2>1, <2>3, <2>5, <2>7
<1>9. Owned'
  <2>1. state'.alert = a
    BY <1>2, <1>5
  <2>2. ASSUME NEW b \in Alert, at'[b] \notin {"new", "done"}, b \notin overlapped', b # a
        PROVE  FALSE
    <3>1. at[b] \in Agent
      BY <1>3, <1>4, <2>2 DEF Place
    <3>2. b \in inFlight
      BY <3>1
    <3> QED BY <1>0, <2>2, <3>2
  <2>3. ASSUME NEW b \in Alert, at'[b] = "done", b \notin overlapped' \/ b = state'.alert
        PROVE  answer'[b] = b
    <3>1. b # a /\ at[b] = "done"
      BY <1>4, <2>3
    <3>2. b \notin overlapped
      BY <1>0, <2>1, <2>3, <3>1
    <3> QED BY <1>0, <3>1, <3>2 DEF OscarInv, Owned, OwnAnswers
  <2> QED BY <2>1, <2>2, <2>3 DEF Owned, OwnAnswers
<1> QED BY <1>6, <1>7, <1>8, <1>9 DEF OscarInv

LEMMA OscarInitHolds == OscarInit => OscarInv
<1> SUFFICES ASSUME OscarInit PROVE OscarInv
  OBVIOUS
<1>1. /\ state.alert = "none" /\ state.response = NoResponse /\ IsState(state)
  BY DEF OscarInit, OSCARState, IsState
<1>2. \A a \in Alert : at[a] = "new" /\ a # "none" /\ a # "idle"
  BY OscarAssumption DEF OscarInit
<1>3. OscarTypes
  <2>1. at \in [Alert -> Place]
    BY DEF OscarInit, Place
  <2>2. \A a \in Alert : turn = a <=> at[a] = "running"
    BY <1>2 DEF OscarInit
  <2>3. pending = [a \in Alert |-> pending[a]] /\ answer = [a \in Alert |-> answer[a]]
    BY DEF OscarInit
  <2> QED BY <1>1, <2>1, <2>2, <2>3 DEF OscarInit, OscarTypes
<1>4. PlansHeld
  <2>1. HeldBack(NoResponse)
    BY DEF HeldBack, NoResponse
  <2> QED BY <1>1, <1>2, <2>1 DEF PlansHeld
<1>5. AloneInOrder
  BY <1>1, <1>2 DEF AloneInOrder
<1>6. Owned
  BY <1>2 DEF Owned, OwnAnswers
<1> QED BY <1>3, <1>4, <1>5, <1>6 DEF OscarInv

LEMMA OscarNextHolds == OscarInv /\ [OscarNext]_oscarVars => OscarInv'
<1> SUFFICES ASSUME OscarInv, [OscarNext]_oscarVars PROVE OscarInv'
  OBVIOUS
<1>1. ASSUME NEW a \in Alert, Start(a) \/ Orchestrate(a) PROVE OscarInv'
  BY <1>1, StartKeeps, OrientKeeps, TriageReturnsKeeps, StrategizeKeeps, CollectKeeps,
     AnalysisReturnsKeeps, IntelReturnsKeeps, AnalyzeKeeps, ReportKeeps, ResponseReturnsKeeps,
     DocsReturnKeeps, FinishKeeps DEF Orchestrate
<1>2. CASE UNCHANGED oscarVars
  BY <1>2 DEF oscarVars, OscarInv, OscarTypes, PlansHeld, AloneInOrder, IsState, HeldBack,
              Stage, Grave, Results, Owned, OwnAnswers
<1> QED BY <1>1, <1>2 DEF OscarNext

(* For any alerts, rosters and answers of the tools: whoever had the        *)
(* supervisor to itself, or started last, is answered about itself; an      *)
(* alert that had it to itself goes through the phases its triage asks for, *)
(* and is rated below its own fields only by a triage that failed or by the *)
(* fallback for a missing one.                                              *)
THEOREM AlwaysTreatedAsRated == OscarSpec => []TreatedAsRated
<1>1. OscarSpec => []OscarInv
  BY OscarInitHolds, OscarNextHolds, PTL DEF OscarSpec
<1> QED BY <1>1, OscarInvIsSafe, PTL

(* For any alerts, rosters and answers of the tools, containment of a grave *)
(* alert is planned and held for approval, and no plan runs a high-risk     *)
(* action on its own, also when orchestrations overlap.                     *)
THEOREM ContainmentAlwaysHeld == OscarSpec => []ContainmentIsHeld
<1>1. OscarSpec => []OscarInv
  BY OscarInitHolds, OscarNextHolds, PTL DEF OscarSpec
<1> QED BY <1>1, OscarInvIsSafe, PTL

-----------------------------------------------------------------------------
(* Types. *)

PhaseNames == {"orient", "strategize", "collect", "analyze", "report", "complete"}

LEMMA PhaseNamesAre == PhaseNames = {Phase[i] : i \in DOMAIN Phase}
<1>1. DOMAIN Phase = 1 .. 6
  BY DEF Phase
<1>2. /\ Phase[1] = "orient" /\ Phase[2] = "strategize" /\ Phase[3] = "collect"
      /\ Phase[4] = "analyze" /\ Phase[5] = "report" /\ Phase[6] = "complete"
  BY DEF Phase
<1>3. \A i \in 1 .. 6 : i \in {1, 2, 3, 4, 5, 6}
  OBVIOUS
<1>4. {Phase[i] : i \in DOMAIN Phase} \subseteq PhaseNames
  <2> SUFFICES ASSUME NEW i \in 1 .. 6 PROVE Phase[i] \in PhaseNames
    BY <1>1
  <2> QED BY <1>2, <1>3 DEF PhaseNames
<1>5. PhaseNames \subseteq {Phase[i] : i \in DOMAIN Phase}
  <2>1. {Phase[1], Phase[2], Phase[3], Phase[4], Phase[5], Phase[6]} \subseteq {Phase[i] : i \in DOMAIN Phase}
    BY <1>1
  <2> QED BY <1>2, <2>1 DEF PhaseNames
<1> QED BY <1>4, <1>5

\* What the supervisor keeps besides what the invariant speaks of.
RestTyped ==
  /\ roster \in Rosters
  /\ state.phase \in PhaseNames
  /\ answer \in [Alert -> Alert \cup {"none"}]
  /\ overlapped \subseteq Alert

\* How a phase may end, from the state st.
Ends(st, s) == \E ph : s = Record(Advance(st), ph) \/ s = Complete(st)

LEMMA EndsTyped ==
  ASSUME NEW st, IsState(st), NEW s, Ends(st, s)
  PROVE  s.phase \in PhaseNames
<1>1. PICK ph : s = Record(Advance(st), ph) \/ s = Complete(st)
  BY DEF Ends
<1>2. CASE s = Record(Advance(st), ph)
  BY <1>2, PhaseEnds DEF NextPhase, PhaseNames
<1>3. CASE s = Complete(st)
  <2>1. PICK x : x = [st EXCEPT !.phase = "complete"]
    OBVIOUS
  <2>2. IsState(x) /\ x.phase = "complete"
    BY <2>1, PhaseSet
  <2> QED BY <1>3, <2>1, <2>2, RecordedFields DEF Complete, PhaseNames
<1> QED BY <1>1, <1>2, <1>3

LEMMA NextPhaseTyped ==
  ASSUME OscarInv, state.phase \in PhaseNames, NEW a \in Alert, Start(a) \/ Orchestrate(a)
  PROVE  state'.phase \in PhaseNames
<1>0. IsState(state)
  BY DEF OscarInv, OscarTypes
<1>1. CASE Start(a)
  BY <1>1 DEF Start, OSCARState, PhaseNames
<1>2. CASE Orient(a) \/ TriageReturns(a)
  <2>1. \/ state' = state
        \/ \E v : state' = Record(Advance([state EXCEPT !.triage = v]), "orient")
    BY <1>2 DEF Orient, TriageReturns
  <2>2. ASSUME NEW v, state' = Record(Advance([state EXCEPT !.triage = v]), "orient")
        PROVE  state'.phase \in PhaseNames
    <3>1. PICK s : s = [state EXCEPT !.triage = v]
      OBVIOUS
    <3> QED BY <1>0, <2>2, <3>1, TriageSet, EndsTyped DEF Ends
  <2> QED BY <2>1, <2>2
<1>3. CASE Strategize(a)
  <2>1. PICK ph \in {"collect", "report"} : state' = Record([state EXCEPT !.phase = ph], "strategize")
    BY <1>3 DEF Strategize
  <2>2. PICK s : s = [state EXCEPT !.phase = ph]
    OBVIOUS
  <2>3. IsState(s) /\ s.phase = ph
    BY <1>0, <2>2, PhaseSet
  <2>4. Record(s, "strategize").phase = ph
    BY <2>3, RecordedFields
  <2> QED BY <2>1, <2>2, <2>4 DEF PhaseNames
<1>4. CASE Collect(a) \/ Analyze(a)
  BY <1>0, <1>4, EndsTyped DEF Collect, Analyze, Ends
<1>5. CASE AnalysisReturns(a) \/ IntelReturns(a)
  <2>1. PICK v : \E s \in {[state EXCEPT !.analysis = v], [state EXCEPT !.intel = v]} :
          state' = s \/ state' = Record(Advance(s), "collect")
    BY <1>5 DEF AnalysisReturns, IntelReturns
  <2>2. PICK s \in {[state EXCEPT !.analysis = v], [state EXCEPT !.intel = v]} :
          state' = s \/ state' = Record(Advance(s), "collect")
    BY <2>1
  <2>3. IsState(s) /\ s.phase = state.phase
    BY <1>0, <2>2, AnalysisSet, OtherSet
  <2> QED BY <2>2, <2>3, EndsTyped DEF Ends
<1>6. CASE Report(a) \/ ResponseReturns(a)
  <2>1. \/ state' = state \/ state' = Complete(state)
        \/ \E v : state' = [state EXCEPT !.response = v] \/ state' = Complete([state EXCEPT !.response = v])
    BY <1>6 DEF Report, ResponseReturns
  <2>2. ASSUME NEW v, state' = [state EXCEPT !.response = v] \/ state' = Complete([state EXCEPT !.response = v])
        PROVE  state'.phase \in PhaseNames
    <3>1. PICK s : s = [state EXCEPT !.response = v]
      OBVIOUS
    <3>2. IsState(s) /\ s.phase = state.phase
      BY <1>0, <3>1, ResponseSet
    <3> QED BY <2>2, <3>1, <3>2, EndsTyped DEF Ends
  <2> QED BY <1>0, <2>1, <2>2, EndsTyped DEF Ends
<1>7. CASE DocsReturn(a)
  <2>1. \E v : \/ state' = Record(Advance([state EXCEPT !.errors = v]), "report")
               \/ state' = Complete([state EXCEPT !.docs = v])
    BY <1>7 DEF DocsReturn
  <2>2. PICK v : \E s \in {[state EXCEPT !.errors = v], [state EXCEPT !.docs = v]} : Ends(s, state')
    BY <2>1 DEF Ends
  <2>3. PICK s \in {[state EXCEPT !.errors = v], [state EXCEPT !.docs = v]} : Ends(s, state')
    BY <2>2
  <2>4. IsState(s)
    BY <1>0, <2>3, OtherSet
  <2> QED BY <2>3, <2>4, EndsTyped
<1>8. CASE Finish(a)
  BY <1>8 DEF Finish
<1> QED BY <1>1, <1>2, <1>3, <1>4, <1>5, <1>6, <1>7, <1>8 DEF Orchestrate

LEMMA NextRestTyped == OscarInv /\ RestTyped /\ [OscarNext]_oscarVars => RestTyped'
<1> SUFFICES ASSUME OscarInv, RestTyped, [OscarNext]_oscarVars PROVE RestTyped'
  OBVIOUS
<1>0. state.alert \in Alert \cup {"none"}
  BY DEF OscarInv, OscarTypes
<1>1. ASSUME NEW a \in Alert, Start(a) \/ Orchestrate(a) PROVE RestTyped'
  <2>1. state'.phase \in PhaseNames
    BY <1>1, NextPhaseTyped DEF RestTyped
  <2>2. roster' = roster
    BY <1>1 DEF Start, Orchestrate, Orient, TriageReturns, Strategize, Collect, AnalysisReturns, IntelReturns,
                Analyze, Report, ResponseReturns, DocsReturn, Finish, Await, Continue, Returned
  <2>3. answer' = answer \/ answer' = [answer EXCEPT ![a] = state.alert]
    BY <1>1 DEF Start, Orchestrate, Orient, TriageReturns, Strategize, Collect, AnalysisReturns, IntelReturns,
                Analyze, Report, ResponseReturns, DocsReturn, Finish, Await, Continue, Returned
  <2>4. overlapped' \subseteq Alert
    <3>1. CASE Start(a)
      BY <3>1 DEF Start, RestTyped
    <3>2. CASE Orchestrate(a)
      BY <3>2 DEF RestTyped, Orchestrate, Orient, TriageReturns, Strategize, Collect, AnalysisReturns,
                  IntelReturns, Analyze, Report, ResponseReturns, DocsReturn, Finish, Await, Continue, Returned
    <3> QED BY <1>1, <3>1, <3>2
  <2>5. answer' \in [Alert -> Alert \cup {"none"}]
    BY <1>0, <2>3 DEF RestTyped
  <2> QED BY <2>1, <2>2, <2>4, <2>5 DEF RestTyped
<1>2. CASE UNCHANGED oscarVars
  BY <1>2 DEF oscarVars, RestTyped
<1> QED BY <1>1, <1>2 DEF OscarNext

(* Types, for any alerts, payloads and rosters. *)
THEOREM TypeCorrect == OscarSpec => []OscarTypeOK
<1>1. OscarInit => RestTyped
  BY DEF OscarInit, RestTyped, OSCARState, PhaseNames
<1>2. OscarInv /\ RestTyped => OscarTypeOK
  BY PhaseNamesAre, RosterAssumption DEF OscarInv, OscarTypes, RestTyped, OscarTypeOK, Place
<1> QED BY <1>1, <1>2, OscarInitHolds, OscarNextHolds, NextRestTyped, PTL DEF OscarSpec
================================================================================
