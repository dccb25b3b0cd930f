------------------------------ MODULE CaseService ------------------------------
(***************************************************************************)
(* Cases in TheHive made from alerts (agent-sdk, case_service.py).  A      *)
(* creation is one request for the case and then one for each of the first *)
(* indicators, in order, provided that the answer names the case by "id":  *)
(* what becomes of the indicators the caller is not told.                  *)
(* Each request may fail before or after TheHive acted on it, and callers  *)
(* that are told of an error try again: nothing is idempotent.             *)
(***************************************************************************)
EXTENDS Naturals, Sequences, FiniteSets

CONSTANTS
  CaseAlert,      \* alerts: [severity, indicators : Seq of distinct ones]
  Caller,         \* concurrent callers
  MaxObservables, \* how many indicators become observables (10)
  MaxCases        \* bound on the cases

ASSUME CaseAssumption ==
  /\ MaxObservables \in Nat /\ MaxCases \in Nat
  /\ \A alert \in CaseAlert :
       /\ Len(alert.indicators) \in Nat
       /\ DOMAIN alert.indicators = 1 .. Len(alert.indicators)

VARIABLES
  cases,    \* TheHive's cases, in the order of creation: [alert, severity, status, observables]
  creation, \* [Caller -> [alert, case, next]]: the creation each is in, or Unoccupied
  dropped,  \* <<case, indicator>> whose request failed (no code knows)
  returned, \* the cases create_case_from_alert has returned
  unnamed   \* those of them whose answer had no "id"

caseService == <<cases, creation, dropped, returned, unnamed>>

Unoccupied == [case |-> 0]

Creating(c) == creation[c].case # 0

CaseServiceInit ==
  /\ cases = <<>> /\ dropped = {} /\ returned = {} /\ unnamed = {}
  /\ creation = [c \in Caller |-> Unoccupied]

\* A request may fail with or without effect, or return.
Response == {r \in [effect : BOOLEAN, returns : BOOLEAN] : r.returns => r.effect}

\* A severity TheHive has no number for is "medium".
MapSeverity(s) == IF s \in {"low", "medium", "high", "critical"} THEN s ELSE "medium"

NewCase(alert) == [alert |-> alert, severity |-> MapSeverity(alert.severity), status |-> "New",
                   observables |-> {}]

-----------------------------------------------------------------------------
\* The answer may name the case by "id", or only by "_id" as TheHive's /api/v1 does:
\* without "id" no observable is added and the case is returned at once.
CreateCase(c, alert) ==
  LET k == Len(cases) + 1 IN
  /\ ~Creating(c)
  /\ Len(cases) < MaxCases
  /\ \E r \in Response, named \in BOOLEAN :
       /\ cases' = IF r.effect THEN Append(cases, NewCase(alert)) ELSE cases
       /\ creation' = IF r.returns /\ named
                      THEN [creation EXCEPT ![c] = [alert |-> alert, case |-> k, next |-> 1]]
                      ELSE creation
       /\ returned' = IF r.returns /\ ~named THEN returned \cup {k} ELSE returned
       /\ unnamed' = IF r.returns /\ ~named THEN unnamed \cup {k} ELSE unnamed
  /\ UNCHANGED dropped

\* Bug variant: the first failure ends the loop.
MutStopsAtFailure(c, ok) == IF ok THEN creation[c].next + 1 ELSE MaxObservables + 1

NextObservable(c, ok) == creation[c].next + 1

Observables(alert) == {i \in DOMAIN alert.indicators : i <= MaxObservables}

AddObservable(c) ==
  LET i == creation[c].next
      k == creation[c].case
  IN
  /\ Creating(c)
  /\ i \in Observables(creation[c].alert)
  /\ \E r \in Response :
       /\ cases' = IF r.effect
                   THEN [cases EXCEPT ![k].observables = @ \cup {creation[c].alert.indicators[i]}]
                   ELSE cases
       /\ dropped' = IF r.effect THEN dropped
                     ELSE dropped \cup {<<k, creation[c].alert.indicators[i]>>}
       /\ creation' = [creation EXCEPT ![c].next = NextObservable(c, r.returns)]
  /\ UNCHANGED <<returned, unnamed>>

CreateCaseFromAlert(c) ==
  /\ Creating(c)
  /\ creation[c].next \notin Observables(creation[c].alert)
  /\ returned' = returned \cup {creation[c].case}
  /\ creation' = [creation EXCEPT ![c] = Unoccupied]
  /\ UNCHANGED <<cases, dropped, unnamed>>

\* update_case writes whatever it is given, whatever the case was.
UpdateCase(k, status) ==
  /\ \E r \in Response : cases' = IF r.effect THEN [cases EXCEPT ![k].status = status] ELSE cases
  /\ UNCHANGED <<creation, dropped, returned, unnamed>>

CloseCase(k) == UpdateCase(k, "Resolved")

CaseServiceNext ==
  \/ \E c \in Caller, alert \in CaseAlert : CreateCase(c, alert)
  \/ \E c \in Caller : AddObservable(c) \/ CreateCaseFromAlert(c)
  \/ \E k \in DOMAIN cases : CloseCase(k) \/ UpdateCase(k, "In Progress")

-----------------------------------------------------------------------------
Due(alert) == {alert.indicators[i] : i \in Observables(alert)}

(* A case the caller was given has, of its alert's first indicators, all but *)
(* those whose own request failed, and none of another alert's: one failure  *)
(* costs one observable, whoever creates, updates or closes cases meanwhile. *)
(* The exception is a case whose answer had no "id", which gets none.        *)
ReturnedCasesAreWhole ==
  \A k \in returned :
    /\ cases[k].observables \subseteq IF k \in unnamed THEN {} ELSE Due(cases[k].alert)
    /\ \A x \in Due(cases[k].alert) \ cases[k].observables : <<k, x>> \in dropped \/ k \in unnamed
================================================================================
