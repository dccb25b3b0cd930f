------------------------------- MODULE MCSupport -------------------------------
(***************************************************************************)
(* The stores and services that stand by themselves, on one instance: the  *)
(* agents' memories, the cases in TheHive, the analysts' desk, the         *)
(* escalation of an alert and the signed audit log.  They share no state   *)
(* and no step of one reads another's, so what holds of each along the     *)
(* behaviours that use it alone holds of them together: a behaviour uses   *)
(* one of them, and their state spaces add up instead of multiplying.      *)
(***************************************************************************)
EXTENDS AgentMemory, IncidentMemory, DataMesh, CaseService, MdrDesk, SlaTracking,
        AuditLog

CONSTANTS e1, e2, e3, t1, t2, m1, m2, m3, w1, w2, c1, c2, a1, a2, al1, al2

VARIABLE used

parts == <<agentMemory, incidentMemory, mesh, caseService, desk, slaTracking, auditLog>>

vars == <<used, parts>>

MCKinds == {[type |-> "episodic", domain |-> "agent", vec |-> "near"],
            [type |-> "episodic", domain |-> "hunt", vec |-> "near"],
            [type |-> "alert", domain |-> "siem", vec |-> "zero"]}

MCCaseAlerts == {[severity |-> "informational", indicators |-> <<"ip", "host", "hash">>],
                 [severity |-> "high", indicators |-> <<"user">>]}

MCLimit == (a1 :> 2) @@ (a2 :> 1)
MCExpertise == (a1 :> {"incident_response"}) @@ (a2 :> {"T1566"})
MCRequired == (al1 :> {"incident_response"}) @@ (al2 :> {})
MCTechniques == (al1 :> {"T1566"}) @@ (al2 :> {})

\* About the terms and the delays.
MCAges == {4, 5, 15, 16, 30, 60, 61, 120, 241, 480, 1441, 5761, 14401}

Init ==
  /\ used \in {"agent", "incident", "mesh", "cases", "desk", "sla", "log"}
  /\ AgentMemoryInit /\ IncidentMemoryInit /\ MeshInit
  /\ CaseServiceInit /\ DeskInit /\ SlaInit /\ AuditLogInit
  /\ used = "sla" \/ ticket.priority = "P1"
  /\ used = "mesh" \/ client = [awaitable |-> FALSE, vectors |-> FALSE]

Next ==
  \/ /\ used = "agent" /\ AgentMemoryNext
     /\ UNCHANGED <<used, incidentMemory, mesh, caseService, desk, slaTracking, auditLog>>
  \/ /\ used = "incident" /\ IncidentMemoryNext
     /\ UNCHANGED <<used, agentMemory, mesh, caseService, desk, slaTracking, auditLog>>
  \/ /\ used = "mesh" /\ MeshNext
     /\ UNCHANGED <<used, agentMemory, incidentMemory, caseService, desk, slaTracking, auditLog>>
  \/ /\ used = "cases" /\ CaseServiceNext
     /\ UNCHANGED <<used, agentMemory, incidentMemory, mesh, desk, slaTracking, auditLog>>
  \/ /\ used = "desk" /\ DeskNext
     /\ UNCHANGED <<used, agentMemory, incidentMemory, mesh, caseService, slaTracking, auditLog>>
  \/ /\ used = "sla" /\ SlaNext
     /\ UNCHANGED <<used, agentMemory, incidentMemory, mesh, caseService, desk, auditLog>>
  \/ /\ used = "log" /\ AuditLogNext
     /\ UNCHANGED <<used, agentMemory, incidentMemory, mesh, caseService, desk, slaTracking>>

Spec == Init /\ [][Next]_vars
================================================================================
