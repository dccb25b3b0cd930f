--------------------------- MODULE MCOscarSupervisor ---------------------------
\* Model values for OscarSupervisor: the alerts, rosters and tool answers tried.
EXTENDS OscarSupervisor

CONSTANTS a1, a2

MCAlert == {a1, a2}

\* What distinguishes the alerts tried below.
Base == [severity |-> "unstated", level |-> 0, keywords |-> {}, source |-> TRUE,
         destination |-> FALSE, user |-> FALSE, host |-> "medium", hours |-> <<1, 1>>]

MCPayloads ==
  {[Base EXCEPT !.level = 12, !.keywords = {"malware"}],
   [Base EXCEPT !.level = 4, !.keywords = {"ransomware"}, !.host = "critical"],
   [Base EXCEPT !.severity = "low", !.keywords = {"brute", "malware"}, !.host = "absent",
                !.hours = <<1, 1, 5>>]}

MCRosters == {Agent, {"silver-analysis", "silver-response"}, {"silver-intel", "silver-docs"}, {}}

MCHighRisk == {"isolate_host", "block_ip", "disable_user", "quarantine_file"}

MCMitreHits == {[n |-> 4, critical |-> TRUE]}
================================================================================
