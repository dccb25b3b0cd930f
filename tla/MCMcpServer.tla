----------------------------- MODULE MCMcpServer -------------------------------
\* Model values for McpServer: two sessions; messages that suspend, that are
\* answered at once and that are not answered; one tool that is loaded again,
\* one that an agent registers under its name, and one that is not there until
\* an agent registers it.
EXTENDS McpServer

MCImports == ResponseTools

MCReloads == {[name |-> "isolate_host", tags |-> {"response"}, approval |-> FALSE, rev |-> "reload"]}

MCAgentTools ==
  {[name |-> name, tags |-> {"agent"}, approval |-> TRUE, rev |-> "agent"] :
     name \in {"isolate_host", "block_domain"}}

Message(method, id, arg) == [method |-> method, id |-> id, arg |-> arg]

MCMessages ==
  {Message("ping", "none", "none"), Message("tools/call", "own", "isolate_host"),
   Message("tools/call", "own", "block_domain"), Message("resources/read", "own", "cases://recent"),
   Message("no/method", "zero", "none")}
================================================================================
