\* Every transport, two sessions, two messages.
CONSTANTS
  Transport = {"service", "package", "stdio"}
  Session = {s1, s2}
  Post = {p1, p2}
  Imports <- MCImports
  Reloads <- MCReloads
  AgentTools <- MCAgentTools
  Messages <- MCMessages
SPECIFICATION ServerFairSpec
INVARIANTS CopiesAreFaithful StreamsCarryTheirAnswers EveryRunIsAudited
PROPERTY EveryMessageAnswered
