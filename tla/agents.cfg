\* The four agents, a second triage agent, an agent that gives capabilities up;
\* LangGraph's default recursion limit.
CONSTANTS
  t1 = t1
  t2 = t2
  an = an
  re = re
  ti = ti
  Client = {c1}
  BuiltIn <- MCBuiltIn
  Offers <- MCOffers
  Dicts <- MCDicts
  Wazuh <- MCWazuh
  Rules <- MCRules
  RecursionLimit = 25
SPECIFICATION MCSpec
INVARIANTS IndexFollowsAgents PlansAreSound
PROPERTIES RoutesSoundly EveryRequestAnswered
CHECK_DEADLOCK FALSE

