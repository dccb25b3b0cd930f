\* Two alerts on one supervisor, every roster, every answer of the tools.
CONSTANTS
  a1 = a1
  a2 = a2
  Alert <- MCAlert
  Payloads <- MCPayloads
  Rosters <- MCRosters
  HighRisk <- MCHighRisk
  MitreHits <- MCMitreHits
  Builder = "injected"
SPECIFICATION OscarFairSpec
INVARIANTS TreatedAsRated ContainmentIsHeld
PROPERTY EveryAlertAnswered
CHECK_DEADLOCK FALSE
