\* A verdict of the signed log against what verify_signature says it means; the
\* instance of support.cfg.
CONSTANTS
  e1 = e1
  e2 = e2
  e3 = e3
  t1 = t1
  t2 = t2
  m1 = m1
  m2 = m2
  m3 = m3
  w1 = w1
  w2 = w2
  c1 = c1
  c2 = c2
  a1 = a1
  a2 = a2
  al1 = al1
  al2 = al2
  Entry = {e1, e2, e3}
  Task = {t1, t2}
  HistorySize = 2
  MaxEpoch = 1
  Writer = {w1, w2}
  KeptRuns = 3
  WindowSize = 2
  MaxRuns = 6
  MaxNotes = 3
  Memory = {m1, m2, m3}
  Kinds <- MCKinds
  MaxNow = 2
  MaxMerges = 2
  CaseAlert <- MCCaseAlerts
  Caller = {c1, c2}
  MaxObservables = 2
  MaxCases = 3
  Analyst = {a1, a2}
  Limit <- MCLimit
  Expertise <- MCExpertise
  DeskAlert = {al1, al2}
  Required <- MCRequired
  Techniques <- MCTechniques
  MaxHour = 2
  ShiftHours = 1
  MaxShifts = 2
  MaxEntries = 3
  Ages <- MCAges
SPECIFICATION Spec
INVARIANT FalseMeansTampered
CHECK_DEADLOCK FALSE
