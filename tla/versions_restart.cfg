\* Restarts between saves; every write succeeds.
CONSTANTS
  Version = {v1, v2}
  MaxContent = 2
  MaxSaves = 3
  EditsVars = FALSE
  Restarts = TRUE
  Faults = FALSE
SPECIFICATION VersionsSpec
INVARIANT AllVersionsListed
CHECK_DEADLOCK FALSE
