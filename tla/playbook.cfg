\* Four steps, one of them parallel: order, failures and completion.
\* Edits, reverts, restarts, failed writes and crashes in the middle of a save.
CONSTANTS
  enrich = enrich
  log = log
  block = block
  isolate = isolate
  notify = notify
  webhook = webhook
  escalate = escalate
  Action = {enrich, log, block, isolate, notify, webhook, escalate}
  Steps = 4
  Actions <- MCActions
  Parallel = {2}
  Guarded = {3, log, notify}
  Handled = {enrich, log, block, isolate, notify, escalate}
  Version = {v1, v2}
  MaxContent = 2
  MaxSaves = 3
  EditsVars = TRUE
  Restarts = TRUE
  Faults = TRUE
SPECIFICATION MCSpec
INVARIANTS StepsAreBarriers CompletedIsClean HistoryIsSound
PROPERTIES NothingStartsAfterFailure ExecutionEnds ListedStaysOnDisk
CHECK_DEADLOCK FALSE
