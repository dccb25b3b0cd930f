\* Two clients; two units to a token, so that refills leave half tokens; a
\* burst of one call, two calls for all; windows in which the hour binds first.
CONSTANTS
  Client = {c1, c2}
  Watched = c1
  Cost = 2
  Burst = 2
  PerMinute = 4
  PerHour = 4
  MinuteRate = 2
  HourRate = 1
  MaxTicks = 3
SPECIFICATION FairSpec
INVARIANT WindowBounded
PROPERTIES KeepsBudgets SomeAdmitted
