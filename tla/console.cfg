\* Two requests, an analyst, a sweeper, two failing commands.
\* One user, known or not; four token pairs; two failures per window.
CONSTANTS
  Req = {r1, r2}
  Analyst = {a1}
  Sweeper = {s1}
  MaxFaults = 2
  User = {u1}
  Ip = {i1}
  MaxPairs = 4
  AccessLife = 2
  RefreshLife = 3
  MaxAttempts = 2
  Window = 2
SPECIFICATION MCSpec
INVARIANTS ListsFollowRecords ListsAgree SingleUse GuessesBounded
PROPERTIES DecisionsStand SweepSettles LogoutShutsOut LimitEnds
CHECK_DEADLOCK FALSE
