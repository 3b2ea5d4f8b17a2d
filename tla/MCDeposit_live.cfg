\* A cron, an admin who pulls and one who replays; rounds run out of time and chain calls fail.
CONSTANTS
  Users = {u1}
  MaxLength = 3
  Amounts = {4, 5}
  MinAmount = 5
  Chunk = 2
  Pulls = {c1, a1}
  CronPulls = {c1}
  Replays = {p1}
  Faults = {"rpc"}
SPECIFICATION FairSpec
INVARIANT NoDepositForgotten
PROPERTY RegisteredIsCredited
CHECK_DEADLOCK FALSE
