\* Two admins replay the same skipped deposit.
CONSTANTS
  Users = {u1}
  MaxLength = 1
  Amounts = {4, 5}
  MinAmount = 5
  Chunk = 2
  Pulls = {c1}
  CronPulls = {c1}
  Replays = {p1, p2}
  Faults = {}
SYMMETRY ReplaySymmetry
SPECIFICATION Spec
INVARIANT CreditedOnce
