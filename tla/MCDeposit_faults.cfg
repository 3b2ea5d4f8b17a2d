\* Two pulls that may be of two processes, one replay; crashes, failed statements, lost answers.
CONSTANTS
  Users = {u1}
  MaxLength = 3
  Amounts = {4, 5}
  MinAmount = 5
  Chunk = 2
  Pulls = {c1, a1}
  CronPulls = {c1}
  Replays = {p1}
  Faults = {"crash", "sql", "lost", "rpc"}
SPECIFICATION Spec
INVARIANTS DepositTypeOK CreditedOnce
PROPERTY ImplementsDepositOnce
