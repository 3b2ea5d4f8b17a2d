\* One process that crashes and restarts, statements that fail without or with effect, sends whose answer is lost,
\* deadlines, reverted and dropped transfers.
CONSTANTS
  Users = {u1}
  NoUser = NoUser
  Instances = {i1}
  Requests = {r1, r2}
  Workers = {w1, c1}
  CronWorkers = {c1}
  NoWorker = NoWorker
  MaxId = 3
  MaxTx = 2
  MaxAmount = 4
  Amounts = {2}
  FeeBp = 5000
  MaxUSDT = 1
  QueueLimit = 2
  Faults = {"crash", "sql", "answer", "send", "rpc", "timeout", "revert", "drop"}
  Home <- OneProcess
  Funds <- SmallFunds
  Legacy <- PendingRow
SYMMETRY RequestSymmetry
SPECIFICATION Spec
INVARIANTS TypeOK PassMeansPaid PassHashPaid NoMoneyFromNothing
PROPERTIES NoSendOnceRecorded SettledIsFinal
