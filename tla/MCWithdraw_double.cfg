\* One process that may crash between a transfer and the record of its hash.
CONSTANTS
  Users = {u1}
  NoUser = NoUser
  Instances = {i1}
  Requests = {r1}
  Workers = {w1, c1}
  CronWorkers = {c1}
  NoWorker = NoWorker
  MaxId = 3
  MaxTx = 2
  MaxAmount = 4
  Amounts = {2}
  FeeBp = 5000
  MaxUSDT = 1
  QueueLimit = 2
  Faults = {"crash"}
  Home <- OneProcess
  Funds <- SmallFunds
  Legacy <- PendingRow
SPECIFICATION Spec
INVARIANT AtMostOneTransfer
